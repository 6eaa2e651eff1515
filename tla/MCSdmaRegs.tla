---------------------------- MODULE MCSdmaRegs ----------------------------
(* Model-checking instance of SdmaRegs: two drivers in one process, as in  *)
(* the audio driver, which attaches a channel for each direction.          *)
EXTENDS SdmaRegs, TLC

CONSTANTS c1, c2, P1

MCHome == c1 :> P1 @@ c2 :> P1
===========================================================================
