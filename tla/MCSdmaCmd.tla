---------------------------- MODULE MCSdmaCmd ----------------------------
(* Model-checking instances of SdmaCmd: two threads of one process, the    *)
(* first of which calls twice, and a thread of another process.            *)
EXTENDS SdmaCmd, TLC

CONSTANTS t1, t2, t3, P1, P2

MCHome == t1 :> P1 @@ t2 :> P1 @@ t3 :> P2
MCCalls == t1 :> 2 @@ t2 :> 1 @@ t3 :> 1
=============================================================================
