---------------------------- MODULE MCSdmaXfer ----------------------------
(* Model-checking instances of SdmaXfer.                                   *)
EXTENDS SdmaXfer

Use(notify, regen, contloop) ==
    [notify |-> notify, regen |-> regen, contloop |-> contloop, abort |-> TRUE]

(* One transfer at a time, with each way of waiting for its end; a         *)
(* repeating ring; rings that the ISR re-enables, with an event for each   *)
(* round or, as in the audio driver, for each segment.  All are aborted.   *)
Uses ==
    {Use(f, FALSE, FALSE) : f \in {"poll", "complete", "segment"}}
    \cup {Use("complete", FALSE, TRUE)}
    \cup {Use(f, TRUE, TRUE) : f \in {"complete", "segment"}}

(* The audio driver's ring.                                                *)
AudioRing == {Use("segment", TRUE, TRUE)}
=============================================================================
