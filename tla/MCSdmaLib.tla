----------------------------- MODULE MCSdmaLib -----------------------------
(* Model-checking instance of SdmaLib.                                     *)
EXTENDS SdmaLib

CONSTANT Unlocked   \* bound: the processes that come when the shared object
                    \* was created and never initialised, without nested calls

MCNext ==
    /\ Next
    /\ shm' = "created" => \A p \in Procs :
          /\ p \notin Unlocked => pc'[p] = "unloaded"
          /\ users'[p] <= 1

MCSpec == Init /\ [][MCNext]_vars /\ Fairness
============================================================================
