---------------------------- MODULE MCSerialTx ----------------------------
(* Model-checking instance of SerialTx.                                    *)
EXTENDS SerialTx

(* Clients change the line settings, or flow-control characters are        *)
(* injected.                                                               *)
MCInit == TxInit /\ stty + injects = 1

MCSpec == MCInit /\ [][TxNext]_txVars /\ TxFairness
===========================================================================
