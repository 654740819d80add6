------------------------------ MODULE MCSdCard ------------------------------
(* Instances of SdCard for TLC.                                            *)
EXTENDS SdCard
MCKinds == {[v2 |-> FALSE, hc |-> FALSE, len |-> 1024],
            [v2 |-> TRUE,  hc |-> FALSE, len |-> 512],
            [v2 |-> TRUE,  hc |-> TRUE,  len |-> 512]}
=============================================================================
