---------------------------- MODULE MCReporting ----------------------------
(* Deployments of the reporting chain for TLC. *)
EXTENDS Reporting

\* A LoRa node behind a gateway, a WiFi board judged by one property and with
\* its thresholds overridden, a node with both doors and no thresholds of
\* its own.
LoraNode ==
    [gateway |-> TRUE, kinds |-> {"relayed"}, interval |-> 1, mult |-> 2,
     specInterval |-> 0, specMult |-> 0, only |-> AnyProperty]
WifiBoard ==
    [gateway |-> FALSE, kinds |-> {"direct"}, interval |-> 2, mult |-> 0,
     specInterval |-> 1, specMult |-> 2, only |-> CHOOSE p \in Property : TRUE]
TwoDoors ==
    [gateway |-> FALSE, kinds |-> {"direct", "relayed"}, interval |-> 0, mult |-> 0,
     specInterval |-> 0, specMult |-> 0, only |-> AnyProperty]

Deployments == {LoraNode, WifiBoard, TwoDoors}
JustLora == {LoraNode}
=============================================================================
