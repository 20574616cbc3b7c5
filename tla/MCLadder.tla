------------------------------ MODULE MCLadder ------------------------------
(* Devices with one door and with two, for TLC. *)
EXTENDS Ladder, TLC

CONSTANTS url, amp   \* a firmware_url pinned to WiFi, and a switch

LoraDoor == [type |-> Lora, direct |-> FALSE, relayed |-> TRUE, config |-> TRUE,
             ota |-> FALSE, max |-> LoRaBytes, stale |-> 2]
WifiDoor == [type |-> Wifi, direct |-> TRUE, relayed |-> FALSE, config |-> TRUE,
             ota |-> TRUE, max |-> 0, stale |-> 1]

Switch == [known |-> TRUE, readOnly |-> FALSE, valid |-> TRUE, command |-> TRUE,
           pin |-> AnyType, size |-> 1]
Url == [Switch EXCEPT !.size = LoRaBytes + 1]

Sensor == [Switch EXCEPT !.readOnly = TRUE, !.command = FALSE]

Visitors(u, a) == url :> u @@ amp :> a

Unknown == [Switch EXCEPT !.known = FALSE]

\* WiFi before LoRa, and firmware waits for WiFi; and the order in which the
\* switch never finds its way.
Waits ==
    [declared |-> <<WifiDoor, LoraDoor>>, prefix |-> TRUE, gateway |-> FALSE,
     node |-> FALSE, interval |-> 0,
     visitor |-> Visitors([Url EXCEPT !.pin = Wifi], Unknown)]
LoraFirst ==
    [Waits EXCEPT !.declared = <<LoraDoor, WifiDoor>>,
                  !.visitor = Visitors(Unknown, Switch)]

\* One door: the legacy fields of a LoRa node and of a WiFi board, a small
\* WiFi door with a pin no type has, and declared transports without the legacy
\* fields.
LoraNode ==
    [declared |-> <<>>, prefix |-> FALSE, gateway |-> TRUE, node |-> TRUE,
     interval |-> 1,
     visitor |-> Visitors([Url EXCEPT !.valid = FALSE], Sensor)]
WifiBoard ==
    [LoraNode EXCEPT !.prefix = TRUE, !.gateway = FALSE,
                     !.visitor = Visitors(Url, Unknown)]
Pinned ==
    [Waits EXCEPT !.declared = <<[WifiDoor EXCEPT !.max = 1]>>,
                  !.visitor = Visitors([Url EXCEPT !.pin = Ota], Switch)]
NoLegacy == [Waits EXCEPT !.prefix = FALSE]

Sizes == {1, LoRaBytes + 1}
Fleet == {Waits, LoraFirst, LoraNode, WifiBoard, Pinned, NoLegacy}
JustWaits == {Waits}
=============================================================================
