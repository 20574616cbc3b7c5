------------------------------ MODULE MCRollout ------------------------------
(* Instances of the rollout for TLC. *)
EXTENDS Rollout, TLC

wifi == [type |-> "wifi", ota |-> TRUE,  max |-> 16, cost |-> 2]
lora == [type |-> "lora", ota |-> FALSE, max |-> 1,  cost |-> 0]

Live(state, transports, via) ==
    [state |-> state, silent |-> 0,
     cap |-> [transports |-> transports, via |-> via, battery |-> 80, mah |-> 100]]

\* An OTA-capable device, and a LoRa-only one, up now and then, that must be
\* refused.
CapableLiveness == {Live(s, {wifi}, {"wifi"}) : s \in {"Online", "Sleeping"}}
LoraLiveness    == {Live("Online", {lora}, {})}

OtaRequired == [ota |-> TRUE, minBattery |-> 25, maxSilent |-> NoTime]

\* A capable device that is asleep now and then, one that is not, and a LoRa node.
MixedFleet == (1 :> CapableLiveness) @@ (2 :> {Live("Online", {wifi}, {"wifi"})}) @@ (3 :> LoraLiveness)
\* Capable devices, the second asleep now and then.
NappingFleet == (1 :> {Live("Online", {wifi}, {"wifi"})}) @@ (2 :> CapableLiveness)
\* Capable devices that are always online.
OnlineFleet == [d \in Device |-> {Live("Online", {wifi}, {"wifi"})}]

\* Nobody reboots but to install; the first device may boot over and over.
NoReboots    == [d \in Device |-> 0]
FirstReboots == [d \in Device |-> IF d = 1 THEN 2 ELSE 0]

HalfThenAll == <<50, 100>>
AllAtOnce   == <<100>>

NoWindows  == <<>>
OneWindow  == <<[selects |-> TRUE, max |-> 1]>>
TwoWindows == <<[selects |-> TRUE, max |-> 0], [selects |-> TRUE, max |-> 1]>>
=============================================================================
