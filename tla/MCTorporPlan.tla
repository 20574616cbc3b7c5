--------------------------- MODULE MCTorporPlan ---------------------------
(* Instances of the fleet and of `torpor plan` for TLC. *)
EXTENDS TorporPlan

Door(type, availability, max) ==
    [type |-> type, availability |-> availability, config |-> NoValue, ota |-> NoValue,
     max |-> max, cost |-> NoValue]

Device(transports, gateway, role) ==
    [cfg |-> [transports |-> transports, gateway |-> gateway], transport |-> NoValue,
     role |-> role, interval |-> 2, mult |-> 2]

\* A Thread node whose largest image is also the largest credential, a node that
\* is always on LoRa and sometimes on WiFi (a declared limit of 0 is the default
\* one), and one behind a gateway.
Mixed ==
    [thread |-> Device({Door("thread", NoValue, 2048)}, FALSE, "meter"),
     ladder |-> Device({Door("lora", NoValue, NoValue), Door("wifi", "opportunistic", 0)},
                       FALSE, "meter"),
     node |-> Device({}, TRUE, "meter")]

Period(cron, dur, from, until) == [cron |-> cron, dur |-> dur, from |-> from, until |-> until]
At(hour, dow) == [hour |-> hour, dow |-> dow]

\* In a calendar of four-hour days and three-day weeks: every day from one for two
\* hours, and late on the third day once that is allowed; but for the meters not
\* from the third day at two for six hours, nor in one absolute
\* period.  The third window selects nothing here.
Overlapping ==
    {[roles |-> NoValue, deny |-> <<>>,
      allow |-> <<Period(At(1, Any), 2, Nil, Nil), Period(At(3, 1), Nil, 6, Nil)>>],
     [roles |-> {"meter"},
      deny |-> <<Period(At(2, 2), 6, Nil, Nil), Period(NoCron, Nil, 4, 5),
                 Period(BadCron, Nil, Nil, Nil)>>,
      allow |-> <<>>],
     [roles |-> {"valve"}, deny |-> <<Period(NoCron, Nil, Nil, 100)>>, allow |-> <<>>]}

\* From Friday at six for sixty-three hours.
Weekend ==
    {[roles |-> NoValue, deny |-> <<Period(At(18, 5), 63, Nil, Nil)>>, allow |-> <<>>]}

ToMeters == [role |-> "meter", size |-> 2048,
             requires |-> [ota |-> TRUE, minBattery |-> 25, maxSilent |-> 1]]
ToV42 == [expect |-> "v42", ignoreSleeping |-> FALSE]
Certificates == [warn |-> 4, size |-> 2048]
Expiries == [thread |-> 9, ladder |-> 20, node |-> 30]

Twin(hash, battery, mah, via) ==
    [hash |-> hash, battery |-> battery, mah |-> mah, via |-> via]
Twins ==
    {Twin("v41", 80, 0, NoValue), Twin("v42", 80, 50, NoValue), Twin("v41", 20, 0, NoValue),
     Twin("", 0, 0, NoValue), Twin("v41", 80, 0, {"wifi"})}
=============================================================================
