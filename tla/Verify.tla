------------------------------- MODULE Verify -------------------------------
(***************************************************************************)
(* `torpor verify` (cmd/verify) against a vivarium: it subscribes to one   *)
(* device, watches for a while, judges what it saw, writes a firmware      *)
(* command as a probe and waits for the echo.  Its callback records while  *)
(* main sleeps; everything it knows is the last payload of each topic.     *)
(***************************************************************************)
EXTENDS Vivarium

CONSTANT TestOTA   \* the --test-ota flag

VARIABLES
    phase,    \* "off", "watching", "probing" or "done"
    seen,     \* observer.seen: the last payload of the two topics it is read of
    heard,    \* the keys of observer.seen
    kept,     \* observer.retained["/status"]
    echoed,   \* an echo was recorded after the probe was sent
    green,    \* the checks that are OK
    verdict,
    calm      \* history: Subject was up when main subscribed and until the verdict

verifyVars == <<phase, seen, heard, kept, echoed, green, verdict, calm>>
vars == <<vivVars, verifyVars>>

Topics   == {"status", "sensor", "hash", "announce", "echo"}
Read     == {"status", "hash"}
Items    == {"status", "sensor", "hash", "announce", "firmware"}
Required == {"sensor", "hash"}

StillUp == link'[Subject] = "up" /\ Subject \notin bricking'

Unseen == [t \in Read |-> NoValue]

Init ==
    /\ VivInit
    /\ phase = "off" /\ verdict = NoValue /\ calm = FALSE
    /\ seen = Unseen /\ heard = {} /\ kept = FALSE /\ echoed = FALSE /\ green = {}

\* main connects and subscribes: the broker sends what is retained, with the
\* flag set.  Its two subscriptions are one step: a report delivered between them
\* would only be heard before the retained announcement.
Subscribe ==
    /\ phase = "off"
    /\ phase' = "watching" /\ listening' = TRUE
    /\ wire' = (IF status[Subject] = NoValue THEN <<>>
                ELSE <<Msg("status", status[Subject], TRUE)>>)
               \o (IF ~announce[Subject] THEN <<>>
                   ELSE <<Msg("announce", NoValue, TRUE)>>)
    /\ calm' = (link[Subject] = "up" /\ Subject \notin bricking)
    /\ UNCHANGED <<proc, started, organs, link, queue, status, announce, gw,
                   commands, faults, seen, heard, kept, echoed, green, verdict>>

\* The callback: observer.record.
Record ==
    /\ wire # <<>>
    /\ LET m == Head(wire)
       IN  /\ seen' = [t \in DOMAIN seen |-> IF t = m.topic THEN m.payload ELSE seen[t]]
           /\ heard' = heard \cup {m.topic}
           /\ kept' = (kept \/ (m.topic = "status" /\ m.retained))
           /\ echoed' = (echoed \/ (m.topic = "echo" /\ phase = "probing"))
    /\ wire' = Tail(wire)
    /\ UNCHANGED <<proc, started, organs, link, queue, status, announce, listening,
                   gw, commands, faults, phase, green, verdict, calm>>

checkStatus     == "status" \in heard /\ kept /\ seen["status"] = "online"
checkSensors    == "sensor" \in heard
checkRunningHash == "hash" \in heard /\ seen["hash"] # ""
checkAnnounce   == "announce" \in heard

\* report: the line that matters.
Report(ok) ==
    IF ~(Required \subseteq ok) THEN "cannot be managed"
    ELSE IF ok = Items THEN "conformant" ELSE "gaps"

\* The verdict is printed and the process ends, and with it its subscriptions.
Done(ok) ==
    /\ phase' = "done" /\ verdict' = Report(ok)
    /\ listening' = FALSE /\ wire' = <<>>
    /\ seen' = Unseen /\ heard' = {} /\ kept' = FALSE /\ echoed' = FALSE /\ green' = {}

\* The watch is over: the four checks, then the probe with the hash the device
\* reports, or a made-up one.
Check ==
    /\ phase = "watching"
    /\ LET ok == {i \in Items : \/ i = "status" /\ checkStatus
                                \/ i = "sensor" /\ checkSensors
                                \/ i = "hash" /\ checkRunningHash
                                \/ i = "announce" /\ checkAnnounce}
       IN  IF TestOTA
             THEN /\ phase' = "probing" /\ green' = ok
                  /\ UNCHANGED <<seen, heard, kept, echoed>>
                  /\ Sent(Subject, IF checkRunningHash THEN seen["hash"] ELSE Noop)
                  /\ UNCHANGED <<verdict, wire, listening>>
             ELSE Done(ok) /\ UNCHANGED queue
    /\ UNCHANGED <<proc, started, organs, link, status, announce, gw, commands,
                   faults, calm>>

\* The echo is awaited however long it takes.
EchoAwaited ==
    /\ phase = "probing" /\ echoed /\ Done(green \cup {"firmware"})
    /\ UNCHANGED <<proc, started, organs, link, queue, status, announce, gw, commands,
                   faults, calm>>

\* checkFirmware: an echo within 15 seconds, or none.  Fifteen seconds are
\* enough for everything the broker has queued.
EchoOrNot ==
    /\ phase = "probing"
    /\ \/ echoed /\ Done(green \cup {"firmware"})
       \/ /\ ~echoed /\ queue[Subject] = <<>>
          /\ \A i \in DOMAIN wire : wire[i].topic # "echo"
          /\ Done(green)
    /\ UNCHANGED <<proc, started, organs, link, queue, status, announce, gw, commands,
                   faults, calm>>

\* The verifier's own connection drops: the client reconnects without its
\* subscriptions, which are made once, and hears nothing more.
Deaf ==
    /\ listening /\ phase # "done" /\ faults < MaxFaults
    /\ listening' = FALSE /\ wire' = <<>> /\ faults' = faults + 1
    /\ calm' = FALSE
    /\ UNCHANGED <<proc, started, organs, link, queue, status, announce, gw,
                   commands, phase, seen, heard, kept, echoed, green, verdict>>

\* A step of the fleet.
Live(A) ==
    /\ A
    /\ UNCHANGED <<phase, seen, heard, kept, echoed, green, verdict>>
    /\ calm' = (calm /\ (phase = "done" \/ StillUp))

\* Nothing is left to do: the process has ended and so has the verifier.
Over == ~Alive /\ phase = "done" /\ wire = <<>> /\ UNCHANGED vars

Next == Live(VivNext) \/ Subscribe \/ Record \/ Check \/ EchoOrNot \/ Deaf \/ Over

\* The verifier's loops end, the broker delivers, callbacks and goroutines that
\* hold the mutex run on, time passes and the truth is printed periodically.
Fairness ==
    /\ WF_vars(Check) /\ WF_vars(EchoOrNot) /\ WF_vars(Record)
    /\ WF_vars(Live(Pass)) /\ WF_vars(Live(Snapshot))
    /\ \A d \in Device :
         WF_vars(Live(OnCommand(d))) /\ WF_vars(Live(BrickDisconnect(d)))

Spec == Init /\ [][Next]_vars
FairSpec == Spec /\ Fairness

-----------------------------------------------------------------------------
\* The types of the fleet (Enclosure.Run) and of the observer (observer.record):
\* above all, that whatever is flashed or probed with is a hash.
VerifyTypeOK ==
    /\ VivTypeOK
    /\ phase \in {"off", "watching", "probing", "done"}
    /\ heard \subseteq Topics /\ kept \in BOOLEAN /\ echoed \in BOOLEAN
    /\ seen \in [Read -> Payload \cup {"online", "offline"}]
    /\ seen["hash"] \in Payload /\ seen["status"] \in {NoValue, "online", "offline"}
    /\ green \subseteq Items /\ calm \in BOOLEAN
    /\ verdict \in {NoValue, "cannot be managed", "gaps", "conformant"}

\* The devices a bad hash never gets to run on: the cohort's failure mode keeps
\* it from running, FailChance does not apply, and the device was not made with
\* it (nor is it what a mangled flash leaves behind).
Spares(d) ==
    /\ ~Fleet[d].flaky
    /\ Fleet[d].failMode \in {"bricks", "ignores", "wrongHash", "reportsWithoutRunning"}
    /\ {Fleet[d].hash, "corrupt"} \cap Fleet[d].fails = {}

\* A cohort's incompatibility is no coin flip (onCommand): whatever commands
\* overlap and in whatever order their flashes end, a device never runs a hash
\* its cohort only bricks on, ignores, mangles or lies about, unless it was made
\* with it.  FailChance suspends that, so the devices it applies to are left out.
IncompatibleNeverRuns ==
    \A d \in Device : Spares(d) => organ[d].running \notin Fleet[d].fails

\* What verify calls a gap is one (main): a device that was up when it subscribed
\* and stayed up, and whose report came within the watch, is found conformant,
\* whatever was commanded meanwhile.
GapsAreReal ==
    TestOTA /\ phase = "done" /\ calm /\ verdict # "cannot be managed"
      => verdict = "conformant"

\* An outage ends (isDown): it is only ever looked at when somebody asks, and
\* still no gateway stays down while the process lives.
OutageEnds == \A g \in Gateways : gw[g].down ~> (~gw[g].down \/ ~Alive)

\* verify ends with a verdict (main): whether the device is bricked, quiet,
\* disconnected or never there, and whether or not its own connection holds.
VerifyEnds == phase # "off" ~> verdict # NoValue
=============================================================================
