------------------------------ MODULE MCVerify ------------------------------
(* Instances of the vivarium and the verifier for TLC. *)
EXTENDS Verify

Member(gateway, mode, fails, failMode, flaky, lossy) ==
    [hash |-> "v41", gateway |-> gateway, mode |-> mode, fails |-> fails,
     failMode |-> failMode, flaky |-> flaky, lossy |-> lossy]

\* A device behind a gateway whose cohort bricks on v42 and which goes quiet on
\* any other, and which drops some of its reports.
BadBatch == <<Member("gw", "intermittent", {"v42"}, "bricks", FALSE, TRUE)>>
=============================================================================
