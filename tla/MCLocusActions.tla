-------------------------- MODULE MCLocusActions --------------------------
(* A request, and a second attempt that retries it, uses its id again with *)
(* the same or with other content, or is another request, against a store  *)
(* that keeps one tombstone or none.                                       *)
EXTENDS LocusActions

MCAttempt == {"first", "second"}
Use(r, k, retry) == [req |-> r, content |-> k, retry |-> retry]
Then(second, most) ==
    [uses |-> [a \in MCAttempt |-> IF a = "first" THEN Use("r1", 1, FALSE) ELSE second],
     maxTombs |-> most]
MCScenario ==
    { Then(Use("r1", 1, TRUE), 1), Then(Use("r1", 1, FALSE), 0),
      Then(Use("r1", 2, FALSE), 1), Then(Use("r2", 1, FALSE), 1) }
===========================================================================
