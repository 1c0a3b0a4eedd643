------------------------- MODULE MCSignalIngestion -------------------------
(* Instances of SignalIngestion for TLC. *)
EXTENDS SignalIngestion, TLC

Observation(event, digest, occurrence, scope, started, observed, state, severity) ==
    [event |-> event, digest |-> digest, kind |-> "alert", occurrence |-> occurrence,
     scope |-> scope, started |-> started, observed |-> observed, state |-> state,
     severity |-> severity, error |-> "none"]

Change(event, digest, scope) ==
    [Observation(event, digest, 9, scope, 0, 2, "firing", "info") EXCEPT !.kind = "change"]

\* Anchors at 0 and 2 are apart, one at 1 is within reach of both and overflows; event 4
\* repeats its content.
Overflowing ==
    {Observation(1, 1, 1, 1, 0, 2, "firing", "info"),
     Observation(2, 2, 2, 1, 2, 2, "firing", "high"),
     Observation(3, 3, 3, 1, 1, 2, "firing", "critical"),
     Observation(4, 3, 3, 1, 1, 2, "firing", "critical")}

\* One alert fires, fires again and resolves, in any order; another is near it.
Refiring ==
    {Observation(1, 1, 1, 1, 0, 2, "firing", "info"),
     Observation(2, 2, 1, 1, 0, 3, "firing", "low"),
     Observation(3, 3, 1, 1, 0, 3, "firing", "critical"),
     Observation(4, 4, 1, 1, 0, 3, "resolved", "low"),
     Observation(5, 5, 2, 1, 1, 2, "firing", "medium")}

\* An event id used for two contents, an occurrence claimed by two services of which one
\* is registered late, one that has two rows, a malformed body.
Irregular ==
    {Change(1, 1, 1),
     Observation(1, 2, 1, 1, 0, 2, "firing", "info"),
     Observation(2, 3, 1, 2, 0, 3, "firing", "info"),
     Observation(4, 5, 7, 1, 0, 2, "firing", "info"),
     [Observation(3, 4, 1, 1, 0, 2, "firing", "info") EXCEPT !.error = "invalid_signal"]}

Deliveries == {Overflowing, Refiring, Irregular}

SessionSymmetry == Permutations(Sessions)
=============================================================================
