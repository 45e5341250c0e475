----------------------------- MODULE MCSummary ------------------------------
(* A small instance of Summary: five records with the facts that matter. *)
EXTENDS Summary

CONSTANTS r1, r2, r3, r4, r5

\* counters as the gateway canonicalizes them
Metering(input, read, write, output) ==
    canonicalize([input_total |-> input, cache_read |-> read, cache_write |-> write,
                  output_total |-> output, reasoning |-> None, total |-> None]).usage

Fact(canonical, machine, model, effort, usage) ==
    [canonical |-> canonical, machine |-> machine, model |-> model, effort |-> effort,
     usage |-> usage]

\* Two complete records of one group whose totals saturate together, one of another
\* group without input details, one without usage, and one of another schema.
SomeFacts ==
    [r \in {r1, r2, r3, r4, r5} |->
        CASE r = r1 -> Fact(TRUE, "a", "m", "high", Metering(3, 1, 1, 0))
          [] r = r2 -> Fact(TRUE, "a", "m", None, Metering(2, 0, 1, None))
          [] r = r3 -> Fact(TRUE, "a", None, "high", Metering(None, 1, None, 2))
          [] r = r4 -> Fact(TRUE, "b", "m", "low", None)
          [] r = r5 -> Fact(FALSE, "a", "m", "high", Metering(1, 0, 0, 1))]
=============================================================================
