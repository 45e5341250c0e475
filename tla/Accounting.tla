----------------------------- MODULE Accounting -----------------------------
(***************************************************************************)
(* The token counters of debitmetre (src/src/usage.rs): how one upstream   *)
(* `usage` object becomes the canonical counters of an audit record and    *)
(* the quality mark that says how far they can be trusted.                 *)
(*                                                                         *)
(* A JSON object is a function from the member paths it holds to values; a *)
(* nested member is named by its dotted path, and an inner object that is  *)
(* missing is a path outside the domain.  A value that is not an unsigned  *)
(* integer of the counters' width (a string, null, a negative or a too     *)
(* large number) is anything outside U64.                                  *)
(***************************************************************************)
EXTENDS Naturals, Sequences, FiniteSetsExt

CONSTANTS
    None,       \* Rust's Option::None
    MaxU64      \* the largest value a counter can hold (2^64 - 1 in the code)

ASSUME MaxU64Assumption == MaxU64 \in Nat
ASSUME NoneAssumption == None \notin Nat

U64 == 0..MaxU64
OptU64 == U64 \cup {None}

Quality == {"complete", "partial", "inconsistent", "unavailable"}

\* Plausible bug, kept to show that the properties notice it: the wrapping `+` of
\* a release build.
checked_add_wraps(a, b) == (a + b) % (MaxU64 + 1)

(* u64::checked_add and u64::checked_sub: no wrap-around, no negative result. *)
checked_add(a, b) == IF a + b > MaxU64 THEN None ELSE a + b
checked_sub(a, b) == IF b = None \/ b > a THEN None ELSE a - b

(***************************************************************************)
(* Reading a counter                                                       *)
(***************************************************************************)
as_u64(u, key) == IF key \in DOMAIN u /\ u[key] \in U64 THEN u[key] ELSE None

\* `get(k1).or_else(|| get(k2)).and_then(as_u64)`: the first key that is there
\* decides, even when its value turns out not to be a counter.
FirstPresent(u, keys) ==
    LET there == {i \in DOMAIN keys : keys[i] \in DOMAIN u}
    IN  IF there = {} THEN None ELSE as_u64(u, keys[Min(there)])

\* `as_u64(k1).or_else(|| as_u64(k2)) ...`: the first key that holds a counter.
FirstCounter(u, keys) ==
    LET good == {i \in DOMAIN keys : as_u64(u, keys[i]) # None}
    IN  IF good = {} THEN None ELSE as_u64(u, keys[Min(good)])

\* The accepted names of each counter, in the order the code tries them.
Names ==
    [input_total  |-> <<"input_tokens", "prompt_tokens">>,
     cache_read   |-> <<"input_tokens_details.cached_tokens",
                        "prompt_cache_hit_tokens", "cache_read_input_tokens">>,
     cache_write  |-> <<"input_tokens_details.cache_write_tokens",
                        "cache_write_input_tokens", "cache_write_tokens",
                        "cache_creation_input_tokens",
                        "prompt_tokens_details.cache_write_tokens">>,
     output_total |-> <<"output_tokens", "completion_tokens">>,
     reasoning    |-> <<"output_tokens_details.reasoning_tokens",
                        "completion_tokens_details.reasoning_tokens",
                        "reasoning_tokens">>,
     total        |-> <<"total_tokens">>]

extract_raw_usage(u) ==
    [input_total  |-> FirstPresent(u, Names.input_total),
     cache_read   |-> FirstCounter(u, Names.cache_read),
     cache_write  |-> FirstCounter(u, Names.cache_write),
     output_total |-> FirstPresent(u, Names.output_total),
     reasoning    |-> FirstCounter(u, Names.reasoning),
     total        |-> FirstCounter(u, Names.total)]

RawUsage == [input_total : OptU64, cache_read : OptU64, cache_write : OptU64,
             output_total : OptU64, reasoning : OptU64, total : OptU64]

(***************************************************************************)
(* The accounting basis: input_total = uncached + cache_read + cache_write *)
(***************************************************************************)
uncached_of(raw) ==
    LET sum == checked_add(raw.cache_read, raw.cache_write)
    IN  checked_sub(raw.input_total, sum)

InputDetailsPresent(raw) ==
    /\ raw.input_total # None
    /\ raw.cache_read # None
    /\ raw.cache_write # None

canonicalize(raw) ==
    LET uncached == IF InputDetailsPresent(raw) THEN uncached_of(raw) ELSE None
    IN  [usage |->
            [input_total |-> raw.input_total, uncached |-> uncached,
             cache_read |-> raw.cache_read, cache_write |-> raw.cache_write,
             output_total |-> raw.output_total, reasoning |-> raw.reasoning,
             total |-> raw.total],
         quality |-> CASE ~InputDetailsPresent(raw) -> "partial"
                       [] InputDetailsPresent(raw) /\ uncached # None -> "complete"
                       [] InputDetailsPresent(raw) /\ uncached = None -> "inconsistent"]

Usage == [input_total : OptU64, uncached : OptU64, cache_read : OptU64,
          cache_write : OptU64, output_total : OptU64, reasoning : OptU64,
          total : OptU64]

-----------------------------------------------------------------------------
(***************************************************************************)
(* What the accounting promises, as predicates of a raw record / object    *)
(***************************************************************************)

\* The three input buckets are mutually exclusive and add up to the input total
\* as mathematical integers, so no intermediate sum wrapped around (DESIGN.md 4),
\* and the derived bucket exists exactly when the quality is "complete".
BucketsAddUp(raw) ==
    LET c == canonicalize(raw)
    IN  /\ c.quality = "complete" <=> c.usage.uncached # None
        /\ c.quality = "complete" =>
             /\ c.usage.uncached \in U64
             /\ c.usage.input_total =
                  c.usage.uncached + c.usage.cache_read + c.usage.cache_write

\* With every input detail reported, the mark is "inconsistent" exactly when
\* the cache buckets together exceed the input total, whatever their size.
OverfullIsInconsistent(raw) ==
    InputDetailsPresent(raw) =>
        (canonicalize(raw).quality = "inconsistent"
            <=> raw.cache_read + raw.cache_write > raw.input_total)
=============================================================================
