--------------------------- MODULE ObserverProofs ---------------------------
(***************************************************************************)
(* Proofs about Accounting and Observer: the accounting facts for every    *)
(* counter width and every usage object, and what parse_mirror concludes   *)
(* from any body, of any number of chunks and events.  Its loop is a       *)
(* recursive function, so the facts about it are proved by induction on    *)
(* the number of events; the induction is that of NatInduced, over a set   *)
(* of naturals.                                                            *)
(***************************************************************************)
EXTENDS Observer, SequenceTheorems, WellFoundedInduction, TLAPS

(***************************************************************************)
(* Accounting                                                              *)
(***************************************************************************)

\* Whatever is found under a name, as_u64 yields a counter or nothing.
LEMMA CounterOrNone ==
    ASSUME NEW u, NEW key PROVE as_u64(u, key) \in OptU64
  BY DEF as_u64, OptU64

\* Both fallback rules end in as_u64 of some name, or in nothing.
LEMMA FallbackType ==
    ASSUME NEW u, NEW keys
    PROVE  FirstPresent(u, keys) \in OptU64 /\ FirstCounter(u, keys) \in OptU64
<1>1. None \in OptU64
  BY DEF OptU64
<1> QED
  BY <1>1, CounterOrNone DEF FirstPresent, FirstCounter

\* The counters read from any object fit their type: extract_raw_usage never lets a
\* value of another type or width through.
THEOREM RawType == \A u : extract_raw_usage(u) \in RawUsage
  BY FallbackType DEF extract_raw_usage, RawUsage

\* The sum of two counters, when it is one, is their sum; otherwise it is too large.
LEMMA SumFits ==
    ASSUME NEW a \in U64, NEW b \in U64
    PROVE  IF a + b <= MaxU64 THEN checked_add(a, b) = a + b /\ a + b \in U64
                              ELSE checked_add(a, b) = None
  BY MaxU64Assumption DEF checked_add, U64

\* With every input detail reported, the derived bucket is the exact difference, or
\* missing when the cache buckets exceed the input.
LEMMA UncachedIsExact ==
    ASSUME NEW raw \in RawUsage, InputDetailsPresent(raw)
    PROVE  /\ raw.input_total \in U64 /\ raw.cache_read \in U64 /\ raw.cache_write \in U64
           /\ IF raw.cache_read + raw.cache_write > raw.input_total
              THEN uncached_of(raw) = None
              ELSE /\ uncached_of(raw) = raw.input_total - (raw.cache_read + raw.cache_write)
                   /\ uncached_of(raw) \in U64
                   /\ uncached_of(raw) # None
<1> DEFINE i == raw.input_total
           r == raw.cache_read
           w == raw.cache_write
<1>1. i \in U64 /\ r \in U64 /\ w \in U64
  BY DEF RawUsage, OptU64, InputDetailsPresent
<1>2. i \in Nat /\ r \in Nat /\ w \in Nat /\ i <= MaxU64
  BY <1>1, MaxU64Assumption DEF U64
<1>3. uncached_of(raw) = checked_sub(i, checked_add(r, w))
  BY DEF uncached_of
<1> HIDE DEF i, r, w
<1>4. CASE r + w > MaxU64
  <2>1. checked_add(r, w) = None
    BY <1>1, <1>2, <1>4, SumFits, MaxU64Assumption
  <2>2. r + w > i
    BY <1>2, <1>4, MaxU64Assumption
  <2> QED BY <1>1, <1>3, <2>1, <2>2 DEF checked_sub, i, r, w
<1>5. CASE ~(r + w > MaxU64)
  <2>1. checked_add(r, w) = r + w /\ r + w \in Nat
    BY <1>1, <1>2, <1>5, SumFits, MaxU64Assumption
  <2>2. r + w # None
    BY <2>1, NoneAssumption
  <2>3. CASE r + w > i
    BY <1>1, <1>3, <2>1, <2>3 DEF checked_sub, i, r, w
  <2>4. CASE ~(r + w > i)
    <3>1. i - (r + w) \in U64
      BY <1>2, <2>1, <2>4, MaxU64Assumption DEF U64
    <3>2. i - (r + w) # None
      BY <1>2, <2>1, <2>4, NoneAssumption
    <3>3. uncached_of(raw) = i - (r + w)
      BY <1>3, <2>1, <2>2, <2>4 DEF checked_sub
    <3> QED BY <1>1, <2>4, <3>1, <3>2, <3>3 DEF i, r, w
  <2> QED BY <2>3, <2>4
<1> QED
  BY <1>4, <1>5

\* canonicalize marks a record complete exactly when it derived the uncached bucket,
\* and then the three buckets add up to the input total, for every usage object.
THEOREM BucketsOfAnyObject == \A u : BucketsAddUp(extract_raw_usage(u))
<1> SUFFICES ASSUME NEW raw \in RawUsage PROVE BucketsAddUp(raw)
  BY RawType
<1>1. CASE InputDetailsPresent(raw)
  <2>1. /\ raw.input_total \in Nat /\ raw.cache_read \in Nat /\ raw.cache_write \in Nat
    BY <1>1, UncachedIsExact, MaxU64Assumption DEF U64
  <2>2. CASE uncached_of(raw) = None
    BY <1>1, <2>2 DEF BucketsAddUp, canonicalize
  <2>3. CASE uncached_of(raw) # None
    <3>1. /\ uncached_of(raw) = raw.input_total - (raw.cache_read + raw.cache_write)
          /\ uncached_of(raw) \in U64
      BY <1>1, <2>3, UncachedIsExact
    <3>2. raw.input_total = uncached_of(raw) + raw.cache_read + raw.cache_write
      BY <2>1, <3>1
    <3> QED BY <1>1, <2>3, <3>1, <3>2 DEF BucketsAddUp, canonicalize
  <2> QED BY <2>2, <2>3
<1>2. CASE ~InputDetailsPresent(raw)
  BY <1>2 DEF BucketsAddUp, canonicalize
<1> QED
  BY <1>1, <1>2

\* canonicalize marks a fully reported input inconsistent exactly when its cache
\* buckets exceed the total, also when their sum does not fit a counter.
THEOREM OverfullOfAnyObject == \A u : OverfullIsInconsistent(extract_raw_usage(u))
<1> SUFFICES ASSUME NEW raw \in RawUsage PROVE OverfullIsInconsistent(raw)
  BY RawType
<1>1. ASSUME InputDetailsPresent(raw)
      PROVE  canonicalize(raw).quality = "inconsistent"
                <=> raw.cache_read + raw.cache_write > raw.input_total
  <2>1. uncached_of(raw) = None <=> raw.cache_read + raw.cache_write > raw.input_total
    BY <1>1, UncachedIsExact
  <2>2. canonicalize(raw).quality = "inconsistent" <=> uncached_of(raw) = None
    BY <1>1 DEF canonicalize
  <2> QED BY <2>1, <2>2
<1> QED
  BY <1>1 DEF OverfullIsInconsistent

-----------------------------------------------------------------------------
(***************************************************************************)
(* Induction                                                               *)
(***************************************************************************)

\* A set that holds 0 and the successor of each of its naturals holds them all.
LEMMA NatInduced ==
    ASSUME NEW T, 0 \in T, \A n \in Nat : n \in T => n + 1 \in T
    PROVE  \A n \in Nat : n \in T
<1> DEFINE Bad == {n \in Nat : n \notin T}
<1> SUFFICES ASSUME Bad # {} PROVE FALSE
  OBVIOUS
<1> DEFINE Less == {ss \in Nat \X Nat : ss[1] < ss[2]}
<1>0. IsWellFoundedOn(Less, Nat)
  BY NatLessThanWellFounded DEF OpToRel
<1>1. PICK x \in Bad : \A y \in Bad : <<y, x>> \notin Less
  <2>1. Bad \subseteq Nat
    OBVIOUS
  <2> HIDE DEF Bad, Less
  <2> QED BY <1>0, <2>1, WFMin
<1>2. x \in Nat /\ x # 0 /\ x - 1 \in Nat
  BY <1>1
<1>3. <<x - 1, x>> \in Less
  BY <1>2
<1>4. x - 1 \in T
  BY <1>1, <1>2, <1>3
<1>5. (x - 1) + 1 = x
  BY <1>2
<1>6. x \in T
  BY <1>2, <1>4, <1>5
<1> QED BY <1>1, <1>6

\* A set of numbers up to n that is not empty has a largest one.
LEMMA LargestExists ==
    ASSUME NEW n \in Nat, NEW U, U \subseteq 1..n, U # {}
    PROVE  /\ Max(U) \in U
           /\ \A y \in U : Max(U) >= y
<1> DEFINE T == {k \in Nat : \A V \in SUBSET (1..k) : V # {} =>
                                \E x \in V : \A y \in V : x >= y}
<1>1. 0 \in T
  <2>1. 1..0 = {}
    OBVIOUS
  <2> QED BY <2>1
<1>2. ASSUME NEW k \in Nat, k \in T PROVE k + 1 \in T
  <2> SUFFICES ASSUME NEW V \in SUBSET (1..(k + 1)), V # {}
               PROVE  \E x \in V : \A y \in V : x >= y
    OBVIOUS
  <2>1. CASE k + 1 \in V
    BY <2>1
  <2>2. CASE k + 1 \notin V
    <3>1. V \in SUBSET (1..k)
      BY <2>2
    <3> QED BY <1>2, <3>1
  <2> QED BY <2>1, <2>2
<1>3. n \in T
  <2> HIDE DEF T
  <2> QED BY <1>1, <1>2, NatInduced
<1>4. \E x \in U : \A y \in U : x >= y
  BY <1>3
<1> QED BY <1>4 DEF Max

-----------------------------------------------------------------------------
(***************************************************************************)
(* The loop over the events                                                *)
(***************************************************************************)

\* acc runs through the values of the loop's variables, one event at a time.
Runs(acc, events) ==
    /\ acc[0] = NothingSeen
    /\ \A i \in 1..Len(events) : acc[i] = observe_event(acc[i - 1], events[i])

\* The loop of parse_mirror has a run, and its result is the last value of it.
LEMMA LoopRuns ==
    ASSUME NEW events, Len(events) \in Nat
    PROVE  \E acc : Runs(acc, events) /\ observe_events(events) = acc[Len(events)]
<1> DEFINE N == Len(events)
           Rec(f) == [i \in 0..N |->
                        IF i = 0 THEN NothingSeen ELSE observe_event(f[i - 1], events[i])]
           Upto(g, n) == /\ g[0] = NothingSeen
                         /\ \A i \in 1..n : g[i] = observe_event(g[i - 1], events[i])
           T == {n \in Nat : \E g : Upto(g, n)}
           chosen == CHOOSE f : f = Rec(f)
<1>1. 0 \in T
  <2>1. Upto([i \in {0} |-> NothingSeen], 0)
    OBVIOUS
  <2> QED BY <2>1
<1>2. ASSUME NEW n \in Nat, n \in T PROVE n + 1 \in T
  <2>1. PICK g : Upto(g, n)
    BY <1>2
  <2> DEFINE next == observe_event(g[n], events[n + 1])
             h == [i \in 0..(n + 1) |-> IF i = n + 1 THEN next ELSE g[i]]
  <2>2. h[0] = NothingSeen
    BY <2>1
  <2>3. ASSUME NEW i \in 1..(n + 1) PROVE h[i] = observe_event(h[i - 1], events[i])
    <3>1. CASE i = n + 1
      <4>1. h[i] = next /\ h[i - 1] = g[n]
        BY <3>1
      <4> QED BY <3>1, <4>1
    <3>2. CASE i \in 1..n
      <4>1. h[i] = g[i] /\ h[i - 1] = g[i - 1]
        BY <3>2
      <4> QED BY <2>1, <3>2, <4>1
    <3> QED BY <3>1, <3>2
  <2>4. Upto(h, n + 1)
    <3> HIDE DEF h
    <3> QED BY <2>2, <2>3
  <2>5. n + 1 \in Nat
    OBVIOUS
  <2> HIDE DEF h, Upto
  <2> QED BY <2>4, <2>5
<1>3. N \in T
  <2> HIDE DEF T
  <2> QED BY <1>1, <1>2, NatInduced
<1>4. PICK g : Upto(g, N)
  BY <1>3
<1> DEFINE f0 == [i \in 0..N |-> g[i]]
<1>5. f0 = Rec(f0)
  <2>1. ASSUME NEW i \in 0..N PROVE f0[i] = Rec(f0)[i]
    <3>1. CASE i = 0
      BY <1>4, <3>1
    <3>2. CASE i \in 1..N
      <4>1. f0[i] = g[i] /\ f0[i - 1] = g[i - 1]
        BY <3>2
      <4> QED BY <1>4, <3>2, <4>1
    <3> QED BY <3>1, <3>2
  <2> QED BY <2>1
<1>6. chosen = Rec(chosen)
  <2> HIDE DEF Rec, f0
  <2> QED BY <1>5
<1>7. Runs(chosen, events)
  <2>1. chosen[0] = NothingSeen
    <3> HIDE DEF chosen
    <3> QED BY <1>6
  <2>2. ASSUME NEW i \in 1..N
        PROVE  chosen[i] = observe_event(chosen[i - 1], events[i])
    <3> HIDE DEF chosen
    <3> QED BY <1>6
  <2> HIDE DEF chosen
  <2> QED BY <2>1, <2>2 DEF Runs
<1>8. observe_events(events) = chosen[N]
  BY DEF observe_events
<1> HIDE DEF chosen
<1> QED BY <1>7, <1>8

\* The values of the loop's variables
Seen(a) ==
    /\ a = [terminal_seen |-> a.terminal_seen, incomplete |-> a.incomplete,
            body_model |-> a.body_model, usage |-> a.usage, malformed |-> a.malformed]
    /\ a.terminal_seen \in BOOLEAN /\ a.incomplete \in BOOLEAN /\ a.malformed \in BOOLEAN

IsTerminal(e) == e.kind # "other"
CarriesUsage(e) == IsTerminal(e) /\ e.response # None /\ IsObject(e.response.usage)
UsageOf(e) == canonicalize(extract_raw_usage(e.response.usage))

\* One pass through the loop: a terminal event marks the lifecycle, and only one that
\* carries a usage object replaces the usage found before it.
LEMMA OneEvent ==
    ASSUME NEW a, NEW e, Seen(a)
    PROVE  /\ Seen(observe_event(a, e))
           /\ observe_event(a, e).terminal_seen <=> a.terminal_seen \/ IsTerminal(e)
           /\ observe_event(a, e).incomplete <=> a.incomplete \/ e.kind = "incomplete"
           /\ observe_event(a, e).usage = IF CarriesUsage(e) THEN UsageOf(e) ELSE a.usage
<1> DEFINE r == e.response
           b == observe_event(a, e)
<1>1. CASE e.kind = "other"
  <2>1. b = a
    BY <1>1 DEF observe_event
  <2>2. ~IsTerminal(e) /\ ~CarriesUsage(e) /\ e.kind # "incomplete"
    BY <1>1 DEF IsTerminal, CarriesUsage
  <2> QED BY <2>1, <2>2 DEF Seen
<1>2. CASE e.kind # "other" /\ r = None
  <2>1. b = [a EXCEPT !.terminal_seen = TRUE,
                      !.incomplete = a.incomplete \/ e.kind = "incomplete"]
    BY <1>2 DEF observe_event
  <2>2. b = [terminal_seen |-> TRUE,
             incomplete |-> a.incomplete \/ e.kind = "incomplete",
             body_model |-> a.body_model, usage |-> a.usage, malformed |-> a.malformed]
    BY <2>1 DEF Seen
  <2>3. IsTerminal(e) /\ ~CarriesUsage(e)
    BY <1>2 DEF IsTerminal, CarriesUsage
  <2>4. /\ b.terminal_seen /\ b.usage = a.usage
        /\ b.incomplete <=> a.incomplete \/ e.kind = "incomplete"
    <3> HIDE DEF b
    <3> QED BY <2>2
  <2>5. Seen(b)
    <3> HIDE DEF b
    <3> QED BY <2>2 DEF Seen
  <2> QED BY <2>3, <2>4, <2>5
<1>3. CASE e.kind # "other" /\ r # None
  <2> DEFINE model == IF r.model # None THEN r.model ELSE a.body_model
             usage == IF IsObject(r.usage) THEN UsageOf(e) ELSE a.usage
  <2>1. b = [[a EXCEPT !.terminal_seen = TRUE,
                       !.incomplete = a.incomplete \/ e.kind = "incomplete"]
               EXCEPT !.body_model = model, !.usage = usage,
                      !.malformed = a.malformed \/ r.usage = Malformed]
    BY <1>3 DEF observe_event, Seen, UsageOf
  <2>2. b = [terminal_seen |-> TRUE,
             incomplete |-> a.incomplete \/ e.kind = "incomplete",
             body_model |-> model, usage |-> usage,
             malformed |-> a.malformed \/ r.usage = Malformed]
    <3> HIDE DEF model, usage, b
    <3> QED BY <2>1 DEF Seen
  <2>3. IsTerminal(e) /\ (CarriesUsage(e) <=> IsObject(r.usage))
    BY <1>3 DEF IsTerminal, CarriesUsage
  <2>4. usage = IF CarriesUsage(e) THEN UsageOf(e) ELSE a.usage
    BY <2>3
  <2> HIDE DEF model, usage, b
  <2>5. /\ b.terminal_seen /\ b.usage = usage
        /\ b.incomplete <=> a.incomplete \/ e.kind = "incomplete"
    BY <2>2
  <2>6. Seen(b)
    BY <2>2 DEF Seen
  <2> QED BY <2>3, <2>4, <2>5, <2>6 DEF b
<1> QED BY <1>1, <1>2, <1>3

\* What the loop's variables say of the first n events: whether one of them was
\* terminal, whether one was incomplete, and the usage of the last that carried one.
Facts(a, events, n) ==
    /\ Seen(a)
    /\ a.terminal_seen <=> \E i \in 1..n : IsTerminal(events[i])
    /\ a.incomplete <=> \E i \in 1..n : events[i].kind = "incomplete"
    /\ \/ a.usage = None /\ \A i \in 1..n : ~CarriesUsage(events[i])
       \/ \E i \in 1..n :
            /\ CarriesUsage(events[i]) /\ a.usage = UsageOf(events[i])
            /\ \A j \in (i + 1)..n : ~CarriesUsage(events[j])

\* One more event keeps the facts.
LEMMA FactsStep ==
    ASSUME NEW events, NEW n \in Nat, NEW a, Facts(a, events, n)
    PROVE  Facts(observe_event(a, events[n + 1]), events, n + 1)
<1> DEFINE e == events[n + 1]
           b == observe_event(a, e)
<1>1. /\ Seen(b)
      /\ b.terminal_seen <=> a.terminal_seen \/ IsTerminal(e)
      /\ b.incomplete <=> a.incomplete \/ e.kind = "incomplete"
      /\ b.usage = IF CarriesUsage(e) THEN UsageOf(e) ELSE a.usage
  BY OneEvent DEF Facts
<1> HIDE DEF b
<1>0. \A i : i \in 1..(n + 1) <=> i \in 1..n \/ i = n + 1
  OBVIOUS
<1>2. b.terminal_seen <=> \E i \in 1..(n + 1) : IsTerminal(events[i])
  BY <1>0, <1>1 DEF Facts
<1>3. b.incomplete <=> \E i \in 1..(n + 1) : events[i].kind = "incomplete"
  BY <1>0, <1>1 DEF Facts
<1>4. CASE CarriesUsage(e)
  <2>1. \A j \in ((n + 1) + 1)..(n + 1) : ~CarriesUsage(events[j])
    OBVIOUS
  <2>2. n + 1 \in 1..(n + 1) /\ b.usage = UsageOf(events[n + 1])
    BY <1>1, <1>4
  <2>3. \E i \in 1..(n + 1) :
          /\ CarriesUsage(events[i]) /\ b.usage = UsageOf(events[i])
          /\ \A j \in (i + 1)..(n + 1) : ~CarriesUsage(events[j])
    BY <1>4, <2>1, <2>2
  <2> QED BY <1>1, <1>2, <1>3, <2>3 DEF Facts, b
<1>5. CASE ~CarriesUsage(e)
  <2>1. b.usage = a.usage
    BY <1>1, <1>5
  <2>2. CASE a.usage = None /\ \A i \in 1..n : ~CarriesUsage(events[i])
    <3>1. b.usage = None /\ \A i \in 1..(n + 1) : ~CarriesUsage(events[i])
      BY <1>0, <1>5, <2>1, <2>2
    <3> QED BY <1>1, <1>2, <1>3, <3>1 DEF Facts, b
  <2>3. ASSUME NEW i \in 1..n, CarriesUsage(events[i]), a.usage = UsageOf(events[i]),
               \A j \in (i + 1)..n : ~CarriesUsage(events[j])
        PROVE  Facts(observe_event(a, events[n + 1]), events, n + 1)
    <3>1. i \in 1..(n + 1) /\ CarriesUsage(events[i]) /\ b.usage = UsageOf(events[i])
      BY <2>1, <2>3
    <3>2. \A j : j \in (i + 1)..(n + 1) => j \in (i + 1)..n \/ j = n + 1
      OBVIOUS
    <3>3. \A j \in (i + 1)..(n + 1) : ~CarriesUsage(events[j])
      BY <1>5, <2>3, <3>2
    <3> QED BY <1>1, <1>2, <1>3, <3>1, <3>3 DEF Facts, b
  <2> QED BY <2>2, <2>3 DEF Facts
<1> QED BY <1>4, <1>5

\* The facts hold of what the loop returns, for any sequence of events.
LEMMA LoopFacts ==
    ASSUME NEW events, Len(events) \in Nat
    PROVE  Facts(observe_events(events), events, Len(events))
<1>1. PICK acc : Runs(acc, events) /\ observe_events(events) = acc[Len(events)]
  BY LoopRuns
<1> DEFINE T == {n \in Nat : n <= Len(events) => Facts(acc[n], events, n)}
<1>2. 0 \in T
  <2>1. acc[0] = NothingSeen
    BY <1>1 DEF Runs
  <2>2. Facts(NothingSeen, events, 0)
    BY DEF Facts, Seen, NothingSeen
  <2> QED BY <2>1, <2>2
<1>3. ASSUME NEW n \in Nat, n \in T PROVE n + 1 \in T
  <2> SUFFICES ASSUME n + 1 <= Len(events) PROVE Facts(acc[n + 1], events, n + 1)
    OBVIOUS
  <2>1. Facts(acc[n], events, n)
    BY <1>3
  <2>2. acc[n + 1] = observe_event(acc[n], events[n + 1])
    <3>1. n + 1 \in 1..Len(events) /\ (n + 1) - 1 = n
      OBVIOUS
    <3> QED BY <1>1, <3>1 DEF Runs
  <2> QED BY <2>1, <2>2, FactsStep
<1>4. Len(events) \in T
  <2> HIDE DEF T
  <2> QED BY <1>2, <1>3, NatInduced
<1> QED BY <1>1, <1>4

-----------------------------------------------------------------------------
(***************************************************************************)
(* The events of a body                                                    *)
(***************************************************************************)

\* joined runs through the values FlattenSeq takes on the prefixes of seqs.
Joins(joined, seqs) ==
    /\ joined[1] = seqs[1]
    /\ \A i \in 2..Len(seqs) : joined[i] = joined[i - 1] \o seqs[i]

\* FlattenSeq of a sequence that is not empty is the last of such values.
LEMMA FlattenRuns ==
    ASSUME NEW seqs, Len(seqs) \in Nat \ {0}
    PROVE  \E joined : Joins(joined, seqs) /\ FlattenSeq(seqs) = joined[Len(seqs)]
<1> DEFINE N == Len(seqs)
           Rec(f) == [i \in 1..N |-> IF i = 1 THEN seqs[i] ELSE f[i - 1] \o seqs[i]]
           Upto(g, n) == /\ g[1] = seqs[1]
                         /\ \A i \in 2..n : g[i] = g[i - 1] \o seqs[i]
           T == {n \in Nat : \E g : Upto(g, n)}
           chosen == CHOOSE f : f = Rec(f)
<1>1. 0 \in T
  <2>1. Upto([i \in {1} |-> seqs[1]], 0)
    OBVIOUS
  <2> QED BY <2>1
<1>2. ASSUME NEW n \in Nat, n \in T PROVE n + 1 \in T
  <2>1. PICK g : Upto(g, n)
    BY <1>2
  <2> DEFINE next == g[n] \o seqs[n + 1]
             h == [i \in 0..(n + 1) |->
                     IF i = n + 1 /\ i # 1 THEN next ELSE g[i]]
  <2>2. h[1] = seqs[1]
    BY <2>1
  <2>3. ASSUME NEW i \in 2..(n + 1) PROVE h[i] = h[i - 1] \o seqs[i]
    <3>1. CASE i = n + 1
      <4>1. h[i] = next /\ h[i - 1] = g[n]
        BY <3>1
      <4> QED BY <3>1, <4>1
    <3>2. CASE i \in 2..n
      <4>1. h[i] = g[i] /\ h[i - 1] = g[i - 1]
        BY <3>2
      <4>2. g[i] = g[i - 1] \o seqs[i]
        BY <2>1, <3>2
      <4> HIDE DEF h
      <4> QED BY <4>1, <4>2
    <3>3. i = n + 1 \/ i \in 2..n
      OBVIOUS
    <3> HIDE DEF h
    <3> QED BY <3>1, <3>2, <3>3
  <2>4. Upto(h, n + 1)
    <3> HIDE DEF h
    <3> QED BY <2>2, <2>3
  <2>5. n + 1 \in Nat
    OBVIOUS
  <2> HIDE DEF h, Upto
  <2> QED BY <2>4, <2>5
<1>3. N \in T
  <2> HIDE DEF T
  <2> QED BY <1>1, <1>2, NatInduced
<1>4. PICK g : Upto(g, N)
  BY <1>3
<1> DEFINE f0 == [i \in 1..N |-> g[i]]
<1>5. f0 = Rec(f0)
  <2>1. ASSUME NEW i \in 1..N PROVE f0[i] = Rec(f0)[i]
    <3>1. CASE i = 1
      BY <1>4, <3>1
    <3>2. CASE i \in 2..N
      <4>1. f0[i] = g[i] /\ f0[i - 1] = g[i - 1]
        BY <3>2
      <4> QED BY <1>4, <3>2, <4>1
    <3> QED BY <3>1, <3>2
  <2> QED BY <2>1
<1>6. chosen = Rec(chosen)
  <2> HIDE DEF Rec, f0
  <2> QED BY <1>5
<1>7. Joins(chosen, seqs)
  <2> HIDE DEF chosen
  <2>1. chosen[1] = seqs[1]
    BY <1>6
  <2>2. ASSUME NEW i \in 2..N PROVE chosen[i] = chosen[i - 1] \o seqs[i]
    <3>1. i \in 1..N /\ i # 1
      OBVIOUS
    <3>2. Rec(chosen)[i] = chosen[i - 1] \o seqs[i]
      BY <3>1, Zenon
    <3> HIDE DEF Rec
    <3> QED BY <1>6, <3>2
  <2> QED BY <2>1, <2>2 DEF Joins
<1>8. FlattenSeq(seqs) = chosen[N]
  BY DEF FlattenSeq
<1> HIDE DEF chosen
<1> QED BY <1>7, <1>8

\* What FlattenSeq joins are sequences, and so is the whole.
LEMMA FlattenType ==
    ASSUME NEW E, NEW seqs, Len(seqs) \in Nat \ {0},
           \A i \in 1..Len(seqs) : seqs[i] \in Seq(E)
    PROVE  FlattenSeq(seqs) \in Seq(E)
<1>1. PICK joined : Joins(joined, seqs) /\ FlattenSeq(seqs) = joined[Len(seqs)]
  BY FlattenRuns
<1> DEFINE T == {n \in Nat : n \in 1..Len(seqs) => joined[n] \in Seq(E)}
<1>2. 0 \in T
  OBVIOUS
<1>3. ASSUME NEW n \in Nat, n \in T PROVE n + 1 \in T
  <2> SUFFICES ASSUME n + 1 \in 1..Len(seqs) PROVE joined[n + 1] \in Seq(E)
    OBVIOUS
  <2>1. CASE n = 0
    BY <1>1, <2>1 DEF Joins
  <2>2. CASE n # 0
    <3>1. joined[n] \in Seq(E) /\ seqs[n + 1] \in Seq(E)
      BY <1>3, <2>2
    <3>2. n + 1 \in 2..Len(seqs) /\ (n + 1) - 1 = n
      BY <2>2
    <3>3. joined[n + 1] = joined[n] \o seqs[n + 1]
      BY <1>1, <3>2 DEF Joins
    <3> QED BY <3>1, <3>3, ConcatProperties
  <2> QED BY <2>1, <2>2
<1>4. Len(seqs) \in T
  <2> HIDE DEF T
  <2> QED BY <1>2, <1>3, NatInduced
<1> QED BY <1>1, <1>4

\* One more sequence is joined at the end of the others.
LEMMA FlattenGrows ==
    ASSUME NEW seqs, NEW more, Len(seqs) \in Nat \ {0}, Len(more) = Len(seqs) + 1,
           \A i \in 1..Len(seqs) : more[i] = seqs[i]
    PROVE  FlattenSeq(more) = FlattenSeq(seqs) \o more[Len(more)]
<1>1. PICK s : Joins(s, seqs) /\ FlattenSeq(seqs) = s[Len(seqs)]
  BY FlattenRuns
<1>2. PICK m : Joins(m, more) /\ FlattenSeq(more) = m[Len(more)]
  BY FlattenRuns
<1> DEFINE T == {n \in Nat : n \in 1..Len(seqs) => m[n] = s[n]}
<1>3. 0 \in T
  OBVIOUS
<1>4. ASSUME NEW n \in Nat, n \in T PROVE n + 1 \in T
  <2> SUFFICES ASSUME n + 1 \in 1..Len(seqs) PROVE m[n + 1] = s[n + 1]
    OBVIOUS
  <2>1. CASE n = 0
    BY <1>1, <1>2, <2>1 DEF Joins
  <2>2. CASE n # 0
    <3>1. m[n] = s[n] /\ more[n + 1] = seqs[n + 1]
      BY <1>4, <2>2
    <3>2. n + 1 \in 2..Len(seqs) /\ n + 1 \in 2..Len(more) /\ (n + 1) - 1 = n
      BY <2>2
    <3>3. s[n + 1] = s[n] \o seqs[n + 1] /\ m[n + 1] = m[n] \o more[n + 1]
      BY <1>1, <1>2, <3>2 DEF Joins
    <3> QED BY <3>1, <3>3
  <2> QED BY <2>1, <2>2
<1>5. Len(seqs) \in T
  <2> HIDE DEF T
  <2> QED BY <1>3, <1>4, NatInduced
<1>6. m[Len(seqs)] = s[Len(seqs)]
  BY <1>5
<1>7. m[Len(more)] = m[Len(seqs)] \o more[Len(more)]
  <2>1. Len(more) \in 2..Len(more) /\ Len(more) - 1 = Len(seqs)
    OBVIOUS
  <2> QED BY <1>2, <2>1 DEF Joins
<1> QED BY <1>1, <1>2, <1>6, <1>7

\* A set of naturals that is not empty has a smallest one.
LEMMA SmallestExists ==
    ASSUME NEW U, U \subseteq Nat, U # {}
    PROVE  /\ Min(U) \in U
           /\ \A y \in U : Min(U) <= y
<1> DEFINE T == {k \in Nat : (\E x \in U : x <= k) => \E x \in U : \A y \in U : x <= y}
<1>1. 0 \in T
  OBVIOUS
<1>2. ASSUME NEW k \in Nat, k \in T PROVE k + 1 \in T
  <2> SUFFICES ASSUME NEW x \in U, x <= k + 1
               PROVE  \E z \in U : \A y \in U : z <= y
    OBVIOUS
  <2>1. CASE \E z \in U : z <= k
    BY <1>2, <2>1
  <2>2. CASE ~\E z \in U : z <= k
    <3>1. \A y \in U : x <= y
      BY <2>2
    <3> QED BY <3>1
  <2> QED BY <2>1, <2>2
<1>3. PICK u \in U : u \in Nat
  OBVIOUS
<1>4. u \in T
  <2> HIDE DEF T
  <2> QED BY <1>1, <1>2, <1>3, NatInduced
<1>5. \E x \in U : \A y \in U : x <= y
  BY <1>3, <1>4
<1> QED BY <1>5 DEF Min

\* How many chunks of the mirror the SSE parser reads, and the events of the first k.
Readable(mirror) ==
    IF Undecodable(mirror) = {} THEN Len(mirror) ELSE Min(Undecodable(mirror))
EventsOf(mirror, k) == [i \in 1..k |-> mirror[i].events]

\* The events of a body are those of its readable chunks, one after the other.
LEMMA ReadableForm ==
    ASSUME NEW C, NEW m \in Seq(C)
    PROVE  /\ Readable(m) \in 0..Len(m)
           /\ Readable(m) = 0 => m = <<>>
           /\ sse_events(m) = FlattenSeq(EventsOf(m, Readable(m)))
<1>1. Len(m) \in Nat /\ DOMAIN m = 1..Len(m)
  BY LenProperties
<1>2. CASE Undecodable(m) = {}
  <2>1. Readable(m) = Len(m) /\ sse_events(m) = FlattenSeq([i \in DOMAIN m |-> m[i].events])
    BY <1>2 DEF Readable, sse_events
  <2>2. Len(m) = 0 => m = <<>>
    BY EmptySeq
  <2> QED BY <1>1, <2>1, <2>2 DEF EventsOf
<1>3. CASE Undecodable(m) # {}
  <2> DEFINE k == Min(Undecodable(m))
             r == SubSeq(m, 1, k)
  <2>1. Undecodable(m) \subseteq 1..Len(m)
    BY <1>1 DEF Undecodable
  <2>2. k \in Undecodable(m)
    BY <1>1, <1>3, <2>1, SmallestExists
  <2>3. k \in 1..Len(m)
    BY <2>1, <2>2
  <2>4. Readable(m) = k /\ sse_events(m) = FlattenSeq([i \in DOMAIN r |-> r[i].events])
    BY <1>3 DEF Readable, sse_events
  <2> HIDE DEF k
  <2>5. \A i \in 1..k : m[i] \in C
    BY <1>1, <2>3, ElementOfSeq
  <2>6. r \in Seq(C) /\ Len(r) = k /\ \A i \in 1..k : r[i] = m[i]
    BY <1>1, <2>3, <2>5, SubSeqProperties
  <2>7. DOMAIN r = 1..k
    BY <2>6, LenProperties
  <2> HIDE DEF r
  <2>8. [i \in DOMAIN r |-> r[i].events] = EventsOf(m, k)
    BY <2>6, <2>7 DEF EventsOf
  <2> QED BY <1>1, <2>3, <2>4, <2>8
<1> QED BY <1>2, <1>3

\* The events of the first k chunks as a sequence of sequences.
LEMMA EventsOfType ==
    ASSUME NEW E, NEW C, \A c \in C : c.events \in Seq(E), NEW m \in Seq(C),
           NEW k \in 0..Len(m)
    PROVE  /\ Len(EventsOf(m, k)) = k
           /\ \A i \in 1..k : EventsOf(m, k)[i] = m[i].events /\ m[i].events \in Seq(E)
           /\ k = 0 => FlattenSeq(EventsOf(m, k)) = <<>>
<1>1. Len(m) \in Nat /\ k \in Nat
  BY LenProperties
<1>2. \A i \in 1..k : m[i] \in C
  BY <1>1, ElementOfSeq
<1>3. EventsOf(m, k) \in [1..k -> Seq(E)]
  BY <1>2 DEF EventsOf
<1>4. EventsOf(m, k) \in Seq(Seq(E))
  BY <1>1, <1>3, SeqDef
<1>5. Len(EventsOf(m, k)) = k
  BY <1>1, <1>3, <1>4, LenProperties
<1>6. \A i \in 1..k : EventsOf(m, k)[i] = m[i].events /\ m[i].events \in Seq(E)
  BY <1>2 DEF EventsOf
<1>7. ASSUME k = 0 PROVE FlattenSeq(EventsOf(m, k)) = <<>>
  <2>1. FlattenSeq(EventsOf(m, k)) = EventsOf(m, k)
    BY <1>5, <1>7 DEF FlattenSeq
  <2>2. EventsOf(m, k) = <<>>
    BY <1>4, <1>5, <1>7, EmptySeq
  <2> QED BY <2>1, <2>2
<1> QED BY <1>5, <1>6, <1>7

\* The events of a body are a sequence.
LEMMA EventsType ==
    ASSUME NEW E, NEW C, \A c \in C : c.events \in Seq(E), NEW m \in Seq(C)
    PROVE  sse_events(m) \in Seq(E)
<1> DEFINE k == Readable(m)
<1>1. k \in 0..Len(m) /\ sse_events(m) = FlattenSeq(EventsOf(m, k))
  BY ReadableForm
<1> HIDE DEF k
<1>2. /\ Len(EventsOf(m, k)) = k
      /\ \A i \in 1..k : EventsOf(m, k)[i] \in Seq(E)
      /\ k = 0 => FlattenSeq(EventsOf(m, k)) = <<>>
  BY <1>1, EventsOfType
<1>3. CASE k = 0
  BY <1>1, <1>2, <1>3, EmptySeq
<1>4. CASE k # 0
  <2>1. Len(m) \in Nat
    BY LenProperties
  <2>2. k \in Nat \ {0}
    BY <1>1, <1>4, <2>1
  <2> QED BY <1>1, <1>2, <2>2, FlattenType
<1> QED BY <1>3, <1>4

\* A body that grows by a chunk keeps its events, and may have more after them.
LEMMA EventsGrow ==
    ASSUME NEW E, NEW C, \A c \in C : c.events \in Seq(E), NEW m \in Seq(C), NEW c \in C
    PROVE  \E more \in Seq(E) : sse_events(Append(m, c)) = sse_events(m) \o more
<1> DEFINE n == Append(m, c)
           k == Readable(m)
           l == Readable(n)
<1>1. /\ n \in Seq(C) /\ Len(n) = Len(m) + 1 /\ Len(m) \in Nat
      /\ \A i \in 1..Len(m) : n[i] = m[i]
      /\ n[Len(m) + 1] = c
      /\ DOMAIN m = 1..Len(m) /\ DOMAIN n = 1..(Len(m) + 1)
  BY AppendProperties, LenProperties
<1> HIDE DEF n
<1>2. /\ k \in 0..Len(m) /\ sse_events(m) = FlattenSeq(EventsOf(m, k))
      /\ l \in 0..Len(n) /\ sse_events(n) = FlattenSeq(EventsOf(n, l))
  BY <1>1, ReadableForm
<1>3. sse_events(m) \in Seq(E)
  BY EventsType
<1>4. CASE Undecodable(m) # {}
  <2>1. Undecodable(m) \subseteq Nat /\ Undecodable(m) \subseteq 1..Len(m)
    BY <1>1 DEF Undecodable
  <2>2. k \in Undecodable(m) /\ \A y \in Undecodable(m) : k <= y
    BY <1>4, <2>1, SmallestExists DEF Readable
  <2>3. Undecodable(n) \subseteq Nat /\ k \in Undecodable(n)
    BY <1>1, <2>1, <2>2 DEF Undecodable
  <2>4. \A y \in Undecodable(n) : y \in Undecodable(m) \/ y = Len(m) + 1
    BY <1>1 DEF Undecodable
  <2>5. \A y \in Undecodable(n) : k <= y
    BY <1>1, <2>1, <2>2, <2>4
  <2>6. l \in Undecodable(n) /\ \A y \in Undecodable(n) : l <= y
    BY <2>3, SmallestExists DEF Readable
  <2>7. l = k
    BY <1>1, <1>2, <2>3, <2>5, <2>6
  <2>8. EventsOf(n, k) = EventsOf(m, k)
    BY <1>1, <1>2 DEF EventsOf
  <2>9. sse_events(n) = sse_events(m)
    BY <1>2, <2>7, <2>8
  <2>10. sse_events(m) \o <<>> = sse_events(m) /\ <<>> \in Seq(E)
    BY <1>3, ConcatEmptySeq, EmptySeq
  <2> QED BY <2>9, <2>10 DEF n
<1>5. CASE Undecodable(m) = {}
  <2>1. k = Len(m)
    BY <1>5 DEF Readable
  <2>2. Undecodable(n) \subseteq {Len(m) + 1}
    BY <1>1, <1>5 DEF Undecodable
  <2>3. l = Len(m) + 1
    <3>1. CASE Undecodable(n) = {}
      BY <1>1, <3>1 DEF Readable
    <3>2. CASE Undecodable(n) # {}
      <4>1. Undecodable(n) \subseteq Nat
        BY <1>1, <2>2
      <4>2. l \in Undecodable(n)
        BY <3>2, <4>1, SmallestExists DEF Readable
      <4> QED BY <2>2, <4>2
    <3> QED BY <3>1, <3>2
  <2>4. l \in 0..Len(n) /\ c.events \in Seq(E)
    BY <1>2
  <2>5. /\ Len(EventsOf(n, l)) = l
        /\ \A i \in 1..l : EventsOf(n, l)[i] = n[i].events
    BY <1>1, <2>4, EventsOfType
  <2>6. /\ Len(EventsOf(m, k)) = k
        /\ \A i \in 1..k : EventsOf(m, k)[i] = m[i].events
        /\ k = 0 => FlattenSeq(EventsOf(m, k)) = <<>>
    BY <1>2, EventsOfType
  <2>7. EventsOf(n, l)[l] = c.events
    BY <1>1, <2>3, <2>5
  <2>8. CASE k = 0
    <3>1. l = 1
      BY <2>1, <2>3, <2>8
    <3>2. PICK j : Joins(j, EventsOf(n, l)) /\ FlattenSeq(EventsOf(n, l)) = j[Len(EventsOf(n, l))]
      <4>1. Len(EventsOf(n, l)) \in Nat \ {0}
        BY <2>5, <3>1
      <4> HIDE DEF k, l
      <4> QED BY <4>1, FlattenRuns
    <3>3. FlattenSeq(EventsOf(n, l)) = c.events
      BY <2>5, <2>7, <3>1, <3>2 DEF Joins
    <3>4. <<>> \o c.events = c.events
      BY <2>4, ConcatEmptySeq
    <3> QED BY <1>2, <2>4, <2>6, <2>8, <3>3, <3>4 DEF n
  <2>9. CASE k # 0
    <3>1. Len(EventsOf(m, k)) \in Nat \ {0} /\ Len(EventsOf(n, l)) = Len(EventsOf(m, k)) + 1
      BY <1>1, <2>1, <2>3, <2>5, <2>6, <2>9
    <3>2. \A i \in 1..Len(EventsOf(m, k)) : EventsOf(n, l)[i] = EventsOf(m, k)[i]
      BY <1>1, <2>1, <2>3, <2>5, <2>6
    <3>3. FlattenSeq(EventsOf(n, l))
            = FlattenSeq(EventsOf(m, k)) \o EventsOf(n, l)[Len(EventsOf(n, l))]
      BY <3>1, <3>2, FlattenGrows
    <3>4. sse_events(n) = sse_events(m) \o c.events
      BY <1>2, <2>5, <2>7, <3>3
    <3> QED BY <2>4, <3>4 DEF n
  <2> QED BY <2>8, <2>9
<1> QED BY <1>4, <1>5

-----------------------------------------------------------------------------
(***************************************************************************)
(* What parse_mirror concludes                                             *)
(***************************************************************************)

\* An accounted usage is a usage: the Option that holds it is not None.
LEMMA UsageIsSome == \A e : UsageOf(e) # None /\ UsageOf(e).usage # None
<1> SUFFICES ASSUME NEW e PROVE UsageOf(e) # None /\ UsageOf(e).usage # None
  OBVIOUS
<1> DEFINE raw == extract_raw_usage(e.response.usage)
<1>1. raw \in RawUsage
  BY RawType
<1> HIDE DEF raw
<1>2. canonicalize(raw) \in [usage : Usage, quality : Quality]
  <2> DEFINE uncached == IF InputDetailsPresent(raw) THEN uncached_of(raw) ELSE None
  <2>1. uncached \in OptU64
    <3>1. CASE InputDetailsPresent(raw)
      <4>1. uncached_of(raw) = None \/ uncached_of(raw) \in U64
        BY <1>1, <3>1, UncachedIsExact
      <4> QED BY <3>1, <4>1 DEF OptU64
    <3>2. CASE ~InputDetailsPresent(raw)
      BY <3>2 DEF OptU64
    <3> QED BY <3>1, <3>2
  <2>2. canonicalize(raw).usage \in Usage
    <3> HIDE DEF uncached
    <3>1. canonicalize(raw).usage =
            [input_total |-> raw.input_total, uncached |-> uncached,
             cache_read |-> raw.cache_read, cache_write |-> raw.cache_write,
             output_total |-> raw.output_total, reasoning |-> raw.reasoning,
             total |-> raw.total]
      BY DEF canonicalize, uncached
    <3> QED BY <1>1, <2>1, <3>1 DEF Usage, RawUsage
  <2>3. canonicalize(raw).quality \in Quality
    BY DEF canonicalize, Quality
  <2> QED BY <2>2, <2>3 DEF canonicalize
<1> QED BY <1>2, OptionAssumption DEF UsageOf, raw

\* A reason for unavailable usage is a reason.
LEMMA ReasonIsSome == "malformed_usage" # None /\ "missing_usage" # None
  BY OptionAssumption DEF MeteringError

\* What the reference definitions pick out of the events.
LEMMA Reference ==
    ASSUME NEW E, NEW m, sse_events(m) \in Seq(E)
    PROVE  LET events == sse_events(m)
               n == Len(events)
           IN  /\ n \in Nat /\ (events # <<>> => n \in Nat \ {0})
               /\ \A i : i \in Terminals(m) <=> i \in 1..n /\ IsTerminal(events[i])
               /\ \A i : i \in TerminalUsages(m) <=> i \in 1..n /\ CarriesUsage(events[i])
               /\ Terminals(m) # {} => events # <<>>
<1> DEFINE events == sse_events(m)
<1>1. Len(events) \in Nat /\ DOMAIN events = 1..Len(events)
      /\ (events # <<>> => Len(events) \in Nat \ {0})
  BY LenProperties, EmptySeq
<1>2. \A i : i \in Terminals(m) <=> i \in 1..Len(events) /\ IsTerminal(events[i])
  BY <1>1 DEF Terminals, IsTerminal
<1>3. \A i : i \in TerminalUsages(m) <=> i \in 1..Len(events) /\ CarriesUsage(events[i])
  BY <1>2 DEF TerminalUsages, CarriesUsage
<1>4. ASSUME events = <<>> PROVE Terminals(m) = {}
  <2>1. 1..Len(events) = {}
    BY <1>4, EmptySeq
  <2> HIDE DEF events
  <2> QED BY <1>2, <2>1
<1> QED BY <1>1, <1>2, <1>3, <1>4

\* The usage the loop settles on is the one a reader of the whole stream would: the
\* last reported, or none when none was.
LEMMA LoopUsage ==
    ASSUME NEW E, NEW m, sse_events(m) \in Seq(E)
    PROVE  observe_events(sse_events(m)).usage =
                IF HasTerminalUsage(m) THEN FinalUsage(m) ELSE None
<1> DEFINE events == sse_events(m)
           n == Len(events)
           a == observe_events(events)
           U == TerminalUsages(m)
<1>1. n \in Nat /\ \A i : i \in U <=> i \in 1..n /\ CarriesUsage(events[i])
  BY Reference
<1>2. Facts(a, events, n)
  BY <1>1, LoopFacts
<1>3. FinalUsage(m) = UsageOf(events[Max(U)])
  BY DEF FinalUsage, UsageOf
<1> HIDE DEF events, n, a, U
<1>4. CASE a.usage = None /\ \A i \in 1..n : ~CarriesUsage(events[i])
  <2>1. U = {}
    BY <1>1, <1>4
  <2> QED BY <1>4, <2>1 DEF HasTerminalUsage, U, a, events
<1>5. ASSUME NEW i \in 1..n, CarriesUsage(events[i]), a.usage = UsageOf(events[i]),
             \A j \in (i + 1)..n : ~CarriesUsage(events[j])
      PROVE  a.usage = IF HasTerminalUsage(m) THEN FinalUsage(m) ELSE None
  <2>1. i \in U /\ U \subseteq 1..n
    BY <1>1, <1>5
  <2>2. Max(U) \in U /\ \A y \in U : Max(U) >= y
    BY <1>1, <2>1, LargestExists
  <2>3. Max(U) \in 1..n /\ Max(U) >= i /\ CarriesUsage(events[Max(U)])
    BY <1>1, <2>1, <2>2
  <2>4. Max(U) = i
    BY <1>1, <1>5, <2>3
  <2> QED BY <1>3, <1>5, <2>1, <2>4 DEF HasTerminalUsage, U
<1> QED BY <1>2, <1>4, <1>5 DEF Facts, a, events

\* What parse_mirror makes of any body: the body is terminal exactly when it is no SSE
\* stream or has a terminal event; one that was framed as SSE is incomplete exactly
\* when one of its terminal events is, and its usage is that of the last terminal
\* event that carried one, unavailable for a stated reason when none did.
THEOREM ParsedBody ==
    ASSUME NEW E, NEW m, NEW header, sse_events(m) \in Seq(E)
    PROVE  LET p == parse_mirror(m, header) IN
           /\ p.terminal_seen <=> (sse_events(m) = <<>> \/ Terminals(m) # {})
           /\ sse_events(m) # <<>> =>
                /\ p.incomplete <=> \E i \in Terminals(m) : sse_events(m)[i].kind = "incomplete"
                /\ IF HasTerminalUsage(m)
                   THEN /\ p.audit.usage = FinalUsage(m).usage
                        /\ p.audit.quality = FinalUsage(m).quality
                        /\ p.audit.metering_error = None
                   ELSE /\ p.audit.usage = None
                        /\ p.audit.quality = "unavailable"
                        /\ p.audit.metering_error # None
<1> DEFINE events == sse_events(m)
           n == Len(events)
           a == observe_events(events)
           p == parse_mirror(m, header)
<1>1. /\ n \in Nat
      /\ \A i : i \in Terminals(m) <=> i \in 1..n /\ IsTerminal(events[i])
      /\ \A i : i \in TerminalUsages(m) <=> i \in 1..n /\ CarriesUsage(events[i])
      /\ Terminals(m) # {} => events # <<>>
  BY Reference
<1>2. Facts(a, events, n)
  BY <1>1, LoopFacts
<1>3. a.usage = IF HasTerminalUsage(m) THEN FinalUsage(m) ELSE None
  BY LoopUsage
<1>4. HasTerminalUsage(m) => FinalUsage(m) # None
  BY UsageIsSome DEF FinalUsage, UsageOf
<1>5. a.terminal_seen <=> Terminals(m) # {}
  <2> HIDE DEF events, n, a
  <2> QED BY <1>1, <1>2 DEF Facts
<1>6. a.incomplete <=> \E i \in Terminals(m) : events[i].kind = "incomplete"
  <2>1. \A i : events[i].kind = "incomplete" => IsTerminal(events[i])
    BY DEF IsTerminal
  <2> HIDE DEF events, n, a
  <2> QED BY <1>1, <1>2, <2>1 DEF Facts
<1>7. HasTerminalUsage(m) => Terminals(m) # {}
  BY DEF HasTerminalUsage, TerminalUsages
<1>8. CASE a.terminal_seen
  <2>1. p = [audit |-> AuditResult(effective_model(header, a.body_model),
                                   a.usage, a.malformed),
             terminal_seen |-> TRUE, incomplete |-> a.incomplete]
    BY <1>8 DEF parse_mirror
  <2> HIDE DEF a, p, events, n
  <2>2. /\ p.terminal_seen /\ p.incomplete = a.incomplete
        /\ p.audit = AuditResult(effective_model(header, a.body_model), a.usage, a.malformed)
    BY <2>1
  <2>3. /\ p.audit.usage = IF a.usage = None THEN None ELSE a.usage.usage
        /\ p.audit.quality = IF a.usage = None THEN "unavailable" ELSE a.usage.quality
        /\ a.usage # None => p.audit.metering_error = None
        /\ a.usage = None => p.audit.metering_error \in {"malformed_usage", "missing_usage"}
    BY <1>2, <2>2 DEF AuditResult, Facts, Seen
  <2>4. a.usage = None => p.audit.metering_error # None
    BY <2>3, ReasonIsSome
  <2>5. p.incomplete <=> \E i \in Terminals(m) : events[i].kind = "incomplete"
    BY <1>6, <2>2
  <2> QED BY <1>3, <1>4, <1>5, <1>8, <2>2, <2>3, <2>4, <2>5 DEF p, events
<1>9. CASE ~a.terminal_seen /\ events # <<>>
  <2>1. p = [audit |-> AuditResult(header, None, FALSE),
             terminal_seen |-> FALSE, incomplete |-> FALSE]
    BY <1>9 DEF parse_mirror
  <2> HIDE DEF a, p, events, n
  <2>2. /\ ~p.terminal_seen /\ ~p.incomplete /\ p.audit.usage = None
        /\ p.audit.quality = "unavailable" /\ p.audit.metering_error = "missing_usage"
    BY <2>1 DEF AuditResult
  <2>3. p.audit.metering_error # None
    BY <2>2, ReasonIsSome
  <2> QED BY <1>5, <1>7, <1>9, <2>2, <2>3 DEF p, events
<1>10. CASE ~a.terminal_seen /\ events = <<>>
  <2>1. p = [audit |-> parse_json_body(m, header).audit,
             terminal_seen |-> TRUE, incomplete |-> parse_json_body(m, header).incomplete]
    BY <1>10 DEF parse_mirror
  <2>2. p.terminal_seen
    BY <2>1
  <2> QED BY <1>10, <2>2
<1> QED BY <1>8, <1>9, <1>10

\* A terminal usage in the body so far is metered whatever chunk follows it, decodable
\* or not: parse_mirror never loses what a caller could already read.
THEOREM GrowthKeepsUsage ==
    ASSUME NEW E, NEW C, \A c \in C : c.events \in Seq(E), NEW m \in Seq(C), NEW c \in C,
           NEW header, HasTerminalUsage(m)
    PROVE  /\ HasTerminalUsage(Append(m, c))
           /\ parse_mirror(Append(m, c), header).audit.usage # None
<1> DEFINE n == Append(m, c)
<1>1. n \in Seq(C) /\ sse_events(m) \in Seq(E)
  BY AppendProperties, EventsType
<1> HIDE DEF n
<1>2. sse_events(n) \in Seq(E)
  BY <1>1, EventsType
<1>3. PICK more \in Seq(E) : sse_events(n) = sse_events(m) \o more
  BY EventsGrow DEF n
<1>4. PICK i : i \in 1..Len(sse_events(m)) /\ CarriesUsage(sse_events(m)[i])
  BY <1>1, Reference DEF HasTerminalUsage
<1>5. i \in 1..Len(sse_events(n)) /\ sse_events(n)[i] = sse_events(m)[i]
  <2> DEFINE s == sse_events(m)
  <2>1. s \in Seq(E) /\ Len(s) \in Nat /\ Len(more) \in Nat /\ i \in 1..Len(s)
    BY <1>1, <1>4, LenProperties
  <2> HIDE DEF s
  <2>2. i \in 1..(Len(s) + Len(more)) /\ i <= Len(s)
    BY <2>1
  <2>3. Len(s \o more) = Len(s) + Len(more) /\ (s \o more)[i] = s[i]
    BY <2>1, <2>2, ConcatProperties
  <2> QED BY <1>3, <2>2, <2>3 DEF s
<1>6. i \in TerminalUsages(n)
  BY <1>2, <1>4, <1>5, Reference
<1>7. HasTerminalUsage(n) /\ sse_events(n) # <<>>
  BY <1>2, <1>6, Reference DEF HasTerminalUsage, TerminalUsages
<1>8. parse_mirror(n, header).audit.usage = FinalUsage(n).usage
  BY <1>2, <1>7, ParsedBody
<1>9. FinalUsage(n).usage # None
  BY UsageIsSome DEF FinalUsage, UsageOf
<1> QED BY <1>7, <1>8, <1>9 DEF n

=============================================================================
