-------------------------- MODULE MCObserverProofs --------------------------
(***************************************************************************)
(* Proofs about the state machine of MCObserver: its properties for bodies *)
(* of any number of chunks and usage objects of any number of members,     *)
(* where its run has MaxChunks and MaxMembers.                             *)
(***************************************************************************)
EXTENDS MCObserver, ObserverProofs

(***************************************************************************)
(* Reading counters                                                        *)
(***************************************************************************)

\* The first name that holds a counter decides, and there is one unless no name does.
LEMMA FirstCounterIsReported ==
    ASSUME NEW u, NEW n \in Nat, NEW names, DOMAIN names = 1..n
    PROVE  /\ FirstCounter(u, names) # None =>
                \E i \in DOMAIN names :
                   /\ names[i] \in DOMAIN u
                   /\ u[names[i]] = FirstCounter(u, names)
                   /\ \A j \in 1..(i - 1) : names[j] \in DOMAIN u => u[names[j]] \notin U64
           /\ FirstCounter(u, names) = None =>
                \A i \in DOMAIN names : names[i] \in DOMAIN u => u[names[i]] \notin U64
<1> DEFINE good == {i \in DOMAIN names : as_u64(u, names[i]) # None}
<1>1. n \in Nat /\ DOMAIN names = 1..n
  OBVIOUS
<1>2. ASSUME NEW i \in DOMAIN names
      PROVE  i \in good <=> names[i] \in DOMAIN u /\ u[names[i]] \in U64
  <2>1. \A v \in U64 : v # None
    BY MaxU64Assumption, NoneAssumption DEF U64
  <2> QED BY <2>1 DEF as_u64
<1>3. CASE good = {}
  <2>1. FirstCounter(u, names) = None
    BY <1>3 DEF FirstCounter
  <2> QED BY <1>2, <1>3, <2>1
<1>4. CASE good # {}
  <2>1. good \subseteq Nat
    BY <1>1
  <2> HIDE DEF good
  <2>2. Min(good) \in good /\ \A y \in good : Min(good) <= y
    BY <1>4, <2>1, SmallestExists
  <2>3. FirstCounter(u, names) = as_u64(u, names[Min(good)])
    BY <1>4 DEF FirstCounter, good
  <2>4. PICK k : k = Min(good)
    OBVIOUS
  <2>5. k \in DOMAIN names /\ k \in good /\ \A y \in good : k <= y
    BY <2>2, <2>4 DEF good
  <2>6. names[k] \in DOMAIN u /\ u[names[k]] \in U64 /\ u[names[k]] = FirstCounter(u, names)
    BY <1>2, <2>3, <2>4, <2>5 DEF as_u64
  <2>7. ASSUME NEW j \in 1..(k - 1) PROVE names[j] \in DOMAIN u => u[names[j]] \notin U64
    <3>1. j \in DOMAIN names /\ ~(k <= j)
      BY <1>1, <2>5
    <3> QED BY <1>2, <2>5, <3>1
  <2>8. FirstCounter(u, names) # None
    BY <2>6, MaxU64Assumption, NoneAssumption DEF U64
  <2> QED BY <2>5, <2>6, <2>7, <2>8
<1> QED BY <1>3, <1>4

\* The first name that is there decides, and what it holds is a counter or nothing.
LEMMA FirstPresentIsReported ==
    ASSUME NEW u, NEW n \in Nat, NEW names, DOMAIN names = 1..n, FirstPresent(u, names) # None
    PROVE  \E i \in DOMAIN names :
              /\ names[i] \in DOMAIN u
              /\ u[names[i]] = FirstPresent(u, names)
              /\ \A j \in 1..(i - 1) : names[j] \in DOMAIN u => u[names[j]] \notin U64
<1> DEFINE there == {i \in DOMAIN names : names[i] \in DOMAIN u}
<1>1. n \in Nat /\ DOMAIN names = 1..n
  OBVIOUS
<1>2. there # {}
  BY DEF FirstPresent
<1>3. FirstPresent(u, names) = as_u64(u, names[Min(there)])
  BY <1>2 DEF FirstPresent
<1>4. Min(there) \in there /\ \A y \in there : Min(there) <= y
  <2>1. there \subseteq Nat
    BY <1>1
  <2> HIDE DEF there
  <2> QED BY <1>2, <2>1, SmallestExists
<1>5. PICK k : k = Min(there)
  OBVIOUS
<1>6. k \in DOMAIN names /\ names[k] \in DOMAIN u /\ \A y \in there : k <= y
  BY <1>4, <1>5
<1>7. u[names[k]] = FirstPresent(u, names)
  <2> HIDE DEF there
  <2> QED BY <1>3, <1>5, <1>6 DEF as_u64
<1>8. ASSUME NEW j \in 1..(k - 1) PROVE names[j] \notin DOMAIN u
  <2>1. j \in DOMAIN names /\ ~(k <= j)
    BY <1>1, <1>6
  <2> QED BY <1>6, <2>1
<1> QED BY <1>6, <1>7, <1>8

\* Of any usage object at all: no counter is invented and none is lost to a name that
\* the code tries later (usage.rs, extract_raw_usage).
THEOREM CountersOfAnyObject == CountersAreReported
<1> DEFINE Reported(c, names) ==
        /\ raw[c] # None =>
             \E i \in DOMAIN names :
                /\ names[i] \in DOMAIN reported
                /\ reported[names[i]] = raw[c]
                /\ \A j \in 1..(i - 1) :
                     names[j] \in DOMAIN reported => reported[names[j]] \notin U64
        /\ raw[c] = None /\ c \notin {"input_total", "output_total"} =>
             \A i \in DOMAIN names :
                names[i] \in DOMAIN reported => reported[names[i]] \notin U64
<1>1. \A c \in DOMAIN Names : \E n \in Nat : DOMAIN Names[c] = 1..n
  <2>1. \A a : DOMAIN <<a>> = 1..1
    OBVIOUS
  <2>2. \A a, b : DOMAIN <<a, b>> = 1..2
    OBVIOUS
  <2>3. \A a, b, d : DOMAIN <<a, b, d>> = 1..3
    OBVIOUS
  <2>4. \A a, b, d, e, f : DOMAIN <<a, b, d, e, f>> = 1..5
    OBVIOUS
  <2>5. \A c \in DOMAIN Names : DOMAIN Names[c] \in {1..1, 1..2, 1..3, 1..5}
    BY <2>1, <2>2, <2>3, <2>4 DEF Names
  <2> QED BY <2>5
<1>2. \A c \in DOMAIN Names :
        \/ c \in {"input_total", "output_total"} /\ raw[c] = FirstPresent(reported, Names[c])
        \/ raw[c] = FirstCounter(reported, Names[c])
  BY DEF Names, raw, extract_raw_usage
<1>3. ASSUME NEW c \in DOMAIN Names PROVE Reported(c, Names[c])
  <2>1. CASE c \in {"input_total", "output_total"} /\ raw[c] = FirstPresent(reported, Names[c])
    BY <1>1, <2>1, FirstPresentIsReported
  <2>2. CASE raw[c] = FirstCounter(reported, Names[c])
    BY <1>1, <2>2, FirstCounterIsReported
  <2> QED BY <1>2, <2>1, <2>2
<1> QED BY <1>3 DEF CountersAreReported

-----------------------------------------------------------------------------
(***************************************************************************)
(* The state machine                                                       *)
(***************************************************************************)

\* The inductive invariant: the mirror holds a stream of chunks or the one document
\* that carries the reported object, and what was parsed is what the mirror holds.
MirrorInv ==
    /\ \E D \in SUBSET Keys : reported \in [D -> U64 \cup {Junk}]
    /\ reported = <<>> => mirror \in Seq(Chunks)
    /\ reported # <<>> =>
         /\ header_model = None
         /\ mirror = <<>> \/ mirror = <<Doc(FALSE, None, reported)>>
    /\ parsed # None =>
         /\ parsed = parse_mirror(mirror, header_model)
         /\ reported # <<>> => mirror # <<>>

\* The events of every chunk are a sequence.
LEMMA ChunkEvents ==
    \A c \in Chunks : c.events \in Seq(UNION {ToSet(d.events) : d \in Chunks})
<1> DEFINE E == UNION {ToSet(d.events) : d \in Chunks}
<1>1. ASSUME NEW c \in Chunks
      PROVE  \/ c.events = <<>>
             \/ \E e : c.events = <<e>>
             \/ \E e, f : c.events = <<e, f>>
  BY DEF Chunks, Sse, Doc
<1>2. ASSUME NEW c \in Chunks PROVE c.events \in Seq(ToSet(c.events))
  <2>1. CASE c.events = <<>>
    BY <2>1, EmptySeq
  <2>2. ASSUME NEW e, c.events = <<e>> PROVE c.events \in Seq(ToSet(c.events))
    <3>1. e \in ToSet(<<e>>)
      BY DEF ToSet
    <3> QED BY <2>2, <3>1
  <2>3. ASSUME NEW e, NEW f, c.events = <<e, f>> PROVE c.events \in Seq(ToSet(c.events))
    <3>1. e \in ToSet(<<e, f>>) /\ f \in ToSet(<<e, f>>)
      BY DEF ToSet
    <3> QED BY <2>3, <3>1
  <2> QED BY <1>1, <2>1, <2>2, <2>3
<1>3. ASSUME NEW c \in Chunks PROVE c.events \in Seq(E)
  <2>1. ToSet(c.events) \subseteq E
    OBVIOUS
  <2> HIDE DEF E
  <2> QED BY <1>2, <2>1, SeqMonotonic
<1> QED BY <1>3

\* The first state satisfies the invariant.
LEMMA MirrorInit == Init => MirrorInv
<1> SUFFICES ASSUME Init PROVE MirrorInv
  OBVIOUS
<1>1. reported \in [{} -> U64 \cup {Junk}] /\ {} \in SUBSET Keys
  BY DEF Init
<1>2. <<>> \in Seq(Chunks)
  BY EmptySeq
<1> QED BY <1>1, <1>2 DEF Init, MirrorInv

\* Every step keeps it.
LEMMA MirrorStep == MirrorInv /\ [Next]_vars => MirrorInv'
<1> SUFFICES ASSUME MirrorInv, [Next]_vars PROVE MirrorInv'
  OBVIOUS
<1>1. ASSUME NEW key \in Keys, NEW v \in U64 \cup {Junk}, Report(key, v) PROVE MirrorInv'
  <2>1. PICK D \in SUBSET Keys : reported \in [D -> U64 \cup {Junk}]
    BY DEF MirrorInv
  <2>2. reported' \in [D \cup {key} -> U64 \cup {Junk}] /\ D \cup {key} \in SUBSET Keys
    BY <1>1, <2>1 DEF Report
  <2>3. /\ header_model' = None /\ mirror' = <<>> /\ parsed' = None
    BY <1>1 DEF Report
  <2>4. <<>> \in Seq(Chunks)
    BY EmptySeq
  <2> QED BY <2>2, <2>3, <2>4 DEF MirrorInv
<1>2. ASSUME reported = <<>>, NEW chunk \in Chunks, push(chunk) PROVE MirrorInv'
  <2>1. mirror \in Seq(Chunks)
    BY <1>2 DEF MirrorInv
  <2>2. mirror' \in Seq(Chunks) /\ parsed' = None /\ UNCHANGED <<reported, header_model>>
    BY <1>2, <2>1, AppendProperties DEF push
  <2> QED BY <1>2, <2>2 DEF MirrorInv
<1>3. ASSUME reported # <<>>, mirror = <<>>, push(Doc(FALSE, None, reported))
      PROVE  MirrorInv'
  <2> DEFINE d == Doc(FALSE, None, reported)
  <2>1. mirror' = Append(<<>>, d) /\ parsed' = None /\ UNCHANGED <<reported, header_model>>
    BY <1>3 DEF push
  <2> HIDE DEF d
  <2>2. mirror' = <<d>>
    BY <2>1
  <2>3. mirror' = <<Doc(FALSE, None, reported')>>
    BY <2>1, <2>2 DEF d
  <2> QED BY <1>3, <2>1, <2>3 DEF MirrorInv
<1>4. ASSUME reported = <<>> \/ mirror # <<>>, finalize PROVE MirrorInv'
  <2>1. /\ UNCHANGED <<reported, header_model, mirror>>
        /\ parsed' = parse_mirror(mirror', header_model')
    BY <1>4 DEF finalize
  <2> QED BY <1>4, <2>1 DEF MirrorInv
<1>5. CASE UNCHANGED vars
  BY <1>5 DEF vars, MirrorInv
<1> QED BY <1>1, <1>2, <1>3, <1>4, <1>5 DEF Next

\* In every reachable state the invariant holds.
THEOREM Mirrored == Spec => []MirrorInv
<1>1. Init => MirrorInv
  BY MirrorInit
<1>2. MirrorInv /\ [Next]_vars => MirrorInv'
  BY MirrorStep
<1> QED
  BY <1>1, <1>2, PTL DEF Spec

-----------------------------------------------------------------------------
(***************************************************************************)
(* What the invariant gives                                                *)
(***************************************************************************)

\* The events of the mirror are a sequence, whatever was pushed.
LEMMA MirrorEvents ==
    ASSUME MirrorInv
    PROVE  \E E : sse_events(mirror) \in Seq(E)
<1> DEFINE d == Doc(FALSE, None, reported)
<1>1. CASE mirror \in Seq(Chunks)
  BY <1>1, ChunkEvents, EventsType
<1>2. CASE mirror = <<d>>
  <2>1. mirror \in Seq({d})
    BY <1>2
  <2>2. d.events = <<>>
    BY DEF Doc
  <2>3. \A c \in {d} : c.events \in Seq({})
    BY <2>2, EmptySeq
  <2> HIDE DEF d
  <2>4. sse_events(mirror) \in Seq({})
    BY <2>1, <2>3, EventsType
  <2> QED BY <2>4
<1>3. CASE mirror = <<>>
  BY <1>1, <1>3, EmptySeq
<1> QED BY <1>1, <1>2, <1>3 DEF MirrorInv

\* An SSE body of any length is metered by its last usage object, and one without any
\* is unavailable for a stated reason (usage.rs, parse_mirror).
THEOREM LastUsageCounts == Spec => []SseUsageIsTheLastReported
<1>1. MirrorInv => SseUsageIsTheLastReported
  <2> SUFFICES ASSUME MirrorInv, parsed # None, sse_events(mirror) # <<>>
               PROVE  IF HasTerminalUsage(mirror)
                      THEN /\ parsed.audit.usage = FinalUsage(mirror).usage
                           /\ parsed.audit.quality = FinalUsage(mirror).quality
                      ELSE /\ parsed.audit.usage = None
                           /\ parsed.audit.quality = "unavailable"
                           /\ parsed.audit.metering_error # None
    BY DEF SseUsageIsTheLastReported, Framed
  <2>1. PICK E : sse_events(mirror) \in Seq(E)
    BY MirrorEvents
  <2>2. parsed = parse_mirror(mirror, header_model)
    BY DEF MirrorInv
  <2> QED BY <2>1, <2>2, ParsedBody
<1> QED
  BY <1>1, Mirrored, PTL

\* One incomplete event makes an SSE body of any length incomplete, and it is terminal
\* exactly when it has a terminal event (usage.rs, parse_mirror; DESIGN.md 4.1).
THEOREM LifecycleOfAnyBody == Spec => []SseLifecycle
<1>1. MirrorInv => SseLifecycle
  <2> SUFFICES ASSUME MirrorInv, parsed # None, sse_events(mirror) # <<>>
               PROVE  /\ parsed.terminal_seen <=> Terminals(mirror) # {}
                      /\ parsed.incomplete <=>
                           \E i \in Terminals(mirror) : sse_events(mirror)[i].kind = "incomplete"
    BY DEF SseLifecycle, Framed
  <2>1. PICK E : sse_events(mirror) \in Seq(E)
    BY MirrorEvents
  <2>2. parsed = parse_mirror(mirror, header_model)
    BY DEF MirrorInv
  <2> QED BY <2>1, <2>2, ParsedBody
<1> QED
  BY <1>1, Mirrored, PTL

\* The body that is one document: no events, and the document is the reported one.
LEMMA DocumentParsed ==
    ASSUME NEW D \in SUBSET Keys, NEW u \in [D -> U64 \cup {Junk}]
    PROVE  parse_mirror(<<Doc(FALSE, None, u)>>, None).audit =
                AuditResult(None, canonicalize(extract_raw_usage(u)), FALSE)
<1> DEFINE d == Doc(FALSE, None, u)
           m == <<d>>
<1>1. /\ d.utf8 = TRUE /\ d.events = <<>>
      /\ d.doc = [incomplete |-> FALSE, model |-> None, usage |-> u]
  BY DEF Doc
<1>2. d.doc # None /\ u # None /\ u # Malformed
  <2> DEFINE objects == [D -> U64 \cup {Junk}]
             documents == [incomplete : BOOLEAN, model : {None}, usage : objects]
  <2>1. None \notin objects /\ Malformed \notin objects /\ None \notin documents
    BY ObjectAssumption
  <2>2. u \in objects
    OBVIOUS
  <2> HIDE DEF objects
  <2>3. [incomplete |-> FALSE, model |-> None, usage |-> u] \in documents
    BY <2>2
  <2> HIDE DEF documents, d
  <2> QED BY <1>1, <2>1, <2>2, <2>3
<1> HIDE DEF d
<1>3. m \in Seq({d}) /\ Len(m) = 1 /\ m[1] = d /\ DOMAIN m = 1..1 /\ m # <<>>
  OBVIOUS
<1> HIDE DEF m
<1>4. Undecodable(m) = {}
  BY <1>1, <1>3 DEF Undecodable
<1>5. sse_events(m) = <<>>
  <2> DEFINE s == [i \in DOMAIN m |-> m[i].events]
  <2>1. sse_events(m) = FlattenSeq(s)
    BY <1>4 DEF sse_events
  <2>2. s = <<d.events>>
    BY <1>3
  <2>3. Len(s) = 1 /\ s[1] = <<>>
    BY <1>1, <2>2
  <2> HIDE DEF s
  <2>4. PICK j : Joins(j, s) /\ FlattenSeq(s) = j[Len(s)]
    <3>1. Len(s) \in Nat \ {0}
      BY <2>3
    <3> QED BY <3>1, FlattenRuns
  <2> QED BY <2>1, <2>3, <2>4 DEF Joins
<1>6. ~observe_events(<<>>).terminal_seen
  <2>1. Len(<<>>) = 0
    OBVIOUS
  <2>2. Facts(observe_events(<<>>), <<>>, 0)
    BY <2>1, LoopFacts
  <2> QED BY <2>2 DEF Facts
<1>7. parse_mirror(m, None).audit = parse_json_body(m, None).audit
  BY <1>5, <1>6 DEF parse_mirror
<1>8. JsonRoot(m) = d.doc
  BY <1>3, <1>4 DEF JsonRoot, Last
<1>9. parse_json_body(m, None).audit
        = AuditResult(None, canonicalize(extract_raw_usage(u)), FALSE)
  <2>1. JsonRoot(m).model = None /\ JsonRoot(m).usage = u /\ JsonRoot(m) # None
    BY <1>1, <1>2, <1>8
  <2>2. effective_model(None, JsonRoot(m).model) = None
    BY <2>1 DEF effective_model
  <2>3. IsObject(u) /\ (u = Malformed) = FALSE
    BY <1>2 DEF IsObject
  <2> QED BY <2>1, <2>2, <2>3 DEF parse_json_body
<1> QED BY <1>7, <1>9 DEF d, m

\* Of a usage object with any members: its record is its canonical usage, the buckets
\* of one marked complete add up, and inconsistent marks exactly an overfull cache
\* (usage.rs, parse_json_body and canonicalize).
THEOREM AccountingOfAnyObject == Spec => []ObjectAccounting
<1>1. MirrorInv => ObjectAccounting
  <2> SUFFICES ASSUME MirrorInv, reported # <<>>, parsed # None
               PROVE  /\ parsed.audit.usage = canonicalize(raw).usage
                      /\ parsed.audit.quality = canonicalize(raw).quality
                      /\ BucketsAddUp(raw)
                      /\ OverfullIsInconsistent(raw)
    BY DEF ObjectAccounting
  <2>1. PICK D \in SUBSET Keys : reported \in [D -> U64 \cup {Junk}]
    BY DEF MirrorInv
  <2>2. parsed = parse_mirror(<<Doc(FALSE, None, reported)>>, None)
    BY DEF MirrorInv
  <2>3. parsed.audit = AuditResult(None, canonicalize(raw), FALSE)
    BY <2>1, <2>2, DocumentParsed DEF raw
  <2>4. canonicalize(raw) # None
    <3> DEFINE e == [response |-> [usage |-> reported]]
    <3>1. UsageOf(e) = canonicalize(raw)
      BY DEF UsageOf, raw
    <3> QED BY <3>1, UsageIsSome
  <2>5. /\ parsed.audit.usage = canonicalize(raw).usage
        /\ parsed.audit.quality = canonicalize(raw).quality
    BY <2>3, <2>4 DEF AuditResult
  <2>6. BucketsAddUp(raw) /\ OverfullIsInconsistent(raw)
    BY BucketsOfAnyObject, OverfullOfAnyObject DEF raw
  <2> QED BY <2>5, <2>6
<1> QED
  BY <1>1, Mirrored, PTL

\* However long the body already is, the next chunk never loses a terminal usage that
\* was in it (usage.rs, parse_mirror over what push mirrored).
THEOREM UsageOutlivesGrowth == Spec => UsageSurvivesGrowth
<1> DEFINE Kept == HasTerminalUsage(mirror) =>
                        parse_mirror(mirror', header_model).audit.usage # None
<1>1. MirrorInv /\ [Next]_vars => [Kept]_vars
  <2> SUFFICES ASSUME MirrorInv, Next, HasTerminalUsage(mirror)
               PROVE  parse_mirror(mirror', header_model).audit.usage # None
    OBVIOUS
  <2>0. PICK E : sse_events(mirror) \in Seq(E)
    BY MirrorEvents
  <2>1. mirror # <<>>
    <3> SUFFICES ASSUME mirror = <<>> PROVE FALSE
      OBVIOUS
    <3>1. <<>> \in Seq({}) /\ \A c \in {} : c.events \in Seq({})
      BY EmptySeq
    <3>2. sse_events(<<>>) \in Seq({})
      BY <3>1, EventsType
    <3>3. sse_events(<<>>) = <<>>
      BY <3>2, EmptySeq
    <3> QED BY <2>0, <3>3, Reference DEF HasTerminalUsage, TerminalUsages
  <2>2. CASE mirror' = mirror
    <3>1. sse_events(mirror) # <<>>
      BY <2>0, Reference DEF HasTerminalUsage, TerminalUsages
    <3>2. parse_mirror(mirror, header_model).audit.usage = FinalUsage(mirror).usage
      BY <2>0, <3>1, ParsedBody
    <3>3. FinalUsage(mirror).usage # None
      BY UsageIsSome DEF FinalUsage, UsageOf
    <3> QED BY <2>2, <3>2, <3>3
  <2>3. ASSUME reported = <<>>, NEW chunk \in Chunks, push(chunk)
        PROVE  parse_mirror(mirror', header_model).audit.usage # None
    <3>1. mirror \in Seq(Chunks) /\ mirror' = Append(mirror, chunk)
      BY <2>3 DEF MirrorInv, push
    <3> QED BY <3>1, ChunkEvents, GrowthKeepsUsage
  <2> QED BY <2>1, <2>2, <2>3 DEF Next, Report, finalize
<1> QED
  BY <1>1, Mirrored, PTL DEF Spec, UsageSurvivesGrowth

=============================================================================
