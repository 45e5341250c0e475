------------------------------ MODULE Summary -------------------------------
(***************************************************************************)
(* The `summary` command of debitmetre (src/src/summary.rs): one pass over *)
(* the usage file that groups the recorded token facts by machine and      *)
(* model and, as a second view, by declared effort.  It reads a file that  *)
(* a gateway may be appending to and that may hold torn lines.             *)
(***************************************************************************)
EXTENDS UsageFile, Accounting

CONSTANTS
    Record,     \* the records a file can hold, each on one line
    Facts,      \* per record: [canonical, machine, model, effort, usage]
    MaxLines    \* bound: lines begun by the gateway

ASSUME MaxLinesAssumption == MaxLines \in Nat
ASSUME FactsAssumption == \A r \in Record : Facts[r].usage \in Usage \cup {None}

VARIABLES
    file,           \* the usage file, see UsageFile
    rest,           \* what the gateway still has to write of its current line
    begun,          \* records whose line the gateway began
    phase,          \* the reader: "closed", "reading", "done" or "failed"
    pos,            \* pieces read so far
    groups,         \* GroupKey -> GroupTotals
    effort_groups,  \* EffortKey -> GroupTotals
    coverage,       \* [accepted, metered]
    warnings,       \* [partial_tail, unparseable]
    atOpen          \* history: records on finished lines when the file was opened

gatewayVars == <<file, rest, begun>>
readerVars == <<phase, pos, groups, effort_groups, coverage, warnings, atOpen>>
vars == <<file, rest, begun, phase, pos, groups, effort_groups, coverage, warnings, atOpen>>

Counters == {"input_total", "uncached", "cache_read", "cache_write",
             "output_total", "reasoning", "total"}

Init ==
    /\ file = <<>> /\ rest = <<>> /\ begun = {}
    /\ phase = "closed" /\ pos = 0
    /\ groups = <<>> /\ effort_groups = <<>>
    /\ coverage = [accepted |-> 0, metered |-> 0]
    /\ warnings = [partial_tail |-> FALSE, unparseable |-> 0]
    /\ atOpen = {}

-----------------------------------------------------------------------------
(***************************************************************************)
(* Accumulating one usage object                                           *)
(***************************************************************************)
NoTotals == [records |-> 0, sums |-> [c \in Counters |-> None]]

\* Plausible bug: the plain `+` of a release build.
add_wraps(sum, value) ==
    IF value = None THEN sum
    ELSE ((IF sum = None THEN 0 ELSE sum) + value) % (MaxU64 + 1)

\* u64::saturating_add over what was recorded; a missing value adds nothing.
add(sum, value) ==
    IF value = None THEN sum
    ELSE Min({MaxU64, (IF sum = None THEN 0 ELSE sum) + value})

accumulate_usage(totals, usage) ==
    [records |-> totals.records + 1,
     sums |-> [c \in Counters |-> add(totals.sums[c], usage[c])]]

\* groups.entry(key).or_default(), then accumulated
Accumulated(table, key, usage) ==
    [k \in DOMAIN table \cup {key} |->
        IF k # key THEN table[k]
        ELSE accumulate_usage(IF k \in DOMAIN table THEN table[k] ELSE NoTotals, usage)]

GroupKey == [r \in Record |-> <<Facts[r].machine, Facts[r].model>>]
EffortKey == [r \in Record |-> Facts[r].effort]

-----------------------------------------------------------------------------
(***************************************************************************)
(* The gateway appends to the file (AuditWriter has the details): a line   *)
(* at a time, in several writes, and a line may stay unfinished.           *)
(***************************************************************************)
begin_line(r) ==
    /\ rest = <<>>
    /\ r \notin begun /\ Cardinality(begun) < MaxLines
    /\ begun' = begun \cup {r}
    /\ rest' = Line(r)
    /\ UNCHANGED <<file, readerVars>>

write_pieces(n) ==
    /\ n \in 1..Len(rest)
    /\ file' = file \o SubSeq(rest, 1, n)
    /\ rest' = SubSeq(rest, n + 1, Len(rest))
    /\ UNCHANGED <<begun, readerVars>>

tear_line ==
    /\ rest # <<>>
    /\ rest' = <<>>
    /\ UNCHANGED <<file, begun, readerVars>>

-----------------------------------------------------------------------------
(***************************************************************************)
(* The reader                                                              *)
(***************************************************************************)

\* The records counted on lines that have their newline.
Finished(f) ==
    {f[i].rec : i \in {j \in CountedLines(f) : j + 2 \in DOMAIN f}}

open ==
    /\ phase = "closed"
    /\ phase' = "reading"
    /\ atOpen' = Finished(file)
    /\ UNCHANGED <<gatewayVars, pos, groups, effort_groups, coverage, warnings>>

\* read_until: up to and including the next newline, or what there is right now.
LineEnd ==
    LET ahead == {j \in Newlines(file) : j > pos}
    IN  IF ahead = {} THEN Len(file) ELSE Min(ahead)

\* Plausible bug: the loop stops at the first line it cannot parse.
GoesOn_while_parsing == Terminated(file, pos + 1) /\ Parses(file, pos + 1)

\* An unterminated line is the last one.
GoesOn == Terminated(file, pos + 1)

\* A line that is a record: counted if it is a canonical one, else passed over.
CountLine(r) ==
    /\ IF Facts[r].canonical
       THEN coverage' = [accepted |-> coverage.accepted + 1,
                         metered |-> coverage.metered
                                        + IF Facts[r].usage = None THEN 0 ELSE 1]
       ELSE UNCHANGED coverage
    /\ IF Facts[r].canonical /\ Facts[r].usage # None
       THEN /\ groups' = Accumulated(groups, GroupKey[r], Facts[r].usage)
            /\ effort_groups' = Accumulated(effort_groups, EffortKey[r], Facts[r].usage)
       ELSE UNCHANGED <<groups, effort_groups>>
    /\ UNCHANGED warnings

\* A line that is none: a finished one is counted as unparseable, an unfinished one
\* reported as a partial tail.
SkipLine ==
    /\ warnings' = IF Terminated(file, pos + 1)
                   THEN [warnings EXCEPT !.unparseable = @ + 1]
                   ELSE [warnings EXCEPT !.partial_tail = TRUE]
    /\ UNCHANGED <<groups, effort_groups, coverage>>

\* One turn of the loop.
read_line ==
    /\ phase = "reading"
    /\ pos < Len(file)
    /\ IF Parses(file, pos + 1) THEN CountLine(file[pos + 1].rec) ELSE SkipLine
    /\ pos' = LineEnd
    /\ phase' = IF GoesOn THEN "reading" ELSE "done"
    /\ UNCHANGED <<gatewayVars, atOpen>>

\* read_until returned nothing: the end of the file, for now.
read_eof ==
    /\ phase = "reading"
    /\ pos = Len(file)
    /\ phase' = "done"
    /\ UNCHANGED <<gatewayVars, pos, groups, effort_groups, coverage, warnings, atOpen>>

\* The file cannot be opened, or a read fails: no summary is printed.
read_fails ==
    /\ phase \in {"closed", "reading"}
    /\ phase' = "failed"
    /\ UNCHANGED <<gatewayVars, pos, groups, effort_groups, coverage, warnings, atOpen>>

Gateway == (\E r \in Record : begin_line(r)) \/ (\E n \in 1..3 : write_pieces(n)) \/ tear_line
Reader == open \/ read_line \/ read_eof \/ read_fails
Next == Gateway \/ Reader

Spec == Init /\ [][Next]_vars

-----------------------------------------------------------------------------
(***************************************************************************)
(* Reference definitions, over the set of records a reader of the text up  *)
(* to pos counts                                                           *)
(***************************************************************************)
Read == {r \in Counted(SubSeq(file, 1, pos)) : Facts[r].canonical}
Metered == {r \in Read : Facts[r].usage # None}

\* The tokens recorded under counter c in S, one by one, and the cell that sums them up
Recorded(S, c) == {r \in S : Facts[r].usage[c] # None}
Tokens(S, c) == UNION {{r} \X (1..Facts[r].usage[c]) : r \in Recorded(S, c)}
Cell(S, c) ==
    IF Recorded(S, c) = {} THEN None ELSE Min({MaxU64, Cardinality(Tokens(S, c))})

Row(S) == [records |-> Cardinality(S), sums |-> [c \in Counters |-> Cell(S, c)]]
Rows(S, key) == [k \in {key[r] : r \in S} |-> Row({r \in S : key[r] = k})]

\* At every moment of the pass both tables and the coverage are exactly the totals of
\* the records on the lines read, so that the two views agree: a cell is missing only
\* if no record of its row has the counter, never an invented 0, and saturates instead
\* of wrapping, in whatever order the lines come and whatever damage lies between them
\* (summary.rs, read_usage_file).
TablesAreTotals ==
    /\ groups = Rows(Metered, GroupKey)
    /\ effort_groups = Rows(Metered, EffortKey)
    /\ coverage = [accepted |-> Cardinality(Read), metered |-> Cardinality(Metered)]

\* A pass over a file that is being appended to and torn misses no record that was
\* on a finished line when the file was opened, and every unparseable line it
\* reports is one (summary.rs, the loop).
NothingMissed ==
    phase = "done" =>
        /\ atOpen \subseteq Counted(SubSeq(file, 1, pos))
        /\ warnings.unparseable = Cardinality(UnparseableLines(SubSeq(file, 1, pos)))
=============================================================================
