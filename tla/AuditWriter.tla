---------------------------- MODULE AuditWriter -----------------------------
(***************************************************************************)
(* The fail-open audit writer of debitmetre (src/src/usage.rs,             *)
(* AuditWriter): request tasks offer records without ever blocking, a      *)
(* bounded queue hands them to one background thread, and the thread       *)
(* appends lines to the usage file.  The process can be killed, can exit,  *)
(* and can be started again over the same file; a write can stop short and *)
(* fail.                                                                   *)
(***************************************************************************)
EXTENDS UsageFile, SequencesExt

CONSTANTS
    Record,         \* the records that are offered, each once
    QueueCapacity,  \* AUDIT_QUEUE_CAPACITY, 2048 in the code
    MaxFails,       \* bound: failed writes
    MaxKills,       \* bound: process deaths without an exit
    MaxExits        \* bound: graceful exits

ASSUME QueueCapacityAssumption == QueueCapacity \in Nat \ {0}
ASSUME BoundsAssumption == MaxFails \in Nat /\ MaxKills \in Nat /\ MaxExits \in Nat

VARIABLES
    proc,       \* "down", "up", or "draining" once the AuditWriter was dropped
    caller,     \* per record, its try_record: "idle", "warn" or "done"
    queue,      \* the bounded channel
    rest,       \* what write_all still has to write of the current line
    drop_warned, write_warned,  \* the one-shot flags of this process
    file,       \* the usage file
    (* history *)
    accepted,   \* records the queue took, in order
    written,    \* records whose write_all returned Ok
    failed,     \* records whose write_all returned an error
    dropped,    \* records the queue refused
    tears,      \* lines left unfinished in the file
    kills, exits

procVars == <<proc, kills, exits>>
warnVars == <<drop_warned, write_warned>>
vars == <<proc, caller, queue, rest, drop_warned, write_warned, file, accepted,
          written, failed, dropped, tears, kills, exits>>

Init ==
    /\ proc = "down"
    /\ caller = [r \in Record |-> "idle"]
    /\ queue = <<>> /\ rest = <<>> /\ file = <<>>
    /\ drop_warned = FALSE /\ write_warned = FALSE
    /\ accepted = <<>> /\ written = {} /\ failed = {} /\ dropped = {}
    /\ tears = 0 /\ kills = 0 /\ exits = 0

-----------------------------------------------------------------------------
\* A line is torn when some but not all of it is in the file.
Torn == IF rest # <<>> /\ Len(rest) < 3 THEN 1 ELSE 0

\* Plausible bugs: the file is truncated on opening; the bound of the queue is
\* missed by one.
Opened_truncated == <<>>
HasRoom_off_by_one == Len(queue) <= QueueCapacity

\* OpenOptions::create(true).append(true): what is there stays there.
Opened == file
HasRoom == Len(queue) < QueueCapacity

\* AuditWriter::start, in a new process
start ==
    /\ proc = "down"
    /\ proc' = "up"
    /\ file' = Opened
    /\ queue' = <<>> /\ rest' = <<>>
    /\ drop_warned' = FALSE /\ write_warned' = FALSE
    /\ UNCHANGED <<caller, accepted, written, failed, dropped, tears, kills, exits>>

\* Plausible bug: a blocking send, which waits for room.
try_record_waits(r) ==
    /\ proc = "up"
    /\ caller[r] = "idle"
    /\ HasRoom
    /\ queue' = Append(queue, r)
    /\ accepted' = Append(accepted, r)
    /\ caller' = [caller EXCEPT ![r] = "done"]
    /\ UNCHANGED <<procVars, warnVars, rest, file, written, failed, dropped, tears>>

\* try_record's try_send: it never waits, and a full queue means the record is
\* dropped and the task goes on to warn.
try_record(r) ==
    /\ proc = "up"
    /\ caller[r] = "idle"
    /\ IF HasRoom
       THEN /\ queue' = Append(queue, r)
            /\ accepted' = Append(accepted, r)
            /\ caller' = [caller EXCEPT ![r] = "done"]
            /\ UNCHANGED dropped
       ELSE /\ caller' = [caller EXCEPT ![r] = "warn"]
            /\ dropped' = dropped \cup {r}
            /\ UNCHANGED <<queue, accepted>>
    /\ UNCHANGED <<procVars, warnVars, rest, file, written, failed, tears>>

\* warn_once: an atomic swap of the flag, and the message by whoever found it unset
warn_dropped(r) ==
    /\ proc = "up"
    /\ caller[r] = "warn"
    /\ caller' = [caller EXCEPT ![r] = "done"]
    /\ drop_warned' = TRUE
    /\ UNCHANGED <<procVars, queue, rest, write_warned, file, accepted, written,
                   failed, dropped, tears>>

-----------------------------------------------------------------------------
(***************************************************************************)
(* The writer thread                                                       *)
(***************************************************************************)
Running == proc \in {"up", "draining"}

\* Plausible bug: the loop ends at the first write error.
write_loop_recv_until_error ==
    /\ Running /\ ~write_warned
    /\ rest = <<>> /\ queue # <<>>
    /\ rest' = Line(Head(queue)) /\ queue' = Tail(queue)
    /\ UNCHANGED <<procVars, warnVars, caller, file, accepted, written, failed,
                   dropped, tears>>

\* rx.recv() and the serialization of the line, which cannot fail for a record's type
write_loop_recv ==
    /\ Running
    /\ rest = <<>>
    /\ queue # <<>>
    /\ rest' = Line(Head(queue))
    /\ queue' = Tail(queue)
    /\ UNCHANGED <<procVars, warnVars, caller, file, accepted, written, failed,
                   dropped, tears>>

\* Plausible bug: `write` for `write_all`, which drops what a short write left.
Remaining_dropped(n) == <<>>

Remaining(n) == SubSeq(rest, n + 1, Len(rest))

\* write_all calls write(2) until the line is out; a call may write only part of it.
write_some(n) ==
    /\ Running
    /\ n \in 1..Len(rest)
    /\ file' = file \o SubSeq(rest, 1, n)
    /\ rest' = Remaining(n)
    /\ written' = IF n = Len(rest) THEN written \cup {rest[1].rec} ELSE written
    /\ UNCHANGED <<procVars, warnVars, caller, queue, accepted, failed, dropped, tears>>

\* Plausible bug: the loop retries the whole line after a failed write.
AfterFail_retry == Line(rest[1].rec)

\* The loop goes on with the next record.
AfterFail == <<>>

\* A write fails (a full disk, an I/O error): warn once.
write_fail ==
    /\ Running
    /\ rest # <<>>
    /\ Cardinality(failed) < MaxFails
    /\ tears' = tears + Torn
    /\ failed' = failed \cup {rest[1].rec}
    /\ rest' = AfterFail
    /\ write_warned' = TRUE
    /\ UNCHANGED <<procVars, caller, queue, drop_warned, file, accepted, written, dropped>>

-----------------------------------------------------------------------------
(***************************************************************************)
(* The process around it (main.rs, run_gateway)                            *)
(***************************************************************************)

\* Plausible bug: the writer thread is joined.
drop_writer_joins ==
    /\ proc = "up"
    /\ exits < MaxExits
    /\ queue = <<>> /\ rest = <<>>
    /\ \A r \in Record : caller[r] # "warn"
    /\ proc' = "draining"
    /\ UNCHANGED <<warnVars, caller, queue, rest, file, accepted, written, failed,
                   dropped, tears, kills, exits>>

\* The last handle goes away: the sender is dropped and the thread detached.
drop_writer ==
    /\ proc = "up"
    /\ exits < MaxExits
    /\ \A r \in Record : caller[r] # "warn"
    /\ proc' = "draining"
    /\ UNCHANGED <<warnVars, caller, queue, rest, file, accepted, written, failed,
                   dropped, tears, kills, exits>>

\* The memory of the process is gone; the file keeps what was written.
Die ==
    /\ proc' = "down"
    /\ queue' = <<>>
    /\ rest' = <<>>
    /\ tears' = tears + Torn
    /\ UNCHANGED <<warnVars, file, accepted, written, failed, dropped>>

\* main returns, whatever the detached thread is doing.
exit ==
    /\ proc = "draining"
    /\ exits' = exits + 1
    /\ Die
    /\ UNCHANGED <<caller, kills>>

kill ==
    /\ Running
    /\ kills < MaxKills
    /\ kills' = kills + 1
    /\ Die
    /\ caller' = [r \in Record |-> IF caller[r] = "warn" THEN "done" ELSE caller[r]]
    /\ UNCHANGED exits

-----------------------------------------------------------------------------
Callers == \E r \in Record : try_record(r) \/ warn_dropped(r)
write_loop == write_loop_recv \/ (\E n \in 1..3 : write_some(n)) \/ write_fail
Process == start \/ drop_writer \/ exit \/ kill

Next == Callers \/ write_loop \/ Process

Spec == Init /\ [][Next]_vars

\* The writer thread is scheduled and the file system answers.  Nothing is assumed
\* of the callers, nor that a write succeeds.
WriterScheduled ==
    WF_vars(write_loop_recv) /\ WF_vars(\E n \in 1..3 : write_some(n))

FairSpec == Spec /\ WriterScheduled

-----------------------------------------------------------------------------
TypeOK ==
    /\ proc \in {"down", "up", "draining"}
    /\ caller \in [Record -> {"idle", "warn", "done"}]
    /\ queue \in Seq(Record) /\ Len(queue) <= QueueCapacity
    /\ rest = <<>> \/ \E r \in Record, n \in 1..3 : rest = SubSeq(Line(r), n, 3)
    /\ drop_warned \in BOOLEAN /\ write_warned \in BOOLEAN
    /\ file \in Seq([rec : Record, part : {"head", "tail", "nl"}])
    /\ accepted \in Seq(Record)
    /\ written \subseteq Record /\ failed \subseteq Record /\ dropped \subseteq Record
    /\ tears \in Nat /\ kills \in Nat /\ exits \in Nat

\* The record the writer thread is working on
Current == IF rest = <<>> THEN {} ELSE {rest[1].rec}

AcceptedAt(r) == CHOOSE i \in DOMAIN accepted : accepted[i] = r

\* Lines appear in the file in the order the queue took the records, each at most
\* once, over all the processes that ever wrote to it: no failure, short write or
\* restart makes the writer repeat or overtake a line.
FileFollowsQueue ==
    \A i, j \in DOMAIN file :
        i < j /\ file[i].part = "head" /\ file[j].part = "head" =>
            AcceptedAt(file[i].rec) < AcceptedAt(file[j].rec)

\* While the process lives, every record the queue took is in exactly one place:
\* waiting, being written, written or failed.
NothingVanishes ==
    kills + exits = 0 =>
        /\ ToSet(accepted) = ToSet(queue) \cup Current \cup written \cup failed
        /\ Len(accepted) = Len(queue) + Cardinality(Current) + Cardinality(written)
                            + Cardinality(failed)

\* A torn line costs at most one further record: of the records whose write was
\* reported as successful, the summary misses no more than there are torn lines,
\* however crashes, failures and restarts follow each other.
LossIsBounded == Cardinality(written \ Counted(file)) <= tears

\* The reader's warnings are never spurious: each unparseable line, and an
\* unfinished tail that is not just being written, stands for a torn line.
DamageIsExplained ==
    Cardinality(UnparseableLines(file))
        + (IF PartialTail(file) /\ Torn = 0 THEN 1 ELSE 0) <= tears

\* A record that was written to its newline and is counted by the summary stays
\* counted, whatever is appended after it and however often the process restarts.
CountedSurvives ==
    [][\A r \in written : r \in Counted(file) => r \in Counted(file')]_vars

\* A record the queue took is written or reported as failed, unless the process
\* ends first: a failed write never stops the writer (usage.rs, write_loop).
AcceptedIsSettled ==
    \A r \in Record :
        r \in ToSet(queue) ~> (r \in written \cup failed \/ proc = "down")

(***************************************************************************)
(* What the documentation says and the code does not do: it is refuted     *)
(***************************************************************************)

\* DESIGN.md 7: "A process crash may lose the last record or leave a trailing partial
\* line": a record written in full after it is still counted.
WrittenIsCounted == written \subseteq Counted(file)
=============================================================================
