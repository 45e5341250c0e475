-------------------------------- MODULE Smoke -------------------------------
(***************************************************************************)
(* The `smoke` command of debitmetre (src/src/smoke.rs): it starts a mock  *)
(* upstream and a real gateway in a temporary workspace, lets an external  *)
(* load generator (oha) send requests, and reconciles what oha reports     *)
(* with the usage file of the gateway.                                     *)
(*                                                                         *)
(* The gateway is a child process that may be slow, fail to start or die;  *)
(* oha may do and report anything; other programs take and leave ports.    *)
(* RSS sampling and the wording of the report are left out.                *)
(***************************************************************************)
EXTENDS CommandLine, FiniteSets

CONSTANTS
    Lists,      \* argument lists
    Reports,    \* what oha may print, see parse_oha
    MaxTaken    \* bound: requests that oha sends

ASSUME ListsAssumption == Lists \subseteq Seq(STRING)
\* oha counts the answers by status, in integers.
ASSUME ReportsAssumption == \A report \in Reports : report.successes \in Nat

VARIABLES
    args,       \* the arguments, until they are parsed
    phase,      \* "args", "resolve", "workspace", "mock", "port", "spawn", "ready", "load",
                \*   "audit", "shutdown", "reread", "dropping", "exited" or "other"
    command,    \* what parse_args returned
    late,       \* the deadline of the current wait has passed
    completed,  \* oha_result.completed
    result,     \* "none", "pass", "fail" or "usage"
    drops,      \* the guards that are still to be dropped, in order
    mock,       \* the mock upstream: "none", "up" or "over"
    workdir,    \* the workspace: "none", "there" or "gone"
    entries,    \* the files in it
    child,      \* the gateway: "none", "spawned", "loaded", "opened", "serving",
                \*   "dead" or "reaped"
    holder,     \* who listens on the gateway's port: "nobody", "child" or "other"
    taken,      \* requests that oha sent and the gateway accepted
    lines       \* lines of its usage file: "metered", "unmetered" or "torn"

harnessVars == <<args, phase, command, late, completed, result, drops>>
dirVars == <<workdir, entries>>
childVars == <<child, holder>>
loadVars == <<taken, lines>>
vars == <<harnessVars, mock, dirVars, childVars, loadVars>>

params == command.params

Init ==
    /\ args \in Lists
    /\ phase = "args" /\ command = <<>> /\ late = FALSE /\ completed = 0
    /\ result = "none" /\ drops = <<>>
    /\ mock = "none" /\ workdir = "none" /\ entries = {}
    /\ child = "none" /\ holder \in {"nobody", "other"}
    /\ taken = 0 /\ lines = <<>>

-----------------------------------------------------------------------------
(***************************************************************************)
(* Steps of run.  A `?` or a return leaves run, and the guards it owns are *)
(* dropped, the youngest first: SmokeProcs before WorkDir.                 *)
(***************************************************************************)

\* Plausible bug: the workspace is declared after the processes, hence dropped first.
DropOrder_swapped == <<"workdir", "procs">>

DropOrder == <<"procs", "workdir">>

\* The guard alone, if run owns it
Owned(guard) ==
    IF (IF guard = "procs" THEN child # "none" ELSE workdir # "none") THEN <<guard>> ELSE <<>>

Goto(next) == phase' = next /\ UNCHANGED <<args, command, late, completed, result, drops>>

Await(next) ==
    /\ phase' = next /\ late' = FALSE
    /\ UNCHANGED <<args, command, completed, result, drops>>

Return(res) ==
    /\ phase' = "dropping" /\ result' = res
    /\ drops' = Owned(DropOrder[1]) \o Owned(DropOrder[2])
    /\ UNCHANGED <<args, command, late, completed>>

\* main: the arguments are parsed before anything is started.
ParseArgs ==
    /\ phase = "args"
    /\ args' = <<>>
    /\ command' = parse_args(args)
    /\ phase' = IF "error" \in DOMAIN command' THEN "exited"
                ELSE IF command'.command = "smoke" THEN "resolve" ELSE "other"
    /\ result' = IF phase' = "exited" THEN "usage" ELSE result
    /\ UNCHANGED <<late, completed, drops, mock, dirVars, childVars, loadVars>>

\* resolve_oha and oha_version: the binary is there and runs.
resolve_oha ==
    /\ phase = "resolve" /\ Goto("workspace")
    /\ UNCHANGED <<mock, dirVars, childVars, loadVars>>

WorkDir_new ==
    /\ phase = "workspace" /\ Goto("mock")
    /\ workdir' = "there"
    /\ UNCHANGED <<mock, entries, childVars, loadVars>>

spawn_mock_upstream ==
    /\ phase = "mock" /\ Goto("port")
    /\ mock' = "up"
    /\ UNCHANGED <<dirVars, childVars, loadVars>>

\* A picked port is free at that moment; one from the command line may be taken.
pick_free_port ==
    /\ phase = "port" /\ Goto("spawn")
    /\ holder' = IF params.port = 0 THEN "nobody" ELSE holder
    /\ UNCHANGED <<mock, dirVars, child, loadVars>>

spawn_gateway ==
    /\ phase = "spawn" /\ Await("ready")
    /\ entries' = {"config"} /\ child' = "spawned"
    /\ UNCHANGED <<mock, workdir, holder, loadVars>>

\* One of the steps so far fails; the last one may have written the configuration.
StepFails ==
    /\ phase \in {"resolve", "workspace", "mock", "port", "spawn"}
    /\ Return("fail")
    /\ entries' \in {{}, IF phase = "spawn" THEN {"config"} ELSE {}}
    /\ UNCHANGED <<mock, workdir, childVars, loadVars>>

-----------------------------------------------------------------------------
(***************************************************************************)
(* The gateway and the other programs of the machine                       *)
(***************************************************************************)
ChildStep(from, to) ==
    /\ child = from /\ child' = to
    /\ UNCHANGED <<harnessVars, mock, workdir, loadVars>>

ChildLoads == ChildStep("spawned", "loaded") /\ "config" \in entries /\ UNCHANGED <<entries, holder>>

\* The usage file is created if it is not there.
ChildOpens ==
    /\ ChildStep("loaded", "opened")
    /\ workdir = "there"
    /\ entries' = entries \cup {"usage"}
    /\ UNCHANGED holder

ChildBinds ==
    /\ ChildStep("opened", "serving")
    /\ holder = "nobody" /\ holder' = "child"
    /\ UNCHANGED entries

\* It cannot load, open or bind, or crashes.
ChildDies ==
    /\ child \in {"spawned", "loaded", "opened", "serving"} /\ child' = "dead"
    /\ holder' = IF holder = "child" THEN "nobody" ELSE holder
    /\ UNCHANGED <<harnessVars, mock, dirVars, loadVars>>

\* Another program takes the port or leaves it.
OtherMoves ==
    /\ holder # "child"
    /\ holder' = IF holder = "nobody" THEN "other" ELSE "nobody"
    /\ UNCHANGED <<harnessVars, mock, dirVars, child, loadVars>>

\* The writer thread of the gateway ends a line, at most one for a request.
WriteLine(line) ==
    /\ child = "serving"
    /\ Len(lines) < taken
    /\ lines' = Append(lines, line)
    /\ UNCHANGED <<harnessVars, mock, dirVars, childVars, taken>>

-----------------------------------------------------------------------------
(***************************************************************************)
(* Waiting, load and reconciliation                                        *)
(***************************************************************************)
Deadline ==
    /\ phase \in {"ready", "audit"}
    /\ ~late /\ late' = TRUE
    /\ UNCHANGED <<args, phase, command, completed, result, drops, mock, dirVars, childVars,
                   loadVars>>

\* Plausible bug: the polls go on for ever.
Expired_never == FALSE

Expired == late

\* A health poll is answered by whoever has the port; any 200 will do.
Healthy ==
    /\ phase = "ready"
    /\ holder \in {"child", "other"}
    /\ Goto("load")
    /\ UNCHANGED <<mock, dirVars, childVars, loadVars>>

\* The deadline is looked at after a poll that got no 200.
NeverReady ==
    /\ phase = "ready"
    /\ holder # "child"
    /\ Expired
    /\ Return("fail")
    /\ UNCHANGED <<mock, dirVars, childVars, loadVars>>

OhaRequest ==
    /\ phase = "load"
    /\ holder = "child"
    /\ taken < MaxTaken /\ taken' = taken + 1
    /\ UNCHANGED <<harnessVars, mock, dirVars, childVars, lines>>

\* The success rate is looked for at the top and then in the summary.
success_rate(report) ==
    LET given == SelectSeq(<<report.top_rate, report.summary_rate>>, LAMBDA r : r # "absent")
    IN  IF given = <<>> THEN "absent" ELSE given[1]

parse_oha(report) ==
    LET errors == report.other + report.transport
    IN  [completed |-> report.successes,
         errors |-> errors,
         all_2xx |-> errors = 0 /\ success_rate(report) = "one"]

LoadOk(report) ==
    LET parsed == parse_oha(report)
    IN  /\ report.exit /\ report.json
        /\ parsed.errors = 0 /\ parsed.all_2xx
        /\ parsed.completed + parsed.errors = params.count

\* oha exits; nothing bounds how long that takes.
OhaEnds(report) ==
    /\ phase = "load"
    /\ IF LoadOk(report)
       THEN /\ phase' = "audit" /\ late' = FALSE
            /\ completed' = parse_oha(report).completed
            /\ UNCHANGED <<args, command, result, drops>>
       ELSE Return("fail")
    /\ UNCHANGED <<mock, dirVars, childVars, loadVars>>

\* Lines that are no canonical record are passed over.
Accepted == Cardinality({i \in DOMAIN lines : lines[i] # "torn"})
Metered == Cardinality({i \in DOMAIN lines : lines[i] = "metered"})

\* count_audit fails where there is no file yet, or where it cannot be read.
AuditReached == "usage" \in entries /\ Accepted >= completed

wait_audit_count ==
    /\ phase = "audit"
    /\ AuditReached
    /\ Goto("shutdown")
    /\ UNCHANGED <<mock, dirVars, childVars, loadVars>>

\* The last poll before the deadline counted too few records, or could not read them.
AuditShort ==
    /\ phase = "audit"
    /\ Expired
    /\ Return("fail")
    /\ UNCHANGED <<mock, dirVars, childVars, loadVars>>

\* SmokeProcs::shutdown: kill and reap the gateway, abort the mock; idempotent.
Shutdown ==
    /\ child' = "reaped" /\ mock' = "over"
    /\ holder' = IF holder = "child" THEN "nobody" ELSE holder

ShutdownEarly ==
    /\ phase = "shutdown" /\ Goto("reread")
    /\ Shutdown
    /\ UNCHANGED <<dirVars, loadVars>>

\* Plausible bug: the reread is satisfied by what satisfied the wait.
Reconciled_at_least == Accepted >= completed /\ Metered = Accepted

Reconciled == Accepted = completed /\ Metered = Accepted

\* The file is counted again; that too may fail.
Reread ==
    /\ phase = "reread"
    /\ Return(IF Reconciled THEN "pass" ELSE "fail") \/ Return("fail")
    /\ UNCHANGED <<mock, dirVars, childVars, loadVars>>

-----------------------------------------------------------------------------
(***************************************************************************)
(* Dropping the guards, and the end of the process                         *)
(***************************************************************************)
Dropping(guard) ==
    /\ phase = "dropping" /\ drops # <<>> /\ Head(drops) = guard
    /\ UNCHANGED <<args, phase, command, late, completed, result, loadVars>>

DropProcs ==
    /\ Dropping("procs") /\ drops' = Tail(drops)
    /\ Shutdown
    /\ UNCHANGED dirVars

\* remove_dir_all: first the files, then the directory; a failure is ignored.
DropFiles ==
    /\ Dropping("workdir") /\ drops' = <<"directory">> \o Tail(drops)
    /\ entries' = {}
    /\ UNCHANGED <<mock, workdir, childVars>>

DropDirectory ==
    /\ Dropping("directory") /\ drops' = Tail(drops)
    /\ workdir' = IF entries = {} THEN "gone" ELSE workdir
    /\ UNCHANGED <<mock, entries, childVars>>

\* A mock that no guard owned yet ends with the process.
Exit ==
    /\ phase = "dropping" /\ drops = <<>>
    /\ Goto("exited")
    /\ mock' = IF mock = "up" THEN "over" ELSE mock
    /\ UNCHANGED <<dirVars, childVars, loadVars>>

-----------------------------------------------------------------------------
Starting == ParseArgs \/ resolve_oha \/ WorkDir_new \/ spawn_mock_upstream \/ pick_free_port
                \/ spawn_gateway \/ StepFails
Waiting == Healthy \/ NeverReady \/ wait_audit_count \/ AuditShort
Load == OhaRequest \/ \E report \in Reports : OhaEnds(report)
Ending == ShutdownEarly \/ Reread \/ DropProcs \/ DropFiles \/ DropDirectory \/ Exit

Harness == Starting \/ Deadline \/ Waiting \/ Load \/ Ending

Environment ==
    \/ ChildLoads \/ ChildOpens \/ ChildBinds \/ ChildDies \/ OtherMoves
    \/ \E line \in {"metered", "unmetered", "torn"} : WriteLine(line)

Next == Harness \/ Environment

Spec == Init /\ [][Next]_vars

\* The harness goes on, polls are answered and oha exits; nothing is assumed of the
\* gateway or of other programs.
FairSpec ==
    /\ Spec
    /\ WF_vars(Starting) /\ WF_vars(Ending) /\ WF_vars(Deadline)
    /\ WF_vars(\E report \in Reports : OhaEnds(report))
    /\ WF_vars(Waiting)

-----------------------------------------------------------------------------
\* PASS means what it says: the gateway that the harness started accepted as many
\* requests as were asked for, at least one, and its file holds exactly that many
\* records, all metered, whatever oha reports, whoever has the port, and however late
\* the writer thread is (smoke.rs, run).
PassMeansReconciled ==
    result = "pass" =>
        /\ params.count >= 1
        /\ taken >= params.count
        /\ Cardinality({i \in DOMAIN lines : lines[i] # "torn"}) = params.count
        /\ \A i \in DOMAIN lines : lines[i] # "unmetered"

\* However a run ends, the gateway is reaped and the workspace removed, even if the
\* gateway was about to create its usage file at that moment (smoke.rs, SmokeProcs:
\* "On every path"; WorkDir: "never leaves artifacts behind").
NothingLeftBehind ==
    phase = "exited" =>
        /\ child \in {"none", "reaped"} /\ holder # "child"
        /\ workdir \in {"none", "gone"}

\* A run ends, with a gateway that never comes up, dies, or loses its records, as long
\* as the port's holder answers polls and oha exits (smoke.rs, the deadlines).
SmokeEnds == (phase = "resolve") ~> (phase = "exited")

(***************************************************************************)
(* Reference definitions for the argument lists                            *)
(***************************************************************************)
LastOf(S, default, value(_)) == IF S = {} THEN default ELSE value(Max(S))

\* Options and their values alternate in a list the smoke command accepts.
Alternates(list) ==
    /\ Len(list) % 2 = 0
    /\ \A i \in DOMAIN list :
         i % 2 = 1 => list[i] \in Range(Fields) /\ GoodValue(list[i], list[i + 1])

Chosen(list) ==
    [f \in DOMAIN Fields |->
       LastOf({i \in DOMAIN list : i % 2 = 1 /\ list[i] = Fields[f]}, Default[f],
             LAMBDA i : Number[list[i + 1]])]

SmokeValid(list) ==
    Alternates(list) /\ Chosen(list).count # 0 /\ Chosen(list).concurrency # 0

\* i is the value of a --config: those before it pair up.
IsPath(list, i) ==
    \E n \in 1..(i - 1) :
        /\ n % 2 = 1
        /\ \A j \in (i - n)..(i - 1) : list[j] = "--config"
        /\ i - n = 1 \/ list[i - n - 1] # "--config"

Options(list) == {i \in DOMAIN list : ~IsPath(list, i)}

MainValid(list) ==
    \A i \in Options(list) :
        list[i] \in {"summary", "--config=p"} \/ (list[i] = "--config" /\ i < Len(list))

MainCommand(list) ==
    [command |-> IF \E i \in Options(list) : list[i] = "summary" THEN "summary" ELSE "run",
     config |-> LastOf({i \in DOMAIN list : i \in Options(list) => list[i] = "--config=p"}, "default",
                       LAMBDA i : IF i \in Options(list) THEN "p" ELSE list[i])]

\* Only arguments that are valid as a whole start anything, each with the value that
\* was given last, an option never serving as the value of a smoke option; the other
\* commands take a path that looks like anything (main.rs, parse_args; smoke.rs,
\* parse_smoke: "invalid values fail before any traffic or subprocess starts").
ArgumentsAreHonoured ==
    [][phase = "args" /\ phase' # "args" =>
        IF args # <<>> /\ args[1] = "smoke"
        THEN /\ phase' = IF SmokeValid(Tail(args)) THEN "resolve" ELSE "exited"
             /\ SmokeValid(Tail(args)) => params' = Chosen(Tail(args))
        ELSE /\ phase' = IF MainValid(args) THEN "other" ELSE "exited"
             /\ MainValid(args) => command' = MainCommand(args)
      ]_vars
=============================================================================
