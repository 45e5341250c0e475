----------------------------- MODULE SmokeProofs -----------------------------
(***************************************************************************)
(* Proofs about Smoke, for every set of argument lists, everything oha may *)
(* report and any number of requests.                                      *)
(***************************************************************************)
EXTENDS Smoke, TLAPS, SequenceTheorems, FiniteSetTheorems

(***************************************************************************)
(* The inductive invariant                                                 *)
(***************************************************************************)
Kinds == {"metered", "unmetered", "torn"}

SmokeTypes ==
    /\ phase \in {"args", "resolve", "workspace", "mock", "port", "spawn", "ready", "load",
                  "audit", "shutdown", "reread", "dropping", "exited", "other"}
    /\ result \in {"none", "pass", "fail", "usage"}
    /\ workdir \in {"none", "there", "gone"}
    /\ child \in {"none", "spawned", "loaded", "opened", "serving", "dead", "reaped"}
    /\ holder \in {"nobody", "child", "other"}
    /\ taken \in Nat /\ completed \in Nat /\ lines \in Seq(Kinds)

\* The gateway is not running: it was never spawned, or killed and reaped.
Ended == child \in {"none", "reaped"}

\* What run owns at each of its steps; while it returns, the guards that are left are
\* those of what is still there, and the files go after the gateway.
OwnedInv ==
    /\ phase \in {"args", "other", "resolve", "workspace"} => workdir = "none" /\ child = "none"
    /\ phase \in {"mock", "port", "spawn"} => workdir = "there" /\ child = "none"
    /\ phase \in {"ready", "load", "audit", "shutdown"} => workdir = "there" /\ child # "none"
    /\ phase = "reread" => workdir = "there" /\ child = "reaped"
    /\ phase = "dropping" =>
         \/ drops = <<"procs", "workdir">> /\ workdir = "there" /\ child # "none"
         \/ drops = <<"workdir">> /\ workdir = "there" /\ Ended
         \/ drops = <<"directory">> /\ workdir = "there" /\ Ended /\ entries = {}
         \/ drops = <<>> /\ workdir \in {"none", "gone"} /\ Ended
    /\ phase = "exited" => workdir \in {"none", "gone"} /\ Ended
    /\ holder = "child" => child = "serving"

\* The numbers behind a verdict: the gateway writes at most a line for a request, oha
\* has reported what was asked for when the audit begins, and after a PASS nobody is
\* left to change the file.
CountInv ==
    /\ Len(lines) <= taken
    /\ phase \notin {"args", "other"} /\ result # "usage" => params.count >= 1
    /\ phase \in {"audit", "shutdown", "reread"} => completed = params.count
    /\ result \in {"pass", "fail"} => phase \in {"dropping", "exited"}
    /\ result = "usage" => phase = "exited"
    /\ result = "pass" => child = "reaped" /\ PassMeansReconciled

SmokeInv == SmokeTypes /\ OwnedInv /\ CountInv

-----------------------------------------------------------------------------
(***************************************************************************)
(* The invariant is inductive                                              *)
(***************************************************************************)

\* Arguments that start a smoke run ask for at least one request: a size of zero is
\* refused after the walk over the arguments (smoke.rs, parse_smoke).
LEMMA SmokeAsksForSome ==
    ASSUME NEW list, "error" \notin DOMAIN parse_args(list), parse_args(list).command = "smoke"
    PROVE  parse_args(list).params.count >= 1
<1>1. parse_args(list) = parse_smoke(Tail(list))
  BY DEF parse_args
<1> DEFINE w == SmokeWalk(Tail(list))
<1>2. parse_smoke(Tail(list)) = IF w.error # "none" THEN [error |-> w.error]
                                ELSE IF w.pending # "none" \/ ~SizesOk(w.params)
                                THEN [error |-> "smoke"]
                                ELSE [command |-> "smoke", params |-> w.params]
  BY DEF parse_smoke
<1> HIDE DEF w
<1>3. parse_args(list) = [command |-> "smoke", params |-> w.params] /\ SizesOk(w.params)
  BY <1>1, <1>2
<1> QED BY <1>3 DEF SizesOk

\* Two sequences of one element make one of two.
LEMMA PairOf == \A a, b : <<a>> \o <<b>> = <<a, b>>
<1> SUFFICES ASSUME NEW a, NEW b PROVE <<a>> \o <<b>> = <<a, b>>
  OBVIOUS
<1> DEFINE S == {a, b}
<1>1. <<a>> \in Seq(S) /\ <<b>> \in Seq(S) /\ <<a, b>> \in Seq(S)
  OBVIOUS
<1>2. Len(<<a>>) = 1 /\ Len(<<b>>) = 1 /\ Len(<<a, b>>) = 2
  OBVIOUS
<1>3. /\ <<a>> \o <<b>> \in Seq(S) /\ Len(<<a>> \o <<b>>) = Len(<<a>>) + Len(<<b>>)
      /\ \A i \in 1..(Len(<<a>>) + Len(<<b>>)) :
            (<<a>> \o <<b>>)[i] = IF i <= Len(<<a>>) THEN <<a>>[i] ELSE <<b>>[i - Len(<<a>>)]
  BY <1>1, ConcatProperties
<1>4. PICK c : c = <<a>> \o <<b>>
  OBVIOUS
<1>5. PICK d : d = <<a, b>>
  OBVIOUS
<1>6. d \in Seq(S) /\ Len(d) = 2 /\ d[1] = a /\ d[2] = b
  BY <1>1, <1>2, <1>5
<1>7. c \in Seq(S) /\ Len(c) = 2
  BY <1>2, <1>3, <1>4
<1>8. 1 \in 1..(1 + 1) /\ 2 \in 1..(1 + 1) /\ 2 - 1 = 1 /\ 1 <= 1 /\ ~(2 <= 1)
  OBVIOUS
<1>9. c[1] = a /\ c[2] = b
  <2>1. c[1] = <<a>>[1] /\ c[2] = <<b>>[1]
    BY <1>2, <1>3, <1>4, <1>8
  <2> QED BY <2>1
<1>10. \A i \in 1..Len(c) : c[i] = d[i]
  BY <1>6, <1>7, <1>9
<1>11. c = d
  BY <1>6, <1>7, <1>10, SeqEqual
<1> QED BY <1>4, <1>5, <1>11

\* What run still has to drop when it returns: the guards of what it owns.
LEMMA GuardsLeft ==
    ASSUME NEW res, Return(res)
    PROVE  /\ phase' = "dropping" /\ result' = res
           /\ UNCHANGED <<args, command, late, completed>>
           /\ workdir = "none" /\ child = "none" => drops' = <<>>
           /\ workdir = "there" /\ child = "none" => drops' = <<"workdir">>
           /\ workdir = "there" /\ child # "none" => drops' = <<"procs", "workdir">>
<1>1. drops' = Owned("procs") \o Owned("workdir")
  BY DEF Return, DropOrder
<1>2. <<>> \o <<>> = <<>> /\ <<>> \o <<"workdir">> = <<"workdir">>
  OBVIOUS
<1>3. <<"procs">> \o <<"workdir">> = <<"procs", "workdir">>
  BY PairOf
<1> QED BY <1>1, <1>2, <1>3 DEF Return, Owned

\* Every step keeps the types.
LEMMA TypeStep == SmokeInv /\ [Next]_vars => SmokeTypes'
<1> SUFFICES ASSUME SmokeInv, [Next]_vars PROVE SmokeTypes'
  OBVIOUS
<1> USE DEF SmokeInv, SmokeTypes, harnessVars, dirVars, childVars, loadVars
<1>1. CASE Starting
  BY <1>1 DEF Starting, ParseArgs, resolve_oha, WorkDir_new, spawn_mock_upstream,
              pick_free_port, spawn_gateway, StepFails, Goto, Await, Return
<1>2. CASE Deadline \/ Waiting
  BY <1>2 DEF Deadline, Waiting, Healthy, NeverReady, wait_audit_count, AuditShort, Goto, Return
<1>3. CASE OhaRequest
  BY <1>3 DEF OhaRequest
<1>4. ASSUME NEW report \in Reports, OhaEnds(report) PROVE SmokeTypes'
  <2>1. parse_oha(report).completed \in Nat
    BY ReportsAssumption DEF parse_oha
  <2> QED BY <1>4, <2>1 DEF OhaEnds, Return
<1>5. CASE Ending
  BY <1>5 DEF Ending, ShutdownEarly, Reread, DropProcs, DropFiles, DropDirectory, Exit,
              Dropping, Shutdown, Goto, Return
<1>6. CASE Environment
  BY <1>6 DEF Environment, ChildStep, ChildLoads, ChildOpens, ChildBinds, ChildDies,
              OtherMoves, WriteLine, Kinds
<1>7. CASE UNCHANGED vars
  BY <1>7 DEF vars
<1> QED BY <1>1, <1>2, <1>3, <1>4, <1>5, <1>6, <1>7 DEF Next, Harness, Load

\* The guards one by one.
LEMMA Guards ==
    /\ <<"procs", "workdir">> # <<>> /\ <<"workdir">> # <<>> /\ <<"directory">> # <<>>
    /\ Head(<<"procs", "workdir">>) = "procs" /\ Tail(<<"procs", "workdir">>) = <<"workdir">>
    /\ Head(<<"workdir">>) = "workdir" /\ <<"directory">> \o Tail(<<"workdir">>) = <<"directory">>
    /\ Head(<<"directory">>) = "directory" /\ Tail(<<"directory">>) = <<>>
<1>1. Tail(<<"workdir">>) = <<>> /\ <<"directory">> \o <<>> = <<"directory">>
  OBVIOUS
<1>2. /\ <<"procs", "workdir">> # <<>> /\ <<"workdir">> # <<>> /\ <<"directory">> # <<>>
      /\ Head(<<"procs", "workdir">>) = "procs" /\ Head(<<"workdir">>) = "workdir"
      /\ Head(<<"directory">>) = "directory"
  OBVIOUS
<1>3. Tail(<<"directory">>) = <<>>
  OBVIOUS
<1>4. Tail(<<"procs", "workdir">>) = <<"workdir">>
  OBVIOUS
<1> QED BY <1>1, <1>2, <1>3, <1>4

\* Every step keeps what run owns in step with where it is.
LEMMA OwnedStep == SmokeInv /\ [Next]_vars => OwnedInv'
<1> SUFFICES ASSUME SmokeInv, [Next]_vars PROVE OwnedInv'
  OBVIOUS
<1> USE DEF SmokeInv, dirVars, childVars, loadVars
<1>1. CASE Starting
  <2>1. CASE StepFails
    <3>1. Return("fail") /\ UNCHANGED <<workdir, child, holder>>
      BY <2>1 DEF StepFails
    <3>2. workdir \in {"none", "there"} /\ child = "none"
      BY <2>1 DEF StepFails, OwnedInv
    <3> QED BY <3>1, <3>2, GuardsLeft DEF OwnedInv, Ended
  <2>2. CASE ~StepFails
    BY <1>1, <2>2
    DEF Starting, ParseArgs, resolve_oha, WorkDir_new, spawn_mock_upstream, pick_free_port,
        spawn_gateway, Goto, Await, OwnedInv, Ended
  <2> QED BY <2>1, <2>2
<1>2. ASSUME NEW res, Return(res), UNCHANGED <<workdir, child, holder>>,
             phase \in {"ready", "load", "audit", "reread"}
      PROVE  OwnedInv'
  <2>1. workdir = "there" /\ child # "none"
    BY <1>2 DEF OwnedInv
  <2> QED BY <1>2, <2>1, GuardsLeft DEF OwnedInv, Ended
<1>3. CASE Deadline \/ Waiting
  <2>1. CASE NeverReady \/ AuditShort
    BY <1>2, <2>1 DEF NeverReady, AuditShort
  <2>2. CASE Deadline \/ Healthy \/ wait_audit_count
    BY <2>2 DEF Deadline, Healthy, wait_audit_count, Goto, OwnedInv, Ended
  <2> QED BY <1>3, <2>1, <2>2 DEF Waiting
<1>4. CASE Load
  <2>1. CASE OhaRequest
    BY <2>1 DEF OhaRequest, harnessVars, OwnedInv, Ended
  <2>2. ASSUME NEW report \in Reports, OhaEnds(report) PROVE OwnedInv'
    <3>1. CASE LoadOk(report)
      BY <2>2, <3>1 DEF OhaEnds, OwnedInv, Ended
    <3>2. CASE ~LoadOk(report)
      BY <1>2, <2>2, <3>2 DEF OhaEnds
    <3> QED BY <3>1, <3>2
  <2> QED BY <1>4, <2>1, <2>2 DEF Load
<1>5. CASE Ending
  <2>1. CASE ShutdownEarly
    BY <2>1 DEF ShutdownEarly, Shutdown, Goto, OwnedInv, Ended
  <2>2. CASE Reread
    <3>1. PICK res : Return(res)
      BY <2>2 DEF Reread
    <3> QED BY <1>2, <2>2, <3>1 DEF Reread
  <2>3. CASE DropProcs
    <3>1. /\ phase = "dropping" /\ phase' = "dropping" /\ drops # <<>> /\ Head(drops) = "procs"
          /\ drops' = Tail(drops) /\ workdir' = workdir /\ child' = "reaped"
          /\ holder' = IF holder = "child" THEN "nobody" ELSE holder
      BY <2>3 DEF DropProcs, Dropping, Shutdown
    <3>2. drops = <<"procs", "workdir">> /\ workdir = "there"
      BY <3>1, Guards DEF OwnedInv
    <3> QED BY <3>1, <3>2, Guards DEF OwnedInv, Ended
  <2>4. CASE DropFiles
    <3>1. /\ phase = "dropping" /\ phase' = "dropping" /\ drops # <<>> /\ Head(drops) = "workdir"
          /\ drops' = <<"directory">> \o Tail(drops) /\ entries' = {}
          /\ UNCHANGED <<workdir, child, holder>>
      BY <2>4 DEF DropFiles, Dropping
    <3>2. drops = <<"workdir">> /\ workdir = "there" /\ Ended
      BY <3>1, Guards DEF OwnedInv
    <3> QED BY <3>1, <3>2, Guards DEF OwnedInv, Ended
  <2>5. CASE DropDirectory
    <3>1. /\ phase = "dropping" /\ phase' = "dropping" /\ drops # <<>> /\ Head(drops) = "directory"
          /\ drops' = Tail(drops) /\ workdir' = IF entries = {} THEN "gone" ELSE workdir
          /\ UNCHANGED <<entries, child, holder>>
      BY <2>5 DEF DropDirectory, Dropping
    <3>2. drops = <<"directory">> /\ entries = {} /\ Ended
      BY <3>1, Guards DEF OwnedInv
    <3> QED BY <3>1, <3>2, Guards DEF OwnedInv, Ended
  <2>6. CASE Exit
    <3>1. /\ phase = "dropping" /\ phase' = "exited" /\ drops = <<>>
          /\ UNCHANGED <<workdir, child, holder>>
      BY <2>6 DEF Exit, Goto
    <3>2. workdir \in {"none", "gone"} /\ Ended
      BY <3>1, Guards DEF OwnedInv
    <3> QED BY <3>1, <3>2 DEF OwnedInv, Ended
  <2> QED BY <1>5, <2>1, <2>2, <2>3, <2>4, <2>5, <2>6 DEF Ending
<1>6. CASE Environment
  <2>1. CASE ChildLoads \/ ChildOpens \/ ChildBinds \/ ChildDies
    <3>1. /\ ~Ended /\ child' # "none" /\ ~Ended' /\ UNCHANGED <<phase, drops, workdir>>
          /\ holder' = "child" => child' = "serving"
      BY <2>1 DEF ChildStep, ChildLoads, ChildOpens, ChildBinds, ChildDies, harnessVars, Ended,
                  OwnedInv
    <3> QED BY <3>1 DEF OwnedInv, Ended
  <2>2. CASE OtherMoves
    BY <2>2 DEF OtherMoves, harnessVars, OwnedInv, Ended
  <2>3. ASSUME NEW line, WriteLine(line) PROVE OwnedInv'
    BY <2>3 DEF WriteLine, harnessVars, OwnedInv, Ended
  <2> QED BY <1>6, <2>1, <2>2, <2>3 DEF Environment
<1>7. CASE UNCHANGED vars
  BY <1>7 DEF vars, harnessVars, OwnedInv, Ended
<1> QED BY <1>1, <1>3, <1>4, <1>5, <1>6, <1>7 DEF Next, Harness

\* A file that is reconciled holds as many records as were completed, none of them
\* unmetered, and no more lines than there were requests.
LEMMA ReconciledFile ==
    ASSUME SmokeInv, phase = "reread", Reconciled
    PROVE  /\ params.count >= 1 /\ taken >= params.count
           /\ Cardinality({i \in DOMAIN lines : lines[i] # "torn"}) = params.count
           /\ \A i \in DOMAIN lines : lines[i] # "unmetered"
<1> DEFINE A == {i \in DOMAIN lines : lines[i] # "torn"}
           M == {i \in DOMAIN lines : lines[i] = "metered"}
<1>1. /\ lines \in Seq(Kinds) /\ taken \in Nat /\ completed \in Nat /\ Len(lines) <= taken
      /\ completed = params.count /\ params.count >= 1
  BY DEF SmokeInv, SmokeTypes, CountInv
<1>2. PICK n \in Nat : n = Len(lines) /\ DOMAIN lines = 1..n
  BY <1>1
<1>3. IsFiniteSet(1..n) /\ Cardinality(1..n) = n
  <2>1. /\ IsFiniteSet(1..n) /\ Cardinality(1..n) = IF 1 > n THEN 0 ELSE n - 1 + 1
    BY FS_Interval
  <2> QED BY <2>1
<1>4. A \subseteq 1..n /\ M \subseteq A
  BY <1>2
<1>5. Cardinality(A) = completed /\ Cardinality(M) = Cardinality(A)
  BY DEF Reconciled, Accepted, Metered
<1> HIDE DEF A, M
<1>6. IsFiniteSet(A) /\ Cardinality(A) <= n
  BY <1>3, <1>4, FS_Subset
<1>7. M = A
  BY <1>4, <1>5, <1>6, FS_Subset
<1>8. taken >= params.count
  BY <1>1, <1>2, <1>5, <1>6
<1>9. \A i \in DOMAIN lines : lines[i] # "unmetered"
  BY <1>7 DEF A, M
<1> QED BY <1>1, <1>5, <1>8, <1>9 DEF A

\* Every step keeps the numbers.
LEMMA CountStep == SmokeInv /\ [Next]_vars => CountInv'
<1> SUFFICES ASSUME SmokeInv, [Next]_vars PROVE CountInv'
  OBVIOUS
<1> USE DEF SmokeInv, dirVars, childVars, loadVars
<1>0. taken \in Nat /\ lines \in Seq(Kinds) /\ Len(lines) \in Nat /\ Len(lines) <= taken
  BY DEF SmokeTypes, CountInv
<1> DEFINE Quiet ==
             /\ Len(lines') <= taken' /\ phase # "args" /\ command' = command
             /\ result' = result /\ completed' = completed
             /\ \/ phase' = phase
                \/ phase' = "exited" /\ phase = "dropping"
                \/ /\ phase \notin {"args", "other", "dropping", "exited"}
                   /\ phase' \notin {"args", "other"}
             /\ phase' \in {"audit", "shutdown", "reread"} =>
                   phase \in {"audit", "shutdown", "reread"}
             /\ result = "pass" =>
                   (child' = child \/ child' = "reaped") /\ lines' = lines /\ taken' = taken
<1>1. ASSUME Quiet PROVE CountInv'
  <2>1. phase \in {"dropping", "exited"} => phase' \in {"dropping", "exited"}
    BY <1>1
  <2>2. result = "usage" => phase' = "exited"
    BY <1>1 DEF CountInv
  <2>3. params' = params
    BY <1>1 DEF params
  <2>4. result' = "pass" => child' = "reaped" /\ PassMeansReconciled'
    BY <1>1, <2>3 DEF CountInv, PassMeansReconciled
  <2>5. phase' \notin {"args", "other"} /\ result' # "usage" => params'.count >= 1
    BY <1>1, <2>3 DEF CountInv
  <2>6. phase' \in {"audit", "shutdown", "reread"} => completed' = params'.count
    BY <1>1, <2>3 DEF CountInv
  <2> QED BY <1>1, <2>1, <2>2, <2>4, <2>5, <2>6 DEF CountInv
<1>2. ASSUME Return("fail"), UNCHANGED <<lines, taken>>, phase \notin {"args", "other"},
             result = "none"
      PROVE  CountInv'
  BY <1>0, <1>2, GuardsLeft DEF CountInv, params, PassMeansReconciled
<1>3. CASE ParseArgs
  <2>1. /\ phase = "args" /\ command' = parse_args(args) /\ UNCHANGED <<lines, taken, child>>
        /\ phase' = IF "error" \in DOMAIN command' THEN "exited"
                    ELSE IF command'.command = "smoke" THEN "resolve" ELSE "other"
        /\ result' = IF phase' = "exited" THEN "usage" ELSE result
    BY <1>3 DEF ParseArgs
  <2>2. phase' = "resolve" => command'.params.count >= 1
    BY <2>1, SmokeAsksForSome
  <2>3. result = "none"
    BY <2>1 DEF CountInv, SmokeTypes
  <2> QED BY <1>0, <2>1, <2>2, <2>3 DEF CountInv, params, PassMeansReconciled
<1>4. CASE Starting /\ ~ParseArgs
  <2>1. CASE StepFails
    BY <1>2, <2>1 DEF StepFails, CountInv, SmokeTypes
  <2>2. CASE ~StepFails
    <3>1. Quiet
      BY <1>0, <1>4, <2>2
      DEF Starting, resolve_oha, WorkDir_new, spawn_mock_upstream, pick_free_port,
          spawn_gateway, Goto, Await, CountInv
    <3> QED BY <1>1, <3>1
  <2> QED BY <2>1, <2>2
<1>5. CASE Deadline \/ Waiting
  <2>1. CASE NeverReady \/ AuditShort
    BY <1>2, <2>1 DEF NeverReady, AuditShort, CountInv, SmokeTypes
  <2>2. CASE Deadline \/ Healthy \/ wait_audit_count
    <3>1. Quiet
      BY <1>0, <2>2 DEF Deadline, Healthy, wait_audit_count, Goto, CountInv
    <3> QED BY <1>1, <3>1
  <2> QED BY <1>5, <2>1, <2>2 DEF Waiting
<1>6. CASE OhaRequest
  <2>1. Len(lines) <= taken + 1
    BY <1>0
  <2>2. result # "pass"
    BY <1>6 DEF OhaRequest, CountInv
  <2>3. Quiet
    BY <1>6, <2>1, <2>2 DEF OhaRequest, harnessVars
  <2> QED BY <1>1, <2>3
<1>7. ASSUME NEW report \in Reports, OhaEnds(report) PROVE CountInv'
  <2>1. result = "none" /\ phase = "load" /\ params.count >= 1 /\ UNCHANGED <<lines, taken>>
    BY <1>7 DEF OhaEnds, CountInv, SmokeTypes
  <2>2. CASE LoadOk(report)
    <3>1. PICK c \in Nat : c = parse_oha(report).completed
      BY ReportsAssumption DEF parse_oha
    <3>2. parse_oha(report).errors = 0 /\ c + parse_oha(report).errors = params.count
      BY <2>2, <3>1 DEF LoadOk
    <3>3. c = params.count
      <4>1. c + 0 = params.count
        BY <3>2
      <4> QED BY <4>1
    <3>4. /\ phase' = "audit" /\ completed' = parse_oha(report).completed
          /\ UNCHANGED <<command, result>>
      BY <1>7, <2>2 DEF OhaEnds
    <3>5. params' = params
      BY <3>4 DEF params
    <3> QED BY <1>0, <2>1, <3>1, <3>3, <3>4, <3>5 DEF CountInv
  <2>3. CASE ~LoadOk(report)
    BY <1>2, <1>7, <2>1, <2>3 DEF OhaEnds
  <2> QED BY <2>2, <2>3
<1>8. CASE Reread
  <2>1. /\ phase = "reread" /\ result = "none" /\ child = "reaped"
        /\ UNCHANGED <<lines, taken, child>>
    BY <1>8 DEF Reread, CountInv, SmokeTypes, OwnedInv
  <2>2. CASE Reconciled /\ Return("pass")
    <3>1. Return("pass")
      BY <2>2
    <3>2. phase' = "dropping" /\ result' = "pass" /\ command' = command
      BY <3>1, GuardsLeft
    <3>3. params' = params
      BY <3>2 DEF params
    <3>4. PassMeansReconciled'
      BY <2>1, <2>2, <3>3, ReconciledFile DEF PassMeansReconciled
    <3>5. params'.count >= 1
      BY <2>1, <2>2, <3>3, ReconciledFile
    <3> QED BY <1>0, <2>1, <3>2, <3>4, <3>5 DEF CountInv
  <2>3. CASE Return("fail")
    BY <1>2, <1>8, <2>1, <2>3 DEF Reread
  <2> QED BY <1>8, <2>2, <2>3 DEF Reread
<1>9. CASE Ending /\ ~Reread
  <2>1. Quiet
    BY <1>0, <1>9 DEF Ending, ShutdownEarly, DropProcs, DropFiles, DropDirectory, Exit,
                      Dropping, Shutdown, Goto
  <2> QED BY <1>1, <2>1
<1>10. CASE Environment
  <2>1. phase = "args" => child = "none"
    BY DEF OwnedInv
  <2>2. CASE ChildLoads \/ ChildOpens \/ ChildBinds \/ ChildDies
    <3>1. Quiet
      BY <1>0, <2>1, <2>2
      DEF ChildStep, ChildLoads, ChildOpens, ChildBinds, ChildDies, harnessVars, CountInv
    <3> QED BY <1>1, <3>1
  <2>3. CASE OtherMoves
    BY <2>3 DEF OtherMoves, harnessVars, CountInv, params, PassMeansReconciled
  <2>4. ASSUME NEW line \in Kinds, WriteLine(line) PROVE CountInv'
    <3>1. Len(Append(lines, line)) = Len(lines) + 1 /\ Len(lines) < taken
      BY <1>0, <2>4 DEF WriteLine
    <3>2. Len(lines') <= taken'
      BY <1>0, <2>4, <3>1 DEF WriteLine
    <3>3. result # "pass" /\ phase # "args"
      BY <2>1, <2>4 DEF WriteLine, CountInv
    <3>4. Quiet
      BY <2>4, <3>2, <3>3 DEF WriteLine, harnessVars
    <3> QED BY <1>1, <3>4
  <2> QED BY <1>10, <2>2, <2>3, <2>4 DEF Environment, Kinds
<1>11. CASE UNCHANGED vars
  BY <1>11 DEF vars, harnessVars, CountInv, params, PassMeansReconciled
<1> QED BY <1>3, <1>4, <1>5, <1>6, <1>7, <1>8, <1>9, <1>10, <1>11 DEF Next, Harness, Load

-----------------------------------------------------------------------------
(***************************************************************************)
(* The theorems                                                            *)
(***************************************************************************)

\* What the harness owns and counts, at each step of run, whatever the gateway, oha
\* and the other programs do.
THEOREM Invariance == Spec => []SmokeInv
<1>1. Init => SmokeInv
  <2> SUFFICES ASSUME Init PROVE SmokeInv
    OBVIOUS
  <2>1. lines = <<>> /\ <<>> \in Seq(Kinds) /\ Len(<<>>) = 0
    BY EmptySeq DEF Init
  <2>2. SmokeTypes
    BY <2>1 DEF Init, SmokeTypes
  <2>3. OwnedInv
    BY DEF Init, OwnedInv
  <2>4. CountInv
    BY <2>1 DEF Init, CountInv
  <2> QED BY <2>2, <2>3, <2>4 DEF SmokeInv
<1>2. SmokeInv /\ [Next]_vars => SmokeInv'
  BY TypeStep, OwnedStep, CountStep DEF SmokeInv
<1> QED BY <1>1, <1>2, PTL DEF Spec

\* PASS means what it says: the gateway of this run took at least as many requests as
\* were asked for and its file holds exactly that many records, all metered; the reread
\* sees a file that nobody writes to any more (smoke.rs, run).
THEOREM PassIsEarned == Spec => []PassMeansReconciled
<1>1. SmokeInv => PassMeansReconciled
  BY DEF SmokeInv, CountInv, PassMeansReconciled
<1> QED BY <1>1, Invariance, PTL

\* However a run ends, the gateway is reaped before its workspace is removed, so that
\* nothing can be created in it any more, and neither is left (smoke.rs, SmokeProcs and
\* WorkDir).
THEOREM CleanExit == Spec => []NothingLeftBehind
<1>1. SmokeInv => NothingLeftBehind
  BY DEF SmokeInv, OwnedInv, Ended, NothingLeftBehind
<1> QED BY <1>1, Invariance, PTL

-----------------------------------------------------------------------------
(***************************************************************************)
(* The arguments.  Both walks are recursive functions: that they exist and *)
(* what they know after n arguments is shown by induction on n.            *)
(***************************************************************************)

\* A set that holds 0 and the successor of each of its naturals holds them all.
LEMMA NatInduced ==
    ASSUME NEW T, 0 \in T, \A n \in Nat : n \in T => n + 1 \in T
    PROVE  \A n \in Nat : n \in T
<1> DEFINE Bad == {n \in Nat : n \notin T}
<1> SUFFICES ASSUME Bad # {} PROVE FALSE
  OBVIOUS
<1> DEFINE Less == {ss \in Nat \X Nat : ss[1] < ss[2]}
<1>0. IsWellFoundedOn(Less, Nat)
  BY NatLessThanWellFounded DEF OpToRel
<1>1. PICK x \in Bad : \A y \in Bad : <<y, x>> \notin Less
  <2>1. Bad \subseteq Nat
    OBVIOUS
  <2> HIDE DEF Bad, Less
  <2> QED BY <1>0, <2>1, WFMin
<1>2. x \in Nat /\ x # 0 /\ x - 1 \in Nat
  BY <1>1
<1>3. <<x - 1, x>> \in Less
  BY <1>2
<1>4. x - 1 \in T
  BY <1>1, <1>2, <1>3
<1>5. (x - 1) + 1 = x
  BY <1>2
<1>6. x \in T
  BY <1>2, <1>4, <1>5
<1> QED BY <1>1, <1>6

\* Some positions of a list have a last one.
LEMMA LargestExists ==
    ASSUME NEW n \in Nat, NEW U \in SUBSET (1..n), U # {}
    PROVE  Max(U) \in U
<1> DEFINE T == {k \in Nat : \A V \in SUBSET (1..k) : V # {} => \E x \in V : \A y \in V : x >= y}
<1>1. 0 \in T
  <2>1. 1..0 = {}
    OBVIOUS
  <2> QED BY <2>1
<1>2. ASSUME NEW k \in Nat, k \in T PROVE k + 1 \in T
  <2> SUFFICES ASSUME NEW V \in SUBSET (1..(k + 1)), V # {}
               PROVE  \E x \in V : \A y \in V : x >= y
    OBVIOUS
  <2>1. CASE k + 1 \in V
    BY <2>1
  <2>2. CASE k + 1 \notin V
    <3>1. V \in SUBSET (1..k)
      BY <2>2
    <3> QED BY <1>2, <3>1
  <2> QED BY <2>1, <2>2
<1>3. n \in T
  <2> HIDE DEF T
  <2> QED BY <1>1, <1>2, NatInduced
<1>4. \E x \in U : \A y \in U : x >= y
  BY <1>3
<1> QED
  BY <1>4 DEF Max

\* A set of naturals that is not empty has a smallest one.
LEMMA LeastExists ==
    ASSUME NEW U \in SUBSET Nat, U # {} PROVE \E x \in U : \A y \in U : x <= y
<1> DEFINE Less == {ss \in Nat \X Nat : ss[1] < ss[2]}
<1>1. IsWellFoundedOn(Less, Nat)
  BY NatLessThanWellFounded DEF OpToRel
<1>2. \E x \in U : \A y \in U : <<y, x>> \notin Less
  <2> HIDE DEF Less
  <2> QED BY <1>1, WFMin
<1>3. \A x, y \in Nat : <<y, x>> \notin Less => x <= y
  <2> SUFFICES ASSUME NEW x \in Nat, NEW y \in Nat, y < x PROVE <<y, x>> \in Less
    OBVIOUS
  <2> QED OBVIOUS
<1> HIDE DEF Less
<1> QED
  BY <1>2, <1>3

\* A new largest element of a set of naturals is its maximum.
LEMMA MaxIsLast ==
    ASSUME NEW S \in SUBSET Nat, NEW n \in Nat, \A i \in S : i < n
    PROVE  Max(S \cup {n}) = n
<1>1. n \in S \cup {n} /\ \A y \in S \cup {n} : n >= y
  OBVIOUS
<1>2. \A x \in S \cup {n} : (\A y \in S \cup {n} : x >= y) => x = n
  OBVIOUS
<1> QED
  BY <1>1, <1>2 DEF Max

-----------------------------------------------------------------------------
(***************************************************************************)
(* parse_smoke                                                             *)
(***************************************************************************)
SmokeRun(w, list) ==
    w[0] = Walk /\ \A i \in 1..Len(list) : w[i] = SmokeArg(w[i - 1], list[i])

\* The walk over any list exists.
LEMMA SmokeRuns ==
    ASSUME NEW list, Len(list) \in Nat
    PROVE  \E w : SmokeRun(w, list) /\ SmokeWalk(list) = w[Len(list)]
<1> DEFINE N == Len(list)
           Rec(f) == [i \in 0..N |-> IF i = 0 THEN Walk ELSE SmokeArg(f[i - 1], list[i])]
           Upto(g, n) == g[0] = Walk /\ \A i \in 1..n : g[i] = SmokeArg(g[i - 1], list[i])
           T == {n \in Nat : \E g : Upto(g, n)}
           chosen == CHOOSE f : f = Rec(f)
<1>1. 0 \in T
  <2>1. Upto([i \in {0} |-> Walk], 0)
    OBVIOUS
  <2> QED BY <2>1
<1>2. ASSUME NEW n \in Nat, n \in T PROVE n + 1 \in T
  <2>1. PICK g : Upto(g, n)
    BY <1>2
  <2> DEFINE next == SmokeArg(g[n], list[n + 1])
             h == [i \in 0..(n + 1) |-> IF i = n + 1 THEN next ELSE g[i]]
  <2>2. h[0] = Walk
    BY <2>1
  <2>3. ASSUME NEW i \in 1..(n + 1) PROVE h[i] = SmokeArg(h[i - 1], list[i])
    <3>1. CASE i = n + 1
      <4>1. h[i] = next /\ h[i - 1] = g[n]
        BY <3>1
      <4> QED BY <3>1, <4>1
    <3>2. CASE i \in 1..n
      <4>1. h[i] = g[i] /\ h[i - 1] = g[i - 1]
        BY <3>2
      <4> QED BY <2>1, <3>2, <4>1
    <3> QED BY <3>1, <3>2
  <2>4. Upto(h, n + 1)
    <3> HIDE DEF h
    <3> QED BY <2>2, <2>3
  <2>5. n + 1 \in Nat
    OBVIOUS
  <2> HIDE DEF h, Upto
  <2> QED BY <2>4, <2>5
<1>3. N \in T
  <2> HIDE DEF T
  <2> QED BY <1>1, <1>2, NatInduced
<1>4. PICK g : Upto(g, N)
  BY <1>3
<1> DEFINE f0 == [i \in 0..N |-> g[i]]
<1>5. f0 = Rec(f0)
  <2>1. ASSUME NEW i \in 0..N PROVE f0[i] = Rec(f0)[i]
    <3>1. CASE i = 0
      BY <1>4, <3>1
    <3>2. CASE i \in 1..N
      <4>1. f0[i] = g[i] /\ f0[i - 1] = g[i - 1]
        BY <3>2
      <4> QED BY <1>4, <3>2, <4>1
    <3> QED BY <3>1, <3>2
  <2> QED BY <2>1
<1>6. chosen = Rec(chosen)
  <2> HIDE DEF Rec, f0
  <2> QED BY <1>5
<1>7. SmokeRun(chosen, list)
  <2>1. chosen[0] = Walk
    <3> HIDE DEF chosen
    <3> QED BY <1>6
  <2>2. ASSUME NEW i \in 1..N PROVE chosen[i] = SmokeArg(chosen[i - 1], list[i])
    <3> HIDE DEF chosen
    <3> QED BY <1>6
  <2> HIDE DEF chosen
  <2> QED BY <2>1, <2>2 DEF SmokeRun
<1>8. SmokeWalk(list) = chosen[N]
  BY DEF SmokeWalk
<1> HIDE DEF chosen
<1> QED BY <1>7, <1>8

\* The first n arguments alternate, and the values they give.
AlternatesTo(list, n) ==
    \A i \in 1..n : IF i % 2 = 1 THEN list[i] \in Range(Fields)
                                 ELSE GoodValue(list[i - 1], list[i])
Given(list, f, n) == {i \in 1..n : i % 2 = 1 /\ i < n /\ list[i] = Fields[f]}
ChosenTo(list, n) ==
    [f \in DOMAIN Fields |->
        IF Given(list, f, n) = {} THEN Default[f] ELSE Number[list[Max(Given(list, f, n)) + 1]]]

\* What the options are called.
LEMMA FieldNames ==
    /\ DOMAIN Fields = {"count", "concurrency", "port"}
    /\ Range(Fields) = {"--count", "--concurrency", "--port"}
    /\ \A a : a \in Range(Fields) <=> \E f \in DOMAIN Fields : Fields[f] = a
<1>1. DOMAIN Fields = {"count", "concurrency", "port"}
  BY DEF Fields
<1>2. Fields["count"] = "--count" /\ Fields["concurrency"] = "--concurrency" /\ Fields["port"] = "--port"
  BY DEF Fields
<1>3. Range(Fields) = {Fields[f] : f \in DOMAIN Fields}
  BY DEF Range
<1> QED
  BY <1>1, <1>2, <1>3

\* Alternating one argument further.
LEMMA AlternatesNext ==
    ASSUME NEW list, NEW n \in Nat
    PROVE  AlternatesTo(list, n + 1) <=>
             /\ AlternatesTo(list, n)
             /\ IF n % 2 = 0 THEN list[n + 1] \in Range(Fields) ELSE GoodValue(list[n], list[n + 1])
<1> DEFINE Ok(i) == IF i % 2 = 1 THEN list[i] \in Range(Fields) ELSE GoodValue(list[i - 1], list[i])
<1>1. (n + 1) % 2 = 1 <=> n % 2 = 0
  OBVIOUS
<1>2. (n + 1) - 1 = n
  OBVIOUS
<1>3. Ok(n + 1) <=> IF n % 2 = 0 THEN list[n + 1] \in Range(Fields) ELSE GoodValue(list[n], list[n + 1])
  BY <1>1, <1>2
<1>4. \A i : i \in 1..(n + 1) <=> i \in 1..n \/ i = n + 1
  OBVIOUS
<1>5. AlternatesTo(list, n) <=> \A i \in 1..n : Ok(i)
  BY DEF AlternatesTo
<1>6. AlternatesTo(list, n + 1) <=> \A i \in 1..(n + 1) : Ok(i)
  BY DEF AlternatesTo
<1> HIDE DEF Ok
<1> QED
  BY <1>3, <1>4, <1>5, <1>6

\* An option alone gives nothing yet.
LEMMA ChosenAtOption ==
    ASSUME NEW list, NEW n \in Nat, n % 2 = 0
    PROVE  ChosenTo(list, n + 1) = ChosenTo(list, n)
<1>1. \A f : Given(list, f, n + 1) = Given(list, f, n)
  <2>1. \A i \in Nat : i % 2 = 1 => (i < n + 1 <=> i < n)
    OBVIOUS
  <2>2. \A i \in Nat : i < n => (i \in 1..(n + 1) <=> i \in 1..n)
    OBVIOUS
  <2>3. 1..n \subseteq Nat /\ 1..(n + 1) \subseteq Nat
    OBVIOUS
  <2> QED BY <2>1, <2>2, <2>3 DEF Given
<1> QED
  BY <1>1 DEF ChosenTo

\* A value goes to the option before it.
LEMMA ChosenAtValue ==
    ASSUME NEW list, NEW n \in Nat, n % 2 = 1
    PROVE  ChosenTo(list, n + 1) =
             [f \in DOMAIN Fields |-> IF Fields[f] = list[n] THEN Number[list[n + 1]]
                                      ELSE ChosenTo(list, n)[f]]
<1> SUFFICES ASSUME NEW f \in DOMAIN Fields
             PROVE  ChosenTo(list, n + 1)[f] = IF Fields[f] = list[n] THEN Number[list[n + 1]]
                                               ELSE ChosenTo(list, n)[f]
  BY DEF ChosenTo
<1> DEFINE G == Given(list, f, n)
           H == Given(list, f, n + 1)
<1>1. H = G \cup IF Fields[f] = list[n] THEN {n} ELSE {}
  <2>1. \A i \in Nat : i \in 1..(n + 1) /\ i < n + 1 <=> (i \in 1..n /\ i < n) \/ i = n
    OBVIOUS
  <2>2. 1..n \subseteq Nat /\ 1..(n + 1) \subseteq Nat
    OBVIOUS
  <2> QED BY <2>1, <2>2 DEF Given
<1>2. G \in SUBSET Nat /\ \A i \in G : i < n
  BY DEF Given
<1>3. /\ ChosenTo(list, n)[f] = IF G = {} THEN Default[f] ELSE Number[list[Max(G) + 1]]
      /\ ChosenTo(list, n + 1)[f] = IF H = {} THEN Default[f] ELSE Number[list[Max(H) + 1]]
  BY DEF ChosenTo
<1> HIDE DEF G, H
<1>4. CASE Fields[f] = list[n]
  <2>1. H = G \cup {n} /\ H # {}
    BY <1>1, <1>4
  <2>2. Max(H) = n
    BY <1>2, <2>1, MaxIsLast
  <2> QED BY <1>3, <1>4, <2>1, <2>2
<1>5. CASE Fields[f] # list[n]
  BY <1>1, <1>3, <1>5
<1> QED
  BY <1>4, <1>5

\* A value that is taken leaves no option pending.
LEMMA ValueTaken ==
    ASSUME NEW a, NEW b, NEW c, NEW r, NEW q,
           r = [params |-> a, pending |-> b, error |-> "none"],
           q = [r EXCEPT !.pending = "none", !.params = c]
    PROVE  q = [params |-> c, pending |-> "none", error |-> "none"]
  OBVIOUS

\* What the walk knows after n arguments: the values given so far and the option that
\* waits for one, as long as they alternate, and an error otherwise.
LEMMA SmokeKnows ==
    ASSUME NEW list, Len(list) \in Nat, NEW w, SmokeRun(w, list)
    PROVE  \A n \in 0..Len(list) :
             IF AlternatesTo(list, n)
             THEN w[n] = [params |-> ChosenTo(list, n),
                          pending |-> IF n % 2 = 1 THEN list[n] ELSE "none", error |-> "none"]
             ELSE w[n].error # "none"
<1> DEFINE Known(n) == [params |-> ChosenTo(list, n),
                        pending |-> IF n % 2 = 1 THEN list[n] ELSE "none", error |-> "none"]
           Knows(n) == IF AlternatesTo(list, n) THEN w[n] = Known(n) ELSE w[n].error # "none"
           T == {n \in Nat : n <= Len(list) => Knows(n)}
<1>1. 0 \in T
  <2>1. 1..0 = {} /\ 0 % 2 # 1
    OBVIOUS
  <2>2. AlternatesTo(list, 0)
    BY <2>1 DEF AlternatesTo
  <2>3. \A f : Given(list, f, 0) = {}
    BY <2>1 DEF Given
  <2>4. ChosenTo(list, 0) = Default
    <3>1. ChosenTo(list, 0) = [f \in {"count", "concurrency", "port"} |-> Default[f]]
      BY <2>3, FieldNames DEF ChosenTo
    <3> QED BY <3>1, DefaultAssumption
  <2>5. w[0] = Known(0)
    BY <2>1, <2>4 DEF SmokeRun, Walk
  <2> QED BY <2>2, <2>5
<1>2. ASSUME NEW n \in Nat, n \in T PROVE n + 1 \in T
  <2> SUFFICES ASSUME n + 1 <= Len(list) PROVE Knows(n + 1)
    OBVIOUS
  <2> DEFINE arg == list[n + 1]
  <2>1. n + 1 \in 1..Len(list) /\ (n + 1) - 1 = n /\ n <= Len(list)
    OBVIOUS
  <2>2. w[n + 1] = SmokeArg(w[n], arg)
    BY <2>1 DEF SmokeRun
  <2>3. Knows(n)
    BY <1>2, <2>1
  <2>4. n % 2 \in {0, 1} /\ (n % 2 = 0 <=> (n + 1) % 2 = 1) /\ (n % 2 = 1 <=> (n + 1) % 2 = 0)
    OBVIOUS
  <2> HIDE DEF arg
  <2>5. CASE ~AlternatesTo(list, n)
    <3>1. w[n].error # "none"
      BY <2>3, <2>5
    <3>2. w[n + 1] = w[n]
      BY <2>2, <3>1 DEF SmokeArg
    <3>3. ~AlternatesTo(list, n + 1)
      BY <2>5, AlternatesNext
    <3> QED BY <3>1, <3>2, <3>3
  <2>6. CASE AlternatesTo(list, n) /\ n % 2 = 0
    <3>1. w[n] = [params |-> ChosenTo(list, n), pending |-> "none", error |-> "none"]
      BY <2>3, <2>6
    <3>2. AlternatesTo(list, n + 1) <=> arg \in Range(Fields)
      BY <2>6, AlternatesNext DEF arg
    <3>3. CASE arg \in Range(Fields)
      <4>1. arg \notin {"-h", "--help"} /\ \E f \in DOMAIN Fields : Fields[f] = arg
        BY <3>3, FieldNames
      <4>2. w[n + 1] = [w[n] EXCEPT !.pending = arg]
        BY <2>2, <3>1, <4>1 DEF SmokeArg
      <4>3. w[n + 1] = [params |-> ChosenTo(list, n), pending |-> arg, error |-> "none"]
        BY <3>1, <4>2
      <4>4. ChosenTo(list, n + 1) = ChosenTo(list, n)
        BY <2>6, ChosenAtOption
      <4>5. w[n + 1] = Known(n + 1)
        BY <2>4, <2>6, <4>3, <4>4 DEF arg
      <4> QED BY <3>2, <3>3, <4>5
    <3>4. CASE arg \notin Range(Fields)
      <4>1. ~\E f \in DOMAIN Fields : Fields[f] = arg
        BY <3>4, FieldNames
      <4>2. w[n + 1] \in {[w[n] EXCEPT !.error = "help"], [w[n] EXCEPT !.error = "smoke"]}
        BY <2>2, <3>1, <4>1 DEF SmokeArg
      <4>3. w[n + 1].error # "none"
        BY <3>1, <4>2
      <4> QED BY <3>2, <3>4, <4>3
    <3> QED BY <3>3, <3>4
  <2>7. CASE AlternatesTo(list, n) /\ n % 2 = 1
    <3>1. w[n] = [params |-> ChosenTo(list, n), pending |-> list[n], error |-> "none"]
      BY <2>3, <2>7
    <3>2. list[n] \in Range(Fields)
      <4>1. n \in 1..n
        BY <2>7
      <4> QED BY <2>7, <4>1 DEF AlternatesTo
    <3>3. list[n] # "none"
      BY <3>2, FieldNames
    <3>4. AlternatesTo(list, n + 1) <=> GoodValue(list[n], arg)
      BY <2>7, AlternatesNext DEF arg
    <3>5. CASE GoodValue(list[n], arg)
      <4> DEFINE q == [f \in DOMAIN ChosenTo(list, n) |->
                         IF Fields[f] = list[n] THEN Number[arg] ELSE ChosenTo(list, n)[f]]
      <4>1. w[n + 1] = [params |-> q, pending |-> "none", error |-> "none"]
        <5>1. w[n].error = "none" /\ w[n].pending = list[n] /\ w[n].params = ChosenTo(list, n)
          BY <3>1
        <5>2. w[n + 1] = [w[n] EXCEPT !.pending = "none",
                                      !.params = [f \in DOMAIN @ |-> IF Fields[f] = w[n].pending
                                                                     THEN Number[arg] ELSE @[f]]]
          BY <2>2, <3>3, <3>5, <5>1 DEF SmokeArg
        <5>3. w[n + 1] = [w[n] EXCEPT !.pending = "none", !.params = q]
          BY <5>1, <5>2
        <5> HIDE DEF q
        <5>4. PICK a : a = ChosenTo(list, n)
          OBVIOUS
        <5>5. PICK v : v = w[n]
          OBVIOUS
        <5>6. PICK u : u = w[n + 1]
          OBVIOUS
        <5>7. v = [params |-> a, pending |-> list[n], error |-> "none"]
          BY <3>1, <5>4, <5>5, Zenon
        <5>8. u = [v EXCEPT !.pending = "none", !.params = q]
          BY <5>3, <5>5, <5>6, Zenon
        <5>9. u = [params |-> q, pending |-> "none", error |-> "none"]
          BY <5>7, <5>8, ValueTaken
        <5> QED BY <5>6, <5>9, Zenon
      <4>2. DOMAIN ChosenTo(list, n) = DOMAIN Fields
        BY DEF ChosenTo
      <4>3. q = ChosenTo(list, n + 1)
        BY <2>7, <4>2, ChosenAtValue DEF arg
      <4>4. w[n + 1] = Known(n + 1)
        BY <2>4, <2>7, <4>1, <4>3
      <4> QED BY <3>4, <3>5, <4>4
    <3>6. CASE ~GoodValue(list[n], arg)
      <4>1. w[n + 1] = [w[n] EXCEPT !.error = "smoke"]
        BY <2>2, <3>1, <3>3, <3>6 DEF SmokeArg
      <4>2. w[n + 1].error # "none"
        BY <3>1, <4>1
      <4> QED BY <3>4, <3>6, <4>2
    <3> QED BY <3>5, <3>6
  <2> QED BY <2>4, <2>5, <2>6, <2>7
<1>3. \A n \in Nat : n \in T
  <2> HIDE DEF T
  <2> QED BY <1>1, <1>2, NatInduced
<1>4. \A n \in 0..Len(list) : Knows(n)
  <2>1. \A n \in 0..Len(list) : n \in Nat /\ n <= Len(list)
    OBVIOUS
  <2> HIDE DEF Knows
  <2> QED BY <1>3, <2>1
<1> QED
  BY <1>4

\* parse_smoke accepts exactly the valid lists, and takes from them what was given last.
LEMMA SmokeParsed ==
    ASSUME NEW list \in Seq(STRING)
    PROVE  IF SmokeValid(list)
           THEN parse_smoke(list) = [command |-> "smoke", params |-> Chosen(list)]
           ELSE "error" \in DOMAIN parse_smoke(list)
<1> DEFINE N == Len(list)
           last == SmokeWalk(list)
<1>1. N \in Nat /\ DOMAIN list = 1..N
  BY LenProperties
<1>2. PICK w : SmokeRun(w, list) /\ last = w[N]
  BY <1>1, SmokeRuns
<1>3. IF AlternatesTo(list, N)
      THEN last = [params |-> ChosenTo(list, N),
                   pending |-> IF N % 2 = 1 THEN list[N] ELSE "none", error |-> "none"]
      ELSE last.error # "none"
  <2>1. N \in 0..N
    BY <1>1
  <2> QED BY <1>1, <1>2, <2>1, SmokeKnows
<1>4. parse_smoke(list) = IF last.error # "none" THEN [error |-> last.error]
                          ELSE IF last.pending # "none" \/ ~SizesOk(last.params)
                          THEN [error |-> "smoke"]
                          ELSE [command |-> "smoke", params |-> last.params]
  BY DEF parse_smoke
<1> HIDE DEF last
<1>5. Alternates(list) <=> AlternatesTo(list, N) /\ N % 2 = 0
  <2>1. ASSUME N % 2 = 0, NEW i \in 1..N, i % 2 = 1
        PROVE  i + 1 \in 1..N /\ (i + 1) % 2 # 1 /\ (i + 1) - 1 = i
    BY <1>1, <2>1
  <2>2. ASSUME NEW i \in 1..N, i % 2 # 1 PROVE i - 1 \in 1..N /\ (i - 1) % 2 = 1 /\ (i - 1) + 1 = i
    BY <1>1, <2>2
  <2>3. ASSUME Alternates(list), NEW i \in 1..N
        PROVE  IF i % 2 = 1 THEN list[i] \in Range(Fields) ELSE GoodValue(list[i - 1], list[i])
    <3>1. CASE i % 2 = 1
      BY <1>1, <2>3, <3>1 DEF Alternates
    <3>2. CASE i % 2 # 1
      <4>1. GoodValue(list[i - 1], list[(i - 1) + 1])
        BY <1>1, <2>2, <2>3, <3>2 DEF Alternates
      <4> QED BY <2>2, <3>2, <4>1
    <3> QED BY <3>1, <3>2
  <2>4. ASSUME AlternatesTo(list, N), N % 2 = 0, NEW i \in 1..N, i % 2 = 1
        PROVE  list[i] \in Range(Fields) /\ GoodValue(list[i], list[i + 1])
    <3>1. list[i] \in Range(Fields)
      BY <2>4 DEF AlternatesTo
    <3>2. GoodValue(list[(i + 1) - 1], list[i + 1])
      BY <2>1, <2>4 DEF AlternatesTo
    <3> QED BY <2>1, <2>4, <3>1, <3>2
  <2>5. Alternates(list) => AlternatesTo(list, N) /\ N % 2 = 0
    BY <2>3 DEF Alternates, AlternatesTo
  <2>6. AlternatesTo(list, N) /\ N % 2 = 0 => Alternates(list)
    BY <1>1, <2>4 DEF Alternates
  <2> QED BY <2>5, <2>6
<1>6. ASSUME N % 2 = 0 PROVE Chosen(list) = ChosenTo(list, N)
  <2>1. \A i \in 1..N : i % 2 = 1 => i < N
    BY <1>1, <1>6
  <2>2. ASSUME NEW f \in DOMAIN Fields
        PROVE  {i \in DOMAIN list : i % 2 = 1 /\ list[i] = Fields[f]} = Given(list, f, N)
    BY <1>1, <2>1 DEF Given
  <2>3. \A f \in DOMAIN Fields :
          LastOf({i \in DOMAIN list : i % 2 = 1 /\ list[i] = Fields[f]}, Default[f],
                 LAMBDA i : Number[list[i + 1]]) = ChosenTo(list, N)[f]
    BY <2>2 DEF LastOf, ChosenTo
  <2> QED BY <2>3 DEF Chosen, ChosenTo
<1>7. CASE ~AlternatesTo(list, N)
  <2>1. parse_smoke(list) = [error |-> last.error]
    BY <1>3, <1>4, <1>7
  <2>2. "error" \in DOMAIN [error |-> last.error]
    OBVIOUS
  <2> QED BY <1>5, <1>7, <2>1, <2>2 DEF SmokeValid
<1>8. CASE AlternatesTo(list, N) /\ N % 2 # 0
  <2>1. N % 2 = 1 /\ N \in 1..N
    BY <1>1, <1>8
  <2>2. last.error = "none" /\ last.pending = list[N]
    BY <1>3, <1>8, <2>1
  <2>3. list[N] \in Range(Fields)
    BY <1>8, <2>1 DEF AlternatesTo
  <2>4. list[N] # "none"
    BY <2>3, FieldNames
  <2>5. parse_smoke(list) = [error |-> "smoke"]
    BY <1>4, <2>2, <2>4
  <2> QED BY <1>5, <1>8, <2>5 DEF SmokeValid
<1>9. CASE AlternatesTo(list, N) /\ N % 2 = 0
  <2>1. last.error = "none" /\ last.pending = "none" /\ last.params = Chosen(list)
    BY <1>3, <1>6, <1>9
  <2>2. Alternates(list)
    BY <1>5, <1>9
  <2>3. Chosen(list).count \in Nat /\ Chosen(list).concurrency \in Nat
    <3>1. ASSUME NEW f \in {"count", "concurrency"} PROVE Chosen(list)[f] \in Nat
      <4> DEFINE G == Given(list, f, N)
      <4>1. f \in DOMAIN Fields
        BY FieldNames
      <4>2. Chosen(list)[f] = IF G = {} THEN Default[f] ELSE Number[list[Max(G) + 1]]
        BY <1>6, <1>9, <4>1 DEF ChosenTo
      <4>3. Default[f] \in Nat
        BY DefaultAssumption
      <4>4. ASSUME G # {} PROVE Number[list[Max(G) + 1]] \in Nat
        <5>1. Max(G) \in G
          <6>1. G \in SUBSET (1..N)
            BY DEF Given
          <6> HIDE DEF G, N
          <6> QED BY <1>1, <4>4, <6>1, LargestExists
        <5>2. Max(G) \in DOMAIN list /\ Max(G) % 2 = 1
          BY <1>1, <5>1 DEF Given
        <5>3. GoodValue(list[Max(G)], list[Max(G) + 1])
          BY <2>2, <5>2 DEF Alternates
        <5> QED BY <5>3, NumberAssumption DEF GoodValue
      <4> HIDE DEF G
      <4> QED BY <4>2, <4>3, <4>4
    <3> QED BY <3>1
  <2>4. SizesOk(Chosen(list)) <=> Chosen(list).count # 0 /\ Chosen(list).concurrency # 0
    BY <2>3 DEF SizesOk
  <2>5. SmokeValid(list) <=> SizesOk(Chosen(list))
    BY <2>2, <2>4 DEF SmokeValid
  <2>6. parse_smoke(list) = IF ~SizesOk(Chosen(list)) THEN [error |-> "smoke"]
                            ELSE [command |-> "smoke", params |-> Chosen(list)]
    BY <1>4, <2>1
  <2> HIDE DEF N
  <2> QED BY <2>5, <2>6
<1> QED
  BY <1>7, <1>8, <1>9

-----------------------------------------------------------------------------
(***************************************************************************)
(* parse_args                                                              *)
(***************************************************************************)
MainRun(w, list) ==
    w[0] = MainStart /\ \A i \in 1..Len(list) : w[i] = MainArg(w[i - 1], list[i])

\* The walk over any list exists.
LEMMA MainRuns ==
    ASSUME NEW list, Len(list) \in Nat
    PROVE  \E w : MainRun(w, list) /\ MainWalk(list) = w[Len(list)]
<1> DEFINE N == Len(list)
           Rec(f) == [i \in 0..N |-> IF i = 0 THEN MainStart ELSE MainArg(f[i - 1], list[i])]
           Upto(g, n) == g[0] = MainStart /\ \A i \in 1..n : g[i] = MainArg(g[i - 1], list[i])
           T == {n \in Nat : \E g : Upto(g, n)}
           chosen == CHOOSE f : f = Rec(f)
<1>1. 0 \in T
  <2>1. Upto([i \in {0} |-> MainStart], 0)
    OBVIOUS
  <2> QED BY <2>1
<1>2. ASSUME NEW n \in Nat, n \in T PROVE n + 1 \in T
  <2>1. PICK g : Upto(g, n)
    BY <1>2
  <2> DEFINE next == MainArg(g[n], list[n + 1])
             h == [i \in 0..(n + 1) |-> IF i = n + 1 THEN next ELSE g[i]]
  <2>2. h[0] = MainStart
    BY <2>1
  <2>3. ASSUME NEW i \in 1..(n + 1) PROVE h[i] = MainArg(h[i - 1], list[i])
    <3>1. CASE i = n + 1
      <4>1. h[i] = next /\ h[i - 1] = g[n]
        BY <3>1
      <4> QED BY <3>1, <4>1
    <3>2. CASE i \in 1..n
      <4>1. h[i] = g[i] /\ h[i - 1] = g[i - 1]
        BY <3>2
      <4> QED BY <2>1, <3>2, <4>1
    <3> QED BY <3>1, <3>2
  <2>4. Upto(h, n + 1)
    <3> HIDE DEF h
    <3> QED BY <2>2, <2>3
  <2>5. n + 1 \in Nat
    OBVIOUS
  <2> HIDE DEF h, Upto
  <2> QED BY <2>4, <2>5
<1>3. N \in T
  <2> HIDE DEF T
  <2> QED BY <1>1, <1>2, NatInduced
<1>4. PICK g : Upto(g, N)
  BY <1>3
<1> DEFINE f0 == [i \in 0..N |-> g[i]]
<1>5. f0 = Rec(f0)
  <2>1. ASSUME NEW i \in 0..N PROVE f0[i] = Rec(f0)[i]
    <3>1. CASE i = 0
      BY <1>4, <3>1
    <3>2. CASE i \in 1..N
      <4>1. f0[i] = g[i] /\ f0[i - 1] = g[i - 1]
        BY <3>2
      <4> QED BY <1>4, <3>2, <4>1
    <3> QED BY <3>1, <3>2
  <2> QED BY <2>1
<1>6. chosen = Rec(chosen)
  <2> HIDE DEF Rec, f0
  <2> QED BY <1>5
<1>7. MainRun(chosen, list)
  <2>1. chosen[0] = MainStart
    <3> HIDE DEF chosen
    <3> QED BY <1>6
  <2>2. ASSUME NEW i \in 1..N PROVE chosen[i] = MainArg(chosen[i - 1], list[i])
    <3> HIDE DEF chosen
    <3> QED BY <1>6
  <2> HIDE DEF chosen
  <2> QED BY <2>1, <2>2 DEF MainRun
<1>8. MainWalk(list) = chosen[N]
  BY DEF MainWalk
<1> HIDE DEF chosen
<1> QED BY <1>7, <1>8

\* An argument is a path exactly if the one before it is a --config that is none.
LEMMA PathNext ==
    ASSUME NEW list, NEW i \in Nat
    PROVE  IsPath(list, i + 1) <=> i # 0 /\ list[i] = "--config" /\ ~IsPath(list, i)
<1> DEFINE C(j) == list[j] = "--config"
           Ends(s, e) == /\ s \in 1..(e - 1)
                         /\ \A j \in s..(e - 1) : C(j)
                         /\ s = 1 \/ ~C(s - 1)
<1>1. ASSUME NEW e \in Nat PROVE IsPath(list, e) <=> \E s \in 1..(e - 1) : Ends(s, e) /\ (e - s) % 2 = 1
  <2>1. ASSUME IsPath(list, e) PROVE \E s \in 1..(e - 1) : Ends(s, e) /\ (e - s) % 2 = 1
    <3>1. PICK n \in 1..(e - 1) : /\ n % 2 = 1
                                  /\ \A j \in (e - n)..(e - 1) : C(j)
                                  /\ e - n = 1 \/ ~C(e - n - 1)
      BY <2>1 DEF IsPath
    <3> DEFINE s == e - n
    <3>2. s \in 1..(e - 1) /\ e - s = n
      OBVIOUS
    <3>3. Ends(s, e) /\ (e - s) % 2 = 1
      <4> HIDE DEF C
      <4> QED BY <3>1, <3>2
    <3> HIDE DEF s, Ends
    <3> QED BY <3>2, <3>3
  <2>2. ASSUME NEW s \in 1..(e - 1), Ends(s, e), (e - s) % 2 = 1 PROVE IsPath(list, e)
    <3> DEFINE n == e - s
    <3>1. n \in 1..(e - 1) /\ e - n = s /\ n % 2 = 1
      BY <2>2
    <3>2. \A j \in s..(e - 1) : list[j] = "--config"
      BY <2>2
    <3>3. s = 1 \/ list[s - 1] # "--config"
      BY <2>2
    <3> HIDE DEF n
    <3> QED BY <3>1, <3>2, <3>3 DEF IsPath
  <2> QED BY <2>1, <2>2
<1>2. ASSUME NEW s, NEW t, Ends(s, i + 1), Ends(t, i) PROVE s = t
  <2>1. s \in Nat /\ t \in Nat /\ 1 <= s /\ s <= i /\ 1 <= t /\ t <= i - 1
    BY <1>2
  <2>2. s < t => FALSE
    <3>1. s < t => t - 1 \in s..((i + 1) - 1) /\ t # 1
      BY <2>1
    <3> HIDE DEF C
    <3> QED BY <1>2, <3>1
  <2>3. t < s => FALSE
    <3>1. t < s => s - 1 \in t..(i - 1) /\ s # 1
      BY <2>1
    <3> HIDE DEF C
    <3> QED BY <1>2, <3>1
  <2> QED BY <2>1, <2>2, <2>3
<1>3. ASSUME IsPath(list, i + 1) PROVE i # 0 /\ C(i) /\ ~IsPath(list, i)
  <2>1. PICK s \in 1..((i + 1) - 1) : Ends(s, i + 1) /\ ((i + 1) - s) % 2 = 1
    <3> HIDE DEF Ends
    <3> QED BY <1>1, <1>3, i + 1 \in Nat
  <2>2. i # 0 /\ i \in s..((i + 1) - 1)
    OBVIOUS
  <2>3. C(i)
    BY <2>1, <2>2
  <2>4. ASSUME NEW t \in 1..(i - 1), Ends(t, i), (i - t) % 2 = 1 PROVE FALSE
    <3>1. s = t
      <4> HIDE DEF Ends
      <4> QED BY <1>2, <2>1, <2>4
    <3>2. ((i + 1) - s) % 2 = 1 /\ (i - s) % 2 = 1 /\ i - s \in Nat
      BY <2>1, <2>4, <3>1
    <3>3. \A d \in Nat : d % 2 = 1 => (d + 1) % 2 = 0
      OBVIOUS
    <3>4. (i + 1) - s = (i - s) + 1
      OBVIOUS
    <3> QED BY <3>2, <3>3, <3>4
  <2> HIDE DEF Ends
  <2> QED BY <1>1, <2>2, <2>3, <2>4
<1>4. ASSUME i # 0, C(i), ~IsPath(list, i) PROVE IsPath(list, i + 1)
  <2> DEFINE U == {s \in 1..i : \A j \in s..i : C(j)}
  <2>1. i \in U
    <3>1. \A j \in i..i : j = i
      OBVIOUS
    <3>2. i \in 1..i
      BY <1>4
    <3> HIDE DEF C
    <3> QED BY <1>4, <3>1, <3>2
  <2>2. PICK s \in U : \A y \in U : s <= y
    <3>1. U \in SUBSET Nat /\ U # {}
      BY <2>1
    <3> HIDE DEF U
    <3> QED BY <3>1, LeastExists
  <2>3. s \in 1..i /\ s \in Nat /\ \A j \in s..i : C(j)
    BY <2>2
  <2>4. ASSUME s # 1, C(s - 1) PROVE FALSE
    <3>1. s - 1 \in 1..i /\ ~(s <= s - 1)
      BY <2>3, <2>4
    <3>2. \A j \in (s - 1)..i : j = s - 1 \/ j \in s..i
      BY <2>3
    <3>3. \A j \in (s - 1)..i : C(j)
      <4> HIDE DEF C
      <4> QED BY <2>3, <2>4, <3>2
    <3> HIDE DEF C
    <3> QED BY <2>2, <3>1, <3>3
  <2>5. (i + 1) - 1 = i
    OBVIOUS
  <2>6. Ends(s, i + 1)
    <3> HIDE DEF C
    <3> QED BY <2>3, <2>4, <2>5
  <2>7. CASE ((i + 1) - s) % 2 = 1
    <3> HIDE DEF Ends
    <3> QED BY <1>1, <2>3, <2>5, <2>6, <2>7, i + 1 \in Nat
  <2>8. CASE ((i + 1) - s) % 2 # 1
    <3>1. i # s /\ s \in 1..(i - 1) /\ (i - s) % 2 = 1
      BY <2>3, <2>8
    <3>2. \A j \in s..(i - 1) : j \in s..i
      BY <2>3
    <3>3. Ends(s, i)
      <4> HIDE DEF C
      <4> QED BY <2>3, <2>4, <3>1, <3>2
    <3> HIDE DEF Ends
    <3> QED BY <1>1, <1>4, <3>1, <3>3
  <2> QED BY <2>7, <2>8
<1> QED
  BY <1>3, <1>4

\* The first n arguments are options parse_args knows or paths, and what they say.
KnownTo(list, n) ==
    \A i \in 1..n : IsPath(list, i) \/ list[i] \in {"summary", "--config=p", "--config"}
SummaryTo(list, n) == \E i \in 1..n : ~IsPath(list, i) /\ list[i] = "summary"
PathsTo(list, n) == {i \in 1..n : IsPath(list, i) \/ list[i] = "--config=p"}
ConfigTo(list, n) ==
    LET last == Max(PathsTo(list, n))
    IN  IF PathsTo(list, n) = {} THEN "default" ELSE IF IsPath(list, last) THEN list[last] ELSE "p"

\* The three one argument further.
LEMMA MainNext ==
    ASSUME NEW list, NEW n \in Nat
    PROVE  LET a == list[n + 1]
               path == IsPath(list, n + 1)
           IN  /\ KnownTo(list, n + 1) <=>
                    KnownTo(list, n) /\ (path \/ a \in {"summary", "--config=p", "--config"})
               /\ SummaryTo(list, n + 1) <=> SummaryTo(list, n) \/ (~path /\ a = "summary")
               /\ ConfigTo(list, n + 1) = IF path THEN a ELSE IF a = "--config=p" THEN "p"
                                          ELSE ConfigTo(list, n)
<1> DEFINE a == list[n + 1]
           path == IsPath(list, n + 1)
           P == PathsTo(list, n)
           Q == PathsTo(list, n + 1)
<1>1. \A i : i \in 1..(n + 1) <=> i \in 1..n \/ i = n + 1
  OBVIOUS
<1>2. KnownTo(list, n + 1) <=>
        KnownTo(list, n) /\ (path \/ a \in {"summary", "--config=p", "--config"})
  BY <1>1 DEF KnownTo
<1>3. SummaryTo(list, n + 1) <=> SummaryTo(list, n) \/ (~path /\ a = "summary")
  BY <1>1 DEF SummaryTo
<1>4. P \in SUBSET Nat /\ \A i \in P : i < n + 1
  BY DEF PathsTo
<1>5. Q = P \cup IF path \/ a = "--config=p" THEN {n + 1} ELSE {}
  BY <1>1 DEF PathsTo
<1>6. /\ ConfigTo(list, n) = IF P = {} THEN "default"
                             ELSE IF IsPath(list, Max(P)) THEN list[Max(P)] ELSE "p"
      /\ ConfigTo(list, n + 1) = IF Q = {} THEN "default"
                                 ELSE IF IsPath(list, Max(Q)) THEN list[Max(Q)] ELSE "p"
  BY DEF ConfigTo
<1> HIDE DEF P, Q
<1>7. CASE path \/ a = "--config=p"
  <2>1. Q = P \cup {n + 1} /\ Q # {}
    BY <1>5, <1>7
  <2>2. Max(Q) = n + 1
    BY <1>4, <2>1, MaxIsLast, n + 1 \in Nat
  <2>3. ConfigTo(list, n + 1) = IF path THEN a ELSE "p"
    BY <1>6, <2>1, <2>2
  <2> HIDE DEF path, a
  <2> QED BY <1>2, <1>3, <1>7, <2>3 DEF path, a
<1>8. CASE ~(path \/ a = "--config=p")
  <2>1. Q = P
    BY <1>5, <1>8
  <2>2. ConfigTo(list, n + 1) = ConfigTo(list, n)
    BY <1>6, <2>1
  <2> QED BY <1>2, <1>3, <1>8, <2>2
<1> QED
  BY <1>7, <1>8

Walked(w) ==
    /\ DOMAIN w = {"summary_command", "config", "pending", "error"}
    /\ w.summary_command \in BOOLEAN /\ w.pending \in BOOLEAN

\* What the walk knows after n arguments: what they say, and whether a path is due, as
\* long as all of them are known, and an error otherwise.
LEMMA MainKnows ==
    ASSUME NEW list, Len(list) \in Nat, NEW w, MainRun(w, list)
    PROVE  \A n \in 0..Len(list) :
             IF KnownTo(list, n)
             THEN /\ w[n].error = "none" /\ w[n].config = ConfigTo(list, n)
                  /\ w[n].summary_command <=> SummaryTo(list, n)
                  /\ w[n].pending <=> IsPath(list, n + 1)
             ELSE w[n].error # "none"
<1> DEFINE Knows(n) == IF KnownTo(list, n)
                       THEN /\ Walked(w[n])
                            /\ w[n].error = "none" /\ w[n].config = ConfigTo(list, n)
                            /\ w[n].summary_command <=> SummaryTo(list, n)
                            /\ w[n].pending <=> IsPath(list, n + 1)
                       ELSE w[n].error # "none"
           T == {n \in Nat : n <= Len(list) => Knows(n)}
<1>1. 0 \in T
  <2>1. 1..0 = {} /\ 0 \in Nat
    OBVIOUS
  <2>2. KnownTo(list, 0) /\ ~SummaryTo(list, 0) /\ PathsTo(list, 0) = {}
    BY <2>1 DEF KnownTo, SummaryTo, PathsTo
  <2>3. ConfigTo(list, 0) = "default"
    BY <2>2 DEF ConfigTo
  <2>4. ~IsPath(list, 0 + 1)
    BY <2>1, PathNext
  <2>5. w[0] = MainStart
    BY DEF MainRun
  <2>6. /\ Walked(MainStart) /\ MainStart.error = "none" /\ MainStart.config = "default"
        /\ ~MainStart.summary_command /\ ~MainStart.pending
    BY DEF MainStart, Walked
  <2> QED BY <2>1, <2>2, <2>3, <2>4, <2>5, <2>6
<1>2. ASSUME NEW n \in Nat, n \in T PROVE n + 1 \in T
  <2> SUFFICES ASSUME n + 1 <= Len(list) PROVE Knows(n + 1)
    OBVIOUS
  <2> DEFINE a == list[n + 1]
             path == IsPath(list, n + 1)
             v == w[n]
             u == w[n + 1]
  <2>1. n + 1 \in 1..Len(list) /\ (n + 1) - 1 = n /\ n <= Len(list)
    OBVIOUS
  <2>2. u = MainArg(v, a)
    BY <2>1 DEF MainRun
  <2>3. Knows(n)
    BY <1>2, <2>1
  <2>4. /\ KnownTo(list, n + 1) <=>
             KnownTo(list, n) /\ (path \/ a \in {"summary", "--config=p", "--config"})
        /\ SummaryTo(list, n + 1) <=> SummaryTo(list, n) \/ (~path /\ a = "summary")
        /\ ConfigTo(list, n + 1) = IF path THEN a ELSE IF a = "--config=p" THEN "p"
                                   ELSE ConfigTo(list, n)
    BY MainNext
  <2>5. IsPath(list, (n + 1) + 1) <=> a = "--config" /\ ~path
    BY PathNext, n + 1 \in Nat, n + 1 # 0
  <2>6. Knows(n + 1) <=> IF KnownTo(list, n + 1)
                         THEN /\ Walked(u)
                              /\ u.error = "none" /\ u.config = ConfigTo(list, n + 1)
                              /\ u.summary_command <=> SummaryTo(list, n + 1)
                              /\ u.pending <=> IsPath(list, (n + 1) + 1)
                         ELSE u.error # "none"
    OBVIOUS
  <2>7. CASE ~KnownTo(list, n)
    <3>1. v.error # "none"
      BY <2>3, <2>7
    <3>2. u = v
      BY <2>2, <3>1 DEF MainArg
    <3> QED BY <2>4, <2>6, <2>7, <3>1, <3>2
  <2>8. CASE KnownTo(list, n)
    <3>1. /\ Walked(v) /\ v.error = "none" /\ v.config = ConfigTo(list, n)
          /\ v.summary_command <=> SummaryTo(list, n)
          /\ v.pending <=> path
      BY <2>3, <2>8
    <3> HIDE DEF a, path, v, u, Knows
    <3>2. CASE path
      <4>1. u = [v EXCEPT !.config = a, !.pending = FALSE]
        BY <2>2, <3>1, <3>2 DEF MainArg
      <4>2. /\ Walked(u) /\ u.error = "none" /\ u.config = a
            /\ u.summary_command = v.summary_command /\ u.pending = FALSE
        BY <3>1, <4>1 DEF Walked
      <4> QED BY <2>4, <2>5, <2>6, <2>8, <3>1, <3>2, <4>2
    <3>3. CASE ~path /\ a = "summary"
      <4>1. u = [v EXCEPT !.summary_command = TRUE]
        BY <2>2, <3>1, <3>3 DEF MainArg
      <4>2. /\ Walked(u) /\ u.error = "none" /\ u.config = v.config
            /\ u.summary_command = TRUE /\ u.pending = v.pending
        BY <3>1, <4>1 DEF Walked
      <4> QED BY <2>4, <2>5, <2>6, <2>8, <3>1, <3>3, <4>2
    <3>4. CASE ~path /\ a = "--config"
      <4>1. u = [v EXCEPT !.pending = TRUE]
        BY <2>2, <3>1, <3>4 DEF MainArg
      <4>2. /\ Walked(u) /\ u.error = "none" /\ u.config = v.config
            /\ u.summary_command = v.summary_command /\ u.pending = TRUE
        BY <3>1, <4>1 DEF Walked
      <4> QED BY <2>4, <2>5, <2>6, <2>8, <3>1, <3>4, <4>2
    <3>5. CASE ~path /\ a = "--config=p"
      <4>1. u = [v EXCEPT !.config = "p"]
        BY <2>2, <3>1, <3>5 DEF MainArg
      <4>2. /\ Walked(u) /\ u.error = "none" /\ u.config = "p"
            /\ u.summary_command = v.summary_command /\ u.pending = v.pending
        BY <3>1, <4>1 DEF Walked
      <4> QED BY <2>4, <2>5, <2>6, <2>8, <3>1, <3>5, <4>2
    <3>6. CASE ~path /\ a \notin {"summary", "--config", "--config=p"}
      <4>1. u \in {[v EXCEPT !.error = "help"], [v EXCEPT !.error = "missing_value"],
                   [v EXCEPT !.error = "unknown_option"]}
        BY <2>2, <3>1, <3>6 DEF MainArg
      <4>2. u.error # "none"
        BY <3>1, <4>1 DEF Walked
      <4> QED BY <2>4, <2>6, <3>6, <4>2
    <3> QED BY <3>2, <3>3, <3>4, <3>5, <3>6
  <2> QED BY <2>7, <2>8
<1>3. \A n \in Nat : n \in T
  <2> HIDE DEF T
  <2> QED BY <1>1, <1>2, NatInduced
<1>4. \A n \in 0..Len(list) : Knows(n)
  <2>1. \A n \in 0..Len(list) : n \in Nat /\ n <= Len(list)
    OBVIOUS
  <2> HIDE DEF Knows
  <2> QED BY <1>3, <2>1
<1> QED
  BY <1>4

\* parse_args accepts exactly the valid lists, and does what they say.
LEMMA MainParsed ==
    ASSUME NEW list \in Seq(STRING), ~(list # <<>> /\ list[1] = "smoke")
    PROVE  IF MainValid(list) THEN parse_args(list) = MainCommand(list)
                              ELSE "error" \in DOMAIN parse_args(list)
<1> DEFINE N == Len(list)
           last == MainWalk(list)
<1>1. N \in Nat /\ DOMAIN list = 1..N
  BY LenProperties
<1>2. PICK w : MainRun(w, list) /\ last = w[N]
  BY <1>1, MainRuns
<1>3. IF KnownTo(list, N)
      THEN /\ last.error = "none" /\ last.config = ConfigTo(list, N)
           /\ last.summary_command <=> SummaryTo(list, N)
           /\ last.pending <=> IsPath(list, N + 1)
      ELSE last.error # "none"
  <2>1. N \in 0..N
    BY <1>1
  <2> QED BY <1>1, <1>2, <2>1, MainKnows
<1>4. parse_args(list) = IF last.error # "none" THEN [error |-> last.error]
                         ELSE IF last.pending THEN [error |-> "missing_value"]
                         ELSE [command |-> IF last.summary_command THEN "summary" ELSE "run",
                               config |-> last.config]
  BY DEF parse_args
<1> HIDE DEF last
<1>5. Options(list) = {i \in 1..N : ~IsPath(list, i)}
  BY <1>1 DEF Options
<1>6. IsPath(list, N + 1) <=> N # 0 /\ list[N] = "--config" /\ ~IsPath(list, N)
  BY <1>1, PathNext
<1>7. MainValid(list) <=> KnownTo(list, N) /\ ~IsPath(list, N + 1)
  <2>1. ASSUME MainValid(list) PROVE KnownTo(list, N) /\ ~IsPath(list, N + 1)
    <3>1. \A i \in 1..N : ~IsPath(list, i) =>
            list[i] \in {"summary", "--config=p"} \/ (list[i] = "--config" /\ i < N)
      BY <1>5, <2>1 DEF MainValid
    <3>2. N # 0 => N \in 1..N /\ ~(N < N)
      BY <1>1
    <3> HIDE DEF N
    <3>3. ~IsPath(list, N + 1)
      BY <1>6, <3>1, <3>2
    <3> QED BY <3>1, <3>3 DEF KnownTo
  <2>2. ASSUME KnownTo(list, N), ~IsPath(list, N + 1) PROVE MainValid(list)
    <3>1. ASSUME NEW i \in 1..N, ~IsPath(list, i)
          PROVE  list[i] \in {"summary", "--config=p"} \/ (list[i] = "--config" /\ i < N)
      <4>1. N # 0 /\ (i = N \/ i < N)
        <5> HIDE DEF N
        <5> QED BY <1>1, <3>1
      <4>2. list[i] \in {"summary", "--config=p", "--config"}
        BY <2>2, <3>1 DEF KnownTo
      <4>3. i = N => list[i] # "--config"
        BY <1>6, <2>2, <3>1, <4>1
      <4> QED BY <4>1, <4>2, <4>3
    <3>2. \A i \in Options(list) : i \in 1..N /\ ~IsPath(list, i)
      BY <1>5
    <3> QED BY <3>1, <3>2 DEF MainValid
  <2> QED BY <2>1, <2>2
<1>8. CASE ~KnownTo(list, N)
  <2>1. parse_args(list) = [error |-> last.error]
    BY <1>3, <1>4, <1>8
  <2>2. "error" \in DOMAIN [error |-> last.error]
    OBVIOUS
  <2> QED BY <1>7, <1>8, <2>1, <2>2
<1>9. CASE KnownTo(list, N) /\ IsPath(list, N + 1)
  <2>1. parse_args(list) = [error |-> "missing_value"]
    BY <1>3, <1>4, <1>9
  <2>2. "error" \in DOMAIN [error |-> "missing_value"]
    OBVIOUS
  <2> QED BY <1>7, <1>9, <2>1, <2>2
<1>10. CASE KnownTo(list, N) /\ ~IsPath(list, N + 1)
  <2> DEFINE c == IF SummaryTo(list, N) THEN "summary" ELSE "run"
             P == PathsTo(list, N)
  <2>1. parse_args(list) = [command |-> c, config |-> ConfigTo(list, N)]
    BY <1>3, <1>4, <1>10
  <2>2. (IF \E i \in Options(list) : list[i] = "summary" THEN "summary" ELSE "run") = c
    BY <1>5 DEF SummaryTo
  <2>3. {i \in DOMAIN list : i \in Options(list) => list[i] = "--config=p"} = P
    BY <1>1, <1>5 DEF PathsTo
  <2>4. LastOf(P, "default", LAMBDA i : IF i \in Options(list) THEN "p" ELSE list[i])
            = ConfigTo(list, N)
    <3>1. LastOf(P, "default", LAMBDA i : IF i \in Options(list) THEN "p" ELSE list[i])
            = IF P = {} THEN "default" ELSE IF Max(P) \in Options(list) THEN "p" ELSE list[Max(P)]
      BY DEF LastOf
    <3>2. P # {} => Max(P) \in P
      <4>1. P \in SUBSET (1..N)
        BY DEF PathsTo
      <4> HIDE DEF P, N
      <4> QED BY <1>1, <4>1, LargestExists
    <3>3. P # {} => (Max(P) \in Options(list) <=> ~IsPath(list, Max(P)))
      BY <1>5, <3>2 DEF PathsTo
    <3> QED BY <3>1, <3>3 DEF ConfigTo
  <2>5. MainCommand(list) = [command |-> c, config |-> ConfigTo(list, N)]
    <3> HIDE DEF c, P
    <3> QED BY <2>2, <2>3, <2>4 DEF MainCommand
  <2> QED BY <1>7, <1>10, <2>1, <2>5
<1> QED
  BY <1>8, <1>9, <1>10

\* The arguments stay a list of words.
ArgsInv == args \in Seq(STRING)

\* Nothing changes the arguments but parsing them.
LEMMA ArgsAlways == Spec => []ArgsInv
<1>1. Init => ArgsInv
  BY ListsAssumption DEF Init, ArgsInv
<1>2. ArgsInv /\ [Next]_vars => ArgsInv'
  <2> SUFFICES ASSUME ArgsInv, [Next]_vars PROVE ArgsInv'
    OBVIOUS
  <2>1. args' = args \/ args' = <<>>
    BY DEF Next, Harness, Starting, Waiting, Load, Ending, Environment, ParseArgs, resolve_oha,
           WorkDir_new, spawn_mock_upstream, pick_free_port, spawn_gateway, StepFails, Deadline,
           Healthy, NeverReady, wait_audit_count, AuditShort, OhaRequest, OhaEnds, ShutdownEarly,
           Reread, DropProcs, DropFiles, DropDirectory, Exit, ChildLoads, ChildOpens, ChildBinds,
           ChildDies, OtherMoves, WriteLine, ChildStep, Dropping, Goto, Await, Return,
           harnessVars, vars
  <2>2. <<>> \in Seq(STRING)
    BY EmptySeq
  <2> QED BY <2>1, <2>2, Zenon DEF ArgsInv
<1> QED
  BY <1>1, <1>2, PTL DEF Spec

\* Only a list of arguments that is valid as a whole starts anything, and then with what
\* it gave last; any number of arguments, in any order (main.rs, parse_args; smoke.rs,
\* parse_smoke).
THEOREM ArgumentsHonoured == Spec => ArgumentsAreHonoured
<1> DEFINE Honoured ==
             phase = "args" /\ phase' # "args" =>
               IF args # <<>> /\ args[1] = "smoke"
               THEN /\ phase' = IF SmokeValid(Tail(args)) THEN "resolve" ELSE "exited"
                    /\ SmokeValid(Tail(args)) => params' = Chosen(Tail(args))
               ELSE /\ phase' = IF MainValid(args) THEN "other" ELSE "exited"
                    /\ MainValid(args) => command' = MainCommand(args)
<1>1. ArgsInv /\ [Next]_vars => [Honoured]_vars
  <2> SUFFICES ASSUME ArgsInv, Next, phase = "args", phase' # "args"
               PROVE  IF args # <<>> /\ args[1] = "smoke"
                      THEN /\ phase' = IF SmokeValid(Tail(args)) THEN "resolve" ELSE "exited"
                           /\ SmokeValid(Tail(args)) => params' = Chosen(Tail(args))
                      ELSE /\ phase' = IF MainValid(args) THEN "other" ELSE "exited"
                           /\ MainValid(args) => command' = MainCommand(args)
    OBVIOUS
  <2>1. ParseArgs
    BY DEF Next, Harness, Starting, Waiting, Load, Ending, Environment, resolve_oha,
           WorkDir_new, spawn_mock_upstream, pick_free_port, spawn_gateway, StepFails, Deadline,
           Healthy, NeverReady, wait_audit_count, AuditShort, OhaRequest, OhaEnds, ShutdownEarly,
           Reread, DropProcs, DropFiles, DropDirectory, Exit, ChildLoads, ChildOpens, ChildBinds,
           ChildDies, OtherMoves, WriteLine, ChildStep, Dropping, harnessVars
  <2>2. /\ command' = parse_args(args)
        /\ phase' = IF "error" \in DOMAIN command' THEN "exited"
                    ELSE IF command'.command = "smoke" THEN "resolve" ELSE "other"
    BY <2>1 DEF ParseArgs
  <2>3. CASE args # <<>> /\ args[1] = "smoke"
    <3>1. Tail(args) \in Seq(STRING)
      BY <2>3 DEF ArgsInv
    <3>2. command' = parse_smoke(Tail(args))
      BY <2>2, <2>3 DEF parse_args
    <3>3. CASE SmokeValid(Tail(args))
      <4>1. command' = [command |-> "smoke", params |-> Chosen(Tail(args))]
        BY <3>1, <3>2, <3>3, SmokeParsed
      <4>2. "error" \notin DOMAIN command' /\ command'.command = "smoke"
        BY <4>1
      <4> QED BY <2>2, <2>3, <3>3, <4>1, <4>2 DEF params
    <3>4. CASE ~SmokeValid(Tail(args))
      <4>1. "error" \in DOMAIN command'
        BY <3>1, <3>2, <3>4, SmokeParsed
      <4> QED BY <2>2, <2>3, <3>4, <4>1
    <3> QED BY <3>3, <3>4
  <2>4. CASE ~(args # <<>> /\ args[1] = "smoke")
    <3>1. CASE MainValid(args)
      <4>1. command' = MainCommand(args)
        BY <2>2, <2>4, <3>1, MainParsed DEF ArgsInv
      <4>2. "error" \notin DOMAIN MainCommand(args) /\ MainCommand(args).command # "smoke"
        BY DEF MainCommand
      <4> QED BY <2>2, <2>4, <3>1, <4>1, <4>2
    <3>2. CASE ~MainValid(args)
      <4>1. "error" \in DOMAIN command'
        BY <2>2, <2>4, <3>2, MainParsed DEF ArgsInv
      <4> QED BY <2>2, <2>4, <3>2, <4>1
    <3> QED BY <3>1, <3>2
  <2> QED BY <2>3, <2>4
<1> QED
  BY ArgsAlways, <1>1, PTL DEF Spec, ArgumentsAreHonoured

=============================================================================
