------------------------------ MODULE Gateway -------------------------------
(***************************************************************************)
(* One debitmetre process from its start to its end (src/src/main.rs,      *)
(* run_gateway), composed of:                                              *)
(*   - Config and Routing, which decide what may start and what is served; *)
(*   - a Lifecycle per request, which Relay implements;                    *)
(*   - the AuditWriter, to which the lifecycles offer their records;       *)
(*   - the HTTP server and its connections (axum and hyper), one request   *)
(*     per connection, and the async runtime that ends with main.          *)
(* A process is started once here; AuditWriter restarts it over one file.  *)
(***************************************************************************)
EXTENDS Routing

CONSTANTS
    Record,         \* connections, each with its request and that request's record
    Files,          \* configuration files (see Config)
    Inputs,         \* requests that callers send (see Routing)
    QueueCapacity, MaxFails, MaxKills, MaxExits     \* see AuditWriter

VARIABLES
    gw,         \* main: "down", "configured", "built", "bound", "serving",
                \*   "draining", "returning", "ending", "exited"
    config,     \* what load returned
    server,     \* the server task: "none", "accepting", "stopping", "ended", "failed"
    status,     \* exit status: "none", "success", "failure" or "killed"
    conn,       \* per connection: "none", "idle", "busy" or "closed"
    lives,      \* per request: its Lifecycle
    (* AuditWriter *)
    proc, caller, queue, rest, drop_warned, write_warned, file, accepted, written,
    failed, dropped, tears, kills, exits

mainVars == <<gw, config, server, status>>
writerVars == <<proc, caller, queue, rest, drop_warned, write_warned, file, accepted,
                written, failed, dropped, tears, kills, exits>>
vars == <<mainVars, conn, lives, writerVars>>

W == INSTANCE AuditWriter
L == INSTANCE Lifecycle WITH life <- lives

\* A connection that has nothing under way
Nothing == L!At(L!New(FALSE), "over", "served", 0)

Init ==
    /\ gw = "down" /\ server = "none" /\ status = "none"
    /\ config = Refused
    /\ conn = [r \in Record |-> "none"]
    /\ lives = [r \in Record |-> Nothing]
    /\ W!Init

-----------------------------------------------------------------------------
(***************************************************************************)
(* Startup (main.rs, run_gateway up to the select)                         *)
(***************************************************************************)

\* main returns before anything was opened.
Exits(failure) == gw' = "exited" /\ status' = failure

LoadConfig(f) ==
    /\ gw = "down"
    /\ config' = load(f)
    /\ IF config' = Refused THEN Exits("failure") ELSE gw' = "configured" /\ UNCHANGED status
    /\ UNCHANGED <<server, conn, lives, writerVars>>

\* The usage file cannot be opened.
OpenFails ==
    /\ gw = "configured"
    /\ Exits("failure")
    /\ UNCHANGED <<config, server, conn, lives, writerVars>>

build_gateway ==
    /\ gw = "configured"
    /\ gw' = "built"
    /\ W!start
    /\ UNCHANGED <<config, server, status, conn, lives>>

\* The address is taken: main returns, with the writer thread running.
BindFails ==
    /\ gw = "built"
    /\ gw' = "returning"
    /\ status' = "failure"
    /\ UNCHANGED <<config, server, conn, lives, writerVars>>

\* Plausible bug: the listener is bound before the usage file is opened.
ReadyToBind_early == gw \in {"configured", "built"}

ReadyToBind == gw = "built"

\* From here on the server task accepts connections.
Bind ==
    /\ ReadyToBind
    /\ gw' = "bound"
    /\ server' = "accepting"
    /\ UNCHANGED <<config, status, conn, lives, writerVars>>

\* The first poll of the select; until then a signal has its default effect, see Kill.
InstallHandlers ==
    /\ gw = "bound"
    /\ gw' = "serving"
    /\ UNCHANGED <<config, server, status, conn, lives, writerVars>>

-----------------------------------------------------------------------------
(***************************************************************************)
(* Shutdown                                                                *)
(***************************************************************************)

\* SIGINT or SIGTERM: stop_tx.send; later signals find nobody listening.
shutdown_signal ==
    /\ gw = "serving"
    /\ gw' = "draining"
    /\ UNCHANGED <<config, server, status, conn, lives, writerVars>>

\* The server sees the stop and drops its listener.
ServerStops ==
    /\ gw = "draining"
    /\ server = "accepting"
    /\ server' = "stopping"
    /\ UNCHANGED <<gw, config, status, conn, lives, writerVars>>

ServerDrained ==
    /\ server = "stopping"
    /\ \A r \in Record : conn[r] \in {"none", "closed"}
    /\ server' = "ended"
    /\ UNCHANGED <<gw, config, status, conn, lives, writerVars>>

\* The server task fails; the tasks of its connections go on.
ServerFails ==
    /\ server \in {"accepting", "stopping"}
    /\ gw \in {"bound", "serving", "draining"}
    /\ server' = "failed"
    /\ UNCHANGED <<gw, config, status, conn, lives, writerVars>>

\* Plausible bug: main does not wait for the server it has told to stop.
ServerOver_or_stopping == server \in {"stopping", "ended", "failed"}

ServerOver == server \in {"ended", "failed"}

\* The select, or the wait after a signal, got the server's result.
MainReturns ==
    /\ gw \in {"serving", "draining"}
    /\ ServerOver
    /\ gw' = "returning"
    /\ status' = IF server = "failed" THEN "failure" ELSE "success"
    /\ UNCHANGED <<config, server, conn, lives, writerVars>>

\* Plausible bug: an await between closing the body and recording it.
RunsToCompletion_not(s) == FALSE

\* From drop(tx) to the record the pump does not await anything that is not ready, so
\* a worker that is in there finishes before the runtime can stop it.
RunsToCompletion(s) == s.task = "closed"

CutAll == lives' = [r \in Record |-> CHOOSE t \in L!Cut(lives[r]) : TRUE]
CloseAll == conn' = [r \in Record |-> IF conn[r] = "none" THEN "none" ELSE "closed"]

\* The runtime is dropped when main has returned: tasks are dropped where they await,
\* with them the last handle of the audit writer.
RuntimeDrop ==
    /\ gw = "returning"
    /\ \A r \in Record : ~RunsToCompletion(lives[r])
    /\ gw' = "ending"
    /\ CutAll /\ CloseAll
    /\ W!drop_writer
    /\ UNCHANGED <<config, server, status>>

ProcessExit ==
    /\ gw = "ending"
    /\ gw' = "exited"
    /\ W!exit
    /\ UNCHANGED <<config, server, status, conn, lives>>

\* The process is killed, or a signal comes before the handlers are installed.
Kill ==
    /\ proc # "down"
    /\ Exits("killed")
    /\ CutAll /\ CloseAll
    /\ W!kill
    /\ UNCHANGED <<config, server>>

-----------------------------------------------------------------------------
(***************************************************************************)
(* Connections and requests                                                *)
(***************************************************************************)
Alive == gw \in {"bound", "serving", "draining", "returning"}

Connect(r) ==
    /\ Alive /\ server = "accepting"
    /\ conn[r] = "none"
    /\ conn' = [conn EXCEPT ![r] = "idle"]
    /\ UNCHANGED <<mainVars, lives, writerVars>>

\* A request arrives, possibly on a connection the server is about to close: it is
\* forwarded or answered on the spot.
Arrive(r, req) ==
    /\ Alive
    /\ conn[r] = "idle"
    /\ conn' = [conn EXCEPT ![r] = "busy"]
    /\ LET v == router(config.machine_keys, req)
       IN  lives' = [lives EXCEPT ![r] = IF v.status = "forward"
                                         THEN L!New(v.operation # "none") ELSE Nothing]
    /\ UNCHANGED <<mainVars, writerVars>>

\* The caller or the server closes a connection nothing is owed on.
CloseConn(r) ==
    /\ Alive
    /\ conn[r] \in {"idle", "busy"}
    /\ lives[r].peer # "waiting"
    /\ conn' = [conn EXCEPT ![r] = "closed"]
    /\ UNCHANGED <<mainVars, lives, writerVars>>

Move(r, states) ==
    /\ Alive
    /\ \E t \in states : lives' = [lives EXCEPT ![r] = t]
    /\ UNCHANGED <<mainVars, conn>>

Respond(r) == Move(r, L!Respond(lives[r])) /\ UNCHANGED writerVars
Abandon(r) == Move(r, L!Abandon(lives[r])) /\ UNCHANGED writerVars
EndStream(r) == Move(r, L!EndStream(lives[r])) /\ UNCHANGED writerVars
SeeEnd(r) == Move(r, L!SeeEnd(lives[r])) /\ UNCHANGED writerVars
Leave(r) == Move(r, L!Leave(lives[r])) /\ UNCHANGED writerVars

\* The record goes to the audit writer from within the request's own task.
Offer(r) == IF lives[r].metered THEN W!try_record(r) ELSE UNCHANGED writerVars

Refuse(r) == Move(r, L!Refuse(lives[r])) /\ Offer(r)
Finalize(r) == Move(r, L!Finalize(lives[r])) /\ Offer(r)

Warn(r) == W!warn_dropped(r) /\ UNCHANGED <<mainVars, conn, lives>>
write_loop == W!write_loop /\ UNCHANGED <<mainVars, conn, lives>>

-----------------------------------------------------------------------------
Main ==
    \/ \E f \in Files : LoadConfig(f)
    \/ OpenFails \/ build_gateway \/ BindFails \/ Bind \/ InstallHandlers
    \/ shutdown_signal \/ MainReturns \/ RuntimeDrop \/ ProcessExit

Server == ServerStops \/ ServerDrained \/ ServerFails

Caller(r) == Connect(r) \/ (\E req \in Inputs : Arrive(r, req)) \/ CloseConn(r)

Request(r) ==
    \/ Respond(r) \/ Refuse(r) \/ Abandon(r)
    \/ EndStream(r) \/ Finalize(r) \/ Warn(r)
    \/ SeeEnd(r) \/ Leave(r)

Next == Main \/ Server \/ Kill \/ write_loop \/ \E r \in Record : Caller(r) \/ Request(r)

Spec == Init /\ [][Next]_vars

\* The runtime polls every task that can run.
RuntimeScheduled ==
    /\ WF_vars(ServerStops) /\ WF_vars(ServerDrained) /\ WF_vars(MainReturns)
    /\ WF_vars(RuntimeDrop) /\ WF_vars(ProcessExit)
    /\ \A r \in Record : WF_vars(Finalize(r)) /\ WF_vars(Warn(r))

\* Upstreams answer and end, callers read their answers, and a server that stops
\* closes the connections nothing is owed on.
RequestsEnd ==
    \A r \in Record :
        /\ WF_vars(Respond(r) \/ Refuse(r))
        /\ WF_vars(EndStream(r))
        /\ WF_vars(SeeEnd(r))
        /\ WF_vars(server = "stopping" /\ CloseConn(r))

\* Nothing is assumed of the writer thread: the file system may never answer.
FairSpec == Spec /\ RuntimeScheduled /\ RequestsEnd

-----------------------------------------------------------------------------
\* A process that reports success has cut nobody short: every request it took, even
\* one that came on a kept-alive connection after the signal, was answered to its end
\* or given up by its caller (main.rs, the wait for the server task).
NobodyIsCut ==
    status = "success" /\ gw \in {"ending", "exited"} =>
        \A r \in Record : lives[r].peer # "cut"

\* A metered caller that was told of the end of a body of unknown length, which is
\* every stream, has had its record offered when the process reports success, although
\* the pump task is detached and the runtime drops what is left of it: there is no
\* await between the end of the body and the record (lib.rs, drop(tx) to record_audit).
EndedIsOffered ==
    status = "success" /\ gw = "exited" =>
        \A r \in Record :
            lives[r].metered /\ lives[r].peer = "served" /\ ~lives[r].sized =>
                r \in ToSet(accepted) \cup dropped

\* Startup fails closed and shutdown keeps the order: no request is under way in a
\* process without an accepted configuration and a live audit writer (DESIGN.md 6).
FailClosed ==
    (\E r \in Record : lives[r].task \in {"sending", "pumping", "closed"}) =>
        config # Refused /\ proc = "up"

\* Runtime fail-open: a body that was closed is finalized and its task ends though the
\* queue is full and the writer thread never writes again (DESIGN.md 6, try_record).
FailOpen ==
    \A r \in Record : (lives[r].task = "closed") ~> (lives[r].task # "closed")

\* A shutdown signal ends the process once the requests under way have ended, even if
\* the file system is stuck and the writer thread with it (usage.rs, AuditWriter:
\* "so a stuck filesystem never hangs shutdown").
DrainEnds == (gw = "draining") ~> (gw = "exited")
=============================================================================
