---------------------------- MODULE GatewayProofs ----------------------------
(***************************************************************************)
(* Proofs about Gateway, for every set of connections, every set of        *)
(* configuration files and of requests, and every capacity of the queue.   *)
(***************************************************************************)
EXTENDS Gateway, TLAPS

(***************************************************************************)
(* The inductive invariant                                                 *)
(***************************************************************************)
Offered == ToSet(accepted) \cup dropped

GatewayTypes ==
    /\ gw \in {"down", "configured", "built", "bound", "serving", "draining",
               "returning", "ending", "exited"}
    /\ server \in {"none", "accepting", "stopping", "ended", "failed"}
    /\ status \in {"none", "success", "failure", "killed"}
    /\ conn \in [Record -> {"none", "idle", "busy", "closed"}]
    /\ lives \in [Record -> L!State]
    /\ caller \in [Record -> {"idle", "warn", "done"}] /\ accepted \in Seq(Record)

\* The writer lives from build_gateway to the drop of the runtime, connections from
\* the bind to that drop, and neither without an accepted configuration.
PhaseInv ==
    /\ gw \in {"down", "configured"} => proc = "down"
    /\ gw \in {"built", "bound", "serving", "draining", "returning"} => proc = "up"
    /\ gw = "ending" => proc = "draining"
    /\ gw = "exited" => proc = "down"
    /\ gw \notin {"down", "exited"} => config # Refused
    /\ gw \in {"down", "configured", "built"} =>
         server = "none" /\ \A r \in Record : conn[r] = "none"
    /\ server = "ended" => \A r \in Record : conn[r] \in {"none", "closed"}
    /\ status = "success" => server = "ended" /\ gw \in {"returning", "ending", "exited"}
    /\ status = "killed" => gw = "exited"

\* Nothing is owed on a connection that is closed or has had no request, and no task
\* runs outside of the life of the runtime.
ConnInv ==
    \A r \in Record :
        /\ conn[r] \in {"none", "idle"} => lives[r] = Nothing /\ caller[r] = "idle"
        /\ conn[r] = "closed" => lives[r].peer # "waiting"
        /\ ~Alive => lives[r].task \in {"over", "cut"}
        /\ Alive => lives[r].task # "cut"
        /\ lives[r].peer = "cut" => ~Alive /\ status # "success"

\* A caller is not told of the end of a stream before the body is closed; a request
\* that is over and was not given up has had its record offered, one that still runs
\* has not.
RecordInv ==
    \A r \in Record :
        /\ lives[r].task = "sending" => lives[r].peer = "waiting"
        /\ lives[r].task = "pumping" /\ lives[r].peer = "served" => lives[r].sized
        /\ lives[r].task = "cut" /\ lives[r].peer = "served" /\ ~lives[r].sized =>
             status = "killed"
        /\ lives[r].task \in {"sending", "pumping", "closed"} => caller[r] = "idle"
        /\ lives[r].metered /\ lives[r].task = "over" /\ lives[r].peer \in {"waiting", "served"} =>
             r \in Offered

GatewayInv == GatewayTypes /\ PhaseInv /\ ConnInv /\ RecordInv

-----------------------------------------------------------------------------
(***************************************************************************)
(* The audit writer inside the gateway                                     *)
(***************************************************************************)

\* Whatever the gateway does to its audit writer is a step of AuditWriter: it starts
\* it once, requests offer their records one by one, the thread runs on its own, and
\* the writer is dropped, exits or is killed with the process (main.rs, run_gateway).
LEMMA WriterStep == [Next]_vars => [W!Next]_(W!vars)
<1> SUFFICES ASSUME [Next]_vars, ~UNCHANGED writerVars PROVE W!Next
  BY DEF writerVars, W!vars
<1> USE DEF W!Next, W!Process, W!Callers
<1>1. CASE build_gateway
  BY <1>1 DEF build_gateway
<1>2. CASE RuntimeDrop
  BY <1>2 DEF RuntimeDrop
<1>3. CASE ProcessExit
  BY <1>3 DEF ProcessExit
<1>4. CASE Kill
  BY <1>4 DEF Kill
<1>5. CASE write_loop
  BY <1>5 DEF write_loop
<1>6. ASSUME NEW r \in Record, Offer(r) PROVE W!Next
  BY <1>6 DEF Offer
<1>7. ASSUME NEW r \in Record, Warn(r) PROVE W!Next
  BY <1>7 DEF Warn
<1>8. CASE UNCHANGED vars
  BY <1>8 DEF vars
<1> QED
  BY <1>1, <1>2, <1>3, <1>4, <1>5, <1>6, <1>7, <1>8
  DEF Next, Main, Server, Caller, Request, LoadConfig, OpenFails, BindFails, Bind,
      InstallHandlers, shutdown_signal, MainReturns, ServerStops, ServerDrained, ServerFails,
      Connect, Arrive, CloseConn, Respond, Refuse, Abandon, EndStream, Finalize, SeeEnd,
      Leave

\* The gateway implements AuditWriter: main and the requests use the audit writer only
\* as it allows, and all that is proved of it holds inside the gateway.
THEOREM WriterRefinement == Spec => W!Spec
<1>1. Init => W!Init
  BY DEF Init
<1> QED BY <1>1, WriterStep, PTL DEF Spec, W!Spec

-----------------------------------------------------------------------------
(***************************************************************************)
(* Requests                                                                *)
(***************************************************************************)

\* A record that was offered stays offered: what the writer took or refused is never
\* taken back.
LEMMA OfferedStays ==
    ASSUME accepted \in Seq(Record), [W!Next]_(W!vars)
    PROVE  accepted' \in Seq(Record) /\ Offered \subseteq Offered'
<1>1. CASE UNCHANGED <<accepted, dropped>>
  BY <1>1 DEF Offered
<1>2. ASSUME NEW r \in Record, W!try_record(r)
      PROVE  accepted' \in Seq(Record) /\ Offered \subseteq Offered'
  <2>1. CASE W!HasRoom
    <3>1. accepted' = Append(accepted, r) /\ dropped' = dropped
      BY <1>2, <2>1 DEF W!try_record
    <3> QED BY <3>1 DEF Offered, ToSet
  <2>2. CASE ~W!HasRoom
    <3>1. accepted' = accepted /\ dropped' = dropped \cup {r}
      BY <1>2, <2>2 DEF W!try_record
    <3> QED BY <3>1 DEF Offered
  <2> QED BY <2>1, <2>2
<1> QED
  BY <1>1, <1>2
  DEF W!Next, W!vars, W!Callers, W!Process, W!write_loop, W!warn_dropped, W!write_loop_recv,
      W!write_some, W!write_fail, W!start, W!drop_writer, W!exit, W!kill, W!Die

\* try_record: the record is offered, and only its own caller moves.
LEMMA TryRecord ==
    ASSUME NEW r \in Record, W!try_record(r), accepted \in Seq(Record),
           caller \in [Record -> {"idle", "warn", "done"}]
    PROVE  /\ r \in Offered' /\ proc' = proc
           /\ caller' \in [Record -> {"idle", "warn", "done"}]
           /\ \A s \in Record : s # r => caller'[s] = caller[s]
<1>1. CASE W!HasRoom
  <2>1. accepted' = Append(accepted, r)
    BY <1>1 DEF W!try_record
  <2>2. Append(accepted, r)[Len(accepted) + 1] = r /\ Len(accepted) + 1 \in DOMAIN Append(accepted, r)
    OBVIOUS
  <2>3. r \in Offered'
    BY <2>1, <2>2 DEF Offered, ToSet
  <2> QED BY <1>1, <2>3 DEF W!try_record, W!procVars
<1>2. CASE ~W!HasRoom
  BY <1>2 DEF W!try_record, W!procVars, Offered
<1> QED BY <1>1, <1>2

\* The state in which a request is left when the process ends: a task that is not over
\* is cut, and so is a caller that waits.
LEMMA CutShape ==
    ASSUME GatewayTypes, CutAll
    PROVE  /\ lives' \in [Record -> L!State]
           /\ \A r \in Record :
                /\ lives'[r].metered = lives[r].metered /\ lives'[r].sized = lives[r].sized
                /\ lives'[r].task = IF lives[r].task = "over" THEN "over" ELSE "cut"
                /\ lives'[r].peer = IF lives[r].peer = "waiting" THEN "cut" ELSE lives[r].peer
                /\ lives[r] = Nothing => lives'[r] = Nothing
<1>1. ASSUME NEW s \in L!State
      PROVE  LET t == CHOOSE t \in L!Cut(s) : TRUE
             IN  /\ t \in L!State /\ t.metered = s.metered /\ t.sized = s.sized
                 /\ t.task = IF s.task = "over" THEN "over" ELSE "cut"
                 /\ t.peer = IF s.peer = "waiting" THEN "cut" ELSE s.peer
                 /\ s = Nothing => t = Nothing
  <2> DEFINE c == L!At(s, IF s.task = "over" THEN "over" ELSE "cut",
                       IF s.peer = "waiting" THEN "cut" ELSE s.peer, s.attempts)
  <2>1. (CHOOSE t \in L!Cut(s) : TRUE) = c
    BY DEF L!Cut
  <2>2. c \in L!State
    BY DEF L!State, L!At, L!Task, L!Peer
  <2>3. /\ c.metered = s.metered /\ c.sized = s.sized
        /\ c.task = IF s.task = "over" THEN "over" ELSE "cut"
        /\ c.peer = IF s.peer = "waiting" THEN "cut" ELSE s.peer
    BY DEF L!At
  <2>4. s = Nothing => c = Nothing
    BY DEF L!At, L!New, Nothing
  <2> HIDE DEF c
  <2> QED BY <2>1, <2>2, <2>3, <2>4
<1>2. \A r \in Record : lives[r] \in L!State
  BY DEF GatewayTypes
<1> QED BY <1>1, <1>2 DEF CutAll

\* A request moves to t, with or without offering its record: the invariant is kept if
\* t by itself agrees with it.
LEMMA MoveKeeps ==
    ASSUME GatewayInv, NEW r \in Record, NEW t \in L!State, Alive,
           lives' = [lives EXCEPT ![r] = t], UNCHANGED <<mainVars, conn, proc>>,
           accepted' \in Seq(Record), Offered \subseteq Offered',
           caller' \in [Record -> {"idle", "warn", "done"}],
           \A s \in Record : s # r => caller'[s] = caller[s],
           conn[r] \notin {"none", "idle"},
           t.peer = "waiting" => lives[r].peer = "waiting",
           t.task # "cut", t.peer # "cut",
           t.task = "sending" => t.peer = "waiting",
           t.task = "pumping" /\ t.peer = "served" => t.sized,
           t.task \in {"sending", "pumping", "closed"} => caller'[r] = "idle",
           t.metered /\ t.task = "over" /\ t.peer \in {"waiting", "served"} => r \in Offered'
    PROVE  GatewayInv'
<1> USE DEF GatewayInv, mainVars
<1>1. lives'[r] = t /\ \A s \in Record : s # r => lives'[s] = lives[s]
  BY DEF GatewayTypes
<1>2. GatewayTypes'
  BY DEF GatewayTypes
<1>3. PhaseInv'
  BY DEF PhaseInv
<1>4. Alive' <=> Alive
  BY DEF Alive
<1>5. ConnInv'
  <2> SUFFICES ASSUME NEW s \in Record
               PROVE  /\ conn'[s] \in {"none", "idle"} => lives'[s] = Nothing /\ caller'[s] = "idle"
                      /\ conn'[s] = "closed" => lives'[s].peer # "waiting"
                      /\ ~Alive' => lives'[s].task \in {"over", "cut"}
                      /\ Alive' => lives'[s].task # "cut"
                      /\ lives'[s].peer = "cut" => ~Alive' /\ status' # "success"
    BY DEF ConnInv, Nothing, L!At, L!New
  <2>1. CASE s = r
    BY <2>1, <1>1, <1>4 DEF ConnInv
  <2>2. CASE s # r
    BY <2>2, <1>1, <1>4 DEF ConnInv
  <2> QED BY <2>1, <2>2
<1>6. RecordInv'
  <2> SUFFICES ASSUME NEW s \in Record
               PROVE  /\ lives'[s].task = "sending" => lives'[s].peer = "waiting"
                      /\ lives'[s].task = "pumping" /\ lives'[s].peer = "served" => lives'[s].sized
                      /\ lives'[s].task = "cut" /\ lives'[s].peer = "served" /\ ~lives'[s].sized =>
                           status' = "killed"
                      /\ lives'[s].task \in {"sending", "pumping", "closed"} => caller'[s] = "idle"
                      /\ lives'[s].metered /\ lives'[s].task = "over"
                           /\ lives'[s].peer \in {"waiting", "served"} => s \in Offered'
    BY DEF RecordInv
  <2>1. CASE s = r
    BY <2>1, <1>1
  <2>2. CASE s # r
    BY <2>2, <1>1 DEF RecordInv
  <2> QED BY <2>1, <2>2
<1> QED BY <1>2, <1>3, <1>5, <1>6

\* The steps of a request keep the invariant.
LEMMA RequestStep ==
    ASSUME GatewayInv, NEW r \in Record, Request(r), [W!Next]_(W!vars)
    PROVE  GatewayInv'
<1>0. /\ lives[r] \in L!State /\ accepted \in Seq(Record)
      /\ caller \in [Record -> {"idle", "warn", "done"}]
  BY DEF GatewayInv, GatewayTypes
<1>1. accepted' \in Seq(Record) /\ Offered \subseteq Offered'
  BY <1>0, OfferedStays
<1>2. lives[r].task # "over" \/ lives[r].peer = "waiting" => conn[r] \notin {"none", "idle"}
  BY DEF GatewayInv, ConnInv, Nothing, L!At, L!New
<1>3. ASSUME UNCHANGED writerVars
      PROVE  /\ caller' = caller /\ proc' = proc
             /\ caller' \in [Record -> {"idle", "warn", "done"}]
             /\ \A s \in Record : s # r => caller'[s] = caller[s]
  BY <1>0, <1>3 DEF writerVars
<1>4. CASE Respond(r)
  <2>1. PICK sized \in BOOLEAN :
            lives' = [lives EXCEPT ![r] =
                [L!At(lives[r], "pumping", lives[r].peer, lives[r].attempts) EXCEPT !.sized = sized]]
    BY <1>4 DEF Respond, Move, L!Respond, L!When
  <2>2. /\ lives[r].task = "sending" /\ lives[r].peer = "waiting" /\ caller[r] = "idle"
        /\ Alive /\ UNCHANGED <<mainVars, conn, writerVars>>
    BY <1>4 DEF Respond, Move, L!Respond, L!When, GatewayInv, RecordInv
  <2> DEFINE t == [L!At(lives[r], "pumping", lives[r].peer, lives[r].attempts)
                     EXCEPT !.sized = sized]
  <2>3. t \in L!State /\ t.task = "pumping" /\ t.peer = "waiting"
    BY <1>0, <2>2 DEF L!At, L!State, L!Task, L!Peer
  <2> HIDE DEF t
  <2>4. lives' = [lives EXCEPT ![r] = t]
    BY <2>1 DEF t
  <2> QED BY <1>1, <1>2, <1>3, <2>2, <2>3, <2>4, MoveKeeps
<1>5. CASE Abandon(r)
  <2> DEFINE t == L!At(lives[r], "over", "left", lives[r].attempts)
  <2>1. /\ lives' = [lives EXCEPT ![r] = t] /\ lives[r].task = "sending"
        /\ Alive /\ UNCHANGED <<mainVars, conn, writerVars>>
    BY <1>5 DEF Abandon, Move, L!Abandon, L!When
  <2>2. t \in L!State /\ t.task = "over" /\ t.peer = "left"
    BY <1>0 DEF L!At, L!State, L!Task, L!Peer
  <2> HIDE DEF t
  <2> QED BY <1>1, <1>2, <1>3, <2>1, <2>2, MoveKeeps
<1>6. CASE EndStream(r)
  <2> DEFINE t == L!At(lives[r], "closed", lives[r].peer, lives[r].attempts)
  <2>1. /\ lives' = [lives EXCEPT ![r] = t] /\ lives[r].task = "pumping"
        /\ Alive /\ UNCHANGED <<mainVars, conn, writerVars>>
    BY <1>6 DEF EndStream, Move, L!EndStream, L!When
  <2>2. t \in L!State /\ t.task = "closed" /\ t.peer = lives[r].peer
    BY <1>0 DEF L!At, L!State, L!Task, L!Peer
  <2>3. lives[r].peer # "cut" /\ caller[r] = "idle"
    BY <2>1 DEF GatewayInv, ConnInv, RecordInv
  <2> HIDE DEF t
  <2> QED BY <1>1, <1>2, <1>3, <2>1, <2>2, <2>3, MoveKeeps
<1>7. CASE SeeEnd(r)
  <2> DEFINE t == L!At(lives[r], lives[r].task, "served", lives[r].attempts)
  <2>1. /\ lives' = [lives EXCEPT ![r] = t] /\ lives[r].peer = "waiting"
        /\ lives[r].task \in {"closed", "over"} \/ (lives[r].task = "pumping" /\ lives[r].sized)
        /\ Alive /\ UNCHANGED <<mainVars, conn, writerVars>>
    BY <1>7 DEF SeeEnd, Move, L!SeeEnd, L!When
  <2>2. /\ t \in L!State /\ t.task = lives[r].task /\ t.peer = "served"
        /\ t.sized = lives[r].sized /\ t.metered = lives[r].metered
    BY <1>0 DEF L!At, L!State, L!Task, L!Peer
  <2>3. /\ lives[r].task \in {"sending", "pumping", "closed"} => caller[r] = "idle"
        /\ lives[r].metered /\ lives[r].task = "over" => r \in Offered
    BY <2>1 DEF GatewayInv, RecordInv
  <2> HIDE DEF t
  <2> QED BY <1>1, <1>2, <1>3, <2>1, <2>2, <2>3, MoveKeeps
<1>8. CASE Leave(r)
  <2> DEFINE t == L!At(lives[r], lives[r].task, "left", lives[r].attempts)
  <2>1. /\ lives' = [lives EXCEPT ![r] = t] /\ lives[r].peer = "waiting"
        /\ lives[r].task \in {"pumping", "closed", "over"}
        /\ Alive /\ UNCHANGED <<mainVars, conn, writerVars>>
    BY <1>8 DEF Leave, Move, L!Leave, L!When
  <2>2. t \in L!State /\ t.task = lives[r].task /\ t.peer = "left"
    BY <1>0 DEF L!At, L!State, L!Task, L!Peer
  <2>3. lives[r].task \in {"sending", "pumping", "closed"} => caller[r] = "idle"
    BY <2>1 DEF GatewayInv, RecordInv
  <2> HIDE DEF t
  <2> QED BY <1>1, <1>2, <1>3, <2>1, <2>2, <2>3, MoveKeeps
<1>9. ASSUME Offer(r)
      PROVE  /\ lives[r].metered => r \in Offered'
             /\ proc' = proc /\ caller' \in [Record -> {"idle", "warn", "done"}]
             /\ \A s \in Record : s # r => caller'[s] = caller[s]
  BY <1>0, <1>3, <1>9, TryRecord DEF Offer
<1>10. CASE Refuse(r)
  <2> DEFINE t == L!At(lives[r], "over", "served", L!Attempted(lives[r]))
  <2>1. /\ lives' = [lives EXCEPT ![r] = t] /\ lives[r].task = "sending"
        /\ Alive /\ UNCHANGED <<mainVars, conn>> /\ Offer(r)
    BY <1>10 DEF Refuse, Move, L!Refuse, L!When
  <2>2. t \in L!State /\ t.task = "over" /\ t.peer = "served" /\ t.metered = lives[r].metered
    BY <1>0 DEF L!At, L!State, L!Task, L!Peer, L!Attempted
  <2> HIDE DEF t
  <2> QED BY <1>1, <1>2, <1>9, <2>1, <2>2, MoveKeeps
<1>11. CASE Finalize(r)
  <2> DEFINE t == L!At(lives[r], "over", lives[r].peer, L!Attempted(lives[r]))
  <2>1. /\ lives' = [lives EXCEPT ![r] = t] /\ lives[r].task = "closed"
        /\ Alive /\ UNCHANGED <<mainVars, conn>> /\ Offer(r)
    BY <1>11 DEF Finalize, Move, L!Finalize, L!When
  <2>2. /\ t \in L!State /\ t.task = "over" /\ t.peer = lives[r].peer
        /\ t.metered = lives[r].metered
    BY <1>0 DEF L!At, L!State, L!Task, L!Peer, L!Attempted
  <2>3. lives[r].peer # "cut"
    BY <2>1 DEF GatewayInv, ConnInv
  <2> HIDE DEF t
  <2> QED BY <1>1, <1>2, <1>9, <2>1, <2>2, <2>3, MoveKeeps
<1>12. CASE Warn(r)
  <2>1. /\ caller[r] = "warn" /\ caller' = [caller EXCEPT ![r] = "done"] /\ proc' = proc
        /\ UNCHANGED <<gw, config, server, status, conn, lives>>
    BY <1>12 DEF Warn, W!warn_dropped, W!procVars, mainVars
  <2>2. \A s \in Record : caller[s] = "idle" => caller'[s] = "idle"
    BY <1>0, <2>1
  <2>3. GatewayTypes'
    BY <1>1, <2>1 DEF GatewayInv, GatewayTypes
  <2>4. PhaseInv'
    BY <2>1 DEF GatewayInv, PhaseInv
  <2>5. ConnInv'
    BY <2>1, <2>2 DEF GatewayInv, ConnInv, Alive, Nothing, L!At, L!New
  <2>6. RecordInv'
    BY <1>1, <2>1, <2>2 DEF GatewayInv, RecordInv
  <2> QED BY <2>3, <2>4, <2>5, <2>6 DEF GatewayInv
<1> QED BY <1>4, <1>5, <1>6, <1>7, <1>8, <1>10, <1>11, <1>12 DEF Request

-----------------------------------------------------------------------------
(***************************************************************************)
(* Connections, the server and main                                        *)
(***************************************************************************)

\* The steps of connections keep the invariant: only a connection that is open brings a
\* request, and none is closed while its caller waits.
LEMMA CallerStep ==
    ASSUME GatewayInv, NEW r \in Record, Caller(r)
    PROVE  GatewayInv'
<1>1. UNCHANGED <<gw, config, server, status, proc, caller, accepted, dropped>> /\ Alive
  BY DEF Caller, Connect, Arrive, CloseConn, mainVars, writerVars
<1>2. Offered' = Offered /\ (Alive' <=> Alive)
  BY <1>1 DEF Offered, Alive
<1> USE DEF GatewayInv
<1>3. CASE Connect(r)
  <2>1. /\ server = "accepting" /\ conn[r] = "none" /\ lives' = lives
        /\ conn' = [conn EXCEPT ![r] = "idle"]
    BY <1>3 DEF Connect
  <2>2. GatewayTypes' /\ PhaseInv'
    BY <1>1, <2>1 DEF GatewayTypes, PhaseInv, Alive
  <2>3. ConnInv'
    BY <1>1, <1>2, <2>1 DEF ConnInv, GatewayTypes, Nothing, L!At, L!New
  <2>4. RecordInv'
    BY <1>1, <1>2, <2>1 DEF RecordInv
  <2> QED BY <2>2, <2>3, <2>4
<1>4. ASSUME NEW req \in Inputs, Arrive(r, req) PROVE GatewayInv'
  <2>1. PICK t \in {L!New(TRUE), L!New(FALSE), Nothing} : lives' = [lives EXCEPT ![r] = t]
    <3>1. PICK v : v = router(config.machine_keys, req)
      OBVIOUS
    <3>2. lives' = [lives EXCEPT ![r] = IF v.status = "forward"
                                        THEN L!New(v.operation # "none") ELSE Nothing]
      BY <1>4, <3>1 DEF Arrive
    <3>3. L!New(v.operation # "none") \in {L!New(TRUE), L!New(FALSE)}
      BY DEF L!New
    <3> QED BY <3>2, <3>3
  <2>2. conn[r] = "idle" /\ conn' = [conn EXCEPT ![r] = "busy"]
    BY <1>4 DEF Arrive
  <2>3. /\ t \in L!State /\ t.task \in {"sending", "over"} /\ t.peer \in {"waiting", "served"}
        /\ t.task = "sending" => t.peer = "waiting"
        /\ t.task = "over" => ~t.metered
    <3> USE DEF L!New, L!At, L!State, L!Task, L!Peer, Nothing
    <3>1. CASE t = L!New(TRUE)
      BY <3>1
    <3>2. CASE t = L!New(FALSE)
      BY <3>2
    <3>3. CASE t = Nothing
      BY <3>3
    <3> QED BY <3>1, <3>2, <3>3
  <2>4. /\ lives'[r] = t /\ conn'[r] = "busy" /\ caller[r] = "idle"
        /\ \A s \in Record : s # r => lives'[s] = lives[s] /\ conn'[s] = conn[s]
    BY <2>1, <2>2 DEF GatewayTypes, ConnInv
  <2>5. GatewayTypes' /\ PhaseInv'
    <3>1. GatewayTypes'
      BY <1>1, <2>1, <2>2, <2>3 DEF GatewayTypes
    <3>2. PhaseInv'
      BY <1>1, <2>2, <2>4 DEF PhaseInv, Alive
    <3> QED BY <3>1, <3>2
  <2>6. ASSUME NEW s \in Record
        PROVE  /\ conn'[s] \in {"none", "idle"} => lives'[s] = Nothing /\ caller'[s] = "idle"
               /\ conn'[s] = "closed" => lives'[s].peer # "waiting"
               /\ ~Alive' => lives'[s].task \in {"over", "cut"}
               /\ Alive' => lives'[s].task # "cut"
               /\ lives'[s].peer = "cut" => ~Alive' /\ status' # "success"
    BY <1>1, <1>2, <2>3, <2>4 DEF ConnInv
  <2>7. ASSUME NEW s \in Record
        PROVE  /\ lives'[s].task = "sending" => lives'[s].peer = "waiting"
               /\ lives'[s].task = "pumping" /\ lives'[s].peer = "served" => lives'[s].sized
               /\ lives'[s].task = "cut" /\ lives'[s].peer = "served" /\ ~lives'[s].sized =>
                    status' = "killed"
               /\ lives'[s].task \in {"sending", "pumping", "closed"} => caller'[s] = "idle"
               /\ lives'[s].metered /\ lives'[s].task = "over"
                    /\ lives'[s].peer \in {"waiting", "served"} => s \in Offered'
    BY <1>1, <1>2, <2>3, <2>4 DEF RecordInv
  <2>8. ConnInv'
    BY <2>6 DEF ConnInv, Nothing, L!At, L!New
  <2>9. RecordInv'
    BY <2>7 DEF RecordInv
  <2> QED BY <2>5, <2>8, <2>9
<1>5. CASE CloseConn(r)
  <2>1. /\ conn[r] \in {"idle", "busy"} /\ lives[r].peer # "waiting" /\ lives' = lives
        /\ conn' = [conn EXCEPT ![r] = "closed"]
    BY <1>5 DEF CloseConn
  <2>2. GatewayTypes' /\ PhaseInv'
    BY <1>1, <2>1 DEF GatewayTypes, PhaseInv, Alive
  <2>3. ConnInv'
    BY <1>1, <1>2, <2>1 DEF ConnInv, GatewayTypes, Nothing, L!At, L!New
  <2>4. RecordInv'
    BY <1>1, <1>2, <2>1 DEF RecordInv
  <2> QED BY <2>2, <2>3, <2>4
<1> QED BY <1>3, <1>4, <1>5 DEF Caller

\* Startup, the shutdown signal and the server task keep the invariant; none of them
\* touches a request.
LEMMA ControlStep ==
    ASSUME GatewayInv,
           (\E f \in Files : LoadConfig(f)) \/ OpenFails \/ build_gateway \/ BindFails \/ Bind
             \/ InstallHandlers \/ shutdown_signal \/ MainReturns \/ Server
    PROVE  GatewayInv'
<1>1. UNCHANGED <<conn, lives, caller, accepted, dropped>>
  BY DEF LoadConfig, OpenFails, build_gateway, BindFails, Bind, InstallHandlers,
         shutdown_signal, MainReturns, Server, ServerStops, ServerDrained, ServerFails,
         writerVars, W!start
<1>2. Offered' = Offered
  BY <1>1 DEF Offered
<1> USE DEF GatewayInv
<1>3. GatewayTypes'
  BY <1>1 DEF GatewayTypes, LoadConfig, OpenFails, build_gateway, BindFails, Bind, Exits,
              InstallHandlers, shutdown_signal, MainReturns, Server, ServerStops,
              ServerDrained, ServerFails
<1>4. PhaseInv'
  BY <1>1 DEF GatewayTypes, PhaseInv, LoadConfig, OpenFails, build_gateway, BindFails, Bind,
              Exits, ReadyToBind, InstallHandlers, shutdown_signal, MainReturns, ServerOver,
              Server, ServerStops, ServerDrained, ServerFails, writerVars, W!start
<1>5. /\ status = "killed" => status' = "killed"
      /\ (status' = "success" => status = "success") \/ MainReturns
  BY DEF PhaseInv, GatewayTypes, LoadConfig, OpenFails, build_gateway, BindFails, Bind, Exits,
         InstallHandlers, shutdown_signal, MainReturns, Server, ServerStops, ServerDrained,
         ServerFails
<1>6. (Alive => Alive') /\ (Alive' => Alive \/ gw = "built")
  BY DEF Alive, LoadConfig, OpenFails, build_gateway, BindFails, Bind, Exits, ReadyToBind,
         InstallHandlers, shutdown_signal, MainReturns, Server, ServerStops, ServerDrained,
         ServerFails
<1>7. MainReturns => Alive
  BY DEF MainReturns, Alive
<1>8. gw = "built" => \A r \in Record : lives[r].task = "over" /\ lives[r].peer = "served"
  BY DEF PhaseInv, ConnInv, Nothing, L!At, L!New
<1>9. ConnInv'
  <2> SUFFICES ASSUME NEW r \in Record
               PROVE  /\ conn'[r] \in {"none", "idle"} => lives'[r] = Nothing /\ caller'[r] = "idle"
                      /\ conn'[r] = "closed" => lives'[r].peer # "waiting"
                      /\ ~Alive' => lives'[r].task \in {"over", "cut"}
                      /\ Alive' => lives'[r].task # "cut"
                      /\ lives'[r].peer = "cut" => ~Alive' /\ status' # "success"
    BY DEF ConnInv, Nothing, L!At, L!New
  <2> QED BY <1>1, <1>5, <1>6, <1>7, <1>8 DEF ConnInv
<1>10. RecordInv'
  BY <1>1, <1>2, <1>5 DEF RecordInv
<1> QED BY <1>3, <1>4, <1>9, <1>10

\* The end of the process keeps the invariant, whether main returned or it was killed:
\* requests under way are cut, and only a process that fails or dies cuts any.
LEMMA EndStep ==
    ASSUME GatewayInv, RuntimeDrop \/ ProcessExit \/ Kill
    PROVE  GatewayInv'
<1> USE DEF GatewayInv
<1>1. accepted' = accepted /\ dropped' = dropped /\ Offered' = Offered
  BY DEF RuntimeDrop, ProcessExit, Kill, W!drop_writer, W!exit, W!kill, W!Die, Offered
<1>2. \A r \in Record : caller[r] = "idle" => caller'[r] = "idle"
  BY DEF RuntimeDrop, ProcessExit, Kill, W!drop_writer, W!exit, W!kill
<1>3. caller' \in [Record -> {"idle", "warn", "done"}]
  BY DEF RuntimeDrop, ProcessExit, Kill, W!drop_writer, W!exit, W!kill, GatewayTypes
<1>4. CASE ProcessExit
  <2>1. /\ gw = "ending" /\ gw' = "exited" /\ proc' = "down"
        /\ UNCHANGED <<config, server, status, conn, lives>>
    BY <1>4 DEF ProcessExit, W!exit, W!Die
  <2>2. GatewayTypes' /\ PhaseInv'
    BY <1>1, <1>3, <2>1 DEF GatewayTypes, PhaseInv
  <2>3. ConnInv'
    BY <1>2, <2>1 DEF ConnInv, Alive, Nothing, L!At, L!New
  <2>4. RecordInv'
    BY <1>1, <1>2, <2>1 DEF RecordInv
  <2> QED BY <2>2, <2>3, <2>4
<1>5. CASE RuntimeDrop \/ Kill
  <2>1. /\ CutAll /\ CloseAll /\ UNCHANGED <<config, server>> /\ ~Alive'
        /\ gw' \in {"ending", "exited"}
    BY <1>5 DEF RuntimeDrop, Kill, Exits, Alive
  <2>2. \/ RuntimeDrop /\ gw = "returning" /\ gw' = "ending" /\ proc' = "draining" /\ status' = status
        \/ gw' = "exited" /\ proc' = "down" /\ status' = "killed" /\ proc # "down"
    BY <1>5 DEF RuntimeDrop, Kill, Exits, W!drop_writer, W!kill, W!Die
  <2>3. /\ conn' \in [Record -> {"none", "idle", "busy", "closed"}]
        /\ \A r \in Record : conn'[r] = IF conn[r] = "none" THEN "none" ELSE "closed"
    BY <2>1 DEF CloseAll, GatewayTypes
  <2>4. /\ lives' \in [Record -> L!State]
        /\ \A r \in Record :
             /\ lives'[r].metered = lives[r].metered /\ lives'[r].sized = lives[r].sized
             /\ lives'[r].task = IF lives[r].task = "over" THEN "over" ELSE "cut"
             /\ lives'[r].peer = IF lives[r].peer = "waiting" THEN "cut" ELSE lives[r].peer
             /\ lives[r] = Nothing => lives'[r] = Nothing
    BY <2>1, CutShape
  <2>5. GatewayTypes'
    BY <1>1, <1>3, <2>1, <2>2, <2>3, <2>4 DEF GatewayTypes
  <2>6. PhaseInv'
    BY <2>1, <2>2, <2>3 DEF PhaseInv, GatewayTypes
  <2>7. ASSUME NEW r \in Record
        PROVE  /\ conn'[r] \in {"none", "idle"} => lives'[r] = Nothing /\ caller'[r] = "idle"
               /\ conn'[r] = "closed" => lives'[r].peer # "waiting"
               /\ ~Alive' => lives'[r].task \in {"over", "cut"}
               /\ Alive' => lives'[r].task # "cut"
               /\ lives'[r].peer = "cut" => ~Alive' /\ status' # "success"
    <3>1. conn'[r] \in {"none", "idle"} => lives'[r] = Nothing /\ caller'[r] = "idle"
      BY <1>2, <2>3, <2>4 DEF ConnInv
    <3>2. lives'[r].peer # "waiting" /\ lives'[r].task \in {"over", "cut"}
      BY <2>4
    <3>3. ASSUME status = "success" PROVE lives[r].peer # "waiting"
      BY <3>3 DEF PhaseInv, ConnInv, Nothing, L!At, L!New
    <3>4. lives'[r].peer = "cut" => status' # "success"
      BY <2>2, <2>4, <3>3 DEF ConnInv
    <3> QED BY <2>1, <3>1, <3>2, <3>4
  <2>8. ASSUME NEW r \in Record
        PROVE  /\ lives'[r].task = "sending" => lives'[r].peer = "waiting"
               /\ lives'[r].task = "pumping" /\ lives'[r].peer = "served" => lives'[r].sized
               /\ lives'[r].task = "cut" /\ lives'[r].peer = "served" /\ ~lives'[r].sized =>
                    status' = "killed"
               /\ lives'[r].task \in {"sending", "pumping", "closed"} => caller'[r] = "idle"
               /\ lives'[r].metered /\ lives'[r].task = "over"
                    /\ lives'[r].peer \in {"waiting", "served"} => r \in Offered'
    <3>1. lives'[r].task \in {"over", "cut"}
      BY <2>4
    <3>2. ASSUME lives'[r].task = "cut", lives'[r].peer = "served", ~lives'[r].sized
          PROVE  status' = "killed"
      <4>1. lives[r].task # "over" /\ lives[r].peer = "served" /\ ~lives[r].sized
        BY <2>4, <3>2
      <4>2. lives[r].task \in {"closed", "cut"}
        BY <4>1 DEF RecordInv, GatewayTypes, L!State, L!Task
      <4>3. CASE RuntimeDrop
        <5>1. Alive /\ lives[r].task # "closed"
          BY <4>3 DEF RuntimeDrop, RunsToCompletion, Alive
        <5> QED BY <4>2, <5>1 DEF ConnInv
      <4> QED BY <2>2, <4>3
    <3>3. ASSUME lives'[r].metered, lives'[r].task = "over", lives'[r].peer \in {"waiting", "served"}
          PROVE  r \in Offered'
      BY <1>1, <2>4, <3>3 DEF RecordInv
    <3> QED BY <3>1, <3>2, <3>3
  <2>9. ConnInv'
    BY <2>7 DEF ConnInv, Nothing, L!At, L!New
  <2>10. RecordInv'
    BY <2>8 DEF RecordInv
  <2> QED BY <2>5, <2>6, <2>9, <2>10
<1> QED BY <1>4, <1>5

-----------------------------------------------------------------------------
(***************************************************************************)
(* The theorems                                                            *)
(***************************************************************************)

\* No request has come yet and the writer is not started.
LEMMA InitInv == Init => GatewayInv
<1> SUFFICES ASSUME Init PROVE GatewayInv
  OBVIOUS
<1>1. Nothing \in L!State /\ Nothing.task = "over" /\ Nothing.peer = "served" /\ ~Nothing.metered
  BY DEF Nothing, L!At, L!New, L!State, L!Task, L!Peer
<1>2. accepted = <<>> /\ <<>> \in Seq(Record)
  BY DEF Init, W!Init
<1>3. GatewayTypes
  BY <1>1, <1>2 DEF Init, W!Init, GatewayTypes
<1>4. PhaseInv
  BY DEF Init, W!Init, PhaseInv
<1>5. ConnInv
  BY <1>1 DEF Init, W!Init, ConnInv, Alive
<1>6. RecordInv
  BY <1>1 DEF Init, RecordInv
<1> QED BY <1>3, <1>4, <1>5, <1>6 DEF GatewayInv

\* Every step of main, the server, a connection, a request or the writer thread keeps
\* the invariant.
LEMMA InvStep == GatewayInv /\ [Next]_vars => GatewayInv'
<1> SUFFICES ASSUME GatewayInv, [Next]_vars PROVE GatewayInv'
  OBVIOUS
<1>0. [W!Next]_(W!vars)
  BY WriterStep
<1>1. CASE UNCHANGED <<mainVars, conn, lives, proc, caller, accepted, dropped>>
  <2>1. UNCHANGED <<gw, config, server, status, conn, lives, proc, caller, accepted, dropped>>
    BY <1>1 DEF mainVars
  <2>2. GatewayTypes'
    BY <2>1 DEF GatewayInv, GatewayTypes
  <2>3. PhaseInv'
    BY <2>1 DEF GatewayInv, PhaseInv
  <2>4. ConnInv'
    BY <2>1 DEF GatewayInv, ConnInv, Alive, Nothing, L!At, L!New
  <2>5. RecordInv'
    BY <2>1 DEF GatewayInv, RecordInv, Offered
  <2> QED BY <2>2, <2>3, <2>4, <2>5 DEF GatewayInv
<1>2. ASSUME NEW r \in Record, Caller(r) PROVE GatewayInv'
  BY <1>2, CallerStep
<1>3. ASSUME NEW r \in Record, Request(r) PROVE GatewayInv'
  BY <1>0, <1>3, RequestStep
<1>4. CASE write_loop
  BY <1>1, <1>4 DEF write_loop, W!write_loop, W!write_loop_recv, W!write_some, W!write_fail,
                    W!procVars
<1>5. CASE Main \/ Server \/ Kill
  BY <1>5, ControlStep, EndStep DEF Main
<1>6. CASE UNCHANGED vars
  BY <1>1, <1>6 DEF vars, writerVars
<1> QED BY <1>2, <1>3, <1>4, <1>5, <1>6 DEF Next

\* The invariant of the gateway: what main, the server, the connections, the requests
\* and the writer know of each other, from startup to the end of the process.
THEOREM Invariance == Spec => []GatewayInv
  BY InitInv, InvStep, PTL DEF Spec

\* A process that reports success has cut no request short: the server task ends only
\* when all connections are closed, none is closed while its caller waits, and main
\* returns success only from the end of the server task (main.rs, run_gateway).
THEOREM NoCallerCut == Spec => []NobodyIsCut
<1>1. GatewayInv => NobodyIsCut
  BY DEF GatewayInv, ConnInv, NobodyIsCut
<1> QED BY <1>1, Invariance, PTL

\* A metered caller that saw the end of its stream has had its record offered when the
\* process reports success: the end is seen only once the body is closed, and the
\* runtime cannot drop the pump between that and the record (lib.rs, drop(tx) to
\* record_audit).
THEOREM StreamsAreRecorded == Spec => []EndedIsOffered
<1>1. ASSUME GatewayInv PROVE EndedIsOffered
  <2> SUFFICES ASSUME status = "success", gw = "exited", NEW r \in Record,
                      lives[r].metered, lives[r].peer = "served", ~lives[r].sized
               PROVE  r \in Offered
    BY DEF EndedIsOffered, Offered
  <2>1. lives[r].task \in {"over", "cut"}
    BY <1>1 DEF GatewayInv, ConnInv, Alive
  <2>2. lives[r].task # "cut"
    BY <1>1 DEF GatewayInv, RecordInv
  <2> QED BY <1>1, <2>1, <2>2 DEF GatewayInv, RecordInv
<1> QED BY <1>1, Invariance, PTL

\* No request is under way in a process without an accepted configuration and a live
\* audit writer, from the first connection to the drop of the runtime (main.rs,
\* run_gateway: the order of load, build_gateway and bind).
THEOREM ClosedByDefault == Spec => []FailClosed
<1>1. ASSUME GatewayInv PROVE FailClosed
  <2> SUFFICES ASSUME NEW r \in Record, lives[r].task \in {"sending", "pumping", "closed"}
               PROVE  config # Refused /\ proc = "up"
    BY DEF FailClosed
  <2>1. Alive
    BY <1>1 DEF GatewayInv, ConnInv
  <2> QED BY <1>1, <2>1 DEF GatewayInv, PhaseInv, Alive
<1> QED BY <1>1, Invariance, PTL

\* Nothing but the scheduler stands between a closed body and the end of its task:
\* its record was not offered yet, and the writer is there to take or to refuse it,
\* however full the queue is (usage.rs, try_record).
THEOREM NeverBlocked ==
    Spec => [](\A r \in Record :
                 lives[r].task = "closed" => Alive /\ proc = "up" /\ caller[r] = "idle")
<1>1. ASSUME GatewayInv
      PROVE  \A r \in Record :
               lives[r].task = "closed" => Alive /\ proc = "up" /\ caller[r] = "idle"
  BY <1>1 DEF GatewayInv, ConnInv, RecordInv, PhaseInv, Alive
<1> QED BY <1>1, Invariance, PTL
=============================================================================
