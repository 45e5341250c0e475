------------------------------- MODULE Relay --------------------------------
(***************************************************************************)
(* The life of one accepted request in debitmetre (src/src/lib.rs), from   *)
(* the moment the handler sends it upstream to its audit record.  Four     *)
(* actors interleave:                                                      *)
(*   - the handler: awaits the upstream's response head, then spawns the   *)
(*     pump and returns, or answers 502;                                   *)
(*   - the pump task: mirrors and forwards the response body through a     *)
(*     bounded channel, then finalizes the observer and records;           *)
(*   - the HTTP server (hyper), which polls the response body, writes it   *)
(*     to the caller and drops it when it is done or the caller is gone;   *)
(*   - the upstream, which also pulls the request body through the mirror  *)
(*     of the declared-effort observer.                                    *)
(* Bodies are sequences of chunks (see Observer).                          *)
(***************************************************************************)
EXTENDS Observer

CONSTANTS
    Chunk,          \* the chunks an upstream body can be made of
    Requests,       \* accepted requests: [metered, chunks, encoding, effort]
    Responses,      \* response heads: [success, framing, len, model]
    Capacity,       \* of the response channel: 16 in the code
    MaxChunks       \* bound: chunks per upstream body

ASSUME ChunkAssumption == \A c \in Chunk : c.events \in Seq(ToSet(c.events))
ASSUME CapacityAssumption == Capacity \in Nat \ {0}
ASSUME MaxChunksAssumption == MaxChunks \in Nat
ASSUME RequestsAssumption ==
    /\ Requests \subseteq [metered : BOOLEAN, chunks : Nat,
                           encoding : {"identity", "zstd", "unsupported"},
                           effort : STRING \cup {None}]
    /\ \A r \in Requests : r.chunks = 0 => r.effort = None
\* A response without a body (to HEAD, or a 204 or 304) is one of length 0: its body
\* yields nothing and is dropped without being polled.
ASSUME ResponsesAssumption ==
    /\ \A r \in Responses :
         /\ DOMAIN r = {"success", "framing", "len", "model"}
         /\ r.success \in BOOLEAN
         /\ r.framing \in {"chunked", "length"}
         /\ r.len \in Nat
    /\ None \notin Responses

VARIABLES
    request,    \* the accepted request, fixed for the whole lifecycle
    forwarded,  \* request chunks pulled by the upstream connection
    effort,     \* RequestEffort: chunks mirrored, whether parsed, the effort
    head,       \* the handler: "sending", then "ok", "err" or "dropped"
    resp,       \* the upstream's response head, None until it arrived
    pulled,     \* what the upstream stream has yielded to the pump
    upEnd,      \* how that stream ended: "open", "eof" or "error"
    pump,       \* the pump task: "none", "next", "send", "closed", "done"
    inhand,     \* the chunk the pump holds while it awaits room in the channel
    mirror,     \* StreamUsageParser: what was pushed
    outcome,    \* the pump's local `outcome`
    chan,       \* the response channel
    txOpen,     \* its sender is alive (held by the pump)
    rxOpen,     \* its receiver is alive (held by the response body)
    permit,     \* the permit stored in `client_gone`
    conn,       \* what the caller sees: "open", "complete", "truncated",
                \*   "gone" (it left) or "bad_gateway"
    received,   \* what the server took from the response body
    records     \* the records offered to the audit writer

reqVars == <<request, forwarded, effort>>
pumpVars == <<pulled, upEnd, pump, inhand, mirror, outcome>>
chanVars == <<chan, txOpen, rxOpen, permit>>
callerVars == <<conn, received>>
vars == <<request, forwarded, effort, head, resp, pulled, upEnd, pump, inhand,
          mirror, outcome, chan, txOpen, rxOpen, permit, conn, received, records>>

Init ==
    /\ request \in Requests
    /\ forwarded = 0
    /\ effort = [mirrored |-> 0, parsed |-> FALSE, value |-> None]
    /\ head = "sending"
    /\ resp = None
    /\ pulled = <<>> /\ upEnd = "open"
    /\ pump = "none" /\ inhand = <<>> /\ mirror = <<>>
    /\ outcome = "completed"
    /\ chan = <<>> /\ txOpen = FALSE /\ rxOpen = FALSE /\ permit = FALSE
    /\ conn = "open" /\ received = <<>>
    /\ records = <<>>

-----------------------------------------------------------------------------
(***************************************************************************)
(* The declared-effort observer (usage.rs, RequestEffort)                  *)
(***************************************************************************)

\* A part of the body that lacks some of the document neither decodes nor parses, so it
\* declares nothing.  Each chunk is taken to hold some of it: one that is nothing but
\* white space after the document would not be missed by the parser.
declared_effort_from(mirrored) ==
    IF request.encoding # "unsupported" /\ mirrored = request.chunks
    THEN request.effort ELSE None

observe(e) ==
    IF e.parsed THEN e
    ELSE [mirrored |-> e.mirrored + 1, parsed |-> FALSE, value |-> e.value]

\* Plausible bug: the fact is guessed from whatever part of the body came through.
finish_eager(e) == [mirrored |-> 0, parsed |-> TRUE, value |-> request.effort]

finish(e) ==
    IF e.parsed THEN e
    ELSE [mirrored |-> 0, parsed |-> TRUE, value |-> declared_effort_from(e.mirrored)]

\* The upstream connection polls RequestMirrorStream for the next request chunk;
\* it may go on doing so after the response head has arrived.
ForwardRequestChunk ==
    /\ head \in {"sending", "ok"}
    /\ conn # "gone"
    /\ forwarded < request.chunks
    /\ forwarded' = forwarded + 1
    /\ effort' = IF request.metered THEN observe(effort) ELSE effort
    /\ UNCHANGED <<request, head, resp, pumpVars, chanVars, callerVars, records>>

-----------------------------------------------------------------------------
(***************************************************************************)
(* The audit record (lib.rs, record_audit)                                 *)
(***************************************************************************)
RecordedOutcome(success, out, parsed) ==
    IF ~success THEN "upstream_error"
    ELSE IF out = "completed" /\ parsed.incomplete THEN "incomplete"
    ELSE IF out = "completed" /\ ~parsed.terminal_seen THEN "upstream_interrupted"
    ELSE out

\* A non-success response is never metered.
record_audit(head_, out, parsed, eff) ==
    [upstream_status |-> head_.success,
     outcome |-> RecordedOutcome(head_.success, out, parsed),
     audit |-> IF head_.success THEN parsed.audit
               ELSE [model |-> None, usage |-> None, quality |-> "unavailable",
                     metering_error |-> None],
     effort |-> eff]

TransportErrorRecord(eff) ==
    [upstream_status |-> None, outcome |-> "transport_error",
     audit |-> [model |-> None, usage |-> None, quality |-> "unavailable",
                metering_error |-> None],
     effort |-> eff]

-----------------------------------------------------------------------------
(***************************************************************************)
(* The handler (lib.rs, route_v1)                                          *)
(***************************************************************************)

\* send().await returned a response: the channel is made, the pump is spawned and
\* the response is returned, without an await in between.
SendOk(r) ==
    /\ head = "sending"
    /\ head' = "ok"
    /\ resp' = r
    /\ pump' = "next"
    /\ txOpen' = TRUE
    /\ rxOpen' = TRUE
    /\ UNCHANGED <<reqVars, pulled, upEnd, inhand, mirror, outcome, chan, permit,
                   callerVars, records>>

\* send().await failed: one transport_error record for a metered path, and 502.
SendErr ==
    /\ head = "sending"
    /\ head' = "err"
    /\ conn' = "bad_gateway"
    /\ IF request.metered
       THEN /\ effort' = finish(effort)
            /\ records' = Append(records, TransportErrorRecord(finish(effort).value))
       ELSE UNCHANGED <<effort, records>>
    /\ UNCHANGED <<request, forwarded, resp, pumpVars, chanVars, received>>

\* The caller left while the handler awaits the upstream: the server drops the
\* handler's future where it is suspended, and nothing after that await runs.
DropHandler ==
    /\ head = "sending"
    /\ head' = "dropped"
    /\ conn' = "gone"
    /\ UNCHANGED <<reqVars, resp, pumpVars, chanVars, received, records>>

-----------------------------------------------------------------------------
(***************************************************************************)
(* The pump task                                                           *)
(***************************************************************************)

\* The client stack enforces a declared length: the upstream stream yields exactly
\* that much before a clean end, and an early close is an error.
MoreExpected == resp.framing = "length" => Len(pulled) < resp.len

\* Plausible bug: a chunk is mirrored on the pass after it was sent.
Mirror_previous(c) ==
    IF pulled = <<>> \/ ~request.metered THEN mirror ELSE Append(mirror, Last(pulled))

\* parser.push, for the metered paths only
Mirror(c) == IF request.metered THEN Append(mirror, c) ELSE mirror

\* Plausible bug: the sender lives until the task ends.
Leave_keeps_sender(out) ==
    /\ pump' = "closed"
    /\ outcome' = out
    /\ inhand' = <<>>
    /\ UNCHANGED txOpen

\* Leaving the pump loop: the local outcome is settled and the sender dropped, with
\* no await in between; finalization comes after.
Leave(out) ==
    /\ pump' = "closed"
    /\ outcome' = out
    /\ inhand' = <<>>
    /\ txOpen' = FALSE

\* stream.next() yielded a chunk: it is mirrored, then offered to the channel.
PumpRecv(c) ==
    /\ pump = "next"
    /\ MoreExpected
    /\ Len(pulled) < MaxChunks
    /\ pulled' = Append(pulled, c)
    /\ mirror' = Mirror(c)
    /\ inhand' = <<c>>
    /\ pump' = "send"
    /\ UNCHANGED <<reqVars, head, resp, upEnd, outcome, chanVars, callerVars, records>>

\* Plausible bugs: an unbounded channel, and one that overwrites its oldest chunk.
HasRoom_always == TRUE
Sent_over_oldest == IF chan = <<>> THEN inhand ELSE Tail(chan) \o inhand

\* tx.send(..).await: waits for room, then the chunk is the channel's last.
HasRoom == Len(chan) < Capacity
Sent == chan \o inhand

PumpSend ==
    /\ pump = "send"
    /\ rxOpen
    /\ HasRoom
    /\ chan' = Sent
    /\ inhand' = <<>>
    /\ pump' = "next"
    /\ UNCHANGED <<reqVars, head, resp, pulled, upEnd, mirror, outcome,
                   txOpen, rxOpen, permit, callerVars, records>>

\* tx.send(..).await failed: the response body is gone.
PumpSendErr ==
    /\ pump = "send"
    /\ ~rxOpen
    /\ Leave("client_cancelled")
    /\ UNCHANGED <<reqVars, head, resp, pulled, upEnd, mirror, chan, rxOpen, permit,
                   callerVars, records>>

\* Plausible bug: the pump block owns the sender, so the caller can see the end of
\* the body before the select has seen the end of the pump.
PumpEof_early_drop ==
    /\ pump = "next"
    /\ resp.framing = "length" => Len(pulled) = resp.len
    /\ upEnd' = "eof"
    /\ IF txOpen THEN txOpen' = FALSE /\ UNCHANGED <<pump, outcome, inhand>>
                 ELSE Leave(outcome)
    /\ UNCHANGED <<reqVars, head, resp, pulled, mirror, chan, rxOpen, permit,
                   callerVars, records>>

\* stream.next() yielded None.
PumpEof ==
    /\ pump = "next"
    /\ resp.framing = "length" => Len(pulled) = resp.len
    /\ upEnd' = "eof"
    /\ Leave(outcome)
    /\ UNCHANGED <<reqVars, head, resp, pulled, mirror, chan, rxOpen, permit,
                   callerVars, records>>

\* Plausible bug: an error leaves the loop like a clean end.
InterruptedOutcome_unset == outcome

InterruptedOutcome == "upstream_interrupted"

\* stream.next() yielded an error.
PumpErr ==
    /\ pump = "next"
    /\ MoreExpected
    /\ upEnd' = "error"
    /\ Leave(InterruptedOutcome)
    /\ UNCHANGED <<reqVars, head, resp, pulled, mirror, chan, rxOpen, permit,
                   callerVars, records>>

\* The other branch of the select: the response body was dropped.  The pump is
\* abandoned wherever it awaits, with the chunk it holds.
PumpGone ==
    /\ pump \in {"next", "send"}
    /\ permit
    /\ permit' = FALSE
    /\ Leave("client_cancelled")
    /\ UNCHANGED <<reqVars, head, resp, pulled, upEnd, mirror, chan, rxOpen,
                   callerVars, records>>

\* Plausible bugs: a record for every provider path, and none for a lifecycle that
\* was cancelled.
Audited_every_path == TRUE
Audited_unless_cancelled == request.metered /\ outcome # "client_cancelled"

\* Only the Responses and compact paths carry a parser and an operation.
Audited == request.metered

\* parser.finalize, the effort's finish and record_audit; unmetered paths just end.
Finalize ==
    /\ pump = "closed"
    /\ pump' = "done"
    /\ IF Audited
       THEN /\ effort' = finish(effort)
            /\ records' = Append(records,
                 record_audit(resp, outcome, parse_mirror(mirror, resp.model),
                              finish(effort).value))
       ELSE UNCHANGED <<effort, records>>
    /\ UNCHANGED <<request, forwarded, head, resp, pulled, upEnd, inhand, mirror,
                   outcome, chanVars, callerVars>>

-----------------------------------------------------------------------------
(***************************************************************************)
(* The HTTP server and the caller                                          *)
(***************************************************************************)

\* Plausible bug: the body is dropped without a notification.
DropBody_silent ==
    /\ permit' = permit
    /\ rxOpen' = FALSE
    /\ chan' = <<>>

\* DropNotifyStream::drop stores the permit, then the receiver inside it goes and
\* with it what the channel still held.
DropBody ==
    /\ permit' = TRUE
    /\ rxOpen' = FALSE
    /\ chan' = <<>>

\* The server takes the next chunk from the body and writes it to the caller.
ServerPull ==
    /\ conn = "open"
    /\ rxOpen
    /\ chan # <<>>
    /\ received' = Append(received, Head(chan))
    /\ chan' = Tail(chan)
    /\ UNCHANGED <<reqVars, head, resp, pumpVars, txOpen, rxOpen, permit, conn, records>>

AllOfLength == resp.framing = "length" /\ Len(received) = resp.len

\* The body yields None: the sender is gone and the channel is drained.  With
\* chunked framing the server writes the last chunk; a body shorter than the
\* Content-Length it announced makes it close the connection instead.
ServerEof ==
    /\ conn = "open"
    /\ rxOpen
    /\ chan = <<>> /\ ~txOpen
    /\ ~AllOfLength
    /\ conn' = IF resp.framing = "length" THEN "truncated" ELSE "complete"
    /\ DropBody
    /\ UNCHANGED <<reqVars, head, resp, pumpVars, txOpen, received, records>>

\* The announced Content-Length is written, or there is no body to write: the server
\* drops the body without polling it to its end.
ServerLengthReached ==
    /\ conn = "open"
    /\ rxOpen
    /\ AllOfLength
    /\ conn' = "complete"
    /\ DropBody
    /\ UNCHANGED <<reqVars, head, resp, pumpVars, txOpen, received, records>>

\* The caller disconnects while its response is under way.
CallerGone ==
    /\ conn = "open"
    /\ rxOpen
    /\ conn' = "gone"
    /\ DropBody
    /\ UNCHANGED <<reqVars, head, resp, pumpVars, txOpen, received, records>>

-----------------------------------------------------------------------------
Handler == (\E r \in Responses : SendOk(r)) \/ SendErr \/ DropHandler

Pump ==
    \/ \E c \in Chunk : PumpRecv(c)
    \/ PumpSend \/ PumpSendErr
    \/ PumpEof \/ PumpErr
    \/ PumpGone

Server == ServerPull \/ ServerEof \/ ServerLengthReached \/ CallerGone

Next == ForwardRequestChunk \/ Handler \/ Pump \/ Finalize \/ Server

Spec == Init /\ [][Next]_vars

-----------------------------------------------------------------------------
(***************************************************************************)
(* Safety                                                                  *)
(***************************************************************************)
TypeOK ==
    /\ request \in Requests
    /\ forwarded \in Nat
    /\ effort \in [mirrored : Nat, parsed : BOOLEAN, value : STRING \cup {None}]
    /\ head \in {"sending", "ok", "err", "dropped"}
    /\ resp \in Responses \cup {None}
    /\ pulled \in Seq(Chunk)
    /\ upEnd \in {"open", "eof", "error"}
    /\ pump \in {"none", "next", "send", "closed", "done"}
    /\ inhand \in Seq(Chunk) /\ Len(inhand) <= 1
    /\ mirror \in Seq(Chunk)
    /\ outcome \in {"completed", "upstream_interrupted", "client_cancelled"}
    /\ chan \in Seq(Chunk) /\ Len(chan) <= Capacity
    /\ txOpen \in BOOLEAN /\ rxOpen \in BOOLEAN /\ permit \in BOOLEAN
    /\ conn \in {"open", "complete", "truncated", "gone", "bad_gateway"}
    /\ received \in Seq(Chunk)

\* No chunk is lost, duplicated or reordered between the upstream and the caller:
\* while the body is being relayed, what the caller was given, what the channel
\* holds and what the pump holds are together exactly what the upstream yielded, and
\* after that the caller holds a prefix of it (lib.rs, the pump loop).
RelayedInOrder ==
    /\ rxOpen => received \o chan \o inhand = pulled
    /\ IsPrefix(received, pulled)

\* A caller told that the body is over was given all the upstream yielded: a
\* complete end means the announced length was reached or the upstream stream was
\* over, and a connection cut short means the upstream stream had failed.
EndIsFaithful ==
    /\ conn = "complete" =>
         received = pulled /\ (AllOfLength \/ upEnd # "open")
    /\ conn = "truncated" => received = pulled /\ upEnd = "error"

\* The recorded outcome tells what really happened to the upstream stream and to
\* the response body, in every interleaving of the pump, the notification and the
\* server (DESIGN.md 5, scenario mapping).
OutcomeIsTruthful ==
    \A i \in DOMAIN records :
        LET out == records[i].outcome IN
        /\ out \in {"completed", "incomplete"} => upEnd = "eof" /\ resp.success
        /\ out = "upstream_interrupted" =>
             \/ upEnd = "error"
             \/ upEnd = "eof" /\ sse_events(pulled) # <<>> /\ Terminals(pulled) = {}
        /\ out = "client_cancelled" => upEnd = "open" /\ ~rxOpen
        /\ out = "upstream_error" => ~resp.success
        /\ out = "transport_error" <=> head = "err"

\* With a body that is sent and whose length was not announced (every SSE stream),
\* client_cancelled is recorded only for a caller that really left: the drop of a body
\* read to its end never races the pump into that outcome (lib.rs, the select and
\* drop(tx)).
CancelledMeansAbandoned ==
    \A i \in DOMAIN records :
        records[i].outcome = "client_cancelled" /\ resp.framing = "chunked"
            => conn = "gone"

\* Usage is recorded exactly when the gateway received a terminal usage before the
\* lifecycle ended, and it is the last one: neither a cancellation while the
\* terminal chunk still waits for room in the channel nor an interruption after it
\* loses it, and nothing is estimated (DESIGN.md 5).
TerminalUsageIsRecorded ==
    \A i \in DOMAIN records :
        records[i].upstream_status = TRUE /\ sse_events(pulled) # <<>> =>
            records[i].audit.usage =
                IF HasTerminalUsage(pulled) THEN FinalUsage(pulled).usage ELSE None

\* Each accepted request attempts at most one record (DESIGN.md 5), a path that is
\* not metered attempts none, and none is attempted before the lifecycle is over.
OneRecordPerLifecycle ==
    Len(records) =
        IF request.metered /\ (pump = "done" \/ head = "err") THEN 1 ELSE 0

\* The declared effort is recorded exactly when the whole request body had gone
\* through the mirror, in an encoding the observer reads, before the lifecycle was
\* finalized; a response that overtakes its request body never yields a guess.
EffortIsWhatWasForwarded ==
    [][records' # records =>
         Last(records').effort =
            IF forwarded = request.chunks /\ request.encoding # "unsupported"
            THEN request.effort ELSE None]_vars

(***************************************************************************)
(* What the documentation says and the code does not do; each is refuted   *)
(***************************************************************************)

\* lib.rs, DropNotifyStream: the notification fires "when the caller abandons the
\* response body", so client_cancelled would be recorded only for one that left.
CancelledAlwaysMeansAbandoned ==
    \A i \in DOMAIN records :
        records[i].outcome = "client_cancelled" => conn = "gone"

\* DESIGN.md 5: "Client cancellation: stop pumping further to the upstream and record
\* `client_cancelled`", so a metered caller that left has its record in the end.
CancellationIsRecorded ==
    (conn = "gone" /\ request.metered) ~> (records # <<>>)

-----------------------------------------------------------------------------
(***************************************************************************)
(* Liveness.  Every task that can run is eventually polled: the runtime    *)
(* schedules the pump and the server.  Nothing is assumed of the upstream  *)
(* or of the caller unless said.                                           *)
(***************************************************************************)
PumpScheduled ==
    WF_vars(PumpSend) /\ WF_vars(PumpSendErr) /\ WF_vars(PumpGone)

\* The caller keeps reading, so the server keeps polling the body.
CallerReads ==
    WF_vars(ServerPull) /\ WF_vars(ServerEof) /\ WF_vars(ServerLengthReached)

\* The upstream answers and its body ends in the end.
UpstreamEnds ==
    WF_vars(Handler) /\ WF_vars(PumpEof) /\ WF_vars(PumpErr)

\* The task that runs the pump is not stuck in the parse of the mirror.
FinalizeReturns == WF_vars(Finalize)

PolledSpec == Spec /\ PumpScheduled
FairSpec == PolledSpec /\ FinalizeReturns /\ CallerReads /\ UpstreamEnds

\* Once the upstream stream is over, a caller that reads sees the end of its body
\* even if finalization takes for ever (lib.rs, the drop(tx) before finalize).
EndReachesCaller == CallerReads => ((upEnd # "open") ~> (conn # "open"))

\* A caller that leaves after its response head is recorded even when the upstream
\* stays silent for ever: no further chunk is needed to notice (lib.rs, select!).
AbandonmentIsRecorded ==
    FinalizeReturns =>
        ((head = "ok" /\ conn = "gone" /\ request.metered) ~> (records # <<>>))

\* Every metered lifecycle ends with its record, unless the caller left before the
\* response head (see CancellationIsRecorded): no schedule of a full channel, a slow
\* caller and a notification leaves the pump waiting for ever.
LifecycleIsRecorded ==
    FinalizeReturns /\ CallerReads /\ UpstreamEnds =>
        (request.metered => <>(records # <<>> \/ head = "dropped"))

-----------------------------------------------------------------------------
(***************************************************************************)
(* Refinement: the relay implements Delivery and Lifecycle                 *)
(***************************************************************************)
senderBar == IF head # "ok" THEN "idle" ELSE IF txOpen THEN "open" ELSE "closed"
sizeBar == IF resp # None /\ resp.framing = "length" THEN resp.len ELSE None
receiverBar ==
    CASE conn = "open" -> "open"
      [] conn \in {"complete", "truncated"} -> "ended"
      [] conn = "gone" -> "abandoned"
      [] conn = "bad_gateway" -> "refused"

D == INSTANCE Delivery WITH
        Item <- Chunk, Window <- Capacity + 1, Unsized <- None,
        sender <- senderBar, size <- sizeBar, sent <- pulled, got <- received,
        receiver <- receiverBar

\* The relay implements Delivery: mirroring, metering and recording never change
\* what the caller is given, nor let more than Capacity + 1 chunks pile up.
ImplementsDelivery == D!Spec

sizedBar == IF resp # None /\ resp.framing = "length" THEN TRUE ELSE FALSE
taskBar ==
    IF head = "sending" THEN "sending"
    ELSE IF pump \in {"next", "send"} THEN "pumping"
    ELSE IF pump = "closed" THEN "closed" ELSE "over"
peerBar ==
    IF conn = "open" THEN "waiting" ELSE IF conn = "gone" THEN "left" ELSE "served"
lifeBar == [metered |-> request.metered, sized |-> sizedBar, task |-> taskBar,
            peer |-> peerBar, attempts |-> Len(records)]

L == INSTANCE Lifecycle WITH life <- lifeBar

\* The relay implements Lifecycle: whatever the interleaving, a caller is told of the
\* end of a body of unknown length only after the pump has closed it, at most one
\* record is attempted and none before the lifecycle is over, so that Gateway may
\* stand Lifecycle in for the handler, the pump and the server of each request.
ImplementsLifecycle == L!Spec

-----------------------------------------------------------------------------
(***************************************************************************)
(* The inductive invariant behind the proofs of RelayProofs                *)
(***************************************************************************)

\* How the phases of the handler, the pump, the channel ends and the caller agree.
PhaseInv ==
    /\ head = "ok" <=> resp # None
    /\ head = "ok" <=> pump # "none"
    /\ head # "ok" => pulled = <<>> /\ received = <<>> /\ ~permit
    /\ head = "sending" => conn = "open"
    /\ head = "err" => conn = "bad_gateway"
    /\ head = "dropped" => conn = "gone"
    /\ conn = "bad_gateway" => head = "err"
    /\ txOpen <=> pump \in {"next", "send"}
    /\ rxOpen <=> head = "ok" /\ conn = "open"
    /\ permit => ~rxOpen
    /\ ~rxOpen => chan = <<>>
    /\ pump = "send" => Len(inhand) = 1
    /\ pump # "send" => inhand = <<>>

\* Where the chunks are, and how many can be on their way.
OrderInv ==
    /\ rxOpen => (received \o chan) \o inhand = pulled
    /\ Len(received) <= Len(pulled)
    /\ \A i \in 1..Len(received) : received[i] = pulled[i]
    /\ Len(pulled) <= Len(received) + Capacity + (IF pump = "next" THEN 0 ELSE 1)
    /\ request.metered => mirror = pulled

\* How the stream ended and what the pump and the caller made of it.
EndInv ==
    /\ pump \in {"none", "next", "send"} => outcome = "completed" /\ upEnd = "open"
    /\ pump \in {"closed", "done"} =>
         \/ outcome = "completed" /\ upEnd = "eof"
         \/ outcome = "upstream_interrupted" /\ upEnd = "error"
         \/ outcome = "client_cancelled" /\ upEnd = "open" /\ conn # "open"
    /\ head = "ok" /\ upEnd = "open" /\ conn # "open" => conn = "gone" \/ AllOfLength
    /\ head = "ok" /\ resp.framing = "length" =>
         /\ Len(pulled) <= resp.len
         /\ upEnd = "eof" => Len(pulled) = resp.len
    /\ EndIsFaithful

\* The record of a lifecycle that is over: computed from the response head, the pump's
\* outcome and everything the pump had mirrored.
DueRecord ==
    IF head = "err" THEN TransportErrorRecord(effort.value)
    ELSE record_audit(resp, outcome, parse_mirror(mirror, resp.model), effort.value)

\* At most one record, made when the lifecycle was over and the one that was due.
RecordInv ==
    /\ request.metered /\ (pump = "done" \/ head = "err") => records = <<DueRecord>>
    /\ ~(request.metered /\ (pump = "done" \/ head = "err")) => records = <<>>

\* The effort observer counts what was forwarded until it is parsed, at the end.
EffortInv ==
    /\ request.metered /\ ~effort.parsed => effort.mirrored = forwarded
    /\ request.metered =>
         (effort.parsed <=> pump = "done" \/ head = "err")

RelayInv == PhaseInv /\ OrderInv /\ EndInv /\ RecordInv /\ EffortInv
=============================================================================
