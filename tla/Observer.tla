------------------------------ MODULE Observer ------------------------------
(***************************************************************************)
(* The response-body observer of debitmetre (src/src/usage.rs,             *)
(* StreamUsageParser and parse_mirror): what the gateway concludes from    *)
(* the bytes it mirrored, parsed once when the lifecycle is finalized.     *)
(*                                                                         *)
(* A body is a sequence of chunks.  A chunk is described by what its bytes *)
(* add to the body at their place in it:                                   *)
(*   events  the SSE events that become complete within the chunk          *)
(*   utf8    whether the body still decodes as UTF-8 after the chunk       *)
(*   doc     what the body up to and including the chunk is as ONE JSON    *)
(*           object, or None when it is not a JSON object                  *)
(* An event is [kind, response]: kind "other" stands for data that is not  *)
(* JSON, has no string `type` or has a type that is not terminal; response *)
(* is None when the event carries no `response` object.                    *)
(***************************************************************************)
EXTENDS Accounting, SequencesExt

CONSTANTS
    Malformed   \* a `usage` member that is there, not null and not an object

ASSUME MalformedAssumption == Malformed # None

\* Why a record has no usage
MeteringError == {"malformed_usage", "missing_usage"}

\* Option::None is not what an Option holds: whether the upstream's status was a success,
\* a reason, a usage or one with its quality.
ASSUME OptionAssumption ==
    /\ None \notin BOOLEAN
    /\ None \notin MeteringError
    /\ None \notin Usage
    /\ None \notin [usage : Usage, quality : Quality]

IsObject(usage) == usage # None /\ usage # Malformed

effective_model(header_model, body_model) ==
    IF header_model # None THEN header_model ELSE body_model

(***************************************************************************)
(* eventsource-stream stops at the first byte that does not decode; the    *)
(* events completed before it were already emitted.                        *)
(***************************************************************************)
Undecodable(mirror) == {i \in DOMAIN mirror : ~mirror[i].utf8}

\* Plausible bug: a decode error discards the events emitted before it.
sse_events_all_or_nothing(mirror) ==
    IF Undecodable(mirror) # {} THEN <<>>
    ELSE FlattenSeq([i \in DOMAIN mirror |-> mirror[i].events])

sse_events(mirror) ==
    LET bad == Undecodable(mirror)
        readable == IF bad = {} THEN mirror ELSE SubSeq(mirror, 1, Min(bad))
    IN  FlattenSeq([i \in DOMAIN readable |-> readable[i].events])

\* serde_json::from_slice of the whole mirror, as an object
JsonRoot(mirror) ==
    IF mirror = <<>> \/ Undecodable(mirror) # {} THEN None ELSE Last(mirror).doc

(***************************************************************************)
(* parse_mirror: a loop over the events that accumulates the terminal      *)
(* facts, then three ways to conclude.                                     *)
(***************************************************************************)
NothingSeen ==
    [terminal_seen |-> FALSE, incomplete |-> FALSE, body_model |-> None,
     usage |-> None, malformed |-> FALSE]

\* Plausible bug: a later terminal event without usage erases the usage of an
\* earlier one.
observe_event_forgets(acc, event) ==
    IF event.kind = "other" \/ event.response = None
    THEN [acc EXCEPT !.terminal_seen = @ \/ event.kind # "other",
                     !.incomplete = @ \/ event.kind = "incomplete"]
    ELSE [terminal_seen |-> TRUE,
          incomplete |-> acc.incomplete \/ event.kind = "incomplete",
          body_model |-> event.response.model,
          usage |-> IF IsObject(event.response.usage)
                    THEN canonicalize(extract_raw_usage(event.response.usage))
                    ELSE None,
          malformed |-> event.response.usage = Malformed]

\* Plausible bug: the last terminal event decides whether the lifecycle is
\* incomplete.
observe_event_last_kind(acc, event) ==
    IF event.kind = "other" THEN acc
    ELSE [acc EXCEPT !.terminal_seen = TRUE, !.incomplete = event.kind = "incomplete",
                     !.usage = IF event.response # None /\ IsObject(event.response.usage)
                               THEN canonicalize(extract_raw_usage(event.response.usage))
                               ELSE @]

observe_event(acc, event) ==
    LET seen == [acc EXCEPT !.terminal_seen = TRUE,
                            !.incomplete = @ \/ event.kind = "incomplete"]
        r == event.response
    IN  CASE event.kind = "other" -> acc
          [] event.kind # "other" /\ r = None -> seen
          [] event.kind # "other" /\ r # None ->
               [seen EXCEPT
                  !.body_model = IF r.model # None THEN r.model ELSE @,
                  !.usage = IF IsObject(r.usage)
                            THEN canonicalize(extract_raw_usage(r.usage)) ELSE @,
                  !.malformed = @ \/ r.usage = Malformed]

\* The loop over the events
observe_events(events) ==
    LET acc[i \in 0..Len(events)] ==
            IF i = 0 THEN NothingSeen ELSE observe_event(acc[i - 1], events[i])
    IN  acc[Len(events)]

\* AuditResult: the usage, its quality and why there is none
AuditResult(model, usage, malformed) ==
    [model |-> model,
     usage |-> IF usage = None THEN None ELSE usage.usage,
     quality |-> IF usage = None THEN "unavailable" ELSE usage.quality,
     metering_error |-> CASE usage # None -> None
                          [] usage = None /\ malformed -> "malformed_usage"
                          [] usage = None /\ ~malformed -> "missing_usage"]

\* The lifecycle is incomplete when the top-level status says so.
parse_json_body(mirror, header_model) ==
    LET root == JsonRoot(mirror) IN
    IF root = None
    THEN [audit |-> AuditResult(None, None, FALSE), incomplete |-> FALSE]
    ELSE [audit |-> AuditResult(
                        effective_model(header_model, root.model),
                        IF IsObject(root.usage)
                        THEN canonicalize(extract_raw_usage(root.usage)) ELSE None,
                        root.usage = Malformed),
          incomplete |-> root.incomplete]

parse_mirror(mirror, header_model) ==
    LET events == sse_events(mirror)
        acc == observe_events(events)
        json == parse_json_body(mirror, header_model)
    IN  CASE acc.terminal_seen ->
               [audit |-> AuditResult(effective_model(header_model, acc.body_model),
                                      acc.usage, acc.malformed),
                terminal_seen |-> TRUE, incomplete |-> acc.incomplete]
          [] ~acc.terminal_seen /\ events # <<>> ->
               [audit |-> AuditResult(header_model, None, FALSE),
                terminal_seen |-> FALSE, incomplete |-> FALSE]
          [] ~acc.terminal_seen /\ events = <<>> ->
               [audit |-> json.audit,
                terminal_seen |-> TRUE, incomplete |-> json.incomplete]

-----------------------------------------------------------------------------
(***************************************************************************)
(* Reference definitions: the same facts, said of the whole body at once   *)
(***************************************************************************)

\* The places of the terminal events in the decodable body
Terminals(body) ==
    {i \in DOMAIN sse_events(body) : sse_events(body)[i].kind # "other"}

\* Those of them that carry a usage object
TerminalUsages(body) ==
    {i \in Terminals(body) :
        LET response == sse_events(body)[i].response
        IN  response # None /\ IsObject(response.usage)}

HasTerminalUsage(body) == TerminalUsages(body) # {}

\* The usage a reader of the whole stream would settle on: the last one reported.
FinalUsage(body) ==
    canonicalize(extract_raw_usage(
        sse_events(body)[Max(TerminalUsages(body))].response.usage))
=============================================================================
