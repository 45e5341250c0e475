----------------------------- MODULE MCObserver -----------------------------
(***************************************************************************)
(* The StreamUsageParser of one response: chunks are pushed as they are    *)
(* forwarded and the mirror is parsed once.  Two families of bodies:       *)
(*   - every body of at most MaxChunks chunks over a set of chunks that    *)
(*     holds each kind of event and document the code tells apart;         *)
(*   - one document whose usage object is any object of at most MaxMembers *)
(*     members, over all the names the code accepts, each holding a        *)
(*     counter or something that is not one.                               *)
(***************************************************************************)
EXTENDS Observer

CONSTANTS
    Header, M1, M2,     \* model names: the response header's and two of the body's
    Junk,               \* a member value that is not an unsigned 64-bit integer
    MaxChunks,          \* bound: chunks per response body
    MaxMembers          \* bound: members per usage object

VARIABLES
    header_model,   \* the valid openai-model response header, or None
    reported,       \* the usage object of a document, built one member at a time
    mirror,         \* the chunks pushed so far
    parsed          \* None, or the ParsedBody once finalized

vars == <<header_model, reported, mirror, parsed>>

Keys == UNION {ToSet(Names[c]) : c \in DOMAIN Names}

\* A usage object is neither a missing nor a malformed usage, and the document that
\* carries it is a document.
ASSUME ObjectAssumption ==
    \A D \in SUBSET Keys :
        LET objects == [D -> U64 \cup {Junk}]
        IN  /\ None \notin objects /\ Malformed \notin objects
            /\ None \notin [incomplete : BOOLEAN, model : {None}, usage : objects]

(* Chunks *)
Full == [x \in {"input_tokens", "input_tokens_details.cached_tokens",
                "cache_write_tokens"} |-> 1]
Part == [x \in {"output_tokens"} |-> 2]

Response(model, usage) == [model |-> model, usage |-> usage]
Ev(kind, response) == [kind |-> kind, response |-> response]
Sse(events) == [events |-> events, utf8 |-> TRUE, doc |-> None]
Doc(incomplete, model, usage) ==
    [events |-> <<>>, utf8 |-> TRUE,
     doc |-> [incomplete |-> incomplete, model |-> model, usage |-> usage]]

Chunks ==
    {Sse(<<>>),                                       \* part of an event
     Sse(<<Ev("other", None)>>),                      \* a delta
     Sse(<<Ev("completed", None)>>),
     Sse(<<Ev("completed", Response(M1, Part))>>),
     Sse(<<Ev("completed", Response(None, None))>>),
     Sse(<<Ev("incomplete", Response(M2, Malformed))>>),
     Sse(<<Ev("other", None), Ev("incomplete", Response(M2, Full))>>),
     [Sse(<<Ev("other", None)>>) EXCEPT !.utf8 = FALSE],
     Doc(FALSE, M1, Part), Doc(TRUE, None, Full),
     Doc(FALSE, None, Malformed), Doc(FALSE, M2, None)}

Init ==
    /\ header_model \in {None, Header}
    /\ reported = <<>>
    /\ mirror = <<>>
    /\ parsed = None

\* The upstream puts one more member into the usage object of its document.
Report(key, v) ==
    /\ header_model = None /\ mirror = <<>> /\ parsed = None
    /\ Cardinality(DOMAIN reported) < MaxMembers
    /\ key \notin DOMAIN reported
    /\ reported' = [k \in DOMAIN reported \cup {key} |-> IF k = key THEN v ELSE reported[k]]
    /\ UNCHANGED <<header_model, mirror, parsed>>

push(chunk) ==
    /\ parsed = None
    /\ Len(mirror) < MaxChunks
    /\ mirror' = Append(mirror, chunk)
    /\ UNCHANGED <<header_model, reported, parsed>>

finalize ==
    /\ parsed = None
    /\ parsed' = parse_mirror(mirror, header_model)
    /\ UNCHANGED <<header_model, reported, mirror>>

Next ==
    \/ \E key \in Keys, v \in U64 \cup {Junk} : Report(key, v)
    \/ reported = <<>> /\ \E chunk \in Chunks : push(chunk)
    \/ reported # <<>> /\ mirror = <<>> /\ push(Doc(FALSE, None, reported))
    \/ (reported = <<>> \/ mirror # <<>>) /\ finalize

Spec == Init /\ [][Next]_vars

-----------------------------------------------------------------------------
Framed == sse_events(mirror) # <<>>
raw == extract_raw_usage(reported)

\* Of any usage object: the record of the document that carries it has exactly its
\* canonical usage, the input buckets of one marked complete add up exactly to the
\* input total, and inconsistent is marked exactly when the cache buckets overflow
\* the input total (usage.rs, parse_json_body and canonicalize).
ObjectAccounting ==
    reported # <<>> /\ parsed # None =>
        /\ parsed.audit.usage = canonicalize(raw).usage
        /\ parsed.audit.quality = canonicalize(raw).quality
        /\ BucketsAddUp(raw)
        /\ OverfullIsInconsistent(raw)

\* A counter is never invented and a reported one never lost to the wrong name:
\* a non-null counter is the value of one of its own names, and none of the names
\* the code prefers holds a counter; a null counter of the fallback chains means no
\* name at all held one (usage.rs, extract_raw_usage).
CountersAreReported ==
    \A c \in DOMAIN Names :
        LET names == Names[c] IN
        /\ raw[c] # None =>
             \E i \in DOMAIN names :
                /\ names[i] \in DOMAIN reported
                /\ reported[names[i]] = raw[c]
                /\ \A j \in 1..(i - 1) :
                     names[j] \in DOMAIN reported => reported[names[j]] \notin U64
        /\ raw[c] = None /\ c \notin {"input_total", "output_total"} =>
             \A i \in DOMAIN names :
                names[i] \in DOMAIN reported => reported[names[i]] \notin U64

\* An SSE body is metered by its LAST usage object: whatever terminal events came
\* before or after it, and however they lacked or mangled theirs, the loop of
\* parse_mirror settles on the same usage as a reader of the whole stream, and the
\* record explains itself: without usage it is unavailable for a stated reason.
SseUsageIsTheLastReported ==
    parsed # None /\ Framed =>
        IF HasTerminalUsage(mirror)
        THEN /\ parsed.audit.usage = FinalUsage(mirror).usage
             /\ parsed.audit.quality = FinalUsage(mirror).quality
        ELSE /\ parsed.audit.usage = None
             /\ parsed.audit.quality = "unavailable"
             /\ parsed.audit.metering_error # None

\* Once any `response.incomplete` is in the stream the lifecycle stays incomplete,
\* even when a `response.completed` follows, and an SSE body without a terminal
\* event is never terminal (DESIGN.md 4.1).
SseLifecycle ==
    parsed # None /\ Framed =>
        /\ parsed.terminal_seen <=> Terminals(mirror) # {}
        /\ parsed.incomplete <=>
             \E i \in Terminals(mirror) : sse_events(mirror)[i].kind = "incomplete"

\* A terminal usage in a shorter body is never lost by the chunks that follow it,
\* decodable or not: what a caller could already read in the stream is metered.
UsageSurvivesGrowth ==
    [][HasTerminalUsage(mirror) => parse_mirror(mirror', header_model).audit.usage # None]_vars

\* DESIGN.md 4: "`model` is the valid `openai-model` response header when present".
HeaderModelIsRecorded ==
    parsed # None /\ header_model # None => parsed.audit.model = header_model
=============================================================================
