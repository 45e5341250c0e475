------------------------------ MODULE Routing -------------------------------
(***************************************************************************)
(* What the gateway decides about a request before it contacts the         *)
(* upstream, and which headers it passes on in both directions             *)
(* (src/src/lib.rs, router to route_v1's call of send).                    *)
(*                                                                         *)
(* A request is [method, path, keys, headers].  A path is the sequence of  *)
(* its segments, so "/v1/" is <<"v1", "">>; "%2e" and ".%2e" stand for the *)
(* percent-encoded dot segments and "{x}" for a segment with a character   *)
(* that URLs re-encode.  keys are the values of its x-meter-key lines,     *)
(* each [text, readable], readable when HeaderValue::to_str accepts it.    *)
(* A header line is [name, readable, nominates], the last being the names  *)
(* in a Connection line; headers are in the order HeaderMap iterates them, *)
(* the lines of one name together.                                         *)
(***************************************************************************)
EXTENDS Config, Sequences, SequencesExt

CONSTANTS
    Base,       \* segments of the fixed upstream base path
    NoMachine   \* authentication failed

\* The base is a path that a URL parser leaves as it is.
ASSUME BaseAssumption ==
    /\ Base \in Seq(ToSet(Base))
    /\ ToSet(Base) \cap {".", "%2e", "..", ".%2e", "{x}"} = {}

(***************************************************************************)
(* Authentication                                                          *)
(***************************************************************************)

\* Plausible bug: the first of several key lines counts.
single_key_first(keys) == keys # <<>> /\ keys[1].readable

\* Exactly one value, and a readable one
single_key(keys) == Len(keys) = 1 /\ keys[1].readable

authenticate(machine_keys, keys) ==
    IF single_key(keys) /\ digest_hex(keys[1].text) \in DOMAIN machine_keys
    THEN machine_keys[digest_hex(keys[1].text)]
    ELSE NoMachine

(***************************************************************************)
(* The path                                                                *)
(***************************************************************************)
Dot == {".", "%2e"}
DotDot == {"..", ".%2e"}

\* axum's "/v1/*path": something must follow the slash.
IsProvider(path) ==
    /\ path[1] = "v1"
    /\ Len(path) >= 2
    /\ path # <<"v1", "">>

operation(path) ==
    CASE path = <<"v1", "responses">> -> "response"
      [] path = <<"v1", "responses", "compact">> -> "compaction"
      [] OTHER -> "none"

percent_encode(segment) == IF segment = "{x}" THEN "%7Bx%7D" ELSE segment

\* One segment of the URL parser's path state: a dot segment leaves nothing, a double
\* one takes its parent along, and at the end of the path either leaves a slash.
PathState(out, segment, last) ==
    LET kept == IF segment \in DotDot /\ out # <<>> THEN Front(out) ELSE out
    IN  IF segment \notin Dot \cup DotDot THEN Append(out, percent_encode(segment))
        ELSE IF last THEN Append(kept, "") ELSE kept

\* What Url::parse makes of the path.  A path after the fixed origin begins with a
\* slash, so it always parses and keeps that origin: the code's checks of both cannot
\* fail and are left out.
Resolve(path) ==
    LET out[i \in 0..Len(path)] ==
            IF i = 0 THEN <<>> ELSE PathState(out[i - 1], path[i], i = Len(path))
    IN  out[Len(path)]

candidate_path(path) == Base \o Tail(path)

\* Plausible bug: the resolved path need only stay below the base.
path_is_preserved_below(path) == IsPrefix(Base, Resolve(candidate_path(path)))

path_is_preserved(path) == Resolve(candidate_path(path)) = candidate_path(path)

(***************************************************************************)
(* Headers                                                                 *)
(***************************************************************************)
HopByHop == {"connection", "keep-alive", "proxy-connection", "proxy-authenticate",
             "proxy-authorization", "te", "trailer", "transfer-encoding", "upgrade"}

\* Names the request policy strips besides; the last four stand for the prefixes
\* x-meter- and x-forwarded-.
Private == {"host", "cookie", "forwarded", "via", "x-real-ip",
            "x-meter-key", "x-meter-run", "x-forwarded-for", "x-forwarded-host"}

\* Plausible bug: only the first Connection line is looked at.
connection_nominated_first(headers) ==
    LET lines == SelectSeq(headers, LAMBDA h : h.name = "connection")
    IN  IF lines = <<>> THEN {} ELSE lines[1].nominates

\* The names in every Connection line that is text; others are passed over.
connection_nominated_headers(headers) ==
    UNION {h.nominates : h \in {x \in ToSet(headers) : x.name = "connection" /\ x.readable}}

\* The loops over the headers, in the map's order: a line is passed on unless its name
\* is stripped.
pass_on(headers, stripped) ==
    LET out[i \in 0..Len(headers)] ==
            IF i = 0 THEN <<>>
            ELSE IF headers[i].name \in stripped THEN out[i - 1]
            ELSE Append(out[i - 1], headers[i])
    IN  out[Len(headers)]

request_headers(headers) ==
    pass_on(headers, connection_nominated_headers(headers) \cup HopByHop \cup Private)

response_headers(headers) ==
    pass_on(headers, connection_nominated_headers(headers) \cup HopByHop)

(***************************************************************************)
(* The verdict                                                             *)
(***************************************************************************)
Answer(status) == [status |-> status]

Forward(machine, req) ==
    [status |-> "forward", machine |-> machine, operation |-> operation(req.path),
     target |-> Resolve(candidate_path(req.path)),
     headers |-> request_headers(req.headers)]

route_v1(machine_keys, req) ==
    LET machine == authenticate(machine_keys, req.keys)
    IN  IF machine = NoMachine THEN Answer("unauthorized")
        ELSE IF ~path_is_preserved(req.path) THEN Answer("bad_request")
        ELSE Forward(machine, req)

\* The router: any method under /v1/, GET of /healthz, nothing else
router(machine_keys, req) ==
    CASE IsProvider(req.path) -> route_v1(machine_keys, req)
      [] req.path = <<"healthz">> ->
            Answer(IF req.method = "GET" THEN "ok" ELSE "method_not_allowed")
      [] OTHER -> Answer("not_found")
=============================================================================
