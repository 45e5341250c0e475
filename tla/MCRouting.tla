----------------------------- MODULE MCRouting ------------------------------
(***************************************************************************)
(* A gateway loads a configuration file and decides about one request.     *)
(* Requests come in three families: every path of at most MaxSegments      *)
(* segments, every list of at most MaxKeys key lines, and every list of at *)
(* most MaxHeaders header lines, the rest of the request being ordinary.   *)
(***************************************************************************)
EXTENDS Routing, TLC

CONSTANTS
    MaxSegments,    \* bound: segments of a path
    MaxKeys,        \* bound: x-meter-key lines of a request
    MaxHeaders      \* bound: other header lines of a request

VARIABLES
    config,     \* None, or what load made of the file
    request,    \* None, or the request
    verdict     \* None, or what the gateway does with it

vars == <<config, request, verdict>>

None == [none |-> TRUE]
CodexBase == <<"backend-api", "codex">>

(* Configuration files *)
Digest == {digest_hex("k1"), digest_hex("k2"), digest_hex("opaque"),
           [of |-> "k1", form |-> "upper"], [of |-> "k2", form |-> "short"]}
Tables == UNION {[D -> {"m1", "m2", "  "}] : D \in {S \in SUBSET Digest : Cardinality(S) <= 2}}
File(table) == [readable |-> TRUE, toml |-> TRUE, listen |-> TRUE,
                usage_file |-> "path", machine_keys |-> table]
Good == File(digest_hex("k1") :> "m1" @@ digest_hex("k2") :> "m2")
Files ==
    {File(table) : table \in Tables}
        \cup {[Good EXCEPT !.readable = FALSE], [Good EXCEPT !.toml = FALSE],
              [Good EXCEPT !.listen = FALSE], [Good EXCEPT !.usage_file = ""]}

(* Requests *)
Key(text) == [text |-> text, readable |-> text # "opaque"]
Keys == {Key("k1"), Key("k2"), Key("k3"), Key("opaque")}
Segments == {"v1", "responses", "compact", "healthz", "", ".", ".%2e", "{x}"}
Line(name) == [name |-> name, readable |-> TRUE, nominates |-> {}]
Connection(names) == [Line("connection") EXCEPT !.nominates = names]
Headers == {Line("authorization"), Line("x-codex"), Line("te"), Line("cookie"),
            Line("x-meter-run"), Line("x-forwarded-for"),
            Connection({"keep-alive", "x-codex"}), Connection({"cookie", "authorization"}),
            [Connection({"x-codex"}) EXCEPT !.readable = FALSE]}

\* HeaderMap yields the lines of one name together.
Grouped(headers) ==
    \A i, j, k \in DOMAIN headers :
        i < j /\ j < k /\ headers[i].name = headers[k].name => headers[j].name = headers[i].name

Req(method, path, keys, headers) ==
    [method |-> method, path |-> path, keys |-> keys, headers |-> headers]
Requests ==
    {Req(m, p, <<Key("k1")>>, <<Line("x-codex")>>) :
        m \in {"GET", "POST"}, p \in BoundedSeq(Segments, MaxSegments) \ {<<>>}}
    \cup {Req("POST", p, ks, <<>>) :
        p \in {<<"v1", "models">>, <<"v1", "..", "x">>}, ks \in BoundedSeq(Keys, MaxKeys)}
    \cup {Req("POST", <<"v1", "responses">>, <<Key("k1")>>, hs) :
        hs \in {s \in BoundedSeq(Headers, MaxHeaders) : Grouped(s)}}

Init == config = None /\ request = None /\ verdict = None

Load(file) ==
    /\ config' = load(file)
    /\ UNCHANGED <<request, verdict>>

\* Only a gateway with a configuration serves.
Handle(req) ==
    /\ config \notin {None, Refused}
    /\ request' = req
    /\ verdict' = router(config.machine_keys, req)
    /\ UNCHANGED config

Next ==
    \/ config = None /\ \E file \in Files : Load(file)
    \/ verdict = None /\ \E req \in Requests : Handle(req)

Spec == Init /\ [][Next]_vars

-----------------------------------------------------------------------------
Forwarded == verdict # None /\ verdict.status = "forward"
Served == config \notin {None, Refused}

\* Nothing leaves for the upstream without a single readable key of the machine it is
\* attributed to, and no accepted configuration holds a machine that no caller can
\* ever be: each of its digests is one a presented key can have, unless the key has
\* bytes that a header line cannot show (config.rs, is_digest_hex; lib.rs, route_v1).
AttributionIsExact ==
    /\ Forwarded =>
         /\ \E k \in Keys : request.keys = <<k>> /\ k.readable
         /\ \E d \in DOMAIN config.machine_keys :
              d.of = request.keys[1].text /\ config.machine_keys[d] = verdict.machine
    /\ Served =>
         \A d \in DOMAIN config.machine_keys :
            /\ config.machine_keys[d] # "  "
            /\ \E k \in Keys :
                 /\ k.text = d.of
                 /\ k.readable =>
                        authenticate(config.machine_keys, <<k>>) = config.machine_keys[d]

\* What the upstream is asked for is the fixed base and the caller's own segments, no
\* path with dot segments or that is rewritten otherwise on its way becomes one of the
\* Responses endpoints unmetered, and only a path that a URL parser would rewrite is
\* refused (lib.rs, route_v1; DESIGN.md 2).  Paths are compared as they are forwarded:
\* another spelling of an endpoint's name that is forwarded as it is, such as
\* %72esponses, is another path.
MeteringCannotBeAvoided ==
    verdict # None =>
        /\ Forwarded =>
             /\ verdict.target = Base \o Tail(request.path)
             /\ verdict.operation = "response" <=> verdict.target = Base \o <<"responses">>
             /\ verdict.operation = "compaction" <=>
                    verdict.target = Base \o <<"responses", "compact">>
        /\ verdict.status = "bad_request" <=>
             /\ IsProvider(request.path)
             /\ authenticate(config.machine_keys, request.keys) # NoMachine
             /\ \E i \in DOMAIN request.path :
                    request.path[i] \in Dot \cup DotDot \cup {"{x}"}

\* Whatever the lines and the order in which HeaderMap yields them, no per-connection
\* or private line reaches the upstream, none that is neither is lost, doubled or moved
\* past another of that order, a second gateway in the chain would strip nothing more,
\* and the policy of responses differs in the private names alone (lib.rs,
\* request_header_is_stripped; DESIGN.md 2.1).
HeadersFollowPolicy ==
    Forwarded =>
        LET sent == verdict.headers
            given == request.headers
            perConnection(n) ==
                \/ n \in HopByHop
                \/ \E h \in ToSet(given) :
                     h.name = "connection" /\ h.readable /\ n \in h.nominates
        IN  /\ \E at \in [DOMAIN sent -> DOMAIN given] :
                 /\ \A i \in DOMAIN sent : sent[i] = given[at[i]]
                 /\ \A i, j \in DOMAIN sent : i < j => at[i] < at[j]
                 /\ \A n \in DOMAIN given :
                        perConnection(given[n].name) \/ given[n].name \in Private
                            <=> n \notin Range(at)
            /\ request_headers(sent) = sent
            /\ pass_on(response_headers(given), Private) = sent
=============================================================================
