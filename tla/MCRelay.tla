------------------------------ MODULE MCRelay -------------------------------
(* Small instances of Relay. *)
EXTENDS Relay

Tokens == [x \in {"output_tokens"} |-> 1]

Ev(kind, usage) == [kind |-> kind, response |-> [model |-> None, usage |-> usage]]
Sse(events) == [events |-> events, utf8 |-> TRUE, doc |-> None]

Delta == Sse(<<[kind |-> "other", response |-> None]>>)
Completed == Sse(<<Ev("completed", Tokens)>>)
Incomplete == Sse(<<Ev("incomplete", None)>>)
Json == [events |-> <<>>, utf8 |-> TRUE,
         doc |-> [incomplete |-> FALSE, model |-> None, usage |-> Tokens]]

\* a delta, each terminal event, and a JSON document
AllChunks == {Delta, Completed, Incomplete, Json}
\* enough to tell order and terminality apart
TwoChunks == {Delta, Completed}

Req(metered, chunks, encoding, eff) ==
    [metered |-> metered, chunks |-> chunks, encoding |-> encoding, effort |-> eff]
Head_(success, framing, len) ==
    [success |-> success, framing |-> framing, len |-> len, model |-> None]

AllRequests == {Req(TRUE, 2, "zstd", "high"), Req(TRUE, 1, "unsupported", "low"),
                Req(TRUE, 0, "identity", None), Req(FALSE, 1, "identity", "high")}
OneRequest == {Req(TRUE, 0, "identity", None), Req(FALSE, 0, "identity", None)}

AllResponses == {Head_(TRUE, "chunked", 0), Head_(FALSE, "chunked", 0),
                 Head_(TRUE, "length", 0), Head_(FALSE, "length", 0),
                 Head_(TRUE, "length", 2)}
=============================================================================
