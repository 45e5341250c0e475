----------------------------- MODULE MCGateway ------------------------------
(***************************************************************************)
(* A gateway with a valid and an invalid configuration file, and requests  *)
(* that are metered, forwarded unmetered, or refused.                      *)
(***************************************************************************)
EXTENDS Gateway, TLC

CodexBase == <<"backend-api", "codex">>
File(table) == [readable |-> TRUE, toml |-> TRUE, listen |-> TRUE,
                usage_file |-> "path", machine_keys |-> table]
TwoFiles == {File(digest_hex("k1") :> "m1"), File(digest_hex("k1") :> "  ")}

Req(path, key) == [method |-> "POST", path |-> path, headers |-> <<>>,
                   keys |-> <<[text |-> key, readable |-> TRUE]>>]
SomeInputs == {Req(<<"v1", "responses">>, "k1"), Req(<<"v1", "models">>, "k1"),
               Req(<<"v1", "responses">>, "k2")}
=============================================================================
