------------------------------ MODULE MCSmoke -------------------------------
(***************************************************************************)
(* Smoke with every argument list of up to four arguments after `smoke`,   *)
(* and of up to four for the other commands, and every report of oha.      *)
(***************************************************************************)
EXTENDS Smoke

SmallNumbers == [n \in {"0", "1", "2"} |-> CASE n = "0" -> 0 [] n = "1" -> 1 [] n = "2" -> 2]
SmallDefault == [count |-> 2, concurrency |-> 1, port |-> 0]

SmokeWords == {"--count", "--concurrency", "--port", "-h", "0", "1", "2", "word"}
MainWords == {"smoke", "summary", "--config", "--config=p", "--config=", "-h", "word"}
AllLists ==
    {<<"smoke">> \o list : list \in SeqOf(SmokeWords, 4)} \cup SeqOf(MainWords, 4)

AllReports ==
    [exit : BOOLEAN, json : BOOLEAN, successes : 0..3, other : 0..1, transport : 0..1,
     top_rate : {"absent", "one", "less"}, summary_rate : {"absent", "one", "less"}]
=============================================================================
