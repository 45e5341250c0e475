----------------------------- MODULE Lifecycle ------------------------------
(***************************************************************************)
(* What one accepted request looks like from outside: where its task is,   *)
(* what its caller knows, and how many records were attempted for it.      *)
(* Relay implements it step by step; Gateway runs several of these beside  *)
(* the server, the audit writer and the shutdown of the process.           *)
(*                                                                         *)
(* A step is the set of states it can lead to from s, empty when it cannot *)
(* be taken.                                                               *)
(***************************************************************************)
EXTENDS Naturals

VARIABLE life   \* the state of the request

Task == {"sending",     \* the handler awaits the upstream's response head
         "pumping",     \* the pump relays the body
         "closed",      \* the pump has closed the body and finalizes
         "over",        \* everything the code does for the request is done
         "cut"}         \* the process ended first
Peer == {"waiting",     \* the caller waits for (more of) its answer
         "served",      \* it was told that the answer is over
         "left", "cut"}
State == [metered : BOOLEAN, sized : BOOLEAN, task : Task, peer : Peer, attempts : Nat]

New(metered) ==
    [metered |-> metered, sized |-> FALSE, task |-> "sending", peer |-> "waiting",
     attempts |-> 0]

\* Only a metered lifecycle attempts a record.
Attempted(s) == s.attempts + IF s.metered THEN 1 ELSE 0

\* s moved to another place of its task, its caller and its attempts
At(s, task, peer, attempts) ==
    [metered |-> s.metered, sized |-> s.sized, task |-> task, peer |-> peer,
     attempts |-> attempts]

When(guard, states) == IF guard THEN states ELSE {}

\* The upstream answered; `sized` says whether the length of the body was announced.
Respond(s) ==
    When(s.task = "sending",
         {[At(s, "pumping", s.peer, s.attempts) EXCEPT !.sized = sized] : sized \in BOOLEAN})

\* The upstream could not be reached: the record is attempted, the caller gets 502.
Refuse(s) == When(s.task = "sending", {At(s, "over", "served", Attempted(s))})

\* The caller leaves before the response head: nothing is recorded.
Abandon(s) == When(s.task = "sending", {At(s, "over", "left", s.attempts)})

\* The pump leaves its loop, for whatever reason, and closes the body.
EndStream(s) == When(s.task = "pumping", {At(s, "closed", s.peer, s.attempts)})

\* The pump finalizes and attempts the record.
Finalize(s) == When(s.task = "closed", {At(s, "over", s.peer, Attempted(s))})

\* The caller is told that its answer is over, before the body is closed only when it
\* could count the bytes.
SeeEnd(s) ==
    When(/\ s.peer = "waiting"
         /\ s.task \in {"closed", "over"} \/ (s.task = "pumping" /\ s.sized),
         {At(s, s.task, "served", s.attempts)})

Leave(s) ==
    When(s.peer = "waiting" /\ s.task \in {"pumping", "closed", "over"},
         {At(s, s.task, "left", s.attempts)})

\* The process ends.
Cut(s) ==
    {At(s, IF s.task = "over" THEN "over" ELSE "cut",
           IF s.peer = "waiting" THEN "cut" ELSE s.peer, s.attempts)}

Step(s) ==
    Respond(s) \cup Refuse(s) \cup Abandon(s) \cup EndStream(s) \cup Finalize(s)
        \cup SeeEnd(s) \cup Leave(s) \cup Cut(s)

Init == \E metered \in BOOLEAN : life = New(metered)
Next == life' \in Step(life)
Spec == Init /\ [][Next]_life
=============================================================================
