------------------------------ MODULE Delivery ------------------------------
(***************************************************************************)
(* What the gateway promises about a response body, whatever happens to    *)
(* metering: the caller is given, in order and without a gap, what the     *)
(* upstream sent; at most Window chunks are in flight; and the caller is   *)
(* told the body is over only when everything sent has been handed over    *)
(* and either the sender closed or the announced length is reached.        *)
(***************************************************************************)
EXTENDS Naturals, Sequences

CONSTANTS
    Item,       \* chunks
    Window,     \* bound on chunks in flight
    Unsized     \* the size of a body whose length was not announced

VARIABLES
    sender,     \* "idle" before a response head, then "open", then "closed"
    size,       \* the announced length, or Unsized
    sent,       \* what the upstream has sent
    got,        \* what the caller was given
    receiver    \* "open", "ended", "abandoned" by the caller, or "refused"

dvars == <<sender, size, sent, got, receiver>>

Init ==
    /\ sender = "idle" /\ size = Unsized
    /\ sent = <<>> /\ got = <<>>
    /\ receiver = "open"

Open ==
    /\ sender = "idle" /\ receiver = "open"
    /\ sender' = "open"
    /\ size' \in Nat \cup {Unsized}
    /\ UNCHANGED <<sent, got, receiver>>

Refuse ==
    /\ sender = "idle" /\ receiver = "open"
    /\ receiver' = "refused"
    /\ UNCHANGED <<sender, size, sent, got>>

Send ==
    /\ sender = "open"
    /\ Len(sent) - Len(got) < Window
    /\ \E x \in Item : sent' = Append(sent, x)
    /\ UNCHANGED <<sender, size, got, receiver>>

Close ==
    /\ sender = "open"
    /\ sender' = "closed"
    /\ UNCHANGED <<size, sent, got, receiver>>

Deliver ==
    /\ receiver = "open"
    /\ Len(got) < Len(sent)
    /\ got' = Append(got, sent[Len(got) + 1])
    /\ UNCHANGED <<sender, size, sent, receiver>>

End ==
    /\ receiver = "open"
    /\ got = sent
    /\ sender = "closed" \/ (size # Unsized /\ Len(got) = size)
    /\ receiver' = "ended"
    /\ UNCHANGED <<sender, size, sent, got>>

Abandon ==
    /\ receiver = "open"
    /\ receiver' = "abandoned"
    /\ UNCHANGED <<sender, size, sent, got>>

Next == Open \/ Refuse \/ Send \/ Close \/ Deliver \/ End \/ Abandon

Spec == Init /\ [][Next]_dvars
=============================================================================
