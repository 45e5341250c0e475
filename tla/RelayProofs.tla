---------------------------- MODULE RelayProofs -----------------------------
(***************************************************************************)
(* Proofs about Relay, for every set of chunks, requests and response      *)
(* heads, every channel capacity and every length of body.                 *)
(***************************************************************************)
EXTENDS Relay, ObserverProofs

(***************************************************************************)
(* Lemmas on sequences                                                     *)
(***************************************************************************)

\* Moving the head of t to the end of s leaves s \o t as it was: what ServerPull
\* does to the chunks given to the caller and those in the channel.
LEMMA MoveHead ==
    ASSUME NEW S, NEW s \in Seq(S), NEW t \in Seq(S), t # <<>>
    PROVE  Append(s, Head(t)) \o Tail(t) = s \o t
<1>1. /\ Head(t) \in S /\ Tail(t) \in Seq(S) /\ Len(Tail(t)) = Len(t) - 1
      /\ \A i \in 1..Len(Tail(t)) : Tail(t)[i] = t[i + 1]
      /\ Head(t) = t[1]
  BY HeadTailProperties
<1>2. Append(s, Head(t)) \in Seq(S) /\ Len(Append(s, Head(t))) = Len(s) + 1
  BY <1>1
<1>3. Append(s, Head(t)) \o Tail(t) \in Seq(S) /\ s \o t \in Seq(S)
  BY <1>1, <1>2
<1>4. Len(t) \in Nat \ {0} /\ Len(s) \in Nat
  BY EmptySeq, LenProperties
<1>5. Len(Append(s, Head(t)) \o Tail(t)) = Len(s \o t)
  BY <1>1, <1>2, <1>4
<1>6. ASSUME NEW i \in 1..Len(s \o t)
      PROVE  (Append(s, Head(t)) \o Tail(t))[i] = (s \o t)[i]
  BY <1>1, <1>2, <1>4
<1> QED
  BY <1>3, <1>5, <1>6, SeqEqual

\* Appending one element is concatenating a sequence of one.
LEMMA AppendAsConcat ==
    ASSUME NEW S, NEW s \in Seq(S), NEW e \in S
    PROVE  Append(s, e) = s \o <<e>>
  OBVIOUS

\* The first of three concatenated sequences is a prefix of the whole.
LEMMA FirstOfThree ==
    ASSUME NEW S, NEW s \in Seq(S), NEW t \in Seq(S), NEW u \in Seq(S)
    PROVE  /\ Len((s \o t) \o u) = Len(s) + Len(t) + Len(u)
           /\ Len(s) <= Len((s \o t) \o u)
           /\ \A i \in 1..Len(s) : s[i] = ((s \o t) \o u)[i]
<1>1. s \o t \in Seq(S) /\ Len(s \o t) = Len(s) + Len(t)
      /\ \A i \in 1..Len(s) : (s \o t)[i] = s[i]
  OBVIOUS
<1>2. /\ Len((s \o t) \o u) = Len(s \o t) + Len(u)
      /\ \A i \in 1..Len(s \o t) : ((s \o t) \o u)[i] = (s \o t)[i]
  BY <1>1
<1>3. Len(s) \in Nat /\ Len(t) \in Nat /\ Len(u) \in Nat
  BY LenProperties
<1>4. ASSUME NEW i \in 1..Len(s) PROVE s[i] = ((s \o t) \o u)[i]
  <2>1. i \in 1..Len(s \o t)
    BY <1>1, <1>3
  <2> QED BY <1>1, <1>2, <2>1
<1>5. Len((s \o t) \o u) = Len(s) + Len(t) + Len(u)
  BY <1>1, <1>2
<1> QED
  BY <1>3, <1>4, <1>5

\* The empty sequence of chunks.
LEMMA NoChunks == <<>> \in Seq(Chunk) /\ Len(<<>>) = 0
  BY EmptySeq

-----------------------------------------------------------------------------
(***************************************************************************)
(* Type correctness                                                        *)
(***************************************************************************)

\* What the assumptions say of the request at hand and of finish().
LEMMA FinishType ==
    ASSUME TypeOK
    PROVE  /\ request.metered \in BOOLEAN /\ request.chunks \in Nat
           /\ request.effort \in STRING \cup {None}
           /\ finish(effort) \in [mirrored : Nat, parsed : BOOLEAN, value : STRING \cup {None}]
           /\ finish(effort).parsed
  BY RequestsAssumption DEF TypeOK, finish, declared_effort_from

\* Every action keeps the types of all the variables.
LEMMA TypeStep == TypeOK /\ [Next]_vars => TypeOK'
<1> SUFFICES ASSUME TypeOK, [Next]_vars PROVE TypeOK'
  OBVIOUS
<1> USE DEF TypeOK, reqVars, pumpVars, chanVars, callerVars
<1>1. CASE ForwardRequestChunk
  BY <1>1 DEF ForwardRequestChunk, observe
<1>2. ASSUME NEW r \in Responses, SendOk(r) PROVE TypeOK'
  BY <1>2 DEF SendOk
<1>3. CASE SendErr
  BY <1>3, FinishType DEF SendErr
<1>4. CASE DropHandler
  BY <1>4 DEF DropHandler
<1>5. ASSUME NEW c \in Chunk, PumpRecv(c) PROVE TypeOK'
  BY <1>5 DEF PumpRecv, Mirror
<1>6. CASE PumpSend
  <2>1. chan' \in Seq(Chunk) /\ Len(chan') = Len(chan) + Len(inhand)
    BY <1>6 DEF PumpSend, Sent
  <2>2. Len(chan') <= Capacity
    BY <1>6, <2>1, CapacityAssumption DEF PumpSend, HasRoom
  <2> QED BY <1>6, <2>1, <2>2 DEF PumpSend
<1>7. CASE PumpSendErr
  <2>1. inhand' \in Seq(Chunk) /\ Len(inhand') <= 1
    BY <1>7, NoChunks DEF PumpSendErr, Leave
  <2>2. /\ pump' = "closed" /\ txOpen' \in BOOLEAN
        /\ outcome' \in {"completed", "upstream_interrupted", "client_cancelled"}
    BY <1>7 DEF PumpSendErr, Leave
  <2> QED BY <1>7, <2>1, <2>2 DEF PumpSendErr
<1>8. CASE PumpEof
  <2>1. inhand' \in Seq(Chunk) /\ Len(inhand') <= 1
    BY <1>8, NoChunks DEF PumpEof, Leave
  <2>2. /\ pump' = "closed" /\ txOpen' \in BOOLEAN
        /\ outcome' \in {"completed", "upstream_interrupted", "client_cancelled"}
    BY <1>8 DEF PumpEof, Leave
  <2> QED BY <1>8, <2>1, <2>2 DEF PumpEof
<1>9. CASE PumpErr
  <2>1. inhand' \in Seq(Chunk) /\ Len(inhand') <= 1
    BY <1>9, NoChunks DEF PumpErr, Leave
  <2>2. /\ pump' = "closed" /\ txOpen' \in BOOLEAN
        /\ outcome' \in {"completed", "upstream_interrupted", "client_cancelled"}
    BY <1>9 DEF PumpErr, Leave, InterruptedOutcome
  <2> QED BY <1>9, <2>1, <2>2 DEF PumpErr
<1>10. CASE PumpGone
  <2>1. inhand' \in Seq(Chunk) /\ Len(inhand') <= 1
    BY <1>10, NoChunks DEF PumpGone, Leave
  <2>2. /\ pump' = "closed" /\ txOpen' \in BOOLEAN
        /\ outcome' \in {"completed", "upstream_interrupted", "client_cancelled"}
    BY <1>10 DEF PumpGone, Leave
  <2> QED BY <1>10, <2>1, <2>2 DEF PumpGone
<1>11. CASE Finalize
  BY <1>11, FinishType DEF Finalize
<1>12. CASE ServerPull
  <2>1. Head(chan) \in Chunk /\ Tail(chan) \in Seq(Chunk) /\ Len(Tail(chan)) = Len(chan) - 1
    BY <1>12, HeadTailProperties DEF ServerPull
  <2>2. received' \in Seq(Chunk) /\ chan' \in Seq(Chunk) /\ Len(chan') <= Capacity
    BY <1>12, <2>1, CapacityAssumption DEF ServerPull
  <2> QED BY <1>12, <2>2 DEF ServerPull
<1>13. CASE ServerEof
  <2>1. chan' \in Seq(Chunk) /\ Len(chan') <= Capacity
    BY <1>13, NoChunks, CapacityAssumption DEF ServerEof, DropBody
  <2>2. permit' \in BOOLEAN /\ rxOpen' \in BOOLEAN
    BY <1>13 DEF ServerEof, DropBody
  <2> QED BY <1>13, <2>1, <2>2 DEF ServerEof
<1>14. CASE ServerLengthReached
  <2>1. chan' \in Seq(Chunk) /\ Len(chan') <= Capacity
    BY <1>14, NoChunks, CapacityAssumption DEF ServerLengthReached, DropBody
  <2>2. permit' \in BOOLEAN /\ rxOpen' \in BOOLEAN
    BY <1>14 DEF ServerLengthReached, DropBody
  <2> QED BY <1>14, <2>1, <2>2 DEF ServerLengthReached
<1>15. CASE CallerGone
  <2>1. chan' \in Seq(Chunk) /\ Len(chan') <= Capacity
    BY <1>15, NoChunks, CapacityAssumption DEF CallerGone, DropBody
  <2>2. permit' \in BOOLEAN /\ rxOpen' \in BOOLEAN
    BY <1>15 DEF CallerGone, DropBody
  <2> QED BY <1>15, <2>1, <2>2 DEF CallerGone
<1>16. CASE UNCHANGED vars
  BY <1>16 DEF vars
<1> HIDE DEF TypeOK
<1> QED
  BY <1>1, <1>2, <1>3, <1>4, <1>5, <1>6, <1>7, <1>8, <1>9, <1>10, <1>11, <1>12,
     <1>13, <1>14, <1>15, <1>16 DEF Next, Handler, Pump, Server

\* The first state is well typed.
LEMMA TypeInit == Init => TypeOK
<1> SUFFICES ASSUME Init PROVE TypeOK
  OBVIOUS
<1>1. /\ pulled \in Seq(Chunk) /\ mirror \in Seq(Chunk) /\ received \in Seq(Chunk)
      /\ inhand \in Seq(Chunk) /\ Len(inhand) <= 1
      /\ chan \in Seq(Chunk) /\ Len(chan) <= Capacity
  BY NoChunks, CapacityAssumption DEF Init
<1> QED
  BY <1>1 DEF Init, TypeOK

\* The variables of the relay keep their types; in particular the channel never
\* holds more than its capacity and the pump never more than one chunk.
THEOREM TypeCorrect == Spec => []TypeOK
<1>1. TypeOK /\ [Next]_vars => TypeOK'
  BY TypeStep
<1> QED
  BY <1>1, TypeInit, PTL DEF Spec

-----------------------------------------------------------------------------
(***************************************************************************)
(* The inductive invariant                                                 *)
(***************************************************************************)

\* The phases of the actors stay in agreement.
LEMMA PhaseStep ==
    ASSUME TypeOK, PhaseInv, [Next]_vars
    PROVE  PhaseInv'
<1> USE DEF TypeOK, PhaseInv, reqVars, pumpVars, chanVars, callerVars
<1>1. CASE ForwardRequestChunk
  BY <1>1 DEF ForwardRequestChunk
<1>2. ASSUME NEW r \in Responses, SendOk(r) PROVE PhaseInv'
  <2>1. r # None
    BY ResponsesAssumption
  <2> QED BY <1>2, <2>1 DEF SendOk
<1>3. CASE SendErr
  BY <1>3 DEF SendErr
<1>4. CASE DropHandler
  BY <1>4 DEF DropHandler
<1>5. ASSUME NEW c \in Chunk, PumpRecv(c) PROVE PhaseInv'
  BY <1>5 DEF PumpRecv
<1>6. CASE PumpSend
  BY <1>6 DEF PumpSend
<1>7. CASE PumpSendErr
  BY <1>7 DEF PumpSendErr, Leave
<1>8. CASE PumpEof
  BY <1>8 DEF PumpEof, Leave
<1>9. CASE PumpErr
  BY <1>9 DEF PumpErr, Leave, InterruptedOutcome
<1>10. CASE PumpGone
  BY <1>10 DEF PumpGone, Leave
<1>11. CASE Finalize
  BY <1>11 DEF Finalize
<1>12. CASE ServerPull
  BY <1>12 DEF ServerPull
<1>13. CASE ServerEof
  BY <1>13 DEF ServerEof, DropBody
<1>14. CASE ServerLengthReached
  BY <1>14 DEF ServerLengthReached, DropBody
<1>15. CASE CallerGone
  BY <1>15 DEF CallerGone, DropBody
<1>16. CASE UNCHANGED vars
  BY <1>16 DEF vars
<1> HIDE DEF TypeOK, PhaseInv
<1> QED
  BY <1>1, <1>2, <1>3, <1>4, <1>5, <1>6, <1>7, <1>8, <1>9,
     <1>10, <1>11, <1>12, <1>13, <1>14, <1>15, <1>16
     DEF Next, Handler, Pump, Server

\* No step loses, repeats or reorders a chunk, nor lets more than Capacity + 1 be on
\* their way.
LEMMA OrderStep ==
    ASSUME TypeOK, TypeOK', PhaseInv, PhaseInv', OrderInv, [Next]_vars
    PROVE  OrderInv'
<1> USE DEF reqVars, pumpVars, chanVars, callerVars
<1>t. /\ pulled \in Seq(Chunk) /\ received \in Seq(Chunk) /\ chan \in Seq(Chunk)
      /\ inhand \in Seq(Chunk) /\ mirror \in Seq(Chunk)
      /\ Len(pulled) \in Nat /\ Len(received) \in Nat /\ Len(chan) \in Nat
      /\ Capacity \in Nat
  BY CapacityAssumption, LenProperties DEF TypeOK
<1>1. CASE ForwardRequestChunk
  BY <1>1 DEF ForwardRequestChunk, OrderInv
<1>2. ASSUME NEW r \in Responses, SendOk(r) PROVE OrderInv'
  <2>1. pulled' = <<>> /\ received' = <<>> /\ chan' = <<>> /\ inhand' = <<>>
    BY <1>2 DEF SendOk, PhaseInv
  <2>2. (<<>> \o <<>>) \o <<>> = <<>>
    BY NoChunks, ConcatEmptySeq
  <2>3. (received' \o chan') \o inhand' = pulled'
    BY <2>1, <2>2
  <2>4. Len(pulled') = 0 /\ Len(received') = 0
    BY <2>1, NoChunks
  <2>5. request.metered' => mirror' = pulled'
    BY <1>2 DEF SendOk, OrderInv
  <2> QED BY <1>t, <2>3, <2>4, <2>5 DEF OrderInv
<1>3. CASE SendErr
  BY <1>3 DEF SendErr, OrderInv
<1>4. CASE DropHandler
  BY <1>4 DEF DropHandler, OrderInv
<1>5. ASSUME NEW c \in Chunk, PumpRecv(c) PROVE OrderInv'
  <2>1. inhand = <<>> /\ pump = "next"
    BY <1>5 DEF PumpRecv, PhaseInv
  <2>2. rxOpen' => (received' \o chan') \o inhand' = pulled'
    <3>1. SUFFICES ASSUME rxOpen PROVE (received \o chan) \o <<c>> = Append(pulled, c)
      BY <1>5 DEF PumpRecv
    <3>2. received \o chan = pulled
      BY <1>t, <2>1, <3>1, ConcatEmptySeq, ConcatProperties DEF OrderInv
    <3> QED BY <1>t, <3>2, AppendAsConcat
  <2>3. Len(pulled') = Len(pulled) + 1 /\ \A i \in 1..Len(pulled) : pulled'[i] = pulled[i]
    BY <1>5, <1>t DEF PumpRecv
  <2>4. request.metered' => mirror' = pulled'
    BY <1>5 DEF PumpRecv, Mirror, OrderInv
  <2>5. received' = received /\ pump' = "send"
    BY <1>5 DEF PumpRecv
  <2>6. Len(received') <= Len(pulled') /\ \A i \in 1..Len(received') : received'[i] = pulled'[i]
    BY <1>t, <2>3, <2>5 DEF OrderInv
  <2>7. Len(pulled') <= Len(received') + Capacity + 1
    BY <1>t, <2>1, <2>3, <2>5 DEF OrderInv
  <2> QED BY <2>2, <2>4, <2>5, <2>6, <2>7 DEF OrderInv
<1>6. CASE PumpSend
  <2>1. chan' = chan \o inhand /\ inhand' = <<>> /\ received' = received
        /\ pulled' = pulled /\ rxOpen /\ pump' = "next"
    BY <1>6 DEF PumpSend, Sent
  <2>2. (received' \o chan') \o inhand' = pulled'
    <3>1. received \o (chan \o inhand) = pulled
      <4>1. received \in Seq(Chunk) /\ chan \in Seq(Chunk) /\ inhand \in Seq(Chunk)
        BY <1>t
      <4>2. (received \o chan) \o inhand = received \o (chan \o inhand)
        BY <4>1, ConcatAssociative, SMTT(30)
      <4>3. (received \o chan) \o inhand = pulled
        BY <2>1 DEF OrderInv
      <4> QED BY <4>2, <4>3
    <3>2. (received \o (chan \o inhand)) \o <<>> = received \o (chan \o inhand)
      BY <1>t, ConcatEmptySeq, ConcatProperties
    <3> QED BY <2>1, <3>1, <3>2
  <2>3. Len(pulled') <= Len(received') + Capacity
    <3>1. chan' \in Seq(Chunk) /\ inhand' \in Seq(Chunk) /\ received' \in Seq(Chunk)
          /\ Len(chan') <= Capacity /\ Len(chan') \in Nat /\ Len(inhand') = 0
      BY <2>1, NoChunks, LenProperties DEF TypeOK
    <3>2. Len(pulled') = Len(received') + Len(chan') + Len(inhand')
      BY <2>2, <3>1, FirstOfThree
    <3> QED BY <1>t, <2>1, <3>1, <3>2
  <2>4. request.metered' => mirror' = pulled'
    BY <1>6 DEF PumpSend, OrderInv
  <2>5. Len(received') <= Len(pulled') /\ \A i \in 1..Len(received') : received'[i] = pulled'[i]
    BY <2>1 DEF OrderInv
  <2>6. Len(pulled') <= Len(received') + Capacity + (IF pump' = "next" THEN 0 ELSE 1)
    BY <1>t, <2>1, <2>3
  <2> QED BY <2>2, <2>4, <2>5, <2>6 DEF OrderInv
<1>7. CASE PumpSendErr
  BY <1>7, <1>t DEF PumpSendErr, Leave, OrderInv
<1>8. CASE PumpEof
  <2>1. /\ UNCHANGED <<received, chan, inhand, pulled, mirror, request, rxOpen>>
        /\ pump = "next" /\ pump' = "closed"
    BY <1>8 DEF PumpEof, Leave, PhaseInv
  <2> QED BY <1>t, <2>1 DEF OrderInv
<1>9. CASE PumpErr
  <2>1. /\ UNCHANGED <<received, chan, inhand, pulled, mirror, request, rxOpen>>
        /\ pump = "next" /\ pump' = "closed"
    BY <1>9 DEF PumpErr, Leave, PhaseInv
  <2> QED BY <1>t, <2>1 DEF OrderInv
<1>10. CASE PumpGone
  BY <1>10, <1>t DEF PumpGone, Leave, OrderInv, PhaseInv
<1>11. CASE Finalize
  BY <1>11 DEF Finalize, OrderInv
<1>12. CASE ServerPull
  <2>1. received' = Append(received, Head(chan)) /\ chan' = Tail(chan) /\ chan # <<>>
        /\ rxOpen /\ UNCHANGED <<pulled, inhand, pump, mirror, request>>
    BY <1>12 DEF ServerPull
  <2>2. received' \o chan' = received \o chan
    BY <1>t, <2>1, MoveHead
  <2>3. (received' \o chan') \o inhand' = pulled'
    BY <2>1, <2>2 DEF OrderInv
  <2>4. chan' \in Seq(Chunk) /\ received' \in Seq(Chunk) /\ inhand' \in Seq(Chunk)
    BY DEF TypeOK
  <2>5. Len(received') <= Len(pulled') /\ \A i \in 1..Len(received') : received'[i] = pulled'[i]
    <3>1. /\ Len(received') <= Len((received' \o chan') \o inhand')
          /\ \A i \in 1..Len(received') : received'[i] = ((received' \o chan') \o inhand')[i]
      BY <2>4, FirstOfThree
    <3> QED BY <2>3, <3>1
  <2>6. Len(received') = Len(received) + 1
    BY <1>t, <2>1, HeadTailProperties
  <2>7. Len(pulled') <= Len(received') + Capacity + (IF pump' = "next" THEN 0 ELSE 1)
    BY <1>t, <2>1, <2>6 DEF OrderInv
  <2> QED BY <2>1, <2>3, <2>5, <2>7 DEF OrderInv
<1>13. CASE ServerEof
  BY <1>13 DEF ServerEof, DropBody, OrderInv
<1>14. CASE ServerLengthReached
  BY <1>14 DEF ServerLengthReached, DropBody, OrderInv
<1>15. CASE CallerGone
  BY <1>15 DEF CallerGone, DropBody, OrderInv
<1>16. CASE UNCHANGED vars
  BY <1>16 DEF vars, OrderInv
<1> QED
  BY <1>1, <1>2, <1>3, <1>4, <1>5, <1>6, <1>7, <1>8, <1>9,
     <1>10, <1>11, <1>12, <1>13, <1>14, <1>15, <1>16
     DEF Next, Handler, Pump, Server

\* Equal lengths turn the prefix the caller holds into the whole.
LEMMA AllReceived ==
    ASSUME TypeOK, OrderInv, Len(received) >= Len(pulled)
    PROVE  received = pulled
<1>1. received \in Seq(Chunk) /\ pulled \in Seq(Chunk)
      /\ Len(received) \in Nat /\ Len(pulled) \in Nat
  BY LenProperties DEF TypeOK
<1>2. Len(received) = Len(pulled) /\ \A i \in 1..Len(received) : received[i] = pulled[i]
  BY <1>1 DEF OrderInv
<1> QED
  BY <1>1, <1>2, SeqEqual

\* Once the channel is drained and the pump has left, the caller holds everything.
LEMMA DrainedIsAll ==
    ASSUME TypeOK, PhaseInv, OrderInv, rxOpen, chan = <<>>, ~txOpen
    PROVE  received = pulled
<1>1. inhand = <<>>
  BY DEF TypeOK, PhaseInv
<1>2. received \in Seq(Chunk)
  BY DEF TypeOK
<1>3. (received \o <<>>) \o <<>> = received
  BY <1>2, ConcatEmptySeq
<1> QED
  BY <1>1, <1>3 DEF OrderInv

\* How the body ended, for the upstream, the pump and the caller, stays consistent.
LEMMA EndStep ==
    ASSUME TypeOK, TypeOK', PhaseInv, PhaseInv', OrderInv, OrderInv', EndInv, [Next]_vars
    PROVE  EndInv'
<1> USE DEF EndInv, EndIsFaithful, AllOfLength, reqVars, pumpVars, chanVars, callerVars
<1>t. /\ Len(pulled) \in Nat /\ Len(received) \in Nat
      /\ resp # None => resp.len \in Nat
      /\ Len(received) <= Len(pulled)
  BY ResponsesAssumption, LenProperties DEF TypeOK, OrderInv
<1>1. CASE ForwardRequestChunk
  BY <1>1 DEF ForwardRequestChunk
<1>2. ASSUME NEW r \in Responses, SendOk(r) PROVE EndInv'
  <2>1. Len(pulled) = 0 /\ r.len \in Nat /\ conn = "open" /\ pump = "none"
    BY <1>2, NoChunks, ResponsesAssumption DEF SendOk, PhaseInv
  <2> QED BY <1>2, <2>1 DEF SendOk
<1>3. CASE SendErr
  BY <1>3 DEF SendErr, PhaseInv
<1>4. CASE DropHandler
  BY <1>4 DEF DropHandler, PhaseInv
<1>5. ASSUME NEW c \in Chunk, PumpRecv(c) PROVE EndInv'
  <2>1. /\ pulled' = Append(pulled, c) /\ Len(pulled') = Len(pulled) + 1
        /\ pump = "next" /\ pump' = "send"
        /\ UNCHANGED <<head, resp, upEnd, outcome, conn, received>>
    BY <1>5 DEF PumpRecv, TypeOK
  <2>2. head = "ok" /\ resp # None
    BY <2>1 DEF PhaseInv
  <2>3. resp.framing = "length" => Len(pulled) < resp.len
    BY <1>5 DEF PumpRecv, MoreExpected
  <2>4. conn \notin {"complete", "truncated"}
    BY <1>t, <2>1, <2>2, <2>3
  <2>5. resp.framing = "length" => Len(received) < resp.len
    BY <1>t, <2>2, <2>3
  <2> QED BY <1>t, <2>1, <2>2, <2>3, <2>4, <2>5
<1>6. CASE PumpSend
  BY <1>6 DEF PumpSend
<1>7. CASE PumpSendErr
  BY <1>7 DEF PumpSendErr, Leave, PhaseInv
<1>8. CASE PumpEof
  BY <1>8, <1>t DEF PumpEof, Leave, PhaseInv
<1>9. CASE PumpErr
  BY <1>9, <1>t DEF PumpErr, Leave, PhaseInv, InterruptedOutcome
<1>10. CASE PumpGone
  BY <1>10 DEF PumpGone, Leave, PhaseInv
<1>11. CASE Finalize
  BY <1>11 DEF Finalize
<1>12. CASE ServerPull
  BY <1>12 DEF ServerPull
<1>13. CASE ServerEof
  <2>1. received = pulled
    BY <1>13, DrainedIsAll DEF ServerEof
  <2>2. head = "ok" /\ pump \in {"closed", "done"}
    BY <1>13 DEF ServerEof, PhaseInv, TypeOK
  <2>3. upEnd # "open" /\ (resp.framing = "length" => upEnd = "error")
    BY <1>13, <2>1, <2>2 DEF ServerEof
  <2> QED BY <1>13, <2>1, <2>2, <2>3 DEF ServerEof, DropBody
<1>14. CASE ServerLengthReached
  <2>1. head = "ok" /\ resp # None /\ Len(received) = resp.len /\ resp.framing = "length"
    BY <1>14 DEF ServerLengthReached, PhaseInv
  <2>2. received = pulled
    BY <1>t, <2>1, AllReceived
  <2> QED BY <1>14, <2>1, <2>2 DEF ServerLengthReached, DropBody
<1>15. CASE CallerGone
  BY <1>15 DEF CallerGone, DropBody
<1>16. CASE UNCHANGED vars
  BY <1>16 DEF vars
<1> HIDE DEF EndInv, EndIsFaithful, AllOfLength
<1> QED
  BY <1>1, <1>2, <1>3, <1>4, <1>5, <1>6, <1>7, <1>8, <1>9,
     <1>10, <1>11, <1>12, <1>13, <1>14, <1>15, <1>16
     DEF Next, Handler, Pump, Server

\* Appending to no record leaves exactly that record.
LEMMA FirstRecord ==
    ASSUME NEW rec
    PROVE  Append(<<>>, rec) = <<rec>> /\ <<rec>>[1] = rec /\ <<rec>> # <<>>
           /\ Len(<<rec>>) = 1
  OBVIOUS

\* A record is made once, at the end of the lifecycle, and stays the one that was due.
LEMMA RecordStep ==
    ASSUME TypeOK, PhaseInv, PhaseInv', RecordInv, EffortInv, [Next]_vars
    PROVE  RecordInv'
<1> USE DEF reqVars, pumpVars, chanVars, callerVars
<1> DEFINE Over == request.metered /\ (pump = "done" \/ head = "err")
<1>a. ASSUME UNCHANGED <<request, pump, head, resp, outcome, mirror, effort, records>>
      PROVE  RecordInv'
  <2>1. UNCHANGED DueRecord
    BY <1>a DEF DueRecord
  <2> QED BY <1>a, <2>1 DEF RecordInv
<1>b. ASSUME ~Over, ~Over', records' = records PROVE RecordInv'
  <2>1. records = <<>>
    BY <1>b DEF RecordInv
  <2> QED BY <1>b, <2>1 DEF RecordInv
<1>1. CASE ForwardRequestChunk
  <2>1. CASE Over
    <3>1. effort' = effort
      BY <1>1, <2>1 DEF ForwardRequestChunk, observe, EffortInv
    <3> QED BY <1>1, <1>a, <3>1 DEF ForwardRequestChunk
  <2>2. CASE ~Over
    BY <1>1, <1>b, <2>2 DEF ForwardRequestChunk
  <2> QED BY <2>1, <2>2
<1>2. ASSUME NEW r \in Responses, SendOk(r) PROVE RecordInv'
  <2>1. ~Over /\ ~Over' /\ records' = records
    BY <1>2 DEF SendOk, PhaseInv
  <2> QED BY <1>b, <2>1
<1>3. CASE SendErr
  <2> DEFINE rec == TransportErrorRecord(finish(effort).value)
  <2>1. ~Over /\ records = <<>> /\ head' = "err" /\ request' = request
    BY <1>3 DEF SendErr, PhaseInv, RecordInv
  <2>2. CASE ~request.metered
    BY <1>3, <1>b, <2>1, <2>2 DEF SendErr
  <2>3. CASE request.metered
    <3>1. records' = Append(<<>>, rec) /\ effort' = finish(effort)
      BY <1>3, <2>1, <2>3 DEF SendErr
    <3>2. DueRecord' = rec
      BY <2>1, <3>1 DEF DueRecord
    <3> HIDE DEF rec
    <3>3. records' = <<DueRecord'>>
      BY <3>1, <3>2, FirstRecord
    <3> QED BY <2>1, <2>3, <3>3 DEF RecordInv
  <2> QED BY <2>2, <2>3
<1>4. CASE DropHandler
  <2>1. ~Over /\ ~Over' /\ records' = records
    BY <1>4 DEF DropHandler, PhaseInv
  <2> QED BY <1>b, <2>1
<1>5. CASE Pump
  <2>1. pump \in {"next", "send"} /\ pump' # "done" /\ UNCHANGED <<head, request, records>>
    BY <1>5 DEF Pump, PumpRecv, PumpSend, PumpSendErr, PumpEof, PumpErr, PumpGone, Leave
  <2>2. ~Over /\ ~Over'
    BY <2>1 DEF PhaseInv
  <2> QED BY <1>b, <2>1, <2>2
<1>6. CASE Finalize
  <2> DEFINE rec == record_audit(resp, outcome, parse_mirror(mirror, resp.model),
                                 finish(effort).value)
  <2>1. /\ records = <<>> /\ head = "ok" /\ pump' = "done" /\ ~Over
        /\ UNCHANGED <<request, head, outcome, resp, mirror>>
    BY <1>6 DEF Finalize, PhaseInv, RecordInv
  <2>2. CASE ~request.metered
    BY <1>6, <1>b, <2>1, <2>2 DEF Finalize, Audited
  <2>3. CASE request.metered
    <3>1. records' = Append(<<>>, rec) /\ effort' = finish(effort)
      BY <1>6, <2>1, <2>3 DEF Finalize, Audited
    <3>2. DueRecord' = rec
      BY <2>1, <3>1 DEF DueRecord
    <3> HIDE DEF rec
    <3>3. records' = <<DueRecord'>>
      BY <3>1, <3>2, FirstRecord
    <3> QED BY <2>1, <2>3, <3>3 DEF RecordInv
  <2> QED BY <2>2, <2>3
<1>7. CASE Server
  BY <1>7, <1>a DEF Server, ServerPull, ServerEof, ServerLengthReached, CallerGone
<1>8. CASE UNCHANGED vars
  BY <1>8, <1>a DEF vars
<1> QED
  BY <1>1, <1>2, <1>3, <1>4, <1>5, <1>6, <1>7, <1>8 DEF Next, Handler

\* The effort observer counts the forwarded chunks until the lifecycle is over.
LEMMA EffortStep ==
    ASSUME TypeOK, PhaseInv, EffortInv, [Next]_vars
    PROVE  EffortInv'
<1> USE DEF EffortInv, reqVars, pumpVars, chanVars, callerVars
<1>1. CASE ForwardRequestChunk
  BY <1>1 DEF ForwardRequestChunk, observe, TypeOK
<1>2. ASSUME NEW r \in Responses, SendOk(r) PROVE EffortInv'
  BY <1>2 DEF SendOk, PhaseInv
<1>3. CASE SendErr
  BY <1>3, FinishType DEF SendErr
<1>4. CASE DropHandler
  BY <1>4 DEF DropHandler, PhaseInv
<1>5. ASSUME NEW c \in Chunk, PumpRecv(c) PROVE EffortInv'
  BY <1>5 DEF PumpRecv, PhaseInv
<1>6. CASE PumpSend
  BY <1>6 DEF PumpSend, PhaseInv
<1>7. CASE PumpSendErr
  BY <1>7 DEF PumpSendErr, Leave, PhaseInv
<1>8. CASE PumpEof
  BY <1>8 DEF PumpEof, Leave, PhaseInv
<1>9. CASE PumpErr
  BY <1>9 DEF PumpErr, Leave, PhaseInv
<1>10. CASE PumpGone
  BY <1>10 DEF PumpGone, Leave, PhaseInv
<1>11. CASE Finalize
  BY <1>11, FinishType DEF Finalize, Audited
<1>12. CASE ServerPull
  BY <1>12 DEF ServerPull
<1>13. CASE ServerEof
  BY <1>13 DEF ServerEof
<1>14. CASE ServerLengthReached
  BY <1>14 DEF ServerLengthReached
<1>15. CASE CallerGone
  BY <1>15 DEF CallerGone
<1>16. CASE UNCHANGED vars
  BY <1>16 DEF vars
<1> HIDE DEF EffortInv
<1> QED
  BY <1>1, <1>2, <1>3, <1>4, <1>5, <1>6, <1>7, <1>8, <1>9,
     <1>10, <1>11, <1>12, <1>13, <1>14, <1>15, <1>16
     DEF Next, Handler, Pump, Server

\* The first state satisfies the invariant.
LEMMA InitInv == Init => RelayInv
<1> SUFFICES ASSUME Init PROVE RelayInv
  OBVIOUS
<1>1. PhaseInv
  BY ResponsesAssumption DEF Init, PhaseInv
<1>2. OrderInv
  <2>1. Len(pulled) = 0 /\ Len(received) = 0 /\ Capacity \in Nat /\ mirror = pulled /\ ~rxOpen
    BY NoChunks, CapacityAssumption DEF Init
  <2> QED BY <2>1 DEF OrderInv
<1>3. EndInv
  BY DEF Init, EndInv, EndIsFaithful
<1>4. RecordInv
  BY DEF Init, RecordInv
<1>5. EffortInv
  BY DEF Init, EffortInv
<1> QED
  BY <1>1, <1>2, <1>3, <1>4, <1>5 DEF RelayInv

\* Every step preserves the invariant.
LEMMA InvStep == TypeOK /\ RelayInv /\ [Next]_vars => RelayInv'
<1> SUFFICES ASSUME TypeOK, PhaseInv, OrderInv, EndInv, RecordInv, EffortInv, [Next]_vars
             PROVE  RelayInv'
  BY DEF RelayInv
<1>1. TypeOK'
  BY TypeStep
<1>2. PhaseInv'
  BY PhaseStep
<1>3. OrderInv'
  BY <1>1, <1>2, OrderStep
<1>4. EndInv'
  BY <1>1, <1>2, <1>3, EndStep
<1>5. RecordInv' /\ EffortInv'
  BY <1>2, RecordStep, EffortStep
<1> QED
  BY <1>2, <1>3, <1>4, <1>5 DEF RelayInv

\* In every reachable state the phases of the four actors agree, the chunks are where
\* they should be and the records are those of finished lifecycles.
THEOREM Invariance == Spec => [](TypeOK /\ RelayInv)
<1>1. Init => TypeOK /\ RelayInv
  <2>1. Init => TypeOK
    BY TypeInit
  <2> QED BY <2>1, InitInv
<1>2. (TypeOK /\ RelayInv) /\ [Next]_vars => (TypeOK /\ RelayInv)'
  BY TypeStep, InvStep
<1> QED
  BY <1>1, <1>2, PTL DEF Spec

-----------------------------------------------------------------------------
(***************************************************************************)
(* What the invariant gives                                                *)
(***************************************************************************)

\* The response body is relayed in order and without loss: the caller always holds
\* a prefix of what the upstream yielded, and while the body is open the rest is in
\* the channel and in the pump's hand (lib.rs, the pump loop).
THEOREM InOrder == Spec => []RelayedInOrder
<1>1. TypeOK /\ RelayInv => RelayedInOrder
  <2> SUFFICES ASSUME TypeOK, RelayInv PROVE IsPrefix(received, pulled)
    BY DEF RelayInv, OrderInv, RelayedInOrder
  <2>1. received \in Seq(Chunk) /\ pulled \in Seq(Chunk) /\ Len(received) \in Nat
        /\ Len(pulled) \in Nat
    BY LenProperties DEF TypeOK
  <2>2. Len(received) <= Len(pulled) /\ \A i \in 1..Len(received) : received[i] = pulled[i]
    BY DEF RelayInv, OrderInv
  <2>3. /\ \A i \in 1..Len(received) : received[i] \in Chunk
        /\ \A i \in 1..Len(received) : pulled[i] \in Chunk
    BY <2>1, <2>2, ElementOfSeq
  <2>4. /\ SubSeq(pulled, 1, Len(received)) \in Seq(Chunk)
        /\ Len(SubSeq(pulled, 1, Len(received))) = Len(received)
        /\ \A i \in 1..Len(received) : SubSeq(pulled, 1, Len(received))[i] = pulled[i]
    BY <2>1, <2>3, SubSeqProperties
  <2>5. SubSeq(received, 1, Len(received)) = received
    BY <2>1, SubSeqFull
  <2>6. SubSeq(pulled, 1, Len(received)) = received
    BY <2>1, <2>2, <2>4, SeqEqual
  <2> QED BY <2>2, <2>5, <2>6 DEF IsPrefix
<1> QED
  BY <1>1, Invariance, PTL

\* A caller that was told its body is over holds all that the upstream yielded, and
\* is cut short only after the upstream failed.
THEOREM FaithfulEnd == Spec => []EndIsFaithful
<1>1. TypeOK /\ RelayInv => EndIsFaithful
  BY DEF RelayInv, EndInv
<1> QED
  BY <1>1, Invariance, PTL

\* At most one record per accepted request, none for an unmetered path and none
\* before the lifecycle is over.
THEOREM OneRecord == Spec => []OneRecordPerLifecycle
<1>1. TypeOK /\ RelayInv => OneRecordPerLifecycle
  <2> SUFFICES ASSUME RecordInv PROVE OneRecordPerLifecycle
    BY DEF RelayInv
  <2>1. CASE request.metered /\ (pump = "done" \/ head = "err")
    <3>1. Len(<<records[1]>>) = 1
      BY FirstRecord
    <3> QED BY <2>1, <3>1 DEF RecordInv, OneRecordPerLifecycle
  <2>2. CASE ~(request.metered /\ (pump = "done" \/ head = "err"))
    BY <2>2, NoChunks DEF RecordInv, OneRecordPerLifecycle
  <2> QED BY <2>1, <2>2
<1> QED
  BY <1>1, Invariance, PTL

\* A record that exists is the transport error of a refused request or what Finalize
\* makes of everything the upstream yielded to the pump.
LEMMA Recorded ==
    ASSUME TypeOK, RelayInv, NEW i \in DOMAIN records
    PROVE  \/ head = "err" /\ records[i] = TransportErrorRecord(effort.value)
           \/ /\ head = "ok" /\ pump = "done" /\ resp \in Responses
              /\ records[i] = record_audit(resp, outcome, parse_mirror(pulled, resp.model),
                                           effort.value)
<1>1. request.metered /\ (pump = "done" \/ head = "err")
  <2> SUFFICES ASSUME records = <<>> PROVE FALSE
    BY DEF RelayInv, RecordInv
  <2> QED OBVIOUS
<1>2. records = <<DueRecord>>
  BY <1>1 DEF RelayInv, RecordInv
<1>3. i = 1
  <2>1. DOMAIN <<DueRecord>> = {1}
    OBVIOUS
  <2> QED BY <1>2, <2>1
<1>4. records[i] = DueRecord
  BY <1>2, <1>3, FirstRecord
<1>5. CASE head = "err"
  BY <1>4, <1>5 DEF DueRecord
<1>6. CASE head # "err"
  <2>1. head = "ok" /\ pump = "done" /\ resp \in Responses /\ mirror = pulled
    BY <1>1, <1>6 DEF RelayInv, PhaseInv, OrderInv, TypeOK
  <2> QED BY <1>4, <1>6, <2>1 DEF DueRecord
<1> QED BY <1>5, <1>6

\* Without an announced length, client_cancelled is recorded only for a caller that
\* left: no interleaving of the end of the body, the drop of the response body and
\* the notification turns a finished response into a cancelled one.
THEOREM CancelledIsAbandoned == Spec => []CancelledMeansAbandoned
<1>1. TypeOK /\ RelayInv => CancelledMeansAbandoned
  <2> SUFFICES ASSUME TypeOK, RelayInv, NEW i \in DOMAIN records,
                      records[i].outcome = "client_cancelled", resp.framing = "chunked"
               PROVE  conn = "gone"
    BY DEF CancelledMeansAbandoned
  <2>1. head = "ok" /\ pump = "done" /\ outcome = "client_cancelled"
    <3>1. TransportErrorRecord(effort.value).outcome # "client_cancelled"
      BY DEF TransportErrorRecord
    <3>2. \A p : record_audit(resp, outcome, p, effort.value).outcome = "client_cancelled"
                    => outcome = "client_cancelled"
      BY DEF record_audit, RecordedOutcome
    <3> QED BY <3>1, <3>2, Recorded
  <2>2. upEnd = "open" /\ conn # "open"
    BY <2>1 DEF RelayInv, EndInv
  <2> QED BY <2>1, <2>2 DEF RelayInv, EndInv, AllOfLength
<1> QED
  BY <1>1, Invariance, PTL

\* The events of any body the upstream can yield are a sequence.
LEMMA PulledEvents ==
    ASSUME TypeOK
    PROVE  sse_events(pulled) \in Seq(UNION {ToSet(c.events) : c \in Chunk})
<1> DEFINE E == UNION {ToSet(c.events) : c \in Chunk}
<1>1. ASSUME NEW c \in Chunk PROVE c.events \in Seq(E)
  <2>1. ToSet(c.events) \subseteq E
    OBVIOUS
  <2>2. c.events \in Seq(ToSet(c.events))
    BY ChunkAssumption
  <2> HIDE DEF E
  <2> QED BY <2>1, <2>2, SeqMonotonic
<1>2. pulled \in Seq(Chunk)
  BY DEF TypeOK
<1> HIDE DEF E
<1>3. sse_events(pulled) \in Seq(E)
  BY <1>1, <1>2, EventsType
<1> QED BY <1>3 DEF E

\* The recorded outcome is true to what the upstream, the pump and the caller did, in
\* every interleaving: a completed or incomplete one means the upstream ended its
\* body cleanly, an interrupted one means that it failed or never reached a terminal
\* event, a cancelled one that the body was dropped before its end.
THEOREM TruthfulOutcome == Spec => []OutcomeIsTruthful
<1>1. TypeOK /\ RelayInv => OutcomeIsTruthful
  <2> SUFFICES ASSUME TypeOK, RelayInv, NEW i \in DOMAIN records
               PROVE  LET out == records[i].outcome IN
                      /\ out \in {"completed", "incomplete"} => upEnd = "eof" /\ resp.success
                      /\ out = "upstream_interrupted" =>
                           \/ upEnd = "error"
                           \/ /\ upEnd = "eof" /\ sse_events(pulled) # <<>>
                              /\ Terminals(pulled) = {}
                      /\ out = "client_cancelled" => upEnd = "open" /\ ~rxOpen
                      /\ out = "upstream_error" => ~resp.success
                      /\ out = "transport_error" <=> head = "err"
    BY DEF OutcomeIsTruthful
  <2>1. CASE head = "err"
    <3>1. records[i] = TransportErrorRecord(effort.value)
      BY <2>1, Recorded
    <3>2. records[i].outcome = "transport_error"
      BY <3>1 DEF TransportErrorRecord
    <3> QED BY <2>1, <3>2
  <2>2. CASE head # "err"
    <3> DEFINE p == parse_mirror(pulled, resp.model)
    <3>1. /\ head = "ok" /\ pump = "done" /\ resp \in Responses
          /\ records[i] = record_audit(resp, outcome, p, effort.value)
      BY <2>2, Recorded
    <3>2. p.terminal_seen <=> (sse_events(pulled) = <<>> \/ Terminals(pulled) # {})
      BY PulledEvents, ParsedBody
    <3> HIDE DEF p
    <3>3. records[i].outcome = RecordedOutcome(resp.success, outcome, p)
      BY <3>1 DEF record_audit
    <3>4. \/ outcome = "completed" /\ upEnd = "eof"
          \/ outcome = "upstream_interrupted" /\ upEnd = "error"
          \/ outcome = "client_cancelled" /\ upEnd = "open" /\ conn # "open"
      BY <3>1 DEF RelayInv, EndInv
    <3>5. conn # "open" => ~rxOpen
      BY DEF RelayInv, PhaseInv
    <3>6. resp.success \in BOOLEAN
      BY <3>1, ResponsesAssumption
    <3>7. CASE ~resp.success
      BY <2>2, <3>3, <3>7 DEF RecordedOutcome
    <3>8. CASE resp.success
      BY <2>2, <3>2, <3>3, <3>4, <3>5, <3>8 DEF RecordedOutcome
    <3> QED BY <3>6, <3>7, <3>8
  <2> QED BY <2>1, <2>2
<1> QED
  BY <1>1, Invariance, PTL

\* The usage of the record is that of the last terminal event the gateway received,
\* whatever happened to the caller or the upstream after it and whether or not the
\* chunk that held it was ever sent on; nothing is recorded when there was none.
THEOREM RecordedUsage == Spec => []TerminalUsageIsRecorded
<1>1. TypeOK /\ RelayInv => TerminalUsageIsRecorded
  <2> SUFFICES ASSUME TypeOK, RelayInv, NEW i \in DOMAIN records,
                      records[i].upstream_status = TRUE, sse_events(pulled) # <<>>
               PROVE  records[i].audit.usage =
                        IF HasTerminalUsage(pulled) THEN FinalUsage(pulled).usage ELSE None
    BY DEF TerminalUsageIsRecorded
  <2> DEFINE p == parse_mirror(pulled, resp.model)
  <2>1. p.audit.usage = IF HasTerminalUsage(pulled) THEN FinalUsage(pulled).usage ELSE None
    BY PulledEvents, ParsedBody
  <2> HIDE DEF p
  <2>2. CASE head = "err"
    <3>1. records[i].upstream_status = None
      BY <2>2, Recorded DEF TransportErrorRecord
    <3> QED BY <3>1, OptionAssumption
  <2>3. CASE head # "err"
    <3>1. records[i] = record_audit(resp, outcome, p, effort.value)
      BY <2>3, Recorded DEF p
    <3>2. resp.success = TRUE
      BY <3>1 DEF record_audit
    <3>3. records[i].audit.usage = p.audit.usage
      BY <3>1, <3>2 DEF record_audit
    <3> QED BY <2>1, <3>3
  <2> QED BY <2>2, <2>3
<1> QED
  BY <1>1, Invariance, PTL

\* Only SendErr and Finalize make a record, and both attach exactly what the observer
\* could know: the declared effort if the whole body was mirrored, else nothing.
THEOREM EffortFaithful == Spec => EffortIsWhatWasForwarded
<1> DEFINE Known == IF forwarded = request.chunks /\ request.encoding # "unsupported"
                    THEN request.effort ELSE None
<1>1. ASSUME TypeOK, RelayInv, [Next]_vars, records' # records
      PROVE  Last(records').effort = Known
  <2>1. ASSUME request.metered, ~effort.parsed
        PROVE  finish(effort).value = Known
    BY <1>1, <2>1 DEF RelayInv, EffortInv, finish, declared_effort_from
  <2>2. CASE SendErr
    <3>1. request.metered /\ records = <<>> /\ ~effort.parsed
      BY <1>1, <2>2 DEF SendErr, RelayInv, RecordInv, EffortInv, PhaseInv, TypeOK
    <3>2. records' = Append(<<>>, TransportErrorRecord(finish(effort).value))
      BY <2>2, <3>1 DEF SendErr
    <3>3. records' = <<TransportErrorRecord(finish(effort).value)>> /\ Len(records') = 1
      BY <3>2, FirstRecord
    <3>4. Last(records') = TransportErrorRecord(finish(effort).value)
      BY <3>3 DEF Last
    <3> QED BY <2>1, <3>1, <3>4 DEF TransportErrorRecord
  <2>3. CASE Finalize
    <3> DEFINE rec == record_audit(resp, outcome, parse_mirror(mirror, resp.model),
                                   finish(effort).value)
    <3>1. request.metered /\ records = <<>> /\ ~effort.parsed
      BY <1>1, <2>3 DEF Finalize, Audited, RelayInv, RecordInv, EffortInv, PhaseInv, TypeOK
    <3>2. records' = Append(<<>>, rec)
      BY <2>3, <3>1 DEF Finalize, Audited
    <3>3. rec.effort = finish(effort).value
      BY DEF record_audit
    <3> HIDE DEF rec
    <3>4. records' = <<rec>> /\ Len(records') = 1
      BY <3>2, FirstRecord
    <3>5. Last(records') = rec
      BY <3>4 DEF Last
    <3> QED BY <2>1, <3>1, <3>3, <3>5
  <2>4. SendErr \/ Finalize
    BY <1>1 DEF Next, Handler, Pump, Server, ForwardRequestChunk, SendOk, DropHandler,
       PumpRecv, PumpSend, PumpSendErr, PumpEof, PumpErr, PumpGone, ServerPull,
       ServerEof, ServerLengthReached, CallerGone, vars
  <2> QED BY <2>2, <2>3, <2>4
<1>2. TypeOK /\ RelayInv /\ [Next]_vars
        => [records' # records => Last(records').effort = Known]_vars
  BY <1>1
<1> QED
  BY <1>2, Invariance, PTL DEF Spec, EffortIsWhatWasForwarded

-----------------------------------------------------------------------------
(***************************************************************************)
(* The relay implements Delivery                                           *)
(***************************************************************************)

\* The relay's initial state is one of Delivery's.
LEMMA DeliveryInit == Init => D!Init
  BY DEF Init, D!Init, senderBar, sizeBar, receiverBar

\* Every step of the relay is a step of Delivery or leaves its variables alone.
LEMMA DeliveryStep ==
    ASSUME TypeOK, TypeOK', RelayInv, RelayInv', [Next]_vars
    PROVE  [D!Next]_(D!dvars)
<1> USE DEF reqVars, pumpVars, chanVars, callerVars
<1>t. /\ Len(pulled) \in Nat /\ Len(received) \in Nat /\ Capacity \in Nat
  BY LenProperties, CapacityAssumption DEF TypeOK
<1>1. CASE ForwardRequestChunk
  BY <1>1 DEF ForwardRequestChunk, D!dvars, senderBar, sizeBar, receiverBar
<1>2. ASSUME NEW r \in Responses, SendOk(r) PROVE D!Open
  <2>1. r # None /\ r.len \in Nat
    BY ResponsesAssumption
  <2> QED BY <1>2, <2>1 DEF SendOk, D!Open, senderBar, sizeBar, receiverBar, RelayInv, PhaseInv
<1>3. ASSUME SendErr PROVE D!Refuse
  BY <1>3 DEF SendErr, D!Refuse, senderBar, sizeBar, receiverBar, RelayInv, PhaseInv
<1>4. ASSUME DropHandler PROVE D!Abandon
  BY <1>4 DEF DropHandler, D!Abandon, senderBar, sizeBar, receiverBar, RelayInv, PhaseInv
<1>5. ASSUME NEW c \in Chunk, PumpRecv(c) PROVE D!Send
  <2>1. head = "ok" /\ txOpen /\ pump = "next"
    BY <1>5 DEF PumpRecv, RelayInv, PhaseInv
  <2>2. Len(pulled) - Len(received) < Capacity + 1
    BY <1>t, <2>1 DEF RelayInv, OrderInv
  <2> QED BY <1>5, <2>1, <2>2 DEF PumpRecv, D!Send, senderBar, sizeBar, receiverBar
<1>6. CASE PumpSend
  BY <1>6 DEF PumpSend, D!dvars, senderBar, sizeBar, receiverBar
<1>7. ASSUME PumpSendErr \/ PumpEof \/ PumpErr \/ PumpGone PROVE D!Close
  <2>1. /\ head = "ok" /\ txOpen /\ txOpen' = FALSE
        /\ UNCHANGED <<head, resp, pulled, received, conn>>
    BY <1>7 DEF PumpSendErr, PumpEof, PumpErr, PumpGone, Leave, RelayInv, PhaseInv
  <2> QED BY <2>1 DEF D!Close, senderBar, sizeBar, receiverBar
<1>8. CASE Finalize
  BY <1>8 DEF Finalize, D!dvars, senderBar, sizeBar, receiverBar
<1>9. ASSUME ServerPull PROVE D!Deliver
  <2>1. /\ conn = "open" /\ received' = Append(received, Head(chan)) /\ pulled' = pulled
        /\ UNCHANGED <<head, resp, txOpen, conn>>
    BY <1>9 DEF ServerPull
  <2>2. Len(received') = Len(received) + 1 /\ received'[Len(received) + 1] = Head(chan)
    BY <1>9, <2>1, HeadTailProperties DEF ServerPull, TypeOK
  <2>3. Len(received') <= Len(pulled') /\ \A i \in 1..Len(received') : received'[i] = pulled'[i]
    BY DEF RelayInv, OrderInv
  <2>4. Len(received) < Len(pulled) /\ Head(chan) = pulled[Len(received) + 1]
    BY <1>t, <2>1, <2>2, <2>3
  <2> QED BY <2>1, <2>4 DEF D!Deliver, senderBar, sizeBar, receiverBar
<1>10. ASSUME ServerEof PROVE D!End
  <2>1. received = pulled
    BY <1>10, DrainedIsAll DEF ServerEof, RelayInv
  <2>2. head = "ok" /\ conn = "open" /\ ~txOpen /\ conn' \in {"complete", "truncated"}
        /\ UNCHANGED <<head, resp, txOpen, pulled, received>>
    BY <1>10 DEF ServerEof, RelayInv, PhaseInv
  <2> QED BY <2>1, <2>2 DEF D!End, senderBar, sizeBar, receiverBar
<1>11. ASSUME ServerLengthReached PROVE D!End
  <2>1. /\ head = "ok" /\ conn = "open" /\ conn' = "complete" /\ resp # None
        /\ resp.framing = "length" /\ Len(received) = resp.len
        /\ UNCHANGED <<head, resp, txOpen, pulled, received>>
    BY <1>11 DEF ServerLengthReached, AllOfLength, RelayInv, PhaseInv
  <2>2. received = pulled
    <3>1. Len(received) >= Len(pulled)
      BY <1>t, <2>1 DEF RelayInv, EndInv
    <3> QED BY <3>1, AllReceived DEF RelayInv
  <2>3. resp.len # None
    BY <1>t, <2>1, NoneAssumption
  <2> QED BY <2>1, <2>2, <2>3 DEF D!End, senderBar, sizeBar, receiverBar
<1>12. ASSUME CallerGone PROVE D!Abandon
  BY <1>12 DEF CallerGone, D!Abandon, senderBar, sizeBar, receiverBar
<1>13. CASE UNCHANGED vars
  BY <1>13 DEF vars, D!dvars, senderBar, sizeBar, receiverBar
<1> QED
  BY <1>1, <1>2, <1>3, <1>4, <1>5, <1>6, <1>7, <1>8, <1>9, <1>10, <1>11, <1>12, <1>13
     DEF Next, Handler, Pump, Server, D!Next

\* Whatever metering does, the caller is served as Delivery promises: a prefix of the
\* upstream's body in order, at most Capacity + 1 chunks behind, ended only when
\* nothing is missing.
THEOREM Refinement == Spec => ImplementsDelivery
<1>1. TypeOK /\ RelayInv /\ [Next]_vars /\ (TypeOK /\ RelayInv)' => [D!Next]_(D!dvars)
  BY DeliveryStep
<1> QED
  BY <1>1, DeliveryInit, Invariance, PTL DEF Spec, D!Spec, ImplementsDelivery

-----------------------------------------------------------------------------
(***************************************************************************)
(* The relay implements Lifecycle                                          *)
(***************************************************************************)

\* The relay's initial state is one of Lifecycle's.
LEMMA LifecycleInit == Init => L!Init
<1> SUFFICES ASSUME Init PROVE L!Init
  OBVIOUS
<1>1. request.metered \in BOOLEAN
  BY RequestsAssumption DEF Init
<1>2. sizedBar = FALSE /\ taskBar = "sending" /\ peerBar = "waiting" /\ Len(records) = 0
  BY DEF Init, sizedBar, taskBar, peerBar
<1>3. lifeBar = L!New(request.metered)
  BY <1>2 DEF lifeBar, L!New
<1> QED BY <1>1, <1>3 DEF L!Init

\* Every step of the relay is a step of Lifecycle or leaves its state alone.
LEMMA LifecycleStep ==
    ASSUME TypeOK, TypeOK', RelayInv, RelayInv', [Next]_vars
    PROVE  lifeBar' \in L!Step(lifeBar) \/ lifeBar' = lifeBar
<1> USE DEF reqVars, pumpVars, chanVars, callerVars
<1>0. \A x : Len(<<x>>) = 1
  OBVIOUS
<1>n. /\ Len(records) = IF request.metered /\ (pump = "done" \/ head = "err") THEN 1 ELSE 0
      /\ Len(records') = IF request'.metered /\ (pump' = "done" \/ head' = "err") THEN 1 ELSE 0
  BY <1>0 DEF RelayInv, RecordInv
<1>1. CASE ForwardRequestChunk \/ PumpSend \/ ServerPull \/ (\E c \in Chunk : PumpRecv(c))
  <2>1. \/ UNCHANGED <<request, head, resp, pump, conn, records>>
        \/ /\ pump \in {"next", "send"} /\ pump' \in {"next", "send"}
           /\ UNCHANGED <<request, head, resp, conn, records>>
    BY <1>1 DEF ForwardRequestChunk, PumpSend, ServerPull, PumpRecv
  <2>2. UNCHANGED <<sizedBar, taskBar, peerBar>>
    BY <2>1 DEF sizedBar, taskBar, peerBar, RelayInv, PhaseInv
  <2> QED BY <2>1, <2>2 DEF lifeBar
<1>2. ASSUME NEW r \in Responses, SendOk(r) PROVE lifeBar' \in L!Respond(lifeBar)
  <2>1. /\ head = "sending" /\ head' = "ok" /\ pump' = "next" /\ resp = None
        /\ UNCHANGED <<request, conn, records>>
    BY <1>2 DEF SendOk, RelayInv, PhaseInv
  <2>2. taskBar = "sending" /\ taskBar' = "pumping" /\ UNCHANGED peerBar
    BY <2>1 DEF taskBar, peerBar
  <2>3. sizedBar' \in BOOLEAN
    BY DEF sizedBar
  <2>4. lifeBar' = [L!At(lifeBar, "pumping", lifeBar.peer, lifeBar.attempts)
                        EXCEPT !.sized = sizedBar']
    BY <2>1, <2>2 DEF lifeBar, L!At
  <2>5. lifeBar.task = "sending"
    BY <2>2 DEF lifeBar
  <2> QED BY <2>3, <2>4, <2>5 DEF L!Respond, L!When
<1>3. ASSUME SendErr PROVE lifeBar' \in L!Refuse(lifeBar)
  <2>1. /\ head = "sending" /\ head' = "err" /\ conn = "open" /\ conn' = "bad_gateway"
        /\ pump = "none" /\ UNCHANGED <<request, resp, pump>>
    BY <1>3 DEF SendErr, RelayInv, PhaseInv, TypeOK
  <2>2. Len(records) = 0 /\ Len(records') = IF request.metered THEN 1 ELSE 0
    BY <1>n, <2>1
  <2>3. /\ taskBar = "sending" /\ taskBar' = "over" /\ peerBar' = "served"
        /\ UNCHANGED sizedBar
    BY <2>1 DEF taskBar, peerBar, sizedBar
  <2> QED BY <2>1, <2>2, <2>3 DEF L!Refuse, L!When, L!At, L!Attempted, lifeBar
<1>4. ASSUME DropHandler PROVE lifeBar' \in L!Abandon(lifeBar)
  <2>1. /\ head = "sending" /\ head' = "dropped" /\ conn' = "gone" /\ pump = "none"
        /\ UNCHANGED <<request, resp, pump, records>>
    BY <1>4 DEF DropHandler, RelayInv, PhaseInv, TypeOK
  <2>2. /\ taskBar = "sending" /\ taskBar' = "over" /\ peerBar' = "left"
        /\ UNCHANGED sizedBar
    BY <2>1 DEF taskBar, peerBar, sizedBar
  <2> QED BY <2>1, <2>2 DEF L!Abandon, L!When, L!At, lifeBar
<1>5. ASSUME PumpSendErr \/ PumpEof \/ PumpErr \/ PumpGone
      PROVE  lifeBar' \in L!EndStream(lifeBar)
  <2>1. /\ head = "ok" /\ pump \in {"next", "send"} /\ pump' = "closed"
        /\ UNCHANGED <<request, head, resp, conn, records>>
    BY <1>5 DEF PumpSendErr, PumpEof, PumpErr, PumpGone, Leave, RelayInv, PhaseInv
  <2>2. taskBar = "pumping" /\ taskBar' = "closed" /\ UNCHANGED <<peerBar, sizedBar>>
    BY <2>1 DEF taskBar, peerBar, sizedBar
  <2> QED BY <2>1, <2>2 DEF L!EndStream, L!When, L!At, lifeBar
<1>6. ASSUME Finalize PROVE lifeBar' \in L!Finalize(lifeBar)
  <2>1. /\ head = "ok" /\ pump = "closed" /\ pump' = "done"
        /\ UNCHANGED <<request, head, resp, conn>>
    BY <1>6 DEF Finalize, RelayInv, PhaseInv
  <2>2. Len(records) = 0 /\ Len(records') = IF request.metered THEN 1 ELSE 0
    BY <1>n, <2>1
  <2>3. taskBar = "closed" /\ taskBar' = "over" /\ UNCHANGED <<peerBar, sizedBar>>
    BY <2>1 DEF taskBar, peerBar, sizedBar
  <2> QED BY <2>1, <2>2, <2>3 DEF L!Finalize, L!When, L!At, L!Attempted, lifeBar
<1>7. ASSUME ServerEof \/ ServerLengthReached PROVE lifeBar' \in L!SeeEnd(lifeBar)
  <2>1. /\ head = "ok" /\ resp # None /\ conn = "open" /\ conn' \in {"complete", "truncated"}
        /\ pump \in {"closed", "done"} \/ resp.framing = "length"
        /\ UNCHANGED <<request, head, resp, pump, records>>
    BY <1>7 DEF ServerEof, ServerLengthReached, AllOfLength, RelayInv, PhaseInv, TypeOK
  <2>2. pump \in {"next", "send", "closed", "done"}
    BY <2>1 DEF RelayInv, PhaseInv, TypeOK
  <2>3. /\ taskBar \in {"closed", "over"} \/ (taskBar = "pumping" /\ sizedBar)
        /\ peerBar = "waiting" /\ peerBar' = "served" /\ UNCHANGED <<taskBar, sizedBar>>
    BY <2>1, <2>2 DEF taskBar, peerBar, sizedBar
  <2> QED BY <2>1, <2>3 DEF L!SeeEnd, L!When, L!At, lifeBar
<1>8. ASSUME CallerGone PROVE lifeBar' \in L!Leave(lifeBar)
  <2>1. /\ head = "ok" /\ conn = "open" /\ conn' = "gone"
        /\ UNCHANGED <<request, head, resp, pump, records>>
    BY <1>8 DEF CallerGone, RelayInv, PhaseInv
  <2>2. pump \in {"next", "send", "closed", "done"}
    BY <2>1 DEF RelayInv, PhaseInv, TypeOK
  <2>3. /\ taskBar \in {"pumping", "closed", "over"}
        /\ peerBar = "waiting" /\ peerBar' = "left" /\ UNCHANGED <<taskBar, sizedBar>>
    BY <2>1, <2>2 DEF taskBar, peerBar, sizedBar
  <2> QED BY <2>1, <2>3 DEF L!Leave, L!When, L!At, lifeBar
<1>9. CASE UNCHANGED vars
  BY <1>9 DEF vars, lifeBar, sizedBar, taskBar, peerBar
<1> QED
  BY <1>1, <1>2, <1>3, <1>4, <1>5, <1>6, <1>7, <1>8, <1>9
     DEF Next, Handler, Pump, Server, L!Step

\* Seen from outside, one request is exactly what Lifecycle says, for every capacity,
\* body and response: Gateway may use Lifecycle in place of the relay.
THEOREM LifecycleRefinement == Spec => ImplementsLifecycle
<1>1. TypeOK /\ RelayInv /\ [Next]_vars /\ (TypeOK /\ RelayInv)' => [L!Next]_lifeBar
  BY LifecycleStep DEF L!Next
<1> QED
  BY <1>1, LifecycleInit, Invariance, PTL DEF Spec, L!Spec, ImplementsLifecycle
=============================================================================
