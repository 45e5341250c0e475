---------------------------- MODULE RoutingProofs ----------------------------
(***************************************************************************)
(* Proofs about Routing and the requests of MCRouting: the URL parser      *)
(* leaves exactly the paths without dot segments and re-encoded characters *)
(* as they are, and the header loops pass on exactly the lines that the    *)
(* policy does not strip, for paths and header lists of any length.        *)
(***************************************************************************)
EXTENDS MCRouting, SequenceTheorems, WellFoundedInduction, TLAPS

\* A set that holds 0 and the successor of each of its naturals holds them all.
LEMMA NatInduced ==
    ASSUME NEW T, 0 \in T, \A n \in Nat : n \in T => n + 1 \in T
    PROVE  \A n \in Nat : n \in T
<1> DEFINE Bad == {n \in Nat : n \notin T}
<1> SUFFICES ASSUME Bad # {} PROVE FALSE
  OBVIOUS
<1> DEFINE Less == {ss \in Nat \X Nat : ss[1] < ss[2]}
<1>0. IsWellFoundedOn(Less, Nat)
  BY NatLessThanWellFounded DEF OpToRel
<1>1. PICK x \in Bad : \A y \in Bad : <<y, x>> \notin Less
  <2>1. Bad \subseteq Nat
    OBVIOUS
  <2> HIDE DEF Bad, Less
  <2> QED BY <1>0, <2>1, WFMin
<1>2. x \in Nat /\ x # 0 /\ x - 1 \in Nat
  BY <1>1
<1>3. <<x - 1, x>> \in Less
  BY <1>2
<1>4. x - 1 \in T
  BY <1>1, <1>2, <1>3
<1>5. (x - 1) + 1 = x
  BY <1>2
<1>6. x \in T
  BY <1>2, <1>4, <1>5
<1> QED BY <1>1, <1>6

-----------------------------------------------------------------------------
(***************************************************************************)
(* The header loops                                                        *)
(***************************************************************************)

\* out runs through the values of the loop's result, one line at a time.
Passes(out, headers, stripped) ==
    /\ out[0] = <<>>
    /\ \A i \in 1..Len(headers) :
         out[i] = IF headers[i].name \in stripped THEN out[i - 1]
                  ELSE Append(out[i - 1], headers[i])

\* The loop has a run, and its result is the last value of it.
LEMMA PassRuns ==
    ASSUME NEW headers, NEW stripped, Len(headers) \in Nat
    PROVE  \E out : Passes(out, headers, stripped)
                        /\ pass_on(headers, stripped) = out[Len(headers)]
<1> DEFINE N == Len(headers)
           Step(o, i) == IF headers[i].name \in stripped THEN o ELSE Append(o, headers[i])
           Rec(f) == [i \in 0..N |-> IF i = 0 THEN <<>> ELSE
                                     IF headers[i].name \in stripped THEN f[i - 1]
                                     ELSE Append(f[i - 1], headers[i])]
           Upto(g, n) == /\ g[0] = <<>>
                         /\ \A i \in 1..n : g[i] = Step(g[i - 1], i)
           T == {n \in Nat : \E g : Upto(g, n)}
           chosen == CHOOSE f : f = Rec(f)
<1>1. 0 \in T
  <2>1. Upto([i \in {0} |-> <<>>], 0)
    OBVIOUS
  <2> QED BY <2>1
<1>2. ASSUME NEW n \in Nat, n \in T PROVE n + 1 \in T
  <2>1. PICK g : Upto(g, n)
    BY <1>2
  <2> DEFINE next == Step(g[n], n + 1)
             h == [i \in 0..(n + 1) |-> IF i = n + 1 THEN next ELSE g[i]]
  <2>2. h[0] = <<>>
    BY <2>1
  <2>3. ASSUME NEW i \in 1..(n + 1) PROVE h[i] = Step(h[i - 1], i)
    <3>1. CASE i = n + 1
      <4>1. h[i] = next /\ h[i - 1] = g[n]
        BY <3>1
      <4> QED BY <3>1, <4>1
    <3>2. CASE i \in 1..n
      <4>1. h[i] = g[i] /\ h[i - 1] = g[i - 1]
        BY <3>2
      <4> QED BY <2>1, <3>2, <4>1
    <3> QED BY <3>1, <3>2
  <2>4. Upto(h, n + 1)
    <3> HIDE DEF h, Step
    <3> QED BY <2>2, <2>3
  <2>5. n + 1 \in Nat
    OBVIOUS
  <2> HIDE DEF h, Upto
  <2> QED BY <2>4, <2>5
<1>3. N \in T
  <2> HIDE DEF T
  <2> QED BY <1>1, <1>2, NatInduced
<1>4. PICK g : Upto(g, N)
  BY <1>3
<1> DEFINE f0 == [i \in 0..N |-> g[i]]
<1>5. f0 = Rec(f0)
  <2>1. ASSUME NEW i \in 0..N PROVE f0[i] = Rec(f0)[i]
    <3>1. CASE i = 0
      BY <1>4, <3>1
    <3>2. CASE i \in 1..N
      <4>1. f0[i] = g[i] /\ f0[i - 1] = g[i - 1]
        BY <3>2
      <4> QED BY <1>4, <3>2, <4>1
    <3> QED BY <3>1, <3>2
  <2> QED BY <2>1
<1>6. chosen = Rec(chosen)
  <2> HIDE DEF Rec, f0
  <2> QED BY <1>5
<1>7. Passes(chosen, headers, stripped)
  <2>1. chosen[0] = <<>>
    <3> HIDE DEF chosen
    <3> QED BY <1>6
  <2>2. ASSUME NEW i \in 1..N
        PROVE  chosen[i] = Step(chosen[i - 1], i)
    <3>1. i \in 0..N /\ i # 0
      OBVIOUS
    <3>2. Rec(chosen)[i] = Step(chosen[i - 1], i)
      <4> HIDE DEF chosen
      <4> QED BY <3>1
    <3> HIDE DEF chosen, Rec, Step
    <3> QED BY <1>6, <3>2
  <2> HIDE DEF chosen
  <2> QED BY <2>1, <2>2 DEF Passes
<1>8. pass_on(headers, stripped) = chosen[N]
  BY DEF pass_on
<1> HIDE DEF chosen
<1> QED BY <1>7, <1>8

\* Nothing is passed on of no lines, and one line more is passed on, or not, whatever
\* the lines before it.
LEMMA PassOneMore ==
    ASSUME NEW H, NEW hs \in Seq(H), NEW h \in H, NEW S
    PROVE  /\ pass_on(<<>>, S) = <<>>
           /\ pass_on(Append(hs, h), S) = IF h.name \in S THEN pass_on(hs, S)
                                          ELSE Append(pass_on(hs, S), h)
<1> DEFINE N == Len(hs)
           more == Append(hs, h)
<1>1. pass_on(<<>>, S) = <<>>
  <2>1. PICK o : Passes(o, <<>>, S) /\ pass_on(<<>>, S) = o[Len(<<>>)]
    BY PassRuns
  <2> QED BY <2>1 DEF Passes
<1>2. N \in Nat /\ Len(more) = N + 1 /\ more[N + 1] = h /\ \A i \in 1..N : more[i] = hs[i]
  OBVIOUS
<1>3. PICK a : Passes(a, hs, S) /\ pass_on(hs, S) = a[N]
  BY PassRuns
<1>4. PICK b : Passes(b, more, S) /\ pass_on(more, S) = b[N + 1]
  <2>1. Len(more) \in Nat
    BY <1>2
  <2> HIDE DEF more
  <2> QED BY <1>2, <2>1, PassRuns
<1> HIDE DEF more
<1> DEFINE T == {n \in Nat : n <= N => a[n] = b[n]}
<1>5. 0 \in T
  BY <1>3, <1>4 DEF Passes
<1>6. ASSUME NEW n \in Nat, n \in T PROVE n + 1 \in T
  <2> SUFFICES ASSUME n + 1 <= N PROVE a[n + 1] = b[n + 1]
    OBVIOUS
  <2>1. a[n] = b[n] /\ n + 1 \in 1..N /\ n + 1 \in 1..(N + 1) /\ (n + 1) - 1 = n
    BY <1>2, <1>6
  <2>2. a[n + 1] = IF hs[n + 1].name \in S THEN a[n] ELSE Append(a[n], hs[n + 1])
    BY <1>3, <2>1 DEF Passes
  <2>3. b[n + 1] = IF hs[n + 1].name \in S THEN b[n] ELSE Append(b[n], hs[n + 1])
    BY <1>2, <1>4, <2>1 DEF Passes
  <2> QED BY <2>1, <2>2, <2>3
<1>7. a[N] = b[N]
  <2>1. N \in T
    <3> HIDE DEF T
    <3> QED BY <1>2, <1>5, <1>6, NatInduced
  <2> QED BY <1>2, <2>1
<1>8. b[N + 1] = IF h.name \in S THEN b[N] ELSE Append(b[N], h)
  <2>1. N + 1 \in 1..Len(more) /\ (N + 1) - 1 = N
    BY <1>2
  <2> QED BY <1>2, <1>4, <2>1 DEF Passes
<1>9. pass_on(more, S) = IF h.name \in S THEN pass_on(hs, S) ELSE Append(pass_on(hs, S), h)
  BY <1>3, <1>4, <1>7, <1>8
<1> QED BY <1>1, <1>9 DEF more

\* A list that is not empty is a shorter one and its last line.
LEMMA LastLine ==
    ASSUME NEW H, NEW n \in Nat, NEW hs \in Seq(H), Len(hs) = n + 1
    PROVE  \E f \in Seq(H), e \in H : hs = Append(f, e) /\ Len(f) = n
<1> DEFINE f == SubSeq(hs, 1, n)
           e == hs[n + 1]
<1>1. f \in Seq(H) /\ e \in H /\ Len(f) = n /\ \A i \in 1..n : f[i] = hs[i]
  OBVIOUS
<1>2. hs = Append(f, e)
  <2>1. Len(Append(f, e)) = n + 1 /\ Append(f, e) \in Seq(H)
    BY <1>1
  <2>2. \A i \in 1..(n + 1) : hs[i] = Append(f, e)[i]
    BY <1>1
  <2> HIDE DEF f, e
  <2> QED BY <2>1, <2>2, SeqEqual
<1> HIDE DEF f, e
<1> QED BY <1>1, <1>2

\* sent holds the lines of hs whose names are not in S, each once and in order.
Filtered(hs, sent, S) ==
    \E at \in [DOMAIN sent -> DOMAIN hs] :
        /\ \A i \in DOMAIN sent : sent[i] = hs[at[i]]
        /\ \A i, j \in DOMAIN sent : i < j => at[i] < at[j]
        /\ \A n \in DOMAIN hs : hs[n].name \in S <=> n \notin Range(at)

\* The loop passes on exactly the lines it does not strip, each once and in order.
LEMMA PassFilters ==
    ASSUME NEW H, NEW S
    PROVE  \A hs \in Seq(H) : pass_on(hs, S) \in Seq(H) /\ Filtered(hs, pass_on(hs, S), S)
<1> DEFINE P(hs) == pass_on(hs, S) \in Seq(H) /\ Filtered(hs, pass_on(hs, S), S)
           T == {n \in Nat : \A hs \in Seq(H) : Len(hs) = n => P(hs)}
<1>1. 0 \in T
  <2> SUFFICES ASSUME NEW hs \in Seq(H), Len(hs) = 0 PROVE P(hs)
    OBVIOUS
  <2>1. hs = <<>>
    OBVIOUS
  <2>2. pass_on(hs, S) = <<>>
    <3>1. PICK o : Passes(o, hs, S) /\ pass_on(hs, S) = o[Len(hs)]
      BY PassRuns
    <3> QED BY <3>1 DEF Passes
  <2>3. Filtered(<<>>, <<>>, S)
    <3> DEFINE at == [i \in {} |-> 0]
    <3>1. DOMAIN <<>> = {}
      OBVIOUS
    <3>2. at \in [DOMAIN <<>> -> DOMAIN <<>>]
      BY <3>1
    <3> HIDE DEF at
    <3> QED BY <3>1, <3>2 DEF Filtered
  <2> QED BY <2>1, <2>2, <2>3
<1>2. ASSUME NEW n \in Nat, n \in T PROVE n + 1 \in T
  <2> SUFFICES ASSUME NEW hs \in Seq(H), Len(hs) = n + 1 PROVE P(hs)
    OBVIOUS
  <2>1. PICK f \in Seq(H), e \in H : hs = Append(f, e) /\ Len(f) = n
    BY LastLine
  <2> DEFINE short == pass_on(f, S)
             sent == pass_on(hs, S)
  <2>2. short \in Seq(H) /\ Filtered(f, short, S)
    BY <1>2, <2>1
  <2>3. sent = IF e.name \in S THEN short ELSE Append(short, e)
    BY <2>1, PassOneMore
  <2>4. sent \in Seq(H)
    BY <2>2, <2>3
  <2>5. PICK at \in [DOMAIN short -> DOMAIN f] :
           /\ \A i \in DOMAIN short : short[i] = f[at[i]]
           /\ \A i, j \in DOMAIN short : i < j => at[i] < at[j]
           /\ \A k \in DOMAIN f : f[k].name \in S <=> k \notin Range(at)
    BY <2>2 DEF Filtered
  <2>6. /\ DOMAIN f = 1..n /\ DOMAIN hs = 1..(n + 1) /\ hs[n + 1] = e
        /\ \A i \in 1..n : hs[i] = f[i]
    BY <2>1
  <2> HIDE DEF short, sent
  <2>7. CASE e.name \in S
    <3>1. sent = short
      BY <2>3, <2>7
    <3>2. at \in [DOMAIN sent -> DOMAIN hs]
      BY <2>6, <3>1
    <3>3. \A i \in DOMAIN sent : sent[i] = hs[at[i]]
      BY <2>5, <2>6, <3>1
    <3>4. \A k \in DOMAIN hs : hs[k].name \in S <=> k \notin Range(at)
      <4>1. n + 1 \notin Range(at)
        BY <2>5, <2>6 DEF Range
      <4>2. \A k \in 1..n : hs[k].name \in S <=> k \notin Range(at)
        BY <2>5, <2>6
      <4> QED BY <2>6, <2>7, <4>1, <4>2
    <3>5. Filtered(hs, sent, S)
      BY <2>5, <3>1, <3>2, <3>3, <3>4 DEF Filtered
    <3> QED BY <2>4, <3>5 DEF sent
  <2>8. CASE e.name \notin S
    <3> DEFINE m == Len(short)
               to == [i \in 1..(m + 1) |-> IF i = m + 1 THEN n + 1 ELSE at[i]]
    <3>1. /\ m \in Nat /\ DOMAIN short = 1..m /\ DOMAIN sent = 1..(m + 1)
          /\ sent[m + 1] = e /\ \A i \in 1..m : sent[i] = short[i]
      BY <2>2, <2>3, <2>8
    <3>2. to[m + 1] = n + 1 /\ \A i \in 1..m : to[i] = at[i] /\ at[i] \in 1..n
      <4>1. \A i \in 1..m : at[i] \in 1..n
        BY <2>5, <2>6, <3>1
      <4>2. m + 1 \in 1..(m + 1) /\ \A i \in 1..m : i \in 1..(m + 1) /\ i # m + 1
        BY <3>1
      <4> QED BY <4>1, <4>2
    <3>3. to \in [DOMAIN sent -> DOMAIN hs]
      BY <2>6, <3>1, <3>2
    <3> HIDE DEF to, m
    <3>4. \A i \in DOMAIN sent : sent[i] = hs[to[i]]
      <4>1. \A i \in 1..m : sent[i] = hs[to[i]]
        BY <2>5, <2>6, <3>1, <3>2
      <4> QED BY <2>6, <3>1, <3>2, <4>1
    <3>5. ASSUME NEW i \in DOMAIN sent, NEW j \in DOMAIN sent, i < j PROVE to[i] < to[j]
      <4>1. CASE j = m + 1
        BY <2>6, <3>1, <3>2, <3>5, <4>1
      <4>2. CASE j \in 1..m
        <5>1. i \in 1..m /\ i \in DOMAIN short /\ j \in DOMAIN short
          BY <3>1, <3>5, <4>2
        <5>2. at[i] < at[j]
          BY <2>5, <3>5, <5>1
        <5> QED BY <3>2, <4>2, <5>1, <5>2
      <4> QED BY <3>1, <4>1, <4>2
    <3>6. ASSUME NEW k \in DOMAIN hs PROVE hs[k].name \in S <=> k \notin Range(to)
      <4>1. CASE k = n + 1
        <5>1. k \in Range(to)
          BY <3>1, <3>2, <3>3, <4>1 DEF Range
        <5> QED BY <2>6, <2>8, <4>1, <5>1
      <4>2. CASE k \in 1..n
        <5>1. k \in Range(to) <=> k \in Range(at)
          <6>1. k # n + 1 /\ DOMAIN to = 1..(m + 1) /\ DOMAIN at = 1..m
            BY <3>1, <3>3, <4>2
          <6>2. ASSUME NEW x \in 1..(m + 1), to[x] = k PROVE \E y \in 1..m : at[y] = k
            BY <3>1, <3>2, <6>1, <6>2
          <6>3. ASSUME NEW y \in 1..m, at[y] = k PROVE \E x \in 1..(m + 1) : to[x] = k
            BY <3>1, <3>2, <6>1, <6>3
          <6> QED BY <6>1, <6>2, <6>3 DEF Range
        <5> QED BY <2>5, <2>6, <4>2, <5>1
      <4> QED BY <2>6, <4>1, <4>2
    <3>7. Filtered(hs, sent, S)
      BY <3>3, <3>4, <3>5, <3>6 DEF Filtered
    <3> QED BY <2>4, <3>7 DEF sent
  <2> QED BY <2>7, <2>8
<1>3. \A n \in Nat : n \in T
  <2> HIDE DEF T
  <2> QED BY <1>1, <1>2, NatInduced
<1>4. ASSUME NEW hs \in Seq(H) PROVE P(hs)
  <2>1. Len(hs) \in T
    BY <1>3
  <2> QED BY <2>1
<1> QED BY <1>4

\* Lines of which none is to be stripped pass as they are.
LEMMA PassAll ==
    ASSUME NEW H, NEW S
    PROVE  \A hs \in Seq(H) :
             (\A i \in 1..Len(hs) : hs[i].name \notin S) => pass_on(hs, S) = hs
<1> DEFINE P(hs) == (\A i \in 1..Len(hs) : hs[i].name \notin S) => pass_on(hs, S) = hs
           T == {n \in Nat : \A hs \in Seq(H) : Len(hs) = n => P(hs)}
<1>1. 0 \in T
  <2> SUFFICES ASSUME NEW hs \in Seq(H), Len(hs) = 0 PROVE P(hs)
    OBVIOUS
  <2>1. PICK o : Passes(o, hs, S) /\ pass_on(hs, S) = o[Len(hs)]
    BY PassRuns
  <2> QED BY <2>1 DEF Passes
<1>2. ASSUME NEW n \in Nat, n \in T PROVE n + 1 \in T
  <2> SUFFICES ASSUME NEW hs \in Seq(H), Len(hs) = n + 1,
                      \A i \in 1..Len(hs) : hs[i].name \notin S
               PROVE  pass_on(hs, S) = hs
    OBVIOUS
  <2>1. PICK f \in Seq(H), e \in H : hs = Append(f, e) /\ Len(f) = n
    BY LastLine
  <2>2. \A i \in 1..Len(f) : f[i] = hs[i] /\ i \in 1..Len(hs)
    BY <2>1
  <2>3. pass_on(f, S) = f
    BY <1>2, <2>1, <2>2
  <2>4. hs[n + 1] = e /\ n + 1 \in 1..Len(hs)
    BY <2>1
  <2> QED BY <2>1, <2>3, <2>4, PassOneMore
<1>3. \A n \in Nat : n \in T
  <2> HIDE DEF T
  <2> QED BY <1>1, <1>2, NatInduced
<1>4. ASSUME NEW hs \in Seq(H) PROVE P(hs)
  <2>1. Len(hs) \in T
    BY <1>3
  <2> QED BY <2>1
<1> QED BY <1>4

\* Stripping some names and then others is stripping all of them at once.
LEMMA PassTwice ==
    ASSUME NEW H, NEW A, NEW B
    PROVE  \A hs \in Seq(H) : pass_on(pass_on(hs, A), B) = pass_on(hs, A \cup B)
<1> DEFINE P(hs) == pass_on(pass_on(hs, A), B) = pass_on(hs, A \cup B)
           T == {n \in Nat : \A hs \in Seq(H) : Len(hs) = n => P(hs)}
<1>0. \A hs \in Seq(H) : pass_on(hs, A) \in Seq(H)
  BY PassFilters
<1>1. 0 \in T
  <2> SUFFICES ASSUME NEW hs \in Seq(H), Len(hs) = 0 PROVE P(hs)
    OBVIOUS
  <2>1. \A S : pass_on(hs, S) = <<>>
    <3> TAKE S
    <3>1. PICK o : Passes(o, hs, S) /\ pass_on(hs, S) = o[Len(hs)]
      BY PassRuns
    <3> QED BY <3>1 DEF Passes
  <2>2. hs = <<>>
    OBVIOUS
  <2> QED BY <2>1, <2>2
<1>2. ASSUME NEW n \in Nat, n \in T PROVE n + 1 \in T
  <2> HIDE DEF P
  <2> SUFFICES ASSUME NEW hs \in Seq(H), Len(hs) = n + 1 PROVE P(hs)
    OBVIOUS
  <2>1. PICK f \in Seq(H), e \in H : hs = Append(f, e) /\ Len(f) = n
    BY LastLine
  <2>2. pass_on(pass_on(f, A), B) = pass_on(f, A \cup B)
    BY <1>2, <2>1 DEF P
  <2>3. pass_on(hs, A) = IF e.name \in A THEN pass_on(f, A) ELSE Append(pass_on(f, A), e)
    BY <2>1, PassOneMore
  <2>4. pass_on(hs, A \cup B) = IF e.name \in A \cup B THEN pass_on(f, A \cup B)
                               ELSE Append(pass_on(f, A \cup B), e)
    BY <2>1, PassOneMore
  <2>5. pass_on(Append(pass_on(f, A), e), B) =
            IF e.name \in B THEN pass_on(pass_on(f, A), B)
            ELSE Append(pass_on(pass_on(f, A), B), e)
    BY <1>0, <2>1, PassOneMore
  <2> QED BY <2>2, <2>3, <2>4, <2>5 DEF P
<1>3. \A n \in Nat : n \in T
  <2> HIDE DEF T
  <2> QED BY <1>1, <1>2, NatInduced
<1>4. ASSUME NEW hs \in Seq(H) PROVE P(hs)
  <2> HIDE DEF P
  <2>1. Len(hs) \in T
    <3> HIDE DEF T
    <3> QED BY <1>3
  <2> QED BY <2>1
<1> QED BY <1>4

\* A list of header lines of any length: the lines the policy does not strip go to the
\* upstream, each once and in order, a second pass strips nothing more, and the policy
\* of responses differs in the private names alone (lib.rs, request_header_is_stripped
\* and response_header_is_stripped).
THEOREM HeaderPolicy ==
    ASSUME NEW H, NEW hs \in Seq(H)
    PROVE  /\ Filtered(hs, request_headers(hs),
                       connection_nominated_headers(hs) \cup HopByHop \cup Private)
           /\ request_headers(request_headers(hs)) = request_headers(hs)
           /\ pass_on(response_headers(hs), Private) = request_headers(hs)
<1> DEFINE per == connection_nominated_headers(hs) \cup HopByHop
           S == per \cup Private
           sent == request_headers(hs)
<1>1. sent = pass_on(hs, S)
  BY DEF request_headers
<1>2. sent \in Seq(H) /\ Filtered(hs, sent, S)
  <2> HIDE DEF S, sent
  <2> QED BY <1>1, PassFilters
<1>3. \A i \in 1..Len(sent) : sent[i].name \notin S
  <2> HIDE DEF S, sent
  <2>1. PICK at \in [DOMAIN sent -> DOMAIN hs] :
           /\ \A i \in DOMAIN sent : sent[i] = hs[at[i]]
           /\ \A n \in DOMAIN hs : hs[n].name \in S <=> n \notin Range(at)
    BY <1>2 DEF Filtered
  <2>2. \A i \in DOMAIN sent : at[i] \in DOMAIN hs /\ at[i] \in Range(at)
    BY <2>1 DEF Range
  <2>3. DOMAIN sent = 1..Len(sent)
    BY <1>2
  <2> QED BY <2>1, <2>2, <2>3
<1>4. connection_nominated_headers(sent) = {}
  <2>1. "connection" \in S
    BY DEF HopByHop
  <2> HIDE DEF S, sent
  <2>2. DOMAIN sent = 1..Len(sent)
    BY <1>2
  <2>3. \A h \in ToSet(sent) : h.name # "connection"
    BY <1>3, <2>1, <2>2 DEF ToSet
  <2> QED BY <2>3 DEF connection_nominated_headers
<1>5. request_headers(sent) = pass_on(sent, HopByHop \cup Private)
  <2>1. {} \cup HopByHop \cup Private = HopByHop \cup Private
    OBVIOUS
  <2> HIDE DEF sent
  <2> QED BY <1>4, <2>1 DEF request_headers
<1>6. \A i \in 1..Len(sent) : sent[i].name \notin HopByHop \cup Private
  BY <1>3
<1>7. request_headers(sent) = sent
  <2> HIDE DEF sent
  <2> QED BY <1>2, <1>5, <1>6, PassAll
<1>8. pass_on(response_headers(hs), Private) = sent
  <2>1. response_headers(hs) = pass_on(hs, per)
    BY DEF response_headers
  <2>2. pass_on(pass_on(hs, per), Private) = pass_on(hs, per \cup Private)
    <3> HIDE DEF per
    <3> QED BY PassTwice
  <2> QED BY <1>1, <2>1, <2>2
<1> QED BY <1>2, <1>7, <1>8

-----------------------------------------------------------------------------
(***************************************************************************)
(* The path                                                                *)
(***************************************************************************)

\* out runs through the path state of the parser, one segment at a time.
Walks(out, path) ==
    /\ out[0] = <<>>
    /\ \A i \in 1..Len(path) : out[i] = PathState(out[i - 1], path[i], i = Len(path))

\* The parser's loop has a run, and its result is the last value of it.
LEMMA ResolveRuns ==
    ASSUME NEW path, Len(path) \in Nat
    PROVE  \E out : Walks(out, path) /\ Resolve(path) = out[Len(path)]
<1> DEFINE N == Len(path)
           Step(o, i) == PathState(o, path[i], i = N)
           Rec(f) == [i \in 0..N |-> IF i = 0 THEN <<>>
                                     ELSE PathState(f[i - 1], path[i], i = N)]
           Upto(g, n) == /\ g[0] = <<>>
                         /\ \A i \in 1..n : g[i] = Step(g[i - 1], i)
           T == {n \in Nat : \E g : Upto(g, n)}
           chosen == CHOOSE f : f = Rec(f)
<1>1. 0 \in T
  <2>1. Upto([i \in {0} |-> <<>>], 0)
    OBVIOUS
  <2> QED BY <2>1
<1>2. ASSUME NEW n \in Nat, n \in T PROVE n + 1 \in T
  <2>1. PICK g : Upto(g, n)
    BY <1>2
  <2> DEFINE next == Step(g[n], n + 1)
             h == [i \in 0..(n + 1) |-> IF i = n + 1 THEN next ELSE g[i]]
  <2>2. h[0] = <<>>
    BY <2>1
  <2>3. ASSUME NEW i \in 1..(n + 1) PROVE h[i] = Step(h[i - 1], i)
    <3>1. CASE i = n + 1
      <4>1. h[i] = next /\ h[i - 1] = g[n]
        BY <3>1
      <4> QED BY <3>1, <4>1
    <3>2. CASE i \in 1..n
      <4>1. h[i] = g[i] /\ h[i - 1] = g[i - 1]
        BY <3>2
      <4> QED BY <2>1, <3>2, <4>1
    <3> QED BY <3>1, <3>2
  <2>4. Upto(h, n + 1)
    <3> HIDE DEF h, Step
    <3> QED BY <2>2, <2>3
  <2>5. n + 1 \in Nat
    OBVIOUS
  <2> HIDE DEF h, Upto
  <2> QED BY <2>4, <2>5
<1>3. N \in T
  <2> HIDE DEF T
  <2> QED BY <1>1, <1>2, NatInduced
<1>4. PICK g : Upto(g, N)
  BY <1>3
<1> DEFINE f0 == [i \in 0..N |-> g[i]]
<1>5. f0 = Rec(f0)
  <2>1. ASSUME NEW i \in 0..N PROVE f0[i] = Rec(f0)[i]
    <3>1. CASE i = 0
      BY <1>4, <3>1
    <3>2. CASE i \in 1..N
      <4>1. f0[i] = g[i] /\ f0[i - 1] = g[i - 1]
        BY <3>2
      <4> QED BY <1>4, <3>2, <4>1
    <3> QED BY <3>1, <3>2
  <2> QED BY <2>1
<1>6. chosen = Rec(chosen)
  <2> HIDE DEF Rec, f0
  <2> QED BY <1>5
<1>7. Walks(chosen, path)
  <2>1. chosen[0] = <<>>
    <3> HIDE DEF chosen
    <3> QED BY <1>6
  <2>2. ASSUME NEW i \in 1..N
        PROVE  chosen[i] = Step(chosen[i - 1], i)
    <3>1. i \in 0..N /\ i # 0
      OBVIOUS
    <3>2. Rec(chosen)[i] = Step(chosen[i - 1], i)
      <4> HIDE DEF chosen
      <4> QED BY <3>1
    <3> HIDE DEF chosen, Rec, Step
    <3> QED BY <1>6, <3>2
  <2> HIDE DEF chosen
  <2> QED BY <2>1, <2>2 DEF Walks
<1>8. Resolve(path) = chosen[N]
  BY DEF Resolve
<1> HIDE DEF chosen
<1> QED BY <1>7, <1>8

\* The segments that a URL parser takes out or rewrites
Rewritten == Dot \cup DotDot \cup {"{x}"}

\* A path without its last segment, and one with a segment more
LEMMA ShorterLonger ==
    ASSUME NEW S, NEW out \in Seq(S), NEW segment \in S
    PROVE  /\ out # <<>> => Front(out) \in Seq(S) /\ Len(Front(out)) <= Len(out)
           /\ Append(out, segment) \in Seq(S)
           /\ Len(Append(out, segment)) = Len(out) + 1
           /\ Append(out, segment) # <<>>
           /\ Append(out, segment)[Len(out) + 1] = segment
           /\ \A i \in 1..Len(out) : Append(out, segment)[i] = out[i]
<1>1. ASSUME out # <<>> PROVE Front(out) \in Seq(S) /\ Len(Front(out)) <= Len(out)
  <2>1. Len(out) - 1 \in Nat
    BY <1>1
  <2> DEFINE f == SubSeq(out, 1, Len(out) - 1)
  <2>2. \A i \in 1..(Len(out) - 1) : out[i] \in S
    BY <2>1
  <2>3. f \in Seq(S) /\ Len(f) = IF 1 <= Len(out) - 1 THEN (Len(out) - 1) - 1 + 1 ELSE 0
    BY <2>1, <2>2, SubSeqProperties
  <2>4. Len(f) <= Len(out)
    BY <2>1, <2>3
  <2>5. f = Front(out)
    BY DEF Front
  <2> QED BY <2>3, <2>4, <2>5
<1>2. /\ Append(out, segment) \in Seq(S)
      /\ Len(Append(out, segment)) = Len(out) + 1
      /\ Append(out, segment)[Len(out) + 1] = segment
      /\ \A i \in 1..Len(out) : Append(out, segment)[i] = out[i]
  BY AppendProperties
<1>3. Append(out, segment) # <<>>
  BY AppendProperties
<1> QED BY <1>1, <1>2, <1>3

\* What an end of the path in a dot segment leaves, and what "{x}" is re-encoded to
Slash == ""
Encoded == "%7Bx%7D"

\* Neither is rewritten by the parser itself.
LEMMA Fixed ==
    Slash \notin Rewritten /\ Encoded \notin Rewritten /\ Slash # Encoded
BY Zenon DEF Slash, Encoded, Rewritten, Dot, DotDot

\* A step of the parser lengthens the path by at most one, and by nothing at a dot
\* segment that is not the last one.
LEMMA OneSegment ==
    ASSUME NEW S, NEW out \in Seq(S), NEW segment \in S, NEW last \in BOOLEAN,
           Slash \in S, Encoded \in S
    PROVE  LET o == PathState(out, segment, last)
               dot == segment \in Dot \cup DotDot
           IN  /\ o \in Seq(S)
               /\ Len(o) <= Len(out) + 1
               /\ dot /\ ~last => Len(o) <= Len(out)
               /\ dot /\ last => o # <<>> /\ o[Len(o)] = Slash
               /\ ~dot => o = Append(out, percent_encode(segment))
<1> DEFINE o == PathState(out, segment, last)
           kept == IF segment \in DotDot /\ out # <<>> THEN Front(out) ELSE out
<1>1. kept \in Seq(S) /\ Len(kept) <= Len(out)
  <2>1. CASE segment \in DotDot /\ out # <<>>
    <3>1. kept = Front(out)
      BY <2>1
    <3> HIDE DEF kept
    <3> QED BY <2>1, <3>1, ShorterLonger
  <2>2. CASE ~(segment \in DotDot /\ out # <<>>)
    <3>1. kept = out
      BY <2>2
    <3> HIDE DEF kept
    <3> QED BY <3>1
  <2> QED BY <2>1, <2>2
<1>2. percent_encode(segment) \in S
  BY Zenon DEF percent_encode, Encoded
<1>3. o = IF segment \notin Dot \cup DotDot THEN Append(out, percent_encode(segment))
          ELSE IF last THEN Append(kept, Slash) ELSE kept
  BY Zenon DEF PathState, Slash
<1>0. Len(out) \in Nat /\ Len(kept) \in Nat
  BY <1>1, LenProperties
<1> HIDE DEF kept, o
<1>4. CASE segment \notin Dot \cup DotDot
  <2>1. o = Append(out, percent_encode(segment))
    BY <1>3, <1>4
  <2>2. o \in Seq(S) /\ Len(o) = Len(out) + 1
    BY <1>2, <2>1, ShorterLonger
  <2> QED BY <1>0, <1>4, <2>1, <2>2 DEF o
<1>5. CASE segment \in Dot \cup DotDot /\ last
  <2>1. o = Append(kept, Slash)
    BY <1>3, <1>5
  <2>2. o \in Seq(S) /\ Len(o) = Len(kept) + 1 /\ o # <<>> /\ o[Len(o)] = Slash
    BY <1>1, <2>1, ShorterLonger
  <2>3. Len(o) <= Len(out) + 1
    BY <1>0, <1>1, <2>2
  <2> QED BY <1>5, <2>2, <2>3, Zenon DEF o
<1>6. CASE segment \in Dot \cup DotDot /\ ~last
  <2>1. o = kept
    BY <1>3, <1>6
  <2> QED BY <1>0, <1>1, <1>6, <2>1 DEF o
<1> QED BY <1>4, <1>5, <1>6 DEF o

\* The parser leaves a path as it is exactly when no segment of it is a dot segment or
\* has a character that is re-encoded: a dot segment before the end makes the path
\* shorter for good, one at the end leaves an empty segment in its place, and without
\* any the path keeps its length and each segment its place.
LEMMA ResolveFixes ==
    ASSUME NEW S, NEW path \in Seq(S)
    PROVE  Resolve(path) = path <=> \A i \in 1..Len(path) : path[i] \notin Rewritten
<1> DEFINE N == Len(path)
           X == S \cup {Slash, Encoded}
           dot(i) == path[i] \in Dot \cup DotDot
<1>0. PICK out : Walks(out, path) /\ Resolve(path) = out[N]
  BY ResolveRuns
<1>1. N \in Nat /\ \A i \in 1..N : path[i] \in X
  OBVIOUS
<1>2. Slash \in X /\ Encoded \in X
  OBVIOUS
<1> HIDE DEF X
<1> DEFINE P(n) == /\ out[n] \in Seq(X)
                   /\ Len(out[n]) <= n
                   /\ n < N /\ (\E i \in 1..n : dot(i)) => Len(out[n]) < n
                   /\ (\A i \in 1..n : ~dot(i)) =>
                         /\ Len(out[n]) = n
                         /\ \A i \in 1..n : out[n][i] = percent_encode(path[i])
           T == {n \in Nat : n <= N => P(n)}
<1>3. 0 \in T
  <2>1. out[0] = <<>>
    BY <1>0 DEF Walks
  <2>2. out[0] \in Seq(X) /\ Len(out[0]) = 0 /\ 1..0 = {}
    BY <2>1
  <2> HIDE DEF dot
  <2> QED BY <2>2
<1>4. ASSUME NEW n \in Nat, n \in T PROVE n + 1 \in T
  <2> SUFFICES ASSUME n + 1 <= N PROVE P(n + 1)
    OBVIOUS
  <2>1. n + 1 \in 1..N /\ (n + 1) - 1 = n /\ n < N
    BY <1>1
  <2>2. P(n)
    BY <1>1, <1>4, <2>1
  <2> DEFINE a == out[n]
             b == out[n + 1]
             last == (n + 1 = N)
  <2>3. b = PathState(a, path[n + 1], last)
    BY <1>0, <2>1 DEF Walks
  <2>4. a \in Seq(X) /\ path[n + 1] \in X /\ last \in BOOLEAN
    BY <1>1, <2>1, <2>2
  <2>5. /\ b \in Seq(X)
        /\ Len(b) <= Len(a) + 1
        /\ dot(n + 1) /\ ~last => Len(b) <= Len(a)
        /\ ~dot(n + 1) => b = Append(a, percent_encode(path[n + 1]))
    <3> HIDE DEF a, b, last
    <3> QED BY <1>2, <2>3, <2>4, OneSegment
  <2>6. Len(a) \in Nat /\ Len(b) \in Nat
    BY <2>4, <2>5, LenProperties
  <2>7. Len(a) <= n /\ Len(b) <= n + 1
    <3> HIDE DEF b, dot, last
    <3> QED BY <2>2, <2>5, <2>6
  <2>8. ASSUME n + 1 < N, NEW i \in 1..(n + 1), dot(i) PROVE Len(b) < n + 1
    <3>1. CASE i = n + 1
      <4>1. ~last
        BY <1>1, <2>8
      <4>2. Len(b) <= Len(a)
        BY <2>5, <2>8, <3>1, <4>1
      <4> HIDE DEF a, b
      <4> QED BY <2>6, <2>7, <4>2
    <3>2. CASE i \in 1..n
      <4>1. Len(a) < n
        BY <2>1, <2>2, <2>8, <3>2
      <4> HIDE DEF a, b
      <4> QED BY <2>5, <2>6, <4>1
    <3> QED BY <3>1, <3>2
  <2>9. ASSUME \A i \in 1..(n + 1) : ~dot(i)
        PROVE  /\ Len(b) = n + 1
               /\ \A i \in 1..(n + 1) : b[i] = percent_encode(path[i])
    <3>1. /\ ~dot(n + 1) /\ \A i \in 1..n : ~dot(i)
      <4> HIDE DEF dot
      <4> QED BY <2>9
    <3>2. Len(a) = n /\ \A i \in 1..n : a[i] = percent_encode(path[i])
      BY <2>2, <3>1
    <3>3. b = Append(a, percent_encode(path[n + 1]))
      BY <2>5, <3>1
    <3>4. percent_encode(path[n + 1]) \in X
      <4> HIDE DEF a, b, last, N
      <4> QED BY <1>2, <2>4, Zenon DEF percent_encode, Encoded
    <3>5. /\ Len(b) = Len(a) + 1 /\ b[Len(a) + 1] = percent_encode(path[n + 1])
          /\ \A i \in 1..Len(a) : b[i] = a[i]
      <4> HIDE DEF a, b
      <4> QED BY <2>4, <3>3, <3>4, ShorterLonger
    <3> HIDE DEF a, b
    <3> QED BY <3>2, <3>5
  <2> HIDE DEF dot
  <2> QED BY <2>5, <2>7, <2>8, <2>9
<1>5. P(N)
  <2>1. N \in T
    <3> HIDE DEF T
    <3> QED BY <1>1, <1>3, <1>4, NatInduced
  <2> HIDE DEF P
  <2> QED BY <1>1, <2>1
<1>6. ASSUME \A i \in 1..N : path[i] \notin Rewritten PROVE Resolve(path) = path
  <2>1. \A i \in 1..N : ~dot(i) /\ percent_encode(path[i]) = path[i]
    <3> TAKE i \in 1..N
    <3>1. path[i] \notin Rewritten
      BY <1>6
    <3> QED BY <3>1, Zenon DEF Rewritten, percent_encode
  <2>2. out[N] \in Seq(X) /\ Len(out[N]) = N /\ \A i \in 1..N : out[N][i] = path[i]
    <3> HIDE DEF dot
    <3> QED BY <1>5, <2>1
  <2>3. path \in Seq(X)
    BY <1>1 DEF X
  <2> QED BY <1>0, <2>2, <2>3, SeqEqual
<1>7. ASSUME NEW k \in 1..N, path[k] \in Rewritten, Resolve(path) = path PROVE FALSE
  <2>1. out[N] = path /\ Len(path) = N
    BY <1>0, <1>7
  <2>2. CASE \E i \in 1..N : dot(i) /\ i < N
    <3>1. PICK i \in 1..N : dot(i) /\ i < N
      BY <2>2
    <3>2. N - 1 \in Nat /\ N - 1 < N /\ i \in 1..(N - 1) /\ (N - 1) + 1 = N
      BY <1>1, <3>1
    <3>3. N - 1 \in T
      <4> HIDE DEF T
      <4> QED BY <1>3, <1>4, <3>2, NatInduced
    <3>4. Len(out[N - 1]) < N - 1 /\ out[N - 1] \in Seq(X)
      BY <3>1, <3>2, <3>3
    <3> DEFINE last == (N = N)
    <3>5. out[N] = PathState(out[N - 1], path[N], last)
      <4>1. N \in 1..N
        BY <1>1, <3>1
      <4> QED BY <1>0, <4>1 DEF Walks
    <3>6. Len(out[N]) <= Len(out[N - 1]) + 1
      <4>1. path[N] \in X /\ last \in BOOLEAN
        BY <1>1, <3>2
      <4> HIDE DEF last, N
      <4> QED BY <1>2, <3>4, <3>5, <4>1, OneSegment
    <3>7. Len(out[N - 1]) \in Nat
      BY <3>4, LenProperties
    <3> QED BY <1>1, <2>1, <3>2, <3>4, <3>6, <3>7
  <2>3. CASE dot(N) /\ N \in 1..N
    <3> DEFINE last == (N = N)
    <3>1. N - 1 \in Nat /\ (N - 1) + 1 = N /\ N - 1 <= N
      BY <1>1, <2>3
    <3>2. out[N - 1] \in Seq(X)
      <4>1. N - 1 \in T
        <5> HIDE DEF T
        <5> QED BY <1>3, <1>4, <3>1, NatInduced
      <4> QED BY <3>1, <4>1
    <3>3. out[N] = PathState(out[N - 1], path[N], last)
      BY <1>0, <1>1, <2>3 DEF Walks
    <3>4. out[N][Len(out[N])] = Slash
      <4>1. path[N] \in X /\ last \in BOOLEAN /\ last
        BY <1>1, <2>3
      <4>2. path[N] \in Dot \cup DotDot
        BY <2>3
      <4> HIDE DEF last, N, dot
      <4>3. PathState(out[N - 1], path[N], last)[Len(PathState(out[N - 1], path[N], last))]
                = Slash
        BY <1>2, <3>2, <4>1, <4>2, OneSegment
      <4> QED BY <3>3, <4>3
    <3>5. path[N] = Slash
      BY <2>1, <3>4
    <3> QED BY <2>3, <3>5, Fixed, Zenon DEF Rewritten
  <2>4. CASE \A i \in 1..N : ~dot(i)
    <3>1. path[k] = percent_encode(path[k])
      <4> HIDE DEF dot
      <4> QED BY <1>5, <1>7, <2>1, <2>4
    <3>2. path[k] = "{x}"
      BY <1>7, <2>4 DEF Rewritten
    <3>3. "{x}" = Encoded
      BY <3>1, <3>2, Zenon DEF percent_encode, Encoded
    <3> QED BY <3>3, Fixed, Zenon DEF Rewritten
  <2> HIDE DEF dot
  <2>5. \A i \in 1..N : i < N \/ i = N
    BY <1>1
  <2> QED BY <2>2, <2>3, <2>4, <2>5
<1> QED BY <1>6, <1>7

\* A path of any length under /v1/ is refused exactly when a URL parser would rewrite
\* it, and it is an operation the gateway meters exactly when the upstream is asked for
\* that operation's endpoint (lib.rs, route_v1).
THEOREM PathPolicy ==
    ASSUME NEW S, NEW path \in Seq(S), path[1] = "v1", Len(path) >= 2
    PROVE  /\ path_is_preserved(path) <=> \A i \in DOMAIN path : path[i] \notin Rewritten
           /\ operation(path) = "response" <=>
                 candidate_path(path) = Base \o <<"responses">>
           /\ operation(path) = "compaction" <=>
                 candidate_path(path) = Base \o <<"responses", "compact">>
<1> DEFINE Q == ToSet(Base) \cup S \cup {"responses", "compact"}
           B == Len(Base)
           N == Len(path)
           t == Tail(path)
           c == candidate_path(path)
<1>1. /\ Base \in Seq(Q) /\ path \in Seq(Q) /\ B \in Nat /\ N \in Nat
      /\ <<"responses">> \in Seq(Q) /\ <<"responses", "compact">> \in Seq(Q)
  <2>1. Base \in Seq(ToSet(Base))
    BY BaseAssumption
  <2>2. Base \in Seq(Q) /\ path \in Seq(Q)
    BY <2>1, SeqMonotonic
  <2>3. "responses" \in Q /\ "compact" \in Q
    OBVIOUS
  <2> HIDE DEF Q
  <2> QED BY <2>2, <2>3
<1>2. \A i \in 1..B : Base[i] \notin Rewritten
  <2>1. \A i \in 1..B : Base[i] \in ToSet(Base)
    BY <1>1 DEF ToSet
  <2>2. ToSet(Base) \cap Rewritten = {}
    BY BaseAssumption DEF Rewritten, Dot, DotDot
  <2> QED BY <2>1, <2>2
<1> HIDE DEF Q
<1>3. t \in Seq(Q) /\ Len(t) = N - 1 /\ \A i \in 1..(N - 1) : t[i] = path[i + 1]
  <2>1. path # <<>>
    BY <1>1
  <2> QED BY <1>1, <2>1, HeadTailProperties
<1>4. c = Base \o t
  BY DEF candidate_path
<1>5. /\ c \in Seq(Q) /\ Len(c) = B + (N - 1)
      /\ \A i \in 1..(B + (N - 1)) : c[i] = IF i <= B THEN Base[i] ELSE t[i - B]
  <2>1. /\ Base \o t \in Seq(Q) /\ Len(Base \o t) = Len(Base) + Len(t)
        /\ \A i \in 1..(Len(Base) + Len(t)) :
             (Base \o t)[i] = IF i <= Len(Base) THEN Base[i] ELSE t[i - Len(Base)]
    <3> HIDE DEF t
    <3> QED BY <1>1, <1>3, ConcatProperties
  <2>2. Len(t) = N - 1
    BY <1>3
  <2> HIDE DEF t, c
  <2> QED BY <1>4, <2>1, <2>2
<1>6. path[1] \notin Rewritten
  BY DEF Rewritten, Dot, DotDot
<1>7. path_is_preserved(path) <=> \A i \in 1..Len(c) : c[i] \notin Rewritten
  <2>1. path_is_preserved(path) <=> Resolve(c) = c
    BY DEF path_is_preserved
  <2> HIDE DEF c
  <2> QED BY <1>5, <2>1, ResolveFixes
<1>8. (\A i \in 1..Len(c) : c[i] \notin Rewritten) <=> \A i \in 1..N : path[i] \notin Rewritten
  <2> HIDE DEF t, c
  <2>1. ASSUME \A i \in 1..Len(c) : c[i] \notin Rewritten, NEW i \in 1..N
        PROVE  path[i] \notin Rewritten
    <3>1. CASE i = 1
      BY <1>6, <3>1
    <3>2. CASE i # 1
      <4>1. i - 1 \in 1..(N - 1) /\ (i - 1) + 1 = i
        BY <1>1, <3>2
      <4>2. t[i - 1] = path[i]
        BY <1>3, <4>1
      <4>3. B + (i - 1) \in 1..(B + (N - 1)) /\ ~(B + (i - 1) <= B) /\ (B + (i - 1)) - B = i - 1
        BY <1>1, <4>1
      <4>4. c[B + (i - 1)] = path[i]
        BY <1>5, <4>2, <4>3
      <4> QED BY <1>5, <2>1, <4>3, <4>4
    <3> QED BY <3>1, <3>2
  <2>2. ASSUME \A i \in 1..N : path[i] \notin Rewritten, NEW i \in 1..Len(c)
        PROVE  c[i] \notin Rewritten
    <3>1. CASE i <= B
      BY <1>1, <1>2, <1>5, <3>1
    <3>2. CASE ~(i <= B)
      <4>1. i - B \in 1..(N - 1) /\ (i - B) + 1 \in 1..N
        BY <1>1, <1>5, <3>2
      <4>2. c[i] = path[(i - B) + 1]
        BY <1>3, <1>5, <3>2, <4>1
      <4> QED BY <2>2, <4>1, <4>2
    <3> QED BY <3>1, <3>2
  <2> QED BY <2>1, <2>2
<1>9. DOMAIN path = 1..N
  BY <1>1
<1>10. path_is_preserved(path) <=> \A i \in DOMAIN path : path[i] \notin Rewritten
  BY <1>7, <1>8, <1>9
<1>11. ASSUME NEW v \in Seq(Q) PROVE c = Base \o v <=> t = v
  <2> HIDE DEF t, c
  <2> QED BY <1>1, <1>3, <1>4, <1>11, ConcatSimplifications
<1>12. t = <<"responses">> <=> path = <<"v1", "responses">>
  <2>1. ASSUME t = <<"responses">> PROVE path = <<"v1", "responses">>
    <3> HIDE DEF t
    <3>1. Len(t) = 1 /\ t[1] = "responses"
      BY <2>1
    <3>2. N = 2
      <4>1. N - 1 = 1
        BY <1>3, <3>1, Zenon
      <4> QED BY <1>1, <4>1
    <3>3. t[1] = path[1 + 1]
      <4>1. 1 \in 1..(N - 1)
        BY <3>2
      <4> QED BY <1>3, <4>1
    <3> QED BY <1>1, <3>1, <3>2, <3>3
  <2>2. ASSUME path = <<"v1", "responses">> PROVE t = <<"responses">>
    <3>1. N = 2 /\ path[2] = "responses"
      BY <2>2
    <3> HIDE DEF t, N
    <3> QED BY <1>3, <3>1
  <2> HIDE DEF t
  <2> QED BY <2>1, <2>2
<1>13. t = <<"responses", "compact">> <=> path = <<"v1", "responses", "compact">>
  <2>1. ASSUME t = <<"responses", "compact">> PROVE path = <<"v1", "responses", "compact">>
    <3> HIDE DEF t
    <3>1. Len(t) = 2 /\ t[1] = "responses" /\ t[2] = "compact"
      BY <2>1
    <3>2. N = 3
      <4>1. N - 1 = 2
        BY <1>3, <3>1, Zenon
      <4> QED BY <1>1, <4>1
    <3>3. t[1] = path[1 + 1] /\ t[2] = path[2 + 1]
      <4>1. 1 \in 1..(N - 1) /\ 2 \in 1..(N - 1)
        BY <3>2
      <4> QED BY <1>3, <4>1
    <3> QED BY <1>1, <3>1, <3>2, <3>3
  <2>2. ASSUME path = <<"v1", "responses", "compact">> PROVE t = <<"responses", "compact">>
    <3>1. N = 3 /\ path[2] = "responses" /\ path[3] = "compact"
      BY <2>2
    <3> HIDE DEF t, N
    <3> QED BY <1>3, <3>1
  <2> HIDE DEF t
  <2> QED BY <2>1, <2>2
<1>14. /\ operation(path) = "response" <=> path = <<"v1", "responses">>
       /\ operation(path) = "compaction" <=> path = <<"v1", "responses", "compact">>
  <2>1. <<"v1", "responses">> # <<"v1", "responses", "compact">>
    OBVIOUS
  <2> QED BY <2>1 DEF operation
<1>15. /\ c = Base \o <<"responses">> <=> path = <<"v1", "responses">>
       /\ c = Base \o <<"responses", "compact">> <=> path = <<"v1", "responses", "compact">>
  <2> HIDE DEF c, t
  <2> QED BY <1>1, <1>11, <1>12, <1>13
<1> QED BY <1>10, <1>14, <1>15

-----------------------------------------------------------------------------
(***************************************************************************)
(* The gateway                                                             *)
(***************************************************************************)

\* A sequence of bounded length is a sequence.
LEMMA Bounded ==
    ASSUME NEW S, NEW n, NEW s \in BoundedSeq(S, n)
    PROVE  s \in Seq(S)
<1>1. PICK m \in 0..n : s \in [1..m -> S]
  BY DEF BoundedSeq, SeqOf
<1>2. m \in Nat
  BY <1>1
<1> QED BY <1>1, <1>2

PathSegments == Segments \cup {"v1", "models", "..", "x", "responses"}

\* A request has a path, key lines and header lines.
LEMMA RequestForm ==
    ASSUME NEW req \in Requests
    PROVE  /\ req.path \in Seq(PathSegments)
           /\ req.keys \in Seq(Keys)
           /\ req.headers \in Seq(Headers)
<1>1. /\ <<"v1", "models">> \in Seq(PathSegments) /\ <<"v1", "..", "x">> \in Seq(PathSegments)
      /\ <<"v1", "responses">> \in Seq(PathSegments)
  <2>1. /\ "v1" \in PathSegments /\ "models" \in PathSegments /\ ".." \in PathSegments
        /\ "x" \in PathSegments /\ "responses" \in PathSegments
    BY DEF PathSegments
  <2> QED BY <2>1
<1>2. Key("k1") \in Keys /\ <<Key("k1")>> \in Seq(Keys)
  <2>1. Key("k1") \in Keys
    BY DEF Keys
  <2> QED BY <2>1
<1>3. <<Line("x-codex")>> \in Seq(Headers) /\ <<>> \in Seq(Headers)
  <2>1. Line("x-codex") \in Headers
    BY DEF Headers
  <2> QED BY <2>1
<1>4. CASE \E m \in {"GET", "POST"}, p \in BoundedSeq(Segments, MaxSegments) \ {<<>>} :
             req = Req(m, p, <<Key("k1")>>, <<Line("x-codex")>>)
  <2>1. PICK m \in {"GET", "POST"}, p \in BoundedSeq(Segments, MaxSegments) :
             req = Req(m, p, <<Key("k1")>>, <<Line("x-codex")>>)
    BY <1>4
  <2>2. p \in Seq(PathSegments)
    <3>1. p \in Seq(Segments)
      BY Bounded
    <3>2. Segments \subseteq PathSegments
      BY DEF PathSegments
    <3> QED BY <3>1, <3>2, SeqMonotonic
  <2> QED BY <1>2, <1>3, <2>1, <2>2 DEF Req
<1>5. CASE \E p \in {<<"v1", "models">>, <<"v1", "..", "x">>}, ks \in BoundedSeq(Keys, MaxKeys) :
             req = Req("POST", p, ks, <<>>)
  <2>1. PICK p \in {<<"v1", "models">>, <<"v1", "..", "x">>}, ks \in BoundedSeq(Keys, MaxKeys) :
             req = Req("POST", p, ks, <<>>)
    BY <1>5
  <2>2. ks \in Seq(Keys) /\ p \in Seq(PathSegments)
    BY <1>1, Bounded
  <2> QED BY <1>3, <2>1, <2>2 DEF Req
<1>6. CASE \E hs \in {s \in BoundedSeq(Headers, MaxHeaders) : Grouped(s)} :
             req = Req("POST", <<"v1", "responses">>, <<Key("k1")>>, hs)
  <2>1. PICK hs \in BoundedSeq(Headers, MaxHeaders) :
             req = Req("POST", <<"v1", "responses">>, <<Key("k1")>>, hs)
    BY <1>6
  <2>2. hs \in Seq(Headers)
    BY Bounded
  <2> QED BY <1>1, <1>2, <2>1, <2>2 DEF Req
<1> QED BY <1>4, <1>5, <1>6 DEF Requests

\* A configuration is what load makes of some file, and a verdict is the router's, under
\* the configuration the gateway serves, for the request it has read.
RoutingInv ==
    /\ config = None \/ \E file \in Files : config = load(file)
    /\ verdict = None \/
         /\ config \notin {None, Refused}
         /\ request \in Requests
         /\ verdict = router(config.machine_keys, request)

\* The router's verdict is that of the configuration and the request the gateway holds:
\* neither changes once it is given (lib.rs, router; main.rs, run).
THEOREM Invariance == Spec => []RoutingInv
<1>1. Init => RoutingInv
  BY DEF Init, RoutingInv
<1>2. RoutingInv /\ [Next]_vars => RoutingInv'
  <2> SUFFICES ASSUME RoutingInv, [Next]_vars PROVE RoutingInv'
    OBVIOUS
  <2>1. ASSUME config = None, NEW file \in Files, Load(file) PROVE RoutingInv'
    <3>1. verdict = None /\ config' = load(file) /\ verdict' = verdict
      BY <2>1 DEF RoutingInv, Load
    <3> QED BY <3>1 DEF RoutingInv
  <2>2. ASSUME verdict = None, NEW req \in Requests, Handle(req) PROVE RoutingInv'
    BY <2>2 DEF RoutingInv, Handle
  <2>3. CASE UNCHANGED vars
    BY <2>3 DEF RoutingInv, vars
  <2> QED BY <2>1, <2>2, <2>3 DEF Next
<1> QED BY <1>1, <1>2, PTL DEF Spec

\* Every verdict on a path under /v1/ is route_v1's, and no other path is forwarded or
\* refused as rewritten.
LEMMA VerdictForm ==
    ASSUME NEW keys, NEW req \in Requests
    PROVE  LET v == router(keys, req)
               machine == authenticate(keys, req.keys)
           IN  /\ v.status = "forward" <=>
                    /\ IsProvider(req.path) /\ machine # NoMachine
                    /\ path_is_preserved(req.path)
               /\ v.status = "bad_request" <=>
                    /\ IsProvider(req.path) /\ machine # NoMachine
                    /\ ~path_is_preserved(req.path)
               /\ v.status = "forward" => v = Forward(machine, req)
<1> DEFINE v == router(keys, req)
           machine == authenticate(keys, req.keys)
<1>1. /\ Answer("unauthorized").status = "unauthorized"
      /\ Answer("bad_request").status = "bad_request"
      /\ Answer("not_found").status = "not_found"
      /\ Answer("ok").status = "ok"
      /\ Answer("method_not_allowed").status = "method_not_allowed"
      /\ Forward(machine, req).status = "forward"
  BY DEF Answer, Forward
<1>2. CASE IsProvider(req.path)
  <2>0. ~(req.path = <<"healthz">>)
    <3>1. req.path[1] = "v1"
      BY <1>2, Zenon DEF IsProvider
    <3> QED BY <3>1
  <2>1. v = route_v1(keys, req)
    BY <1>2, <2>0 DEF router
  <2>2. v = IF machine = NoMachine THEN Answer("unauthorized")
            ELSE IF ~path_is_preserved(req.path) THEN Answer("bad_request")
            ELSE Forward(machine, req)
    BY <2>1 DEF route_v1
  <2> HIDE DEF v, machine
  <2> QED BY <1>1, <1>2, <2>2 DEF v, machine
<1>3. CASE ~IsProvider(req.path) /\ req.path = <<"healthz">>
  <2>1. v = Answer(IF req.method = "GET" THEN "ok" ELSE "method_not_allowed")
    BY <1>3 DEF router
  <2>2. v = Answer("ok") \/ v = Answer("method_not_allowed")
    BY <2>1
  <2>3. v.status # "forward" /\ v.status # "bad_request"
    <3> HIDE DEF v
    <3> QED BY <1>1, <2>2
  <2> QED BY <1>3, <2>3
<1>4. CASE ~IsProvider(req.path) /\ req.path # <<"healthz">>
  <2>1. v = Answer("not_found")
    BY <1>4 DEF router
  <2>2. v.status # "forward" /\ v.status # "bad_request"
    <3> HIDE DEF v
    <3> QED BY <1>1, <2>1
  <2> QED BY <1>4, <2>2
<1> QED BY <1>2, <1>3, <1>4

\* What the upstream is asked for is the fixed base and the caller's own segments, no
\* path with dot segments or that is rewritten otherwise becomes one of its Responses
\* endpoints unmetered, and only a path that a URL parser would rewrite is refused,
\* whatever the length of the paths (lib.rs, route_v1).
THEOREM NoWayAround == Spec => []MeteringCannotBeAvoided
<1>1. RoutingInv => MeteringCannotBeAvoided
  <2> SUFFICES ASSUME RoutingInv, verdict # None PROVE MeteringCannotBeAvoided
    BY DEF MeteringCannotBeAvoided
  <2> DEFINE machine == authenticate(config.machine_keys, request.keys)
             path == request.path
  <2>1. request \in Requests /\ verdict = router(config.machine_keys, request)
    BY DEF RoutingInv
  <2>2. /\ verdict.status = "forward" <=>
             IsProvider(path) /\ machine # NoMachine /\ path_is_preserved(path)
        /\ verdict.status = "bad_request" <=>
             IsProvider(path) /\ machine # NoMachine /\ ~path_is_preserved(path)
        /\ verdict.status = "forward" => verdict = Forward(machine, request)
    BY <2>1, VerdictForm
  <2>3. path \in Seq(PathSegments)
    BY <2>1, RequestForm
  <2>4. ASSUME IsProvider(path)
        PROVE  /\ path_is_preserved(path) <=> \A i \in DOMAIN path : path[i] \notin Rewritten
               /\ operation(path) = "response" <=>
                     candidate_path(path) = Base \o <<"responses">>
               /\ operation(path) = "compaction" <=>
                     candidate_path(path) = Base \o <<"responses", "compact">>
    <3>1. path[1] = "v1" /\ Len(path) >= 2
      BY <2>4, Zenon DEF IsProvider
    <3> HIDE DEF path
    <3> QED BY <2>3, <3>1, PathPolicy
  <2>5. verdict.status = "bad_request" <=>
          /\ IsProvider(path) /\ machine # NoMachine
          /\ \E i \in DOMAIN path : path[i] \in Dot \cup DotDot \cup {"{x}"}
    <3> HIDE DEF path, machine
    <3> QED BY <2>2, <2>4, Zenon DEF Rewritten
  <2>6. ASSUME verdict.status = "forward"
        PROVE  /\ verdict.target = Base \o Tail(path)
               /\ verdict.operation = "response" <=> verdict.target = Base \o <<"responses">>
               /\ verdict.operation = "compaction" <=>
                    verdict.target = Base \o <<"responses", "compact">>
    <3>1. IsProvider(path) /\ path_is_preserved(path) /\ verdict = Forward(machine, request)
      BY <2>2, <2>6
    <3>2. verdict.target = Resolve(candidate_path(path)) /\ verdict.operation = operation(path)
      BY <3>1 DEF Forward
    <3>3. verdict.target = candidate_path(path)
      BY <3>1, <3>2 DEF path_is_preserved
    <3>4. candidate_path(path) = Base \o Tail(path)
      BY DEF candidate_path
    <3> HIDE DEF path, machine
    <3> QED BY <2>4, <3>1, <3>2, <3>3, <3>4
  <2> QED BY <2>5, <2>6, Zenon DEF MeteringCannotBeAvoided, Forwarded
<1> QED BY <1>1, Invariance, PTL

\* Whatever the lines and their order, no per-connection or private line reaches the
\* upstream, none that is neither is lost, doubled or moved past another, a second
\* gateway would strip nothing more, and the policy of responses differs in the private
\* names alone, whatever the number of lines.
THEOREM HeadersAsPolicy == Spec => []HeadersFollowPolicy
<1>1. RoutingInv => HeadersFollowPolicy
  <2> SUFFICES ASSUME RoutingInv, Forwarded PROVE HeadersFollowPolicy
    BY DEF HeadersFollowPolicy
  <2> DEFINE machine == authenticate(config.machine_keys, request.keys)
             given == request.headers
             sent == verdict.headers
             named == connection_nominated_headers(given)
             perConnection(n) ==
                \/ n \in HopByHop
                \/ \E h \in ToSet(given) :
                     h.name = "connection" /\ h.readable /\ n \in h.nominates
  <2>1. request \in Requests /\ verdict = router(config.machine_keys, request)
    BY DEF RoutingInv, Forwarded
  <2>2. verdict = Forward(machine, request)
    BY <2>1, VerdictForm DEF Forwarded
  <2>3. sent = request_headers(given) /\ given \in Seq(Headers)
    BY <2>1, <2>2, RequestForm DEF Forward
  <2>4. /\ Filtered(given, sent, named \cup HopByHop \cup Private)
        /\ request_headers(sent) = sent
        /\ pass_on(response_headers(given), Private) = sent
    <3> HIDE DEF given, sent
    <3> QED BY <2>3, HeaderPolicy
  <2>5. \A n : n \in named \cup HopByHop \cup Private <=> perConnection(n) \/ n \in Private
    <3>1. \A n : n \in named <=> \E h \in ToSet(given) :
                     h.name = "connection" /\ h.readable /\ n \in h.nominates
      <4> HIDE DEF given
      <4> QED BY DEF connection_nominated_headers
    <3> HIDE DEF named, given
    <3> QED BY <3>1
  <2> HIDE DEF named, given, sent, perConnection
  <2>6. \E at \in [DOMAIN sent -> DOMAIN given] :
           /\ \A i \in DOMAIN sent : sent[i] = given[at[i]]
           /\ \A i, j \in DOMAIN sent : i < j => at[i] < at[j]
           /\ \A n \in DOMAIN given :
                  perConnection(given[n].name) \/ given[n].name \in Private
                      <=> n \notin Range(at)
    BY <2>4, <2>5, Zenon DEF Filtered
  <2> QED BY <2>4, <2>6, Zenon DEF HeadersFollowPolicy, given, sent, perConnection
<1> QED BY <1>1, Invariance, PTL

\* An empty usage path
NoPath == ""

\* What load accepts is the table of a readable file, its digests those that a key has.
LEMMA AcceptedTable ==
    ASSUME NEW file \in Files, load(file) # Refused
    PROVE  LET keys == load(file).machine_keys
           IN  /\ \A d \in DOMAIN keys : is_digest_hex(d) /\ keys[d] # "  "
               /\ DOMAIN keys \subseteq Digest
<1> DEFINE keys == load(file).machine_keys
<1>1. /\ file.readable /\ file.toml /\ file.listen /\ file.usage_file # NoPath
      /\ ValidKeys(file.machine_keys)
      /\ load(file) = [machine_keys |-> file.machine_keys]
  BY Zenon DEF load, try_from, NoPath
<1>2. keys = file.machine_keys
  BY <1>1
<1>3. PICK table \in Tables : file = File(table)
  <2> DEFINE table == digest_hex("k1") :> "m1" @@ digest_hex("k2") :> "m2"
  <2>1. Good = [readable |-> TRUE, toml |-> TRUE, listen |-> TRUE,
                usage_file |-> "path", machine_keys |-> table]
    BY Zenon DEF Good, File
  <2> HIDE DEF table
  <2>2. /\ ~[Good EXCEPT !.readable = FALSE].readable
        /\ ~[Good EXCEPT !.toml = FALSE].toml
        /\ ~[Good EXCEPT !.listen = FALSE].listen
        /\ [Good EXCEPT !.usage_file = NoPath].usage_file = NoPath
    BY <2>1
  <2>3. Files = {File(t) : t \in Tables}
                   \cup {[Good EXCEPT !.readable = FALSE], [Good EXCEPT !.toml = FALSE],
                         [Good EXCEPT !.listen = FALSE], [Good EXCEPT !.usage_file = NoPath]}
    BY Zenon DEF Files, NoPath
  <2>4. /\ file # [Good EXCEPT !.readable = FALSE] /\ file # [Good EXCEPT !.toml = FALSE]
        /\ file # [Good EXCEPT !.listen = FALSE]
        /\ file # [Good EXCEPT !.usage_file = NoPath]
    BY <1>1, <2>2, Zenon
  <2> QED BY <2>3, <2>4, Zenon
<1>4. keys = table
  BY <1>2, <1>3 DEF File
<1>5. DOMAIN table \subseteq Digest
  BY DEF Tables
<1> HIDE DEF keys
<1> QED BY <1>1, <1>2, <1>4, <1>5 DEF ValidKeys, keys

\* Nothing leaves for the upstream without a single readable key of the machine it is
\* attributed to, and no accepted configuration holds a machine that no caller can be,
\* whatever the number of key lines.
THEOREM ExactAttribution == Spec => []AttributionIsExact
<1>1. RoutingInv => AttributionIsExact
  <2> SUFFICES ASSUME RoutingInv PROVE AttributionIsExact
    OBVIOUS
  <2> DEFINE table == config.machine_keys
             ks == request.keys
             machine == authenticate(table, ks)
  <2>1. ASSUME Forwarded
        PROVE  /\ \E k \in Keys : ks = <<k>> /\ k.readable
               /\ \E d \in DOMAIN table : d.of = ks[1].text /\ table[d] = verdict.machine
    <3>1. request \in Requests /\ verdict = router(table, request)
      BY <2>1 DEF RoutingInv, Forwarded
    <3>2. verdict = Forward(machine, request) /\ machine # NoMachine
      BY <2>1, <3>1, VerdictForm DEF Forwarded
    <3>3. verdict.machine = machine
      BY <3>2 DEF Forward
    <3>4. ks \in Seq(Keys)
      BY <3>1, RequestForm
    <3> HIDE DEF table, ks
    <3> DEFINE d == digest_hex(ks[1].text)
    <3>5. single_key(ks) /\ d \in DOMAIN table /\ machine = table[d]
      BY <3>2 DEF authenticate
    <3>6. Len(ks) = 1 /\ ks[1].readable
      BY <3>5 DEF single_key
    <3>7. ks[1] \in Keys /\ ks = <<ks[1]>>
      BY <3>4, <3>6
    <3>8. d.of = ks[1].text
      BY DEF digest_hex
    <3> HIDE DEF d, machine
    <3> QED BY <3>3, <3>5, <3>6, <3>7, <3>8
  <2>2. ASSUME Served, NEW d \in DOMAIN table
        PROVE  /\ table[d] # "  "
               /\ \E k \in Keys : /\ k.text = d.of
                                  /\ k.readable => authenticate(table, <<k>>) = table[d]
    <3>1. PICK file \in Files : config = load(file) /\ load(file) # Refused
      BY <2>2 DEF RoutingInv, Served
    <3>2. is_digest_hex(d) /\ table[d] # "  " /\ d \in Digest
      <4>1. table = load(file).machine_keys
        BY <3>1
      <4> HIDE DEF table
      <4> QED BY <2>2, <3>1, <4>1, AcceptedTable
    <3>3. d \in {digest_hex("k1"), digest_hex("k2"), digest_hex("opaque")}
      <4>1. d # [of |-> "k1", form |-> "upper"] /\ d # [of |-> "k2", form |-> "short"]
        <5>1. /\ [of |-> "k1", form |-> "upper"].form = "upper"
              /\ [of |-> "k2", form |-> "short"].form = "short"
          OBVIOUS
        <5>2. d.form = "hex64"
          BY <3>2 DEF is_digest_hex
        <5> QED BY <5>1, <5>2, Zenon
      <4> QED BY <3>2, <4>1, Zenon DEF Digest
    <3>4. PICK text \in {"k1", "k2", "opaque"} : d = digest_hex(text)
      BY <3>3
    <3>5. Key(text) \in Keys /\ Key(text).text = text /\ d.of = text
      BY <3>4 DEF Keys, Key, digest_hex
    <3> HIDE DEF table
    <3>6. ASSUME Key(text).readable PROVE authenticate(table, <<Key(text)>>) = table[d]
      <4> DEFINE k == Key(text)
      <4>1. k.text = text /\ k.readable
        BY <3>5, <3>6
      <4> HIDE DEF k
      <4>2. single_key(<<k>>) /\ <<k>>[1] = k
        BY <4>1 DEF single_key
      <4>3. digest_hex(<<k>>[1].text) = d
        BY <3>4, <4>1, <4>2
      <4>4. authenticate(table, <<k>>) = table[d]
        BY <2>2, <4>2, <4>3, Zenon DEF authenticate
      <4> QED BY <4>4 DEF k
    <3> QED BY <3>2, <3>5, <3>6
  <2> HIDE DEF table, ks
  <2> QED BY <2>1, <2>2, Zenon DEF AttributionIsExact, table, ks
<1> QED BY <1>1, Invariance, PTL

==============================================================================
