--------------------------- MODULE SummaryProofs ----------------------------
(***************************************************************************)
(* Proofs about Summary, for every set of records, whatever facts they     *)
(* hold, every counter width and any number of lines, torn or whole.       *)
(***************************************************************************)
EXTENDS Summary, FiniteSetTheorems, SequenceTheorems, TLAPS

Pieces == [rec : Record, part : {"head", "tail", "nl"}]

\* The text read so far
Text == SubSeq(file, 1, pos)

(***************************************************************************)
(* The inductive invariant                                                 *)
(***************************************************************************)

\* A record's line is begun once, so that the file has at most one head of it.
FileInv ==
    /\ file \in Seq(Pieces) /\ rest \in Seq(Pieces)
    /\ IsFiniteSet(begun)
    /\ \A i \in DOMAIN file : file[i].rec \in begun
    /\ \A i \in DOMAIN rest : rest[i].rec \in begun
    /\ \A i, j \in DOMAIN file :
         file[i].part = "head" /\ file[j].part = "head" /\ file[i].rec = file[j].rec => i = j
    /\ \A k \in DOMAIN rest :
         rest[k].part = "head" => k = 1 /\ \A i \in DOMAIN file : file[i].rec # rest[k].rec

\* The reader stands between two lines, until it has met one without newline.
ReaderInv ==
    /\ phase \in {"closed", "reading", "done", "failed"}
    /\ pos \in 0..Len(file)
    /\ phase # "done" => pos = 0 \/ file[pos].part = "nl"

\* What was finished when the file was opened still is, and has been read at the end.
OpenInv ==
    /\ phase = "reading" => atOpen \subseteq Finished(file)
    /\ phase = "done" => atOpen \subseteq Counted(Text)

WarningInv ==
    /\ warnings \in [partial_tail : BOOLEAN, unparseable : Nat]
    /\ warnings.unparseable = Cardinality(UnparseableLines(Text))

SummaryInv == FileInv /\ ReaderInv /\ OpenInv /\ WarningInv /\ TablesAreTotals

-----------------------------------------------------------------------------
(***************************************************************************)
(* Sequences of pieces                                                     *)
(***************************************************************************)

\* A prefix of a text.
LEMMA PrefixShape ==
    ASSUME NEW s \in Seq(Pieces), NEW n \in 0..Len(s)
    PROVE  /\ SubSeq(s, 1, n) \in Seq(Pieces) /\ Len(SubSeq(s, 1, n)) = n
           /\ DOMAIN SubSeq(s, 1, n) = 1..n
           /\ \A i \in 1..n : SubSeq(s, 1, n)[i] = s[i]
<1>1. Len(s) \in Nat /\ DOMAIN s = 1..Len(s)
  BY LenProperties
<1>2. n \in Nat /\ n <= Len(s)
  BY <1>1
<1>3. \A i \in 1..n : s[i] \in Pieces
  BY <1>1, <1>2, ElementOfSeq
<1>4. SubSeq(s, 1, n) = [i \in 1..n |-> s[i]]
  BY <1>1, <1>2
<1>5. SubSeq(s, 1, n) \in [1..n -> Pieces]
  BY <1>3, <1>4
<1>6. SubSeq(s, 1, n) \in Seq(Pieces) /\ Len(SubSeq(s, 1, n)) = n
  BY <1>2, <1>3, <1>5, <1>4, SubSeqProperties, 1 \in Int, n \in Int
<1> QED
  BY <1>4, <1>6

\* The whole text is a prefix of itself.
LEMMA WholePrefix ==
    ASSUME NEW s \in Seq(Pieces) PROVE SubSeq(s, 1, Len(s)) = s
<1>1. Len(s) \in Nat /\ DOMAIN s = 1..Len(s)
  BY LenProperties
<1>2. Len(s) \in 0..Len(s)
  BY <1>1
<1> QED
  BY <1>1, <1>2, PrefixShape, SeqEqual

\* What is appended to a text changes none of its prefixes.
LEMMA PrefixStays ==
    ASSUME NEW s \in Seq(Pieces), NEW t \in Seq(Pieces), NEW n \in 0..Len(s)
    PROVE  /\ s \o t \in Seq(Pieces) /\ Len(s \o t) = Len(s) + Len(t)
           /\ \A i \in 1..Len(s) : (s \o t)[i] = s[i]
           /\ \A i \in 1..Len(t) : (s \o t)[Len(s) + i] = t[i]
           /\ SubSeq(s \o t, 1, n) = SubSeq(s, 1, n)
<1>1. Len(s) \in Nat /\ Len(t) \in Nat
  BY LenProperties
<1>2. /\ s \o t \in Seq(Pieces) /\ Len(s \o t) = Len(s) + Len(t)
      /\ \A i \in 1..(Len(s) + Len(t)) :
            (s \o t)[i] = IF i <= Len(s) THEN s[i] ELSE t[i - Len(s)]
  BY ConcatProperties
<1>3. \A i \in 1..Len(s) : (s \o t)[i] = s[i]
  BY <1>1, <1>2
<1>4. ASSUME NEW i \in 1..Len(t) PROVE (s \o t)[Len(s) + i] = t[i]
  <2>1. Len(s) + i \in 1..(Len(s) + Len(t)) /\ ~(Len(s) + i <= Len(s)) /\ (Len(s) + i) - Len(s) = i
    BY <1>1
  <2> QED BY <1>2, <2>1
<1>5. n \in 0..Len(s \o t) /\ 1..n \subseteq 1..Len(s)
  BY <1>1, <1>2
<1>6. /\ SubSeq(s, 1, n) \in Seq(Pieces) /\ Len(SubSeq(s, 1, n)) = n
      /\ \A i \in 1..n : SubSeq(s, 1, n)[i] = s[i]
  BY PrefixShape
<1>7. /\ SubSeq(s \o t, 1, n) \in Seq(Pieces) /\ Len(SubSeq(s \o t, 1, n)) = n
      /\ \A i \in 1..n : SubSeq(s \o t, 1, n)[i] = (s \o t)[i]
  BY <1>2, <1>5, PrefixShape
<1>8. SubSeq(s \o t, 1, n) = SubSeq(s, 1, n)
  BY <1>3, <1>5, <1>6, <1>7, SeqEqual
<1> QED
  BY <1>2, <1>3, <1>4, <1>8

(***************************************************************************)
(* One more line                                                           *)
(***************************************************************************)

\* The pieces of s after the p-th, up to the e-th, are a line.
IsLine(s, p, e) ==
    /\ p = 0 \/ s[p].part = "nl"
    /\ \A j \in (p + 1)..(e - 1) : s[j].part # "nl"
    /\ s[e].part = "nl" \/ e = Len(s)

\* The text s up to its e-th piece is that up to the p-th, and one line more: what was
\* read of it before is counted or unparseable as it was, and the new line is judged
\* as the whole file has it.
LEMMA OneMoreLine ==
    ASSUME NEW s \in Seq(Pieces), NEW p \in 0..Len(s), NEW e \in 1..Len(s), p < e,
           IsLine(s, p, e)
    PROVE  LET a == SubSeq(s, 1, p)
               b == SubSeq(s, 1, e)
           IN  /\ CountedLines(b) =
                    CountedLines(a) \cup IF Parses(s, p + 1) THEN {p + 1} ELSE {}
               /\ UnparseableLines(b) =
                    UnparseableLines(a) \cup
                        IF ~Parses(s, p + 1) /\ s[e].part = "nl" THEN {p + 1} ELSE {}
               /\ CountedLines(a) \subseteq 1..p /\ UnparseableLines(a) \subseteq 1..p
<1> DEFINE a == SubSeq(s, 1, p)
           b == SubSeq(s, 1, e)
<1>1. Len(s) \in Nat /\ DOMAIN s = 1..Len(s)
  BY LenProperties
<1>2. p \in Nat /\ e \in Nat /\ p + 1 <= e /\ e <= Len(s)
  BY <1>1
<1>3. DOMAIN a = 1..p /\ \A i \in 1..p : a[i] = s[i]
  BY PrefixShape
<1>4. DOMAIN b = 1..e /\ \A i \in 1..e : b[i] = s[i]
  <2>1. e \in 0..Len(s)
    BY <1>2
  <2> QED BY <2>1, PrefixShape
<1>0. /\ p # 0 => s[p].part = "nl"
      /\ \A j \in (p + 1)..(e - 1) : s[j].part # "nl"
      /\ s[e].part # "nl" => e = Len(s)
  BY DEF IsLine
<1> HIDE DEF a, b
<1>5. LineStarts(a) = {i \in 1..p : i = 1 \/ s[i - 1].part = "nl"}
  <2>1. \A i \in 1..p : i # 1 => a[i - 1] = s[i - 1]
    BY <1>2, <1>3
  <2> QED BY <1>3, <2>1 DEF LineStarts
<1>6. LineStarts(b) = {i \in 1..e : i = 1 \/ s[i - 1].part = "nl"}
  <2>1. \A i \in 1..e : i # 1 => b[i - 1] = s[i - 1]
    BY <1>2, <1>4
  <2> QED BY <1>4, <2>1 DEF LineStarts
<1>7. LineStarts(b) = LineStarts(a) \cup {p + 1}
  <2>1. ASSUME NEW i \in 1..e, i = 1 \/ s[i - 1].part = "nl", ~(i <= p)
        PROVE  i = p + 1
    <3>1. i # p + 1 => i - 1 \in (p + 1)..(e - 1) /\ i # 1
      BY <1>2, <2>1
    <3> QED BY <1>0, <2>1, <3>1
  <2>2. p + 1 \in 1..e /\ (p + 1 = 1 \/ s[(p + 1) - 1].part = "nl")
    <3>1. p + 1 \in 1..e /\ (p + 1) - 1 = p /\ (p = 0 => p + 1 = 1)
      BY <1>2
    <3> QED BY <1>0, <3>1
  <2>3. \A i \in 1..p : i \in 1..e
    BY <1>2
  <2>4. \A i \in 1..e : i <= p => i \in 1..p
    BY <1>2
  <2> QED BY <1>5, <1>6, <2>1, <2>2, <2>3, <2>4
<1>8. ASSUME NEW i \in 1..p PROVE Parses(a, i) <=> Parses(b, i)
  <2>1. p # 0 /\ s[p].part = "nl" /\ i \in Nat
    BY <1>0, <1>2
  <2>2. CASE i + 2 <= p
    <3>1. /\ i \in 1..p /\ i + 1 \in 1..p /\ i + 2 \in 1..p
          /\ i \in 1..e /\ i + 1 \in 1..e /\ i + 2 \in 1..e
      BY <1>2, <2>2
    <3> QED BY <1>3, <1>4, <3>1 DEF Parses
  <2>3. CASE i + 1 = p
    <3>1. i + 1 \in 1..p /\ i + 1 \in 1..e
      BY <1>2, <2>3
    <3>2. a[i + 1].part # "tail" /\ b[i + 1].part # "tail"
      BY <1>3, <1>4, <2>1, <2>3, <3>1
    <3> QED BY <3>2 DEF Parses, Piece
  <2>4. CASE i = p
    <3>1. i \in 1..p /\ i \in 1..e
      BY <1>2, <2>4
    <3>2. a[i].part # "head" /\ b[i].part # "head"
      BY <1>3, <1>4, <2>1, <2>4, <3>1
    <3> QED BY <3>2 DEF Parses
  <2> QED BY <1>2, <2>2, <2>3, <2>4
<1>9. Parses(b, p + 1) <=> Parses(s, p + 1)
  <2> DEFINE i == p + 1
  <2>1. i \in Nat /\ i \in 1..e /\ i \in 1..Len(s) /\ i <= e
    BY <1>1, <1>2
  <2> HIDE DEF i
  <2>2. CASE i = e
    <3>1. i + 1 \notin 1..e
      BY <1>2, <2>1, <2>2
    <3>2. s[i].part = "head" => i + 1 \notin 1..Len(s)
      BY <1>0, <1>1, <1>2, <2>1, <2>2
    <3> QED BY <1>1, <1>4, <3>1, <3>2 DEF Parses, i
  <2>3. CASE i + 1 = e
    <3>1. i + 1 \in 1..e /\ i + 1 \in 1..Len(s) /\ i + 2 \notin 1..e
      BY <1>1, <1>2, <2>1, <2>3
    <3>2. s[i + 1].part = "tail" => i + 2 \notin 1..Len(s)
      <4>1. s[i + 1].part = "tail" => e = Len(s)
        BY <1>0, <2>3
      <4>2. e = Len(s) => i + 2 \notin 1..Len(s)
        BY <1>2, <2>1, <2>3
      <4> QED BY <4>1, <4>2
    <3>3. b[i] = s[i] /\ b[i + 1] = s[i + 1]
      BY <1>4, <2>1, <3>1
    <3>4. s[i + 1] = Piece(s[i].rec, "tail") => s[i + 1].part = "tail"
      BY DEF Piece
    <3> QED BY <1>1, <1>4, <3>1, <3>2, <3>3, <3>4 DEF Parses, i
  <2>4. CASE i + 2 <= e
    <3>1. /\ i + 1 \in 1..e /\ i + 1 \in 1..Len(s) /\ i + 2 \in 1..e /\ i + 2 \in 1..Len(s)
      BY <1>1, <1>2, <2>1, <2>4
    <3> QED BY <1>1, <1>4, <2>1, <3>1 DEF Parses, i
  <2> QED BY <1>2, <2>1, <2>2, <2>3, <2>4
<1>10. ASSUME NEW i \in 1..p PROVE Terminated(a, i) /\ Terminated(b, i)
  <2>1. p \in 1..p /\ p \in 1..e /\ p >= i /\ s[p].part = "nl"
    BY <1>0, <1>2
  <2> QED BY <1>3, <1>4, <2>1 DEF Terminated, Newlines
<1>11. Terminated(b, p + 1) <=> s[e].part = "nl"
  <2>1. e \in 1..e /\ e >= p + 1
    BY <1>2
  <2>2. ASSUME NEW j \in 1..e, s[j].part = "nl", j >= p + 1 PROVE j = e
    <3>1. j # e => j \in (p + 1)..(e - 1)
      BY <1>2, <2>2
    <3> QED BY <1>0, <2>2, <3>1
  <2> QED BY <1>4, <2>1, <2>2 DEF Terminated, Newlines
<1>12. LineStarts(a) \subseteq 1..p
  BY <1>5
<1>13. CountedLines(b) = CountedLines(a) \cup IF Parses(s, p + 1) THEN {p + 1} ELSE {}
  BY <1>7, <1>8, <1>9, <1>12 DEF CountedLines
<1>14. UnparseableLines(b) =
         UnparseableLines(a) \cup
            IF ~Parses(s, p + 1) /\ s[e].part = "nl" THEN {p + 1} ELSE {}
  BY <1>7, <1>8, <1>9, <1>10, <1>11, <1>12 DEF UnparseableLines
<1> QED
  BY <1>12, <1>13, <1>14 DEF a, b, CountedLines, UnparseableLines

-----------------------------------------------------------------------------
(***************************************************************************)
(* Totals                                                                  *)
(***************************************************************************)

\* The smaller of two numbers.
LEMMA MinOfTwo ==
    ASSUME NEW m \in Nat, NEW n \in Nat PROVE Min({m, n}) = IF m <= n THEN m ELSE n
<1> DEFINE v == IF m <= n THEN m ELSE n
<1>1. v \in {m, n} /\ \A y \in {m, n} : v <= y
  OBVIOUS
<1>2. \A x \in {m, n} : (\A y \in {m, n} : x <= y) => x = v
  OBVIOUS
<1> HIDE DEF v
<1>3. (CHOOSE x \in {m, n} : \A y \in {m, n} : x <= y) = v
  BY <1>1, <1>2
<1> QED
  BY <1>3 DEF Min, v

\* The counters of a record that has some.
LEMMA CounterType ==
    ASSUME NEW r \in Record, Facts[r].usage # None, NEW c \in Counters
    PROVE  Facts[r].usage[c] = None \/ Facts[r].usage[c] \in Nat
<1>1. Facts[r].usage \in Usage
  BY FactsAssumption
<1>2. Facts[r].usage[c] \in OptU64
  BY <1>1 DEF Usage, Counters
<1> QED
  BY <1>2, MaxU64Assumption DEF OptU64, U64

\* Finitely many records hold finitely many tokens.
LEMMA TokensFinite ==
    ASSUME NEW S \in SUBSET Record, IsFiniteSet(S), \A r \in S : Facts[r].usage # None,
           NEW c \in Counters
    PROVE  IsFiniteSet(Tokens(S, c)) /\ Cardinality(Tokens(S, c)) \in Nat
<1> DEFINE R == Recorded(S, c)
           f == [r \in R |-> {r} \X (1..Facts[r].usage[c])]
           T == {f[r] : r \in R}
<1>1. R \subseteq S /\ IsFiniteSet(R)
  <2>1. R \in SUBSET S
    BY DEF Recorded
  <2> QED BY <2>1, FS_Subset
<1>2. f \in Surjection(R, T)
  BY DEF Surjection
<1>3. IsFiniteSet(T)
  <2> HIDE DEF T, f, R
  <2> QED BY <1>1, <1>2, FS_Surjection
<1>4. ASSUME NEW r \in R PROVE IsFiniteSet(f[r])
  <2>1. r \in Record /\ Facts[r].usage # None /\ Facts[r].usage[c] # None
    BY <1>1 DEF Recorded
  <2>2. Facts[r].usage[c] \in Int
    BY <2>1, CounterType
  <2>3. IsFiniteSet(1..Facts[r].usage[c])
    BY <2>2, FS_Interval, 1 \in Int
  <2>4. IsFiniteSet({r})
    BY FS_Singleton
  <2> QED BY <2>3, <2>4, FS_Product
<1>5. UNION T = Tokens(S, c)
  BY DEF Tokens
<1>6. IsFiniteSet(UNION T)
  <2> HIDE DEF f, R
  <2> QED BY <1>3, <1>4, FS_UNION
<1> QED
  BY <1>5, <1>6, FS_CardinalityType

\* A cell takes up one record more as `add` does.
LEMMA CellStep ==
    ASSUME NEW S \in SUBSET Record, IsFiniteSet(S), \A r \in S : Facts[r].usage # None,
           NEW x \in Record, x \notin S, Facts[x].usage # None, NEW c \in Counters
    PROVE  Cell(S \cup {x}, c) = add(Cell(S, c), Facts[x].usage[c])
<1> DEFINE n == Facts[x].usage[c]
           t == Cardinality(Tokens(S, c))
<1>1. n = None \/ n \in Nat
  BY CounterType
<1>2. t \in Nat /\ IsFiniteSet(Tokens(S, c))
  BY TokensFinite
<1>3. CASE n = None
  <2>1. Recorded(S \cup {x}, c) = Recorded(S, c)
    BY <1>3 DEF Recorded
  <2>2. Tokens(S \cup {x}, c) = Tokens(S, c)
    BY <2>1 DEF Tokens
  <2> QED BY <1>3, <2>1, <2>2 DEF Cell, add
<1>4. CASE n # None
  <2>1. n \in Nat
    BY <1>1, <1>4
  <2>2. Recorded(S \cup {x}, c) = Recorded(S, c) \cup {x} /\ Recorded(S \cup {x}, c) # {}
    BY <1>4 DEF Recorded
  <2>3. Tokens(S \cup {x}, c) = Tokens(S, c) \cup ({x} \X (1..n))
    BY <2>2 DEF Tokens
  <2>4. Tokens(S, c) \cap ({x} \X (1..n)) = {}
    BY DEF Tokens, Recorded
  <2>5. IsFiniteSet({x} \X (1..n)) /\ Cardinality({x} \X (1..n)) = n
    <3>1. IsFiniteSet(1..n) /\ Cardinality(1..n) = n
      <4>1. IsFiniteSet(1..n) /\ Cardinality(1..n) = IF 1 > n THEN 0 ELSE n - 1 + 1
        BY <2>1, FS_Interval, 1 \in Int, n \in Int
      <4> HIDE DEF n
      <4> QED BY <2>1, <4>1
    <3>2. IsFiniteSet({x}) /\ Cardinality({x}) = 1
      BY FS_Singleton
    <3>3. /\ IsFiniteSet({x} \X (1..n))
          /\ Cardinality({x} \X (1..n)) = Cardinality({x}) * Cardinality(1..n)
      BY <3>1, <3>2, FS_Product
    <3> HIDE DEF n
    <3> QED BY <2>1, <3>1, <3>2, <3>3
  <2>6. Cardinality(Tokens(S \cup {x}, c)) = t + n
    <3>1. Cardinality(Tokens(S, c) \cup ({x} \X (1..n))) = t + n - Cardinality({})
      BY <1>2, <2>4, <2>5, FS_Union
    <3>2. Cardinality({}) = 0
      BY FS_EmptySet
    <3> HIDE DEF n, t
    <3>3. t + n - 0 = t + n
      BY <1>2, <2>1
    <3> QED BY <2>3, <3>1, <3>2, <3>3, Zenon
  <2>7. Cell(S \cup {x}, c) = Min({MaxU64, t + n})
    BY <2>2, <2>6 DEF Cell
  <2>8. CASE Recorded(S, c) = {}
    <3>1. Tokens(S, c) = {}
      BY <2>8 DEF Tokens
    <3>2. t = 0 /\ Cell(S, c) = None
      BY <2>8, <3>1, FS_EmptySet DEF Cell
    <3>3. add(Cell(S, c), n) = Min({MaxU64, 0 + n})
      BY <1>4, <3>2 DEF add
    <3> QED BY <2>7, <3>2, <3>3
  <2>9. CASE Recorded(S, c) # {}
    <3> DEFINE m == IF MaxU64 <= t THEN MaxU64 ELSE t
    <3>1. Cell(S, c) = m
      BY <1>2, <2>9, MinOfTwo, MaxU64Assumption DEF Cell
    <3>2. m \in Nat /\ m # None
      BY <1>2, MaxU64Assumption, NoneAssumption
    <3>3. add(Cell(S, c), n) = Min({MaxU64, m + n})
      <4> HIDE DEF m, n
      <4> QED BY <1>4, <3>1, <3>2 DEF add
    <3>4. Min({MaxU64, m + n}) = IF MaxU64 <= m + n THEN MaxU64 ELSE m + n
      <4> HIDE DEF m, n
      <4>1. m + n \in Nat
        BY <2>1, <3>2
      <4> QED BY <4>1, MinOfTwo, MaxU64Assumption
    <3>5. Min({MaxU64, t + n}) = IF MaxU64 <= t + n THEN MaxU64 ELSE t + n
      <4> HIDE DEF t, n
      <4>1. t + n \in Nat
        BY <1>2, <2>1
      <4> QED BY <4>1, MinOfTwo, MaxU64Assumption
    <3>6. (IF MaxU64 <= m + n THEN MaxU64 ELSE m + n)
            = IF MaxU64 <= t + n THEN MaxU64 ELSE t + n
      <4> HIDE DEF t, n
      <4> QED BY <1>2, <2>1, MaxU64Assumption
    <3> HIDE DEF m, t, n
    <3> QED BY <2>7, <3>3, <3>4, <3>5, <3>6 DEF n
  <2> QED BY <2>8, <2>9
<1> QED
  BY <1>3, <1>4

\* A row takes up one record more as accumulate_usage does.
LEMMA RowStep ==
    ASSUME NEW S \in SUBSET Record, IsFiniteSet(S), \A r \in S : Facts[r].usage # None,
           NEW x \in Record, x \notin S, Facts[x].usage # None
    PROVE  accumulate_usage(Row(S), Facts[x].usage) = Row(S \cup {x})
<1>1. Cardinality(S \cup {x}) = Cardinality(S) + 1
  BY FS_AddElement
<1>2. \A c \in Counters : add(Cell(S, c), Facts[x].usage[c]) = Cell(S \cup {x}, c)
  BY CellStep
<1> QED
  BY <1>1, <1>2 DEF accumulate_usage, Row

\* The row of no record is that of or_default.
LEMMA EmptyRow == Row({}) = NoTotals
<1>1. Cardinality({}) = 0
  BY FS_EmptySet
<1>2. \A c \in Counters : Cell({}, c) = None
  BY DEF Cell, Recorded
<1> QED
  BY <1>1, <1>2 DEF Row, NoTotals

\* A table takes up one record more as `Accumulated` does, whatever it groups by.
LEMMA RowsStep ==
    ASSUME NEW S \in SUBSET Record, IsFiniteSet(S), \A r \in S : Facts[r].usage # None,
           NEW x \in Record, x \notin S, Facts[x].usage # None, NEW key
    PROVE  Accumulated(Rows(S, key), key[x], Facts[x].usage) = Rows(S \cup {x}, key)
<1> DEFINE K == {key[r] : r \in S}
           K2 == {key[r] : r \in S \cup {x}}
           Of(k) == {r \in S : key[r] = k}
           Of2(k) == {r \in S \cup {x} : key[r] = k}
           u == Facts[x].usage
<1>1. K2 = K \cup {key[x]}
  OBVIOUS
<1>2. Rows(S, key) = [k \in K |-> Row(Of(k))] /\ Rows(S \cup {x}, key) = [k \in K2 |-> Row(Of2(k))]
  BY DEF Rows
<1>3. ASSUME NEW k \in K2, k # key[x] PROVE k \in K /\ Of2(k) = Of(k)
  BY <1>3
<1>4. Of2(key[x]) = Of(key[x]) \cup {x}
  OBVIOUS
<1>5. key[x] \notin K => Of(key[x]) = {}
  OBVIOUS
<1>6. accumulate_usage(Row(Of(key[x])), u) = Row(Of(key[x]) \cup {x})
  <2>1. Of(key[x]) \in SUBSET S
    OBVIOUS
  <2>2. IsFiniteSet(Of(key[x]))
    BY <2>1, FS_Subset
  <2>3. /\ Of(key[x]) \in SUBSET Record /\ x \notin Of(key[x])
        /\ \A r \in Of(key[x]) : Facts[r].usage # None
    BY <2>1
  <2> HIDE DEF Of
  <2> QED BY <2>2, <2>3, RowStep
<1> DEFINE t == Rows(S, key)
           New(k) == IF k # key[x] THEN t[k]
                     ELSE accumulate_usage(IF k \in DOMAIN t THEN t[k] ELSE NoTotals, u)
<1>7. DOMAIN t = K /\ \A k \in K : t[k] = Row(Of(k))
  BY <1>2
<1>8. Accumulated(t, key[x], u) = [k \in DOMAIN t \cup {key[x]} |-> New(k)]
  BY DEF Accumulated
<1> HIDE DEF K, K2, Of, Of2, u, t
<1>9. ASSUME NEW k \in K2 PROVE New(k) = Row(Of2(k))
  <2>1. CASE k # key[x]
    BY <1>3, <1>7, <2>1
  <2>2. CASE k = key[x]
    <3>1. (IF k \in DOMAIN t THEN t[k] ELSE NoTotals) = Row(Of(key[x]))
      BY <1>5, <1>7, <2>2, EmptyRow
    <3> QED BY <1>4, <1>6, <2>2, <3>1
  <2> QED BY <2>1, <2>2
<1> HIDE DEF New
<1>10. Accumulated(t, key[x], u) = Rows(S \cup {x}, key)
  BY <1>1, <1>2, <1>7, <1>8, <1>9
<1> QED
  BY <1>10 DEF t, u

-----------------------------------------------------------------------------
(***************************************************************************)
(* The invariant holds initially                                           *)
(***************************************************************************)
\* Nothing is read in an empty text.
LEMMA EmptyText == Counted(<<>>) = {} /\ UnparseableLines(<<>>) = {} /\ CountedLines(<<>>) = {}
<1>1. DOMAIN <<>> = {}
  OBVIOUS
<1>2. LineStarts(<<>>) = {}
  BY <1>1 DEF LineStarts
<1> QED
  BY <1>2 DEF Counted, CountedLines, UnparseableLines

\* Before anything is read, both tables are empty.
LEMMA SummaryInit == Init => SummaryInv
<1> SUFFICES ASSUME Init PROVE SummaryInv
  OBVIOUS
<1> USE DEF Init
<1>1. file = <<>> /\ file \in Seq(Pieces) /\ Len(file) = 0
  BY EmptySeq
<1>2. Text = <<>>
  <2>1. Len(file) \in 0..Len(file) /\ pos = Len(file)
    BY <1>1
  <2> QED BY <1>1, <2>1, WholePrefix DEF Text
<1>3. Counted(Text) = {} /\ UnparseableLines(Text) = {}
  BY <1>2, EmptyText
<1>4. Read = {} /\ Metered = {}
  BY <1>3 DEF Read, Metered, Text
<1>5. Cardinality({}) = 0 /\ IsFiniteSet({})
  BY FS_EmptySet
<1>6. FileInv
  BY <1>1, <1>5, EmptySeq DEF FileInv
<1>7. ReaderInv
  BY <1>1 DEF ReaderInv
<1>8. OpenInv
  BY DEF OpenInv
<1>9. WarningInv
  BY <1>3, <1>5 DEF WarningInv
<1>10. \A key : Rows({}, key) = <<>>
  BY DEF Rows
<1>11. TablesAreTotals
  BY <1>4, <1>5, <1>10 DEF TablesAreTotals
<1> QED
  BY <1>6, <1>7, <1>8, <1>9, <1>11 DEF SummaryInv

-----------------------------------------------------------------------------
(***************************************************************************)
(* Steps of the gateway                                                    *)
(***************************************************************************)

\* The records on finished lines stay there when the file grows.
LEMMA FinishedStays ==
    ASSUME NEW s \in Seq(Pieces), NEW t \in Seq(Pieces)
    PROVE  Finished(s) \subseteq Finished(s \o t)
<1>1. Len(s) \in Nat /\ DOMAIN s = 1..Len(s) /\ Len(t) \in Nat
  BY LenProperties
<1>2. Len(s) \in 0..Len(s)
  BY <1>1
<1>3. s \o t \in Seq(Pieces) /\ Len(s \o t) = Len(s) + Len(t) /\ \A i \in DOMAIN s : (s \o t)[i] = s[i]
  BY <1>1, <1>2, PrefixStays
<1>4. DOMAIN s \subseteq DOMAIN (s \o t)
  <2>1. DOMAIN (s \o t) = 1..(Len(s) + Len(t))
    BY <1>3, LenProperties
  <2> QED BY <1>1, <2>1
<1>5. ASSUME NEW i \in CountedLines(s), i + 2 \in DOMAIN s
      PROVE  i \in CountedLines(s \o t) /\ i + 2 \in DOMAIN (s \o t) /\ (s \o t)[i] = s[i]
  <2>1. i \in DOMAIN s /\ i + 1 \in DOMAIN s /\ (i = 1 \/ s[i - 1].part = "nl") /\ Parses(s, i)
    BY DEF CountedLines, LineStarts, Parses
  <2>2. i # 1 => i - 1 \in DOMAIN s
    BY <1>1, <2>1
  <2>3. i \in LineStarts(s \o t)
    BY <1>3, <1>4, <2>1, <2>2 DEF LineStarts
  <2>4. Parses(s \o t, i)
    BY <1>3, <1>4, <1>5, <2>1 DEF Parses
  <2> QED BY <1>3, <1>4, <1>5, <2>1, <2>3, <2>4 DEF CountedLines
<1> QED
  BY <1>5 DEF Finished

\* The line of a record.
LEMMA LineShape ==
    ASSUME NEW r \in Record
    PROVE  /\ Line(r) \in Seq(Pieces) /\ DOMAIN Line(r) = 1..3
           /\ \A k \in 1..3 : Line(r)[k].rec = r /\ (Line(r)[k].part = "head" => k = 1)
<1>1. Piece(r, "head") \in Pieces /\ Piece(r, "tail") \in Pieces /\ Piece(r, "nl") \in Pieces
  BY DEF Piece, Pieces
<1>2. Line(r) \in Seq(Pieces) /\ DOMAIN Line(r) = 1..3
  BY <1>1 DEF Line
<1>3. Line(r)[1].rec = r /\ Line(r)[2].rec = r /\ Line(r)[3].rec = r
  BY DEF Line, Piece
<1>4. Line(r)[2].part # "head" /\ Line(r)[3].part # "head"
  BY DEF Line, Piece
<1>5. \A k \in 1..3 : k = 1 \/ k = 2 \/ k = 3
  OBVIOUS
<1> QED
  BY <1>2, <1>3, <1>4, <1>5

\* A write appends the first pieces of the current line and keeps the others.
LEMMA WriteShape ==
    ASSUME FileInv, NEW n \in 1..Len(rest)
    PROVE  LET w == SubSeq(rest, 1, n)
               k == SubSeq(rest, n + 1, Len(rest))
           IN  /\ w \in Seq(Pieces) /\ k \in Seq(Pieces)
               /\ DOMAIN w = 1..n /\ \A i \in 1..n : w[i] = rest[i] /\ i \in DOMAIN rest
               /\ \A i \in DOMAIN k : i \in Nat \ {0} /\ k[i] = rest[n + i] /\ n + i \in DOMAIN rest
<1> DEFINE w == SubSeq(rest, 1, n)
           k == SubSeq(rest, n + 1, Len(rest))
<1>1. rest \in Seq(Pieces) /\ Len(rest) \in Nat /\ DOMAIN rest = 1..Len(rest)
  BY LenProperties DEF FileInv
<1>2. n \in 0..Len(rest) /\ n \in Nat /\ n + 1 \in Int /\ Len(rest) \in Int
  BY <1>1
<1>3. w \in Seq(Pieces) /\ DOMAIN w = 1..n /\ \A i \in 1..n : w[i] = rest[i]
  BY <1>1, <1>2, PrefixShape
<1>4. \A i \in (n + 1)..Len(rest) : rest[i] \in Pieces
  BY <1>1, <1>2, ElementOfSeq
<1>5. /\ k \in Seq(Pieces)
      /\ Len(k) = IF n + 1 <= Len(rest) THEN Len(rest) - (n + 1) + 1 ELSE 0
      /\ \A i \in 1..(Len(rest) - (n + 1) + 1) : k[i] = rest[(n + 1) + i - 1]
  BY <1>2, <1>4, SubSeqProperties
<1>6. DOMAIN k = 1..Len(k)
  BY <1>5, LenProperties
<1> HIDE DEF k, w
<1>7. ASSUME NEW i \in DOMAIN k
      PROVE  i \in Nat \ {0} /\ k[i] = rest[n + i] /\ n + i \in DOMAIN rest
  <2>1. i \in Nat \ {0} /\ i \in 1..(Len(rest) - (n + 1) + 1) /\ n + i \in 1..Len(rest)
    <3>1. i \in 1..Len(k)
      BY <1>6
    <3>2. n + 1 <= Len(rest) => Len(k) = Len(rest) - n
      BY <1>2, <1>5
    <3>3. ~(n + 1 <= Len(rest)) => Len(k) = 0
      BY <1>5
    <3> QED BY <1>2, <3>1, <3>2, <3>3
  <2>2. (n + 1) + i - 1 = n + i
    BY <1>2, <2>1
  <2> QED BY <1>1, <1>5, <2>1, <2>2
<1>8. \A i \in 1..n : i \in DOMAIN rest
  BY <1>1, <1>2
<1> QED
  BY <1>3, <1>5, <1>7, <1>8 DEF k, w

\* The gateway begins every line once.
LEMMA FileStep == FileInv /\ [Next]_vars => FileInv'
<1> SUFFICES ASSUME FileInv, [Next]_vars PROVE FileInv'
  OBVIOUS
<1>1. ASSUME NEW r \in Record, begin_line(r) PROVE FileInv'
  <2>1. file' = file /\ begun' = begun \cup {r} /\ rest' = Line(r) /\ r \notin begun
    BY <1>1 DEF begin_line
  <2>2. IsFiniteSet(begun')
    BY <2>1, FS_AddElement DEF FileInv
  <2>3. /\ Line(r) \in Seq(Pieces) /\ DOMAIN Line(r) = 1..3
        /\ \A k \in 1..3 : Line(r)[k].rec = r /\ (Line(r)[k].part = "head" => k = 1)
    BY LineShape
  <2>4. \A k \in DOMAIN rest' :
            rest'[k].part = "head" => k = 1 /\ \A i \in DOMAIN file' : file'[i].rec # rest'[k].rec
    BY <2>1, <2>3 DEF FileInv
  <2>5. \A i \in DOMAIN rest' : rest'[i].rec \in begun'
    BY <2>1, <2>3
  <2> QED BY <2>1, <2>2, <2>3, <2>4, <2>5 DEF FileInv
<1>2. ASSUME NEW n \in 1..3, write_pieces(n) PROVE FileInv'
  <2> DEFINE w == SubSeq(rest, 1, n)
             k == SubSeq(rest, n + 1, Len(rest))
             L == Len(file)
  <2>1. n \in 1..Len(rest) /\ file' = file \o w /\ rest' = k /\ begun' = begun
    BY <1>2 DEF write_pieces
  <2>2. /\ w \in Seq(Pieces) /\ k \in Seq(Pieces)
        /\ DOMAIN w = 1..n /\ \A i \in 1..n : w[i] = rest[i] /\ i \in DOMAIN rest
        /\ \A i \in DOMAIN k : i \in Nat \ {0} /\ k[i] = rest[n + i] /\ n + i \in DOMAIN rest
    BY <2>1, WriteShape
  <2>3. L \in Nat /\ DOMAIN file = 1..L /\ Len(w) = n /\ file \in Seq(Pieces)
    BY <2>2, LenProperties DEF FileInv
  <2> HIDE DEF w, k, L
  <2>4. /\ file' \in Seq(Pieces) /\ Len(file') = L + n
        /\ \A i \in 1..L : file'[i] = file[i]
        /\ \A i \in 1..n : file'[L + i] = w[i]
    BY <2>1, <2>2, <2>3, PrefixStays, L \in 0..Len(file) DEF L
  <2>5. DOMAIN file' = 1..(L + n)
    BY <2>4, LenProperties
  <2>6. ASSUME NEW i \in DOMAIN file', i \notin DOMAIN file
        PROVE  i - L \in 1..n /\ i - L \in DOMAIN rest /\ file'[i] = rest[i - L]
    <3>1. i - L \in 1..n /\ L + (i - L) = i
      BY <2>3, <2>5, <2>6
    <3> QED BY <2>2, <2>4, <3>1
  <2>7. \A i \in DOMAIN file : file'[i] = file[i]
    BY <2>3, <2>4
  <2>8. \A i \in DOMAIN file' : file'[i].rec \in begun'
    BY <2>1, <2>6, <2>7 DEF FileInv
  <2>9. \A i \in DOMAIN rest' : rest'[i].rec \in begun'
    BY <2>1, <2>2 DEF FileInv
  <2>10. ASSUME NEW i \in DOMAIN file', NEW j \in DOMAIN file', file'[i].part = "head",
                file'[j].part = "head", file'[i].rec = file'[j].rec
         PROVE  i = j
    <3>1. CASE i \in DOMAIN file /\ j \in DOMAIN file
      BY <2>7, <2>10, <3>1 DEF FileInv
    <3>2. CASE i \in DOMAIN file /\ j \notin DOMAIN file
      BY <2>6, <2>7, <2>10, <3>2 DEF FileInv
    <3>3. CASE i \notin DOMAIN file /\ j \in DOMAIN file
      BY <2>6, <2>7, <2>10, <3>3 DEF FileInv
    <3>4. CASE i \notin DOMAIN file /\ j \notin DOMAIN file
      <4>1. i - L = 1 /\ j - L = 1
        BY <2>6, <2>10, <3>4 DEF FileInv
      <4>2. i \in Nat /\ j \in Nat
        BY <2>3, <2>5
      <4> QED BY <2>3, <4>1, <4>2
    <3> QED BY <3>1, <3>2, <3>3, <3>4
  <2>11. ASSUME NEW i \in DOMAIN rest' PROVE rest'[i].part # "head"
    <3>1. i \in Nat \ {0} /\ rest'[i] = rest[n + i] /\ n + i \in DOMAIN rest /\ n + i # 1
      BY <2>1, <2>2
    <3> QED BY <3>1 DEF FileInv
  <2> QED BY <2>1, <2>2, <2>4, <2>8, <2>9, <2>10, <2>11 DEF FileInv
<1>3. CASE tear_line
  <2>1. file' = file /\ begun' = begun /\ rest' = <<>>
    BY <1>3 DEF tear_line
  <2>2. rest' \in Seq(Pieces) /\ DOMAIN rest' = {}
    BY <2>1
  <2> QED BY <2>1, <2>2 DEF FileInv
<1>4. CASE Reader \/ UNCHANGED vars
  <2>1. file' = file /\ begun' = begun /\ rest' = rest
    BY <1>4 DEF Reader, open, read_line, read_eof, read_fails, gatewayVars, vars
  <2> QED BY <2>1 DEF FileInv
<1> QED
  BY <1>1, <1>2, <1>3, <1>4 DEF Next, Gateway

\* The file grows, if it changes at all, and what was read of it stays.
LEMMA TextStays ==
    ASSUME FileInv, ReaderInv, Gateway \/ UNCHANGED vars
    PROVE  /\ UNCHANGED readerVars /\ Text' = Text /\ pos' \in 0..Len(file')
           /\ pos # 0 => file'[pos] = file[pos]
           /\ Finished(file) \subseteq Finished(file')
<1>1. UNCHANGED readerVars /\ pos' = pos
  BY DEF Gateway, begin_line, write_pieces, tear_line, readerVars, vars
<1>2. file \in Seq(Pieces) /\ Len(file) \in Nat /\ pos \in 0..Len(file) /\ pos \in Nat
  BY LenProperties DEF FileInv, ReaderInv
<1>3. CASE file' = file
  BY <1>1, <1>2, <1>3 DEF Text
<1>4. ASSUME NEW n \in 1..3, write_pieces(n)
      PROVE  /\ Text' = Text /\ pos' \in 0..Len(file')
             /\ pos # 0 => file'[pos] = file[pos]
             /\ Finished(file) \subseteq Finished(file')
  <2> DEFINE w == SubSeq(rest, 1, n)
  <2>1. n \in 1..Len(rest) /\ file' = file \o w
    BY <1>4 DEF write_pieces
  <2>2. w \in Seq(Pieces) /\ Len(w) \in Nat
    BY <2>1, WriteShape, LenProperties
  <2> HIDE DEF w
  <2>3. /\ Len(file') = Len(file) + Len(w) /\ \A i \in 1..Len(file) : file'[i] = file[i]
        /\ SubSeq(file', 1, pos) = SubSeq(file, 1, pos)
    BY <1>2, <2>1, <2>2, PrefixStays
  <2>4. pos \in 0..Len(file') /\ (pos # 0 => pos \in 1..Len(file))
    BY <1>2, <2>2, <2>3
  <2> QED BY <1>1, <1>2, <2>1, <2>2, <2>3, <2>4, FinishedStays DEF Text
<1>5. file' = file \/ \E n \in 1..3 : write_pieces(n)
  BY DEF Gateway, begin_line, tear_line, vars
<1> QED
  BY <1>1, <1>3, <1>4, <1>5

\* What the gateway writes while the file is read disturbs nothing that was read.
LEMMA GatewayStep == SummaryInv /\ (Gateway \/ UNCHANGED vars) => SummaryInv'
<1> SUFFICES ASSUME SummaryInv, Gateway \/ UNCHANGED vars PROVE SummaryInv'
  OBVIOUS
<1>1. /\ UNCHANGED readerVars /\ Text' = Text /\ pos' \in 0..Len(file')
      /\ pos # 0 => file'[pos] = file[pos]
      /\ Finished(file) \subseteq Finished(file')
  BY TextStays DEF SummaryInv
<1>2. FileInv'
  BY FileStep DEF SummaryInv, Next
<1>3. ReaderInv'
  BY <1>1 DEF SummaryInv, ReaderInv, readerVars
<1>4. OpenInv'
  BY <1>1 DEF SummaryInv, OpenInv, readerVars
<1>5. WarningInv'
  BY <1>1 DEF SummaryInv, WarningInv, readerVars
<1>6. Read' = Read /\ Metered' = Metered
  BY <1>1 DEF Read, Metered, Text
<1>7. TablesAreTotals'
  BY <1>1, <1>6 DEF SummaryInv, TablesAreTotals, readerVars, Rows, Row
<1> QED
  BY <1>2, <1>3, <1>4, <1>5, <1>7 DEF SummaryInv

-----------------------------------------------------------------------------
(***************************************************************************)
(* Steps of the reader                                                     *)
(***************************************************************************)

\* A set of naturals that is not empty has a smallest one.
LEMMA SmallestExists ==
    ASSUME NEW U \in SUBSET Nat, U # {}
    PROVE  Min(U) \in U /\ \A y \in U : Min(U) <= y
<1> DEFINE Less == {ss \in Nat \X Nat : ss[1] < ss[2]}
<1>1. IsWellFoundedOn(Less, Nat)
  BY NatLessThanWellFounded DEF OpToRel
<1>2. \E x \in U : \A y \in U : <<y, x>> \notin Less
  <2> HIDE DEF Less
  <2> QED BY <1>1, WFMin
<1>3. \A x, y \in Nat : <<y, x>> \notin Less => x <= y
  <2> SUFFICES ASSUME NEW x \in Nat, NEW y \in Nat, y < x PROVE <<y, x>> \in Less
    OBVIOUS
  <2> QED OBVIOUS
<1>4. \E x \in U : \A y \in U : x <= y
  <2> HIDE DEF Less
  <2> QED BY <1>2, <1>3
<1> QED
  BY <1>4 DEF Min

\* read_until finds the end of the next line, or of the file.
LEMMA LineEndShape ==
    ASSUME FileInv, ReaderInv, phase = "reading", pos < Len(file)
    PROVE  /\ LineEnd \in 1..Len(file) /\ pos < LineEnd /\ IsLine(file, pos, LineEnd)
           /\ Terminated(file, pos + 1) <=> file[LineEnd].part = "nl"
           /\ ~Terminated(file, pos + 1) => LineEnd = Len(file)
<1> DEFINE ahead == {j \in Newlines(file) : j > pos}
<1>1. file \in Seq(Pieces) /\ Len(file) \in Nat /\ DOMAIN file = 1..Len(file) /\ pos \in Nat
  BY LenProperties DEF FileInv, ReaderInv
<1>2. Newlines(file) = {j \in 1..Len(file) : file[j].part = "nl"}
  BY <1>1 DEF Newlines
<1>3. pos = 0 \/ file[pos].part = "nl"
  BY DEF ReaderInv
<1>4. Terminated(file, pos + 1) <=> ahead # {}
  <2>1. \A j \in Newlines(file) : j >= pos + 1 <=> j > pos
    BY <1>1, <1>2
  <2> QED BY <2>1 DEF Terminated
<1>5. CASE ahead = {}
  <2>1. LineEnd = Len(file)
    BY <1>5 DEF LineEnd
  <2>2. Len(file) \in 1..Len(file)
    BY <1>1
  <2>3. file[Len(file)].part # "nl"
    BY <1>1, <1>2, <1>5, <2>2
  <2>4. ASSUME NEW j \in (pos + 1)..(Len(file) - 1) PROVE file[j].part # "nl"
    <3>1. j \in 1..Len(file) /\ j > pos
      BY <1>1
    <3> QED BY <1>2, <1>5, <3>1
  <2> QED BY <1>3, <1>4, <1>5, <2>1, <2>2, <2>3, <2>4 DEF IsLine
<1>6. CASE ahead # {}
  <2> DEFINE e == Min(ahead)
  <2>1. LineEnd = e
    BY <1>6 DEF LineEnd
  <2>2. e \in ahead /\ \A y \in ahead : e <= y
    <3>1. ahead \in SUBSET Nat /\ ahead # {}
      BY <1>2, <1>6
    <3> HIDE DEF ahead
    <3> QED BY <3>1, SmallestExists
  <2> HIDE DEF e
  <2>3. e \in 1..Len(file) /\ e > pos /\ file[e].part = "nl" /\ pos < e
    BY <1>1, <1>2, <2>2
  <2>4. ASSUME NEW j \in (pos + 1)..(e - 1) PROVE file[j].part # "nl"
    <3>1. j \in 1..Len(file) /\ j > pos /\ ~(e <= j)
      BY <1>1, <2>3
    <3> QED BY <1>2, <2>2, <3>1
  <2> QED BY <1>3, <1>4, <1>6, <2>1, <2>3, <2>4 DEF IsLine
<1> QED
  BY <1>5, <1>6

\* The records counted in the text read, and the lines of it that are none.
LEMMA TextShape ==
    ASSUME FileInv, ReaderInv
    PROVE  /\ Counted(Text) = {file[i].rec : i \in CountedLines(Text)}
           /\ \A i \in CountedLines(Text) : i \in DOMAIN file /\ i \in 1..pos /\ file[i].part = "head"
           /\ Counted(Text) \subseteq Record /\ IsFiniteSet(Counted(Text))
           /\ IsFiniteSet(UnparseableLines(Text))
<1>1. file \in Seq(Pieces) /\ Len(file) \in Nat /\ DOMAIN file = 1..Len(file) /\ pos \in 0..Len(file)
  BY LenProperties DEF FileInv, ReaderInv
<1>2. DOMAIN Text = 1..pos /\ \A i \in 1..pos : Text[i] = file[i]
  BY <1>1, PrefixShape DEF Text
<1>3. CountedLines(Text) \subseteq 1..pos /\ UnparseableLines(Text) \subseteq 1..pos
  BY <1>2 DEF CountedLines, UnparseableLines, LineStarts
<1>4. \A i \in 1..pos : i \in DOMAIN file
  BY <1>1
<1>5. \A i \in CountedLines(Text) : file[i].part = "head"
  BY <1>2, <1>3 DEF CountedLines, Parses
<1>6. Counted(Text) = {file[i].rec : i \in CountedLines(Text)}
  BY <1>2, <1>3 DEF Counted
<1>7. \A i \in DOMAIN file : file[i].rec \in Record /\ file[i].rec \in begun
  <2>1. \A i \in DOMAIN file : file[i] \in Pieces
    BY <1>1, ElementOfSeq
  <2> QED BY <2>1 DEF Pieces, FileInv
<1>8. Counted(Text) \subseteq Record /\ Counted(Text) \in SUBSET begun
  BY <1>3, <1>4, <1>6, <1>7
<1>9. IsFiniteSet(Counted(Text))
  BY <1>8, FS_Subset DEF FileInv
<1>10. IsFiniteSet(UnparseableLines(Text))
  <2>1. IsFiniteSet(1..pos)
    <3>1. 1 \in Int /\ pos \in Int
      BY <1>1
    <3> QED BY <3>1, FS_Interval
  <2>2. UnparseableLines(Text) \in SUBSET (1..pos)
    BY <1>3
  <2> QED BY <2>1, <2>2, FS_Subset
<1> QED
  BY <1>3, <1>4, <1>5, <1>6, <1>8, <1>9, <1>10

\* What one turn of the loop adds to the text read: the record of a line that is one,
\* which was not counted before, or else a line that is unparseable if it is finished.
LEMMA LineRead ==
    ASSUME FileInv, ReaderInv, read_line
    PROVE  LET x == file[pos + 1].rec
           IN  /\ Parses(file, pos + 1) =>
                    /\ x \in Record /\ x \notin Counted(Text)
                    /\ Counted(Text') = Counted(Text) \cup {x}
                    /\ UnparseableLines(Text') = UnparseableLines(Text)
               /\ ~Parses(file, pos + 1) =>
                    /\ Counted(Text') = Counted(Text)
                    /\ Cardinality(UnparseableLines(Text')) =
                         Cardinality(UnparseableLines(Text))
                            + IF Terminated(file, pos + 1) THEN 1 ELSE 0
<1> DEFINE x == file[pos + 1].rec
           e == LineEnd
<1>1. /\ phase = "reading" /\ pos < Len(file) /\ pos' = e /\ file' = file
  BY DEF read_line, gatewayVars
<1>2. /\ e \in 1..Len(file) /\ pos < e /\ IsLine(file, pos, e)
      /\ Terminated(file, pos + 1) <=> file[e].part = "nl"
  BY <1>1, LineEndShape
<1>3. file \in Seq(Pieces) /\ Len(file) \in Nat /\ DOMAIN file = 1..Len(file) /\ pos \in 0..Len(file)
  BY LenProperties DEF FileInv, ReaderInv
<1> HIDE DEF e
<1>4. /\ CountedLines(Text') =
            CountedLines(Text) \cup IF Parses(file, pos + 1) THEN {pos + 1} ELSE {}
      /\ UnparseableLines(Text') =
            UnparseableLines(Text) \cup
                IF ~Parses(file, pos + 1) /\ file[e].part = "nl" THEN {pos + 1} ELSE {}
      /\ CountedLines(Text) \subseteq 1..pos /\ UnparseableLines(Text) \subseteq 1..pos
  BY <1>1, <1>2, <1>3, OneMoreLine DEF Text
<1>5. pos + 1 \in 1..e /\ pos + 1 \in DOMAIN file /\ pos + 1 \notin 1..pos /\ pos \in Nat
  BY <1>2, <1>3
<1>6. Counted(Text') = {file[i].rec : i \in CountedLines(Text')}
  <2>1. DOMAIN Text' = 1..e /\ \A i \in 1..e : Text'[i] = file[i]
    <3>1. e \in 0..Len(file)
      BY <1>2, <1>3
    <3> QED BY <1>1, <1>3, <3>1, PrefixShape DEF Text
  <2>2. CountedLines(Text') \subseteq 1..e
    BY <2>1 DEF CountedLines, LineStarts
  <2> QED BY <2>1, <2>2 DEF Counted
<1>7. /\ Counted(Text) = {file[i].rec : i \in CountedLines(Text)}
      /\ \A i \in CountedLines(Text) : i \in DOMAIN file /\ i \in 1..pos /\ file[i].part = "head"
      /\ Counted(Text) \subseteq Record /\ IsFiniteSet(UnparseableLines(Text))
  BY TextShape
<1>8. CASE Parses(file, pos + 1)
  <2>1. CountedLines(Text') = CountedLines(Text) \cup {pos + 1}
    BY <1>4, <1>8
  <2>2. Counted(Text') = Counted(Text) \cup {x}
    BY <1>6, <1>7, <2>1
  <2>3. x \in Record
    <3>1. file[pos + 1] \in Pieces
      BY <1>3, <1>5, ElementOfSeq
    <3> QED BY <3>1 DEF Pieces
  <2>4. file[pos + 1].part = "head"
    BY <1>8 DEF Parses
  <2>5. ASSUME NEW i \in CountedLines(Text), file[i].rec = x PROVE FALSE
    <3>1. i = pos + 1
      BY <1>5, <1>7, <2>4, <2>5 DEF FileInv
    <3> QED BY <1>5, <1>7, <3>1
  <2>6. x \notin Counted(Text)
    BY <1>7, <2>5
  <2>7. UnparseableLines(Text') = UnparseableLines(Text)
    BY <1>4, <1>8
  <2> QED BY <1>8, <2>2, <2>3, <2>6, <2>7
<1>9. CASE ~Parses(file, pos + 1)
  <2>1. CountedLines(Text') = CountedLines(Text)
    BY <1>4, <1>9
  <2>2. Counted(Text') = Counted(Text)
    BY <1>6, <1>7, <2>1
  <2>3. pos + 1 \notin UnparseableLines(Text)
    BY <1>4, <1>5
  <2>4. Cardinality(UnparseableLines(Text)) \in Nat
    BY <1>7, FS_CardinalityType
  <2>5. CASE file[e].part = "nl"
    <3>1. UnparseableLines(Text') = UnparseableLines(Text) \cup {pos + 1}
      BY <1>4, <1>9, <2>5
    <3>2. Cardinality(UnparseableLines(Text')) = Cardinality(UnparseableLines(Text)) + 1
      BY <1>7, <2>3, <3>1, FS_AddElement
    <3> QED BY <1>2, <1>9, <2>2, <2>5, <3>2
  <2>6. CASE file[e].part # "nl"
    <3>1. UnparseableLines(Text') = UnparseableLines(Text)
      BY <1>4, <1>9, <2>6
    <3> QED BY <1>2, <1>9, <2>2, <2>4, <2>6, <3>1
  <2> QED BY <2>5, <2>6
<1> QED
  BY <1>8, <1>9

\* The record of a line that is one goes into both tables and the coverage, once.
LEMMA TablesStep ==
    ASSUME FileInv, ReaderInv, TablesAreTotals, read_line
    PROVE  TablesAreTotals'
<1> DEFINE x == file[pos + 1].rec
           C == Counted(Text)
           M == Metered
<1>1. C \subseteq Record /\ IsFiniteSet(C)
  BY TextShape
<1>2. /\ Read = {r \in C : Facts[r].canonical}
      /\ Read' = {r \in Counted(Text') : Facts[r].canonical}
      /\ Metered = {r \in Read : Facts[r].usage # None}
      /\ Metered' = {r \in Read' : Facts[r].usage # None}
  BY DEF Read, Metered, Text
<1>3. /\ Read \in SUBSET C /\ Metered \in SUBSET C /\ Metered \in SUBSET Record
      /\ \A r \in Metered : Facts[r].usage # None
  BY <1>1, <1>2
<1>4. IsFiniteSet(Read) /\ IsFiniteSet(Metered)
  BY <1>1, <1>3, FS_Subset
<1>5. Cardinality(Read) \in Nat /\ Cardinality(Metered) \in Nat
  BY <1>4, FS_CardinalityType
<1>6. IF Parses(file, pos + 1) THEN CountLine(x) ELSE SkipLine
  BY DEF read_line
<1>7. CASE ~Parses(file, pos + 1)
  <2>1. Counted(Text') = C
    BY <1>7, LineRead
  <2>2. Read' = Read /\ Metered' = Metered
    BY <1>2, <2>1
  <2>3. UNCHANGED <<groups, effort_groups, coverage>>
    BY <1>6, <1>7 DEF SkipLine
  <2> QED BY <2>2, <2>3 DEF TablesAreTotals, Rows, Row
<1>8. CASE Parses(file, pos + 1)
  <2>1. x \in Record /\ x \notin C /\ Counted(Text') = C \cup {x}
    BY <1>8, LineRead
  <2>2. CountLine(x)
    BY <1>6, <1>8
  <2> HIDE DEF x, C
  <2>3. x \notin Read /\ x \notin Metered
    BY <1>3, <2>1
  <2>4. CASE ~Facts[x].canonical
    <3>1. Read' = Read
      BY <1>2, <2>1, <2>4
    <3>2. Metered' = Metered
      BY <1>2, <3>1
    <3>3. UNCHANGED <<groups, effort_groups, coverage>>
      BY <2>2, <2>4 DEF CountLine
    <3> QED BY <3>1, <3>2, <3>3 DEF TablesAreTotals, Rows, Row
  <2>5. CASE Facts[x].canonical /\ Facts[x].usage = None
    <3>1. Read' = Read \cup {x}
      BY <1>2, <2>1, <2>5
    <3>2. Metered' = Metered
      BY <1>2, <3>1, <2>5
    <3>3. Cardinality(Read') = Cardinality(Read) + 1
      BY <1>4, <2>3, <3>1, FS_AddElement
    <3>4. /\ UNCHANGED <<groups, effort_groups>>
          /\ coverage' = [accepted |-> coverage.accepted + 1, metered |-> coverage.metered + 0]
      BY <2>2, <2>5 DEF CountLine
    <3>5. coverage = [accepted |-> Cardinality(Read), metered |-> Cardinality(Metered)]
      BY DEF TablesAreTotals
    <3>6. coverage' = [accepted |-> Cardinality(Read'), metered |-> Cardinality(Metered')]
      BY <1>5, <3>2, <3>3, <3>4, <3>5
    <3> QED BY <3>2, <3>4, <3>6 DEF TablesAreTotals, Rows, Row
  <2>6. CASE Facts[x].canonical /\ Facts[x].usage # None
    <3>1. Read' = Read \cup {x}
      BY <1>2, <2>1, <2>6
    <3>2. Metered' = Metered \cup {x}
      BY <1>2, <3>1, <2>6
    <3>3. /\ Cardinality(Read') = Cardinality(Read) + 1
          /\ Cardinality(Metered') = Cardinality(Metered) + 1
      BY <1>4, <2>3, <3>1, <3>2, FS_AddElement
    <3>4. /\ groups' = Accumulated(groups, GroupKey[x], Facts[x].usage)
          /\ effort_groups' = Accumulated(effort_groups, EffortKey[x], Facts[x].usage)
          /\ coverage' = [accepted |-> coverage.accepted + 1, metered |-> coverage.metered + 1]
      BY <2>2, <2>6 DEF CountLine
    <3>5. /\ groups = Rows(M, GroupKey) /\ effort_groups = Rows(M, EffortKey)
          /\ coverage = [accepted |-> Cardinality(Read), metered |-> Cardinality(Metered)]
      BY DEF TablesAreTotals
    <3>6. coverage' = [accepted |-> Cardinality(Read'), metered |-> Cardinality(Metered')]
      BY <3>3, <3>4, <3>5
    <3>7. \A key : Accumulated(Rows(M, key), key[x], Facts[x].usage) = Rows(M \cup {x}, key)
      BY <1>3, <1>4, <2>1, <2>3, <2>6, RowsStep
    <3>8. groups' = Rows(M \cup {x}, GroupKey) /\ effort_groups' = Rows(M \cup {x}, EffortKey)
      BY <3>4, <3>5, <3>7
    <3>9. TablesAreTotals' <=>
            /\ groups' = Rows(Metered', GroupKey) /\ effort_groups' = Rows(Metered', EffortKey)
            /\ coverage' = [accepted |-> Cardinality(Read'), metered |-> Cardinality(Metered')]
      BY DEF TablesAreTotals
    <3> QED BY <3>2, <3>6, <3>8, <3>9
  <2> QED BY <2>4, <2>5, <2>6
<1> QED
  BY <1>7, <1>8

\* Whatever was counted on a finished line is counted.
LEMMA FinishedIsCounted == \A f : Finished(f) \subseteq Counted(f)
  BY DEF Finished, Counted

\* One turn of the loop preserves the invariant.
LEMMA ReadLineStep == SummaryInv /\ read_line => SummaryInv'
<1> SUFFICES ASSUME SummaryInv, read_line PROVE SummaryInv'
  OBVIOUS
<1>1. FileInv /\ ReaderInv /\ OpenInv /\ WarningInv /\ TablesAreTotals
  BY DEF SummaryInv
<1>2. FileInv'
  BY <1>1, FileStep DEF Next, Reader
<1>3. /\ phase = "reading" /\ pos < Len(file) /\ pos' = LineEnd /\ file' = file /\ atOpen' = atOpen
      /\ phase' = IF Terminated(file, pos + 1) THEN "reading" ELSE "done"
  BY DEF read_line, gatewayVars, GoesOn
<1>4. /\ LineEnd \in 1..Len(file) /\ Len(file) \in Nat
      /\ Terminated(file, pos + 1) <=> file[LineEnd].part = "nl"
      /\ ~Terminated(file, pos + 1) => LineEnd = Len(file)
  BY <1>1, <1>3, LineEndShape, LenProperties DEF FileInv
<1>5. ReaderInv'
  <2>1. LineEnd \in 0..Len(file)
    BY <1>4
  <2> QED BY <1>3, <1>4, <2>1 DEF ReaderInv
<1>6. OpenInv'
  <2>1. CASE Terminated(file, pos + 1)
    BY <1>1, <1>3, <2>1 DEF OpenInv
  <2>2. CASE ~Terminated(file, pos + 1)
    <3>1. Text' = file
      BY <1>1, <1>3, <1>4, <2>2, WholePrefix DEF Text, FileInv
    <3> QED BY <1>1, <1>3, <2>2, <3>1, FinishedIsCounted DEF OpenInv
  <2> QED BY <2>1, <2>2
<1>7. WarningInv'
  <2>1. CASE Parses(file, pos + 1)
    <3>1. CountLine(file[pos + 1].rec)
      BY <2>1 DEF read_line
    <3>3. warnings' = warnings
      BY <3>1 DEF CountLine
    <3>2. UnparseableLines(Text') = UnparseableLines(Text)
      BY <1>1, <2>1, LineRead
    <3> QED BY <1>1, <3>2, <3>3 DEF WarningInv
  <2>2. CASE ~Parses(file, pos + 1)
    <3>1. SkipLine
      BY <2>2 DEF read_line
    <3>2. Cardinality(UnparseableLines(Text')) =
            Cardinality(UnparseableLines(Text)) + IF Terminated(file, pos + 1) THEN 1 ELSE 0
      BY <1>1, <2>2, LineRead
    <3>3. warnings' = IF Terminated(file, pos + 1)
                      THEN [warnings EXCEPT !.unparseable = @ + 1]
                      ELSE [warnings EXCEPT !.partial_tail = TRUE]
      BY <3>1 DEF SkipLine
    <3>4. warnings' \in [partial_tail : BOOLEAN, unparseable : Nat]
      <4>1. warnings \in [partial_tail : BOOLEAN, unparseable : Nat]
        BY <1>1 DEF WarningInv
      <4>2. [warnings EXCEPT !.unparseable = @ + 1] \in [partial_tail : BOOLEAN, unparseable : Nat]
        BY <4>1
      <4>3. [warnings EXCEPT !.partial_tail = TRUE] \in [partial_tail : BOOLEAN, unparseable : Nat]
        BY <4>1
      <4> QED BY <3>3, <4>2, <4>3, Zenon
    <3>5. warnings'.unparseable = Cardinality(UnparseableLines(Text'))
      BY <1>1, <3>2, <3>3 DEF WarningInv
    <3> QED BY <3>4, <3>5 DEF WarningInv
  <2> QED BY <2>1, <2>2
<1>8. TablesAreTotals'
  BY <1>1, TablesStep
<1> QED
  BY <1>2, <1>5, <1>6, <1>7, <1>8 DEF SummaryInv

\* Opening the file, meeting its end and failing read nothing.
LEMMA OpenOrEndStep == SummaryInv /\ (open \/ read_eof \/ read_fails) => SummaryInv'
<1> SUFFICES ASSUME SummaryInv, open \/ read_eof \/ read_fails PROVE SummaryInv'
  OBVIOUS
<1>1. FileInv'
  BY FileStep DEF SummaryInv, Next, Reader
<1>2. /\ UNCHANGED <<gatewayVars, pos, groups, effort_groups, coverage, warnings>>
      /\ file' = file
  BY DEF open, read_eof, read_fails, gatewayVars
<1>3. Text' = Text
  BY <1>2 DEF Text
<1>4. ReaderInv'
  BY <1>2 DEF SummaryInv, ReaderInv, open, read_eof, read_fails
<1>5. OpenInv'
  <2>1. CASE open
    BY <1>2, <2>1 DEF OpenInv, open
  <2>2. CASE read_eof
    <3>1. Text = file
      BY <2>2, WholePrefix DEF Text, read_eof, SummaryInv, FileInv
    <3> QED BY <1>2, <1>3, <2>2, <3>1, FinishedIsCounted DEF SummaryInv, OpenInv, read_eof
  <2>3. CASE read_fails
    BY <2>3 DEF OpenInv, read_fails
  <2> QED BY <2>1, <2>2, <2>3
<1>6. WarningInv'
  BY <1>2, <1>3 DEF SummaryInv, WarningInv
<1>7. Read' = Read /\ Metered' = Metered
  BY <1>3 DEF Read, Metered, Text
<1>8. TablesAreTotals'
  BY <1>2, <1>7 DEF SummaryInv, TablesAreTotals, Rows, Row
<1> QED
  BY <1>1, <1>4, <1>5, <1>6, <1>8 DEF SummaryInv

-----------------------------------------------------------------------------
(***************************************************************************)
(* The theorems                                                            *)
(***************************************************************************)

\* Whatever the gateway appends and tears while the file is read, the reader stands
\* between two lines and its tables are the totals of those it has read (summary.rs,
\* read_usage_file).
THEOREM Invariance == Spec => []SummaryInv
<1>1. SummaryInv /\ [Next]_vars => SummaryInv'
  BY GatewayStep, ReadLineStep, OpenOrEndStep DEF Next, Reader
<1> QED
  BY SummaryInit, <1>1, PTL DEF Spec

\* Both views of the summary and its coverage are the exact totals of the records on
\* the lines read, for any records, counter width and damage (summary.rs,
\* read_usage_file and accumulate_usage).
THEOREM ExactTotals == Spec => []TablesAreTotals
<1>1. SummaryInv => TablesAreTotals
  BY DEF SummaryInv
<1> QED
  BY Invariance, <1>1, PTL

\* No pass misses a record that was on a finished line when it began, and it reports
\* exactly the unparseable lines of what it read (summary.rs, the loop).
THEOREM CompletePass == Spec => []NothingMissed
<1>1. SummaryInv => NothingMissed
  BY DEF SummaryInv, OpenInv, WarningInv, NothingMissed, Text
<1> QED
  BY Invariance, <1>1, PTL

=============================================================================
