-------------------------- MODULE AuditWriterProofs --------------------------
(***************************************************************************)
(* Proofs about AuditWriter, for every set of records, every capacity of   *)
(* the queue and any number of failed writes, crashes, exits and restarts. *)
(***************************************************************************)
EXTENDS AuditWriter, TLAPS, SequenceTheorems, FiniteSetTheorems

(***************************************************************************)
(* The inductive invariant                                                 *)
(***************************************************************************)
PartAt(k) == IF k = 1 THEN "head" ELSE IF k = 2 THEN "tail" ELSE "nl"
Pieces == [rec : Record, part : {"head", "tail", "nl"}]

\* The record whose line is being written, and how much of that line is in the file
Cur == rest[1].rec
Out == 3 - Len(rest)

\* Records that left the queue, and those the writer thread is done with
Taken == Len(accepted) - Len(queue)
Done == IF rest = <<>> THEN Taken ELSE Taken - 1

\* Each record is accepted once; the queue is the end of what was accepted, and the
\* current line is that of the last record taken from it.
QueueInv ==
    /\ \A i, j \in DOMAIN accepted : accepted[i] = accepted[j] => i = j
    /\ \A i \in DOMAIN accepted : caller[accepted[i]] # "idle"
    /\ Len(queue) <= Len(accepted)
    /\ \A i \in 1..Len(queue) : queue[i] = accepted[Taken + i]
    /\ proc = "down" => queue = <<>> /\ rest = <<>>
    /\ rest # <<>> => Taken >= 1 /\ Cur = accepted[Taken]

\* Only records the thread is done with are written or failed, and, as long as the
\* process has not ended, all of them are.
SettledInv ==
    /\ IsFiniteSet(written) /\ IsFiniteSet(failed)
    /\ written \cap failed = {}
    /\ \A r \in written \cup failed : \E p \in 1..Done : accepted[p] = r
    /\ kills + exits = 0 =>
         /\ \A p \in 1..Done : accepted[p] \in written \cup failed
         /\ Done = Cardinality(written) + Cardinality(failed)

\* What is in the file was taken from the queue, and in that order.
OrderInv ==
    /\ \A i \in DOMAIN file : \E p \in 1..Taken : accepted[p] = file[i].rec
    /\ \A i, j \in DOMAIN file :
         i < j /\ file[i].part = "head" /\ file[j].part = "head" =>
            \A p, q \in DOMAIN accepted :
                accepted[p] = file[i].rec /\ accepted[q] = file[j].rec => p < q

\* The file ends with what is out of the current line, and holds nothing else of it.
CurrentInv ==
    rest # <<>> =>
        /\ Out <= Len(file)
        /\ \A k \in 1..Out : file[Len(file) - Out + k] = Piece(Cur, PartAt(k))
        /\ \A i \in 1..(Len(file) - Out) : file[i].rec # Cur

\* The line of r stands in the file from i on, and nothing else of r does.
WholeAt(r, i) ==
    /\ i + 2 <= Len(file)
    /\ file[i] = Piece(r, "head") /\ file[i + 1] = Piece(r, "tail")
    /\ file[i + 2] = Piece(r, "nl")
    /\ \A j \in DOMAIN file : file[j].rec = r => j \in i..(i + 2)

WholeInv == \A r \in written : \E i \in DOMAIN file : WholeAt(r, i)

\* A piece that does not begin a line follows the piece before it of the same line.
ChainInv ==
    \A i \in DOMAIN file :
        /\ file[i].part = "tail" => i > 1 /\ file[i - 1] = Piece(file[i].rec, "head")
        /\ file[i].part = "nl" => i > 1 /\ file[i - 1] = Piece(file[i].rec, "tail")

\* Where the file breaks off in a line: the next piece is the head of another one.
Breaks(s) ==
    {i \in 1..Len(s) : s[i].part # "nl" /\ (i = Len(s) \/ s[i + 1].part = "head")}

\* The torn lines are the breaks, but for the line that is just being written.
BreakInv == Cardinality(Breaks(file)) = tears + Torn

WriterInv ==
    /\ TypeOK /\ QueueInv /\ SettledInv /\ OrderInv /\ CurrentInv /\ WholeInv /\ ChainInv
    /\ BreakInv

-----------------------------------------------------------------------------
(***************************************************************************)
(* Lines and pieces                                                        *)
(***************************************************************************)

\* The empty sequence has no pieces.
LEMMA EmptyLen == Len(<<>>) = 0
  BY EmptySeq

\* A line is its head, its tail and its newline, in that order.
LEMMA LineShape ==
    ASSUME NEW r \in Record
    PROVE  /\ Line(r) \in Seq(Pieces) /\ Len(Line(r)) = 3
           /\ \A k \in 1..3 : Line(r)[k] = Piece(r, PartAt(k)) /\ Line(r)[k] \in Pieces
<1>1. Piece(r, "head") \in Pieces /\ Piece(r, "tail") \in Pieces /\ Piece(r, "nl") \in Pieces
  BY DEF Piece, Pieces
<1>2. Line(r) \in Seq(Pieces) /\ Len(Line(r)) = 3
  BY <1>1 DEF Line
<1>3. ASSUME NEW k \in 1..3
      PROVE  Line(r)[k] = Piece(r, PartAt(k)) /\ Line(r)[k] \in Pieces
  <2>1. k = 1 \/ k = 2 \/ k = 3
    OBVIOUS
  <2> QED BY <2>1, <1>1 DEF Line, PartAt
<1> QED BY <1>2, <1>3

\* The end of a line from its n-th piece on.
LEMMA LineEnd ==
    ASSUME NEW r \in Record, NEW n \in 1..3
    PROVE  LET s == SubSeq(Line(r), n, 3)
           IN  /\ s \in Seq(Pieces) /\ Len(s) = 4 - n /\ s # <<>>
               /\ \A k \in 1..(4 - n) : s[k] = Piece(r, PartAt(n - 1 + k))
<1> DEFINE s == SubSeq(Line(r), n, 3)
<1>1. \A i \in n..3 : Line(r)[i] \in Pieces
  BY LineShape
<1>2. n \in Int /\ 3 \in Int /\ n <= 3
  OBVIOUS
<1>3. /\ s \in Seq(Pieces) /\ Len(s) = 4 - n
      /\ \A k \in 1..(4 - n) : s[k] = Line(r)[n + k - 1]
  BY <1>1, <1>2, SubSeqProperties
<1>4. ASSUME NEW k \in 1..(4 - n) PROVE s[k] = Piece(r, PartAt(n - 1 + k))
  <2>1. n + k - 1 \in 1..3 /\ n + k - 1 = n - 1 + k
    OBVIOUS
  <2>2. Line(r)[n + k - 1] = Piece(r, PartAt(n + k - 1))
    BY <2>1, LineShape
  <2> QED BY <1>3, <2>1, <2>2
<1>5. s # <<>>
  <2>1. Len(s) > 0
    BY <1>3
  <2> HIDE DEF s
  <2> QED BY <2>1, EmptyLen
<1> QED BY <1>3, <1>4, <1>5

\* What is left to write of the current line.
LEMMA RestShape ==
    ASSUME TypeOK, rest # <<>>
    PROVE  /\ Cur \in Record /\ Len(rest) \in 1..3 /\ rest \in Seq(Pieces)
           /\ Out = 3 - Len(rest) /\ Out \in 0..2
           /\ rest = SubSeq(Line(Cur), Out + 1, 3)
           /\ \A k \in 1..Len(rest) : rest[k] = Piece(Cur, PartAt(Out + k))
<1>1. PICK r \in Record, n \in 1..3 : rest = SubSeq(Line(r), n, 3)
  BY DEF TypeOK
<1>2. /\ rest \in Seq(Pieces) /\ Len(rest) = 4 - n
      /\ \A k \in 1..(4 - n) : rest[k] = Piece(r, PartAt(n - 1 + k))
  BY <1>1, LineEnd
<1>3. rest[1] = Piece(r, PartAt(n))
  BY <1>2
<1>4. Cur = r
  BY <1>3 DEF Cur, Piece
<1>5. Out = n - 1
  BY <1>2 DEF Out
<1>6. ASSUME NEW k \in 1..Len(rest) PROVE rest[k] = Piece(Cur, PartAt(Out + k))
  <2>1. k \in 1..(4 - n)
    BY <1>2
  <2> QED BY <1>2, <1>4, <1>5, <2>1
<1>7. rest = SubSeq(Line(Cur), Out + 1, 3)
  <2>1. Out + 1 = n
    BY <1>5
  <2> QED BY <1>1, <1>4, <2>1
<1>8. Len(rest) \in 1..3 /\ Out = 3 - Len(rest) /\ Out \in 0..2
  BY <1>2, <1>5 DEF Out
<1> QED BY <1>2, <1>4, <1>6, <1>7, <1>8

\* write_some(n) appends the next n pieces of the current line and keeps the others.
LEMMA WriteShape ==
    ASSUME TypeOK, NEW n \in 1..3, write_some(n)
    PROVE  /\ rest # <<>> /\ n \in 1..Len(rest)
           /\ file' \in Seq(Pieces) /\ Len(file') = Len(file) + n
           /\ \A i \in 1..Len(file) : file'[i] = file[i]
           /\ \A k \in 1..n : file'[Len(file) + k] = Piece(Cur, PartAt(Out + k))
           /\ Len(rest') = Len(rest) - n
           /\ n = Len(rest) => rest' = <<>>
           /\ n < Len(rest) => rest' # <<>> /\ Cur' = Cur
                               /\ rest' = SubSeq(Line(Cur), Out + n + 1, 3)
<1>1. n \in 1..Len(rest) /\ rest # <<>>
  BY DEF write_some
<1>2. /\ Cur \in Record /\ Len(rest) \in 1..3 /\ rest \in Seq(Pieces)
      /\ Out = 3 - Len(rest) /\ Out \in 0..2 /\ rest = SubSeq(Line(Cur), Out + 1, 3)
      /\ \A k \in 1..Len(rest) : rest[k] = Piece(Cur, PartAt(Out + k))
  BY <1>1, RestShape
<1>3. file \in Seq(Pieces) /\ Len(file) \in Nat
  BY DEF TypeOK, Pieces
<1> DEFINE s == SubSeq(rest, 1, n)
<1>4. s \in Seq(Pieces) /\ Len(s) = n /\ \A k \in 1..n : s[k] = rest[k]
  <2>1. \A i \in 1..n : rest[i] \in Pieces
    BY <1>1, <1>2, ElementOfSeq
  <2> HIDE DEF s
  <2>2. /\ SubSeq(rest, 1, n) \in Seq(Pieces) /\ Len(SubSeq(rest, 1, n)) = n - 1 + 1
        /\ \A k \in 1..(n - 1 + 1) : SubSeq(rest, 1, n)[k] = rest[1 + k - 1]
    BY <2>1, SubSeqProperties
  <2> QED BY <2>2 DEF s
<1>5. file' = file \o s
  BY DEF write_some
<1>6. /\ file' \in Seq(Pieces) /\ Len(file') = Len(file) + n
      /\ \A i \in 1..Len(file) : file'[i] = file[i]
      /\ \A k \in 1..n : file'[Len(file) + k] = s[k]
  <2> HIDE DEF s
  <2>1. /\ file \o s \in Seq(Pieces) /\ Len(file \o s) = Len(file) + n
        /\ \A i \in 1..Len(file) + n : (file \o s)[i] =
                IF i <= Len(file) THEN file[i] ELSE s[i - Len(file)]
    BY <1>3, <1>4, ConcatProperties
  <2> QED BY <1>3, <1>5, <2>1
<1>7. ASSUME NEW k \in 1..n PROVE file'[Len(file) + k] = Piece(Cur, PartAt(Out + k))
  <2>1. k \in 1..Len(rest)
    BY <1>1, <1>2
  <2>2. file'[Len(file) + k] = s[k] /\ s[k] = rest[k]
    BY <1>4, <1>6
  <2> HIDE DEF s
  <2> QED BY <1>2, <2>1, <2>2
<1> HIDE DEF s
<1>8. rest' = SubSeq(rest, n + 1, Len(rest))
  BY DEF write_some, Remaining
<1>9. /\ rest' \in Seq(Pieces) /\ Len(rest') = Len(rest) - n
      /\ \A k \in 1..(Len(rest) - n) : rest'[k] = rest[n + k]
  <2>1. \A i \in (n + 1)..Len(rest) : rest[i] \in Pieces
    BY <1>1, <1>2, ElementOfSeq
  <2>2. /\ SubSeq(rest, n + 1, Len(rest)) \in Seq(Pieces)
        /\ Len(SubSeq(rest, n + 1, Len(rest))) =
                IF n + 1 <= Len(rest) THEN Len(rest) - (n + 1) + 1 ELSE 0
        /\ \A k \in 1..(Len(rest) - (n + 1) + 1) :
                SubSeq(rest, n + 1, Len(rest))[k] = rest[n + 1 + k - 1]
    BY <1>1, <1>2, <2>1, SubSeqProperties
  <2> QED BY <1>1, <1>2, <1>8, <2>2
<1>10. ASSUME n = Len(rest) PROVE rest' = <<>>
  <2>1. n + 1 \in Int /\ Len(rest) \in Int /\ Len(rest) < n + 1
    BY <1>2, <1>10
  <2> QED BY <1>8, <2>1, SubSeqEmpty
<1>11. ASSUME n < Len(rest)
       PROVE  /\ rest' # <<>> /\ Cur' = Cur
              /\ rest' = SubSeq(Line(Cur), Out + n + 1, 3)
  <2>1. rest' # <<>>
    <3>1. Len(rest') > 0
      BY <1>2, <1>9, <1>11
    <3> QED BY <3>1, EmptyLen
  <2>2. rest'[1] = Piece(Cur, PartAt(Out + (n + 1)))
    <3>1. 1 \in 1..(Len(rest) - n) /\ n + 1 \in 1..Len(rest)
      BY <1>2, <1>11
    <3> QED BY <1>2, <1>9, <3>1
  <2>3. Cur' = Cur
    BY <2>2 DEF Cur, Piece
  <2>4. Out + n + 1 \in 1..3 /\ 4 - (Out + n + 1) = Len(rest) - n
    <3>1. PICK l \in 1..3 : l = Len(rest) /\ Out = 3 - l
      BY <1>2
    <3>2. n < l
      BY <1>11, <3>1
    <3>3. (3 - l) + n + 1 \in 1..3 /\ 4 - ((3 - l) + n + 1) = l - n
      BY <3>2
    <3> QED BY <3>1, <3>3
  <2> DEFINE t == SubSeq(Line(Cur), Out + n + 1, 3)
  <2>5. /\ t \in Seq(Pieces) /\ Len(t) = Len(rest) - n
        /\ \A k \in 1..(Len(rest) - n) : t[k] = Piece(Cur, PartAt(Out + n + 1 - 1 + k))
    <3>1. PICK m \in 1..3 : m = Out + n + 1
      BY <2>4
    <3>2. /\ SubSeq(Line(Cur), m, 3) \in Seq(Pieces) /\ Len(SubSeq(Line(Cur), m, 3)) = 4 - m
          /\ \A k \in 1..(4 - m) : SubSeq(Line(Cur), m, 3)[k] = Piece(Cur, PartAt(m - 1 + k))
      BY <1>2, LineEnd
    <3>3. 4 - m = Len(rest) - n /\ t = SubSeq(Line(Cur), m, 3)
      BY <2>4, <3>1
    <3>4. Out \in 0..2
      BY <1>2
    <3>5. m - 1 = Out + n + 1 - 1
      BY <3>1, <3>4
    <3> HIDE DEF t
    <3> QED BY <3>2, <3>3, <3>5
  <2>6. ASSUME NEW k \in 1..(Len(rest) - n) PROVE rest'[k] = t[k]
    <3>1. n + k \in 1..Len(rest) /\ Out + (n + k) = Out + n + 1 - 1 + k
      BY <1>1, <1>2
    <3> HIDE DEF t
    <3> QED BY <1>2, <1>9, <2>5, <3>1
  <2>7. rest' = t
    <3> HIDE DEF t
    <3> QED BY <1>9, <2>5, <2>6, SeqEqual
  <2> QED BY <2>1, <2>3, <2>7
<1> QED BY <1>1, <1>6, <1>7, <1>9, <1>10, <1>11

-----------------------------------------------------------------------------
(***************************************************************************)
(* Type correctness                                                        *)
(***************************************************************************)

\* The line that write_loop takes up next, as a whole.
LEMMA RecvShape ==
    ASSUME TypeOK, write_loop_recv
    PROVE  /\ Head(queue) = queue[1] /\ Head(queue) \in Record
           /\ Len(queue) \in Nat \ {0} /\ Len(queue') = Len(queue) - 1
           /\ queue' \in Seq(Record)
           /\ \A i \in 1..Len(queue') : queue'[i] = queue[i + 1]
           /\ rest' = SubSeq(Line(Head(queue)), 1, 3) /\ rest' # <<>> /\ Len(rest') = 3
           /\ Cur' = Head(queue)
<1>1. queue \in Seq(Record) /\ queue # <<>>
  BY DEF TypeOK, write_loop_recv
<1>2. /\ Head(queue) \in Record /\ queue' = Tail(queue) /\ Tail(queue) \in Seq(Record)
      /\ Len(Tail(queue)) = Len(queue) - 1
      /\ \A i \in 1..Len(Tail(queue)) : Tail(queue)[i] = queue[i + 1]
  BY <1>1, HeadTailProperties DEF write_loop_recv
<1>3. Head(queue) = queue[1] /\ Len(queue) \in Nat \ {0}
  BY <1>1, EmptySeq
<1>4. rest' = Line(Head(queue))
  BY DEF write_loop_recv
<1>5. /\ Line(Head(queue)) \in Seq(Pieces) /\ Len(Line(Head(queue))) = 3
      /\ \A k \in 1..3 : Line(Head(queue))[k] = Piece(Head(queue), PartAt(k))
  BY <1>2, LineShape
<1>6. Line(Head(queue)) = SubSeq(Line(Head(queue)), 1, 3)
  BY <1>5, SubSeqFull
<1>7. rest' # <<>>
  BY <1>4, <1>5, EmptyLen
<1>8. Cur' = Head(queue)
  <2>1. rest'[1] = Piece(Head(queue), PartAt(1))
    BY <1>4, <1>5
  <2> QED BY <2>1 DEF Cur, Piece
<1> QED BY <1>2, <1>3, <1>4, <1>5, <1>6, <1>7, <1>8

\* Every action keeps the types of all the variables.
LEMMA TypeStep == TypeOK /\ [Next]_vars => TypeOK'
<1> SUFFICES ASSUME TypeOK, [Next]_vars PROVE TypeOK'
  OBVIOUS
<1> DEFINE RestOK == rest = <<>> \/ \E r \in Record, n \in 1..3 : rest = SubSeq(Line(r), n, 3)
<1>e. <<>> \in Seq(Record) /\ Len(<<>>) <= QueueCapacity
  BY EmptySeq, EmptyLen, QueueCapacityAssumption
<1>t. Torn \in Nat
  BY DEF Torn
<1> USE DEF TypeOK, procVars, warnVars
<1>1. CASE start
  BY <1>1, <1>e DEF start, Opened
<1>2. ASSUME NEW r \in Record, try_record(r) PROVE TypeOK'
  <2>1. CASE HasRoom
    <3>1. /\ Append(queue, r) \in Seq(Record) /\ Append(accepted, r) \in Seq(Record)
          /\ Len(Append(queue, r)) = Len(queue) + 1
      OBVIOUS
    <3>2. queue' \in Seq(Record) /\ Len(queue') <= QueueCapacity /\ accepted' \in Seq(Record)
      <4>1. /\ queue' = Append(queue, r) /\ accepted' = Append(accepted, r)
            /\ Len(queue) < QueueCapacity /\ Len(queue) \in Nat
        BY <1>2, <2>1 DEF try_record, HasRoom
      <4> QED BY <3>1, <4>1, QueueCapacityAssumption
    <3>3. RestOK' /\ file' = file
      BY <1>2 DEF try_record
    <3> HIDE DEF RestOK
    <3>4. /\ caller' \in [Record -> {"idle", "warn", "done"}] /\ dropped' = dropped
          /\ UNCHANGED <<procVars, warnVars, written, failed, tears>>
      BY <1>2, <2>1 DEF try_record
    <3> QED BY <3>2, <3>3, <3>4 DEF RestOK
  <2>2. CASE ~HasRoom
    BY <1>2, <2>2 DEF try_record
  <2> QED BY <2>1, <2>2
<1>3. ASSUME NEW r \in Record, warn_dropped(r) PROVE TypeOK'
  BY <1>3 DEF warn_dropped
<1>4. CASE write_loop_recv
  <2>1. /\ Head(queue) \in Record /\ queue' \in Seq(Record) /\ Len(queue') = Len(queue) - 1
        /\ rest' = SubSeq(Line(Head(queue)), 1, 3) /\ Len(queue) \in Nat \ {0}
    BY <1>4, RecvShape
  <2>2. RestOK'
    BY <2>1
  <2>3. Len(queue') <= QueueCapacity
    BY <2>1, QueueCapacityAssumption
  <2> HIDE DEF RestOK
  <2>4. UNCHANGED <<procVars, warnVars, caller, file, accepted, written, failed, dropped, tears>>
    BY <1>4 DEF write_loop_recv
  <2> QED BY <2>1, <2>2, <2>3, <2>4 DEF RestOK
<1>5. ASSUME NEW n \in 1..3, write_some(n) PROVE TypeOK'
  <2>1. /\ rest # <<>> /\ n \in 1..Len(rest) /\ file' \in Seq(Pieces)
        /\ n = Len(rest) => rest' = <<>>
        /\ n < Len(rest) => rest' = SubSeq(Line(Cur), Out + n + 1, 3)
    BY <1>5, WriteShape
  <2>2. Cur \in Record /\ Len(rest) \in 1..3 /\ Out = 3 - Len(rest) /\ Out \in 0..2
    BY <2>1, RestShape
  <2>3. RestOK'
    <3>1. CASE n = Len(rest)
      BY <2>1, <3>1
    <3>2. CASE n < Len(rest)
      <4>1. PICK l \in 1..3 : l = Len(rest) /\ Out = 3 - l
        BY <2>2
      <4>2. n < l
        BY <3>2, <4>1
      <4>3. (3 - l) + n + 1 \in 1..3
        BY <4>2
      <4>4. Out + n + 1 \in 1..3
        BY <4>1, <4>3
      <4> QED BY <2>1, <2>2, <3>2, <4>4
    <3> QED BY <2>1, <2>2, <3>1, <3>2
  <2>4. written' \subseteq Record
    BY <1>5, <2>2 DEF write_some, Cur
  <2> HIDE DEF RestOK
  <2>5. UNCHANGED <<procVars, warnVars, caller, queue, accepted, failed, dropped, tears>>
    BY <1>5 DEF write_some
  <2> QED BY <2>1, <2>3, <2>4, <2>5 DEF RestOK, Pieces
<1>6. CASE write_fail
  <2>1. Cur \in Record
    BY <1>6, RestShape DEF write_fail
  <2> QED BY <1>6, <1>t, <2>1 DEF write_fail, AfterFail, Cur
<1>7. CASE drop_writer
  BY <1>7 DEF drop_writer
<1>8. CASE exit
  BY <1>8, <1>e, <1>t DEF exit, Die
<1>9. CASE kill
  BY <1>9, <1>e, <1>t DEF kill, Die
<1>10. CASE UNCHANGED vars
  BY <1>10 DEF vars
<1> QED
  BY <1>1, <1>2, <1>3, <1>4, <1>5, <1>6, <1>7, <1>8, <1>9, <1>10
     DEF Next, Callers, write_loop, Process

\* The variables have their types before the first process starts.
LEMMA TypeInit == Init => TypeOK
<1>1. <<>> \in Seq(Record) /\ <<>> \in Seq([rec : Record, part : {"head", "tail", "nl"}])
  BY EmptySeq
<1>2. Len(<<>>) <= QueueCapacity /\ 0 \in Nat
  BY EmptyLen, QueueCapacityAssumption
<1> SUFFICES ASSUME Init PROVE TypeOK
  OBVIOUS
<1>3. /\ caller \in [Record -> {"idle", "warn", "done"}]
      /\ drop_warned \in BOOLEAN /\ write_warned \in BOOLEAN
  BY DEF Init
<1>4. /\ queue \in Seq(Record) /\ Len(queue) <= QueueCapacity /\ accepted \in Seq(Record)
      /\ file \in Seq([rec : Record, part : {"head", "tail", "nl"}]) /\ rest = <<>>
  BY <1>1, <1>2 DEF Init
<1> QED BY <1>2, <1>3, <1>4 DEF Init, TypeOK

\* The audit writer keeps its types, whatever happens to it.
THEOREM TypeCorrect == Spec => []TypeOK
  BY TypeInit, TypeStep, PTL DEF Spec

-----------------------------------------------------------------------------
(***************************************************************************)
(* The queue                                                               *)
(***************************************************************************)

\* What try_record does with room in the queue.
LEMMA Enqueued ==
    ASSUME TypeOK, NEW r \in Record, try_record(r), HasRoom
    PROVE  /\ Len(accepted) \in Nat /\ Len(queue) \in Nat
           /\ accepted' \in Seq(Record) /\ Len(accepted') = Len(accepted) + 1
           /\ \A i \in 1..Len(accepted) : accepted'[i] = accepted[i]
           /\ accepted'[Len(accepted) + 1] = r
           /\ queue' \in Seq(Record) /\ Len(queue') = Len(queue) + 1
           /\ \A i \in 1..Len(queue) : queue'[i] = queue[i]
           /\ queue'[Len(queue) + 1] = r
           /\ caller[r] = "idle" /\ caller' = [caller EXCEPT ![r] = "done"]
<1>1. accepted \in Seq(Record) /\ queue \in Seq(Record)
  BY DEF TypeOK
<1>2. /\ accepted' = Append(accepted, r) /\ queue' = Append(queue, r)
      /\ caller[r] = "idle" /\ caller' = [caller EXCEPT ![r] = "done"]
  BY DEF try_record
<1>3. /\ accepted' \in Seq(Record) /\ Len(accepted') = Len(accepted) + 1
      /\ \A i \in 1..Len(accepted) : accepted'[i] = accepted[i]
      /\ accepted'[Len(accepted) + 1] = r
  BY <1>1, <1>2, AppendProperties
<1>4. /\ queue' \in Seq(Record) /\ Len(queue') = Len(queue) + 1
      /\ \A i \in 1..Len(queue) : queue'[i] = queue[i]
      /\ queue'[Len(queue) + 1] = r
  BY <1>1, <1>2, AppendProperties
<1> QED BY <1>1, <1>2, <1>3, <1>4

\* The steps by what they do to the file and to the line being written: a write, a
\* failed write, taking a record, the end of the process, and those that touch neither.
LEMMA Steps ==
    ASSUME TypeOK, QueueInv, [Next]_vars
    PROVE  /\ accepted \in Seq(Record) /\ accepted' \in Seq(Record)
           /\ Len(accepted) \in Nat /\ Len(accepted') \in Nat
           /\ Len(accepted) <= Len(accepted')
           /\ \A i \in 1..Len(accepted) : accepted'[i] = accepted[i]
           /\ \/ \E n \in 1..3 : write_some(n)
              \/ write_fail
              \/ write_loop_recv
              \/ Die /\ kills' + exits' # 0
              \/ /\ rest' = rest /\ file' = file /\ written' = written /\ failed' = failed
                 /\ tears' = tears /\ kills' = kills /\ exits' = exits
                 /\ Taken' = Taken
<1> DEFINE Grows == /\ Len(accepted) <= Len(accepted')
                    /\ \A i \in 1..Len(accepted) : accepted'[i] = accepted[i]
           Same == /\ rest' = rest /\ file' = file /\ written' = written /\ failed' = failed
                   /\ tears' = tears /\ kills' = kills /\ exits' = exits
<1>t. TypeOK'
  BY TypeStep
<1>a. /\ accepted \in Seq(Record) /\ accepted' \in Seq(Record)
      /\ Len(accepted) \in Nat /\ Len(accepted') \in Nat
  BY <1>t DEF TypeOK
<1>s. accepted' = accepted => Grows
  BY <1>a
<1> HIDE DEF Grows
<1>1. CASE start
  <2>1. queue' = queue /\ Same
    BY <1>1 DEF start, Opened, QueueInv
  <2> QED BY <1>1, <1>a, <1>s, <2>1 DEF start, Taken, Grows
<1>2. ASSUME NEW r \in Record, try_record(r) PROVE Grows /\ Same /\ Taken' = Taken
  <2>1. Same
    BY <1>2 DEF try_record, procVars
  <2>2. CASE HasRoom
    <3>1. Grows
      BY <1>2, <2>2, <1>a, Enqueued DEF Grows
    <3>2. Len(accepted') = Len(accepted) + 1 /\ Len(queue') = Len(queue) + 1 /\ Len(queue) \in Nat
      BY <1>2, <2>2, Enqueued
    <3> QED BY <1>a, <2>1, <3>1, <3>2 DEF Taken
  <2>3. CASE ~HasRoom
    BY <1>2, <1>s, <2>1, <2>3 DEF try_record, Taken
  <2> QED BY <2>2, <2>3
<1>3. ASSUME NEW r \in Record, warn_dropped(r) PROVE Grows /\ Same /\ Taken' = Taken
  BY <1>3, <1>s DEF warn_dropped, procVars, Taken
<1>4. CASE write_loop_recv
  BY <1>4, <1>s, <1>a DEF write_loop_recv, Grows
<1>5. CASE \E n \in 1..3 : write_some(n)
  BY <1>5, <1>s, <1>a DEF write_some, Grows
<1>6. CASE write_fail
  BY <1>6, <1>s, <1>a DEF write_fail, Grows
<1>7. CASE drop_writer
  BY <1>7, <1>s, <1>a DEF drop_writer, Grows, Taken, warnVars
<1>8. CASE exit
  <2>1. kills' + exits' # 0
    BY <1>8 DEF exit, TypeOK
  <2> QED BY <1>8, <1>s, <1>a, <2>1 DEF exit, Die, Grows
<1>9. CASE kill
  <2>1. kills' + exits' # 0
    BY <1>9 DEF kill, TypeOK
  <2> QED BY <1>9, <1>s, <1>a, <2>1 DEF kill, Die, Grows
<1>10. CASE UNCHANGED vars
  BY <1>10, <1>s, <1>a DEF vars, Grows, Taken
<1> QED
  BY <1>1, <1>2, <1>3, <1>4, <1>5, <1>6, <1>7, <1>8, <1>9, <1>10, <1>a
     DEF Next, Callers, write_loop, Process, Grows

\* Every action keeps what relates the queue, the accepted records and the current line.
LEMMA QueueStep == TypeOK /\ QueueInv /\ [Next]_vars => QueueInv'
<1> SUFFICES ASSUME TypeOK, QueueInv, [Next]_vars PROVE QueueInv'
  OBVIOUS
<1>a. /\ accepted \in Seq(Record) /\ queue \in Seq(Record)
      /\ Len(accepted) \in Nat /\ Len(queue) \in Nat
      /\ DOMAIN accepted = 1..Len(accepted) /\ caller \in [Record -> {"idle", "warn", "done"}]
      /\ \A i \in DOMAIN accepted : accepted[i] \in Record
  BY DEF TypeOK
<1>q. /\ \A i, j \in DOMAIN accepted : accepted[i] = accepted[j] => i = j
      /\ \A i \in DOMAIN accepted : caller[accepted[i]] # "idle"
      /\ Len(queue) <= Len(accepted)
      /\ \A i \in 1..Len(queue) : queue[i] = accepted[Taken + i]
      /\ proc = "down" => queue = <<>> /\ rest = <<>>
      /\ rest # <<>> => Taken >= 1 /\ Cur = accepted[Taken]
  BY DEF QueueInv
<1>k. Taken = Len(accepted) - Len(queue) /\ Taken \in Nat /\ Taken <= Len(accepted)
  BY <1>a, <1>q DEF Taken
<1>e. Len(<<>>) = 0
  BY EmptyLen
<1>s. ASSUME queue' = queue, accepted' = accepted PROVE Taken' = Taken
  BY <1>s DEF Taken
<1>c. rest' = rest => Cur' = Cur
  BY DEF Cur
<1>1. CASE start
  <2>1. UNCHANGED <<queue, rest, accepted, caller>>
    BY <1>1 DEF start, QueueInv
  <2> QED BY <1>1, <1>q, <1>s, <1>c, <2>1 DEF QueueInv, start
<1>2. ASSUME NEW r \in Record, try_record(r) PROVE QueueInv'
  <2>1. CASE HasRoom
    <3>1. /\ accepted' \in Seq(Record) /\ Len(accepted') = Len(accepted) + 1
          /\ \A i \in 1..Len(accepted) : accepted'[i] = accepted[i]
          /\ accepted'[Len(accepted) + 1] = r
          /\ queue' \in Seq(Record) /\ Len(queue') = Len(queue) + 1
          /\ \A i \in 1..Len(queue) : queue'[i] = queue[i]
          /\ queue'[Len(queue) + 1] = r
          /\ caller[r] = "idle" /\ caller' = [caller EXCEPT ![r] = "done"]
      BY <1>2, <2>1, Enqueued
    <3>2. DOMAIN accepted' = 1..(Len(accepted) + 1) /\ Taken' = Taken
      BY <1>a, <1>k, <3>1 DEF Taken
    <3>3. \A i \in DOMAIN accepted : accepted[i] # r
      BY <1>q, <3>1
    <3>4. ASSUME NEW i \in DOMAIN accepted', NEW j \in DOMAIN accepted',
                 accepted'[i] = accepted'[j]
          PROVE  i = j
      <4>1. i \in 1..Len(accepted) \/ i = Len(accepted) + 1
        BY <1>a, <3>2
      <4>2. j \in 1..Len(accepted) \/ j = Len(accepted) + 1
        BY <1>a, <3>2
      <4> QED BY <1>a, <1>q, <3>1, <3>3, <3>4, <4>1, <4>2
    <3>5. ASSUME NEW i \in DOMAIN accepted' PROVE caller'[accepted'[i]] # "idle"
      <4>1. i \in 1..Len(accepted) \/ i = Len(accepted) + 1
        BY <1>a, <3>2
      <4> QED BY <1>a, <1>q, <3>1, <4>1
    <3>6. ASSUME NEW i \in 1..Len(queue') PROVE queue'[i] = accepted'[Taken' + i]
      <4>1. CASE i \in 1..Len(queue)
        <5>1. Taken + i \in 1..Len(accepted)
          BY <1>a, <1>k, <4>1
        <5> QED BY <1>q, <3>1, <3>2, <4>1, <5>1
      <4>2. CASE i = Len(queue) + 1
        <5>1. Taken + i = Len(accepted) + 1
          BY <1>a, <1>k, <4>2
        <5> QED BY <3>1, <3>2, <4>2, <5>1
      <4> QED BY <1>a, <3>1, <4>1, <4>2
    <3>7. rest' # <<>> => Taken' >= 1 /\ Cur' = accepted'[Taken']
      <4>1. rest' = rest
        BY <1>2 DEF try_record
      <4>2. rest # <<>> => Taken \in 1..Len(accepted)
        BY <1>k, <1>q
      <4> QED BY <1>q, <1>c, <3>1, <3>2, <4>1, <4>2
    <3>8. proc' # "down"
      BY <1>2 DEF try_record, procVars
    <3>9. Len(queue') <= Len(accepted')
      BY <1>a, <1>q, <3>1
    <3> QED BY <3>4, <3>5, <3>6, <3>7, <3>8, <3>9 DEF QueueInv
  <2>2. CASE ~HasRoom
    <3>1. /\ UNCHANGED <<queue, accepted, rest, proc>>
          /\ caller' = [caller EXCEPT ![r] = "warn"]
      BY <1>2, <2>2 DEF try_record, procVars
    <3>2. \A i \in DOMAIN accepted : caller'[accepted[i]] # "idle"
      BY <1>a, <1>q, <3>1
    <3> QED BY <1>q, <1>s, <1>c, <3>1, <3>2 DEF QueueInv
  <2> QED BY <2>1, <2>2
<1>3. ASSUME NEW r \in Record, warn_dropped(r) PROVE QueueInv'
  <2>1. /\ UNCHANGED <<queue, accepted, rest, proc>>
        /\ caller' = [caller EXCEPT ![r] = "done"]
    BY <1>3 DEF warn_dropped, procVars
  <2>2. \A i \in DOMAIN accepted : caller'[accepted[i]] # "idle"
    BY <1>a, <1>q, <2>1
  <2> QED BY <1>q, <1>s, <1>c, <2>1, <2>2 DEF QueueInv
<1>4. CASE write_loop_recv
  <2>1. /\ Head(queue) = queue[1] /\ Len(queue) \in Nat \ {0} /\ Len(queue') = Len(queue) - 1
        /\ \A i \in 1..Len(queue') : queue'[i] = queue[i + 1]
        /\ Cur' = Head(queue)
    BY <1>4, RecvShape
  <2>2. UNCHANGED <<accepted, caller, proc>> /\ proc # "down"
    BY <1>4 DEF write_loop_recv, Running, procVars
  <2>3. Taken' = Taken + 1
    BY <1>a, <1>k, <2>1, <2>2 DEF Taken
  <2>4. ASSUME NEW i \in 1..Len(queue') PROVE queue'[i] = accepted'[Taken' + i]
    <3>1. i + 1 \in 1..Len(queue) /\ Taken' + i = Taken + (i + 1)
      BY <1>k, <2>1, <2>3
    <3> QED BY <1>q, <2>1, <2>2, <3>1
  <2>5. Taken' >= 1 /\ Cur' = accepted'[Taken']
    <3>1. 1 \in 1..Len(queue) /\ Taken' >= 1
      BY <1>k, <2>1, <2>3
    <3> QED BY <1>q, <2>1, <2>2, <2>3, <3>1
  <2>6. Len(queue') <= Len(accepted')
    BY <1>a, <1>q, <2>1, <2>2
  <2> QED BY <1>q, <2>2, <2>4, <2>5, <2>6 DEF QueueInv
<1>5. ASSUME NEW n \in 1..3, write_some(n) PROVE QueueInv'
  <2>1. UNCHANGED <<queue, accepted, caller, proc>> /\ proc # "down"
    BY <1>5 DEF write_some, Running, procVars
  <2>2. rest # <<>> /\ (rest' # <<>> => Cur' = Cur)
    <3>1. /\ rest # <<>> /\ n \in 1..Len(rest)
          /\ n = Len(rest) => rest' = <<>>
          /\ n < Len(rest) => Cur' = Cur
      BY <1>5, WriteShape
    <3>2. Len(rest) \in 1..3
      BY <3>1, RestShape
    <3> QED BY <3>1, <3>2
  <2> QED BY <1>q, <1>s, <2>1, <2>2 DEF QueueInv
<1>6. CASE write_fail
  <2>1. UNCHANGED <<queue, accepted, caller, proc>> /\ proc # "down" /\ rest' = <<>>
    BY <1>6 DEF write_fail, Running, procVars, AfterFail
  <2> QED BY <1>q, <1>s, <2>1 DEF QueueInv
<1>7. CASE drop_writer
  <2>1. UNCHANGED <<queue, accepted, caller, rest>> /\ proc' = "draining"
    BY <1>7 DEF drop_writer
  <2> QED BY <1>q, <1>s, <1>c, <2>1 DEF QueueInv
<1>8. CASE Die /\ caller' \in [Record -> {"idle", "warn", "done"}]
                /\ \A r \in Record : caller'[r] = "idle" => caller[r] = "idle"
  <2>1. queue' = <<>> /\ rest' = <<>> /\ accepted' = accepted
    BY <1>8 DEF Die
  <2>2. \A i \in DOMAIN accepted : caller'[accepted[i]] # "idle"
    BY <1>a, <1>q, <1>8
  <2> QED BY <1>a, <1>q, <1>e, <2>1, <2>2 DEF QueueInv
<1>9. CASE exit
  BY <1>8, <1>9, <1>a DEF exit
<1>10. CASE kill
  BY <1>8, <1>10, <1>a DEF kill
<1>11. CASE UNCHANGED vars
  <2>1. UNCHANGED <<queue, accepted, caller, rest, proc>>
    BY <1>11 DEF vars
  <2> QED BY <1>q, <1>s, <1>c, <2>1 DEF QueueInv
<1> QED
  BY <1>1, <1>2, <1>3, <1>4, <1>5, <1>6, <1>7, <1>9, <1>10, <1>11
     DEF Next, Callers, write_loop, Process

Position ==
    /\ Len(accepted) \in Nat /\ DOMAIN accepted = 1..Len(accepted)
    /\ Taken \in Nat /\ Taken <= Len(accepted)
    /\ Done \in Nat /\ Done <= Taken
    /\ rest # <<>> => Done = Taken - 1 /\ Taken \in 1..Len(accepted)
    /\ rest = <<>> => Done = Taken

\* Where the writer thread is in the sequence of accepted records.
LEMMA Positions == TypeOK /\ QueueInv => Position
<1> SUFFICES ASSUME TypeOK, QueueInv PROVE Position
  OBVIOUS
<1>1. Len(accepted) \in Nat /\ Len(queue) \in Nat /\ DOMAIN accepted = 1..Len(accepted)
  BY DEF TypeOK
<1>2. Taken \in Nat /\ Taken <= Len(accepted)
  BY <1>1 DEF Taken, QueueInv
<1>3. rest # <<>> => Taken >= 1
  BY DEF QueueInv
<1> QED BY <1>1, <1>2, <1>3 DEF Done, Position

\* Neither the records taken nor those done with ever become fewer.
LEMMA Progress ==
    ASSUME TypeOK, QueueInv, [Next]_vars
    PROVE  /\ Taken <= Taken' /\ Done <= Done'
           /\ (\E n \in 1..3 : write_some(n)) =>
                Taken' = Taken /\ Done' = IF rest' = <<>> THEN Done + 1 ELSE Done
           /\ write_fail => Taken' = Taken /\ Done' = Done + 1
           /\ write_loop_recv => Taken' = Taken + 1 /\ Done' = Done
           /\ Taken' = Taken /\ rest' = rest => Done' = Done
<1>1. TypeOK' /\ QueueInv'
  BY TypeStep, QueueStep
<1>2. /\ Taken \in Nat /\ Done \in Nat /\ Taken <= Len(accepted) /\ Done <= Taken
      /\ rest # <<>> => Done = Taken - 1
      /\ rest = <<>> => Done = Taken
  BY Positions DEF Position
<1>3. /\ Taken' \in Nat /\ Done' \in Nat /\ Taken' <= Len(accepted')
      /\ rest' # <<>> => Done' = Taken' - 1
      /\ rest' = <<>> => Done' = Taken'
  <2>1. Position'
    BY <1>1, Positions, PTL
  <2> QED BY <2>1 DEF Position
<1>4. Len(accepted) \in Nat /\ Len(queue) \in Nat /\ Taken = Len(accepted) - Len(queue)
  BY DEF TypeOK, Taken
<1>5. CASE \E n \in 1..3 : write_some(n)
  <2>1. rest # <<>> /\ Taken' = Taken
    BY <1>5 DEF write_some, Taken
  <2>2. ~write_fail /\ ~write_loop_recv
    <3>1. PICK n \in 1..3 : write_some(n)
      BY <1>5
    <3>2. file' # file
      <4>1. Len(file') = Len(file) + n /\ Len(file) \in Nat
        BY <3>1, WriteShape DEF TypeOK
      <4> QED BY <4>1
    <3> QED BY <3>2 DEF write_fail, write_loop_recv
  <2>3. rest' # rest
    <3>1. PICK n \in 1..3 : write_some(n)
      BY <1>5
    <3>2. Len(rest') = Len(rest) - n /\ Len(rest) \in 1..3
      BY <2>1, <3>1, WriteShape, RestShape
    <3> QED BY <3>2
  <2> QED BY <1>2, <1>3, <2>1, <2>2, <2>3
<1>6. CASE write_fail
  <2>1. rest # <<>> /\ rest' = <<>> /\ Taken' = Taken
    BY <1>6 DEF write_fail, Taken, AfterFail
  <2>2. ~write_loop_recv /\ ~\E n \in 1..3 : write_some(n)
    <3>1. ~write_loop_recv
      BY <2>1 DEF write_loop_recv
    <3>2. ASSUME NEW n \in 1..3, write_some(n) PROVE FALSE
      <4>1. Len(file') = Len(file) + n /\ Len(file) \in Nat
        BY <3>2, WriteShape DEF TypeOK
      <4> QED BY <1>6, <4>1 DEF write_fail
    <3> QED BY <3>1, <3>2
  <2> QED BY <1>2, <1>3, <2>1, <2>2
<1>7. CASE write_loop_recv
  <2>1. rest = <<>> /\ rest' # <<>> /\ Len(queue') = Len(queue) - 1
    BY <1>7, RecvShape DEF write_loop_recv
  <2>2. Taken' = Taken + 1
    BY <1>4, <1>7, <2>1 DEF write_loop_recv, Taken
  <2>3. ~write_fail /\ ~\E n \in 1..3 : write_some(n)
    <3>1. ~write_fail
      BY <2>1 DEF write_fail
    <3>2. ASSUME NEW n \in 1..3, write_some(n) PROVE FALSE
      BY <2>1, <3>2, WriteShape
    <3> QED BY <3>1, <3>2
  <2> QED BY <1>2, <1>3, <2>1, <2>2, <2>3
<1>8. CASE Die
  <2>1. queue' = <<>> /\ rest' = <<>> /\ accepted' = accepted /\ file' = file
    BY <1>8 DEF Die
  <2>2. Taken' = Len(accepted)
    BY <1>4, <2>1, EmptyLen DEF Taken
  <2>3. Taken <= Taken' /\ Done <= Done' /\ (Taken' = Taken /\ rest' = rest => Done' = Done)
    BY <1>2, <1>3, <2>1, <2>2
  <2> QED BY <1>5, <1>6, <1>7, <2>3
<1>9. CASE rest' = rest /\ Taken' = Taken
  <2>1. Done' = Done
    BY <1>9 DEF Done
  <2>2. Taken <= Taken' /\ Done <= Done'
    BY <1>2, <1>9, <2>1
  <2> QED BY <1>5, <1>6, <1>7, <2>1, <2>2
<1> QED BY <1>5, <1>6, <1>7, <1>8, <1>9, Steps

\* Every action keeps what is known of the records that were written or failed.
LEMMA SettledStep == TypeOK /\ QueueInv /\ SettledInv /\ [Next]_vars => SettledInv'
<1> SUFFICES ASSUME TypeOK, QueueInv, SettledInv, [Next]_vars PROVE SettledInv'
  OBVIOUS
<1>a. /\ Len(accepted) \in Nat /\ Len(accepted) <= Len(accepted')
      /\ \A i \in 1..Len(accepted) : accepted'[i] = accepted[i]
  BY Steps
<1>p. /\ DOMAIN accepted = 1..Len(accepted)
      /\ Taken \in Nat /\ Taken <= Len(accepted) /\ Done \in Nat /\ Done <= Taken
      /\ rest # <<>> => Done = Taken - 1 /\ Taken \in 1..Len(accepted)
  BY Positions DEF Position
<1>d. Done' \in Nat /\ Done <= Done'
  <2>1. TypeOK' /\ QueueInv'
    BY TypeStep, QueueStep
  <2>2. Position'
    BY <2>1, Positions, PTL
  <2> QED BY <2>2, Progress DEF Position
<1>i. /\ IsFiniteSet(written) /\ IsFiniteSet(failed) /\ written \cap failed = {}
      /\ \A r \in written \cup failed : \E p \in 1..Done : accepted[p] = r
      /\ kills + exits = 0 =>
            /\ \A p \in 1..Done : accepted[p] \in written \cup failed
            /\ Done = Cardinality(written) + Cardinality(failed)
  BY DEF SettledInv
<1>o. \A r \in written \cup failed : \E p \in 1..Done' : accepted'[p] = r
  <2> SUFFICES ASSUME NEW r \in written \cup failed PROVE \E p \in 1..Done' : accepted'[p] = r
    OBVIOUS
  <2>1. PICK p \in 1..Done : accepted[p] = r
    BY <1>i
  <2>2. p \in 1..Len(accepted) /\ p \in 1..Done'
    BY <1>a, <1>p, <1>d
  <2> QED BY <1>a, <2>1, <2>2
\* The current record settles, as one of written or failed.
<1>c. ASSUME rest # <<>>, Done' = Done + 1, accepted' = accepted,
             kills' = kills, exits' = exits,
             \/ written' = written \cup {Cur} /\ failed' = failed
             \/ written' = written /\ failed' = failed \cup {Cur}
      PROVE  SettledInv'
  <2>1. Taken \in 1..Len(accepted) /\ Done = Taken - 1 /\ Cur = accepted[Taken]
    BY <1>c, <1>p DEF QueueInv
  <2>2. Cur \notin written \cup failed
    <3> SUFFICES ASSUME Cur \in written \cup failed PROVE FALSE
      OBVIOUS
    <3>1. PICK p \in 1..Done : accepted[p] = Cur
      BY <1>i
    <3>2. p \in 1..Len(accepted) /\ p # Taken
      BY <1>a, <1>p, <2>1
    <3> QED BY <1>p, <2>1, <3>1, <3>2 DEF QueueInv
  <2>3. /\ IsFiniteSet(written \cup {Cur}) /\ IsFiniteSet(failed \cup {Cur})
        /\ Cardinality(written \cup {Cur}) = Cardinality(written) + 1
        /\ Cardinality(failed \cup {Cur}) = Cardinality(failed) + 1
    BY <1>i, <2>2, FS_AddElement
  <2>4. Cardinality(written) \in Nat /\ Cardinality(failed) \in Nat
    BY <1>i, FS_CardinalityType
  <2>5. IsFiniteSet(written') /\ IsFiniteSet(failed') /\ written' \cap failed' = {}
    BY <1>c, <1>i, <2>2, <2>3
  <2>6. written' \cup failed' = (written \cup failed) \cup {Cur}
    BY <1>c
  <2>7. Done' = Taken
    BY <1>c, <1>p, <2>1
  <2>8. ASSUME NEW r \in written' \cup failed' PROVE \E p \in 1..Done' : accepted'[p] = r
    <3>1. CASE r = Cur
      BY <1>c, <2>1, <2>7, <3>1
    <3>2. CASE r \in written \cup failed
      BY <1>o, <3>2
    <3> QED BY <2>6, <3>1, <3>2
  <2>9. ASSUME kills' + exits' = 0
        PROVE  /\ \A p \in 1..Done' : accepted'[p] \in written' \cup failed'
               /\ Done' = Cardinality(written') + Cardinality(failed')
    <3>1. kills + exits = 0
      BY <1>c, <2>9
    <3>2. ASSUME NEW p \in 1..Done' PROVE accepted'[p] \in written' \cup failed'
      <4>1. p \in 1..Done \/ p = Taken
        BY <1>p, <2>1, <2>7
      <4> QED BY <1>c, <1>i, <2>1, <2>6, <3>1, <4>1
    <3>3. Done = Cardinality(written) + Cardinality(failed)
      BY <1>i, <3>1
    <3>4. Cardinality(written') + Cardinality(failed')
            = (Cardinality(written) + Cardinality(failed)) + 1
      <4>1. CASE written' = written \cup {Cur} /\ failed' = failed
        BY <2>3, <2>4, <4>1
      <4>2. CASE written' = written /\ failed' = failed \cup {Cur}
        BY <2>3, <2>4, <4>2
      <4> QED BY <1>c, <4>1, <4>2
    <3> QED BY <1>c, <3>2, <3>3, <3>4
  <2> QED BY <2>5, <2>8, <2>9 DEF SettledInv
<1>1. ASSUME NEW n \in 1..3, write_some(n) PROVE SettledInv'
  <2>1. /\ rest # <<>> /\ n \in 1..Len(rest) /\ Len(rest) \in 1..3
        /\ n = Len(rest) => rest' = <<>>
        /\ n < Len(rest) => rest' # <<>>
    BY <1>1, WriteShape, RestShape
  <2>2. Done' = IF rest' = <<>> THEN Done + 1 ELSE Done
    BY <1>1, Progress
  <2>3. UNCHANGED <<accepted, failed, kills, exits>>
    BY <1>1 DEF write_some, procVars
  <2>4. CASE n = Len(rest)
    <3>1. written' = written \cup {Cur}
      BY <1>1, <2>4 DEF write_some, Cur
    <3>2. Done' = Done + 1
      BY <2>1, <2>2, <2>4
    <3> QED BY <1>c, <2>1, <2>3, <3>1, <3>2
  <2>5. CASE n # Len(rest)
    <3>1. written' = written /\ Done' = Done
      BY <1>1, <2>1, <2>2, <2>5 DEF write_some
    <3> QED BY <1>i, <2>3, <3>1 DEF SettledInv
  <2> QED BY <2>4, <2>5
<1>2. CASE write_fail
  <2>1. /\ rest # <<>> /\ UNCHANGED <<accepted, written, kills, exits>>
        /\ failed' = failed \cup {Cur}
    BY <1>2 DEF write_fail, procVars, Cur
  <2>2. Done' = Done + 1
    BY <1>2, Progress
  <2> QED BY <1>c, <2>1, <2>2
<1>3. CASE write_loop_recv
  <2>1. UNCHANGED <<accepted, written, failed, kills, exits>> /\ Done' = Done
    BY <1>3, Progress DEF write_loop_recv, procVars
  <2> QED BY <1>i, <2>1 DEF SettledInv
<1>4. CASE Die /\ kills' + exits' # 0
  <2>1. written' = written /\ failed' = failed
    BY <1>4 DEF Die
  <2> QED BY <1>i, <1>o, <1>4, <2>1 DEF SettledInv
<1>5. CASE /\ rest' = rest /\ written' = written /\ failed' = failed
           /\ kills' = kills /\ exits' = exits /\ Taken' = Taken
  <2>1. Done' = Done
    BY <1>5 DEF Done
  <2>2. ASSUME kills + exits = 0
        PROVE  \A p \in 1..Done' : accepted'[p] \in written' \cup failed'
    <3>1. \A p \in 1..Done : p \in 1..Len(accepted)
      BY <1>a, <1>p
    <3> QED BY <1>a, <1>i, <1>5, <2>1, <2>2, <3>1
  <2> QED BY <1>i, <1>o, <1>5, <2>1, <2>2 DEF SettledInv
<1> QED BY <1>1, <1>2, <1>3, <1>4, <1>5, Steps

-----------------------------------------------------------------------------
(***************************************************************************)
(* The file                                                                *)
(***************************************************************************)

\* The pieces in the file are pieces of lines.
LEMMA FileShape ==
    ASSUME TypeOK
    PROVE  /\ file \in Seq(Pieces) /\ Len(file) \in Nat /\ DOMAIN file = 1..Len(file)
           /\ \A i \in 1..Len(file) : /\ file[i] \in Pieces /\ file[i].rec \in Record
                                      /\ file[i].part \in {"head", "tail", "nl"}
<1>1. file \in Seq(Pieces)
  BY DEF TypeOK, Pieces
<1>2. Len(file) \in Nat /\ DOMAIN file = 1..Len(file) /\ \A i \in 1..Len(file) : file[i] \in Pieces
  BY <1>1
<1> QED BY <1>1, <1>2 DEF Pieces

\* After a write the file ends with the part of the current line that is out, now
\* longer, and has before it what it had.
LEMMA CurrentLine ==
    ASSUME TypeOK, CurrentInv, NEW n \in 1..3, write_some(n)
    PROVE  /\ Len(file) - Out \in Nat /\ Out \in 0..2 /\ Out + n \in 1..3
           /\ Len(file') = (Len(file) - Out) + (Out + n)
           /\ \A i \in 1..(Len(file) - Out) : file'[i] = file[i] /\ file[i].rec # Cur
           /\ \A k \in 1..(Out + n) :
                file'[(Len(file) - Out) + k] = Piece(Cur, PartAt(k))
<1>1. /\ rest # <<>> /\ n \in 1..Len(rest) /\ Len(file') = Len(file) + n
      /\ \A i \in 1..Len(file) : file'[i] = file[i]
      /\ \A k \in 1..n : file'[Len(file) + k] = Piece(Cur, PartAt(Out + k))
  BY WriteShape
<1>2. Len(rest) \in 1..3 /\ Out = 3 - Len(rest) /\ Out \in 0..2
  BY <1>1, RestShape
<1>3. /\ Out <= Len(file)
      /\ \A k \in 1..Out : file[Len(file) - Out + k] = Piece(Cur, PartAt(k))
      /\ \A i \in 1..(Len(file) - Out) : file[i].rec # Cur
  BY <1>1 DEF CurrentInv
<1>4. Len(file) \in Nat
  BY FileShape
<1>5. Len(file) - Out \in Nat /\ (Len(file) - Out) + (Out + n) = Len(file) + n
  BY <1>2, <1>3, <1>4
<1>6. Out + n \in 1..3
  <2>1. PICK l \in 1..3 : l = Len(rest)
    BY <1>2
  <2>2. Out = 3 - l /\ n <= l
    BY <1>1, <1>2, <2>1
  <2>3. (3 - l) + n \in 1..3
    BY <2>2
  <2> QED BY <2>2, <2>3
<1>7. ASSUME NEW i \in 1..(Len(file) - Out) PROVE file'[i] = file[i] /\ file[i].rec # Cur
  <2>1. PICK o \in 0..2 : o = Out
    BY <1>2
  <2>2. i \in 1..(Len(file) - o)
    BY <2>1
  <2>3. i \in 1..Len(file)
    BY <1>4, <2>2
  <2> QED BY <1>1, <1>3, <2>3
<1>8. ASSUME NEW k \in 1..(Out + n)
      PROVE  file'[(Len(file) - Out) + k] = Piece(Cur, PartAt(k))
  <2>1. CASE k <= Out
    <3>1. k \in 1..Out /\ (Len(file) - Out) + k \in 1..Len(file)
      BY <1>2, <1>4, <1>5, <2>1
    <3> QED BY <1>1, <1>3, <3>1
  <2>2. CASE k > Out
    <3>1. k - Out \in 1..n /\ Len(file) + (k - Out) = (Len(file) - Out) + k
          /\ Out + (k - Out) = k
      BY <1>2, <1>4, <2>2
    <3>2. file'[Len(file) + (k - Out)] = Piece(Cur, PartAt(Out + (k - Out)))
      BY <1>1, <3>1
    <3> QED BY <3>1, <3>2
  <2> QED BY <1>2, <2>1, <2>2
<1> QED BY <1>1, <1>2, <1>5, <1>6, <1>7, <1>8

\* The current record is neither written nor failed yet.
LEMMA CurrentUnsettled ==
    ASSUME TypeOK, QueueInv, SettledInv, rest # <<>>
    PROVE  Cur \notin written \cup failed
<1> SUFFICES ASSUME Cur \in written \cup failed PROVE FALSE
  OBVIOUS
<1>1. Position
  BY Positions
<1>2. /\ Taken \in 1..Len(accepted) /\ Done = Taken - 1 /\ Cur = accepted[Taken]
      /\ DOMAIN accepted = 1..Len(accepted)
  BY <1>1 DEF Position, QueueInv
<1>3. PICK p \in 1..Done : accepted[p] = Cur
  BY DEF SettledInv
<1>4. p \in 1..Len(accepted) /\ p # Taken
  BY <1>1, <1>2 DEF Position
<1> QED BY <1>2, <1>3, <1>4 DEF QueueInv

\* Every action keeps the file in the order of the queue.
LEMMA OrderStep == TypeOK /\ QueueInv /\ OrderInv /\ CurrentInv /\ [Next]_vars => OrderInv'
<1> SUFFICES ASSUME TypeOK, QueueInv, OrderInv, CurrentInv, [Next]_vars PROVE OrderInv'
  OBVIOUS
<1>a. /\ Len(accepted) \in Nat /\ Len(accepted') \in Nat /\ Len(accepted) <= Len(accepted')
      /\ \A i \in 1..Len(accepted) : accepted'[i] = accepted[i]
  BY Steps
<1>t. TypeOK' /\ QueueInv' /\ DOMAIN accepted' = 1..Len(accepted')
  <2>1. TypeOK' /\ QueueInv'
    BY TypeStep, QueueStep
  <2> QED BY <2>1 DEF TypeOK
<1>p. Taken \in Nat /\ Taken <= Len(accepted) /\ DOMAIN accepted = 1..Len(accepted)
  BY Positions DEF Position
<1>q. Taken <= Taken' /\ Taken' \in Nat
  <2>1. Position'
    BY <1>t, Positions, PTL
  <2> QED BY <2>1, Progress DEF Position
<1>f. Len(file) \in Nat /\ DOMAIN file = 1..Len(file)
  BY FileShape
\* A record in the file keeps its position, and has no other.
<1>k. ASSUME NEW i \in DOMAIN file
      PROVE  \E p \in 1..Taken : /\ accepted[p] = file[i].rec /\ p \in 1..Taken'
                                 /\ accepted'[p] = file[i].rec
                                 /\ \A q \in DOMAIN accepted' : accepted'[q] = file[i].rec => q = p
  <2>1. PICK p \in 1..Taken : accepted[p] = file[i].rec
    BY DEF OrderInv
  <2>2. p \in 1..Len(accepted) /\ p \in 1..Taken' /\ p \in DOMAIN accepted'
    BY <1>a, <1>p, <1>q, <1>t
  <2>3. accepted'[p] = file[i].rec
    BY <1>a, <2>1, <2>2
  <2>4. \A q \in DOMAIN accepted' : accepted'[q] = file[i].rec => q = p
    BY <1>t, <2>2, <2>3 DEF QueueInv
  <2> QED BY <2>1, <2>2, <2>3, <2>4
<1>o. ASSUME NEW i \in DOMAIN file, NEW j \in DOMAIN file, i < j,
             file[i].part = "head", file[j].part = "head",
             NEW p \in DOMAIN accepted', NEW q \in DOMAIN accepted',
             accepted'[p] = file[i].rec, accepted'[q] = file[j].rec
      PROVE  p < q
  <2>1. p \in 1..Taken /\ accepted[p] = file[i].rec
    BY <1>k, <1>o
  <2>2. q \in 1..Taken /\ accepted[q] = file[j].rec
    BY <1>k, <1>o
  <2>3. p \in DOMAIN accepted /\ q \in DOMAIN accepted
    BY <1>p, <2>1, <2>2
  <2> QED BY <1>o, <2>1, <2>2, <2>3 DEF OrderInv
<1>1. CASE file' = file
  BY <1>1, <1>k, <1>o DEF OrderInv
<1>2. ASSUME NEW n \in 1..3, write_some(n) PROVE OrderInv'
  <2>1. /\ rest # <<>> /\ Len(file') = Len(file) + n
        /\ \A i \in 1..Len(file) : file'[i] = file[i]
        /\ \A k \in 1..n : file'[Len(file) + k] = Piece(Cur, PartAt(Out + k))
    BY <1>2, WriteShape
  <2>2. DOMAIN file' = 1..(Len(file) + n)
    <3>1. file' \in Seq(Pieces)
      BY <1>2, WriteShape
    <3> QED BY <2>1, <3>1
  <2>3. Out \in 0..2
    BY <2>1, RestShape
  <2>4. Taken' = Taken /\ accepted' = accepted
    BY <1>2 DEF write_some, Taken
  <2>5. Taken \in 1..Len(accepted) /\ Cur = accepted[Taken]
    BY <1>p, <2>1 DEF QueueInv
  <2>6. ASSUME NEW i \in DOMAIN file', i \notin 1..Len(file)
        PROVE  /\ file'[i].rec = Cur
               /\ file'[i].part = "head" => Out = 0 /\ i = Len(file) + 1
    <3>1. PICK k \in 1..n : i = Len(file) + k
      <4>1. i - Len(file) \in 1..n /\ i = Len(file) + (i - Len(file))
        BY <1>f, <2>2, <2>6
      <4> QED BY <4>1
    <3>2. file'[i] = Piece(Cur, PartAt(Out + k))
      BY <2>1, <3>1
    <3>3. file'[i].part = "head" => Out + k = 1
      BY <3>2 DEF Piece, PartAt
    <3>4. Out + k = 1 => Out = 0 /\ k = 1
      BY <2>3
    <3> QED BY <3>1, <3>2, <3>3, <3>4 DEF Piece
  <2>7. ASSUME NEW i \in DOMAIN file' PROVE \E p \in 1..Taken' : accepted'[p] = file'[i].rec
    <3>1. CASE i \in 1..Len(file)
      BY <1>f, <1>k, <2>1, <3>1
    <3>2. CASE i \notin 1..Len(file)
      <4>1. Taken \in 1..Taken'
        BY <1>p, <2>4, <2>5
      <4> QED BY <2>4, <2>5, <2>6, <3>2, <4>1
    <3> QED BY <3>1, <3>2
  <2>8. ASSUME NEW i \in DOMAIN file', NEW j \in DOMAIN file', i < j,
               file'[i].part = "head", file'[j].part = "head",
               NEW p \in DOMAIN accepted', NEW q \in DOMAIN accepted',
               accepted'[p] = file'[i].rec, accepted'[q] = file'[j].rec
        PROVE  p < q
    <3>1. CASE j \in 1..Len(file)
      <4>1. i \in 1..Len(file)
        BY <1>f, <2>2, <2>8, <3>1
      <4>2. file'[i] = file[i] /\ file'[j] = file[j] /\ i \in DOMAIN file /\ j \in DOMAIN file
        BY <1>f, <2>1, <3>1, <4>1
      <4> QED BY <1>o, <2>8, <4>2
    <3>2. CASE j \notin 1..Len(file)
      <4>1. file'[j].rec = Cur /\ Out = 0 /\ j = Len(file) + 1
        BY <2>6, <2>8, <3>2
      <4>2. i \in 1..Len(file) /\ i \in DOMAIN file
        BY <1>f, <2>2, <2>8, <4>1
      <4>3. file'[i] = file[i]
        BY <2>1, <4>2
      <4>4. file[i].rec # Cur
        <5>1. i \in 1..(Len(file) - Out)
          BY <1>f, <4>1, <4>2
        <5> QED BY <2>1, <5>1 DEF CurrentInv
      <4>5. q = Taken
        BY <1>p, <2>4, <2>5, <2>8, <4>1 DEF QueueInv
      <4>6. p \in 1..Taken /\ p # Taken
        BY <1>k, <2>4, <2>5, <2>8, <4>2, <4>3, <4>4
      <4> QED BY <1>p, <4>5, <4>6
    <3> QED BY <3>1, <3>2
  <2> QED BY <2>7, <2>8 DEF OrderInv
<1>3. CASE ~\E n \in 1..3 : write_some(n)
  <2>1. file' = file
    BY <1>3, Steps DEF write_fail, write_loop_recv, Die
  <2> QED BY <1>1, <2>1
<1> QED BY <1>2, <1>3

\* Every action keeps what the file holds of the current line.
LEMMA CurrentStep == TypeOK /\ QueueInv /\ OrderInv /\ CurrentInv /\ [Next]_vars => CurrentInv'
<1> SUFFICES ASSUME TypeOK, QueueInv, OrderInv, CurrentInv, [Next]_vars, rest' # <<>>
             PROVE  /\ Out' <= Len(file')
                    /\ \A k \in 1..Out' : file'[Len(file') - Out' + k] = Piece(Cur', PartAt(k))
                    /\ \A i \in 1..(Len(file') - Out') : file'[i].rec # Cur'
  BY DEF CurrentInv
<1>f. Len(file) \in Nat /\ DOMAIN file = 1..Len(file)
  BY FileShape
<1>1. ASSUME NEW n \in 1..3, write_some(n)
      PROVE  /\ Out' <= Len(file')
             /\ \A k \in 1..Out' : file'[Len(file') - Out' + k] = Piece(Cur', PartAt(k))
             /\ \A i \in 1..(Len(file') - Out') : file'[i].rec # Cur'
  <2>1. /\ Len(file) - Out \in Nat /\ Out \in 0..2 /\ Out + n \in 1..3
        /\ Len(file') = (Len(file) - Out) + (Out + n)
        /\ \A i \in 1..(Len(file) - Out) : file'[i] = file[i] /\ file[i].rec # Cur
        /\ \A k \in 1..(Out + n) : file'[(Len(file) - Out) + k] = Piece(Cur, PartAt(k))
    BY <1>1, CurrentLine
  <2>2. /\ rest # <<>> /\ n \in 1..Len(rest) /\ Len(rest') = Len(rest) - n
        /\ n = Len(rest) => rest' = <<>>
        /\ n < Len(rest) => Cur' = Cur
    BY <1>1, WriteShape
  <2>3. Len(rest) \in 1..3 /\ Out = 3 - Len(rest)
    BY <2>2, RestShape
  <2>4. Cur' = Cur
    BY <2>2, <2>3
  <2>5. Out' = Out + n
    <3>1. Out' = 3 - Len(rest')
      BY DEF Out
    <3> QED BY <2>2, <2>3, <3>1
  <2>6. PICK base \in Nat, m \in 1..3 : base = Len(file) - Out /\ m = Out + n
    BY <2>1
  <2>7. Len(file') = base + m /\ Out' = m
    BY <2>1, <2>5, <2>6
  <2>8. Len(file') - Out' = base /\ Out' <= Len(file')
    BY <2>7
  <2> QED BY <2>1, <2>4, <2>6, <2>7, <2>8
<1>2. CASE write_loop_recv
  <2>1. /\ Len(queue) \in Nat \ {0} /\ Head(queue) = queue[1]
        /\ Len(rest') = 3 /\ Cur' = Head(queue)
    BY <1>2, RecvShape
  <2>2. Out' = 0 /\ file' = file
    BY <1>2, <2>1 DEF Out, write_loop_recv
  <2>3. Position
    BY Positions
  <2>4. /\ Taken + 1 \in 1..Len(accepted) /\ Cur' = accepted[Taken + 1]
        /\ DOMAIN accepted = 1..Len(accepted) /\ Taken \in Nat
    <3>1. queue[1] = accepted[Taken + 1]
      BY <2>1 DEF QueueInv
    <3>2. Len(accepted) \in Nat /\ Taken \in Nat /\ Taken = Len(accepted) - Len(queue)
          /\ DOMAIN accepted = 1..Len(accepted)
      BY <2>3 DEF Position, Taken
    <3> QED BY <2>1, <3>1, <3>2
  <2>5. ASSUME NEW i \in 1..Len(file) PROVE file[i].rec # Cur'
    <3>1. PICK p \in 1..Taken : accepted[p] = file[i].rec
      BY <1>f DEF OrderInv
    <3>2. p \in DOMAIN accepted /\ p # Taken + 1
      BY <2>4
    <3> QED BY <2>4, <3>1, <3>2 DEF QueueInv
  <2> QED BY <1>f, <2>2, <2>5
<1>3. CASE write_fail \/ Die
  BY <1>3 DEF write_fail, Die, AfterFail
<1>4. CASE rest' = rest /\ file' = file
  BY <1>4 DEF CurrentInv, Cur, Out
<1> QED BY <1>1, <1>2, <1>3, <1>4, Steps

\* Every action keeps the lines of the written records whole.
LEMMA WholeStep ==
    TypeOK /\ QueueInv /\ SettledInv /\ CurrentInv /\ WholeInv /\ [Next]_vars => WholeInv'
<1> SUFFICES ASSUME TypeOK, QueueInv, SettledInv, CurrentInv, WholeInv, [Next]_vars
             PROVE  WholeInv'
  OBVIOUS
<1>f. Len(file) \in Nat /\ DOMAIN file = 1..Len(file)
  BY FileShape
<1>1. ASSUME NEW n \in 1..3, write_some(n) PROVE WholeInv'
  <2>1. /\ Len(file) - Out \in Nat /\ Out \in 0..2 /\ Out + n \in 1..3
        /\ Len(file') = (Len(file) - Out) + (Out + n)
        /\ \A i \in 1..(Len(file) - Out) : file'[i] = file[i] /\ file[i].rec # Cur
        /\ \A k \in 1..(Out + n) : file'[(Len(file) - Out) + k] = Piece(Cur, PartAt(k))
    BY <1>1, CurrentLine
  <2>a. /\ rest # <<>> /\ n \in 1..Len(rest) /\ Len(file') = Len(file) + n
        /\ file' \in Seq(Pieces)
        /\ \A i \in 1..Len(file) : file'[i] = file[i]
        /\ \A k \in 1..n : file'[Len(file) + k] = Piece(Cur, PartAt(Out + k))
    BY <1>1, WriteShape
  <2>b. DOMAIN file' = 1..Len(file')
    <3>1. file' \in Seq(Pieces)
      BY <2>a
    <3> QED BY <3>1
  <2>2. /\ rest # <<>> /\ n \in 1..Len(rest) /\ Len(file') = Len(file) + n
        /\ DOMAIN file' = 1..Len(file')
        /\ \A i \in 1..Len(file) : file'[i] = file[i]
        /\ \A k \in 1..n : file'[Len(file) + k] = Piece(Cur, PartAt(Out + k))
    BY <2>a, <2>b
  <2>3. Len(rest) \in 1..3 /\ Out = 3 - Len(rest)
    BY <2>2, RestShape
  <2>4. Cur \notin written
    BY <2>2, CurrentUnsettled
  <2>5. ASSUME NEW r \in written PROVE \E i \in DOMAIN file' : WholeAt(r, i)'
    <3>1. PICK i \in DOMAIN file : WholeAt(r, i)
      BY DEF WholeInv
    <3>2. i \in 1..Len(file) /\ i + 1 \in 1..Len(file) /\ i + 2 \in 1..Len(file)
      BY <1>f, <3>1 DEF WholeAt
    <3>3. i + 2 <= Len(file') /\ i \in DOMAIN file'
      BY <1>f, <2>2, <3>2
    <3>4. ASSUME NEW j \in DOMAIN file', file'[j].rec = r PROVE j \in i..(i + 2)
      <4>1. CASE j \in 1..Len(file)
        BY <1>f, <2>2, <3>1, <3>4, <4>1 DEF WholeAt
      <4>2. CASE j \notin 1..Len(file)
        <5>1. j - Len(file) \in 1..n /\ j = Len(file) + (j - Len(file))
          BY <1>f, <2>2, <4>2
        <5>2. file'[j] = Piece(Cur, PartAt(Out + (j - Len(file))))
          BY <2>2, <5>1
        <5>3. file'[j].rec = Cur
          BY <5>2 DEF Piece
        <5> QED BY <2>4, <3>4, <5>3
      <4> QED BY <4>1, <4>2
    <3>5. /\ file'[i] = Piece(r, "head") /\ file'[i + 1] = Piece(r, "tail")
          /\ file'[i + 2] = Piece(r, "nl")
      BY <2>2, <3>1, <3>2 DEF WholeAt
    <3> QED BY <3>3, <3>4, <3>5 DEF WholeAt
  <2>6. ASSUME NEW c, c = Cur, n = Len(rest) PROVE \E i \in DOMAIN file' : WholeAt(c, i)'
    <3>1. PICK base \in Nat : base = Len(file) - Out
      BY <2>1
    <3>2. Out + n = 3
      BY <2>3, <2>6
    <3>3. Len(file') = base + 3
      BY <2>1, <3>1, <3>2
    <3>4. \A k \in 1..3 : file'[base + k] = Piece(c, PartAt(k))
      BY <2>1, <2>6, <3>1, <3>2
    <3>5. /\ file'[base + 1] = Piece(c, "head") /\ file'[base + 2] = Piece(c, "tail")
          /\ file'[base + 3] = Piece(c, "nl")
      BY <3>4 DEF PartAt
    <3>6. /\ base + 1 \in DOMAIN file' /\ (base + 1) + 1 = base + 2 /\ (base + 1) + 2 = base + 3
          /\ (base + 1) + 2 <= Len(file')
      BY <2>2, <3>3
    <3>7. ASSUME NEW j \in DOMAIN file', file'[j].rec = c PROVE j \in (base + 1)..(base + 3)
      <4>1. j \in 1..(base + 3)
        BY <2>2, <3>3
      <4>2. j \notin 1..base
        BY <2>1, <2>6, <3>1, <3>7
      <4> QED BY <4>1, <4>2
    <3>8. WholeAt(c, base + 1)'
      BY <3>5, <3>6, <3>7 DEF WholeAt
    <3> QED BY <3>6, <3>8
  <2>7. written' = IF n = Len(rest) THEN written \cup {Cur} ELSE written
    BY <1>1 DEF write_some, Cur
  <2> QED BY <2>5, <2>6, <2>7 DEF WholeInv
<1>2. CASE ~\E n \in 1..3 : write_some(n)
  <2>1. file' = file /\ written' = written
    BY <1>2, Steps DEF write_fail, write_loop_recv, Die
  <2> QED BY <2>1 DEF WholeInv, WholeAt
<1> QED BY <1>1, <1>2

\* Every action keeps the pieces of a line together.
LEMMA ChainStep == TypeOK /\ CurrentInv /\ QueueInv /\ ChainInv /\ [Next]_vars => ChainInv'
<1> SUFFICES ASSUME TypeOK, CurrentInv, QueueInv, ChainInv, [Next]_vars PROVE ChainInv'
  OBVIOUS
<1>f. Len(file) \in Nat /\ DOMAIN file = 1..Len(file)
  BY FileShape
<1>1. ASSUME NEW n \in 1..3, write_some(n) PROVE ChainInv'
  <2>1. /\ Len(file) - Out \in Nat /\ Out \in 0..2 /\ Out + n \in 1..3
        /\ Len(file') = (Len(file) - Out) + (Out + n)
        /\ \A i \in 1..(Len(file) - Out) : file'[i] = file[i] /\ file[i].rec # Cur
        /\ \A k \in 1..(Out + n) : file'[(Len(file) - Out) + k] = Piece(Cur, PartAt(k))
    BY <1>1, CurrentLine
  <2>2. DOMAIN file' = 1..Len(file')
    <3>1. file' \in Seq(Pieces)
      BY <1>1, WriteShape
    <3> QED BY <3>1
  <2>3. PICK base \in Nat, m \in 1..3 : base = Len(file) - Out /\ m = Out + n
    BY <2>1
  <2>4. /\ Len(file') = base + m /\ base <= Len(file)
        /\ \A i \in 1..base : file'[i] = file[i]
        /\ \A k \in 1..m : file'[base + k] = Piece(Cur, PartAt(k))
    <3>1. PICK o \in 0..2 : o = Out
      BY <2>1
    <3>2. base <= Len(file)
      BY <1>f, <2>3, <3>1
    <3> QED BY <2>1, <2>3, <3>2
  <2>5. ASSUME NEW i \in 1..(base + m)
        PROVE  /\ file'[i].part = "tail" => i > 1 /\ file'[i - 1] = Piece(file'[i].rec, "head")
               /\ file'[i].part = "nl" => i > 1 /\ file'[i - 1] = Piece(file'[i].rec, "tail")
    <3>1. CASE i \in 1..base
      <4>1. i \in DOMAIN file /\ file'[i] = file[i]
        BY <1>f, <2>4, <3>1
      <4>2. i > 1 => file'[i - 1] = file[i - 1]
        <5>1. i > 1 => i - 1 \in 1..base
          BY <3>1
        <5> QED BY <2>4, <5>1
      <4> QED BY <4>1, <4>2 DEF ChainInv
    <3>2. CASE i \notin 1..base
      <4>1. PICK k \in 1..m : i = base + k
        <5>1. i - base \in 1..m /\ i = base + (i - base)
          BY <3>2
        <5> QED BY <5>1
      <4>2. file'[i] = Piece(Cur, PartAt(k)) /\ file'[i].rec = Cur /\ file'[i].part = PartAt(k)
        BY <2>4, <4>1 DEF Piece
      <4>3. CASE k = 1
        BY <4>2, <4>3 DEF PartAt
      <4>4. CASE k = 2
        <5>1. 1 \in 1..m /\ i - 1 = base + 1 /\ i > 1
          BY <4>1, <4>4
        <5>2. file'[i - 1] = Piece(Cur, "head")
          BY <2>4, <5>1 DEF PartAt
        <5> QED BY <4>2, <4>4, <5>1, <5>2 DEF PartAt
      <4>5. CASE k = 3
        <5>1. 2 \in 1..m /\ i - 1 = base + 2 /\ i > 1
          BY <4>1, <4>5
        <5>2. file'[i - 1] = Piece(Cur, "tail")
          BY <2>4, <5>1 DEF PartAt
        <5> QED BY <4>2, <4>5, <5>1, <5>2 DEF PartAt
      <4>6. k = 1 \/ k = 2 \/ k = 3
        OBVIOUS
      <4> QED BY <4>3, <4>4, <4>5, <4>6
    <3> QED BY <3>1, <3>2
  <2> QED BY <2>2, <2>4, <2>5 DEF ChainInv
<1>2. CASE ~\E n \in 1..3 : write_some(n)
  <2>1. file' = file
    BY <1>2, Steps DEF write_fail, write_loop_recv, Die
  <2> QED BY <2>1 DEF ChainInv
<1> QED BY <1>1, <1>2

\* The breaks before the part of a line that ends s: a piece other than a newline that
\* is followed by a head or by that part, which begins with one.
Before(s, base) ==
    {i \in 1..base : s[i].part # "nl" /\ (i = base \/ s[i + 1].part = "head")}

\* The first m pieces of a line at the end of a file add a break unless they are all.
LEMMA BreaksAtEnd ==
    ASSUME NEW s, NEW base \in Nat, NEW m \in 0..3, NEW c, Len(s) = base + m,
           \A k \in 1..m : s[base + k] = Piece(c, PartAt(k))
    PROVE  Breaks(s) = IF m \in 1..2 THEN Before(s, base) \cup {base + m} ELSE Before(s, base)
<1>1. ASSUME NEW i \in 1..base PROVE i \in Breaks(s) <=> i \in Before(s, base)
  <2>1. i \in 1..Len(s) /\ (i = Len(s) => i = base /\ m = 0)
    OBVIOUS
  <2>2. CASE i < base
    BY <2>1, <2>2 DEF Breaks, Before
  <2>3. CASE i = base /\ m = 0
    BY <2>1, <2>3 DEF Breaks, Before
  <2>4. CASE i = base /\ m > 0
    <3>1. s[i + 1] = Piece(c, "head")
      <4>1. 1 \in 1..m /\ i + 1 = base + 1
        BY <2>4
      <4> QED BY <4>1 DEF PartAt
    <3>2. s[i + 1].part = "head"
      BY <3>1 DEF Piece
    <3> QED BY <2>1, <2>4, <3>2 DEF Breaks, Before
  <2> QED BY <2>2, <2>3, <2>4
<1>2. ASSUME NEW k \in 1..m PROVE base + k \in Breaks(s) <=> k = m /\ m \in 1..2
  <2>1. base + k \in 1..Len(s) /\ (base + k = Len(s) <=> k = m) /\ base + k + 1 = base + (k + 1)
    OBVIOUS
  <2>2. s[base + k].part = PartAt(k)
    <3>1. s[base + k] = Piece(c, PartAt(k))
      OBVIOUS
    <3> QED BY <3>1 DEF Piece
  <2>3. CASE k = m
    <3>1. s[base + k].part # "nl" <=> m \in 1..2
      BY <2>2, <2>3 DEF PartAt
    <3> QED BY <2>1, <2>3, <3>1 DEF Breaks
  <2>4. CASE k # m
    <3>1. k + 1 \in 1..m /\ k + 1 # 1
      BY <2>4
    <3>2. s[base + (k + 1)].part = PartAt(k + 1)
      <4>1. s[base + (k + 1)] = Piece(c, PartAt(k + 1))
        BY <3>1
      <4> QED BY <4>1 DEF Piece
    <3>3. s[base + (k + 1)].part # "head"
      BY <3>1, <3>2 DEF PartAt
    <3> QED BY <2>1, <2>4, <3>3 DEF Breaks
  <2> QED BY <2>3, <2>4
<1>3. \A i \in Breaks(s) : i \in 1..base \/ \E k \in 1..m : i = base + k
  <2> SUFFICES ASSUME NEW i \in Breaks(s), i \notin 1..base PROVE \E k \in 1..m : i = base + k
    OBVIOUS
  <2>1. i \in 1..(base + m)
    BY DEF Breaks
  <2>2. i - base \in 1..m /\ i = base + (i - base)
    BY <2>1
  <2> QED BY <2>2
<1>4. Before(s, base) \subseteq 1..base
  BY DEF Before
<1>5. m \in 1..2 => m \in 1..m
  OBVIOUS
<1>6. CASE m \in 1..2
  <2>1. base + m \in Breaks(s)
    BY <1>2, <1>5, <1>6
  <2>2. Breaks(s) \subseteq Before(s, base) \cup {base + m}
    <3> SUFFICES ASSUME NEW i \in Breaks(s), i \notin 1..base PROVE i = base + m
      BY <1>1
    <3>1. PICK k \in 1..m : i = base + k
      BY <1>3
    <3> QED BY <1>2, <3>1
  <2>3. Before(s, base) \subseteq Breaks(s)
    BY <1>1, <1>4
  <2>4. Breaks(s) = Before(s, base) \cup {base + m}
    BY <2>1, <2>2, <2>3
  <2> QED BY <1>6, <2>4
<1>7. CASE m \notin 1..2
  <2>1. Breaks(s) \subseteq Before(s, base)
    <3> SUFFICES ASSUME NEW i \in Breaks(s), i \notin 1..base PROVE FALSE
      BY <1>1
    <3>1. PICK k \in 1..m : i = base + k
      BY <1>3
    <3> QED BY <1>2, <1>7, <3>1
  <2>2. Before(s, base) \subseteq Breaks(s)
    BY <1>1, <1>4
  <2>3. Breaks(s) = Before(s, base)
    BY <2>1, <2>2
  <2> QED BY <1>7, <2>3
<1> QED BY <1>6, <1>7

\* There are finitely many breaks.
LEMMA BreaksFinite ==
    ASSUME NEW s, NEW base \in Nat
    PROVE  IsFiniteSet(Before(s, base)) /\ Cardinality(Before(s, base)) \in Nat
<1>1. IsFiniteSet(1..base)
  BY FS_Interval
<1>2. Before(s, base) \in SUBSET (1..base)
  BY DEF Before
<1>3. IsFiniteSet(Before(s, base))
  BY <1>1, <1>2, FS_Subset
<1> QED BY <1>3, FS_CardinalityType

\* Every action keeps the count of torn lines.
LEMMA BreakStep ==
    TypeOK /\ QueueInv /\ CurrentInv /\ BreakInv /\ [Next]_vars => BreakInv'
<1> SUFFICES ASSUME TypeOK, QueueInv, CurrentInv, BreakInv, [Next]_vars PROVE BreakInv'
  OBVIOUS
<1>f. Len(file) \in Nat
  BY FileShape
<1>1. ASSUME NEW n \in 1..3, write_some(n) PROVE BreakInv'
  <2>1. /\ Len(file) - Out \in Nat /\ Out \in 0..2 /\ Out + n \in 1..3
        /\ Len(file') = (Len(file) - Out) + (Out + n)
        /\ \A i \in 1..(Len(file) - Out) : file'[i] = file[i] /\ file[i].rec # Cur
        /\ \A k \in 1..(Out + n) : file'[(Len(file) - Out) + k] = Piece(Cur, PartAt(k))
    BY <1>1, CurrentLine
  <2>2. /\ rest # <<>> /\ n \in 1..Len(rest) /\ Len(rest') = Len(rest) - n
        /\ n = Len(rest) => rest' = <<>>
        /\ n < Len(rest) => rest' # <<>>
    BY <1>1, WriteShape
  <2>3. Len(rest) \in 1..3 /\ Out = 3 - Len(rest)
    BY <2>2, RestShape
  <2>4. PICK base \in Nat, o \in 0..2, m \in 1..3, l \in 1..3 :
            base = Len(file) - Out /\ o = Out /\ m = Out + n /\ l = Len(rest)
    BY <2>1, <2>3
  <2>5. m = o + n /\ o = 3 - l /\ Len(file) = base + o /\ Len(file') = base + m
    <3>1. base = Len(file) - o /\ m = o + n /\ o = 3 - l
      BY <2>3, <2>4
    <3>2. Len(file) = base + o
      BY <1>f, <3>1
    <3>3. Len(file') = base + m
      BY <2>1, <2>4
    <3> QED BY <3>1, <3>2, <3>3
  <2>6. \A k \in 1..o : file[base + k] = Piece(Cur, PartAt(k))
    BY <2>2, <2>4 DEF CurrentInv
  <2>7. \A k \in 1..m : file'[base + k] = Piece(Cur, PartAt(k))
    BY <2>1, <2>4
  <2>8. Before(file', base) = Before(file, base)
    <3>1. \A i \in 1..base : file'[i] = file[i]
      BY <2>1, <2>4
    <3>2. \A i \in 1..base : i # base => i + 1 \in 1..base
      OBVIOUS
    <3> QED BY <3>1, <3>2 DEF Before
  <2> DEFINE B == Before(file, base)
  <2>9. Breaks(file) = IF o \in 1..2 THEN B \cup {base + o} ELSE B
    <3>1. o \in 0..3
      OBVIOUS
    <3>2. Len(file) = base + o
      BY <2>5
    <3> HIDE DEF B
    <3>3. Breaks(file) = IF o \in 1..2 THEN Before(file, base) \cup {base + o}
                         ELSE Before(file, base)
      BY <2>6, <3>1, <3>2, BreaksAtEnd
    <3> QED BY <3>3 DEF B
  <2>10. Breaks(file') = IF m \in 1..2 THEN B \cup {base + m} ELSE B
    BY <2>5, <2>7, <2>8, BreaksAtEnd
  <2>11. /\ IsFiniteSet(B) /\ Cardinality(B) \in Nat
         /\ Cardinality(B \cup {base + o}) = IF base + o \in B THEN Cardinality(B) ELSE Cardinality(B) + 1
         /\ Cardinality(B \cup {base + m}) = IF base + m \in B THEN Cardinality(B) ELSE Cardinality(B) + 1
    BY BreaksFinite, FS_AddElement
  <2>12. base + m \notin B /\ (o \in 1..2 => base + o \notin B)
    BY DEF Before
  <2>13. Cardinality(Breaks(file)) = Cardinality(B) + IF o \in 1..2 THEN 1 ELSE 0
    <3> HIDE DEF B
    <3> QED BY <2>9, <2>11, <2>12
  <2>14. Cardinality(Breaks(file')) = Cardinality(B) + IF m \in 1..2 THEN 1 ELSE 0
    <3> HIDE DEF B
    <3> QED BY <2>10, <2>11, <2>12
  <2>15. Torn = IF o \in 1..2 THEN 1 ELSE 0
    BY <2>2, <2>4, <2>5 DEF Torn
  <2>16. Torn' = IF m \in 1..2 THEN 1 ELSE 0
    <3>1. Torn' = IF rest' # <<>> /\ Len(rest') < 3 THEN 1 ELSE 0
      BY DEF Torn
    <3>2. Len(rest') = l - n /\ (rest' # <<>> <=> n < l) /\ n <= l
      BY <2>2, <2>4
    <3>3. l - n < 3 /\ (n < l <=> m \in 1..2)
      BY <2>5, <3>2
    <3> QED BY <3>1, <3>2, <3>3
  <2>17. tears' = tears /\ tears \in Nat
    BY <1>1 DEF write_some, TypeOK
  <2>18. Cardinality(B) = tears
    <3> HIDE DEF B
    <3> QED BY <2>11, <2>13, <2>15, <2>17 DEF BreakInv
  <2> HIDE DEF B
  <2> QED BY <2>14, <2>16, <2>17, <2>18 DEF BreakInv
<1>2. CASE write_fail \/ Die
  <2>1. file' = file /\ tears' = tears + Torn /\ rest' = <<>>
    BY <1>2 DEF write_fail, Die, AfterFail
  <2>2. Torn' = 0
    BY <2>1 DEF Torn
  <2>3. tears \in Nat /\ Torn \in Nat
    BY DEF TypeOK, Torn
  <2> QED BY <2>1, <2>2, <2>3 DEF BreakInv
<1>3. CASE write_loop_recv
  <2>1. file' = file /\ tears' = tears /\ rest = <<>> /\ Len(rest') = 3
    BY <1>3, RecvShape DEF write_loop_recv
  <2>2. Torn' = 0 /\ Torn = 0
    BY <2>1 DEF Torn
  <2> QED BY <2>1, <2>2 DEF BreakInv
<1>4. CASE rest' = rest /\ file' = file /\ tears' = tears
  BY <1>4 DEF BreakInv, Torn
<1> QED BY <1>1, <1>2, <1>3, <1>4, Steps

-----------------------------------------------------------------------------
(***************************************************************************)
(* The theorems                                                            *)
(***************************************************************************)

\* The invariant holds in every state of the audit writer, over all the processes that
\* ever append to the file.
THEOREM Invariance == Spec => []WriterInv
<1>1. Init => WriterInv
  <2> SUFFICES ASSUME Init PROVE WriterInv
    OBVIOUS
  <2>1. TypeOK
    <3>1. Init => TypeOK
      BY TypeInit
    <3> QED BY <3>1
  <2>2. /\ queue = <<>> /\ rest = <<>> /\ file = <<>> /\ accepted = <<>>
        /\ written = {} /\ failed = {} /\ tears = 0
    BY DEF Init
  <2>3. /\ Len(queue) = 0 /\ Len(accepted) = 0 /\ Len(file) = 0
        /\ DOMAIN accepted = {} /\ DOMAIN file = {} /\ Taken = 0 /\ Done = 0
    <3>1. Len(queue) = 0 /\ Len(accepted) = 0 /\ Len(file) = 0
      BY <2>2, EmptyLen
    <3>2. DOMAIN accepted = 1..Len(accepted) /\ DOMAIN file = 1..Len(file)
      BY <2>1 DEF TypeOK
    <3> QED BY <2>2, <3>1, <3>2 DEF Taken, Done
  <2>4. QueueInv
    BY <2>2, <2>3 DEF QueueInv
  <2>5. SettledInv
    BY <2>2, <2>3, FS_EmptySet DEF SettledInv
  <2>6. OrderInv /\ CurrentInv /\ WholeInv /\ ChainInv
    BY <2>2, <2>3 DEF OrderInv, CurrentInv, WholeInv, ChainInv
  <2>7. BreakInv
    <3>1. Breaks(file) = {}
      BY <2>3 DEF Breaks
    <3>2. Torn = 0
      BY <2>2 DEF Torn
    <3> QED BY <2>2, <3>1, <3>2, FS_EmptySet DEF BreakInv
  <2> QED BY <2>1, <2>4, <2>5, <2>6, <2>7 DEF WriterInv
<1>2. WriterInv /\ [Next]_vars => WriterInv'
  BY TypeStep, QueueStep, SettledStep, OrderStep, CurrentStep, WholeStep, ChainStep, BreakStep
     DEF WriterInv
<1> QED BY <1>1, <1>2, PTL DEF Spec

\* While the process lives, a record the queue took is waiting, being written, written or
\* failed, and in one of these only.
THEOREM NothingLost == Spec => []NothingVanishes
<1>1. WriterInv => NothingVanishes
  <2> SUFFICES ASSUME TypeOK, QueueInv, SettledInv, kills + exits = 0
               PROVE  /\ ToSet(accepted) = ToSet(queue) \cup Current \cup written \cup failed
                      /\ Len(accepted) = Len(queue) + Cardinality(Current)
                                + Cardinality(written) + Cardinality(failed)
    BY DEF WriterInv, NothingVanishes
  <2>1. /\ Len(accepted) \in Nat /\ DOMAIN accepted = 1..Len(accepted)
        /\ Taken \in Nat /\ Taken <= Len(accepted) /\ Done \in Nat /\ Done <= Taken
        /\ rest # <<>> => Done = Taken - 1 /\ Taken \in 1..Len(accepted)
        /\ rest = <<>> => Done = Taken
    BY Positions DEF Position
  <2>2. /\ queue \in Seq(Record) /\ Len(queue) \in Nat /\ DOMAIN queue = 1..Len(queue)
        /\ Taken = Len(accepted) - Len(queue)
    BY DEF TypeOK, Taken
  <2>a. PICK a \in Nat, q \in Nat, t \in Nat :
            a = Len(accepted) /\ q = Len(queue) /\ t = Taken /\ t = a - q
    BY <2>1, <2>2
  <2>3. ToSet(accepted) = {accepted[i] : i \in 1..Len(accepted)}
        /\ ToSet(queue) = {queue[i] : i \in 1..Len(queue)}
    BY <2>1, <2>2 DEF ToSet
  <2>4. /\ \A i \in 1..Len(queue) : queue[i] = accepted[Taken + i]
        /\ rest # <<>> => Cur = accepted[Taken]
    BY DEF QueueInv
  <2>5. /\ IsFiniteSet(written) /\ IsFiniteSet(failed)
        /\ \A r \in written \cup failed : \E p \in 1..Done : accepted[p] = r
        /\ \A p \in 1..Done : accepted[p] \in written \cup failed
        /\ Done = Cardinality(written) + Cardinality(failed)
    BY DEF SettledInv
  <2>6. Current = IF rest = <<>> THEN {} ELSE {Cur}
    BY DEF Current, Cur
  <2>7. ASSUME NEW i \in 1..Len(accepted)
        PROVE  accepted[i] \in ToSet(queue) \cup Current \cup written \cup failed
    <3>1. CASE i <= Done
      BY <2>1, <2>5, <3>1
    <3>2. CASE i > Taken
      <4>1. i - Taken \in 1..Len(queue) /\ Taken + (i - Taken) = i
        <5>1. i \in 1..a /\ i > t
          BY <2>a, <3>2
        <5>2. i - t \in 1..q /\ t + (i - t) = i
          BY <2>a, <5>1
        <5> QED BY <2>a, <5>2
      <4>2. queue[i - Taken] = accepted[i]
        BY <2>4, <4>1
      <4> QED BY <2>3, <4>1, <4>2
    <3>3. CASE i > Done /\ i <= Taken
      <4>1. rest # <<>> /\ i = Taken
        BY <2>1, <3>3
      <4> QED BY <2>4, <2>6, <4>1
    <3> QED BY <2>1, <3>1, <3>2, <3>3
  <2>8. ToSet(queue) \subseteq ToSet(accepted)
    <3> SUFFICES ASSUME NEW i \in 1..Len(queue) PROVE queue[i] \in ToSet(accepted)
      BY <2>3
    <3>1. Taken + i \in 1..Len(accepted)
      <4>1. i \in 1..q
        BY <2>a
      <4>2. t + i \in 1..a
        BY <2>a, <4>1
      <4> QED BY <2>a, <4>2
    <3> QED BY <2>3, <2>4, <3>1
  <2>9. Current \subseteq ToSet(accepted)
    BY <2>1, <2>3, <2>4, <2>6
  <2>10. written \cup failed \subseteq ToSet(accepted)
    <3> SUFFICES ASSUME NEW r \in written \cup failed PROVE r \in ToSet(accepted)
      OBVIOUS
    <3>1. PICK p \in 1..Done : accepted[p] = r
      BY <2>5
    <3>2. p \in 1..Len(accepted)
      BY <2>1
    <3> QED BY <2>3, <3>1, <3>2
  <2>11. Cardinality(Current) = Taken - Done
    <3>1. CASE rest = <<>>
      <4>1. Cardinality(Current) = 0
        BY <2>6, <3>1, FS_EmptySet
      <4> QED BY <2>1, <3>1, <4>1
    <3>2. CASE rest # <<>>
      <4>1. Cardinality(Current) = 1
        BY <2>6, <3>2, FS_Singleton
      <4> QED BY <2>1, <3>2, <4>1
    <3> QED BY <3>1, <3>2
  <2>12. Len(accepted) = Len(queue) + Cardinality(Current)
                            + Cardinality(written) + Cardinality(failed)
    <3>1. Cardinality(written) \in Nat /\ Cardinality(failed) \in Nat
      BY <2>5, FS_CardinalityType
    <3> DEFINE c == Cardinality(Current)
               d == Done
               w == Cardinality(written)
               f == Cardinality(failed)
    <3>2. d \in Nat /\ w \in Nat /\ f \in Nat /\ c = t - d /\ d = w + f
      BY <2>1, <2>5, <2>11, <2>a, <3>1
    <3> HIDE DEF c, d, w, f
    <3>3. a = q + c + w + f
      BY <2>a, <3>2
    <3>4. a = Len(accepted) /\ q = Len(queue)
      BY <2>a
    <3>5. Len(accepted) = Len(queue) + c + w + f
      BY <3>3, <3>4
    <3> QED BY <3>5 DEF c, w, f
  <2>13. ToSet(accepted) = ToSet(queue) \cup Current \cup written \cup failed
    BY <2>3, <2>7, <2>8, <2>9, <2>10
  <2> QED BY <2>12, <2>13
<1> QED BY <1>1, Invariance, PTL

\* Lines stand in the file in the order the queue took their records, each once, over
\* all restarts.
THEOREM FileInOrder == Spec => []FileFollowsQueue
<1>1. WriterInv => FileFollowsQueue
  <2> SUFFICES ASSUME WriterInv, NEW i \in DOMAIN file, NEW j \in DOMAIN file, i < j,
                      file[i].part = "head", file[j].part = "head"
               PROVE  AcceptedAt(file[i].rec) < AcceptedAt(file[j].rec)
    BY DEF FileFollowsQueue
  <2>1. Position /\ TypeOK /\ QueueInv /\ OrderInv
    BY Positions DEF WriterInv
  <2>2. ASSUME NEW r, NEW p \in 1..Taken, accepted[p] = r
        PROVE  AcceptedAt(r) \in DOMAIN accepted /\ accepted[AcceptedAt(r)] = r
    <3>1. p \in DOMAIN accepted
      BY <2>1 DEF Position
    <3> QED BY <2>2, <3>1 DEF AcceptedAt
  <2>3. AcceptedAt(file[i].rec) \in DOMAIN accepted
        /\ accepted[AcceptedAt(file[i].rec)] = file[i].rec
    BY <2>1, <2>2 DEF OrderInv
  <2>4. AcceptedAt(file[j].rec) \in DOMAIN accepted
        /\ accepted[AcceptedAt(file[j].rec)] = file[j].rec
    BY <2>1, <2>2 DEF OrderInv
  <2> QED BY <2>1, <2>3, <2>4 DEF OrderInv
<1> QED BY <1>1, Invariance, PTL

\* What is appended leaves a counted line counted, unless that line is the last of the
\* file and lacks its newline.
LEMMA CountedUnderAppend ==
    ASSUME NEW s \in Seq(Pieces), NEW t \in Seq(Pieces), Len(s) <= Len(t),
           \A i \in 1..Len(s) : t[i] = s[i],
           NEW i \in CountedLines(s), i + 2 <= Len(s)
    PROVE  i \in CountedLines(t) /\ t[i].rec = s[i].rec
<1>1. /\ Len(s) \in Nat /\ Len(t) \in Nat
      /\ DOMAIN s = 1..Len(s) /\ DOMAIN t = 1..Len(t)
  OBVIOUS
<1>2. i \in 1..Len(s) /\ (i = 1 \/ s[i - 1].part = "nl") /\ Parses(s, i)
  BY <1>1 DEF CountedLines, LineStarts
<1>3. i + 1 \in 1..Len(s) /\ i + 2 \in 1..Len(s)
  BY <1>1, <1>2
<1>4. i + 1 \in DOMAIN t /\ i + 2 \in DOMAIN t /\ i \in DOMAIN t
  BY <1>1, <1>2, <1>3
<1>5. i = 1 \/ t[i - 1].part = "nl"
  <2>1. i # 1 => i - 1 \in 1..Len(s)
    BY <1>1, <1>2
  <2> QED BY <1>2, <2>1
<1>6. t[i] = s[i] /\ t[i + 1] = s[i + 1] /\ t[i + 2] = s[i + 2]
  BY <1>2, <1>3
<1>7. Parses(t, i)
  BY <1>1, <1>2, <1>3, <1>4, <1>6 DEF Parses
<1> QED BY <1>4, <1>5, <1>6, <1>7 DEF CountedLines, LineStarts

\* A record that was written to its newline and is counted stays counted.
THEOREM CountedStays == Spec => CountedSurvives
<1>1. WriterInv /\ [Next]_vars => \A r \in written : r \in Counted(file) => r \in Counted(file')
  <2> SUFFICES ASSUME WriterInv, [Next]_vars, NEW r \in written, r \in Counted(file)
               PROVE  r \in Counted(file')
    OBVIOUS
  <2>i. TypeOK /\ QueueInv /\ WholeInv
    BY DEF WriterInv
  <2>1. CASE file' = file
    BY <2>1
  <2>2. ASSUME NEW n \in 1..3, write_some(n) PROVE r \in Counted(file')
    <3>1. /\ file \in Seq(Pieces) /\ file' \in Seq(Pieces)
          /\ Len(file') = Len(file) + n /\ Len(file) \in Nat /\ DOMAIN file = 1..Len(file)
          /\ \A i \in 1..Len(file) : file'[i] = file[i]
      BY <2>i, <2>2, WriteShape, FileShape
    <3>2. Len(file) <= Len(file')
      BY <3>1
    <3>3. PICK i \in CountedLines(file) : file[i].rec = r
      BY DEF Counted
    <3>4. PICK h \in DOMAIN file : WholeAt(r, h)
      BY <2>i DEF WholeInv
    <3>5. i \in 1..Len(file) /\ i + 1 \in 1..Len(file) /\ file[i].part = "head"
          /\ file[i + 1] = Piece(r, "tail")
      BY <3>1, <3>3 DEF CountedLines, LineStarts, Parses
    <3>6. i + 2 <= Len(file)
      <4>1. i \in h..(h + 2)
        BY <3>1, <3>3, <3>4, <3>5 DEF WholeAt
      <4>2. h + 2 <= Len(file) /\ file[h + 1].part = "tail" /\ file[h + 2].part = "nl" /\ h \in Nat
        BY <3>1, <3>4 DEF WholeAt, Piece
      <4>3. i # h + 1 /\ i # h + 2
        BY <3>5, <4>2
      <4>4. i = h
        BY <4>1, <4>2, <4>3
      <4> QED BY <4>2, <4>4
    <3>7. i \in CountedLines(file') /\ file'[i].rec = file[i].rec
      BY <3>1, <3>2, <3>6, CountedUnderAppend
    <3> QED BY <3>3, <3>7 DEF Counted
  <2>3. CASE ~\E n \in 1..3 : write_some(n)
    <3>1. file' = file
      BY <2>i, <2>3, Steps DEF write_fail, write_loop_recv, Die
    <3> QED BY <2>1, <3>1
  <2> QED BY <2>2, <2>3
<1> QED BY <1>1, Invariance, PTL DEF Spec, CountedSurvives

\* The breaks that are not at the end of the file are as many as the torn lines, unless
\* the file ends in one that is not being written.
LEMMA InnerBreaks ==
    ASSUME WriterInv
    PROVE  /\ IsFiniteSet(Breaks(file) \ {Len(file)})
           /\ Cardinality(Breaks(file) \ {Len(file)}) \in Nat /\ tears \in Nat
           /\ Cardinality(Breaks(file) \ {Len(file)}) <= tears
           /\ Len(file) \in Breaks(file) /\ Torn = 0 =>
                Cardinality(Breaks(file) \ {Len(file)}) + 1 <= tears
<1>1. TypeOK /\ CurrentInv /\ BreakInv /\ tears \in Nat /\ Len(file) \in Nat
  BY FileShape DEF WriterInv, TypeOK
<1>2. IsFiniteSet(Breaks(file))
  <2>1. IsFiniteSet(1..Len(file)) /\ Breaks(file) \in SUBSET (1..Len(file))
    BY <1>1, FS_Interval DEF Breaks
  <2> QED BY <2>1, FS_Subset
<1>3. /\ IsFiniteSet(Breaks(file) \ {Len(file)})
      /\ Cardinality(Breaks(file) \ {Len(file)}) =
            IF Len(file) \in Breaks(file) THEN Cardinality(Breaks(file)) - 1
                                          ELSE Cardinality(Breaks(file))
  BY <1>2, FS_RemoveElement
<1>4. Cardinality(Breaks(file) \ {Len(file)}) \in Nat /\ Cardinality(Breaks(file)) \in Nat
  BY <1>2, <1>3, FS_CardinalityType
<1>5. Torn = 0 \/ Torn = 1
  BY DEF Torn
<1>6. Torn = 1 => Len(file) \in Breaks(file)
  <2> SUFFICES ASSUME Torn = 1 PROVE Len(file) \in Breaks(file)
    OBVIOUS
  <2>1. rest # <<>> /\ Len(rest) < 3
    BY DEF Torn
  <2>2. Len(rest) \in 1..3 /\ Out = 3 - Len(rest)
    BY <1>1, <2>1, RestShape
  <2>3. Out \in 1..2
    BY <2>1, <2>2
  <2>4. Out \in 1..Out /\ Len(file) - Out + Out = Len(file) /\ Out <= Len(file)
    BY <1>1, <2>1, <2>3 DEF CurrentInv
  <2>5. file[Len(file)] = Piece(Cur, PartAt(Out))
    BY <1>1, <2>1, <2>4 DEF CurrentInv
  <2>6. file[Len(file)].part # "nl"
    BY <2>3, <2>5 DEF Piece, PartAt
  <2>7. Len(file) \in 1..Len(file)
    BY <1>1, <2>3, <2>4
  <2> QED BY <2>6, <2>7 DEF Breaks
<1>7. Cardinality(Breaks(file)) = tears + Torn
  BY <1>1 DEF BreakInv
<1> DEFINE b == Cardinality(Breaks(file))
           c == Cardinality(Breaks(file) \ {Len(file)})
           e == Len(file) \in Breaks(file)
<1>8. /\ b \in Nat /\ c \in Nat /\ (e => c = b - 1) /\ (~e => c = b)
      /\ (Torn = 0 => b = tears) /\ (Torn = 1 => b = tears + 1)
  BY <1>1, <1>3, <1>4, <1>7
<1> HIDE DEF b, c, e
<1>9. Torn = 1 => e
  BY <1>6 DEF e
<1>10. c <= tears /\ (e /\ Torn = 0 => c + 1 <= tears)
  BY <1>1, <1>5, <1>8, <1>9
<1> QED BY <1>1, <1>3, <1>4, <1>10 DEF c, e

\* Of the records written in full, the summary misses at most one for each torn line.
THEOREM BoundedLoss == Spec => []LossIsBounded
<1>1. WriterInv => LossIsBounded
  <2> SUFFICES ASSUME WriterInv PROVE Cardinality(written \ Counted(file)) <= tears
    BY DEF LossIsBounded
  <2>i. TypeOK /\ SettledInv /\ WholeInv /\ Len(file) \in Nat /\ DOMAIN file = 1..Len(file)
    BY FileShape DEF WriterInv
  <2> DEFINE Lost == written \ Counted(file)
             B == Breaks(file) \ {Len(file)}
             At(r) == CHOOSE i \in DOMAIN file : WholeAt(r, i)
             f == [r \in Lost |-> At(r) - 1]
  <2>1. ASSUME NEW r \in Lost
        PROVE  /\ At(r) \in 1..Len(file) /\ WholeAt(r, At(r)) /\ file[At(r)] = Piece(r, "head")
               /\ At(r) - 1 \in B
    <3>1. \E i \in DOMAIN file : WholeAt(r, i)
      BY <2>i DEF WholeInv
    <3>2. At(r) \in DOMAIN file /\ WholeAt(r, At(r))
      BY <3>1
    <3>3. PICK i \in 1..Len(file) : i = At(r)
      BY <2>i, <3>2
    <3> HIDE DEF At
    <3>4. /\ WholeAt(r, i) /\ i + 1 \in DOMAIN file /\ i + 2 \in DOMAIN file
          /\ file[i] = Piece(r, "head") /\ file[i].part = "head" /\ file[i].rec = r
      <4>1. WholeAt(r, i)
        BY <3>2, <3>3
      <4>2. file[i] = Piece(r, "head") /\ i + 2 <= Len(file)
        BY <4>1 DEF WholeAt
      <4>3. i + 1 \in 1..Len(file) /\ i + 2 \in 1..Len(file)
        BY <2>i, <4>2
      <4> QED BY <2>i, <4>1, <4>2, <4>3 DEF Piece
    <3>5. Parses(file, i)
      <4>1. file[i + 1] = Piece(r, "tail") /\ file[i + 2].part = "nl"
        BY <3>4 DEF WholeAt, Piece
      <4> QED BY <3>4, <4>1 DEF Parses
    <3>6. i \notin LineStarts(file)
      <4> SUFFICES ASSUME i \in LineStarts(file) PROVE FALSE
        OBVIOUS
      <4>1. i \in CountedLines(file)
        BY <3>5 DEF CountedLines
      <4> QED BY <3>4, <4>1 DEF Counted
    <3>7. i # 1 /\ file[i - 1].part # "nl"
      BY <2>i, <3>6 DEF LineStarts
    <3>8. i - 1 \in 1..Len(file) /\ i - 1 # Len(file) /\ (i - 1) + 1 = i
      BY <2>i, <3>7
    <3>9. i - 1 \in Breaks(file)
      BY <3>4, <3>7, <3>8 DEF Breaks
    <3> QED BY <3>3, <3>4, <3>8, <3>9
  <2>2. f \in Injection(Lost, B)
    <3>1. f \in [Lost -> B]
      BY <2>1
    <3>2. ASSUME NEW r \in Lost, NEW q \in Lost, f[r] = f[q] PROVE r = q
      <4>1. PICK i \in 1..Len(file) : i = At(r) /\ file[i] = Piece(r, "head")
        BY <2>1
      <4>2. PICK j \in 1..Len(file) : j = At(q) /\ file[j] = Piece(q, "head")
        BY <2>1
      <4>3. i - 1 = j - 1
        BY <3>2, <4>1, <4>2
      <4>4. i = j
        BY <2>i, <4>3
      <4>5. Piece(r, "head").rec = r /\ Piece(q, "head").rec = q
        BY DEF Piece
      <4> QED BY <4>1, <4>2, <4>4, <4>5
    <3> HIDE DEF f, Lost, B
    <3> QED BY <3>1, <3>2 DEF Injection, IsInjective
  <2>3. /\ IsFiniteSet(B) /\ Cardinality(B) \in Nat /\ Cardinality(B) <= tears /\ tears \in Nat
    BY InnerBreaks
  <2> HIDE DEF f, Lost, B
  <2>4. IsFiniteSet(Lost) /\ Cardinality(Lost) <= Cardinality(B)
    BY <2>2, <2>3, FS_Injection
  <2>5. Cardinality(Lost) \in Nat
    BY <2>4, FS_CardinalityType
  <2>6. Cardinality(Lost) <= tears
    BY <2>3, <2>4, <2>5
  <2> QED BY <2>6 DEF Lost
<1> QED BY <1>1, Invariance, PTL

\* Lines begin with the head of a record.
LEMMA LineStartsAreHeads ==
    ASSUME WriterInv, NEW i \in LineStarts(file)
    PROVE  i \in 1..Len(file) /\ file[i].part = "head"
<1>1. /\ i \in 1..Len(file) /\ DOMAIN file = 1..Len(file)
      /\ file[i].part \in {"head", "tail", "nl"}
  BY FileShape DEF WriterInv, LineStarts
<1>2. i = 1 \/ file[i - 1].part = "nl"
  BY DEF LineStarts
<1>3. file[i].part # "tail"
  <2> SUFFICES ASSUME file[i].part = "tail" PROVE FALSE
    OBVIOUS
  <2>1. i > 1 /\ file[i - 1] = Piece(file[i].rec, "head")
    BY <1>1 DEF WriterInv, ChainInv
  <2> QED BY <1>1, <1>2, <2>1 DEF Piece
<1>4. file[i].part # "nl"
  <2> SUFFICES ASSUME file[i].part = "nl" PROVE FALSE
    OBVIOUS
  <2>1. i > 1 /\ file[i - 1] = Piece(file[i].rec, "tail")
    BY <1>1 DEF WriterInv, ChainInv
  <2> QED BY <1>1, <1>2, <2>1 DEF Piece
<1> QED BY <1>1, <1>3, <1>4

\* A line that does not parse, though a newline follows, has a break in it: after its
\* head or after its tail.
LEMMA UnparseableHasBreak ==
    ASSUME WriterInv, NEW i \in UnparseableLines(file)
    PROVE  /\ i \in LineStarts(file) /\ i + 1 \in 1..Len(file)
           /\ IF file[i + 1].part = "head" THEN i \in Breaks(file) \ {Len(file)}
              ELSE i + 1 \in Breaks(file) \ {Len(file)}
<1>1. /\ Len(file) \in Nat /\ DOMAIN file = 1..Len(file)
      /\ \A j \in 1..Len(file) : file[j].part \in {"head", "tail", "nl"}
  BY FileShape DEF WriterInv
<1>2. i \in LineStarts(file) /\ ~Parses(file, i) /\ Terminated(file, i)
  BY DEF UnparseableLines
<1>3. i \in 1..Len(file) /\ file[i].part = "head"
  BY <1>2, LineStartsAreHeads
<1>4. PICK j \in 1..Len(file) : file[j].part = "nl" /\ j >= i
  BY <1>1, <1>2 DEF Terminated, Newlines
<1>5. i + 1 \in 1..Len(file) /\ i # Len(file)
  BY <1>1, <1>3, <1>4
<1>6. CASE file[i + 1].part = "head"
  BY <1>2, <1>3, <1>5, <1>6 DEF Breaks
<1>7. CASE file[i + 1].part # "head"
  <2>1. file[i + 1].part # "nl"
    <3> SUFFICES ASSUME file[i + 1].part = "nl" PROVE FALSE
      OBVIOUS
    <3>1. file[(i + 1) - 1] = Piece(file[i + 1].rec, "tail") /\ (i + 1) - 1 = i
      BY <1>1, <1>3, <1>5 DEF WriterInv, ChainInv
    <3> QED BY <1>3, <3>1 DEF Piece
  <2>2. file[i + 1].part = "tail"
    BY <1>1, <1>5, <1>7, <2>1
  <2>3. file[i + 1] = Piece(file[i].rec, "tail")
    <3>1. file[(i + 1) - 1] = Piece(file[i + 1].rec, "head") /\ (i + 1) - 1 = i
      <4>1. \A k \in 1..Len(file) :
                file[k].part = "tail" => file[k - 1] = Piece(file[k].rec, "head")
        BY <1>1 DEF WriterInv, ChainInv
      <4>2. file[(i + 1) - 1] = Piece(file[i + 1].rec, "head")
        BY <1>5, <2>2, <4>1
      <4>3. (i + 1) - 1 = i
        BY <1>3
      <4> QED BY <4>2, <4>3
    <3>2. file[i].rec = file[i + 1].rec
      BY <3>1 DEF Piece
    <3>3. file[i + 1] \in Pieces
      BY <1>5, FileShape DEF WriterInv
    <3> QED BY <2>2, <3>2, <3>3 DEF Piece, Pieces
  <2>4. i + 2 \in DOMAIN file /\ file[i + 2].part # "nl"
    BY <1>1, <1>2, <1>3, <1>5, <2>3 DEF Parses
  <2>5. file[i + 2].part # "tail"
    <3> SUFFICES ASSUME file[i + 2].part = "tail" PROVE FALSE
      OBVIOUS
    <3>1. file[(i + 2) - 1] = Piece(file[i + 2].rec, "head") /\ (i + 2) - 1 = i + 1
      BY <1>3, <2>4 DEF WriterInv, ChainInv
    <3> QED BY <2>2, <3>1 DEF Piece
  <2>6. file[i + 2].part = "head" /\ (i + 1) + 1 = i + 2 /\ i + 1 # Len(file)
    <3>1. i + 2 \in 1..Len(file)
      BY <1>1, <2>4
    <3>2. file[i + 2].part = "head"
      BY <1>1, <2>4, <2>5, <3>1
    <3>3. (i + 1) + 1 = i + 2 /\ i + 1 # Len(file)
      <4>1. i \in Int /\ Len(file) \in Int /\ i + 2 <= Len(file)
        BY <1>1, <1>3, <3>1
      <4> QED BY <4>1
    <3> QED BY <3>2, <3>3
  <2> QED BY <1>2, <1>5, <1>7, <2>2, <2>6 DEF Breaks
<1> QED BY <1>6, <1>7

\* Every line the reader warns of stands for a torn line.
THEOREM ExplainedDamage == Spec => []DamageIsExplained
<1>1. WriterInv => DamageIsExplained
  <2> SUFFICES ASSUME WriterInv PROVE DamageIsExplained
    OBVIOUS
  <2>i. /\ Len(file) \in Nat /\ DOMAIN file = 1..Len(file)
    BY FileShape DEF WriterInv
  <2> DEFINE U == UnparseableLines(file)
             B == Breaks(file) \ {Len(file)}
             f == [i \in U |-> IF file[i + 1].part = "head" THEN i ELSE i + 1]
  <2>1. ASSUME NEW i \in U
        PROVE  /\ i \in 1..Len(file) /\ i \in LineStarts(file) /\ file[i].part = "head" /\ f[i] \in B
               /\ f[i] = i \/ f[i] = i + 1
    BY UnparseableHasBreak, LineStartsAreHeads
  <2>2. f \in Injection(U, B)
    <3>1. f \in [U -> B]
      BY <2>1
    <3>2. ASSUME NEW i \in U, NEW k \in U, i < k PROVE f[i] # f[k]
      <4>1. k # 1 /\ file[k - 1].part = "nl"
        <5>1. k \in 1..Len(file) /\ i \in 1..Len(file)
          BY <2>1
        <5> QED BY <2>1, <3>2, <5>1 DEF LineStarts
      <4>2. k # i + 1
        <5>1. i + 1 - 1 = i
          BY <2>1
        <5> QED BY <2>1, <4>1, <5>1
      <4>3. i \in 1..Len(file) /\ k \in 1..Len(file)
        BY <2>1
      <4>4. i + 1 < k
        BY <2>i, <3>2, <4>2, <4>3
      <4>5. (f[i] = i \/ f[i] = i + 1) /\ (f[k] = k \/ f[k] = k + 1)
        BY <2>1
      <4> HIDE DEF f
      <4> QED BY <2>i, <4>3, <4>4, <4>5
    <3>3. ASSUME NEW i \in U, NEW k \in U, f[i] = f[k] PROVE i = k
      <4>1. i \in Int /\ k \in Int
        BY <2>1
      <4>2. i < k \/ k < i \/ i = k
        BY <4>1
      <4> HIDE DEF f, U
      <4> QED BY <3>2, <3>3, <4>2
    <3> HIDE DEF f, U, B
    <3> QED BY <3>1, <3>3 DEF Injection, IsInjective
  <2>3. /\ IsFiniteSet(B) /\ Cardinality(B) \in Nat /\ Cardinality(B) <= tears /\ tears \in Nat
        /\ Len(file) \in Breaks(file) /\ Torn = 0 => Cardinality(B) + 1 <= tears
    BY InnerBreaks
  <2>4. IsFiniteSet(U) /\ Cardinality(U) <= Cardinality(B)
    <3> HIDE DEF f, U, B
    <3> QED BY <2>2, <2>3, FS_Injection
  <2>5. Cardinality(U) \in Nat
    <3> HIDE DEF U
    <3> QED BY <2>4, FS_CardinalityType
  <2>6. PartialTail(file) => Len(file) \in Breaks(file)
    <3> SUFFICES ASSUME PartialTail(file) PROVE Len(file) \in Breaks(file)
      OBVIOUS
    <3>1. PICK i \in LineStarts(file) : ~Terminated(file, i)
      BY DEF PartialTail
    <3>2. i \in 1..Len(file)
      BY <2>i DEF LineStarts
    <3>3. Len(file) \in 1..Len(file) /\ Len(file) >= i
      BY <2>i, <3>2
    <3>4. file[Len(file)].part # "nl"
      BY <2>i, <3>1, <3>3 DEF Terminated, Newlines
    <3> QED BY <3>3, <3>4 DEF Breaks
  <2> DEFINE u == Cardinality(U)
             b == Cardinality(B)
             last == PartialTail(file) /\ Torn = 0
  <2>7. /\ u \in Nat /\ b \in Nat /\ tears \in Nat /\ u <= b /\ b <= tears
        /\ last => b + 1 <= tears
    BY <2>3, <2>4, <2>5, <2>6
  <2> HIDE DEF u, b, last
  <2>8. u + (IF last THEN 1 ELSE 0) <= tears
    BY <2>7
  <2> QED BY <2>8 DEF DamageIsExplained, u, last
<1> QED BY <1>1, Invariance, PTL

=============================================================================
