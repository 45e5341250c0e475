----------------------------- MODULE UsageFile ------------------------------
(***************************************************************************)
(* The usage file and what the `summary` command reads in it               *)
(* (src/src/summary.rs, read_usage_file).                                  *)
(*                                                                         *)
(* The file is a sequence of pieces.  The line of record r is the three    *)
(* pieces Line(r): the first part of its JSON text, the rest of it, and    *)
(* the newline.  A write that stops short leaves a proper prefix of them,  *)
(* and pieces that share a line with pieces of another record are not the  *)
(* JSON text of any record.                                                *)
(***************************************************************************)
EXTENDS Naturals, Sequences, FiniteSets

Piece(r, part) == [rec |-> r, part |-> part]

\* Plausible bug: the newline is forgotten.
Line_unterminated(r) == <<Piece(r, "head"), Piece(r, "tail")>>

Line(r) == <<Piece(r, "head"), Piece(r, "tail"), Piece(r, "nl")>>

Newlines(file) == {i \in DOMAIN file : file[i].part = "nl"}

\* read_until stops after a newline; a line starts where the last one ended.
LineStarts(file) ==
    {i \in DOMAIN file : i = 1 \/ file[i - 1].part = "nl"}

\* The text from `start` up to a newline or the end of the file parses as a record.
Parses(file, start) ==
    /\ start + 1 \in DOMAIN file
    /\ file[start].part = "head"
    /\ file[start + 1] = Piece(file[start].rec, "tail")
    /\ start + 2 \in DOMAIN file => file[start + 2].part = "nl"

\* The lines counted by the summary: a complete final record is counted even
\* without its newline.
CountedLines(file) == {i \in LineStarts(file) : Parses(file, i)}
Counted(file) == {file[i].rec : i \in CountedLines(file)}

Terminated(file, start) == \E j \in Newlines(file) : j >= start

\* Lines reported as unparseable, and whether an unfinished tail is reported.
UnparseableLines(file) ==
    {i \in LineStarts(file) : ~Parses(file, i) /\ Terminated(file, i)}
PartialTail(file) ==
    \E i \in LineStarts(file) : ~Parses(file, i) /\ ~Terminated(file, i)
=============================================================================
