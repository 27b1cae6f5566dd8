------------------------------- MODULE Reflow -------------------------------
(***************************************************************************)
(* reflow_line: one line of code, cut into pieces for the e-ink screen.    *)
(* The line arrives atom by atom, as the loop takes it; an atom is a run   *)
(* of blanks, or a word with its separators.  The characters behind the    *)
(* indentation are numbered, and a text is the numbers it runs through.    *)
(***************************************************************************)
EXTENDS Integers, Sequences

CONSTANTS
    Columns,     \* HUB_CODE_COLUMNS
    Indents,     \* widths of the indentation
    Widths,      \* widths of an atom
    MaxAtoms     \* bound of the exploration

ASSUME ReflowAssumption ==
    /\ Columns \in Nat
    /\ Indents \subseteq Nat /\ Widths \subseteq Nat \ {0}

VARIABLES
    indent,
    atoms,       \* how many are taken
    read,        \* the last character of them
    words,       \* those of them that are not blank: where each begins and ends
    wasBlank,    \* the last one was a run of blanks
    cur,         \* current: from its first character to the last read; the last not blank
    out,         \* the pieces: the first character of each and the last, for
                 \* one of blanks only the one before its first
    ended

reflowVars == <<indent, atoms, read, words, wasBlank, cur, out, ended>>

Greater(a, b) == IF a >= b THEN a ELSE b

FirstBudget == Greater(Columns - indent, 8)
ContBudget == Greater(Columns - indent - 4, 8)

\* Mutant: the budget is not lowered by the first flush.
BudgetOfFirst == FirstBudget

\* The first flush changes it.
Budget == IF out = <<>> THEN FirstBudget ELSE ContBudget

Atoms == [len : Widths, blank : BOOLEAN]
Spans == [from : Nat \ {0}, to : Nat]

ReflowTypeOK ==
    /\ indent \in Indents /\ atoms \in Nat /\ read \in Nat
    /\ words \in SUBSET Spans /\ out \in Seq(Spans)
    /\ cur \in [from : Nat \ {0}, last : Nat]
    /\ wasBlank \in BOOLEAN /\ ended \in BOOLEAN

ReflowInit ==
    /\ indent \in Indents
    /\ atoms = 0 /\ read = 0 /\ words = {} /\ wasBlank = TRUE
    /\ cur = [from |-> 1, last |-> 0] /\ out = <<>>
    /\ ended = FALSE

\* len(current)
Held == read - cur.from + 1

\* (prefix + current).rstrip()
Flushed == Append(out, [from |-> cur.from, to |-> cur.last])

\* The last n characters of an atom; with n = 0, nothing.
Rest(a, n) == [from |-> read + a.len - n + 1,
               last |-> IF a.blank THEN read + a.len - n ELSE read + a.len]

Takes(a) ==
    /\ ~ended /\ atoms < MaxAtoms
    /\ a.blank => ~wasBlank
    /\ atoms' = atoms + 1
    /\ read' = read + a.len
    /\ words' = IF a.blank THEN words ELSE words \cup {[from |-> read + 1, to |-> read + a.len]}
    /\ wasBlank' = a.blank
    /\ UNCHANGED <<indent, ended>>

Padding(a) == a.blank /\ Held = 0

SkipPadding(a) ==
    /\ Takes(a) /\ Padding(a)
    /\ cur' = Rest(a, 0)
    /\ UNCHANGED out

\* _hard_chunks, but for the last
FullChunks(a, width) ==
    [j \in 1..((a.len - 1) \div width) |->
        [from |-> read + (j - 1) * width + 1,
         to |-> read + (IF a.blank THEN j - 1 ELSE j) * width]]

\* current is flushed, if there is any, and an atom is cut by the budget of
\* the piece it then begins.
Before == IF Held = 0 THEN out ELSE Flushed
ChunkWidth == IF Before = <<>> THEN FirstBudget ELSE ContBudget

\* Mutant: the last chunk is dropped.
ChunksLosing(a) ==
    /\ Takes(a) /\ ~Padding(a) /\ a.len > Budget
    /\ out' = Before \o FullChunks(a, ChunkWidth)
    /\ cur' = Rest(a, 0)

\* An atom wider than the budget, so wider than ContBudget: the last of its
\* chunks is kept.
Chunks(a) ==
    /\ Takes(a) /\ ~Padding(a) /\ a.len > Budget
    /\ out' = Before \o FullChunks(a, ChunkWidth)
    /\ cur' = Rest(a, a.len - ((a.len - 1) \div ChunkWidth) * ChunkWidth)

\* The atom does not fit any more: a run of blanks ends with the piece.
Wraps(a) ==
    /\ Takes(a) /\ ~Padding(a)
    /\ a.len <= Budget /\ Held > 0 /\ Held + a.len > Budget
    /\ out' = Flushed
    /\ cur' = Rest(a, IF a.blank THEN 0 ELSE a.len)

Joins(a) ==
    /\ Takes(a) /\ ~Padding(a)
    /\ a.len <= Budget /\ (Held = 0 \/ Held + a.len <= Budget)
    /\ cur' = [from |-> cur.from, last |-> IF a.blank THEN cur.last ELSE read + a.len]
    /\ UNCHANGED out

\* The end of the line, which rstrip has left without trailing blanks: a line
\* that fits is left as it is.
EndLine ==
    /\ ~ended /\ ~wasBlank
    /\ ended' = TRUE
    /\ out' = IF indent + read <= Columns THEN <<[from |-> 1, to |-> read]>> ELSE Flushed
    /\ cur' = [from |-> read + 1, last |-> read]
    /\ UNCHANGED <<indent, atoms, read, words, wasBlank>>

ReflowNext ==
    \/ \E a \in Atoms : SkipPadding(a) \/ Chunks(a) \/ Wraps(a) \/ Joins(a)
    \/ EndLine

ReflowSpec == ReflowInit /\ [][ReflowNext]_reflowVars

-----------------------------------------------------------------------------
\* The columns of a piece, with the indentation and the mark of a continuation,
\* "  " and an arrow with a blank behind it, which rstrip takes from a piece
\* of blanks.
Wide(i) ==
    LET text == out[i].to - out[i].from + 1 IN
    IF text = 0 THEN IF i = 1 THEN 0 ELSE indent + 3
    ELSE indent + text + IF i = 1 THEN 0 ELSE 4

\* The piece is of one word that was measured by the first budget: the second
\* piece, and a word that was taken over whole to a new line, or one of those
\* that the first word of the line was cut in.
ByFirstBudget(i) ==
    \E w \in words :
        /\ w.from <= out[i].from /\ out[i].to <= w.to
        /\ w.from = 1 \/ (i = 2 /\ w = out[i])

(* No piece passes the edge of the screen, but that of one word measured   *)
(* by the first budget and continued by the narrower ones, and those of a  *)
(* line indented so far that the budget is its least of eight; none passes *)
(* by more than the four columns of a continuation.                        *)
PieceFits ==
    \A i \in DOMAIN out :
        /\ Wide(i) <= Greater(Columns, indent + 8) + 4
        /\ Wide(i) > Columns => \/ indent + (IF i = 1 THEN 8 ELSE 12) > Columns
                                \/ i > 1 /\ ByFirstBudget(i)

(* Nothing of the line is lost but blanks, and nothing is doubled: the     *)
(* pieces follow each other, and every character that is not blank is in   *)
(* one of them, or before the end of the line in the one to be.            *)
NothingLost ==
    /\ \A i, j \in DOMAIN out : i < j => out[i].to < out[j].from
    /\ \A i \in DOMAIN out : out[i].to < cur.from
    /\ \A w \in words : \A k \in w.from..w.to :
           k \in cur.from..cur.last \/ \E i \in DOMAIN out : k \in out[i].from..out[i].to
    /\ ended => cur.from > cur.last

(* A line is reflowed "into <= columns wide pieces".                       *)
PieceWithinColumns == ended => \A i \in DOMAIN out : Wide(i) <= Columns
=============================================================================
