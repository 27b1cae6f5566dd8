------------------------------ MODULE ConversionProofs ----------------------
(***************************************************************************)
(* The conversion of a document: reflow_line for any width of the screen,  *)
(* indentation and line; the pictures of any document, for any number of   *)
(* builds, deaths and changes of the image files; and the sections, tables *)
(* and bar charts of any document.                                         *)
(***************************************************************************)
EXTENDS MCConversion, EnumerateProofs

USE ReflowAssumption
USE DEF reflowVars, Atoms

\* The columns of a piece of a line indented by n, and whether it is of one
\* word of ws measured by the first budget.
WideOf(n, i, p) ==
    LET text == p.to - p.from + 1 IN
    IF text = 0 THEN IF i = 1 THEN 0 ELSE n + 3
    ELSE n + text + IF i = 1 THEN 0 ELSE 4
OfFirst(i, p, ws) ==
    \E w \in ws : /\ w.from <= p.from /\ p.to <= w.to
                  /\ w.from = 1 \/ (i = 2 /\ w = p)

\* A piece is within its bounds.
PieceOK(n, i, p, ws) ==
    /\ WideOf(n, i, p) <= Greater(Columns, n + 8) + 4
    /\ WideOf(n, i, p) > Columns => \/ n + (IF i = 1 THEN 8 ELSE 12) > Columns
                                    \/ i > 1 /\ OfFirst(i, p, ws)

\* The pieces s follow each other up to the character end, each within its
\* bounds.
Well(n, s, ws, end) ==
    /\ \A i \in DOMAIN s : /\ PieceOK(n, i, s[i], ws)
                           /\ s[i].from - 1 <= s[i].to /\ s[i].to <= end
    /\ \A i, j \in DOMAIN s : i < j => s[i].to < s[j].from

\* The words ws are in the pieces s and the piece to be.
Covered(s, ws, c) ==
    \A w \in ws : \A k \in w.from..w.to :
        k \in c.from..c.last \/ \E i \in DOMAIN s : k \in s[i].from..s[i].to

\* What is kept back begins behind the pieces and ends with what is read.  It
\* is not wider than a first piece; when it is wider than a continuation, it
\* is of one word that was measured by the first budget.
CurIs ==
    /\ cur.from <= read + 1 /\ cur.from - 1 <= cur.last /\ cur.last <= read
    /\ \A w \in words : w.to <= read
    /\ ~ended /\ out = <<>> => cur.from = 1
    /\ Held <= FirstBudget
    /\ out # <<>> /\ Held > ContBudget =>
           \E w \in words :
               /\ w.to = read /\ cur.last = read /\ w.from <= cur.from
               /\ w.from = 1 \/ (w.from = cur.from /\ Len(out) = 1)
    /\ ended => cur.from > cur.last
    /\ read = 0 => wasBlank

ReflowInv ==
    /\ ReflowTypeOK /\ CurIs
    /\ Well(indent, out, words, cur.from - 1)
    /\ Covered(out, words, cur)

\* What the types say of the fields.
LEMMA Fields ==
    ASSUME ReflowTypeOK
    PROVE  /\ indent \in Indents /\ indent \in Nat /\ read \in Nat /\ atoms \in Nat
           /\ cur.from \in Nat \ {0} /\ cur.last \in Nat
           /\ out \in Seq(Spans) /\ Len(out) \in Nat /\ DOMAIN out = 1..Len(out)
           /\ \A i \in DOMAIN out : /\ out[i] \in Spans
                                   /\ out[i].from \in Nat \ {0} /\ out[i].to \in Nat
           /\ \A w \in words : w \in Spans /\ w.from \in Nat \ {0} /\ w.to \in Nat
  <1>1. out \in Seq(Spans)
    BY DEF ReflowTypeOK
  <1>2. Len(out) \in Nat /\ DOMAIN out = 1..Len(out) /\ \A i \in DOMAIN out : out[i] \in Spans
    BY <1>1
  <1>3. \A w \in words : w \in Spans
    BY DEF ReflowTypeOK
  <1>4. \A p \in Spans : p.from \in Nat \ {0} /\ p.to \in Nat
    BY DEF Spans
  <1>5. /\ indent \in Indents /\ indent \in Nat /\ read \in Nat /\ atoms \in Nat
        /\ cur.from \in Nat \ {0} /\ cur.last \in Nat
    BY DEF ReflowTypeOK
  <1> QED
    BY <1>1, <1>2, <1>3, <1>4, <1>5

\* It is what the properties say, and more.
LEMMA InvImplies == ReflowInv => PieceFits /\ NothingLost
  <1> SUFFICES ASSUME ReflowInv PROVE PieceFits /\ NothingLost
    OBVIOUS
  <1>1. PieceFits
    BY DEF ReflowInv, Well, PieceOK, WideOf, OfFirst, PieceFits, Wide, ByFirstBudget
  <1>2. \A i \in DOMAIN out : out[i].to < cur.from
    BY Fields DEF ReflowInv, Well
  <1> QED
    BY <1>1, <1>2 DEF ReflowInv, Well, Covered, CurIs, NothingLost

\* The budgets leave eight columns at least, and four more to a first piece.
LEMMA Budgets ==
    ASSUME indent \in Indents
    PROVE  /\ indent \in Nat
           /\ FirstBudget \in Nat /\ FirstBudget >= 8
           /\ ContBudget \in Nat /\ ContBudget >= 8 /\ ContBudget <= FirstBudget
           /\ indent + FirstBudget = Greater(Columns, indent + 8)
           /\ indent + 4 + ContBudget = Greater(Columns, indent + 12)
  <1>1. indent \in Nat /\ Columns \in Nat
    OBVIOUS
  <1> QED
    BY <1>1 DEF Greater, FirstBudget, ContBudget

\* A piece is within its bounds when its text is within the budget.
LEMMA FittingPiece ==
    ASSUME indent \in Indents, NEW i \in Nat \ {0}, NEW p \in Spans, NEW ws,
           p.from - 1 <= p.to, p.to - p.from + 1 <= FirstBudget,
           i > 1 /\ p.to - p.from + 1 > ContBudget => OfFirst(i, p, ws)
    PROVE  PieceOK(indent, i, p, ws)
  <1> USE Budgets
  <1>1. CASE i = 1
    BY <1>1 DEF WideOf, PieceOK, Greater, Spans
  <1>2. CASE i > 1
    BY <1>2 DEF WideOf, PieceOK, Greater, Spans
  <1> QED
    BY <1>1, <1>2

\* What is left of an atom after its full chunks is one chunk at most, and the
\* chunks lie side by side.
LEMMA LastChunk ==
    ASSUME NEW len \in Nat \ {0}, NEW width \in Nat \ {0}
    PROVE  LET full == (len - 1) \div width
           IN  /\ full \in Nat /\ full * width \in Nat
               /\ len - full * width \in 1..width
               /\ len - full * width <= len
               /\ \A i \in 1..full : /\ (i - 1) * width \in Nat
                                     /\ i * width = (i - 1) * width + width
                                     /\ i * width <= full * width
               /\ \A i, j \in 1..full : i < j => i * width <= (j - 1) * width
               /\ \A k \in 1..(full * width) :
                      \E i \in 1..full : (i - 1) * width < k /\ k <= i * width
  <1> DEFINE full == (len - 1) \div width
  <1>1. /\ full \in Int
        /\ len - 1 = full * width + ((len - 1) % width)
        /\ (len - 1) % width \in 0..(width - 1)
    BY SMT
  <1>2. full >= 0
    BY <1>1, SMT
  <1>3. full * width \in Nat
    BY <1>1, <1>2, SMT
  <1> HIDE DEF full
  <1>4. ASSUME NEW m \in Nat, NEW n \in Nat, m <= n
        PROVE  m * width \in Nat /\ n * width \in Nat /\ m * width <= n * width
    BY <1>4, SMT
  <1>5. ASSUME NEW i \in 1..full
        PROVE  (i - 1) * width \in Nat /\ i * width = (i - 1) * width + width
               /\ i * width <= full * width
    <2>1. i \in Nat /\ i - 1 \in Nat /\ i <= full /\ full \in Nat
      BY <1>1, <1>2
    <2>2. (i - 1) * width \in Nat /\ i * width <= full * width
      BY <1>4, <2>1
    <2>3. i * width = (i - 1) * width + width
      BY <2>1, SMT
    <2> QED
      BY <2>2, <2>3
  <1>6. ASSUME NEW i \in 1..full, NEW j \in 1..full, i < j
        PROVE  i * width <= (j - 1) * width
    <2>1. i \in Nat /\ j - 1 \in Nat /\ i <= j - 1
      BY <1>1, <1>2, <1>6
    <2> QED
      BY <1>4, <2>1
  <1>7. ASSUME NEW k \in 1..(full * width)
        PROVE  \E i \in 1..full : (i - 1) * width < k /\ k <= i * width
    <2> DEFINE q == (k - 1) \div width
    <2>1. /\ q \in Int /\ k \in Nat /\ k >= 1 /\ k <= full * width
          /\ k - 1 = q * width + ((k - 1) % width)
          /\ (k - 1) % width \in 0..(width - 1)
      BY <1>3, SMT
    <2>2. q >= 0
      BY <2>1, SMT
    <2> HIDE DEF q
    <2>3. q * width < k /\ k <= q * width + width /\ q * width \in Nat
      BY <2>1, <2>2, <1>4
    <2>4. (q + 1) * width = q * width + width
      BY <2>1, <2>2, SMT
    <2>5. q < full
      <3>1. CASE full <= q
        BY <1>1, <1>2, <1>3, <1>4, <2>1, <2>2, <2>3, <3>1
      <3> QED
        BY <1>1, <2>1, <3>1
    <2>6. q + 1 \in 1..full /\ (q + 1) - 1 = q
      BY <1>1, <2>1, <2>2, <2>5
    <2> QED
      BY <2>3, <2>4, <2>6
  <1> QED
    BY <1>1, <1>2, <1>3, <1>5, <1>6, <1>7, SMT DEF full

\* Nothing is cut at first.
LEMMA InitInv == ReflowInit => ReflowInv
  <1> SUFFICES ASSUME ReflowInit PROVE ReflowInv
    OBVIOUS
  <1>1. ReflowTypeOK
    <2>1. out \in Seq(Spans) /\ words \in SUBSET Spans
      BY DEF ReflowInit
    <2>2. /\ indent \in Indents /\ atoms \in Nat /\ read \in Nat
          /\ wasBlank \in BOOLEAN /\ ended \in BOOLEAN
      BY DEF ReflowInit
    <2>3. cur \in [from : Nat \ {0}, last : Nat]
      BY DEF ReflowInit
    <2> QED
      BY <2>1, <2>2, <2>3 DEF ReflowTypeOK
  <1>2. CurIs
    BY Budgets DEF ReflowInit, CurIs, Held
  <1>3. Well(indent, out, words, cur.from - 1) /\ Covered(out, words, cur)
    BY DEF ReflowInit, Well, Covered
  <1> QED
    BY <1>1, <1>2, <1>3 DEF ReflowInv

\* More words do not disturb the pieces.
LEMMA MoreWords ==
    ASSUME NEW n, NEW s, NEW ws, NEW more, ws \subseteq more,
           NEW end \in Int, NEW past \in Int, end <= past,
           \A i \in DOMAIN s : s[i].to \in Int, Well(n, s, ws, end)
    PROVE  Well(n, s, more, past)
  <1>1. \A i, p : OfFirst(i, p, ws) => OfFirst(i, p, more)
    BY DEF OfFirst
  <1>2. \A i, p : PieceOK(n, i, p, ws) => PieceOK(n, i, p, more)
    BY <1>1 DEF PieceOK
  <1> QED
    BY <1>2 DEF Well

\* What is kept back becomes a piece.
LEMMA FlushIs ==
    ASSUME ReflowInv, ~ended
    PROVE  /\ Flushed \in Seq(Spans) /\ Len(Flushed) = Len(out) + 1
           /\ Well(indent, Flushed, words, read)
           /\ \A w \in words : \A k \in w.from..w.to :
                  \E i \in DOMAIN Flushed : k \in Flushed[i].from..Flushed[i].to
  <1> DEFINE p == [from |-> cur.from, to |-> cur.last]
             n == Len(out) + 1
  <1>1. /\ out \in Seq(Spans) /\ cur.from \in Nat \ {0} /\ cur.last \in Nat /\ read \in Nat
        /\ p \in Spans /\ indent \in Indents
        /\ p.from = cur.from /\ p.to = cur.last
        /\ cur.from <= read + 1 /\ cur.from - 1 <= cur.last /\ cur.last <= read
    BY Fields DEF ReflowInv, CurIs, Spans
  <1>a. /\ DOMAIN out = 1..Len(out) /\ Len(out) \in Nat
        /\ \A i \in DOMAIN out : /\ out[i] \in Spans
                                /\ out[i].from \in Nat \ {0} /\ out[i].to \in Nat
    BY Fields DEF ReflowInv
  <1>n. /\ cur.from \in Nat /\ cur.last \in Nat /\ read \in Nat
        /\ FirstBudget \in Nat /\ ContBudget \in Nat
        /\ cur.from - 1 <= cur.last /\ cur.last <= read
        /\ Held = read - cur.from + 1 /\ Held <= FirstBudget
    BY <1>1, Budgets DEF ReflowInv, CurIs, Held
  <1>p. p.from = cur.from /\ p.to = cur.last
    OBVIOUS
  <1>c. Flushed = Append(out, p)
    BY DEF Flushed
  <1> HIDE DEF p
  <1>2. /\ Flushed \in Seq(Spans) /\ Len(Flushed) = n /\ DOMAIN Flushed = 1..n
        /\ DOMAIN out = 1..Len(out) /\ Len(out) \in Nat
        /\ \A i \in DOMAIN out : Flushed[i] = out[i] /\ out[i] \in Spans
        /\ Flushed[n] = p
    BY <1>1, <1>a, <1>c
  <1>3. PieceOK(indent, n, p, words)
    <2>1. p.from - 1 <= p.to /\ p.to - p.from + 1 <= FirstBudget
      BY <1>n, <1>p
    <2>2. ASSUME n > 1, p.to - p.from + 1 > ContBudget
          PROVE  OfFirst(n, p, words)
      <3>1. out # <<>>
        BY <1>1, <1>2, <2>2
      <3>2. Held > ContBudget
        BY <1>n, <1>p, <2>2
      <3>3. PICK w \in words : /\ w.to = read /\ cur.last = read /\ w.from <= cur.from
                               /\ w.from = 1 \/ (w.from = cur.from /\ Len(out) = 1)
        BY <3>1, <3>2 DEF ReflowInv, CurIs
      <3>4. w \in Spans
        BY DEF ReflowInv, ReflowTypeOK
      <3>5. w.from = cur.from => w = p
        BY <1>1, <3>3, <3>4 DEF Spans
      <3>6. w.from <= p.from /\ p.to <= w.to /\ (w.from = 1 \/ (n = 2 /\ w = p))
        BY <1>1, <1>2, <3>3, <3>5
      <3> QED
        BY <3>6 DEF OfFirst
    <2> QED
      <3>1. n \in Nat \ {0}
        BY <1>2
      <3> HIDE DEF n
      <3> QED
        BY <1>1, <2>1, <2>2, <3>1, FittingPiece
  <1> HIDE DEF n
  <1>4. Well(indent, Flushed, words, read)
    <2>1. \A i \in DOMAIN out : /\ PieceOK(indent, i, out[i], words)
                                /\ out[i].from - 1 <= out[i].to /\ out[i].to < cur.from
      BY <1>1, <1>a DEF ReflowInv, Well
    <2>2. p.from = cur.from /\ p.to = cur.last
      BY <1>1
    <2>3. ASSUME NEW i \in DOMAIN Flushed
          PROVE  /\ PieceOK(indent, i, Flushed[i], words)
                 /\ Flushed[i].from - 1 <= Flushed[i].to /\ Flushed[i].to <= read
      <3>1. CASE i = n
        BY <1>1, <1>2, <1>3, <2>2, <3>1
      <3>2. CASE i # n
        <4>1. i \in DOMAIN out
          BY <1>2, <3>2 DEF n
        <4> QED
          BY <1>1, <1>2, <1>a, <2>1, <4>1
      <3> QED
        BY <3>1, <3>2
    <2>4. ASSUME NEW i \in DOMAIN Flushed, NEW j \in DOMAIN Flushed, i < j
          PROVE  Flushed[i].to < Flushed[j].from
      <3>1. i \in DOMAIN out
        BY <1>2, <2>4 DEF n
      <3>2. CASE j = n
        BY <1>2, <2>1, <2>2, <3>1, <3>2
      <3>3. CASE j # n
        <4>1. j \in DOMAIN out
          BY <1>2, <3>3 DEF n
        <4> QED
          BY <1>2, <2>4, <3>1, <4>1 DEF ReflowInv, Well
      <3> QED
        BY <3>2, <3>3
    <2> QED
      BY <2>3, <2>4 DEF Well
  <1>5. ASSUME NEW w \in words, NEW k \in w.from..w.to
        PROVE  \E i \in DOMAIN Flushed : k \in Flushed[i].from..Flushed[i].to
    <2>1. CASE k \in cur.from..cur.last
      <3>1. n \in DOMAIN Flushed /\ Flushed[n].from = cur.from /\ Flushed[n].to = cur.last
        BY <1>1, <1>2 DEF n
      <3> QED
        BY <2>1, <3>1
    <2>2. CASE ~(k \in cur.from..cur.last)
      <3>1. PICK i \in DOMAIN out : k \in out[i].from..out[i].to
        BY <2>2 DEF ReflowInv, Covered
      <3>2. i \in DOMAIN Flushed /\ Flushed[i] = out[i]
        BY <1>2 DEF n
      <3> QED
        BY <3>1, <3>2
    <2> QED
      BY <2>1, <2>2
  <1> QED
    BY <1>2, <1>4, <1>5 DEF n

\* The last characters of an atom.
LEMMA RestIs ==
    ASSUME ReflowInv, NEW a \in Atoms, NEW n \in Nat, n <= a.len
    PROVE  /\ a.len \in Nat \ {0} /\ a.blank \in BOOLEAN
           /\ Rest(a, n) \in [from : Nat \ {0}, last : Nat]
           /\ Rest(a, n).from = read + a.len - n + 1
           /\ Rest(a, n).from - 1 <= Rest(a, n).last /\ Rest(a, n).last <= read + a.len
           /\ ~a.blank => Rest(a, n).last = read + a.len
  <1>1. a.len \in Nat \ {0} /\ a.blank \in BOOLEAN /\ read \in Nat
    BY Fields DEF ReflowInv
  <1>2. CASE a.blank
    BY <1>1, <1>2 DEF Rest
  <1>3. CASE ~a.blank
    BY <1>1, <1>3 DEF Rest
  <1> QED
    BY <1>1, <1>2, <1>3

\* What a step that takes an atom does to what is read.
LEMMA TakesIs ==
    ASSUME ReflowInv, NEW a \in Atoms, Takes(a)
    PROVE  /\ a.len \in Nat \ {0} /\ a.blank \in BOOLEAN /\ ~ended
           /\ indent' = indent /\ ended' = ended
           /\ FirstBudget' = FirstBudget /\ ContBudget' = ContBudget
           /\ FirstBudget \in Nat /\ ContBudget \in Nat /\ ContBudget <= FirstBudget
           /\ read' = read + a.len /\ read' \in Nat /\ atoms' \in Nat /\ wasBlank' \in BOOLEAN
           /\ words' \in SUBSET Spans /\ words \subseteq words'
           /\ \A w \in words' \ words : /\ ~a.blank
                                        /\ w = [from |-> read + 1, to |-> read']
           /\ \A w \in words' : w.to <= read'
  <1>1. a.len \in Nat \ {0} /\ a.blank \in BOOLEAN
    OBVIOUS
  <1>2. /\ ReflowTypeOK /\ \A w \in words : w.to <= read
        /\ read \in Nat /\ \A w \in words : w.to \in Nat
    BY Fields DEF ReflowInv, CurIs
  <1>3. /\ indent' = indent /\ ended' = ended /\ ~ended
        /\ read' = read + a.len /\ read' \in Nat /\ atoms' \in Nat /\ wasBlank' \in BOOLEAN
    BY <1>1, <1>2 DEF Takes, ReflowTypeOK
  <1>4. FirstBudget' = FirstBudget /\ ContBudget' = ContBudget
    BY <1>3 DEF FirstBudget, ContBudget
  <1>5. FirstBudget \in Nat /\ ContBudget \in Nat /\ ContBudget <= FirstBudget
    BY <1>2, Budgets, Fields
  <1>6. [from |-> read + 1, to |-> read'] \in Spans
    BY <1>2, <1>3 DEF Spans
  <1>7. words' \in SUBSET Spans /\ words \subseteq words'
    BY <1>2, <1>3, <1>6 DEF Takes, ReflowTypeOK
  <1>8. \A w \in words' \ words : ~a.blank /\ w = [from |-> read + 1, to |-> read']
    BY <1>3 DEF Takes
  <1>9. \A w \in words' : w.to <= read'
    BY <1>1, <1>2, <1>3, <1>8
  <1> QED
    BY <1>1, <1>3, <1>4, <1>5, <1>7, <1>8, <1>9


\* Blanks at the start of a piece are passed over; those of the indentation
\* are not read.
LEMMA PaddingStep ==
    ASSUME ReflowInv, NEW a \in Atoms, SkipPadding(a)
    PROVE  ReflowInv'
  <1>1. Takes(a) /\ a.blank /\ Held = 0 /\ out' = out /\ cur' = Rest(a, 0)
    BY DEF SkipPadding, Padding
  <1>2. /\ a.len \in Nat \ {0} /\ cur' \in [from : Nat \ {0}, last : Nat]
        /\ cur'.from = read' + 1 /\ cur'.last = read'
    <2>1. a.len \in Nat \ {0} /\ read \in Nat /\ read' = read + a.len
      BY <1>1, TakesIs, Fields DEF ReflowInv
    <2>2. 0 \in Nat /\ 0 <= a.len
      BY <2>1
    <2>3. cur' \in [from : Nat \ {0}, last : Nat]
      BY <1>1, <2>2, RestIs
    <2>4. cur'.from = read + a.len - 0 + 1 /\ cur'.from - 1 <= cur'.last /\ cur'.last <= read + a.len
      BY <1>1, <2>2, RestIs
    <2>5. cur'.last \in Nat
      BY <2>3
    <2> QED
      BY <2>1, <2>3, <2>4, <2>5
  <1>3. cur.from = read + 1 /\ cur.last = read
    BY <1>1, Fields DEF ReflowInv, CurIs, Held
  <1>4. ReflowTypeOK'
    BY <1>1, <1>2, TakesIs DEF ReflowInv, ReflowTypeOK
  <1>5. out # <<>>
    <2>1. CASE out = <<>>
      <3>1. read = 0
        BY <1>1, <1>3, <2>1, TakesIs, Fields DEF ReflowInv, CurIs
      <3> QED
        BY <1>1, <3>1 DEF ReflowInv, CurIs, Takes
    <2> QED
      BY <2>1
  <1>6. words' = words
    BY <1>1 DEF Takes
  <1>7. CurIs'
    <2>1. Held' = 0 /\ read' > 0
      <3>1. read \in Nat /\ read' = read + a.len
        BY <1>1, TakesIs, Fields DEF ReflowInv
      <3>2. Held' = read' - cur'.from + 1
        BY DEF Held
      <3> QED
        BY <1>2, <3>1, <3>2
    <2> QED
      BY <1>1, <1>2, <1>5, <2>1, TakesIs DEF CurIs
  <1>8. Well(indent, out', words', cur'.from - 1)
    <2>1. \A i \in DOMAIN out : out[i].to \in Int
      BY Fields DEF ReflowInv
    <2>2. cur.from - 1 \in Int /\ cur'.from - 1 \in Int /\ cur.from - 1 <= cur'.from - 1
      <3>1. a.len \in Nat \ {0} /\ read \in Nat /\ read' = read + a.len
        BY <1>1, TakesIs, Fields DEF ReflowInv
      <3> QED
        BY <1>2, <1>3, <3>1
    <2> QED
      BY <1>1, <1>6, <2>1, <2>2, MoreWords DEF ReflowInv
  <1>9. Covered(out', words', cur')
    <2>1. \A k \in Int : ~(k \in cur.from..cur.last)
      BY <1>3, Fields DEF ReflowInv
    <2>2. \A w \in words : w.from..w.to \subseteq Int
      BY Fields DEF ReflowInv
    <2> QED
      BY <1>1, <1>6, <2>1, <2>2 DEF Covered, ReflowInv
  <1> QED
    BY <1>1, <1>4, <1>7, <1>8, <1>9, TakesIs DEF ReflowInv

\* An atom joins what is kept back.
LEMMA JoinStep ==
    ASSUME ReflowInv, NEW a \in Atoms, Joins(a)
    PROVE  ReflowInv'
  <1>1. /\ Takes(a) /\ out' = out /\ a.len <= Budget
        /\ Held = 0 \/ Held + a.len <= Budget
        /\ cur' = [from |-> cur.from, last |-> IF a.blank THEN cur.last ELSE read + a.len]
    BY DEF Joins
  <1>2. /\ a.len \in Nat \ {0} /\ read \in Nat /\ read' = read + a.len
        /\ cur.from \in Nat \ {0} /\ cur.last \in Nat
        /\ cur.from <= read + 1 /\ cur.from - 1 <= cur.last /\ cur.last <= read
    BY <1>1, TakesIs, Fields DEF ReflowInv, CurIs
  <1>3. /\ cur' \in [from : Nat \ {0}, last : Nat] /\ cur'.from = cur.from
        /\ cur'.last \in Nat /\ read' \in Nat
        /\ cur'.last >= cur.last /\ cur'.last <= read'
        /\ ~a.blank => cur'.last = read'
    <2>1. CASE a.blank
      BY <1>1, <1>2, <2>1
    <2>2. CASE ~a.blank
      BY <1>1, <1>2, <2>2
    <2> QED
      BY <2>1, <2>2
  <1>4. ReflowTypeOK'
    BY <1>1, <1>3, TakesIs DEF ReflowInv, ReflowTypeOK
  <1>5. CurIs'
    <2>1. Held' = Held + a.len /\ Held \in Nat
      BY <1>2, <1>3 DEF Held
    <2>2. Budget \in {FirstBudget, ContBudget} /\ (out # <<>> => Budget = ContBudget)
      BY DEF Budget
    <2>3. Held' <= FirstBudget' /\ (out' # <<>> => ~(Held' > ContBudget'))
      BY <1>1, <1>2, <2>1, <2>2, TakesIs
    <2>4. cur'.from <= read' + 1 /\ cur'.from - 1 <= cur'.last /\ cur'.last <= read' /\ read' # 0
      BY <1>2, <1>3
    <2>5. \A w \in words' : w.to <= read'
      BY <1>1, TakesIs
    <2>6. out' = <<>> => cur'.from = 1
      BY <1>1, <1>3, TakesIs DEF ReflowInv, CurIs
    <2>7. ~ended'
      BY <1>1, TakesIs
    <2> QED
      BY <2>3, <2>4, <2>5, <2>6, <2>7 DEF CurIs
  <1>6. Well(indent, out', words', cur'.from - 1)
    <2>1. \A i \in DOMAIN out : out[i].to \in Int
      BY Fields DEF ReflowInv
    <2>2. cur.from - 1 \in Int /\ words \subseteq words'
      BY <1>1, <1>2, TakesIs
    <2> QED
      BY <1>1, <1>3, <2>1, <2>2, MoreWords DEF ReflowInv
  <1>7. Covered(out', words', cur')
    <2>1. ASSUME NEW w \in words', NEW k \in w.from..w.to
          PROVE  \/ k \in cur'.from..cur'.last
                 \/ \E i \in DOMAIN out : k \in out[i].from..out[i].to
      <3>1. CASE w \in words
        <4>1. CASE k \in cur.from..cur.last
          BY <1>2, <1>3, <4>1
        <4>2. CASE ~(k \in cur.from..cur.last)
          BY <3>1, <4>2 DEF ReflowInv, Covered
        <4> QED
          BY <4>1, <4>2
      <3>2. CASE w \notin words
        <4>1. ~a.blank /\ w = [from |-> read + 1, to |-> read']
          BY <1>1, <3>2, TakesIs
        <4>2. k \in (read + 1)..read' /\ ~a.blank
          BY <4>1
        <4> QED
          BY <1>2, <1>3, <4>2
      <3> QED
        BY <3>1, <3>2
    <2> QED
      BY <1>1, <2>1 DEF Covered
  <1> QED
    BY <1>1, <1>4, <1>5, <1>6, <1>7, TakesIs DEF ReflowInv

\* What is kept back becomes a piece, and the atom is kept back instead.
LEMMA WrapStep ==
    ASSUME ReflowInv, NEW a \in Atoms, Wraps(a)
    PROVE  ReflowInv'
  <1> DEFINE n == IF a.blank THEN 0 ELSE a.len
  <1>1. Takes(a) /\ out' = Flushed /\ a.len <= Budget /\ cur' = Rest(a, n)
    BY DEF Wraps
  <1>2. /\ a.len \in Nat \ {0} /\ a.blank \in BOOLEAN /\ read \in Nat /\ read' = read + a.len
        /\ n \in Nat /\ n <= a.len
    BY <1>1, TakesIs, Fields DEF ReflowInv
  <1>n. (a.blank => n = 0) /\ (~a.blank => n = a.len)
    OBVIOUS
  <1> HIDE DEF n
  <1>3. /\ cur' \in [from : Nat \ {0}, last : Nat] /\ cur'.from = read + a.len - n + 1
        /\ cur'.from - 1 <= cur'.last /\ cur'.last <= read'
        /\ ~a.blank => cur'.last = read'
    BY <1>1, <1>2, RestIs
  <1>4. /\ cur'.from \in Nat \ {0} /\ cur'.last \in Nat
        /\ cur'.from >= read + 1 /\ cur'.from <= read' + 1
        /\ ~a.blank => cur'.from = read + 1
    BY <1>2, <1>3, <1>n
  <1>5. /\ Flushed \in Seq(Spans) /\ Len(Flushed) = Len(out) + 1 /\ Len(out) \in Nat
        /\ Well(indent, Flushed, words, read)
        /\ Flushed # <<>>
    <2>1. Flushed \in Seq(Spans) /\ Len(Flushed) = Len(out) + 1 /\ Len(out) \in Nat
          /\ Well(indent, Flushed, words, read)
      BY <1>1, FlushIs, TakesIs, Fields DEF ReflowInv
    <2> QED
      BY <2>1
  <1>6. ReflowTypeOK'
    BY <1>1, <1>3, <1>5, TakesIs DEF ReflowInv, ReflowTypeOK
  <1>7. CurIs'
    <2>1. Held' = n
      BY <1>2, <1>3, <1>4 DEF Held
    <2>2. Budget \in {FirstBudget, ContBudget} /\ (out # <<>> => Budget = ContBudget)
      BY DEF Budget
    <2>3. Held' <= FirstBudget'
      BY <1>1, <1>2, <2>1, <2>2, TakesIs
    <2>4. ASSUME Held' > ContBudget'
          PROVE  \E w \in words' :
                    /\ w.to = read' /\ cur'.last = read' /\ w.from <= cur'.from
                    /\ w.from = 1 \/ (w.from = cur'.from /\ Len(out') = 1)
      <3>1. n > ContBudget /\ ContBudget \in Nat /\ FirstBudget \in Nat
        BY <1>1, <2>1, <2>4, TakesIs
      <3>2. ~a.blank
        BY <1>n, <3>1
      <3>3. out = <<>>
        BY <1>1, <1>2, <2>2, <3>1
      <3>4. Len(out') = 1
        BY <1>1, <1>5, <3>3
      <3> DEFINE w == [from |-> read + 1, to |-> read']
      <3>5. w \in words'
        BY <1>1, <1>2, <3>2 DEF Takes
      <3>6. w.to = read' /\ w.from = cur'.from
        BY <1>4, <3>2
      <3> HIDE DEF w
      <3> QED
        <4>1. w.from <= cur'.from
          BY <1>4, <3>6
        <4>2. cur'.last = read'
          BY <1>3, <3>2
        <4> QED
          BY <3>4, <3>5, <3>6, <4>1, <4>2
    <2>5. \A w \in words' : w.to <= read'
      BY <1>1, TakesIs
    <2>6. ~ended' /\ out' # <<>> /\ read' # 0
      BY <1>1, <1>2, <1>5, TakesIs
    <2> QED
      <3>1. /\ cur'.from <= read' + 1 /\ cur'.from - 1 <= cur'.last /\ cur'.last <= read'
            /\ Held' <= FirstBudget'
        BY <1>3, <1>4, <2>3
      <3>2. /\ ~ended' /\ out' = <<>> => cur'.from = 1
            /\ ended' => cur'.from > cur'.last
            /\ read' = 0 => wasBlank'
        BY <2>6
      <3> QED
        BY <2>4, <2>5, <3>1, <3>2 DEF CurIs
  <1>8. Well(indent, out', words', cur'.from - 1)
    <2>1. \A i \in DOMAIN Flushed : Flushed[i].to \in Int
      <3>1. \A p \in Spans : p.to \in Int
        BY DEF Spans
      <3> QED
        BY <1>5, <3>1
    <2>2. words \subseteq words' /\ cur'.from - 1 \in Int /\ read \in Int /\ read <= cur'.from - 1
      BY <1>1, <1>2, <1>4, TakesIs
    <2> QED
      BY <1>1, <1>5, <2>1, <2>2, MoreWords
  <1>9. Covered(out', words', cur')
    <2>1. ASSUME NEW w \in words', NEW k \in w.from..w.to
          PROVE  \/ k \in cur'.from..cur'.last
                 \/ \E i \in DOMAIN Flushed : k \in Flushed[i].from..Flushed[i].to
      <3>1. CASE w \in words
        BY <1>1, <3>1, FlushIs, TakesIs
      <3>2. CASE w \notin words
        <4>1. ~a.blank /\ w = [from |-> read + 1, to |-> read']
          BY <1>1, <3>2, TakesIs
        <4>2. k \in (read + 1)..read' /\ ~a.blank
          BY <4>1
        <4> QED
          BY <1>3, <1>4, <4>2
      <3> QED
        BY <3>1, <3>2
    <2> QED
      BY <1>1, <2>1 DEF Covered
  <1> QED
    BY <1>1, <1>6, <1>7, <1>8, <1>9, TakesIs DEF ReflowInv

\* The full chunks of an atom, cut by a width.
LEMMA CutIs ==
    ASSUME ReflowInv, NEW a \in Atoms, NEW width \in Nat \ {0}
    PROVE  LET c == FullChunks(a, width)
               full == (a.len - 1) \div width
           IN  /\ c \in Seq(Spans) /\ Len(c) = full /\ full \in Nat /\ DOMAIN c = 1..full
               /\ full * width \in Nat
               /\ \A i \in 1..full : /\ c[i].from >= read + 1 /\ c[i].from - 1 <= c[i].to
                                     /\ c[i].to <= read + full * width
                                     /\ c[i].to - c[i].from + 1 <= width
               /\ \A i, j \in 1..full : i < j => c[i].to < c[j].from
               /\ ~a.blank => \A k \in (read + 1)..(read + full * width) :
                                  \E i \in 1..full : k \in c[i].from..c[i].to
  <1> DEFINE c == FullChunks(a, width)
             full == (a.len - 1) \div width
  <1>1. a.len \in Nat \ {0} /\ a.blank \in BOOLEAN /\ read \in Nat
    BY Fields DEF ReflowInv
  <1>2. /\ full \in Nat /\ full * width \in Nat
        /\ \A i \in 1..full : /\ (i - 1) * width \in Nat
                              /\ i * width = (i - 1) * width + width
                              /\ i * width <= full * width
        /\ \A i, j \in 1..full : i < j => i * width <= (j - 1) * width
        /\ \A k \in 1..(full * width) :
               \E i \in 1..full : (i - 1) * width < k /\ k <= i * width
    BY <1>1, LastChunk
  <1>3. c = [j \in 1..full |->
                [from |-> read + (j - 1) * width + 1,
                 to |-> read + (IF a.blank THEN j - 1 ELSE j) * width]]
    BY DEF FullChunks
  <1> HIDE DEF c, full
  <1>4. DOMAIN c = 1..full
    BY <1>3
  <1>5. ASSUME NEW i \in 1..full
        PROVE  /\ c[i] \in Spans
               /\ c[i].from = read + (i - 1) * width + 1
               /\ a.blank => c[i].to = read + (i - 1) * width
               /\ ~a.blank => c[i].to = read + i * width
    <2> DEFINE x == (i - 1) * width
               y == i * width
    <2>1. x \in Nat /\ y \in Nat
      BY <1>2
    <2>2. c[i] = [from |-> read + x + 1, to |-> read + (IF a.blank THEN i - 1 ELSE i) * width]
      BY <1>3
    <2>3. CASE a.blank
      <3>1. c[i] = [from |-> read + x + 1, to |-> read + x]
        BY <2>2, <2>3
      <3> HIDE DEF x, y
      <3>2. c[i] \in Spans /\ c[i].from = read + x + 1 /\ c[i].to = read + x
        BY <1>1, <2>1, <3>1 DEF Spans
      <3> QED
        BY <2>3, <3>2 DEF x, y
    <2>4. CASE ~a.blank
      <3>1. c[i] = [from |-> read + x + 1, to |-> read + y]
        BY <2>2, <2>4
      <3> HIDE DEF x, y
      <3>2. c[i] \in Spans /\ c[i].from = read + x + 1 /\ c[i].to = read + y
        BY <1>1, <2>1, <3>1 DEF Spans
      <3> QED
        BY <2>4, <3>2 DEF x, y
    <2> QED
      BY <2>3, <2>4
  <1>6. c \in Seq(Spans) /\ Len(c) = full
    <2>1. c \in [1..full -> Spans]
      BY <1>3, <1>5
    <2>2. c \in Seq(Spans)
      BY <1>2, <2>1, SeqDef
    <2> QED
      BY <1>2, <1>4, <2>2
  <1>7. ASSUME NEW i \in 1..full
        PROVE  /\ c[i].from >= read + 1 /\ c[i].from - 1 <= c[i].to
               /\ c[i].to <= read + full * width
               /\ c[i].to - c[i].from + 1 <= width
    <2> DEFINE x == (i - 1) * width
               y == i * width
               z == full * width
    <2>1. x \in Nat /\ y = x + width /\ y <= z /\ z \in Nat /\ y \in Nat
      BY <1>2
    <2>2. /\ c[i].from = read + x + 1
          /\ a.blank => c[i].to = read + x
          /\ ~a.blank => c[i].to = read + y
      BY <1>5
    <2> HIDE DEF x, y, z
    <2>3. /\ c[i].from >= read + 1 /\ c[i].from - 1 <= c[i].to
          /\ c[i].to <= read + z
          /\ c[i].to - c[i].from + 1 <= width
      BY <1>1, <2>1, <2>2
    <2> QED
      BY <2>3 DEF z
  <1>8. ASSUME NEW i \in 1..full, NEW j \in 1..full, i < j
        PROVE  c[i].to < c[j].from
    <2> DEFINE x == (i - 1) * width
               y == i * width
               v == (j - 1) * width
    <2>1. x \in Nat /\ y = x + width /\ y <= v /\ v \in Nat /\ y \in Nat
      BY <1>2, <1>8
    <2>2. /\ c[j].from = read + v + 1
          /\ a.blank => c[i].to = read + x
          /\ ~a.blank => c[i].to = read + y
      BY <1>5
    <2> HIDE DEF x, y, v
    <2> QED
      BY <1>1, <2>1, <2>2
  <1>9. ASSUME ~a.blank, NEW k \in (read + 1)..(read + full * width)
        PROVE  \E i \in 1..full : k \in c[i].from..c[i].to
    <2> DEFINE z == full * width
    <2>1. k - read \in 1..z
      <3>1. z \in Nat /\ k \in (read + 1)..(read + z)
        BY <1>2
      <3> HIDE DEF z
      <3> QED
        BY <1>1, <3>1
    <2>2. PICK i \in 1..full : (i - 1) * width < k - read /\ k - read <= i * width
      BY <1>2, <2>1
    <2> DEFINE x == (i - 1) * width
               y == i * width
    <2>3. x \in Nat /\ y = x + width /\ x < k - read /\ k - read <= y /\ y \in Nat
      BY <1>2, <2>2
    <2>4. c[i].from = read + x + 1 /\ c[i].to = read + y
      BY <1>5, <1>9
    <2> HIDE DEF x, y
    <2>5. k \in c[i].from..c[i].to
      BY <1>1, <2>3, <2>4
    <2> QED
      BY <2>5
  <1> QED
    BY <1>2, <1>4, <1>6, <1>7, <1>8, <1>9 DEF c, full

\* The pieces before those an atom is cut in.
LEMMA BeforeIs ==
    ASSUME ReflowInv, ~ended
    PROVE  /\ Before \in Seq(Spans) /\ Well(indent, Before, words, read)
           /\ \A w \in words : \A k \in w.from..w.to :
                  \E i \in DOMAIN Before : k \in Before[i].from..Before[i].to
           /\ Before = <<>> => Held = 0 /\ out = <<>> /\ read = 0
           /\ out # <<>> => Before # <<>>
  <1>1. CASE Held = 0
    <2>1. Before = out
      BY <1>1 DEF Before
    <2>2. cur.from = read + 1 /\ cur.last = read /\ read \in Nat
      BY <1>1, Fields DEF ReflowInv, CurIs, Held
    <2>3. out = <<>> => read = 0
      BY <2>2 DEF ReflowInv, CurIs
    <2>4. Well(indent, out, words, read)
      <3>1. cur.from - 1 = read
        BY <2>2
      <3> QED
        BY <3>1 DEF ReflowInv
    <2>5. \A w \in words : \A k \in w.from..w.to : ~(k \in cur.from..cur.last)
      <3>1. \A k \in Int : ~(k \in cur.from..cur.last)
        BY <2>2
      <3>2. \A w \in words : w.from..w.to \subseteq Int
        BY Fields DEF ReflowInv
      <3> QED
        BY <3>1, <3>2
    <2>6. \A w \in words : \A k \in w.from..w.to :
              \E i \in DOMAIN out : k \in out[i].from..out[i].to
      BY <2>5 DEF ReflowInv, Covered
    <2>7. out \in Seq(Spans)
      BY DEF ReflowInv, ReflowTypeOK
    <2> QED
      BY <1>1, <2>1, <2>3, <2>4, <2>6, <2>7
  <1>2. CASE Held # 0
    <2>1. Before = Flushed
      BY <1>2 DEF Before
    <2>2. Flushed # <<>>
      <3>1. Flushed \in Seq(Spans) /\ Len(Flushed) = Len(out) + 1 /\ Len(out) \in Nat
        BY FlushIs, Fields DEF ReflowInv
      <3> QED
        BY <3>1
    <2> QED
      BY <2>1, <2>2, FlushIs
  <1> QED
    BY <1>1, <1>2

\* Pieces and the pieces that follow them.
LEMMA JoinedPieces ==
    ASSUME NEW s \in Seq(Spans), NEW c \in Seq(Spans), NEW n, NEW ws, NEW from \in Int, NEW end \in Int,
           from <= end, Well(n, s, ws, from),
           \A i \in DOMAIN c : /\ PieceOK(n, Len(s) + i, c[i], ws)
                               /\ c[i].from >= from + 1 /\ c[i].from - 1 <= c[i].to
                               /\ c[i].to <= end,
           \A i, j \in DOMAIN c : i < j => c[i].to < c[j].from
    PROVE  /\ s \o c \in Seq(Spans) /\ Len(s \o c) = Len(s) + Len(c)
           /\ Well(n, s \o c, ws, end)
           /\ \A i \in DOMAIN s : i \in DOMAIN (s \o c) /\ (s \o c)[i] = s[i]
           /\ \A i \in DOMAIN c : Len(s) + i \in DOMAIN (s \o c) /\ (s \o c)[Len(s) + i] = c[i]
  <1> DEFINE t == s \o c
             S == Len(s)
             C == Len(c)
  <1>1. /\ t \in Seq(Spans) /\ Len(t) = S + C /\ S \in Nat /\ C \in Nat
        /\ DOMAIN t = 1..(S + C) /\ DOMAIN s = 1..S /\ DOMAIN c = 1..C
    OBVIOUS
  <1>2. \A i \in 1..S : t[i] = s[i] /\ s[i] \in Spans
    OBVIOUS
  <1>3. \A i \in 1..C : t[S + i] = c[i] /\ c[i] \in Spans
    OBVIOUS
  <1>4. \A i \in DOMAIN t : i \in 1..S \/ (i - S \in 1..C /\ S + (i - S) = i)
    BY <1>1
  <1>5. \A p \in Spans : p.from \in Int /\ p.to \in Int
    BY DEF Spans
  <1> HIDE DEF t, S, C
  <1>6. ASSUME NEW i \in DOMAIN t
        PROVE  /\ PieceOK(n, i, t[i], ws)
               /\ t[i].from - 1 <= t[i].to /\ t[i].to <= end
    <2>1. CASE i \in 1..S
      BY <1>1, <1>2, <1>5, <2>1 DEF Well
    <2>2. CASE i - S \in 1..C /\ S + (i - S) = i
      <3>1. t[i] = c[i - S] /\ i - S \in DOMAIN c
        BY <1>1, <1>3, <2>2
      <3>2. PieceOK(n, S + (i - S), c[i - S], ws) /\ c[i - S].from - 1 <= c[i - S].to
            /\ c[i - S].to <= end
        BY <3>1 DEF S
      <3> QED
        BY <2>2, <3>1, <3>2
    <2> QED
      BY <1>4, <2>1, <2>2
  <1>7. ASSUME NEW i \in DOMAIN t, NEW j \in DOMAIN t, i < j
        PROVE  t[i].to < t[j].from
    <2>1. CASE i \in 1..S /\ j \in 1..S
      BY <1>1, <1>2, <1>7, <2>1 DEF Well
    <2>2. CASE i \in 1..S /\ j - S \in 1..C /\ S + (j - S) = j
      <3>1. t[j] = c[j - S] /\ j - S \in DOMAIN c /\ t[i] = s[i] /\ i \in DOMAIN s
        BY <1>1, <1>2, <1>3, <2>2
      <3>2. s[i].to <= from /\ c[j - S].from >= from + 1
        BY <3>1 DEF Well
      <3>3. s[i].to \in Int /\ c[j - S].from \in Int
        BY <1>2, <1>3, <1>5, <2>2
      <3> QED
        BY <3>1, <3>2, <3>3
    <2>3. CASE i - S \in 1..C /\ S + (i - S) = i /\ j - S \in 1..C /\ S + (j - S) = j
      <3>1. t[i] = c[i - S] /\ i - S \in DOMAIN c /\ t[j] = c[j - S] /\ j - S \in DOMAIN c
        BY <1>1, <1>3, <2>3
      <3>2. i - S < j - S
        BY <1>1, <1>7
      <3> QED
        BY <3>1, <3>2
    <2>4. CASE i - S \in 1..C /\ j \in 1..S
      BY <1>1, <1>7, <2>4
    <2> QED
      BY <1>4, <2>1, <2>2, <2>3, <2>4
  <1>8. Well(n, t, ws, end)
    BY <1>6, <1>7 DEF Well
  <1>9. \A i \in 1..C : S + i \in DOMAIN t
    BY <1>1
  <1>10. \A i \in 1..S : i \in DOMAIN t
    BY <1>1
  <1> QED
    BY <1>1, <1>2, <1>3, <1>8, <1>9, <1>10 DEF t, S, C

\* An atom that is too wide is cut.
LEMMA ChunksStep ==
    ASSUME ReflowInv, NEW a \in Atoms, Chunks(a)
    PROVE  ReflowInv'
  <1> DEFINE width == ChunkWidth
             c == FullChunks(a, width)
             full == (a.len - 1) \div width
             n == a.len - full * width
             z == full * width
  <1>1. /\ Takes(a) /\ ~Padding(a) /\ a.len > Budget
        /\ out' = Before \o c /\ cur' = Rest(a, n)
    BY DEF Chunks
  <1>2. /\ a.len \in Nat \ {0} /\ a.blank \in BOOLEAN /\ read \in Nat /\ read' = read + a.len
        /\ read' \in Nat /\ ~ended /\ ~ended'
        /\ FirstBudget \in Nat /\ ContBudget \in Nat /\ ContBudget <= FirstBudget
        /\ FirstBudget' = FirstBudget /\ ContBudget' = ContBudget
        /\ indent \in Indents /\ words \subseteq words'
    BY <1>1, TakesIs, Fields DEF ReflowInv
  <1>3. FirstBudget >= 8 /\ ContBudget >= 8
    BY <1>2, Budgets
  <1>4. /\ Before \in Seq(Spans) /\ Len(Before) \in Nat /\ Well(indent, Before, words, read)
        /\ Before = <<>> => Held = 0 /\ out = <<>> /\ read = 0 /\ Len(Before) = 0
        /\ Before # <<>> => Len(Before) >= 1
    <2>1. /\ Before \in Seq(Spans) /\ Well(indent, Before, words, read)
          /\ Before = <<>> => Held = 0 /\ out = <<>> /\ read = 0
      BY <1>2, BeforeIs
    <2>2. Len(Before) \in Nat /\ (Before # <<>> => Len(Before) >= 1)
      BY <2>1
    <2> QED
      BY <2>1, <2>2
  <1>5. /\ width \in Nat \ {0} /\ width <= FirstBudget
        /\ Before # <<>> => width = ContBudget
    BY <1>2, <1>3 DEF ChunkWidth
  <1> HIDE DEF width
  <1>6. /\ full \in Nat /\ z \in Nat /\ n \in Nat /\ n >= 1 /\ n <= width /\ n <= a.len
        /\ n = a.len - z
    <2>1. /\ full \in Nat /\ z \in Nat /\ n \in 1..width /\ n <= a.len
      BY <1>2, <1>5, LastChunk
    <2>2. n = a.len - z
      OBVIOUS
    <2> HIDE DEF full, z, n
    <2> QED
      BY <1>5, <2>1, <2>2
  <1>7. /\ c \in Seq(Spans) /\ Len(c) = full /\ DOMAIN c = 1..full
        /\ \A i \in 1..full : /\ c[i].from >= read + 1 /\ c[i].from - 1 <= c[i].to
                              /\ c[i].to <= read + z
                              /\ c[i].to - c[i].from + 1 <= width
        /\ \A i, j \in 1..full : i < j => c[i].to < c[j].from
        /\ ~a.blank => \A k \in (read + 1)..(read + z) :
                           \E i \in 1..full : k \in c[i].from..c[i].to
    BY <1>5, CutIs
  <1>8. \A p \in Spans : p.from \in Nat \ {0} /\ p.to \in Nat
    BY DEF Spans
  <1> HIDE DEF c, full, n, z
  <1>9. /\ cur' \in [from : Nat \ {0}, last : Nat] /\ cur'.from = read + a.len - n + 1
        /\ cur'.from - 1 <= cur'.last /\ cur'.last <= read'
        /\ ~a.blank => cur'.last = read'
    BY <1>1, <1>2, <1>6, RestIs
  <1>10. /\ cur'.from \in Nat /\ cur'.last \in Nat /\ cur'.from = read + z + 1
         /\ cur'.from <= read' + 1
    BY <1>2, <1>6, <1>9
  \* With no piece before, the atom is the first word of the line.
  <1>11. ASSUME Before = <<>>
         PROVE  ~a.blank /\ [from |-> 1, to |-> read'] \in words' /\ Held = 0 /\ read = 0
    <2>1. Held = 0 /\ read = 0 /\ ~a.blank
      BY <1>1, <1>2, <1>4, <1>11 DEF Padding
    <2>2. [from |-> read + 1, to |-> read + a.len] \in words'
      BY <1>1, <2>1 DEF Takes
    <2> QED
      BY <1>2, <2>1, <2>2
  <1>12. ASSUME NEW i \in DOMAIN c
         PROVE  PieceOK(indent, Len(Before) + i, c[i], words')
    <2>1. /\ c[i] \in Spans /\ c[i].from \in Nat /\ c[i].to \in Nat /\ i \in Nat \ {0}
          /\ c[i].from >= read + 1 /\ c[i].from - 1 <= c[i].to /\ c[i].to <= read + z
          /\ c[i].to - c[i].from + 1 <= width
      BY <1>6, <1>7, <1>8
    <2>2. c[i].to - c[i].from + 1 <= FirstBudget
      BY <1>2, <1>5, <2>1
    <2>3. ASSUME c[i].to - c[i].from + 1 > ContBudget
          PROVE  OfFirst(Len(Before) + i, c[i], words')
      <3>1. Before = <<>>
        BY <1>2, <1>5, <2>1, <2>3
      <3> DEFINE w == [from |-> 1, to |-> read']
      <3>2. w \in words' /\ w.from = 1 /\ w.to = read'
        BY <1>11, <3>1
      <3> HIDE DEF w
      <3>3. w.from <= c[i].from /\ c[i].to <= w.to
        BY <1>2, <1>6, <2>1, <3>2
      <3> QED
        BY <3>2, <3>3 DEF OfFirst
    <2>4. Len(Before) + i \in Nat \ {0}
      BY <1>4, <2>1
    <2> QED
      BY <1>2, <2>1, <2>2, <2>3, <2>4, FittingPiece
  <1>13. Well(indent, Before, words', read)
    <2>1. \A i \in DOMAIN Before : Before[i].to \in Int
      <3>1. \A i \in DOMAIN Before : Before[i] \in Spans
        BY <1>4
      <3> QED
        BY <1>8, <3>1
    <2>2. read \in Int /\ read <= read
      BY <1>2
    <2> QED
      BY <1>2, <1>4, <2>1, <2>2, MoreWords
  <1>14. /\ out' \in Seq(Spans) /\ Len(out') = Len(Before) + full
         /\ Well(indent, out', words', read + z)
         /\ \A i \in DOMAIN Before : i \in DOMAIN out' /\ out'[i] = Before[i]
         /\ \A i \in DOMAIN c : Len(Before) + i \in DOMAIN out' /\ out'[Len(Before) + i] = c[i]
    <2>1. read \in Int /\ read + z \in Int /\ read <= read + z
      BY <1>2, <1>6
    <2>2. /\ \A i \in DOMAIN c : /\ PieceOK(indent, Len(Before) + i, c[i], words')
                                /\ c[i].from >= read + 1 /\ c[i].from - 1 <= c[i].to
                                /\ c[i].to <= read + z
          /\ \A i, j \in DOMAIN c : i < j => c[i].to < c[j].from
      BY <1>7, <1>12
    <2> DEFINE t == Before \o c
    <2>3. /\ t \in Seq(Spans) /\ Len(t) = Len(Before) + Len(c)
          /\ Well(indent, t, words', read + z)
          /\ \A i \in DOMAIN Before : i \in DOMAIN t /\ t[i] = Before[i]
          /\ \A i \in DOMAIN c : Len(Before) + i \in DOMAIN t /\ t[Len(Before) + i] = c[i]
      BY <1>4, <1>7, <1>13, <2>1, <2>2, JoinedPieces
    <2>4. out' = t
      BY <1>1
    <2> HIDE DEF t
    <2> QED
      BY <1>7, <2>3, <2>4
  <1>15. ReflowTypeOK'
    BY <1>1, <1>9, <1>14, TakesIs DEF ReflowInv, ReflowTypeOK
  <1>16. CurIs'
    <2>1. Held' = n
      BY <1>2, <1>6, <1>9 DEF Held
    <2>2. Held' <= FirstBudget'
      BY <1>2, <1>5, <1>6, <2>1
    <2>3. ASSUME Held' > ContBudget'
          PROVE  \E w \in words' :
                    /\ w.to = read' /\ cur'.last = read' /\ w.from <= cur'.from
                    /\ w.from = 1 \/ (w.from = cur'.from /\ Len(out') = 1)
      <3>1. Before = <<>>
        BY <1>2, <1>5, <1>6, <2>1, <2>3
      <3> DEFINE w == [from |-> 1, to |-> read']
      <3>2. w \in words' /\ w.from = 1 /\ w.to = read'
        BY <1>11, <3>1
      <3> HIDE DEF w
      <3>3. cur'.last = read'
        BY <1>9, <1>11, <3>1
      <3>4. w.from <= cur'.from
        BY <1>2, <1>6, <1>10, <3>2
      <3> QED
        BY <3>2, <3>3, <3>4
    <2>4. \A w \in words' : w.to <= read'
      BY <1>1, TakesIs
    <2>5. out' # <<>>
      <3>1. CASE Before = <<>>
        <4>1. out = <<>>
          BY <1>4, <3>1
        <4>2. width = FirstBudget
          BY <3>1 DEF ChunkWidth, width
        <4>3. a.len > width
          BY <1>1, <4>1, <4>2 DEF Budget
        <4>4. full # 0
          <5>1. CASE full = 0
            <6>1. z = 0
              BY <5>1, <1>5 DEF z
            <6> QED
              BY <1>2, <1>5, <1>6, <4>3, <6>1
          <5> QED
            BY <5>1
        <4>5. Len(out') > 0
          BY <1>4, <1>6, <1>14, <4>4
        <4> QED
          BY <4>5
      <3>2. CASE Before # <<>>
        <4>1. Len(out') > 0
          BY <1>4, <1>6, <1>14, <3>2
        <4> QED
          BY <4>1
      <3> QED
        BY <3>1, <3>2
    <2>6. read' # 0
      BY <1>2
    <2>7. /\ cur'.from <= read' + 1 /\ cur'.from - 1 <= cur'.last /\ cur'.last <= read'
      BY <1>9, <1>10
    <2> QED
      BY <1>2, <2>2, <2>3, <2>4, <2>5, <2>6, <2>7 DEF CurIs
  <1>17. Well(indent, out', words', cur'.from - 1)
    <2>1. cur'.from - 1 = read + z
      BY <1>2, <1>6, <1>10
    <2> QED
      BY <1>14, <2>1
  <1>18. Covered(out', words', cur')
    <2>1. ASSUME NEW w \in words', NEW k \in w.from..w.to
          PROVE  \/ k \in cur'.from..cur'.last
                 \/ \E i \in DOMAIN out' : k \in out'[i].from..out'[i].to
      <3>1. CASE w \in words
        <4>1. PICK i \in DOMAIN Before : k \in Before[i].from..Before[i].to
          BY <1>2, <3>1, BeforeIs
        <4>2. i \in DOMAIN out' /\ out'[i] = Before[i]
          BY <1>14
        <4> QED
          BY <4>1, <4>2
      <3>2. CASE w \notin words
        <4>1. ~a.blank /\ w = [from |-> read + 1, to |-> read']
          BY <1>1, <3>2, TakesIs
        <4>2. k \in (read + 1)..read' /\ ~a.blank
          BY <4>1
        <4>3. CASE k <= read + z
          <5>1. k \in (read + 1)..(read + z)
            BY <1>2, <1>6, <4>2, <4>3
          <5>2. PICK i \in 1..full : k \in c[i].from..c[i].to
            BY <1>7, <4>2, <5>1
          <5>3. Len(Before) + i \in DOMAIN out' /\ out'[Len(Before) + i] = c[i]
            BY <1>7, <1>14
          <5> QED
            BY <5>2, <5>3
        <4>4. CASE ~(k <= read + z)
          BY <1>2, <1>6, <1>9, <1>10, <4>2, <4>4
        <4> QED
          BY <4>3, <4>4
      <3> QED
        BY <3>1, <3>2
    <2> QED
      BY <2>1 DEF Covered
  <1>19. indent' = indent
    BY <1>1, TakesIs
  <1> QED
    BY <1>15, <1>16, <1>17, <1>18, <1>19 DEF ReflowInv

\* The line ends.
LEMMA EndStep ==
    ASSUME ReflowInv, EndLine
    PROVE  ReflowInv'
  <1>1. /\ ~ended /\ ended' = TRUE /\ UNCHANGED <<indent, atoms, read, words, wasBlank>>
        /\ cur' = [from |-> read + 1, last |-> read]
        /\ ~wasBlank
    BY DEF EndLine
  <1>2. /\ read \in Nat /\ indent \in Nat /\ indent \in Indents
        /\ FirstBudget \in Nat /\ ContBudget \in Nat
        /\ cur' \in [from : Nat \ {0}, last : Nat]
        /\ cur'.from = read + 1 /\ cur'.last = read
    <2>1. read \in Nat /\ indent \in Nat /\ indent \in Indents
      BY Fields DEF ReflowInv
    <2>2. FirstBudget \in Nat /\ ContBudget \in Nat
      BY <2>1, Budgets
    <2> QED
      BY <1>1, <2>1, <2>2
  <1>3. /\ out' \in Seq(Spans) /\ Well(indent, out', words, read)
        /\ \A w \in words : \A k \in w.from..w.to :
               \E i \in DOMAIN out' : k \in out'[i].from..out'[i].to
    <2>1. CASE indent + read <= Columns
      <3> DEFINE p == [from |-> 1, to |-> read]
      <3>1. out' = <<p>>
        BY <2>1 DEF EndLine
      <3>2. p \in Spans /\ p.from = 1 /\ p.to = read
        BY <1>2 DEF Spans
      <3> HIDE DEF p
      <3>3. out' \in Seq(Spans) /\ DOMAIN out' = {1} /\ out'[1] = p
        BY <3>1, <3>2
      <3>4. PieceOK(indent, 1, p, words)
        <4>1. WideOf(indent, 1, p) <= Columns /\ WideOf(indent, 1, p) \in Nat
          BY <1>2, <2>1, <3>2 DEF WideOf
        <4>2. Columns <= Greater(Columns, indent + 8) /\ Greater(Columns, indent + 8) \in Nat
          BY <1>2 DEF Greater
        <4> QED
          BY <4>1, <4>2 DEF PieceOK
      <3>5. Well(indent, out', words, read)
        <4>1. p.from - 1 <= p.to /\ p.to <= read
          BY <1>2, <3>2
        <4>2. \A i \in DOMAIN out' : PieceOK(indent, i, out'[i], words)
              /\ out'[i].from - 1 <= out'[i].to /\ out'[i].to <= read
          BY <3>3, <3>4, <4>1
        <4>3. \A i, j \in DOMAIN out' : ~(i < j)
          BY <3>3
        <4> QED
          BY <4>2, <4>3 DEF Well
      <3>6. ASSUME NEW w \in words, NEW k \in w.from..w.to
            PROVE  k \in out'[1].from..out'[1].to
        <4>1. w.from \in Nat \ {0} /\ w.to \in Nat /\ w.to <= read
          BY Fields DEF ReflowInv, CurIs
        <4> QED
          BY <1>2, <3>2, <3>3, <4>1
      <3> QED
        BY <3>3, <3>5, <3>6
    <2>2. CASE ~(indent + read <= Columns)
      <3>1. out' = Flushed
        BY <2>2 DEF EndLine
      <3> QED
        BY <1>1, <3>1, FlushIs
    <2> QED
      BY <2>1, <2>2
  <1>4. ReflowTypeOK'
    BY <1>1, <1>2, <1>3 DEF ReflowInv, ReflowTypeOK
  <1>5. CurIs'
    <2>1. Held' = 0
      <3>1. Held' = read' - cur'.from + 1
        BY DEF Held
      <3> QED
        BY <1>1, <1>2, <3>1
    <2>2. FirstBudget' = FirstBudget /\ ContBudget' = ContBudget
      BY <1>1 DEF FirstBudget, ContBudget
    <2>3. \A w \in words' : w.to <= read'
      BY <1>1 DEF ReflowInv, CurIs
    <2>4. read' = 0 => wasBlank'
      BY <1>1 DEF ReflowInv, CurIs
    <2>5. /\ cur'.from <= read' + 1 /\ cur'.from - 1 <= cur'.last /\ cur'.last <= read'
          /\ cur'.from > cur'.last
      BY <1>1, <1>2
    <2>6. Held' <= FirstBudget' /\ ~(Held' > ContBudget')
      BY <1>2, <2>1, <2>2
    <2> QED
      BY <1>1, <2>3, <2>4, <2>5, <2>6 DEF CurIs
  <1>6. Well(indent, out', words', cur'.from - 1)
    <2>1. cur'.from - 1 = read /\ words' = words
      BY <1>1, <1>2
    <2> QED
      BY <1>3, <2>1
  <1>7. Covered(out', words', cur')
    BY <1>1, <1>3 DEF Covered
  <1> QED
    BY <1>1, <1>4, <1>5, <1>6, <1>7 DEF ReflowInv

\* The invariant is inductive.
LEMMA InvStep == ReflowInv /\ [ReflowNext]_reflowVars => ReflowInv'
  <1> SUFFICES ASSUME ReflowInv, [ReflowNext]_reflowVars PROVE ReflowInv'
    OBVIOUS
  <1>1. CASE UNCHANGED reflowVars
    BY <1>1 DEF ReflowInv, ReflowTypeOK, CurIs, Well, Covered, Held, FirstBudget, ContBudget
  <1> QED
    BY <1>1, PaddingStep, JoinStep, WrapStep, ChunksStep, EndStep DEF ReflowNext

-----------------------------------------------------------------------------
(* The pieces and what is kept back keep their types.                      *)
THEOREM TypeCorrect == ReflowSpec => []ReflowTypeOK
  <1>1. ReflowInv => ReflowTypeOK
    BY DEF ReflowInv
  <1> QED
    BY InitInv, InvStep, <1>1, PTL DEF ReflowSpec

(* Which pieces can pass the edge of the screen, and by how much, for any  *)
(* width of it and any line: without a deep indentation only those of one  *)
(* word that was measured by the first budget.                             *)
THEOREM PiecesFit == ReflowSpec => []PieceFits
  <1>1. ReflowInv => PieceFits
    BY InvImplies
  <1> QED
    BY InitInv, InvStep, <1>1, PTL DEF ReflowSpec

(* Every character of the line that is not blank is in some piece, and     *)
(* none is in two.                                                         *)
THEOREM LineKept == ReflowSpec => []NothingLost
  <1>1. ReflowInv => NothingLost
    BY InvImplies
  <1> QED
    BY InitInv, InvStep, <1>1, PTL DEF ReflowSpec

-----------------------------------------------------------------------------
(* The pictures of a document. *)


\* The names of what a build has collected.
CollectedNames == {c.name : c \in Collected}

\* A picture of this build has the pixels of its name, unless the file was
\* replaced.
True(c) == <<builds, c.name>> \in raced \/ c.pixels = c.name

\* What the text of a build and its page show has been collected by it.
TextCollected ==
    /\ doing \in {"narrow", "wide"} =>
           \A i \in DOMAIN narrow : narrow[i] # NoImage => narrow[i] \in CollectedNames
    /\ doing # "idle" =>
           \A i \in DOMAIN wide : wide[i] # NoImage => wide[i] \in CollectedNames

\* What is collected, and of it what is still to be written or being written, is
\* true.
PicturesTrue ==
    /\ \A c \in Collected : True(c)
    /\ \A c \in pending : True(c)
    /\ writing # NoImage => True(writing)

\* So is a media file, of the build that wrote it, and a torn one is being
\* written by this build or was when its build died.
MediaTrue ==
    \A n \in PictureNames : media[n] # NoImage =>
        /\ <<media[n].by, n>> \in raced \/ media[n].pixels = n
        /\ media[n].torn => \/ <<media[n].by, n>> \in cut
                            \/ writing # NoImage /\ writing.name = n /\ media[n].by = builds

\* What a build has collected is written or waits to be.
MediaComplete ==
    doing = "media" => \A c \in Collected : c \in pending \/ media[c.name] # NoImage

\* The pictures of the published page are there, and not being written.
PageKept ==
    web # NoImage => \A i \in DOMAIN web : web[i] # NoImage =>
        /\ web[i] \in PictureNames
        /\ media[web[i]] # NoImage
        /\ writing # NoImage => writing.name # web[i]

\* An image that is being read is the one a rendering is at.
LoadedHere ==
    loaded # NoImage => Rendering /\ ~IsFigure(next) /\ processed[Path] = NoImage

\* The file that is being written is there.
WritingThere == writing # NoImage => doing = "media" /\ media[writing.name] # NoImage

PicturesInv ==
    /\ WritingThere
    /\ PicturesTypeOK /\ PackageClosed
    /\ LoadedHere /\ TextCollected /\ PicturesTrue /\ MediaTrue /\ MediaComplete /\ PageKept

USE NoImageAssumption, ReferencesAssumption
USE DEF picVars, inboxVars, buildVars, PictureNames, Pictures, Shown

\* The reference a rendering is at.
LEMMA Reference ==
  ASSUME PicturesTypeOK, Rendering
  PROVE  /\ IsFigure(next) => References[next].figure \in Figures
         /\ ~IsFigure(next) => Path \in ImagePaths
  <1>1. next \in 1..Len(References)
    BY DEF PicturesTypeOK, Rendering
  <1>2. References[next] \in [path : ImagePaths] \cup [figure : Figures]
    BY <1>1
  <1> QED
    BY <1>2 DEF IsFigure, Path

LEMMA PicturesInitInv == PicturesInit => PicturesInv
  BY DEF PicturesInit, PicturesInv, PicturesTypeOK, PackageClosed, TextCollected,
         PicturesTrue, MediaTrue, MediaComplete, PageKept, Unprocessed, Collected, CollectedNames,
         LoadedHere, WritingThere

\* The pictures collected are pictures.
LEMMA CollectedPictures ==
  ASSUME PicturesTypeOK PROVE Collected \subseteq Pictures
  BY DEF PicturesTypeOK, Collected

\* A step of a rendering: the reference becomes n, which has been collected.
LEMMA BecomesStep ==
  ASSUME PicturesInv, Rendering, NEW n \in PictureNames \cup {NoImage}, Becomes(n),
         processed' \in [ImagePaths -> Pictures \cup {NoImage}],
         figures' \in SUBSET Figures, raced' \in SUBSET (Nat \X PictureNames),
         raced \subseteq raced', CollectedNames \subseteq CollectedNames',
         n # NoImage => n \in CollectedNames',
         \A c \in Collected' : True(c)'
  PROVE  PicturesInv'
  <1> USE DEF PicturesInv, Becomes, Rendering
  <1>1. PicturesTypeOK'
    <2>1. narrow \in Shown /\ wide \in Shown
      BY DEF PicturesTypeOK
    <2>2. Append(narrow, n) \in Shown /\ Append(wide, n) \in Shown
      BY <2>1
    <2>3. narrow' \in Shown /\ wide' \in Shown
      BY <2>1, <2>2
    <2>4. next' \in 1..(Len(References) + 1) /\ loaded' \in Contents \cup {NoImage}
      BY DEF PicturesTypeOK
    <2> QED
      BY <2>3, <2>4 DEF PicturesTypeOK
  <1>2. TextCollected'
    <2>1. narrow \in Seq(PictureNames \cup {NoImage})
      BY DEF PicturesTypeOK
    <2>1a. wide \in Seq(PictureNames \cup {NoImage})
      BY DEF PicturesTypeOK
    <2>2. CASE doing = "narrow"
      <3>1. narrow' = Append(narrow, n) /\ wide' = wide /\ doing' = doing
        BY <2>2
      <3>2. \A i \in DOMAIN narrow' :
               (i \in DOMAIN narrow /\ narrow'[i] = narrow[i]) \/ narrow'[i] = n
        BY <2>1, <3>1
      <3>3. \A i \in DOMAIN narrow' : narrow'[i] # NoImage => narrow'[i] \in CollectedNames'
        BY <2>2, <3>2 DEF TextCollected
      <3>4. \A i \in DOMAIN wide' : wide'[i] # NoImage => wide'[i] \in CollectedNames'
        BY <2>2, <3>1 DEF TextCollected
      <3> QED
        BY <3>3, <3>4, Zenon DEF TextCollected
    <2>3. CASE doing = "wide"
      <3>1. wide' = Append(wide, n) /\ narrow' = narrow /\ doing' = doing
        BY <2>3
      <3>2. \A i \in DOMAIN wide' :
               (i \in DOMAIN wide /\ wide'[i] = wide[i]) \/ wide'[i] = n
        BY <2>1a, <3>1
      <3>3. \A i \in DOMAIN wide' : wide'[i] # NoImage => wide'[i] \in CollectedNames'
        BY <2>3, <3>2 DEF TextCollected
      <3>4. \A i \in DOMAIN narrow' : narrow'[i] # NoImage => narrow'[i] \in CollectedNames'
        BY <2>3, <3>1 DEF TextCollected
      <3> QED
        BY <3>3, <3>4, Zenon DEF TextCollected
    <2> QED
      BY <2>2, <2>3
  <1>3. PackageClosed'
    BY DEF PackageClosed
  <1>4. PicturesTrue'
    BY DEF PicturesTrue, True
  <1>5. MediaTrue'
    BY DEF MediaTrue
  <1>6. MediaComplete' /\ PageKept'
    BY DEF MediaComplete, PageKept
  <1>7. LoadedHere' /\ WritingThere'
    BY DEF LoadedHere, WritingThere
  <1> QED
    BY <1>1, <1>2, <1>3, <1>4, <1>5, <1>6, <1>7

\* The collection as it is meets the demands of BecomesStep.
LEMMA SameCollection ==
  ASSUME PicturesInv, UNCHANGED <<builds, processed, figures, raced>>
  PROVE  /\ processed' \in [ImagePaths -> Pictures \cup {NoImage}]
         /\ figures' \in SUBSET Figures /\ raced' \in SUBSET (Nat \X PictureNames)
         /\ raced \subseteq raced' /\ CollectedNames' = CollectedNames
         /\ \A c \in Collected' : True(c)'
  <1>1. Collected' = Collected
    BY DEF Collected
  <1>2. CollectedNames' = CollectedNames
    BY <1>1 DEF CollectedNames
  <1>3. builds' = builds => \A c \in Collected' : True(c)'
    BY <1>1 DEF PicturesInv, PicturesTrue, True
  <1>4. /\ processed \in [ImagePaths -> Pictures \cup {NoImage}]
        /\ figures \in SUBSET Figures /\ raced \in SUBSET (Nat \X PictureNames)
    BY Zenon DEF PicturesInv, PicturesTypeOK
  <1> QED
    BY <1>2, <1>3, <1>4, Zenon

LEMMA CachedStep == ASSUME PicturesInv, Cached PROVE PicturesInv'
  <1>1. Rendering /\ Path \in ImagePaths /\ processed[Path] \in Collected
    BY Reference DEF Cached, PicturesInv, Collected
  <1>2. processed[Path].name \in PictureNames /\ processed[Path].name \in CollectedNames
    BY <1>1, CollectedPictures DEF PicturesInv, CollectedNames
  <1>3. Becomes(processed[Path].name) /\ UNCHANGED <<processed, figures, raced>>
    BY DEF Cached
  <1>4. builds' = builds
    BY <1>3 DEF Becomes
  <1> QED
    BY <1>1, <1>2, <1>3, <1>4, SameCollection, BecomesStep

LEMMA MissingStep == ASSUME PicturesInv, Missing PROVE PicturesInv'
  <1>1. Rendering /\ Becomes(NoImage) /\ UNCHANGED <<processed, figures, raced>>
    BY DEF Missing
  <1>2. builds' = builds
    BY <1>1 DEF Becomes
  <1> QED
    BY <1>1, <1>2, SameCollection, BecomesStep

\* Steps that touch neither the media nor the collection.
LEMMA QuietStep ==
  ASSUME PicturesInv, PicturesTypeOK', LoadedHere',
         UNCHANGED <<builds, deaths, processed, figures, narrow, wide, epub, web, media,
                     pending, writing, raced, cut>>,
         doing' = doing \/ (doing = "narrow" /\ doing' = "wide")
  PROVE  PicturesInv'
  <1>1. Collected' = Collected /\ CollectedNames' = CollectedNames
    BY DEF Collected, CollectedNames
  <1>2. PackageClosed' /\ TextCollected'
    BY <1>1 DEF PicturesInv, PackageClosed, TextCollected
  <1>3. PicturesTrue' /\ MediaTrue'
    BY <1>1 DEF PicturesInv, PicturesTrue, True, MediaTrue
  <1>4. MediaComplete' /\ PageKept' /\ WritingThere'
    BY <1>1 DEF PicturesInv, MediaComplete, PageKept, WritingThere
  <1> QED
    BY <1>2, <1>3, <1>4 DEF PicturesInv

LEMMA LoadStep == ASSUME PicturesInv, LoadPixels PROVE PicturesInv'
  <1>1. inbox[Path] \in Contents
    BY Reference DEF LoadPixels, PicturesInv, PicturesTypeOK
  <1>2. PicturesTypeOK'
    BY <1>1 DEF LoadPixels, PicturesInv, PicturesTypeOK
  <1>3. LoadedHere'
    BY DEF LoadPixels, LoadedHere, Rendering, Path
  <1> QED
    BY <1>2, <1>3, QuietStep DEF LoadPixels

LEMMA SaveStep ==
  ASSUME PicturesInv, NEW p \in ImagePaths, NEW c \in Contents \cup {NoImage}, SaveImage(p, c)
  PROVE  PicturesInv'
  <1>1. PicturesTypeOK'
    BY DEF SaveImage, PicturesInv, PicturesTypeOK
  <1>2. LoadedHere'
    BY DEF SaveImage, PicturesInv, LoadedHere, Rendering, Path
  <1> QED
    BY <1>1, <1>2, QuietStep DEF SaveImage

LEMMA WideStep == ASSUME PicturesInv, StartWide PROVE PicturesInv'
  <1>1. PicturesTypeOK'
    BY DEF StartWide, PicturesInv, PicturesTypeOK
  <1>2. LoadedHere'
    BY DEF StartWide, PicturesInv, PicturesTypeOK, LoadedHere, Rendering
  <1> QED
    BY <1>1, <1>2, QuietStep DEF StartWide

LEMMA IdleStep == ASSUME PicturesInv, UNCHANGED picVars PROVE PicturesInv'
  <1>1. PicturesTypeOK' /\ LoadedHere'
    BY DEF PicturesInv, PicturesTypeOK, LoadedHere, Rendering, Path
  <1> QED
    BY <1>1, QuietStep

\* The digest names the picture: it is true, or raced from then on.
LEMMA DigestStep == ASSUME PicturesInv, TakeDigest PROVE PicturesInv'
  <1> DEFINE c == inbox[Path]
             pic == [of |-> Path, name |-> c, pixels |-> loaded]
  <1>1. Rendering /\ loaded \in Contents /\ Path \in ImagePaths /\ processed[Path] = NoImage
    BY Reference DEF TakeDigest, PicturesInv, PicturesTypeOK, LoadedHere
  <1>2. CASE c = NoImage
    <2>1. Becomes(NoImage) /\ UNCHANGED <<processed, figures, raced>>
      BY <1>2 DEF TakeDigest
    <2>2. builds' = builds
      BY <2>1 DEF Becomes
    <2> QED
      BY <1>1, <2>1, <2>2, SameCollection, BecomesStep
  <1>3. CASE c # NoImage
    <2>1. c \in Contents /\ pic \in Pictures
      BY <1>1, <1>3 DEF PicturesInv, PicturesTypeOK
    <2>2. /\ processed' = [processed EXCEPT ![Path] = pic]
          /\ raced' = IF c = loaded THEN raced ELSE raced \cup {<<builds, c>>}
          /\ Becomes(c) /\ UNCHANGED figures
      BY <1>3 DEF TakeDigest
    <2>3. /\ processed' \in [ImagePaths -> Pictures \cup {NoImage}]
          /\ figures' \in SUBSET Figures /\ raced' \in SUBSET (Nat \X PictureNames)
          /\ raced \subseteq raced'
      BY <1>1, <2>1, <2>2 DEF PicturesInv, PicturesTypeOK
    <2>4. pic # NoImage
      BY <2>1
    <2>5. Collected' = Collected \cup {pic}
      <3>1. {processed'[p] : p \in {q \in ImagePaths : processed'[q] # NoImage}}
              = {processed[p] : p \in {q \in ImagePaths : processed[q] # NoImage}} \cup {pic}
        BY <1>1, <2>2, <2>4 DEF PicturesInv, PicturesTypeOK
      <3> QED
        BY <2>2, <3>1 DEF Collected
    <2>6. CollectedNames \subseteq CollectedNames' /\ c \in CollectedNames'
      <3>1. pic.name = c /\ pic \in Collected' /\ Collected \subseteq Collected'
        BY <2>5
      <3> HIDE DEF pic, c
      <3> QED
        BY <3>1 DEF CollectedNames
    <2>7. \A x \in Collected' : True(x)'
      <3>1. builds' = builds /\ raced \subseteq raced'
        BY <2>2, <2>3 DEF Becomes
      <3>2. \A x : True(x) => True(x)'
        BY <3>1 DEF True
      <3>3. \A x \in Collected : True(x)
        BY DEF PicturesInv, PicturesTrue
      <3>4. ASSUME NEW x, x = pic PROVE True(x)'
        <4>1. x.name = c /\ x.pixels = loaded
          BY <3>4
        <4>2. c = loaded \/ <<builds', c>> \in raced'
          BY <2>2, <3>1
        <4> HIDE DEF c
        <4> QED
          BY <4>1, <4>2 DEF True
      <3> HIDE DEF pic, c
      <3> QED
        BY <2>5, <3>2, <3>3, <3>4
    <2> QED
      BY <1>1, <2>1, <2>2, <2>3, <2>6, <2>7, BecomesStep
  <1> QED
    BY <1>2, <1>3

LEMMA FigureStep ==
  ASSUME PicturesInv, NEW drawn \in BOOLEAN, Figure(drawn) PROVE PicturesInv'
  <1> DEFINE b == References[next].figure
             pic == [of |-> b, name |-> b, pixels |-> b]
  <1>1. Rendering /\ b \in Figures
    BY Reference DEF Figure, PicturesInv
  <1>2. CASE b \notin figures /\ ~drawn
    <2>1. Becomes(NoImage) /\ UNCHANGED <<processed, figures, raced>>
      BY <1>2 DEF Figure
    <2>2. builds' = builds
      BY <2>1 DEF Becomes
    <2> QED
      BY <1>1, <2>1, <2>2, SameCollection, BecomesStep
  <1>3. CASE ~(b \notin figures /\ ~drawn)
    <2>1. Becomes(b) /\ figures' = figures \cup {b} /\ UNCHANGED <<processed, raced>>
      BY <1>3 DEF Figure
    <2>2. Collected' = Collected \cup {pic}
      BY <2>1 DEF Collected
    <2>3. /\ processed' \in [ImagePaths -> Pictures \cup {NoImage}]
          /\ figures' \in SUBSET Figures /\ raced' \in SUBSET (Nat \X PictureNames)
          /\ raced \subseteq raced'
      BY <1>1, <2>1 DEF PicturesInv, PicturesTypeOK
    <2>4. CollectedNames \subseteq CollectedNames' /\ b \in CollectedNames'
      <3>1. pic.name = b /\ pic \in Collected' /\ Collected \subseteq Collected'
        BY <2>2
      <3> HIDE DEF pic, b
      <3> QED
        BY <3>1 DEF CollectedNames
    <2>5. \A x \in Collected' : True(x)'
      <3>1. builds' = builds /\ raced' = raced
        BY <2>1 DEF Becomes
      <3>2. \A x : True(x) => True(x)'
        BY <3>1 DEF True
      <3>3. \A x \in Collected : True(x)
        BY DEF PicturesInv, PicturesTrue
      <3>4. True(pic)
        BY DEF True
      <3> HIDE DEF pic, b
      <3> QED
        BY <2>2, <3>2, <3>3, <3>4
    <2> QED
      BY <1>1, <2>1, <2>3, <2>4, <2>5, BecomesStep
  <1> QED
    BY <1>2, <1>3

LEMMA StartStep == ASSUME PicturesInv, StartBuild PROVE PicturesInv'
  <1>1. Collected' = {} /\ PicturesTypeOK'
    BY DEF StartBuild, Collected, Unprocessed, PicturesInv, PicturesTypeOK
  <1>2. PackageClosed' /\ LoadedHere' /\ TextCollected'
    BY DEF StartBuild, PicturesInv, PackageClosed, LoadedHere, TextCollected
  <1>3. PicturesTrue' /\ MediaComplete'
    BY <1>1 DEF StartBuild, PicturesTrue, MediaComplete
  <1>4. MediaTrue' /\ PageKept' /\ WritingThere'
    BY DEF StartBuild, PicturesInv, MediaTrue, PageKept, WritingThere
  <1> QED
    BY <1>1, <1>2, <1>3, <1>4 DEF PicturesInv

\* The package has every picture of the text.
LEMMA PackageStep == ASSUME PicturesInv, WritePackage PROVE PicturesInv'
  <1>1. Collected' = Collected /\ Collected \subseteq Pictures
    BY CollectedPictures DEF WritePackage, PicturesInv, Collected
  <1>2. PicturesTypeOK'
    BY <1>1 DEF WritePackage, PicturesInv, PicturesTypeOK
  <1>3. PackageClosed'
    <2>1. /\ epub'.text = narrow /\ epub'.images = Collected /\ epub'.by = builds
          /\ doing = "wide" /\ raced' = raced
      BY DEF WritePackage
    <2>2. \A i \in DOMAIN narrow : narrow[i] # NoImage => \E e \in Collected : e.name = narrow[i]
      BY <2>1, Zenon DEF PicturesInv, TextCollected, CollectedNames
    <2>3. \A e \in Collected : e.pixels = e.name \/ <<builds, e.name>> \in raced
      BY Zenon DEF PicturesInv, PicturesTrue, True
    <2> QED
      BY <2>1, <2>2, <2>3, Zenon DEF PackageClosed
  <1>4. LoadedHere' /\ TextCollected'
    <2>1. LoadedHere'
      <3>1. /\ loaded' = loaded /\ doing = "wide" /\ next > Len(References)
        BY DEF WritePackage
      <3>2. ~Rendering
        <4>1. next \in Nat /\ Len(References) \in Nat
          BY DEF PicturesInv, PicturesTypeOK
        <4> QED
          BY <3>1, <4>1 DEF Rendering
      <3>3. loaded = NoImage
        BY <3>2 DEF PicturesInv, LoadedHere
      <3> QED
        BY <3>1, <3>3 DEF LoadedHere
    <2>2. CollectedNames' = CollectedNames
      BY <1>1 DEF CollectedNames
    <2>3. /\ doing = "wide" /\ doing' = "media" /\ narrow' = narrow /\ wide' = wide
      BY DEF WritePackage
    <2>4. \A i \in DOMAIN wide : wide[i] # NoImage => wide[i] \in CollectedNames
      BY <2>3 DEF PicturesInv, TextCollected
    <2>5. doing' \notin {"narrow", "wide"}
      BY <2>3
    <2>6. TextCollected'
      BY <2>2, <2>3, <2>4, <2>5, Zenon DEF TextCollected
    <2> QED
      BY <2>1, <2>6
  <1>7. MediaTrue'
    BY DEF WritePackage, PicturesInv, MediaTrue
  <1>6. PageKept' /\ WritingThere'
    BY DEF WritePackage, PicturesInv, PageKept, WritingThere
  <1>5. PicturesTrue' /\ MediaComplete'
    BY <1>1 DEF WritePackage, PicturesInv, PicturesTrue, True, MediaComplete
  <1> QED
    BY <1>2, <1>3, <1>4, <1>5, <1>6, <1>7 DEF PicturesInv

LEMMA KeepStep ==
  ASSUME PicturesInv, NEW c \in pending, KeepMedia(c) PROVE PicturesInv'
  <1>1. Collected' = Collected
    BY DEF KeepMedia, Collected
  <1>2. PicturesTypeOK' /\ PackageClosed' /\ LoadedHere' /\ TextCollected' /\ WritingThere'
    <2>1. PicturesTypeOK'
      BY DEF KeepMedia, PicturesInv, PicturesTypeOK
    <2>2. PackageClosed'
      BY DEF KeepMedia, PicturesInv, PackageClosed
    <2>3. LoadedHere'
      BY DEF KeepMedia, PicturesInv, LoadedHere, Rendering, Path
    <2>4. CollectedNames' = CollectedNames
      BY <1>1 DEF CollectedNames
    <2>5. TextCollected'
      BY <2>4 DEF KeepMedia, PicturesInv, TextCollected
    <2>6. WritingThere'
      BY DEF KeepMedia, PicturesInv, WritingThere
    <2> QED
      BY <2>1, <2>2, <2>3, <2>5, <2>6
  <1>3. PicturesTrue' /\ MediaTrue' /\ MediaComplete' /\ PageKept'
    BY <1>1 DEF KeepMedia, PicturesInv, PicturesTrue, True, MediaTrue, MediaComplete, PageKept
  <1> QED
    BY <1>2, <1>3 DEF PicturesInv

\* A record of a file is a media file.
LEMMA MediaFile ==
  ASSUME NEW n \in PictureNames, NEW torn \in BOOLEAN, NEW by \in Nat
  PROVE  /\ [pixels |-> n, torn |-> torn, by |-> by] \in MediaFiles
         /\ [pixels |-> n, torn |-> torn, by |-> by] # NoImage
  <1>1. [pixels |-> n, torn |-> torn, by |-> by] \in MediaFiles
    BY Zenon DEF MediaFiles
  <1>2. NoImage \notin MediaFiles
    BY DEF MediaFiles
  <1> QED
    BY <1>1, <1>2, Zenon

LEMMA OpenStep ==
  ASSUME PicturesInv, NEW c \in pending, OpenMedia(c) PROVE PicturesInv'
  <1> DEFINE file == [pixels |-> c.pixels, torn |-> TRUE, by |-> builds]
  <1>1. c \in Pictures /\ c # NoImage /\ True(c)
    BY DEF PicturesInv, PicturesTypeOK, PicturesTrue
  <1>2. file \in MediaFiles /\ file # NoImage
    <2>1. builds \in Nat
      BY DEF PicturesInv, PicturesTypeOK
    <2> QED
      BY <1>1, <2>1, MediaFile
  <1>3. /\ doing = "media" /\ writing = NoImage /\ media[c.name] = NoImage
        /\ writing' = c /\ pending' = pending \ {c}
        /\ media' = [media EXCEPT ![c.name] = file]
        /\ Collected' = Collected
    BY DEF OpenMedia, Collected
  <1>4. /\ media'[c.name] = file
        /\ \A n \in PictureNames \ {c.name} : media'[n] = media[n]
    BY <1>1, <1>3 DEF PicturesInv, PicturesTypeOK
  <1>5. PicturesTypeOK'
    BY <1>1, <1>3, <1>2 DEF OpenMedia, PicturesInv, PicturesTypeOK, MediaFiles
  <1>6. PackageClosed' /\ LoadedHere' /\ TextCollected'
    <2>1. PackageClosed'
      BY DEF OpenMedia, PicturesInv, PackageClosed
    <2>2. LoadedHere'
      BY DEF OpenMedia, PicturesInv, LoadedHere, Rendering, Path
    <2>3. CollectedNames' = CollectedNames
      BY <1>3 DEF CollectedNames
    <2>4. TextCollected'
      BY <2>3 DEF OpenMedia, PicturesInv, TextCollected
    <2> QED
      BY <2>1, <2>2, <2>4
  <1>7. PicturesTrue'
    BY <1>1, <1>3 DEF OpenMedia, PicturesInv, PicturesTrue, True
  <1>8. MediaTrue'
    BY <1>1, <1>3, <1>4, <1>2 DEF OpenMedia, PicturesInv, MediaTrue, True
  <1>9. MediaComplete'
    BY <1>1, <1>3, <1>4, <1>2, CollectedPictures DEF PicturesInv, MediaComplete
  <1>10. PageKept' /\ WritingThere'
    BY <1>1, <1>3, <1>4, <1>2 DEF OpenMedia, PicturesInv, PageKept, WritingThere
  <1> QED
    BY <1>5, <1>6, <1>7, <1>8, <1>9, <1>10 DEF PicturesInv

LEMMA CloseStep == ASSUME PicturesInv, CloseMedia PROVE PicturesInv'
  <1> DEFINE w == writing.name
             file == [media[w] EXCEPT !.torn = FALSE]
  <1>1. w \in PictureNames /\ Collected' = Collected
    BY DEF CloseMedia, PicturesInv, PicturesTypeOK, Collected
  <1>2. media \in [PictureNames -> MediaFiles \cup {NoImage}] /\ media[w] # NoImage
    BY DEF CloseMedia, PicturesInv, PicturesTypeOK, WritingThere, MediaFiles
  <1>3. /\ file \in MediaFiles /\ file # NoImage
        /\ file.pixels = media[w].pixels /\ file.torn = FALSE /\ file.by = media[w].by
    <2>1. media[w] \in MediaFiles
      BY <1>1, <1>2
    <2>2. ASSUME NEW f \in MediaFiles
          PROVE  LET g == [f EXCEPT !.torn = FALSE] IN
                 g \in MediaFiles /\ g.pixels = f.pixels /\ g.torn = FALSE /\ g.by = f.by
      BY DEF MediaFiles
    <2>3. NoImage \notin MediaFiles
      BY DEF MediaFiles
    <2> QED
      BY <2>1, <2>2, <2>3
  <1>4. media' = [media EXCEPT ![w] = file]
    BY DEF CloseMedia
  <1>5. /\ media' \in [PictureNames -> MediaFiles \cup {NoImage}]
        /\ media'[w] = file
        /\ \A n \in PictureNames \ {w} : media'[n] = media[n]
    BY <1>1, <1>2, <1>3, <1>4
  <1>6. PicturesTypeOK'
    BY <1>5 DEF CloseMedia, PicturesInv, PicturesTypeOK, MediaFiles
  <1>7. PackageClosed' /\ LoadedHere' /\ TextCollected' /\ PicturesTrue'
    BY <1>1 DEF CloseMedia, PicturesInv, PackageClosed, LoadedHere, Rendering, Path,
                TextCollected, PicturesTrue, True, CollectedNames
  <1>8. MediaTrue'
    BY <1>2, <1>3, <1>5 DEF CloseMedia, PicturesInv, MediaTrue
  <1>9. MediaComplete'
    BY <1>1, <1>3, <1>5, CollectedPictures DEF CloseMedia, PicturesInv, MediaComplete
  <1>10. PageKept'
    <2>1. web' = web /\ writing' = NoImage
      BY DEF CloseMedia
    <2>2. ASSUME web # NoImage, NEW i \in DOMAIN web, web[i] # NoImage
          PROVE  web[i] \in PictureNames /\ media'[web[i]] # NoImage
      <3>1. web[i] \in PictureNames /\ media[web[i]] # NoImage
        BY <2>2 DEF PicturesInv, PageKept
      <3> HIDE DEF w, file
      <3> QED
        BY <1>3, <1>5, <3>1
    <2> QED
      BY <2>1, <2>2 DEF PageKept
  <1> QED
    BY <1>6, <1>7, <1>8, <1>9, <1>10 DEF PicturesInv, WritingThere, CloseMedia

LEMMA PublishStep == ASSUME PicturesInv, Publish PROVE PicturesInv'
  <1>1. Collected' = Collected /\ Collected \subseteq Pictures
    BY CollectedPictures DEF Publish, PicturesInv, Collected
  <1>2. PageKept'
    <2>1. /\ doing = "media" /\ pending = {} /\ writing' = NoImage
          /\ web' = wide /\ media' = media
      BY DEF Publish
    <2>2. ASSUME NEW i \in DOMAIN wide, wide[i] # NoImage
          PROVE  wide[i] \in PictureNames /\ media[wide[i]] # NoImage
      <3>1. wide[i] \in CollectedNames
        BY <2>1, <2>2 DEF PicturesInv, TextCollected
      <3>2. PICK c \in Collected : c.name = wide[i]
        BY <3>1 DEF CollectedNames
      <3>3. c.name \in PictureNames
        BY <1>1
      <3>4. media[c.name] # NoImage
        BY <2>1 DEF PicturesInv, MediaComplete
      <3> QED
        BY <3>2, <3>3, <3>4
    <2> QED
      BY <2>1, <2>2 DEF PageKept
  <1>3. PicturesTypeOK' /\ PackageClosed' /\ LoadedHere' /\ TextCollected'
    BY DEF Publish, PicturesInv, PicturesTypeOK, PackageClosed, LoadedHere, Rendering,
           TextCollected
  <1>4. PicturesTrue' /\ MediaTrue' /\ MediaComplete' /\ WritingThere'
    BY <1>1 DEF Publish, PicturesInv, PicturesTrue, True, MediaTrue, MediaComplete, WritingThere
  <1> QED
    BY <1>2, <1>3, <1>4 DEF PicturesInv

\* Of what is torn now, this death is to blame from now on.
LEMMA DiesStep == ASSUME PicturesInv, Dies PROVE PicturesInv'
  <1>1. Collected' = Collected
    BY DEF Dies, PicturesInv, PicturesTypeOK, Collected
  <1>2. PicturesTypeOK' /\ PackageClosed' /\ LoadedHere' /\ TextCollected'
    BY DEF Dies, PicturesInv, PicturesTypeOK, PackageClosed, LoadedHere, TextCollected
  <1>3. PicturesTrue' /\ MediaTrue' /\ MediaComplete' /\ PageKept' /\ WritingThere'
    BY <1>1 DEF WritingThere, Dies, PicturesInv, PicturesTrue, True, MediaTrue, MediaComplete, PageKept
  <1> QED
    BY <1>2, <1>3 DEF PicturesInv

\* The invariant is inductive.
LEMMA PicturesStep == PicturesInv /\ [PicturesNext]_picVars => PicturesInv'
  BY SaveStep, WideStep, IdleStep, StartStep, CachedStep, MissingStep, LoadStep, DigestStep, FigureStep,
     PackageStep, KeepStep, OpenStep, CloseStep, PublishStep, DiesStep DEF PicturesNext

-----------------------------------------------------------------------------
(* What a build holds and what it has left keeps its types.                *)
THEOREM PicturesTyped == PicturesSpec => []PicturesTypeOK
  <1>1. PicturesInv => PicturesTypeOK
    BY DEF PicturesInv
  <1> QED
    BY PicturesInitInv, PicturesStep, <1>1, PTL DEF PicturesSpec

(* Every picture the text of the EPUB shows is packaged with it, for any   *)
(* document and whatever happens to the image files, and is what its name  *)
(* says but for a file replaced between its two reads.                     *)
THEOREM PackagesClosed == PicturesSpec => []PackageClosed
  <1>1. PicturesInv => PackageClosed
    BY DEF PicturesInv
  <1> QED
    BY PicturesInitInv, PicturesStep, <1>1, PTL DEF PicturesSpec

(* Every picture the published page shows is served, is what its name says *)
(* unless the build that wrote its file saw the image replaced between two *)
(* reads, and is whole unless that build died in writing it.               *)
THEOREM PagesShowTheirPictures == PicturesSpec => []PageShowsItsPictures
  <1>1. PicturesInv => PageShowsItsPictures
    BY DEF PicturesInv, PageKept, MediaTrue, PageShowsItsPictures, ShownMedia
  <1> QED
    BY PicturesInitInv, PicturesStep, <1>1, PTL DEF PicturesSpec

HIDE ReflowAssumption
HIDE NoImageAssumption
HIDE ReferencesAssumption
HIDE DEF Atoms, PictureNames, Pictures, Shown

-----------------------------------------------------------------------------
(* The sections of a document, and the book they make. *)

USE DEF sectionVars

-----------------------------------------------------------------------------
(* Sections.                                                               *)

\* Where the chunks of a document with a token end; 0 before the first.
EndsAt(tokens) ==
    [i \in 0..Len(Starts(tokens)) |-> IF i = 0 THEN 0 ELSE EndOf(tokens, Starts(tokens), i)]

\* A document with a token is cut into one chunk or more, one behind the
\* other, at every H1 and nowhere else.
Cut(tokens, n, at) ==
    /\ n \in Nat \ {0} /\ at \in [0..n -> 0..Len(tokens)]
    /\ at[0] = 0 /\ at[n] = Len(tokens)
    /\ Chunked(tokens) = [i \in 1..n |-> SubSeq(tokens, at[i - 1] + 1, at[i])]
    /\ \A i \in 1..n :
           /\ at[i - 1] < at[i]
           /\ \A k \in (at[i - 1] + 2)..at[i] : ~IsH1(tokens[k])
    /\ \A k \in 1..Len(tokens) : IsH1(tokens[k]) => \E i \in 1..n : at[i - 1] + 1 = k
    /\ \A i \in 1..n : i # n => IsH1(tokens[at[i] + 1])

\* A chunk starts at the first token, and at every H1.
LEMMA StartsAre ==
  ASSUME NEW tokens \in Seq(DocTokens), tokens # <<>>
  PROVE  /\ Starts(tokens) \in Seq(1..Len(tokens)) /\ Len(Starts(tokens)) \in Nat \ {0}
         /\ Starts(tokens)[1] = 1
         /\ \A i, j \in 1..Len(Starts(tokens)) : i < j => Starts(tokens)[i] < Starts(tokens)[j]
         /\ \A k \in 1..Len(tokens) : IsH1(tokens[k]) =>
                \E i \in 1..Len(Starts(tokens)) : Starts(tokens)[i] = k
         /\ \A i \in 1..Len(Starts(tokens)) : i # 1 => IsH1(tokens[Starts(tokens)[i]])
  <1> DEFINE N == Len(tokens)
             K == {i \in DOMAIN tokens : IsH1(tokens[i]) \/ i = 1}
             b == InOrder(K, N)
  <1>1. N \in Nat \ {0} /\ DOMAIN tokens = 1..N
    OBVIOUS
  <1>2. \A k \in 1..N : k \in K <=> IsH1(tokens[k]) \/ k = 1
    BY <1>1
  <1> HIDE DEF K
  <1>3. /\ b \in Seq(1..N)
        /\ \A i, j \in DOMAIN b : i < j => b[i] < b[j]
        /\ \A i \in DOMAIN b : b[i] \in K
        /\ \A k \in 1..N : k \in K => \E i \in DOMAIN b : b[i] = k
    BY <1>1, InOrderIs DEF Ordered
  <1>4. Starts(tokens) = b
    BY DEF Starts, K
  <1> HIDE DEF b, N
  <1>5. DOMAIN b = 1..Len(b) /\ Len(b) \in Nat /\ \A i \in 1..Len(b) : b[i] \in 1..N
    <2>1. b \in Seq(1..N)
      BY <1>3
    <2> QED
      BY <1>1, <2>1
  <1>6. PICK i \in 1..Len(b) : b[i] = 1
    BY <1>1, <1>2, <1>3, <1>5
  <1>7. Len(b) # 0 /\ b[1] = 1
    <2>1. 1 \in 1..Len(b) /\ b[1] \in 1..N
      BY <1>5, <1>6
    <2>2. CASE i = 1
      BY <1>6, <2>1, <2>2
    <2>3. CASE i # 1
      <3>1. 1 < i /\ 1 \in DOMAIN b /\ i \in DOMAIN b
        BY <1>5, <2>1, <2>3
      <3>2. b[1] < b[i]
        BY <1>3, <3>1
      <3> QED
        BY <1>1, <1>6, <2>1, <3>2
    <2> QED
      BY <2>1, <2>2, <2>3
  <1>8. \A k \in 1..N : IsH1(tokens[k]) => \E j \in 1..Len(b) : b[j] = k
    BY <1>2, <1>3, <1>5
  <1>9. ASSUME NEW j \in 1..Len(b), j # 1 PROVE IsH1(tokens[b[j]])
    <2>1. b[1] < b[j] /\ b[j] \in 1..N /\ b[j] \in K
      BY <1>3, <1>5, <1>7, <1>9
    <2>2. b[j] # 1
      BY <1>7, <2>1
    <2> QED
      BY <1>2, <2>1, <2>2
  <1> QED
    BY <1>3, <1>4, <1>5, <1>7, <1>8, <1>9 DEF N

\* The chunks cut the tokens in this way.
LEMMA ChunksCut ==
  ASSUME NEW tokens \in Seq(DocTokens), tokens # <<>>
  PROVE  Cut(tokens, Len(Starts(tokens)), EndsAt(tokens))
  <1> DEFINE N == Len(tokens)
             b == Starts(tokens)
             n == Len(b)
             at == EndsAt(tokens)
  <1>1. /\ b \in Seq(1..N) /\ n \in Nat \ {0} /\ b[1] = 1
        /\ \A i, j \in 1..n : i < j => b[i] < b[j]
        /\ \A k \in 1..N : IsH1(tokens[k]) => \E i \in 1..n : b[i] = k
        /\ \A i \in 1..n : i # 1 => IsH1(tokens[b[i]])
    BY StartsAre
  <1>2. N \in Nat \ {0} /\ DOMAIN b = 1..n /\ \A i \in 1..n : b[i] \in 1..N
    BY <1>1
  <1>2a. \A i, j \in 1..n : i < j => b[i] < b[j]
    BY <1>1
  <1>3. at = [i \in 0..n |-> IF i = 0 THEN 0 ELSE EndOf(tokens, b, i)]
    BY DEF EndsAt
  <1>4. Chunked(tokens) = [i \in DOMAIN b |-> SubSeq(tokens, b[i], EndOf(tokens, b, i))]
    BY DEF Chunked
  <1>5. \A i \in 1..n : EndOf(tokens, b, i) = IF i < n THEN b[i + 1] - 1 ELSE N
    BY DEF EndOf
  <1> HIDE DEF N, b, n, at
  <1>6. at[0] = 0 /\ \A i \in 1..n : at[i] = IF i < n THEN b[i + 1] - 1 ELSE N
    BY <1>1, <1>3, <1>5
  <1>7. ASSUME NEW i \in 1..n PROVE at[i - 1] + 1 = b[i]
    <2>1. CASE i = 1
      BY <1>1, <1>6, <2>1
    <2>2. CASE i # 1
      <3>1. i - 1 \in 1..n /\ i - 1 < n /\ (i - 1) + 1 = i
        BY <1>1, <2>2
      <3> QED
        BY <1>2, <1>6, <3>1
    <2> QED
      BY <2>1, <2>2
  <1>8. ASSUME NEW i \in 1..n PROVE b[i] <= at[i] /\ at[i] \in 0..N
    <2>1. CASE i < n
      <3>1. i + 1 \in 1..n /\ i < i + 1
        BY <1>1, <2>1
      <3>2. b[i] \in 1..N /\ b[i + 1] \in 1..N /\ b[i] < b[i + 1]
        BY <1>2, <1>2a, <3>1
      <3>3. at[i] = b[i + 1] - 1
        BY <1>6, <2>1
      <3> QED
        BY <1>2, <3>2, <3>3
    <2>2. CASE ~(i < n)
      BY <1>2, <1>6, <2>2
    <2> QED
      BY <2>1, <2>2
  <1>9. at \in [0..n -> 0..N]
    <2>1. \A i \in 0..n : i = 0 \/ i \in 1..n
      BY <1>1
    <2>2. \A i \in 0..n : at[i] \in 0..N
      BY <1>2, <1>6, <1>8, <2>1
    <2>3. at = [i \in 0..n |-> at[i]]
      BY <1>3
    <2> QED
      BY <2>2, <2>3
  <1>10. Chunked(tokens) = [i \in 1..n |-> SubSeq(tokens, at[i - 1] + 1, at[i])]
    <2>1. \A i \in 1..n : EndOf(tokens, b, i) = at[i]
      BY <1>5, <1>6
    <2> QED
      BY <1>2, <1>4, <1>7, <2>1
  <1>11. ASSUME NEW i \in 1..n, NEW k \in (at[i - 1] + 2)..at[i] PROVE ~IsH1(tokens[k])
    <2> SUFFICES ASSUME IsH1(tokens[k]) PROVE FALSE
      OBVIOUS
    <2>1. k \in Int /\ b[i] < k /\ k <= at[i] /\ k \in 1..N
      <3>1. at[i - 1] + 1 = b[i] /\ b[i] \in 1..N /\ at[i] \in 0..N /\ at[i - 1] \in 0..N
        <4>1. i - 1 \in 0..n
          BY <1>1
        <4> QED
          BY <1>2, <1>7, <1>8, <1>9, <4>1
      <3> QED
        BY <1>2, <3>1
    <2>2. PICK j \in 1..n : b[j] = k
      BY <1>1, <2>1
    <2>3. i < j
      <3>1. ~(j < i) /\ j # i
        BY <1>1, <1>2, <2>1, <2>2
      <3> QED
        BY <1>1, <3>1
    <2>4. i < n /\ i + 1 \in 1..n /\ at[i] = b[i + 1] - 1
      BY <1>1, <1>6, <2>3
    <2>5. b[i + 1] <= b[j]
      <3>1. i + 1 = j \/ i + 1 < j
        BY <1>1, <2>3
      <3>2. b[i + 1] = b[j] \/ b[i + 1] < b[j]
        BY <1>2a, <2>4, <3>1
      <3>3. b[i + 1] \in 1..N /\ b[j] \in 1..N
        BY <1>2, <2>4
      <3> QED
        BY <1>2, <3>2, <3>3
    <2> QED
      BY <1>2, <2>1, <2>2, <2>4, <2>5
  <1>12. at[n] = N
    BY <1>1, <1>6
  <1>13. \A i \in 1..n : at[i - 1] < at[i]
    <2>1. ASSUME NEW i \in 1..n PROVE at[i - 1] < at[i]
      <3>1. i - 1 \in 0..n
        BY <1>1
      <3> QED
        BY <1>7, <1>8, <1>9, <3>1
    <2> QED
      BY <2>1
  <1>14. ASSUME NEW k \in 1..N, IsH1(tokens[k]) PROVE \E i \in 1..n : at[i - 1] + 1 = k
    <2>1. PICK i \in 1..n : b[i] = k
      BY <1>1, <1>14
    <2>2. at[i - 1] + 1 = k
      BY <1>7, <2>1
    <2> QED
      BY <2>2
  <1>15. ASSUME NEW i \in 1..n, i # n PROVE IsH1(tokens[at[i] + 1])
    <2>1. i < n /\ i + 1 \in 1..n /\ i + 1 # 1
      BY <1>1, <1>15
    <2>2. at[i] + 1 = b[i + 1]
      <3>1. at[i] = b[i + 1] - 1 /\ b[i + 1] \in 1..N
        BY <1>2, <1>6, <2>1
      <3> QED
        BY <1>2, <3>1
    <2> QED
      BY <1>1, <2>1, <2>2
  <1>16. Cut(tokens, n, at)
    BY <1>1, <1>6, <1>9, <1>10, <1>11, <1>12, <1>13, <1>14, <1>15 DEF Cut, N
  <1> QED
    BY <1>16 DEF n, b, at

\* A document without a token has no chunk.
LEMMA NothingToCut == Chunked(<<>>) = <<>>
  <1>1. Len(<<>>) = 0
    OBVIOUS
  <1>2. Starts(<<>>) = <<>>
    BY <1>1, InOrderSteps DEF Starts
  <1> QED
    BY <1>2 DEF Chunked

\* The token of a chunk at a place is the token of the document at its own.
LEMMA TokenOf ==
  ASSUME NEW tokens \in Seq(DocTokens), NEW n, NEW at, Cut(tokens, n, at), NEW i \in 1..n
  PROVE  LET s == Chunked(tokens)[i] IN
         /\ s \in Seq(DocTokens) /\ Len(s) = at[i] - at[i - 1] /\ Len(s) \in Nat \ {0}
         /\ DOMAIN s = 1..(at[i] - at[i - 1])
         /\ \A k \in DOMAIN s : at[i - 1] + k \in 1..Len(tokens) /\ s[k] = tokens[at[i - 1] + k]
         /\ \A k \in (at[i - 1] + 1)..at[i] :
                k - at[i - 1] \in DOMAIN s /\ s[k - at[i - 1]] = tokens[k]
  <1> DEFINE s == Chunked(tokens)[i]
             a == at[i - 1]
             z == at[i]
  <1>1. n \in Nat /\ i - 1 \in 0..n /\ at \in [0..n -> 0..Len(tokens)]
    BY DEF Cut
  <1>2. a \in 0..Len(tokens) /\ z \in 0..Len(tokens) /\ a < z
    <2>1. i \in 0..n
      BY <1>1
    <2>2. a < z
      BY DEF Cut
    <2> QED
      BY <1>1, <2>1, <2>2
  <1>3. s = SubSeq(tokens, a + 1, z)
    BY DEF Cut
  <1> HIDE DEF a, z, s
  <1>4. /\ s \in Seq(DocTokens) /\ Len(s) = z - a /\ DOMAIN s = 1..(z - a)
        /\ \A k \in 1..(z - a) : s[k] = tokens[a + k] /\ a + k \in 1..Len(tokens)
    BY <1>2, <1>3
  <1>5. \A k \in (a + 1)..z : k - a \in 1..(z - a) /\ a + (k - a) = k
    BY <1>2
  <1>6. \A k \in (a + 1)..z : s[k - a] = tokens[k]
    BY <1>4, <1>5
  <1>7. z - a \in Nat \ {0}
    BY <1>2
  <1>8. /\ s \in Seq(DocTokens) /\ Len(s) = z - a /\ Len(s) \in Nat \ {0}
        /\ DOMAIN s = 1..(z - a)
        /\ \A k \in DOMAIN s : a + k \in 1..Len(tokens) /\ s[k] = tokens[a + k]
        /\ \A k \in (a + 1)..z : k - a \in DOMAIN s /\ s[k - a] = tokens[k]
    BY <1>4, <1>5, <1>6, <1>7
  <1> QED
    BY <1>8 DEF s, a, z

\* The kind and the text of a block.
LEMMA TokenTyped ==
  ASSUME NEW token \in DocTokens
  PROVE  token.is \in Titles /\ token.text \in Titles
  <1>1. CASE token \in [is : Blocks, text : {""}]
    BY <1>1 DEF Titles
  <1>2. CASE token \in [is : {"atx"}, text : Headlines]
    BY <1>2 DEF Titles
  <1>3. CASE token \in [is : {"under", "fence"}, text : Headlines \ {""}]
    BY <1>3 DEF Titles
  <1> QED
    BY <1>1, <1>2, <1>3 DEF DocTokens

\* A section is titled by the H1 it opens with, or as the document is.
LEMMA Titled ==
  ASSUME NEW span \in Seq(DocTokens), NEW default \in Titles
  PROVE  /\ TitleOf(span, default) \in Titles
         /\ Headed(span) => /\ TitleOf(span, default) = span[1].text
                            /\ 1 \in DOMAIN span /\ IsH1(span[1]) /\ span[1].text # ""
         /\ ~Headed(span) => TitleOf(span, default) = default
         /\ ~Headed(span) /\ span # <<>> /\ IsH1(span[1]) => span[1].text = ""
  <1>1. CASE Headed(span)
    <2>1. span # <<>> /\ IsH1(span[1]) /\ span[1].text # ""
      BY <1>1 DEF Headed
    <2>2. 1 \in DOMAIN span /\ span[1] \in DocTokens
      <3>1. Len(span) \in Nat /\ DOMAIN span = 1..Len(span) /\ Len(span) # 0
        BY <2>1, EmptySeq, LenProperties
      <3>2. 1 \in DOMAIN span
        BY <3>1
      <3> QED
        BY <3>2, ElementOfSeq
    <2>3. span[1].text \in Titles
      BY <2>2, TokenTyped
    <2> QED
      BY <1>1, <2>1, <2>2, <2>3 DEF TitleOf
  <1>2. CASE ~Headed(span)
    BY <1>2 DEF Headed, TitleOf
  <1> QED
    BY <1>1, <1>2

\* The title of a document is a text, wherever it is from.
LEMMA TitleTyped ==
  ASSUME NEW tokens \in Seq(DocTokens), NEW stated \in FrontTitles
  PROVE  TitleIn(stated, tokens) \in Titles
  <1> DEFINE N == Len(tokens)
             K == {i \in DOMAIN tokens : Found(tokens, i)}
             found == InOrder(K, N)
  <1>1. N \in Nat /\ DOMAIN tokens = 1..N /\ \A k \in 1..N : tokens[k] \in DocTokens
    OBVIOUS
  <1>2. ASSUME NEW token \in DocTokens
        PROVE  token.is \in Titles /\ token.text \in Titles /\ Line(token) \in Titles
    <2>1. token.is \in Titles /\ token.text \in Titles
      BY TokenTyped
    <2> QED
      BY <2>1 DEF Line
  <1>3. ASSUME NEW i \in 1..N, Found(tokens, i) PROVE Sought(tokens, i) \in Titles
    <2> DEFINE L == {k \in DOMAIN tokens : k > i /\ tokens[k].is \notin {"open", "close"}}
               lines == InOrder(L, N)
    <2>1. CASE tokens[i].text # ""
      BY <1>1, <1>2, <2>1 DEF Sought
    <2>2. CASE tokens[i].text = ""
      <3>1. LinesBehind(tokens, i) = lines
        BY DEF LinesBehind
      <3>2. lines # <<>>
        BY <1>3, <2>2, <3>1 DEF Found
      <3>3. lines \in Seq(1..N)
        <4> HIDE DEF L
        <4> QED
          BY <1>1, InOrderIs DEF Ordered
      <3> HIDE DEF lines
      <3>4. lines[1] \in 1..N
        BY <3>2, <3>3
      <3> QED
        BY <1>1, <1>2, <2>2, <3>1, <3>4 DEF Sought
    <2> QED
      BY <2>1, <2>2
  <1>4. found \in Seq(1..N) /\ \A i \in DOMAIN found : found[i] \in K
    <2> HIDE DEF K
    <2> QED
      BY <1>1, InOrderIs DEF Ordered
  <1>5. TitleIn(stated, tokens) = IF stated # "" THEN stated
                                 ELSE IF found = <<>> THEN FileTitle ELSE Sought(tokens, found[1])
    BY DEF TitleIn
  <1> HIDE DEF found
  <1>6. ASSUME found # <<>> PROVE Sought(tokens, found[1]) \in Titles
    <2>1. 1 \in DOMAIN found
      BY <1>4, <1>6
    <2>2. found[1] \in K
      BY <1>4, <2>1
    <2> QED
      BY <1>1, <1>3, <2>2
  <1> QED
    <2>1. FileTitle \in Titles /\ stated \in Titles
      BY DEF Titles
    <2> QED
      BY <1>5, <1>6, <2>1, Zenon

\* Whether a place lies in a quotation depends on what is before it.
LEMMA NestedInPrefix ==
  ASSUME NEW s \in Seq(DocTokens), NEW t \in Seq(DocTokens), NEW k \in 1..(Len(s) + 1),
         \A i \in 1..Len(s) : t[i] = s[i]
  PROVE  Nested(s, k) <=> Nested(t, k)
  <1>1. Len(s) \in Nat /\ k \in Nat /\ k - 1 <= Len(s)
    OBVIOUS
  <1>2. \A i \in 1..(k - 1) : t[i] = s[i]
    BY <1>1
  <1>3. \A j \in 1..(k - 1) : \A i \in (j + 1)..(k - 1) : t[i] = s[i]
    BY <1>1, <1>2
  <1> QED
    BY <1>2, <1>3, Zenon DEF Nested

\* A place of a chunk lies in a quotation when it does in the document, if
\* the chunk does not begin in one.
LEMMA NestedInChunk ==
  ASSUME NEW tokens, NEW span, NEW a \in Nat, NEW m \in Nat,
         \A k \in 1..m : span[k] = tokens[a + k], ~Nested(tokens, a + 1),
         NEW k \in 1..(m + 1)
  PROVE  Nested(span, k) <=> Nested(tokens, a + k)
  <1>1. ASSUME Nested(span, k) PROVE Nested(tokens, a + k)
    <2>1. PICK j \in 1..(k - 1) : /\ span[j].is = "open"
                                  /\ \A i \in (j + 1)..(k - 1) : span[i].is # "close"
      BY <1>1, Zenon DEF Nested
    <2>2. a + j \in 1..((a + k) - 1) /\ tokens[a + j].is = "open"
      BY <2>1
    <2>3. ASSUME NEW i \in ((a + j) + 1)..((a + k) - 1) PROVE tokens[i].is # "close"
      <3>1. i - a \in (j + 1)..(k - 1) /\ i - a \in 1..m /\ a + (i - a) = i
        BY <2>1
      <3> QED
        BY <2>1, <3>1
    <2> QED
      BY <2>2, <2>3, Zenon DEF Nested
  <1>2. ASSUME Nested(tokens, a + k) PROVE Nested(span, k)
    <2>1. PICK j \in 1..((a + k) - 1) : /\ tokens[j].is = "open"
                                      /\ \A i \in (j + 1)..((a + k) - 1) : tokens[i].is # "close"
      BY <1>2, Zenon DEF Nested
    <2>2. j > a
      <3> SUFFICES ASSUME j <= a PROVE FALSE
        BY <2>1
      <3>1. j \in 1..((a + 1) - 1)
        BY <2>1
      <3>2. \A i \in (j + 1)..((a + 1) - 1) : i \in (j + 1)..((a + k) - 1)
        BY <2>1
      <3>3. \A i \in (j + 1)..((a + 1) - 1) : tokens[i].is # "close"
        BY <2>1, <3>2, Zenon
      <3> QED
        BY <2>1, <3>1, <3>3, Zenon DEF Nested
    <2>3. j - a \in 1..(k - 1) /\ j - a \in 1..m /\ a + (j - a) = j
      BY <2>1, <2>2
    <2>4. span[j - a].is = "open"
      BY <2>1, <2>3
    <2>5. ASSUME NEW i \in ((j - a) + 1)..(k - 1) PROVE span[i].is # "close"
      <3>1. a + i \in (j + 1)..((a + k) - 1) /\ i \in 1..m
        BY <2>3
      <3> QED
        BY <2>1, <3>1
    <2> QED
      BY <2>3, <2>4, <2>5, Zenon DEF Nested
  <1> QED
    BY <1>1, <1>2

\* What SectionsTypeOK says of a book.
BookTyped(b) ==
    \A i \in DOMAIN b :
        /\ b[i].span \in Seq(DocTokens)
        /\ b[i].title \in Titles
        /\ b[i].anchor \in Nat /\ b[i].plain \in BOOLEAN

\* The sections of a document: one for each chunk, or one without a token.
LEMMA RenderedIs ==
  ASSUME NEW tokens \in Seq(DocTokens), NEW default \in Titles
  PROVE  LET c == IF tokens = <<>> THEN <<tokens>> ELSE Chunked(tokens)
             r == Rendered(Chunked(tokens), default)
             n == IF tokens = <<>> THEN 1 ELSE Len(Starts(tokens))
         IN  /\ DOMAIN r = 1..n /\ n \in Nat \ {0}
             /\ \A i \in 1..n :
                  /\ r[i].span = c[i] /\ r[i].title = TitleOf(c[i], default)
                  /\ r[i].anchor = i - 1
                  /\ r[i].plain = ~Wellformed(c[i], TitleOf(c[i], default))
             /\ BookTyped(r)
  <1> DEFINE c == IF tokens = <<>> THEN <<tokens>> ELSE Chunked(tokens)
             r == Rendered(Chunked(tokens), default)
             n == IF tokens = <<>> THEN 1 ELSE Len(Starts(tokens))
             at == EndsAt(tokens)
  <1>1. /\ n \in Nat \ {0} /\ DOMAIN c = 1..n /\ \A i \in 1..n : c[i] \in Seq(DocTokens)
        /\ c = IF Chunked(tokens) = <<>> THEN <<Chunked(tokens)>> ELSE Chunked(tokens)
    <2>1. CASE tokens = <<>>
      <3>1. n = 1 /\ c = <<tokens>> /\ Chunked(tokens) = <<>>
        BY <2>1, NothingToCut
      <3> QED
        BY <2>1, <3>1
    <2>2. CASE tokens # <<>>
      <3>1. n = Len(Starts(tokens)) /\ c = Chunked(tokens)
        BY <2>2
      <3>2. Cut(tokens, n, at)
        BY <2>2, <3>1, ChunksCut
      <3> HIDE DEF at, n, c
      <3>3. n \in Nat \ {0} /\ DOMAIN c = 1..n
        BY <3>1, <3>2 DEF Cut
      <3>4. \A i \in 1..n : c[i] \in Seq(DocTokens)
        BY <3>1, <3>2, TokenOf
      <3>5. Chunked(tokens) # <<>>
        BY <3>1, <3>3
      <3> QED
        BY <3>1, <3>3, <3>4, <3>5
    <2> QED
      BY <2>1, <2>2
  <1> HIDE DEF c, n
  <1>2. r = [i \in DOMAIN c |->
               [span |-> c[i], title |-> TitleOf(c[i], default), anchor |-> i - 1,
                plain |-> Plain(c, i, default)]]
    BY <1>1, Zenon DEF Rendered
  <1> HIDE DEF r
  <1>3. DOMAIN r = 1..n
    BY <1>1, <1>2, Zenon
  <1>4. \A i \in 1..n : /\ r[i].span = c[i] /\ r[i].title = TitleOf(c[i], default)
                        /\ r[i].anchor = i - 1
                        /\ r[i].plain = ~Wellformed(c[i], TitleOf(c[i], default))
    BY <1>1, <1>2, Zenon DEF Plain
  <1>5. \A i \in 1..n : TitleOf(c[i], default) \in Titles
    BY <1>1, Titled
  <1>6. \A i \in 1..n : i - 1 \in Nat
    BY <1>1
  <1>7. \A i \in 1..n : (~Wellformed(c[i], TitleOf(c[i], default))) \in BOOLEAN
    BY Zenon
  <1>8. BookTyped(r)
    BY <1>1, <1>3, <1>4, <1>5, <1>6, <1>7, Zenon DEF BookTyped
  <1> QED
    BY <1>1, <1>3, <1>4, <1>8, Zenon DEF r, c, n

\* A quotation that ends has begun, and in a document that is written every
\* one has ended; the footnotes are the parser's own; and the book is the
\* document, rendered.
SectionsInv ==
    /\ SectionsTypeOK
    /\ \A i \in DOMAIN doc : doc[i] # Block("notes")
    /\ \A i \in DOMAIN doc : doc[i].is = "close" => Nested(doc, i)
    /\ book # <<>> => /\ ~Nested(doc, Len(doc) + 1)
                      /\ book = Rendered(Chunked(Parsed), DocTitle)

\* The parser leaves the tokens where they are, its footnotes are no heading,
\* and every quotation is still whole.
LEMMA ParsedIs ==
  ASSUME doc \in Seq(DocTokens)
  PROVE  /\ Parsed \in Seq(DocTokens)
         /\ \A k \in DOMAIN doc : k \in 1..Len(Parsed) /\ Parsed[k] = doc[k]
         /\ \A k \in 1..Len(Parsed) : IsH1(Parsed[k]) => k \in DOMAIN doc
         /\ Parsed = <<>> => doc = <<>>
         /\ \A k \in 1..(Len(doc) + 1) : Nested(doc, k) <=> Nested(Parsed, k)
         /\ (\A i \in DOMAIN doc : doc[i].is = "close" => Nested(doc, i)) =>
                \A i \in 1..Len(Parsed) : Parsed[i].is = "close" => Nested(Parsed, i)
         /\ ~Nested(doc, Len(doc) + 1) => ~Nested(Parsed, Len(Parsed) + 1)
  <1> DEFINE N == Len(doc)
  <1>1. N \in Nat /\ DOMAIN doc = 1..N
    OBVIOUS
  <1>2. CASE Holds(doc, "ref")
    <2>1. Parsed = Append(doc, Block("notes"))
      BY <1>2 DEF Parsed
    <2>2. /\ Block("notes") \in DocTokens /\ ~IsH1(Block("notes"))
          /\ Block("notes").is \notin {"open", "close"}
      BY DEF Block, DocTokens, Blocks, IsH1
    <2>3. /\ Parsed \in Seq(DocTokens) /\ Len(Parsed) = N + 1
          /\ \A k \in 1..N : Parsed[k] = doc[k]
          /\ Parsed[N + 1] = Block("notes")
      BY <2>1, <2>2
    <2>4. \A k \in 1..(N + 1) : Nested(doc, k) <=> Nested(Parsed, k)
      BY <1>1, <2>3, NestedInPrefix
    <2>5. ASSUME ~Nested(doc, N + 1), Nested(Parsed, N + 2) PROVE FALSE
      <3>1. PICK j \in 1..((N + 2) - 1) :
                /\ Parsed[j].is = "open"
                /\ \A i \in (j + 1)..((N + 2) - 1) : Parsed[i].is # "close"
        BY <2>5, Zenon DEF Nested
      <3>2. j # N + 1
        BY <2>2, <2>3, <3>1
      <3>3. j \in 1..((N + 1) - 1) /\ \A i \in (j + 1)..((N + 1) - 1) : i \in (j + 1)..((N + 2) - 1)
        BY <1>1, <3>1, <3>2
      <3>4. Nested(Parsed, N + 1)
        BY <3>1, <3>3, Zenon DEF Nested
      <3> QED
        BY <1>1, <2>4, <2>5, <3>4
    <2>6. (N + 1) + 1 = N + 2
      BY <1>1
    <2>7. ASSUME \A i \in DOMAIN doc : doc[i].is = "close" => Nested(doc, i),
                 NEW i \in 1..(N + 1), Parsed[i].is = "close"
          PROVE  Nested(Parsed, i)
      <3>1. i # N + 1
        BY <2>2, <2>3, <2>7
      <3>2. i \in 1..N
        BY <1>1, <3>1
      <3>3. Nested(doc, i)
        BY <1>1, <2>3, <2>7, <3>2
      <3> QED
        BY <2>4, <3>3
    <2>8. \A k \in 1..Len(Parsed) : IsH1(Parsed[k]) => k \in DOMAIN doc
      <3>1. \A k \in 1..(N + 1) : k = N + 1 \/ k \in 1..N
        BY <1>1
      <3> QED
        BY <1>1, <2>2, <2>3, <3>1
    <2>9. Parsed # <<>> /\ \A k \in DOMAIN doc : k \in 1..Len(Parsed) /\ Parsed[k] = doc[k]
      BY <1>1, <2>3
    <2> QED
      BY <2>3, <2>4, <2>5, <2>6, <2>7, <2>8, <2>9
  <1>3. CASE ~Holds(doc, "ref")
    <2>1. Parsed = doc
      BY <1>3 DEF Parsed
    <2> QED
      BY <1>1, <2>1
  <1> QED
    BY <1>2, <1>3

\* The invariant is inductive: a book is rendered from what was parsed.
LEMMA SectionsStep ==
  ASSUME SectionsInv, [SectionsNext]_sectionVars
  PROVE  SectionsInv'
  <1> USE DEF SectionsInv, SectionsTypeOK
  <1>1. ASSUME NEW token \in DocTokens \ {Block("notes")}, TakesBlock(token)
        PROVE  SectionsInv'
    <2> DEFINE N == Len(doc)
    <2>1. /\ doc' = Append(doc, token) /\ book' = <<>> /\ front' = front
          /\ token.is = "close" => Nested(doc, N + 1)
      BY <1>1 DEF TakesBlock
    <2>2. /\ doc' \in Seq(DocTokens) /\ DOMAIN doc' = 1..(N + 1) /\ N \in Nat
          /\ \A i \in 1..N : doc'[i] = doc[i]
          /\ doc'[N + 1] = token
      BY <2>1
    <2>3. \A i \in DOMAIN doc' : i \in 1..N \/ i = N + 1
      BY <2>2
    <2>4. \A i \in DOMAIN doc' : doc'[i] # Block("notes")
      BY <2>2, <2>3
    <2>5. \A k \in 1..(N + 1) : Nested(doc, k) <=> Nested(doc', k)
      <3> DEFINE t == doc'
      <3>1. t \in Seq(DocTokens) /\ \A i \in 1..Len(doc) : t[i] = doc[i]
        BY <2>2
      <3> HIDE DEF t
      <3>2. \A k \in 1..(N + 1) : Nested(doc, k) <=> Nested(t, k)
        BY <3>1, NestedInPrefix
      <3> QED
        BY <3>2 DEF t
    <2>6. ASSUME NEW i \in DOMAIN doc', doc'[i].is = "close" PROVE Nested(doc', i)
      <3>1. CASE i \in 1..N
        <4>1. i \in DOMAIN doc /\ i \in 1..(N + 1) /\ doc[i].is = "close"
          BY <2>2, <2>6, <3>1
        <4> QED
          BY <2>5, <4>1
      <3>2. CASE i = N + 1
        <4>1. Nested(doc, N + 1) /\ N + 1 \in 1..(N + 1)
          BY <2>1, <2>2, <2>6, <3>2
        <4> QED
          BY <2>5, <3>2, <4>1
      <3> QED
        BY <2>3, <3>1, <3>2
    <2>7. DOMAIN book' = {}
      BY <2>1
    <2> QED
      BY <2>1, <2>2, <2>4, <2>6, <2>7, Zenon
  <1>2. ASSUME WriteEpub PROVE SectionsInv'
    <2>1. /\ doc' = doc /\ front' = front /\ book' = Rendered(Chunked(Parsed), DocTitle)
          /\ Parsed' = Parsed /\ DocTitle' = DocTitle /\ ~Nested(doc, Len(doc) + 1)
      BY <1>2, Zenon DEF WriteEpub, Parsed, DocTitle
    <2>2. Parsed \in Seq(DocTokens) /\ DocTitle \in Titles
      BY ParsedIs, TitleTyped DEF DocTitle
    <2>3. BookTyped(book')
      <3> DEFINE b == book'
                 p == Parsed
                 d == DocTitle
      <3>1. b = Rendered(Chunked(p), d) /\ p \in Seq(DocTokens) /\ d \in Titles
        BY <2>1, <2>2
      <3> HIDE DEF b, p, d
      <3>2. BookTyped(b)
        BY <3>1, RenderedIs
      <3> QED
        BY <3>2 DEF b
    <2>4. SectionsTypeOK'
      BY <2>1, <2>3, Zenon DEF BookTyped
    <2>5. /\ \A i \in DOMAIN doc' : doc'[i] # Block("notes")
          /\ \A i \in DOMAIN doc' : doc'[i].is = "close" => Nested(doc', i)
      BY <2>1, Zenon
    <2>6. ~Nested(doc', Len(doc') + 1) /\ book' = Rendered(Chunked(Parsed'), DocTitle')
      BY <2>1, Zenon
    <2> QED
      BY <2>4, <2>5, <2>6, Zenon
  <1>3. CASE UNCHANGED sectionVars
    <2>1. doc' = doc /\ front' = front /\ book' = book /\ Parsed' = Parsed /\ DocTitle' = DocTitle
      BY <1>3, Zenon DEF Parsed, DocTitle
    <2> QED
      BY <2>1, Zenon
  <1> QED
    BY <1>1, <1>2, <1>3, Zenon DEF SectionsNext

\* Nothing is parsed or rendered at first.
LEMMA SectionsStart == SectionsInit => SectionsInv
  <1> SUFFICES ASSUME SectionsInit PROVE SectionsInv
    OBVIOUS
  <1>1. front \in FrontTitles /\ doc = <<>> /\ book = <<>>
    BY DEF SectionsInit
  <1> QED
    BY <1>1 DEF SectionsInv, SectionsTypeOK

\* The spine leads from the first section to the last, to each its own file.
LEMMA SpineFiles ==
  ASSUME NEW n \in Nat, DOMAIN book = 1..n, \A i \in 1..n : book[i].anchor = i - 1
  PROVE  [i \in DOMAIN Spine |-> SectionFile(Spine[i]).span] = [i \in 1..n |-> book[i].span]
  <1>1. Spine = [i \in 1..n |-> book[i].anchor]
    BY DEF Spine
  <1>2. ASSUME NEW i \in 1..n PROVE SectionFile(Spine[i]) = book[i]
    <2>1. Spine[i] = i - 1
      BY <1>1
    <2>2. ToSet(book) = {book[j] : j \in 1..n}
      BY DEF ToSet
    <2>3. book[i] \in ToSet(book) /\ book[i].anchor = Spine[i]
      BY <2>1, <2>2
    <2>4. ASSUME NEW s \in ToSet(book), s.anchor = Spine[i] PROVE s = book[i]
      <3>1. PICK j \in 1..n : s = book[j]
        BY <2>2
      <3>2. j = i
        BY <2>1, <2>4, <3>1
      <3> QED
        BY <3>1, <3>2
    <2> QED
      BY <2>3, <2>4 DEF SectionFile
  <1> QED
    BY <1>1, <1>2, Zenon

\* A book is made of spans of the document, each rendered by itself; together
\* they are the document, a heading is only at the start of one, and every
\* heading is at the start of one.
BookOf(n) ==
    /\ n \in Nat \ {0} /\ DOMAIN book = 1..n
    /\ \A i \in 1..n :
           /\ book[i].span \in Seq(DocTokens)
           /\ book[i].title = TitleOf(book[i].span, DocTitle)
           /\ book[i].anchor = i - 1
           /\ book[i].plain = ~Wellformed(book[i].span, book[i].title)
           /\ \A k \in 2..Len(book[i].span) : ~IsH1(book[i].span[k])
           /\ (\A k \in DOMAIN doc : IsH1(doc[k]) => ~Nested(doc, k)) => Balanced(book[i].span)
    /\ FlattenSeq([i \in 1..n |-> book[i].span]) = Parsed
    /\ \A k \in DOMAIN doc : IsH1(doc[k]) =>
           \E i \in 1..n : 1 \in DOMAIN book[i].span /\ book[i].span[1] = doc[k]
    /\ \A i \in 1..n : Headed(book[i].span) => \E k \in DOMAIN doc : doc[k] = book[i].span[1]

\* So is a book written from no token, ...
LEMMA EmptyBook ==
  ASSUME SectionsInv, book # <<>>, Parsed = <<>>
  PROVE  BookOf(1)
  <1>1. doc = <<>> /\ doc \in Seq(DocTokens) /\ DocTitle \in Titles
    <2>1. doc \in Seq(DocTokens) /\ front \in FrontTitles
      BY DEF SectionsInv, SectionsTypeOK
    <2> QED
      BY <2>1, ParsedIs, TitleTyped DEF DocTitle
  <1> DEFINE c == <<Parsed>>
             d == DocTitle
  <1>2. /\ DOMAIN book = 1..1 /\ book[1].span = c[1] /\ book[1].title = TitleOf(c[1], d)
        /\ book[1].anchor = 1 - 1
        /\ book[1].plain = ~Wellformed(c[1], TitleOf(c[1], d))
    <2>1. book = Rendered(Chunked(Parsed), d)
      BY DEF SectionsInv
    <2>2. Parsed \in Seq(DocTokens) /\ d \in Titles /\ 1 \in 1..1
      <3>1. Parsed \in Seq(DocTokens)
        BY <1>1, ParsedIs, Zenon
      <3>2. d \in Titles
        BY <1>1, Zenon
      <3>3. 1 \in 1..1
        OBVIOUS
      <3> QED
        BY <3>1, <3>2, <3>3, Zenon
    <2> HIDE DEF d
    <2> QED
      BY <2>1, <2>2, RenderedIs
  <1>3. /\ book[1].span = <<>> /\ book[1].title = TitleOf(<<>>, d) /\ book[1].anchor = 0
        /\ book[1].plain = ~Wellformed(<<>>, TitleOf(<<>>, d)) /\ <<>> \in Seq(DocTokens)
    <2>1. c[1] = <<>> /\ 1 - 1 = 0
      OBVIOUS
    <2> HIDE DEF c, d
    <2> QED
      BY <1>2, <2>1
  <1>4. Balanced(<<>>)
    <2>1. Len(<<>>) + 1 = 1 /\ DOMAIN <<>> = {} /\ 1..(1 - 1) = {}
      OBVIOUS
    <2> QED
      BY <2>1, Zenon DEF Balanced, Nested
  <1>5. FlattenSeq([i \in 1..1 |-> book[i].span]) = Parsed
    <2> DEFINE at == [i \in 0..1 |-> 0]
    <2>2. <<>> \in Seq(DocTokens) /\ at \in [0..1 -> 0..Len(<<>>)] /\ at[0] = 0
          /\ at[1] = 0 /\ 1 \in Nat \ {0} /\ \A i \in 1..1 : at[i - 1] <= at[i]
      OBVIOUS
    <2>3. SubSeq(<<>>, 1, 0) = <<>>
      OBVIOUS
    <2>4. FlattenSeq([i \in 1..1 |-> SubSeq(<<>>, at[i - 1] + 1, at[i])]) = SubSeq(<<>>, 1, at[1])
      <3> HIDE DEF at
      <3> QED
        BY <2>2, Flattens
    <2>5. [i \in 1..1 |-> SubSeq(<<>>, at[i - 1] + 1, at[i])] = [i \in 1..1 |-> book[i].span]
      <3>1. \A i \in 1..1 : at[i - 1] = 0 /\ at[i] = 0 /\ i = 1
        OBVIOUS
      <3> HIDE DEF at
      <3>2. \A i \in 1..1 : SubSeq(<<>>, at[i - 1] + 1, at[i]) = book[i].span
        <4>1. 0 + 1 = 1
          OBVIOUS
        <4> QED
          BY <1>3, <2>3, <3>1, <4>1, Zenon
      <3> QED
        BY <3>2
    <2>6. at[1] = 0
      OBVIOUS
    <2> HIDE DEF at
    <2> QED
      BY <2>3, <2>4, <2>5, <2>6, Zenon
  <1>6. ~Headed(<<>>) /\ DOMAIN doc = {} /\ \A k \in 2..Len(<<>>) : FALSE
    BY <1>1 DEF Headed
  <1>7. \A i \in 1..1 : i = 1
    OBVIOUS
  <1>8. 1 \in Nat \ {0}
    OBVIOUS
  <1> QED
    BY <1>2, <1>3, <1>4, <1>5, <1>6, <1>7, <1>8, Zenon DEF BookOf, d

\* ... and one cut from a document: without an H1 in a quotation no cut is in
\* one, and what is cut out is whole.
LEMMA BookCut ==
  ASSUME SectionsInv, book # <<>>, Parsed # <<>>
  PROVE  \E n : BookOf(n)
  <1> DEFINE n == Len(Starts(Parsed))
             at == EndsAt(Parsed)
             N == Len(Parsed)
             d == DocTitle
  <1>1. /\ doc \in Seq(DocTokens) /\ Parsed \in Seq(DocTokens) /\ d \in Titles
        /\ DOMAIN doc = 1..Len(doc) /\ Len(doc) \in Nat /\ N \in Nat
    <2>1. doc \in Seq(DocTokens) /\ front \in FrontTitles
      BY DEF SectionsInv, SectionsTypeOK
    <2> QED
      BY <2>1, ParsedIs, TitleTyped DEF DocTitle
  <1>2. /\ \A k \in DOMAIN doc : k \in 1..N /\ Parsed[k] = doc[k]
        /\ \A k \in 1..N : IsH1(Parsed[k]) => k \in DOMAIN doc
        /\ \A k \in 1..(Len(doc) + 1) : Nested(doc, k) <=> Nested(Parsed, k)
        /\ \A k \in 1..N : Parsed[k].is = "close" => Nested(Parsed, k)
        /\ ~Nested(Parsed, N + 1)
    BY <1>1, ParsedIs DEF SectionsInv
  <1>3. Cut(Parsed, n, at)
    BY <1>1, ChunksCut
  <1>4. /\ DOMAIN book = 1..n /\ n \in Nat \ {0}
        /\ \A i \in 1..n :
             /\ book[i].span = Chunked(Parsed)[i]
             /\ book[i].title = TitleOf(Chunked(Parsed)[i], d) /\ book[i].anchor = i - 1
             /\ book[i].plain = ~Wellformed(Chunked(Parsed)[i], TitleOf(Chunked(Parsed)[i], d))
    <2>1. book = Rendered(Chunked(Parsed), d)
      BY DEF SectionsInv
    <2> HIDE DEF d
    <2> QED
      BY <1>1, <2>1, RenderedIs
  <1> HIDE DEF n, at, N, d
  <1>5. /\ n \in Nat \ {0} /\ at \in [0..n -> 0..N] /\ at[0] = 0 /\ at[n] = N
        /\ Chunked(Parsed) = [i \in 1..n |-> SubSeq(Parsed, at[i - 1] + 1, at[i])]
        /\ \A i \in 1..n : /\ at[i - 1] < at[i]
                           /\ \A k \in (at[i - 1] + 2)..at[i] : ~IsH1(Parsed[k])
        /\ \A k \in 1..N : IsH1(Parsed[k]) => \E i \in 1..n : at[i - 1] + 1 = k
        /\ \A i \in 1..n : i # n => IsH1(Parsed[at[i] + 1])
    BY <1>3, Zenon DEF Cut, N
  <1>6. \A i \in 1..n : /\ i - 1 \in 0..n /\ at[i - 1] \in 0..N /\ at[i] \in 0..N
                        /\ at[i - 1] < at[i]
    <2>1. \A i \in 1..n : i - 1 \in 0..n /\ i \in 0..n
      BY <1>5
    <2> QED
      BY <1>5, <2>1
  <1>7. ASSUME NEW i \in 1..n
        PROVE  LET s == book[i].span IN
               /\ s \in Seq(DocTokens) /\ Len(s) = at[i] - at[i - 1]
               /\ DOMAIN s = 1..(at[i] - at[i - 1])
               /\ \A k \in 1..(at[i] - at[i - 1]) :
                      at[i - 1] + k \in 1..N /\ s[k] = Parsed[at[i - 1] + k]
               /\ 1 \in DOMAIN s
    <2>1. book[i].span = Chunked(Parsed)[i]
      BY <1>4
    <2>2. LET s == Chunked(Parsed)[i] IN
          /\ s \in Seq(DocTokens) /\ Len(s) = at[i] - at[i - 1] /\ Len(s) \in Nat \ {0}
          /\ DOMAIN s = 1..(at[i] - at[i - 1])
          /\ \A k \in DOMAIN s : at[i - 1] + k \in 1..N /\ s[k] = Parsed[at[i - 1] + k]
      BY <1>1, <1>3, TokenOf DEF N
    <2>3. 1 \in 1..(at[i] - at[i - 1])
      BY <1>1, <1>6
    <2> QED
      BY <2>1, <2>2, <2>3
  <1>8. ASSUME NEW i \in 1..n, NEW k \in 2..Len(book[i].span) PROVE ~IsH1(book[i].span[k])
    <2> DEFINE m == at[i] - at[i - 1]
    <2>1. m \in Nat /\ k \in 2..m /\ k \in 1..m
      <3>1. at[i] \in Nat /\ at[i - 1] \in Nat /\ at[i - 1] < at[i]
        BY <1>1, <1>6
      <3>2. Len(book[i].span) = m
        BY <1>7, Zenon
      <3> QED
        BY <3>1, <3>2
    <2>2. at[i - 1] + k \in (at[i - 1] + 2)..at[i]
      BY <1>1, <1>6, <2>1
    <2>3. book[i].span[k] = Parsed[at[i - 1] + k]
      BY <1>7, <2>1
    <2> QED
      BY <1>5, <2>2, <2>3
  <1>9. ASSUME \A k \in DOMAIN doc : IsH1(doc[k]) => ~Nested(doc, k)
        PROVE  \A i \in 0..n : ~Nested(Parsed, at[i] + 1)
    <2>1. CASE n = 0
      BY <1>5, <2>1
    <2>2. ~Nested(Parsed, at[0] + 1)
      <3>1. at[0] + 1 = 1 /\ 1..(1 - 1) = {}
        BY <1>5
      <3> QED
        BY <3>1, Zenon DEF Nested
    <2>3. ASSUME NEW i \in 1..n, i # n PROVE ~Nested(Parsed, at[i] + 1)
      <3>1. IsH1(Parsed[at[i] + 1])
        BY <1>5, <2>3
      <3>2. at[i] + 1 \in 1..N
        <4>1. i + 1 \in 1..n /\ (i + 1) - 1 = i
          BY <1>5, <2>3
        <4>2. at[i] < at[i + 1] /\ at[i + 1] \in 0..N /\ at[i] \in 0..N
          BY <1>6, <4>1
        <4> QED
          BY <1>1, <4>2
      <3>3. at[i] + 1 \in DOMAIN doc /\ Parsed[at[i] + 1] = doc[at[i] + 1]
        BY <1>2, <3>1, <3>2
      <3>4. ~Nested(doc, at[i] + 1) /\ at[i] + 1 \in 1..(Len(doc) + 1)
        BY <1>1, <1>9, <3>1, <3>3
      <3> QED
        BY <1>2, <3>4
    <2>4. \A i \in 0..n : i = 0 \/ i = n \/ (i \in 1..n /\ i # n)
      BY <1>5
    <2> QED
      BY <1>2, <1>5, <2>2, <2>3, <2>4
  <1>10. ASSUME \A k \in DOMAIN doc : IsH1(doc[k]) => ~Nested(doc, k), NEW i \in 1..n
         PROVE  Balanced(book[i].span)
    <2> DEFINE s == book[i].span
               a == at[i - 1]
               m == at[i] - at[i - 1]
    <2>1. /\ a \in Nat /\ m \in Nat /\ a + (m + 1) = at[i] + 1 /\ Len(s) = m
          /\ DOMAIN s = 1..m /\ m + 1 \in 1..(m + 1) /\ i \in 0..n
      <3>1. at[i] \in Nat /\ at[i - 1] \in Nat /\ at[i - 1] < at[i]
        BY <1>1, <1>6
      <3>2. Len(s) = m /\ DOMAIN s = 1..m
        BY <1>7, Zenon
      <3>3. i \in 0..n
        BY <1>5
      <3>4. a \in Nat /\ m \in Nat /\ a + (m + 1) = at[i] + 1
        BY <3>1
      <3> HIDE DEF m
      <3> QED
        BY <3>2, <3>3, <3>4
    <2>2. \A k \in 1..m : a + k \in 1..N /\ s[k] = Parsed[a + k]
      BY <1>7
    <2>3. ~Nested(Parsed, a + 1) /\ ~Nested(Parsed, at[i] + 1)
      BY <1>6, <1>9, <1>10, <2>1
    <2> HIDE DEF s, a, m
    <2>4. \A k \in 1..(m + 1) : Nested(s, k) <=> Nested(Parsed, a + k)
      <3> SUFFICES ASSUME NEW k \in 1..(m + 1)
                   PROVE  Nested(s, k) <=> Nested(Parsed, a + k)
        OBVIOUS
      <3>1. \A j \in 1..m : s[j] = Parsed[a + j]
        BY <2>2, Zenon
      <3>2. a \in Nat /\ m \in Nat
        BY <2>1
      <3>3. ~Nested(Parsed, a + 1)
        BY <2>3
      <3> QED
        BY <3>1, <3>2, <3>3, NestedInChunk, Zenon
    <2>5. ~Nested(s, Len(s) + 1)
      <3>1. Len(s) + 1 = m + 1
        BY <2>1
      <3>2. ~Nested(Parsed, a + (m + 1))
        BY <2>1, <2>3, Zenon
      <3> QED
        BY <2>1, <2>4, <3>1, <3>2, Zenon
    <2>6. ASSUME NEW k \in 1..m, s[k].is = "close" PROVE Nested(s, k)
      <3>1. k \in 1..(m + 1) /\ a + k \in 1..N /\ Parsed[a + k].is = "close"
        BY <2>1, <2>2, <2>6
      <3> QED
        BY <1>2, <2>4, <3>1
    <2>7. Balanced(s)
      BY <2>1, <2>5, <2>6 DEF Balanced
    <2> QED
      BY <2>7 DEF s
  <1>11. FlattenSeq([i \in 1..n |-> book[i].span]) = Parsed
    <2>2. [i \in 1..n |-> book[i].span] = [i \in 1..n |-> SubSeq(Parsed, at[i - 1] + 1, at[i])]
      BY <1>4, <1>5, Zenon
    <2>3. ASSUME NEW i \in 1..n PROVE at[i - 1] <= at[i]
      BY <1>1, <1>6
    <2>4. FlattenSeq([i \in 1..n |-> SubSeq(Parsed, at[i - 1] + 1, at[i])])
            = SubSeq(Parsed, 1, at[n])
      BY <1>1, <1>5, <2>3, Flattens DEF N
    <2>5. SubSeq(Parsed, 1, Len(Parsed)) = Parsed
      BY <1>1
    <2> QED
      BY <1>5, <2>2, <2>4, <2>5, Zenon DEF N
  <1>12. ASSUME NEW k \in DOMAIN doc, IsH1(doc[k])
         PROVE  \E i \in 1..n : 1 \in DOMAIN book[i].span /\ book[i].span[1] = doc[k]
    <2>1. k \in 1..N /\ Parsed[k] = doc[k]
      BY <1>2
    <2>2. PICK i \in 1..n : at[i - 1] + 1 = k
      BY <1>5, <1>12, <2>1
    <2>3. 1 \in DOMAIN book[i].span /\ book[i].span[1] = Parsed[at[i - 1] + 1]
      BY <1>7
    <2> QED
      BY <2>1, <2>2, <2>3
  <1>13. ASSUME NEW i \in 1..n, Headed(book[i].span)
         PROVE  \E k \in DOMAIN doc : doc[k] = book[i].span[1]
    <2>1. book[i].span[1] = Parsed[at[i - 1] + 1] /\ at[i - 1] + 1 \in 1..N
      BY <1>7
    <2>2. IsH1(Parsed[at[i - 1] + 1])
      BY <1>13, <2>1 DEF Headed
    <2> QED
      BY <1>2, <2>1, <2>2
  <1>14. \A i \in 1..n : /\ book[i].title = TitleOf(book[i].span, d) /\ book[i].anchor = i - 1
                         /\ book[i].plain = ~Wellformed(book[i].span, book[i].title)
    BY <1>4, Zenon
  <1>15. BookOf(n)
    BY <1>4, <1>7, <1>8, <1>10, <1>11, <1>12, <1>13, <1>14, Zenon DEF BookOf, d
  <1> QED
    BY <1>15

\* Its files, in the order of the spine, are the document.
LEMMA SpineIs ==
  ASSUME NEW n, BookOf(n), DocTitle \in Titles
  PROVE  SpineIsDocument
  <1>1. /\ n \in Nat /\ DOMAIN book = 1..n
        /\ \A i \in 1..n : /\ book[i].span \in Seq(DocTokens) /\ book[i].anchor = i - 1
                           /\ book[i].title = TitleOf(book[i].span, DocTitle)
                           /\ \A k \in 2..Len(book[i].span) : ~IsH1(book[i].span[k])
        /\ FlattenSeq([i \in 1..n |-> book[i].span]) = Parsed
    BY DEF BookOf
  <1>2. FlattenSeq([i \in DOMAIN Spine |-> SectionFile(Spine[i]).span]) = Parsed
    BY <1>1, SpineFiles
  <1>3. ASSUME NEW i \in 1..n, Headed(book[i].span) PROVE Nav[i].label = book[i].span[1].text
    <2>1. Nav[i].label = book[i].title
      BY <1>1 DEF Nav
    <2> QED
      BY <1>1, <1>3, <2>1, Titled
  <1> QED
    BY <1>1, <1>2, <1>3, Zenon DEF SpineIsDocument

\* A file opens unless it is hurt, and it is plain for a cause of its own.
LEMMA FileIs ==
  ASSUME NEW n, BookOf(n), DocTitle \in Titles, NEW i \in 1..n
  PROVE  LET s == book[i] IN
         /\ ~Readable(s) <=> Hurt(s)
         /\ Hurt(s) \/ Holds(s.span, "raw") => s.plain
         /\ s.plain /\ (\A k \in DOMAIN doc : IsH1(doc[k]) => ~Nested(doc, k))
            => Hurt(s) \/ Holds(s.span, "raw")
  <1> DEFINE s == book[i]
  <1>1. /\ s.span \in Seq(DocTokens) /\ s.title = TitleOf(s.span, DocTitle)
        /\ s.plain = ~Wellformed(s.span, s.title)
        /\ (\A k \in DOMAIN doc : IsH1(doc[k]) => ~Nested(doc, k)) => Balanced(s.span)
    BY Zenon DEF BookOf
  <1> HIDE DEF s
  <1>2. ~EscapedWellformed(s.span, s.title) <=> Hurt(s)
    <2>1. CASE Headed(s.span)
      <3>1. 1 \in DOMAIN s.span /\ s.title = s.span[1].text
        BY <1>1, <2>1, Titled
      <3>2. s.title \in Unprintable => Forbidden(s.span[1])
        BY <3>1 DEF Forbidden
      <3> QED
        BY <2>1, <3>1, <3>2, Zenon DEF Hurt, EscapedWellformed
    <2>2. CASE ~Headed(s.span)
      <3>1. s.title = DocTitle
        BY <1>1, <2>2, Titled
      <3> QED
        BY <2>2, <3>1, Zenon DEF Hurt, EscapedWellformed
    <2> QED
      BY <2>1, <2>2
  <1>3. Wellformed(s.span, s.title) <=>
            EscapedWellformed(s.span, s.title) /\ ~Holds(s.span, "raw") /\ Balanced(s.span)
    BY DEF Wellformed
  <1>4. Readable(s) <=> EscapedWellformed(s.span, s.title)
    BY <1>1, <1>3, Zenon DEF Readable
  <1> QED
    BY <1>1, <1>2, <1>3, <1>4, Zenon DEF s

\* The contents hold every heading, since each is at the start of a section.
LEMMA ContentsAre ==
  ASSUME NEW n, BookOf(n), DocTitle \in Titles, doc \in Seq(DocTokens)
  PROVE  ContentsReadable <=>
            /\ DocTitle \notin Unprintable
            /\ \A k \in DOMAIN doc : IsH1(doc[k]) => doc[k].text \notin Unprintable
  <1>1. /\ DOMAIN book = 1..n
        /\ \A i \in 1..n : /\ book[i].span \in Seq(DocTokens)
                           /\ book[i].title = TitleOf(book[i].span, DocTitle)
        /\ \A k \in DOMAIN doc : IsH1(doc[k]) =>
               \E i \in 1..n : 1 \in DOMAIN book[i].span /\ book[i].span[1] = doc[k]
        /\ \A i \in 1..n : Headed(book[i].span) => \E k \in DOMAIN doc : doc[k] = book[i].span[1]
    BY Zenon DEF BookOf
  <1>2. DOMAIN Nav = 1..n /\ \A i \in 1..n : Nav[i].label = TitleOf(book[i].span, DocTitle)
    BY <1>1 DEF Nav
  <1>3. ASSUME DocTitle \notin Unprintable, NEW i \in 1..n,
               \A k \in DOMAIN doc : IsH1(doc[k]) => doc[k].text \notin Unprintable
        PROVE  Nav[i].label \notin Unprintable
    <2>1. CASE Headed(book[i].span)
      <3>1. Nav[i].label = book[i].span[1].text /\ IsH1(book[i].span[1])
        BY <1>1, <1>2, <2>1, Titled
      <3>2. PICK k \in DOMAIN doc : doc[k] = book[i].span[1]
        BY <1>1, <2>1
      <3> QED
        BY <1>3, <3>1, <3>2, Zenon
    <2>2. CASE ~Headed(book[i].span)
      <3>1. Nav[i].label = DocTitle
        BY <1>1, <1>2, <2>2, Titled
      <3> QED
        BY <1>3, <3>1
    <2> QED
      BY <2>1, <2>2
  <1>4. ASSUME ContentsReadable, NEW k \in DOMAIN doc, IsH1(doc[k])
        PROVE  doc[k].text \notin Unprintable
    <2>1. PICK i \in 1..n : 1 \in DOMAIN book[i].span /\ book[i].span[1] = doc[k]
      BY <1>1, <1>4
    <2>2. book[i].span # <<>>
      BY <2>1
    <2>3. CASE Headed(book[i].span)
      <3>1. Nav[i].label = doc[k].text
        <4>1. Nav[i].label = TitleOf(book[i].span, DocTitle)
          BY <1>2
        <4>2. TitleOf(book[i].span, DocTitle) = book[i].span[1].text
          BY <2>3 DEF TitleOf
        <4> QED
          BY <2>1, <4>1, <4>2
      <3> QED
        BY <1>2, <1>4, <3>1, Zenon DEF ContentsReadable
    <2>4. CASE ~Headed(book[i].span)
      <3>1. doc[k].text = ""
        BY <1>4, <2>1, <2>2, <2>4 DEF Headed
      <3> QED
        BY <3>1, HeadlinesAssumption
    <2> QED
      BY <2>3, <2>4
  <1> QED
    BY <1>2, <1>3, <1>4, Zenon DEF ContentsReadable

\* The properties follow, in a document without a token too.
LEMMA SectionsHold == SectionsInv => SpineIsDocument /\ DamageStaysApart
  <1> SUFFICES ASSUME SectionsInv PROVE SpineIsDocument /\ DamageStaysApart
    OBVIOUS
  <1>1. CASE book = <<>>
    <2>1. DOMAIN book = {}
      BY <1>1
    <2> QED
      BY <1>1, <2>1, Zenon DEF SpineIsDocument, DamageStaysApart
  <1>2. CASE book # <<>>
    <2>1. DocTitle \in Titles /\ doc \in Seq(DocTokens)
      BY TitleTyped DEF DocTitle, SectionsInv, SectionsTypeOK
    <2>2. PICK n : BookOf(n)
      BY <1>2, EmptyBook, BookCut, Zenon
    <2>3. DOMAIN book = 1..n
      BY <2>2 DEF BookOf
    <2>4. DamageStaysApart
      BY <2>1, <2>2, <2>3, FileIs, ContentsAre, Zenon DEF DamageStaysApart
    <2> QED
      BY <2>1, <2>2, <2>4, SpineIs
  <1> QED
    BY <1>1, <1>2

\* The invariant holds throughout.
LEMMA SectionsKept == SectionsSpec => []SectionsInv
  BY SectionsStart, SectionsStep, PTL DEF SectionsSpec

(* For any document: the files of the spine, one after the other, are the  *)
(* document, no section has an H1 but at its start, and the contents name  *)
(* each by its heading.                                                    *)
THEOREM SpineReadsTrue == SectionsSpec => []SpineIsDocument
  BY SectionsKept, SectionsHold, PTL

(* For any document: the files and the contents no reader can open are     *)
(* those that hold a forbidden character, their title counted, and a       *)
(* section loses its layout for raw markup of its own or for that, unless  *)
(* an H1 stands in a quotation or a list.                                  *)
THEOREM DamageApart == SectionsSpec => []DamageStaysApart
  BY SectionsKept, SectionsHold, PTL

-----------------------------------------------------------------------------
(* The tables. *)

USE TablesAssumption DEF tableVars

-----------------------------------------------------------------------------
(* Tables.                                                                 *)

\* Every row is as wide as the header, a table has none before its header is
\* closed, and what is shown of it stays true once it is shown.
TablesInv ==
    /\ TablesTypeOK
    /\ \A r \in DOMAIN body : Len(body[r]) = Len(heading)
    /\ inHead => body = <<>>
    /\ shown # <<>> =>
           /\ ~inHead /\ row = <<>>
           /\ shown = [grid |-> Fits, records |-> IF Fits THEN <<>> ELSE Records]

\* The rows of a table are as wide as its header.
LEMMA TableTyped ==
  ASSUME TablesInv
  PROVE  /\ heading \in Seq(Nat) /\ Len(heading) \in Nat /\ DOMAIN heading = 1..Len(heading)
         /\ Len(body) \in Nat /\ DOMAIN body = 1..Len(body)
         /\ \A r \in DOMAIN body : body[r] \in Seq(Nat) /\ Len(body[r]) = Len(heading)
  <1>1. heading \in Seq(CellWidths) /\ body \in Seq(Seq(CellWidths)) /\ CellWidths \subseteq Nat
    BY Zenon DEF TablesInv, TablesTypeOK
  <1>2. heading \in Seq(Nat)
    BY <1>1, SeqMonotonic, Zenon
  <1>3. Len(body) \in Nat /\ DOMAIN body = 1..Len(body)
    BY <1>1
  <1>4. ASSUME NEW r \in DOMAIN body PROVE body[r] \in Seq(Nat)
    <2>1. body[r] \in Seq(CellWidths)
      BY <1>1
    <2> QED
      BY <1>1, <2>1, SeqMonotonic, Zenon
  <1>5. Len(heading) \in Nat /\ DOMAIN heading = 1..Len(heading)
    BY <1>2
  <1> QED
    BY <1>2, <1>3, <1>4, <1>5, Zenon DEF TablesInv

\* The widest cell of a column is one of its cells, and no cell is wider.
LEMMA WidestIs ==
  ASSUME TablesInv, NEW c \in DOMAIN heading
  PROVE  /\ Widest(c) \in Nat
         /\ \A k \in 0..Len(body) : CellAt(c, k) \in Nat /\ CellAt(c, k) <= Widest(c)
         /\ \E k \in 0..Len(body) : CellAt(c, k) = Widest(c)
  <1> DEFINE n == Len(body) + 1
             f == [i \in 1..n |-> IF i = n THEN heading[c] ELSE body[i][c]]
             S == {heading[c]} \cup {body[r][c] : r \in DOMAIN body}
  <1>1. /\ heading[c] \in Nat /\ n \in Nat /\ n >= 1
        /\ DOMAIN body = 1..(n - 1) /\ c \in 1..Len(heading)
    BY TableTyped
  <1>2. ASSUME NEW r \in DOMAIN body PROVE body[r][c] \in Nat
    <2>1. body[r] \in Seq(Nat) /\ c \in 1..Len(body[r])
      BY <1>1, TableTyped
    <2> QED
      BY <2>1
  <1> HIDE DEF n
  <1>3. f \in [1..n -> Nat]
    <2>1. \A i \in 1..n : i = n \/ i \in DOMAIN body
      BY <1>1
    <2>2. \A i \in 1..n : f[i] \in Nat
      BY <1>1, <1>2, <2>1
    <2> QED
      BY <2>2
  <1>4. PICK m \in 1..n : \A i \in 1..n : f[i] <= f[m]
    <2> HIDE DEF f
    <2> QED
      BY <1>1, <1>3, HasGreatest
  <1>5. f[n] = heading[c] /\ \A r \in DOMAIN body : r \in 1..n /\ f[r] = body[r][c]
    BY <1>1
  <1>6. \A i \in 1..n : f[i] \in S
    <2>1. \A i \in 1..n : i = n \/ i \in DOMAIN body
      BY <1>1
    <2> QED
      BY <1>5, <2>1, Zenon
  <1>7. f[m] \in S /\ \A y \in S : f[m] >= y
    <2>1. \A y \in S : \E i \in 1..n : f[i] = y
      <3>1. n \in 1..n
        BY <1>1
      <3> QED
        BY <1>5, <3>1
    <2>2. \A i \in 1..n : f[i] \in Nat
      BY <1>3
    <2> HIDE DEF f, S
    <2>3. ASSUME NEW y \in S PROVE f[m] >= y
      <3>1. PICK i \in 1..n : f[i] = y
        BY <2>1
      <3> QED
        BY <1>4, <2>2, <3>1
    <2> QED
      BY <1>6, <2>3
  <1>8. Widest(c) = Max(S)
    BY DEF Widest
  <1> HIDE DEF S, f
  <1>9. Widest(c) \in S /\ \A y \in S : Widest(c) >= y
    BY <1>7, <1>8 DEF Max
  <1>10. S \subseteq Nat
    BY <1>1, <1>2 DEF S
  <1>11. heading[c] \in S /\ \A r \in DOMAIN body : body[r][c] \in S
    BY DEF S
  <1>12. \A k \in 0..Len(body) : k = 0 \/ k \in DOMAIN body
    BY <1>1 DEF n
  <1>13. \A y \in S : y = heading[c] \/ \E r \in DOMAIN body : y = body[r][c]
    BY DEF S
  <1>14. 0 \in 0..Len(body) /\ \A r \in DOMAIN body : r \in 0..Len(body) /\ r # 0
    BY <1>1 DEF n
  <1>15. ASSUME NEW k \in 0..Len(body)
         PROVE  CellAt(c, k) \in Nat /\ CellAt(c, k) <= Widest(c)
    <2>1. CellAt(c, k) \in S
      BY <1>11, <1>12 DEF CellAt
    <2> QED
      BY <1>9, <1>10, <2>1
  <1>16. \E k \in 0..Len(body) : CellAt(c, k) = Widest(c)
    BY <1>9, <1>13, <1>14 DEF CellAt
  <1> QED
    BY <1>9, <1>10, <1>15, <1>16

\* A column is as wide as the widest of its cells.
LEMMA WidthsAre ==
  ASSUME TablesInv
  PROVE  /\ ColumnWidths \in Seq(Nat) /\ Len(ColumnWidths) = Len(heading)
         /\ \A c \in 1..Len(heading) : ColumnWidths[c] = Widest(c)
         /\ Fits \in BOOLEAN
  <1>1. heading \in Seq(Nat) /\ Len(heading) \in Nat /\ DOMAIN heading = 1..Len(heading)
    BY TableTyped
  <1>2. \A c \in 1..Len(heading) : Widest(c) \in Nat
    BY <1>1, WidestIs
  <1>3. ColumnWidths = [c \in 1..Len(heading) |-> Widest(c)]
    BY <1>1 DEF ColumnWidths
  <1>4. ColumnWidths \in Seq(Nat) /\ Len(ColumnWidths) = Len(heading)
        /\ \A c \in 1..Len(heading) : ColumnWidths[c] = Widest(c)
    BY <1>1, <1>2, <1>3
  <1>5. Total(ColumnWidths) \in Nat
    <2>1. \A c \in 1..Len(ColumnWidths) : ColumnWidths[c] <= ColumnWidths[c]
      BY <1>4
    <2> QED
      BY <1>4, <2>1, TotalGrows
  <1>6. Fits \in BOOLEAN
    BY <1>1, <1>5 DEF Fits, EstimateWidth
  <1> QED
    BY <1>4, <1>6

\* A table fits just if any cells of its columns fit side by side.
LEMMA GridFits ==
  ASSUME TablesInv
  PROVE  Fits <=> \A at \in [DOMAIN heading -> 0..Len(body)] : SideBySide(at) <= TableColumns
  <1> DEFINE Side(at) == [c \in DOMAIN heading |-> CellAt(c, at[c])]
  <1>1. /\ heading \in Seq(Nat) /\ Len(heading) \in Nat /\ DOMAIN heading = 1..Len(heading)
        /\ Len(body) \in Nat
    BY TableTyped
  <1>2. ColumnWidths \in Seq(Nat) /\ Len(ColumnWidths) = Len(heading)
        /\ \A c \in 1..Len(heading) : ColumnWidths[c] = Widest(c)
    BY WidthsAre
  <1>3. ASSUME NEW at \in [DOMAIN heading -> 0..Len(body)]
        PROVE  /\ Total(Side(at)) \in Nat /\ Total(ColumnWidths) \in Nat
               /\ Total(Side(at)) <= Total(ColumnWidths)
    <2>1. \A c \in 1..Len(heading) : /\ CellAt(c, at[c]) \in Nat
                                     /\ CellAt(c, at[c]) <= Widest(c)
      BY <1>1, WidestIs
    <2>2. /\ Side(at) \in Seq(Nat) /\ Len(Side(at)) = Len(heading)
          /\ \A c \in 1..Len(heading) : Side(at)[c] <= ColumnWidths[c]
      BY <1>1, <1>2, <2>1
    <2> HIDE DEF Side
    <2> QED
      BY <1>2, <2>2, TotalGrows
  <1>4. ASSUME Fits, NEW at \in [DOMAIN heading -> 0..Len(body)]
        PROVE  SideBySide(at) <= TableColumns
    <2>1. SideBySide(at) = Total(Side(at)) + 3 * (Len(heading) - 1) + 4
      BY DEF SideBySide
    <2>2. Total(ColumnWidths) + 3 * (Len(heading) - 1) + 4 <= TableColumns
      BY <1>4 DEF Fits, EstimateWidth
    <2>3. TableColumns \in Nat
      OBVIOUS
    <2> HIDE DEF Side
    <2> QED
      BY <1>1, <1>3, <2>1, <2>2, <2>3
  <1>5. ASSUME \A at \in [DOMAIN heading -> 0..Len(body)] : SideBySide(at) <= TableColumns
        PROVE  Fits
    <2> DEFINE widest == [c \in DOMAIN heading |->
                            CHOOSE k \in 0..Len(body) : CellAt(c, k) = Widest(c)]
    <2>1. \A c \in DOMAIN heading :
             widest[c] \in 0..Len(body) /\ CellAt(c, widest[c]) = Widest(c)
      BY WidestIs
    <2>2. widest \in [DOMAIN heading -> 0..Len(body)]
      BY <2>1
    <2> HIDE DEF widest
    <2>3. Side(widest) = ColumnWidths
      BY <2>1 DEF ColumnWidths
    <2> QED
      BY <1>5, <2>2, <2>3 DEF Fits, EstimateWidth, SideBySide
  <1> QED
    BY <1>4, <1>5

\* A record has the cells of its row that are not empty, in their order.
LEMMA EntriesAre ==
  ASSUME NEW cells \in Seq(Nat)
  PROVE  /\ \A k, l \in DOMAIN Entries(cells) :
                k < l => Entries(cells)[k].key < Entries(cells)[l].key
         /\ \A c \in 2..Len(cells) :
                cells[c] # 0 <=> \E k \in DOMAIN Entries(cells) :
                                    /\ Entries(cells)[k].key = c
                                    /\ Entries(cells)[k].cell = cells[c]
  <1> DEFINE K == {c \in 2..Len(cells) : cells[c] # 0}
             b == InOrder(K, Len(cells))
  <1>1. /\ \A i, j \in DOMAIN b : i < j => b[i] < b[j]
        /\ \A i \in DOMAIN b : b[i] \in K
        /\ \A k \in 1..Len(cells) : k \in K => \E i \in DOMAIN b : b[i] = k
    <2>1. Len(cells) \in Nat
      OBVIOUS
    <2> HIDE DEF K
    <2> QED
      BY <2>1, InOrderIs DEF Ordered
  <1>2. Entries(cells) = [n \in DOMAIN b |-> [key |-> b[n], cell |-> cells[b[n]]]]
    BY DEF Entries, Kept
  <1> HIDE DEF b
  <1>3. DOMAIN Entries(cells) = DOMAIN b
        /\ \A n \in DOMAIN b : Entries(cells)[n].key = b[n] /\ Entries(cells)[n].cell = cells[b[n]]
    BY <1>2
  <1>4. ASSUME NEW c \in 2..Len(cells)
        PROVE  cells[c] # 0 <=> \E k \in DOMAIN Entries(cells) :
                                    /\ Entries(cells)[k].key = c
                                    /\ Entries(cells)[k].cell = cells[c]
    <2>1. c \in 1..Len(cells)
      OBVIOUS
    <2>2. c \in K <=> cells[c] # 0
      OBVIOUS
    <2> HIDE DEF K
    <2>3. ASSUME cells[c] # 0
          PROVE  \E k \in DOMAIN Entries(cells) :
                    Entries(cells)[k].key = c /\ Entries(cells)[k].cell = cells[c]
      <3>1. PICK k \in DOMAIN b : b[k] = c
        BY <1>1, <2>1, <2>2, <2>3
      <3> QED
        BY <1>3, <3>1
    <2>4. ASSUME NEW k \in DOMAIN Entries(cells), Entries(cells)[k].key = c PROVE cells[c] # 0
      BY <1>1, <1>3, <2>2, <2>4
    <2> QED
      BY <2>3, <2>4
  <1> HIDE DEF K
  <1> QED
    BY <1>1, <1>3, <1>4

\* There is no row at first, and nothing is shown.
LEMMA TablesStart == TablesInit => TablesInv
  <1> SUFFICES ASSUME TablesInit PROVE TablesInv
    OBVIOUS
  <1>1. inHead = TRUE /\ row = <<>> /\ heading = <<>> /\ body = <<>> /\ shown = <<>>
    BY DEF TablesInit
  <1> QED
    BY <1>1 DEF TablesInv, TablesTypeOK

\* The invariant is inductive.
LEMMA TablesStep ==
  ASSUME TablesInv, [TablesNext]_tableVars
  PROVE  TablesInv'
  <1> USE DEF TablesInv, TablesTypeOK
  <1>1. ASSUME NEW w \in CellWidths, Cell(w) PROVE TablesInv'
    <2>1. /\ row' \in Seq(CellWidths) /\ inHead' = inHead /\ heading' = heading
          /\ body' = body /\ shown' = shown /\ shown = <<>>
      BY <1>1 DEF Cell
    <2> QED
      BY <2>1, Zenon
  <1>2. CASE CloseHead
    <2>1. /\ heading' = row /\ row' = <<>> /\ inHead' = FALSE /\ body = <<>>
          /\ body' = body /\ shown' = shown /\ shown = <<>>
      BY <1>2, Zenon DEF CloseHead
    <2>2. row' \in Seq(CellWidths) /\ \A r \in DOMAIN body' : FALSE
      BY <2>1
    <2> QED
      BY <2>1, <2>2, Zenon
  <1>3. CASE CloseRow
    <2>1. /\ ~inHead /\ body' = Append(body, row) /\ row' = <<>> /\ Len(row) = Len(heading)
          /\ inHead' = inHead /\ heading' = heading /\ shown' = shown /\ row # <<>>
      BY <1>3, Zenon DEF CloseRow
    <2>2. body' \in Seq(Seq(CellWidths)) /\ row' \in Seq(CellWidths)
      BY <2>1
    <2>3. \A r \in DOMAIN body' : Len(body'[r]) = Len(heading')
      <3>1. \A r \in DOMAIN body' : body'[r] = row \/ (r \in DOMAIN body /\ body'[r] = body[r])
        BY <2>1
      <3> QED
        BY <2>1, <3>1
    <2>4. shown' = <<>>
      BY <2>1, Zenon
    <2> QED
      BY <2>1, <2>2, <2>3, <2>4, Zenon
  <1>4. CASE Transform
    <2> DEFINE new == [grid |-> Fits, records |-> IF Fits THEN <<>> ELSE Records]
    <2>1. /\ ~inHead /\ row = <<>> /\ shown' = new
          /\ inHead' = inHead /\ row' = row /\ heading' = heading /\ body' = body
      BY <1>4, Zenon DEF Transform
    <2>2. Fits' = Fits /\ Records' = Records
      BY <2>1, Zenon DEF Fits, EstimateWidth, ColumnWidths, Widest, Records
    <2>3. shown'.grid \in BOOLEAN
      <3>1. Fits \in BOOLEAN
        BY WidthsAre, Zenon
      <3>2. shown'.grid = Fits
        BY <2>1, Zenon
      <3> QED
        BY <3>1, <3>2, Zenon
    <2> QED
      BY <2>1, <2>2, <2>3, Zenon
  <1>5. CASE UNCHANGED tableVars
    <2>1. /\ inHead' = inHead /\ row' = row /\ heading' = heading /\ body' = body
          /\ shown' = shown
      BY <1>5, Zenon
    <2>2. Fits' = Fits /\ Records' = Records
      BY <2>1, Zenon DEF Fits, EstimateWidth, ColumnWidths, Widest, Records
    <2> QED
      BY <2>1, <2>2, Zenon
  <1> QED
    BY <1>1, <1>2, <1>3, <1>4, <1>5, Zenon DEF TablesNext

\* A grid fits, and a record keeps its cells.
LEMMA TablesHold == TablesInv => WideTableKeepsItsCells
  <1> SUFFICES ASSUME TablesInv, shown # <<>>
               PROVE  /\ shown.grid <=> \A at \in [DOMAIN heading -> 0..Len(body)] :
                                             SideBySide(at) <= TableColumns
                      /\ ~shown.grid =>
                           /\ Len(shown.records) = Len(body)
                           /\ \A r \in DOMAIN body :
                                LET entries == shown.records[r].entries IN
                                /\ shown.records[r].label = body[r][1]
                                /\ \A k, l \in DOMAIN entries :
                                      k < l => entries[k].key < entries[l].key
                                /\ \A c \in 2..Len(heading) :
                                      body[r][c] # 0 <=>
                                          \E k \in DOMAIN entries :
                                              /\ entries[k].key = c
                                              /\ entries[k].cell = body[r][c]
    BY Zenon DEF WideTableKeepsItsCells
  <1>1. shown.grid = Fits /\ shown.records = IF Fits THEN <<>> ELSE Records
    <2>1. shown = [grid |-> Fits, records |-> IF Fits THEN <<>> ELSE Records]
      BY Zenon DEF TablesInv
    <2> QED
      BY <2>1, Zenon
  <1>4. shown.grid <=> \A at \in [DOMAIN heading -> 0..Len(body)] :
                           SideBySide(at) <= TableColumns
    BY <1>1, GridFits, Zenon
  <1>2. CASE Fits
    BY <1>1, <1>2, <1>4, Zenon
  <1>3. CASE ~Fits
    <2>1. shown.records = Records
      BY <1>1, <1>3, Zenon
    <2>2. Len(Records) = Len(body)
      <3>1. Len(body) \in Nat /\ DOMAIN body = 1..Len(body)
        BY TableTyped, Zenon
      <3> QED
        BY <3>1 DEF Records
    <2>3. \A r \in DOMAIN body :
             Records[r].label = body[r][1] /\ Records[r].entries = Entries(body[r])
      BY Zenon DEF Records
    <2>4. \A r \in DOMAIN body : body[r] \in Seq(Nat) /\ Len(body[r]) = Len(heading)
      BY TableTyped, Zenon
    <2>5. ~shown.grid
      BY <1>1, <1>3, Zenon
    <2>6. ASSUME NEW r \in DOMAIN body
          PROVE  LET entries == shown.records[r].entries IN
                 /\ shown.records[r].label = body[r][1]
                 /\ \A k, l \in DOMAIN entries : k < l => entries[k].key < entries[l].key
                 /\ \A c \in 2..Len(heading) :
                       body[r][c] # 0 <=>
                           \E k \in DOMAIN entries :
                               entries[k].key = c /\ entries[k].cell = body[r][c]
      <3>1. body[r] \in Seq(Nat) /\ Len(body[r]) = Len(heading)
        BY <2>4
      <3>2. \A c \in 2..Len(body[r]) :
               body[r][c] # 0 <=>
                   \E k \in DOMAIN Entries(body[r]) :
                       /\ Entries(body[r])[k].key = c
                       /\ Entries(body[r])[k].cell = body[r][c]
        BY <3>1, EntriesAre
      <3>3. \A k, l \in DOMAIN Entries(body[r]) :
               k < l => Entries(body[r])[k].key < Entries(body[r])[l].key
        BY <3>1, EntriesAre
      <3>4. shown.records[r].entries = Entries(body[r]) /\ shown.records[r].label = body[r][1]
        BY <2>1, <2>3
      <3> QED
        BY <3>1, <3>2, <3>3, <3>4
    <2>7. Len(shown.records) = Len(body)
      BY <2>1, <2>2
    <2> QED
      BY <1>4, <2>5, <2>6, <2>7, Zenon
  <1> QED
    BY <1>2, <1>3

(* For any table, width of the cells and of the screen: a table is a grid  *)
(* just if its widest cells fit side by side, and records keep each cell   *)
(* that has text, once, under its column, in order and under the row it is *)
(* from.                                                                   *)
THEOREM WideTablesKeep == TablesSpec => []WideTableKeepsItsCells
  BY TablesStart, TablesStep, TablesHold, PTL DEF TablesSpec

HIDE TablesAssumption

-----------------------------------------------------------------------------
(* The bar charts. *)

USE ChartsAssumption
USE DEF chartVars

\* A quotient of two products, which no backend expands by itself.
LEMMA Quotient ==
  ASSUME NEW a \in Nat, NEW p \in Nat, p >= 1
  PROVE  a \div p \in Nat /\ p * (a \div p) <= a /\ a < p * ((a \div p) + 1)
  OBVIOUS

\* A greater number has no shorter bar, ...
LEMMA LongerBar ==
  ASSUME NEW a \in Nat, NEW b \in Nat, NEW p \in Nat, p >= 1, a <= b
  PROVE  a \div p <= b \div p
  <1> DEFINE q == a \div p
             r == b \div p
  <1>1. q \in Nat /\ r \in Nat /\ p * q <= a /\ b < p * (r + 1)
    BY Quotient
  <1>2. ASSUME r + 1 <= q PROVE FALSE
    <2>1. p * (r + 1) <= p * q
      BY <1>1, <1>2
    <2>2. p * (r + 1) \in Int /\ p * q \in Int
      BY <1>1
    <2> QED
      BY <1>1, <2>1, <2>2
  <1> QED
    BY <1>1, <1>2

\* ... scaled to the track, ...
LEMMA Scaled ==
  ASSUME NEW t \in Nat, NEW x \in Nat, NEW y \in Nat, x <= y
  PROVE  t * x <= t * y /\ t * x \in Nat
  OBVIOUS

\* ... and the greatest of them fills it.
LEMMA FullBar == ASSUME NEW t \in Nat, NEW p \in Nat, p >= 1 PROVE (t * p) \div p = t
  OBVIOUS

\* The format rounds to within a half.
LEMMA Rounding == ASSUME NEW x \in Int PROVE Round(x) \in Int /\ Size(10 * Round(x) - x) <= 5
  BY DEF Round, Size

\* The rows of a fence.
RowsOf == [i \in DOMAIN fence |-> Parse(fence[i])]

\* What a number is read as: what was meant, or ten times that with a point.
LEMMA ParseIs ==
  ASSUME NEW v \in Written
  PROVE  /\ Parse(v) \in Int /\ Meant(v) \in Int
         /\ Size(Parse(v)) \in Nat /\ Size(Meant(v)) \in Nat
         /\ v.sep # "." => Parse(v) = Meant(v)
         /\ v.sep = "." => Size(Parse(v)) = 10 * Size(Meant(v))
  <1>1. v.tenths \in Int
    BY DEF Written
  <1> QED
    BY <1>1 DEF Parse, Meant, Size

\* The peak is as great as any row, and not nothing: it is a row of the fence,
\* unless all of them are zero.
LEMMA PeakIs ==
  ASSUME ChartsTypeOK, fence # <<>>
  PROVE  /\ Peak(RowsOf) \in Nat /\ Peak(RowsOf) >= 1
         /\ \/ \A i \in DOMAIN fence : Size(RowsOf[i]) = 0
            \/ \E i \in DOMAIN fence : Size(RowsOf[i]) = Peak(RowsOf)
         /\ \A i \in DOMAIN fence : Size(RowsOf[i]) <= Peak(RowsOf)
  <1> DEFINE n == Len(fence)
             f == [i \in 1..n |-> Size(RowsOf[i])]
             S == {Size(RowsOf[i]) : i \in DOMAIN RowsOf}
             IsMax(s) == \A y \in S : s >= y
  <1>1. n \in Nat /\ n >= 1 /\ DOMAIN fence = 1..n /\ DOMAIN RowsOf = 1..n
    BY DEF ChartsTypeOK, RowsOf
  <1>2. \A i \in 1..n : RowsOf[i] = Parse(fence[i]) /\ fence[i] \in Written
    BY <1>1 DEF RowsOf, ChartsTypeOK
  <1>3. f \in [1..n -> Nat]
    BY <1>2, ParseIs
  <1>4. PICK m \in 1..n : \A i \in 1..n : f[i] <= f[m]
    BY <1>1, <1>3, HasGreatest
  <1>5. f[m] \in S /\ IsMax(f[m]) /\ \A i \in 1..n : f[i] \in S /\ f[i] = Size(RowsOf[i])
    BY <1>1, <1>3, <1>4
  <1>6. S \subseteq Nat
    BY <1>1, <1>2, ParseIs
  <1>7. Max(S) = CHOOSE s \in S : IsMax(s)
    BY DEF Max
  <1>8. Max(S) \in S /\ IsMax(Max(S))
    BY <1>5, <1>7
  <1>9. /\ Max(S) \in Nat
        /\ \A i \in 1..n : Size(RowsOf[i]) <= Max(S) /\ Size(RowsOf[i]) \in Nat
    BY <1>1, <1>5, <1>6, <1>8
  <1>10. Peak(RowsOf) = IF Max(S) = 0 THEN 10 ELSE Max(S)
    BY DEF Peak
  <1> HIDE DEF S
  <1>11. CASE Max(S) = 0
    <2>1. Peak(RowsOf) = 10 /\ \A i \in 1..n : Size(RowsOf[i]) <= 10 /\ Size(RowsOf[i]) = 0
      BY <1>9, <1>10, <1>11
    <2> QED
      BY <1>1, <2>1
  <1>12. CASE Max(S) # 0
    <2>1. Peak(RowsOf) = Max(S) /\ Size(RowsOf[m]) = Max(S)
      BY <1>5, <1>8, <1>9, <1>10, <1>12
    <2> QED
      BY <1>1, <1>9, <1>12, <2>1
  <1> QED
    BY <1>11, <1>12

\* What is drawn is drawn from the whole fence.
Wanted == Pad + RowHeight * Len(fence) + Pad + (IF notes THEN 44 ELSE 0)

\* The picture is drawn from the fence as it is.
Drawn ==
    picture # <<>> =>
        /\ fence # <<>>
        /\ picture.height = (IF Wanted < MaxHeight THEN Wanted ELSE MaxHeight)
        /\ picture.bars = [i \in DOMAIN fence |->
                              [length |-> (Track * Size(RowsOf[i])) \div Peak(RowsOf),
                               value |-> Round(RowsOf[i])]]

\* The inductive invariant.
ChartsInv == ChartsTypeOK /\ Drawn

\* The row of a fence, and how long and with what number it is drawn.
LEMMA Rows ==
  ASSUME ChartsTypeOK, fence # <<>>, NEW i \in DOMAIN fence
  PROVE  /\ RowsOf[i] = Parse(fence[i]) /\ RowsOf[i] \in Int /\ Size(RowsOf[i]) \in Nat
         /\ fence[i] \in Written
         /\ (Track * Size(RowsOf[i])) \div Peak(RowsOf) \in Nat
  <1>1. fence[i] \in Written /\ RowsOf[i] = Parse(fence[i])
    BY DEF ChartsTypeOK, RowsOf
  <1>2. RowsOf[i] \in Int /\ Size(RowsOf[i]) \in Nat
    BY <1>1, ParseIs
  <1>3. Peak(RowsOf) \in Nat /\ Peak(RowsOf) >= 1 /\ Track * Size(RowsOf[i]) \in Nat
    BY <1>2, PeakIs, Scaled
  <1> QED
    BY <1>1, <1>2, <1>3, Quotient

\* A picture is drawn so.
LEMMA RenderStep == ASSUME ChartsInv, RenderBars PROVE ChartsInv'
  <1> DEFINE bars == [i \in DOMAIN fence |->
                        [length |-> (Track * Size(RowsOf[i])) \div Peak(RowsOf),
                         value |-> Round(RowsOf[i])]]
             height == IF Wanted < MaxHeight THEN Wanted ELSE MaxHeight
  <1>1. /\ fence # <<>> /\ UNCHANGED <<fence, unread, notes>>
        /\ picture' = [height |-> height, bars |-> bars]
    <2>1. Len([i \in DOMAIN fence |-> Parse(fence[i])]) = Len(fence)
      BY DEF ChartsInv, ChartsTypeOK
    <2> QED
      BY <2>1 DEF RenderBars, RowsOf, Wanted
  <1>2. Wanted \in Nat /\ height \in Nat
    BY DEF ChartsInv, ChartsTypeOK, Wanted, Pad, RowHeight
  <1>3. bars \in Seq([length : Nat, value : Int])
    <2>1. ASSUME NEW i \in DOMAIN fence
          PROVE  [length |-> (Track * Size(RowsOf[i])) \div Peak(RowsOf),
                  value |-> Round(RowsOf[i])] \in [length : Nat, value : Int]
      <3>1. (Track * Size(RowsOf[i])) \div Peak(RowsOf) \in Nat /\ Round(RowsOf[i]) \in Int
        BY <1>1, Rows, Rounding DEF ChartsInv
      <3> QED
        BY <3>1
    <2>2. DOMAIN fence = 1..Len(fence) /\ Len(fence) \in Nat
      BY DEF ChartsInv, ChartsTypeOK
    <2> QED
      BY <2>1, <2>2
  <1>4. Drawn'
    <2>1. RowsOf' = RowsOf /\ Wanted' = Wanted
      BY <1>1 DEF RowsOf, Wanted
    <2>2. picture'.height = height /\ picture'.bars = bars
      BY <1>1
    <2> QED
      BY <1>1, <2>1, <2>2 DEF Drawn
  <1>5. ChartsTypeOK'
    <2>1. picture'.height = height /\ picture'.bars = bars
      BY <1>1
    <2> QED
      BY <1>1, <1>2, <1>3, <2>1 DEF ChartsInv, ChartsTypeOK
  <1> QED
    BY <1>4, <1>5 DEF ChartsInv

\* Nothing changes the fence of a picture that is drawn.
LEMMA ChartsStep == ChartsInv /\ [ChartsNext]_chartVars => ChartsInv'
  <1> SUFFICES ASSUME ChartsInv, [ChartsNext]_chartVars PROVE ChartsInv'
    OBVIOUS
  <1>1. CASE UNCHANGED chartVars
    <2>1. ChartsTypeOK'
      BY <1>1 DEF ChartsInv, ChartsTypeOK
    <2>2. RowsOf' = RowsOf /\ Wanted' = Wanted
      BY <1>1 DEF RowsOf, Wanted
    <2>3. Drawn'
      BY <1>1, <2>2 DEF ChartsInv, Drawn
    <2> QED
      BY <2>1, <2>3 DEF ChartsInv
  <1>2. ASSUME NEW v \in Written, Bar(v) PROVE ChartsInv'
    BY <1>2 DEF Bar, ChartsInv, ChartsTypeOK, Drawn
  <1>3. CASE OtherLine \/ NoteLine
    <2>1. picture' = <<>> /\ fence' = fence
      BY <1>3 DEF OtherLine, NoteLine
    <2>2. unread' \in Nat
      BY <1>3 DEF OtherLine, NoteLine, ChartsInv, ChartsTypeOK
    <2>3. notes' \in BOOLEAN
      BY <1>3, Zenon DEF OtherLine, NoteLine, ChartsInv, ChartsTypeOK
    <2> QED
      BY <2>1, <2>2, <2>3 DEF ChartsInv, ChartsTypeOK, Drawn
  <1> QED
    BY <1>1, <1>2, <1>3, RenderStep DEF ChartsNext

\* A chart that is drawn is true: its greatest bar ...
LEMMA LongestFills ==
  ASSUME ChartsInv, picture # <<>>
  PROVE  \/ \A i \in DOMAIN fence : Meant(fence[i]) = 0
         \/ \E i \in DOMAIN fence : picture.bars[i].length = Track
  <1>1. ChartsTypeOK /\ fence # <<>>
    BY DEF ChartsInv, Drawn
  <1>2. CASE \A i \in DOMAIN fence : Size(RowsOf[i]) = 0
    <2>1. ASSUME NEW i \in DOMAIN fence PROVE Meant(fence[i]) = 0
      <3>1. /\ RowsOf[i] = Parse(fence[i]) /\ fence[i] \in Written
            /\ Size(RowsOf[i]) = 0
        BY <1>1, <1>2, Rows
      <3>2. Meant(fence[i]) \in Int /\ Size(Meant(fence[i])) = 0
        BY <3>1, ParseIs
      <3> QED
        BY <3>2 DEF Size
    <2> QED
      BY <2>1
  <1>3. ASSUME NEW i \in DOMAIN fence, Size(RowsOf[i]) = Peak(RowsOf)
        PROVE  picture.bars[i].length = Track
    <2>1. picture.bars[i].length = (Track * Size(RowsOf[i])) \div Peak(RowsOf)
      BY DEF ChartsInv, Drawn
    <2>2. Peak(RowsOf) \in Nat /\ Peak(RowsOf) >= 1
      BY <1>1, PeakIs
    <2> QED
      BY <1>3, <2>1, <2>2, FullBar
  <1> QED
    BY <1>1, <1>2, <1>3, PeakIs

\* ... and every one of them.
LEMMA DrawnTrue ==
  ASSUME ChartsInv, picture # <<>>, NEW i \in DOMAIN fence
  PROVE  /\ picture.bars[i].length <= Track
         /\ \A j \in DOMAIN fence :
                Dotted(i) = Dotted(j) /\ Size(Meant(fence[i])) <= Size(Meant(fence[j]))
                    => picture.bars[i].length <= picture.bars[j].length
         /\ ~Dotted(i) => Size(10 * picture.bars[i].value - Meant(fence[i])) <= 5
         /\ ~Inside(i) =>
                picture.height = MaxHeight /\ \A j \in DOMAIN fence : j > i => ~Inside(j)
  <1> DEFINE p == Peak(RowsOf)
  <1>1. ChartsTypeOK /\ fence # <<>> /\ p \in Nat /\ p >= 1
        /\ Size(RowsOf[i]) <= p
    BY PeakIs DEF ChartsInv, Drawn
  <1>2. ASSUME NEW j \in DOMAIN fence
        PROVE  /\ picture.bars[j].length = (Track * Size(RowsOf[j])) \div p
               /\ picture.bars[j].value = Round(RowsOf[j])
    BY DEF ChartsInv, Drawn
  <1> HIDE DEF p
  <1>3. ASSUME NEW a \in Nat, NEW b \in Nat, a <= b
        PROVE  (Track * a) \div p <= (Track * b) \div p
    <2>1. Track * a \in Nat /\ Track * b \in Nat /\ Track * a <= Track * b
      BY <1>3, Scaled
    <2> QED
      BY <1>1, <2>1, LongerBar
  <1>4. picture.bars[i].length <= Track
    <2>1. (Track * Size(RowsOf[i])) \div p <= (Track * p) \div p
      BY <1>1, <1>3, Rows
    <2> QED
      BY <1>1, <1>2, <2>1, FullBar
  <1>5. ASSUME NEW j \in DOMAIN fence, Dotted(i) = Dotted(j),
               Size(Meant(fence[i])) <= Size(Meant(fence[j]))
        PROVE  picture.bars[i].length <= picture.bars[j].length
    <2>1. /\ RowsOf[i] = Parse(fence[i]) /\ Size(RowsOf[i]) \in Nat
          /\ fence[i] \in Written
      BY <1>1, Rows
    <2>2. /\ RowsOf[j] = Parse(fence[j]) /\ Size(RowsOf[j]) \in Nat
          /\ fence[j] \in Written
      BY <1>1, Rows
    <2>3. Size(Parse(fence[i])) <= Size(Parse(fence[j]))
      <3>1. CASE Dotted(i)
        <4>1. /\ Size(Parse(fence[i])) = 10 * Size(Meant(fence[i]))
              /\ Size(Parse(fence[j])) = 10 * Size(Meant(fence[j]))
          BY <1>5, <2>1, <2>2, <3>1, ParseIs DEF Dotted
        <4>2. Size(Meant(fence[i])) \in Nat /\ Size(Meant(fence[j])) \in Nat
          BY <2>1, <2>2, ParseIs
        <4> QED
          BY <1>5, <4>1, <4>2
      <3>2. CASE ~Dotted(i)
        <4>1. Parse(fence[i]) = Meant(fence[i]) /\ Parse(fence[j]) = Meant(fence[j])
          BY <1>5, <2>1, <2>2, <3>2, ParseIs DEF Dotted
        <4> QED
          BY <1>5, <4>1
      <3> QED
        BY <3>1, <3>2
    <2> QED
      BY <1>2, <1>3, <2>1, <2>2, <2>3
  <1>6. ASSUME ~Dotted(i)
        PROVE  Size(10 * picture.bars[i].value - Meant(fence[i])) <= 5
    <2>1. RowsOf[i] = Meant(fence[i]) /\ RowsOf[i] \in Int
      BY <1>1, <1>6, Rows, ParseIs DEF Dotted
    <2> QED
      BY <1>2, <2>1, Rounding
  <1>7. ASSUME ~Inside(i)
        PROVE  picture.height = MaxHeight /\ \A j \in DOMAIN fence : j > i => ~Inside(j)
    <2>1. /\ i \in 1..Len(fence) /\ Len(fence) \in Nat
          /\ picture.height \in Nat /\ notes \in BOOLEAN
          /\ DOMAIN fence = 1..Len(fence)
      BY DEF ChartsInv, ChartsTypeOK
    <2>2. Top(i) + 34 > picture.height
      BY <1>7, <2>1 DEF Inside, Top, Pad, RowHeight
    <2>3. Wanted >= Top(i) + 34
      BY <2>1 DEF Wanted, Top, Pad, RowHeight
    <2>4. picture.height = MaxHeight
      <3>1. picture.height = (IF Wanted < MaxHeight THEN Wanted ELSE MaxHeight)
        BY DEF ChartsInv, Drawn
      <3>2. Wanted \in Nat
        BY <2>1 DEF Wanted, Pad, RowHeight
      <3> QED
        BY <2>1, <2>2, <2>3, <3>1, <3>2 DEF Top, Pad, RowHeight
    <2>5. ASSUME NEW j \in DOMAIN fence, j > i PROVE ~Inside(j)
      <3>1. i \in Nat /\ j \in Nat /\ Top(j) > Top(i)
        BY <2>1, <2>5 DEF Top, Pad, RowHeight
      <3>2. Top(i) \in Nat /\ Top(j) \in Nat
        BY <2>1, <3>1 DEF Top, Pad, RowHeight
      <3> QED
        BY <2>1, <2>2, <3>1, <3>2 DEF Inside
    <2> QED
      BY <2>4, <2>5
  <1> QED
    BY <1>4, <1>5, <1>6, <1>7

\* Nothing is drawn at first.
LEMMA ChartsStart == ChartsInit => ChartsInv
  <1>1. <<>> \in Seq(Written)
    OBVIOUS
  <1>2. 0 \in Nat /\ FALSE \in BOOLEAN
    OBVIOUS
  <1> QED
    BY <1>1, <1>2, Zenon DEF ChartsInit, ChartsInv, ChartsTypeOK, Drawn

-----------------------------------------------------------------------------
(* For any numbers: bars stay on their track, the longest fills it, and of *)
(* numbers that all have a decimal point, or all have none, the greater is *)
(* not the shorter bar; without one, what is printed is the nearest whole; *)
(* and a row is left out only below a picture of greatest height.          *)
THEOREM ChartsTrue == ChartsSpec => []ChartIsTrue
  <1>1. ChartsInv => ChartIsTrue
    BY DrawnTrue, LongestFills DEF ChartIsTrue
  <1> QED
    BY ChartsStart, ChartsStep, <1>1, PTL DEF ChartsSpec

-----------------------------------------------------------------------------
(* The parts side by side. *)

\* The parts' inductive invariants together.
ConversionInv == ReflowInv /\ PicturesInv /\ SectionsInv /\ TablesInv /\ ChartsInv

\* Each part's invariant survives a step of that part, and a step of another.
LEMMA ConversionStep == ConversionInv /\ [ConversionNext]_conversionVars => ConversionInv'
  <1> SUFFICES ASSUME ConversionInv, [ConversionNext]_conversionVars PROVE ConversionInv'
    OBVIOUS
  <1>1. /\ [ReflowNext]_reflowVars => ReflowInv'
        /\ [PicturesNext]_picVars => PicturesInv'
        /\ [SectionsNext]_sectionVars => SectionsInv'
        /\ [TablesNext]_tableVars => TablesInv'
        /\ [ChartsNext]_chartVars => ChartsInv'
    BY InvStep, PicturesStep, SectionsStep, TablesStep, ChartsStep DEF ConversionInv
  <1>2. /\ [ReflowNext]_reflowVars /\ [PicturesNext]_picVars /\ [SectionsNext]_sectionVars
        /\ [TablesNext]_tableVars /\ [ChartsNext]_chartVars
    BY DEF ConversionNext, conversionVars
  <1> QED
    BY <1>1, <1>2 DEF ConversionInv

(* Every part of the conversion keeps to its types, whichever of them a    *)
(* behaviour follows.                                                      *)
THEOREM ConversionTyped == ConversionSpec => []ConversionTypeOK
  <1>1. ConversionInit => ConversionInv
    BY InitInv, PicturesInitInv, SectionsStart, TablesStart, ChartsStart
       DEF ConversionInit, ConversionInv
  <1>2. ConversionInv => ConversionTypeOK
    BY DEF ConversionInv, ReflowInv, PicturesInv, SectionsInv, TablesInv, ChartsInv,
           ConversionTypeOK
  <1> QED
    BY <1>1, <1>2, ConversionStep, PTL DEF ConversionSpec
=============================================================================
