------------------------------- MODULE Charts -------------------------------
(***************************************************************************)
(* A bars fence: _parse_bars reads its lines, render_bars draws a row for  *)
(* each that has a number.  Numbers are in tenths: a number is whole, or   *)
(* has one digit after its separator, as in the example of _parse_bars.    *)
(* Heights and widths are in pixels.                                       *)
(***************************************************************************)
EXTENDS Integers, Sequences, FiniteSetsExt

CONSTANTS
    Tenths,        \* the numbers written, in tenths, negative ones included
    MaxHeight,     \* MAX_H
    Track,         \* track_w
    MaxBars        \* bound of the exploration

ASSUME ChartsAssumption ==
    Tenths \subseteq Int /\ MaxHeight \in Nat /\ Track \in Nat

VARIABLES fence, unread, notes, picture

chartVars == <<fence, unread, notes, picture>>

\* sep is the decimal separator the number is written with, none when whole.
Written == {v \in [tenths : Tenths, sep : {"", ",", "."}] : v.sep = "" => v.tenths % 10 = 0}

\* The number a writer means, whichever separator is used.
Meant(v) == v.tenths

\* "." is dropped as a separator of thousands, "," becomes the decimal point.
Parse(v) == IF v.sep = "." THEN 10 * v.tenths ELSE v.tenths

\* Mutant: the sign of a value is kept.
SizeSigned(x) == x

Size(x) == IF x < 0 THEN -x ELSE x

ChartsTypeOK ==
    /\ fence \in Seq(Written) /\ unread \in Nat /\ notes \in BOOLEAN
    /\ picture # <<>> => /\ picture.height \in Nat
                         /\ picture.bars \in Seq([length : Nat, value : Int])

ChartsInit == fence = <<>> /\ unread = 0 /\ notes = FALSE /\ picture = <<>>

Bar(v) ==
    /\ picture = <<>> /\ Len(fence) < MaxBars
    /\ fence' = Append(fence, v)
    /\ UNCHANGED <<unread, notes, picture>>

\* A line without a bar, or whose value is not a number, is passed over.
OtherLine ==
    /\ picture = <<>> /\ unread < 1
    /\ unread' = unread + 1
    /\ UNCHANGED <<fence, notes, picture>>

NoteLine ==
    /\ picture = <<>> /\ ~notes
    /\ notes' = TRUE
    /\ UNCHANGED <<fence, unread, picture>>

Pad == 28
RowHeight == 76
Top(i) == Pad + (i - 1) * RowHeight + 14

\* Mutant: the peak is the greatest value, not the greatest size.
PeakSigned(rows) == LET m == Max({rows[i] : i \in DOMAIN rows}) IN IF m <= 0 THEN 10 ELSE m

Peak(rows) ==
    LET m == Max({Size(rows[i]) : i \in DOMAIN rows}) IN IF m = 0 THEN 10 ELSE m

\* round-half-even, as in the format ",.0f"
Round(x) ==
    LET q == x \div 10  r == x % 10
    IN  IF r > 5 \/ (r = 5 /\ q % 2 = 1) THEN q + 1 ELSE q

\* A fence without a row is left to be shown as text.
RenderBars ==
    /\ picture = <<>> /\ fence # <<>>
    /\ LET rows == [i \in DOMAIN fence |-> Parse(fence[i])]
           wanted == Pad + RowHeight * Len(rows) + Pad + IF notes THEN 44 ELSE 0
       IN picture' = [height |-> IF wanted < MaxHeight THEN wanted ELSE MaxHeight,
                      bars |-> [i \in DOMAIN rows |->
                                  [length |-> (Track * Size(rows[i])) \div Peak(rows),
                                   value |-> Round(rows[i])]]]
    /\ UNCHANGED <<fence, unread, notes>>

ChartsNext == (\E v \in Written : Bar(v)) \/ OtherLine \/ NoteLine \/ RenderBars

ChartsSpec == ChartsInit /\ [][ChartsNext]_chartVars

-----------------------------------------------------------------------------
Inside(i) == Top(i) + 34 <= picture.height

Dotted(i) == fence[i].sep = "."

(* Bars stay on their track, the longest fills it unless every number is   *)
(* zero, and of two bars that both have a decimal point, or both have none, *)
(* the greater number, signs aside, is not the shorter bar; a number       *)
(* without a point is printed to the nearest whole.  A row is left out     *)
(* only at the foot of a picture that has its greatest height.  (What is   *)
(* said of a number is said of the one meant: see PointsAreDecimal.)       *)
ChartIsTrue ==
    picture # <<>> =>
        /\ (\A i \in DOMAIN fence : Meant(fence[i]) = 0)
               \/ \E i \in DOMAIN fence : picture.bars[i].length = Track
        /\ \A i \in DOMAIN fence :
            /\ picture.bars[i].length <= Track
            /\ \A j \in DOMAIN fence :
                   Dotted(i) = Dotted(j) /\ Size(Meant(fence[i])) <= Size(Meant(fence[j]))
                       => picture.bars[i].length <= picture.bars[j].length
            /\ ~Dotted(i) => Size(10 * picture.bars[i].value - Meant(fence[i])) <= 5
            /\ ~Inside(i) =>
                   picture.height = MaxHeight /\ \A j \in DOMAIN fence : j > i => ~Inside(j)

(* As the docstring of _parse_bars gives the format, "Mei | 71.6" is a     *)
(* number with a decimal point: every number is printed to the nearest     *)
(* whole of what was meant.                                                *)
PointsAreDecimal ==
    picture # <<>> =>
        \A i \in DOMAIN fence : Size(10 * picture.bars[i].value - Meant(fence[i])) <= 5
=============================================================================
