------------------------------ MODULE Curated ------------------------------
(***************************************************************************)
(* The manifest of curated shelves: shelves() reads the file .shelves line *)
(* by line against the names of the listing.  The lines read so far are    *)
(* kept to compare what the loop has built with what they say.             *)
(***************************************************************************)
EXTENDS Integers, Sequences, SequencesExt, Enumerate

CONSTANTS
    Names,       \* file names
    Paths,       \* paths of the listing, numbered in its order (by title)
    NameOf,      \* NameOf[p]: the name of path p: several directories may have it
    Headings,    \* what is between [ and ], "" included
    MaxLines     \* bound of the exploration

\* The empty string: before the first heading, and of a heading that is empty.
NoName == ""

ASSUME CuratedAssumption ==
    /\ Paths \subseteq Nat /\ \E n \in Paths \cup {0} : Paths \subseteq 1..n
    /\ NameOf \in [Paths -> Names] /\ NoName \in Headings

VARIABLES lines, name, note, picks, out, returned

curatedVars == <<lines, name, note, picks, out, returned>>

Lines == [is : {"heading"}, of : Headings] \cup [is : {"pick"}, of : Names]
         \cup [is : {"text"}, of : {NoName}]

\* by_name: the last path of a name replaces the others.
ByName(n) ==
    LET all == {p \in Paths : NameOf[p] = n}
    IN  IF all = {} THEN <<>> ELSE <<CHOOSE p \in all : \A q \in all : q <= p>>

CuratedTypeOK ==
    /\ lines \in Seq(Lines)
    /\ name \in Headings /\ note \in Nat /\ picks \in Seq(Paths)
    /\ out \in Seq([name : Headings, note : Nat, books : Seq(Paths)])
    /\ returned \in BOOLEAN

CuratedInit ==
    /\ lines = <<>> /\ name = NoName /\ note = 0 /\ picks = <<>> /\ out = <<>>
    /\ returned = FALSE

\* Mutant: every heading is flushed, the one that was never read included.
FlushedAll == Append(out, [name |-> name, note |-> note, books |-> picks])

Flushed ==
    IF name = NoName THEN out ELSE Append(out, [name |-> name, note |-> note, books |-> picks])

ReadsLine(line) ==
    /\ ~returned /\ Len(lines) < MaxLines
    /\ lines' = Append(lines, line)
    /\ UNCHANGED returned

Heading(h) ==
    /\ ReadsLine([is |-> "heading", of |-> h])
    /\ out' = Flushed
    /\ name' = h /\ note' = 0 /\ picks' = <<>>

Pick(n) ==
    /\ ReadsLine([is |-> "pick", of |-> n])
    /\ picks' = picks \o ByName(n)
    /\ UNCHANGED <<name, note, out>>

\* A line of description: one before the first heading is dropped.
Text ==
    /\ ReadsLine([is |-> "text", of |-> NoName])
    /\ note' = IF name = NoName THEN note ELSE note + 1
    /\ UNCHANGED <<name, picks, out>>

WithBooks(shelves) ==
    LET kept == InOrder({i \in DOMAIN shelves : shelves[i].books # <<>>}, Len(shelves))
    IN  [n \in DOMAIN kept |-> shelves[kept[n]]]

\* The last shelf is flushed, and shelves without books are left out.
Return ==
    /\ ~returned /\ returned' = TRUE
    /\ out' = WithBooks(Flushed)
    /\ UNCHANGED <<lines, name, note, picks>>

CuratedNext ==
    \/ \E h \in Headings : Heading(h)
    \/ \E n \in Names : Pick(n)
    \/ Text \/ Return

CuratedSpec == CuratedInit /\ [][CuratedNext]_curatedVars

-----------------------------------------------------------------------------
(* What the lines from heading i to the next one say. *)
Under(i) ==
    {j \in i+1..Len(lines) : \A k \in i+1..j : lines[k].is # "heading"}
OfKind(i, kinds) == InOrder({j \in Under(i) : lines[j].is = kinds}, Len(lines))
Says(i) ==
    [name |-> lines[i].of, note |-> Len(OfKind(i, "text")),
     books |-> FlattenSeq([k \in DOMAIN OfKind(i, "pick") |->
                              ByName(lines[OfKind(i, "pick")[k]].of)])]
SaysBooks(i) ==
    lines[i].is = "heading" /\ lines[i].of # NoName /\ Says(i).books # <<>>

(* The shelves shown are the named headings that have books under them, in *)
(* the manifest's order, each with its own lines: a missing file costs one *)
(* entry, and a pick outside any shelf costs nothing.                      *)
ShelvesFollowManifest ==
    returned =>
        LET said == InOrder({i \in DOMAIN lines : SaysBooks(i)}, Len(lines))
        IN  out = [k \in DOMAIN said |-> Says(said[k])]
=============================================================================
