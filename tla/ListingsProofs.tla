------------------------------ MODULE ListingsProofs ------------------------
(***************************************************************************)
(* What a reader is told is on the shelves: the kept listing of the ebooks *)
(* for any files, number of threads and lifetime of the cache; the pages of *)
(* a feed, and a walk through them, for any documents, titles and size of a *)
(* page; and the curated shelves of any manifest, listing and names.       *)
(***************************************************************************)
EXTENDS MCWebApp, AccessProofs, EnumerateProofs

\* No time is later than now.
BooksDated ==
    /\ \A f \in Files : changed[f] <= tick
    /\ listing # NoFile => listing.at <= tick
    /\ \A t \in Readers : /\ scanning[t] # NoFile => scanning[t].began <= tick
                          /\ given[t] # NoFile => given[t].at <= tick

\* A walk has what is on the disk, but of files it has yet to look at and of
\* those that changed since it began.
WalkTrue ==
    \A t \in Readers : scanning[t] # NoFile =>
        \A f \in Files \ scanning[t].left :
            changed[f] < scanning[t].began => scanning[t].got[f] = files[f]

\* The kept listing has what is on the disk, but of files changed since.
ListingTrue ==
    listing # NoFile =>
        \A f \in Files : changed[f] < listing.at => listing.books[f] = files[f]

EbooksInv == EbooksTypeOK /\ BooksDated /\ WalkTrue /\ ListingTrue /\ ListingIsRecent

USE NoFileAssumption, FilesAssumption, TTLAssumption
USE DEF ebookVars, ownerVars

\* Nothing is kept or given at first.
LEMMA EbooksInitInv == EbooksInit => EbooksInv
  BY DEF EbooksInit, EbooksInv, EbooksTypeOK, BooksDated, WalkTrue, ListingTrue, ListingIsRecent,
         NoBooks, Books

\* A listing, and a walk, are not the absence of one.
LEMMA Absence == /\ \A l \in Listings : l # NoFile
                 /\ \A w \in Walks : w # NoFile
  BY DEF Listings, Walks, Books

\* A file changes.
LEMMA ChangeStep ==
    ASSUME EbooksInv, NEW f \in Files, NEW new \in {tick, NoFile}, Change(f, new)
    PROVE  EbooksInv'
  <1> USE DEF EbooksInv, EbooksTypeOK, BooksDated, Change
  <1>1. EbooksTypeOK' /\ BooksDated'
    BY DEF Books
  <1>2. WalkTrue'
    BY DEF WalkTrue, Walks, Books
  <1>3. ListingTrue'
    BY DEF ListingTrue, Listings, Books
  <1>4. ListingIsRecent'
    BY DEF ListingIsRecent, Listings, Books
  <1> QED
    BY <1>1, <1>2, <1>3, <1>4

\* A thread is given the listing that is kept.
LEMMA ScanHitStep ==
    ASSUME EbooksInv, NEW t \in Readers, ScanHit(t)
    PROVE  EbooksInv'
  <1> USE DEF EbooksInv, EbooksTypeOK, BooksDated, ScanHit, Gives
  <1>1. listing \in Listings /\ tick - listing.at < TTL
    BY DEF Kept
  <1>2. [at |-> tick, books |-> listing.books] \in Listings
    BY <1>1 DEF Listings
  <1>3. EbooksTypeOK' /\ BooksDated'
    BY <1>2 DEF Listings
  <1>4. WalkTrue' /\ ListingTrue'
    BY DEF WalkTrue, ListingTrue
  <1>5. ListingIsRecent'
    <2> SUFFICES ASSUME NEW u \in Readers, given'[u] # NoFile, NEW f \in Files,
                        changed[f] <= given'[u].at - TTL
                 PROVE  given'[u].books[f] = files[f]
      BY DEF ListingIsRecent
    <2>1. CASE u # t
      BY <2>1 DEF ListingIsRecent
    <2>2. CASE u = t
      <3>1. given'[u] = [at |-> tick, books |-> listing.books]
        BY <2>2
      <3>2. changed[f] < listing.at
        BY <1>1, <3>1 DEF Listings
      <3> QED
        BY <1>1, <3>1, <3>2, Absence DEF ListingTrue
    <2> QED
      BY <2>1, <2>2
  <1> QED
    BY <1>3, <1>4, <1>5

\* A thread begins a walk.
LEMMA BeginStep ==
    ASSUME EbooksInv, NEW t \in Readers, ScanBegin(t)
    PROVE  EbooksInv'
  <1> USE DEF EbooksInv, EbooksTypeOK, BooksDated, ScanBegin
  <1>1. [began |-> tick, left |-> Files, got |-> NoBooks] \in Walks
    BY DEF Walks, Books, NoBooks
  <1>2. EbooksTypeOK' /\ BooksDated'
    BY <1>1
  <1>3. WalkTrue'
    BY DEF WalkTrue
  <1>4. ListingTrue' /\ ListingIsRecent'
    BY DEF ListingTrue, ListingIsRecent
  <1> QED
    BY <1>2, <1>3, <1>4

\* A walk looks at a file.
LEMMA PathStep ==
    ASSUME EbooksInv, NEW t \in Readers, ScanPath(t)
    PROVE  EbooksInv'
  <1> USE DEF EbooksInv, EbooksTypeOK, BooksDated
  <1>1. PICK f \in scanning[t].left :
            scanning' = [scanning EXCEPT ![t].left = @ \ {f}, ![t].got[f] = files[f]]
    BY DEF ScanPath
  <1>2. scanning[t] \in Walks /\ f \in Files
    BY DEF ScanPath, Walks
  <1>3. /\ scanning'[t] = [began |-> scanning[t].began, left |-> scanning[t].left \ {f},
                           got |-> [scanning[t].got EXCEPT ![f] = files[f]]]
        /\ \A u \in Readers \ {t} : scanning'[u] = scanning[u]
        /\ scanning' \in [Readers -> Walks \cup {NoFile}]
    BY <1>1, <1>2 DEF Walks, Books
  <1>4. EbooksTypeOK' /\ BooksDated'
    <2>1. EbooksTypeOK'
      BY <1>3 DEF ScanPath
    <2>2. \A u \in Readers : scanning'[u] # NoFile => scanning'[u].began <= tick
      BY <1>2, <1>3, Absence
    <2> QED
      BY <2>1, <2>2 DEF ScanPath
  <1>5. WalkTrue'
    BY <1>2, <1>3, Absence DEF ScanPath, WalkTrue, Walks, Books
  <1>6. ListingTrue' /\ ListingIsRecent'
    BY DEF ScanPath, ListingTrue, ListingIsRecent
  <1> QED
    BY <1>4, <1>5, <1>6

\* A walk ends, and its listing replaces whichever is kept.
LEMMA EndStep ==
    ASSUME EbooksInv, NEW t \in Readers, ScanEnd(t)
    PROVE  EbooksInv'
  <1> USE DEF EbooksInv, EbooksTypeOK, BooksDated, ScanEnd, Ends, Gives
  <1>1. scanning[t] \in Walks /\ scanning[t].left = {}
    OBVIOUS
  <1>2. listing' \in Listings
    BY <1>1 DEF Walks, Listings
  <1>3. EbooksTypeOK' /\ BooksDated'
    BY <1>1, <1>2 DEF Walks
  <1>4. WalkTrue'
    BY DEF WalkTrue
  <1>5. ListingTrue'
    BY <1>1 DEF ListingTrue, WalkTrue
  <1>6. ListingIsRecent'
    BY <1>1 DEF ListingIsRecent, WalkTrue, Walks
  <1> QED
    BY <1>3, <1>4, <1>5, <1>6

\* The invariant is inductive.
LEMMA EbooksStep == EbooksInv /\ [EbooksNext]_ebookVars => EbooksInv'
  <1> SUFFICES ASSUME EbooksInv, [EbooksNext]_ebookVars PROVE EbooksInv'
    OBVIOUS
  <1>1. CASE EbookTick
    BY <1>1 DEF EbookTick, EbooksInv, EbooksTypeOK, BooksDated, WalkTrue, ListingTrue,
                ListingIsRecent, Listings, Walks
  <1>2. CASE UNCHANGED ebookVars
    BY <1>2 DEF EbooksInv, EbooksTypeOK, BooksDated, WalkTrue, ListingTrue, ListingIsRecent
  <1> QED
    BY <1>1, <1>2, ChangeStep, ScanHitStep, BeginStep, PathStep, EndStep DEF EbooksNext

-----------------------------------------------------------------------------
(* The files, the walks and the listings keep their types.                 *)
THEOREM EbooksTyped == EbooksSpec => []EbooksTypeOK
  <1>1. EbooksInv => EbooksTypeOK
    BY DEF EbooksInv
  <1> QED
    BY EbooksInitInv, EbooksStep, <1>1, PTL DEF EbooksSpec

(* No thread is given a file as it was _CACHE_SECONDS or longer before it  *)
(* asked, whichever of the walks under way ends last.                      *)
THEOREM ListingsRecent == EbooksSpec => []ListingIsRecent
  <1>1. EbooksInv => ListingIsRecent
    BY DEF EbooksInv
  <1> QED
    BY EbooksInitInv, EbooksStep, <1>1, PTL DEF EbooksSpec

-----------------------------------------------------------------------------
(* The pages of a feed. *)

USE FeedDocsAssumption, FeedTitlesAssumption, FeedNoRowAssumption, FeedPageAssumption
USE DEF feedVars, writerVars, ghostVars

\* A set of naturals has a least member.
LEMMA Least ==
  ASSUME NEW T, T \subseteq Nat, T # {}
  PROVE  \E x \in T : \A y \in T : x <= y
  <1> DEFINE R == OpToRel(<, Nat)
  <1>1. IsWellFoundedOn(R, Nat)
    BY NatLessThanWellFounded, Zenon
  <1>2. \A x, y \in Nat : x < y => <<x, y>> \in R
    BY DEF OpToRel
  <1> HIDE DEF R
  <1>3. PICK x \in T : \A y \in T : ~ (<<y, x>> \in R)
    BY <1>1, WFMin
  <1>4. ASSUME NEW y \in T PROVE x <= y
    <2>1. x \in Nat /\ y \in Nat
      OBVIOUS
    <2>2. ~ (y < x)
      BY <1>2, <1>3, <2>1, Zenon
    <2> QED
      BY <2>1, <2>2
  <1> QED
    BY <1>4

\* One that is bounded has a greatest.
LEMMA Greatest ==
  ASSUME NEW T, T \subseteq Nat, T # {}, NEW n \in Nat, \A t \in T : t <= n
  PROVE  \E x \in T : \A y \in T : y <= x
  <1> DEFINE D == {n - t : t \in T}
  <1>1. D \subseteq Nat /\ D # {}
    <2>1. ASSUME NEW t \in T PROVE n - t \in Nat
      <3>1. t \in Nat /\ t <= n
        OBVIOUS
      <3> QED
        BY <3>1
    <2> QED
      BY <2>1
  <1>2. PICK x \in D : \A y \in D : x <= y
    BY <1>1, Least
  <1>3. PICK t \in T : x = n - t
    OBVIOUS
  <1>4. \A y \in T : n - y \in D
    OBVIOUS
  <1>5. ASSUME NEW y \in T PROVE y <= t
    <2>1. n - t <= n - y
      BY <1>2, <1>3, <1>4
    <2> QED
      BY <2>1
  <1> QED
    BY <1>5

\* No time is later than now, nor before the first sweep.
Times ==
    /\ clock >= 1
    /\ taken # NoRow => 1 <= taken /\ taken <= clock
    /\ \A d \in Listed : 1 <= rows[d].updated /\ rows[d].updated <= clock

\* A row is not the absence of one.
LEMMA RowsAre ==
  ASSUME FeedsTypeOK
  PROVE  /\ \A d \in Listed : rows[d] \in Row
         /\ Shelf \subseteq Listed /\ Dated \subseteq Listed /\ Shelf \subseteq Dated
         /\ Listed \subseteq Docs
         /\ IsFiniteSet(Shelf) /\ Cardinality(Shelf) \in Nat
  <1>1. IsFiniteSet(Shelf) /\ Cardinality(Shelf) \in Nat
    BY FS_Subset, FS_CardinalityType DEF Shelf, Listed
  <1> QED
    BY <1>1 DEF FeedsTypeOK, Listed, Shelf, Dated, Row

\* The Last-Modified of a shelf is the newest time of its rows.
Newest ==
    /\ Stamp \in Nat
    /\ Dated = {} => Stamp = 0
    /\ Dated # {} => \E d \in Dated : Stamp = rows[d].updated
    /\ \A d \in Dated : rows[d].updated <= Stamp

\* While the types and the times are right.
LEMMA StampIs == FeedsTypeOK /\ Times => Newest
  <1> SUFFICES ASSUME FeedsTypeOK, Times PROVE Newest
    OBVIOUS
  <1> DEFINE T == {rows[d].updated : d \in Dated}
             IsMax(s) == \A d \in Dated : rows[d].updated <= s
  <1>1. T \subseteq Nat /\ \A t \in T : t <= clock
    BY RowsAre DEF Times, Row
  <1>2. CASE Dated = {}
    BY <1>2 DEF Stamp, Newest
  <1>3. CASE Dated # {}
    <2>1. \E x \in T : \A y \in T : y <= x
      <3>1. T # {} /\ clock \in Nat
        BY <1>3 DEF FeedsTypeOK
      <3> HIDE DEF T
      <3> QED
        BY <1>1, <3>1, Greatest
    <2>2. \E x \in T : IsMax(x)
      BY <2>1
    <2>3. Stamp = CHOOSE s \in T : IsMax(s)
      BY <1>3 DEF Stamp
    <2>4. Stamp \in T /\ IsMax(Stamp)
      BY <2>2, <2>3
    <2> QED
      BY <1>1, <1>3, <2>4 DEF Newest
  <1> QED
    BY <1>2, <1>3

\* And after a step.
LEMMA StampWillBe == FeedsTypeOK' /\ Times' => Newest'
  BY StampIs, PTL

\* A page that is marked.
LEMMA Marked ==
  ASSUME NEW e \in Pages
  PROVE  /\ [e EXCEPT !.silent = TRUE] \in Pages
         /\ [e EXCEPT !.silent = TRUE].silent
  BY DEF Pages

\* A page is what the hub would serve, if its Last-Modified is the present one.
TrueTo(s, docs, n, more) ==
    s <= Stamp /\ (s = Stamp => docs = Contents(n) /\ more = More(n, Cardinality(Shelf)))

\* Nothing held, or on its way, is dated later than the shelf, unless marked.
Fresh ==
    /\ \A e \in cache : ~e.silent => TrueTo(e.stamp, e.docs, e.page, e.more)
    /\ at \in {"asked", "counted"} /\ ~silent => stamp <= Stamp
    /\ at = "counted" /\ ~silent /\ stamp = Stamp => total = Cardinality(Shelf)

FeedsInv == FeedsTypeOK /\ Times /\ Fresh

\* Two tables with the same shelf have the same pages.
LEMMA SamePages ==
  ASSUME Shelf' = Shelf, \A d \in Shelf : rows'[d] = rows[d], UNCHANGED kind
  PROVE  \A n : Contents(n)' = Contents(n)
  <1>1. \A x, y \in Shelf : Precedes(x, y)' = Precedes(x, y)
    BY DEF Precedes, ByTitle
  <1>2. ASSUME NEW d \in Shelf
        PROVE  {x \in Shelf : Precedes(x, d)}' = {x \in Shelf : Precedes(x, d)}
    BY <1>1, <1>2
  <1> QED
    BY <1>2 DEF Contents

\* What a write that is not marked does: the shelf is dated anew, or stays.
LEMMA Dating ==
  ASSUME FeedsTypeOK, Times, FeedsTypeOK', Times', UNCHANGED kind,
         \/ Stamp' > Stamp
         \/ Stamp' = Stamp /\ Shelf' = Shelf /\ \A d \in Shelf : rows'[d] = rows[d],
         Fresh, UNCHANGED <<cache, at, silent, stamp, total>>
  PROVE  Fresh'
  <1>1. Stamp \in Nat /\ Stamp' \in Nat /\ stamp \in Nat /\ \A e \in cache : e.stamp \in Nat
    <2>1. Stamp \in Nat
      BY StampIs DEF Newest
    <2>2. Stamp' \in Nat
      BY StampWillBe DEF Newest
    <2> QED
      BY <2>1, <2>2 DEF FeedsTypeOK, Pages
  <1>2. CASE Stamp' > Stamp
    BY <1>1, <1>2 DEF Fresh, TrueTo
  <1>3. CASE Stamp' = Stamp /\ Shelf' = Shelf /\ \A d \in Shelf : rows'[d] = rows[d]
    <2>1. \A n : Contents(n)' = Contents(n)
      BY <1>3, SamePages
    <2> QED
      BY <1>1, <1>3, <2>1 DEF Fresh, TrueTo, More
  <1> QED
    BY <1>2, <1>3

\* Two tables with the same dated rows have the same Last-Modified.
LEMMA SameStamp ==
  ASSUME FeedsTypeOK, Times, FeedsTypeOK', Times',
         Dated' = Dated, \A d \in Dated : rows'[d] = rows[d]
  PROVE  Stamp' = Stamp
  <1>1. Newest /\ Newest'
    BY StampIs, StampWillBe
  <1>2. CASE Dated = {}
    BY <1>1, <1>2 DEF Newest
  <1>3. CASE Dated # {}
    <2>1. PICK x \in Dated : Stamp = rows[x].updated
      BY <1>1, <1>3 DEF Newest
    <2>2. PICK y \in Dated : Stamp' = rows[y].updated
      BY <1>1, <1>3 DEF Newest
    <2>3. Stamp <= Stamp' /\ Stamp' <= Stamp /\ Stamp \in Nat /\ Stamp' \in Nat
      BY <1>1, <2>1, <2>2 DEF Newest
    <2> QED
      BY <2>3
  <1> QED
    BY <1>2, <1>3

\* A marked change frees the shelf of every promise.
LEMMA MarkedStep ==
  ASSUME FeedsTypeOK, cache' = {[e EXCEPT !.silent = TRUE] : e \in cache}, silent' = TRUE
  PROVE  Fresh'
  <1>1. ASSUME NEW e \in cache' PROVE e.silent
    <2>1. PICK f \in cache : e = [f EXCEPT !.silent = TRUE]
      OBVIOUS
    <2>2. f \in Pages
      BY DEF FeedsTypeOK
    <2> QED
      BY <2>1, <2>2, Marked
  <1> QED
    BY <1>1 DEF Fresh

\* Nothing happens before the first sweep.
LEMMA FeedsInitInv == FeedsInit => FeedsInv
  <1> SUFFICES ASSUME FeedsInit PROVE FeedsInv
    OBVIOUS
  <1> DEFINE First == [title : Titles, here : {TRUE}, updated : {1}]
  <1>1. ASSUME NEW r \in First PROVE r \in Row /\ r.updated = 1
    <2>1. {TRUE} \subseteq BOOLEAN /\ {1} \subseteq Nat
      OBVIOUS
    <2>2. First \subseteq Row
      BY <2>1, Zenon DEF Row
    <2>3. r.updated \in {1}
      BY Zenon
    <2> QED
      BY <2>2, <2>3
  <1>2. rows \in [Docs -> Row \cup {NoRow}]
    BY <1>1 DEF FeedsInit
  <1>3. FeedsTypeOK
    BY <1>2 DEF FeedsInit, FeedsTypeOK
  <1>4. Times
    <2>1. \A d \in Listed : rows[d] \in First
      BY DEF FeedsInit, Listed
    <2>2. \A d \in Listed : rows[d].updated = 1
      BY <1>1, <2>1
    <2> QED
      BY <2>2 DEF FeedsInit, Times
  <1> QED
    BY <1>3, <1>4 DEF FeedsInit, FeedsInv, Fresh

\* The table and the reader keep their types, and time goes on.
LEMMA WriteTypes ==
  ASSUME FeedsTypeOK, Times,
         NEW d \in Docs, NEW t \in Titles, NEW h \in BOOLEAN, CommitUpsert(d, t, h)
  PROVE  FeedsTypeOK' /\ Times'
  <1> DEFINE row == [title |-> t, here |-> h, updated |-> taken]
  <1>1. taken \in Nat /\ 1 <= taken /\ taken <= clock
    BY DEF CommitUpsert, WriteRow, FeedsTypeOK, Times
  <1>2. row \in Row /\ row.updated = taken
    BY <1>1, Zenon DEF Row
  <1>3. rows' = [rows EXCEPT ![d] = row]
    BY DEF CommitUpsert, WriteRow
  <1>4. cache' \in SUBSET Pages /\ silent' \in BOOLEAN /\ shifted' \in BOOLEAN
    BY Marked DEF CommitUpsert, WriteRow, Hidden, FeedsTypeOK
  <1>5. FeedsTypeOK'
    BY <1>2, <1>3, <1>4 DEF CommitUpsert, WriteRow, FeedsTypeOK
  <1>6. Times'
    <2> SUFFICES ASSUME NEW x \in Docs, rows'[x] # NoRow
                 PROVE  1 <= rows'[x].updated /\ rows'[x].updated <= clock
      BY DEF CommitUpsert, WriteRow, Times, Listed
    <2>1. CASE x = d
      BY <1>1, <1>2, <1>3, <2>1 DEF FeedsTypeOK
    <2>2. CASE x # d
      BY <1>3, <2>2 DEF FeedsTypeOK, Times, Listed
    <2> QED
      BY <2>1, <2>2
  <1> QED
    BY <1>5, <1>6

\* A write that is not marked is later than the shelf, or no change of it.
LEMMA WriteStep ==
  ASSUME FeedsInv,
         NEW d \in Docs, NEW t \in Titles, NEW h \in BOOLEAN, CommitUpsert(d, t, h)
  PROVE  FeedsInv'
  <1> DEFINE row == [title |-> t, here |-> h, updated |-> taken]
             late == \E x \in Dated : taken <= rows[x].updated
             leaves == d \in Shelf /\ ~h
  <1> USE DEF FeedsInv
  <1>1. FeedsTypeOK' /\ Times'
    BY WriteTypes
  <1>2. /\ taken \in Nat /\ 1 <= taken /\ taken # NoRow
        /\ rows' = [rows EXCEPT ![d] = row] /\ rows \in [Docs -> Row \cup {NoRow}]
        /\ UNCHANGED <<kind, at, stamp, total>>
        /\ kind \in {"collection", "search"} \/ h
        /\ Hidden(late \/ (kind = "collection" /\ leaves))
    BY DEF CommitUpsert, WriteRow, FeedsTypeOK, Times
  <1>3. row # NoRow /\ row.here = h /\ row.updated = taken
    <2>1. row \in Row
      BY <1>2, Zenon DEF Row
    <2>2. row # NoRow
      BY <2>1 DEF Row
    <2> QED
      BY <2>2, Zenon
  <1>4. CASE late \/ (kind = "collection" /\ leaves)
    BY <1>1, <1>2, <1>4, MarkedStep DEF Hidden
  <1>5. CASE ~(late \/ (kind = "collection" /\ leaves))
    <2>1. UNCHANGED <<cache, silent>>
      BY <1>2, <1>5 DEF Hidden, FeedsTypeOK
    <2>2. /\ rows'[d] = row /\ \A x \in Docs \ {d} : rows'[x] = rows[x]
          /\ Listed' = Listed \cup {d}
      BY <1>2, <1>3 DEF Listed
    <2>3. CASE d \in Dated'
      <3>1. Stamp \in Nat /\ Stamp < taken
        <4>1. CASE Dated = {}
          BY <1>2, <4>1, StampIs DEF Newest
        <4>2. CASE Dated # {}
          <5>1. PICK x \in Dated : Stamp = rows[x].updated
            BY <4>2, StampIs DEF Newest
          <5> QED
            BY <1>2, <1>5, <5>1, StampIs DEF Newest
        <4> QED
          BY <4>1, <4>2
      <3>2. Stamp' \in Nat /\ taken <= Stamp'
        BY <1>1, <1>3, <2>2, <2>3, StampWillBe DEF Newest
      <3>3. Stamp' > Stamp
        BY <1>2, <3>1, <3>2
      <3> QED
        BY <1>1, <1>2, <2>1, <3>3, Dating
    <2>4. CASE d \notin Dated'
      <3>1. kind = "collection" /\ ~h /\ d \notin Shelf
        BY <1>2, <1>3, <1>5, <2>2, <2>4 DEF Dated, Shelf
      <3>2. Shelf' = Shelf /\ \A x \in Shelf : rows'[x] = rows[x]
        BY <1>3, <2>2, <3>1 DEF Shelf, Listed
      <3>3. Stamp' = Stamp
        BY <1>1, <1>2, <3>1, <3>2, SameStamp DEF Dated
      <3> QED
        BY <1>1, <1>2, <2>1, <3>2, <3>3, Dating
    <2> QED
      BY <2>3, <2>4
  <1> QED
    BY <1>4, <1>5

\* A document deleted from outside a collection is no change of its shelf.
LEMMA DeleteStep ==
  ASSUME FeedsInv, NEW d \in Docs, DeleteRow(d)
  PROVE  FeedsInv'
  <1> USE DEF FeedsInv
  <1>1. /\ rows' = [rows EXCEPT ![d] = NoRow] /\ d \in Listed
        /\ UNCHANGED <<clock, taken, kind, at, page, stamp, total>>
        /\ Hidden(d \in Dated)
    BY DEF DeleteRow
  <1>2. /\ Listed' = Listed \ {d}
        /\ \A x \in Docs \ {d} : rows'[x] = rows[x]
    BY <1>1 DEF FeedsTypeOK, Listed
  <1>3. cache' \in SUBSET Pages /\ silent' \in BOOLEAN
    BY <1>1, Marked DEF Hidden, FeedsTypeOK
  <1>4. FeedsTypeOK'
    <2>1. rows' \in [Docs -> Row \cup {NoRow}]
      BY <1>1 DEF FeedsTypeOK
    <2>2. commits' \in Nat /\ stayed' \in SUBSET Docs
      <3>1. commits \in Nat /\ stayed \in SUBSET Docs
        BY DEF FeedsTypeOK
      <3>2. commits' = commits + 1 /\ stayed' = stayed \ {d}
        BY DEF DeleteRow
      <3> QED
        BY <3>1, <3>2
    <2>4. shifted' \in BOOLEAN
      BY Zenon DEF DeleteRow, FeedsTypeOK
    <2>3. walks' = walks /\ seen' = seen
      BY DEF DeleteRow
    <2> QED
      BY <1>1, <1>3, <2>1, <2>2, <2>3, <2>4 DEF FeedsTypeOK
  <1>5. Times'
    BY <1>1, <1>2 DEF Times, Listed
  <1>6. CASE d \in Dated
    BY <1>1, <1>4, <1>5, <1>6, MarkedStep DEF Hidden
  <1>7. CASE d \notin Dated
    <2>1. UNCHANGED <<cache, silent>>
      BY <1>1, <1>7 DEF Hidden, FeedsTypeOK
    <2>2. kind = "collection" /\ d \notin Shelf
      BY <1>1, <1>7 DEF Dated
    <2>3. Shelf' = Shelf /\ \A x \in Shelf : rows'[x] = rows[x]
      <3>1. /\ Listed' = Listed \ {d} /\ d \in Listed /\ d \notin Shelf
            /\ \A x \in Listed \ {d} : rows'[x] = rows[x]
        BY <1>1, <1>2, <2>2 DEF Listed
      <3>2. \A x : x \in Shelf' <=> x \in Shelf
        BY <3>1 DEF Shelf
      <3>3. \A x \in Shelf : x \in Listed \ {d}
        BY <3>1 DEF Shelf
      <3> QED
        BY <3>1, <3>2, <3>3
    <2>4. Stamp' = Stamp
      BY <1>1, <1>4, <1>5, <2>2, <2>3, SameStamp DEF Dated
    <2> QED
      BY <1>1, <1>4, <1>5, <2>1, <2>3, <2>4, Dating
  <1> QED
    BY <1>6, <1>7

\* The table stays as it is, and what the reader holds is still true of it.
LEMMA SameTable ==
  ASSUME UNCHANGED <<rows, kind>>
  PROVE  /\ Stamp' = Stamp /\ Shelf' = Shelf /\ Listed' = Listed
         /\ \A n : Contents(n)' = Contents(n)
  BY DEF Stamp, Dated, Shelf, Listed, Contents, Precedes, ByTitle

\* Time goes on, and an upsert takes it.
LEMMA ClockStep == ASSUME FeedsInv, FeedTick \/ TakeStamp PROVE FeedsInv'
  <1>1. /\ UNCHANGED <<rows, kind>> /\ Listed' = Listed
        /\ clock \in Nat /\ clock >= 1 /\ taken \in Nat \cup {NoRow} /\ commits \in Nat
    BY DEF FeedTick, TakeStamp, FeedsInv, FeedsTypeOK, Times, Listed
  <1>2. /\ clock' \in Nat /\ clock' >= clock /\ commits' \in Nat
        /\ taken' \in Nat \cup {NoRow}
        /\ taken' # NoRow => 1 <= taken' /\ taken' <= clock'
    <2>1. CASE FeedTick
      <3>1. clock' = clock + 1 /\ taken' = taken /\ commits' = commits
        BY <2>1 DEF FeedTick
      <3>2. taken # NoRow => taken \in Nat /\ 1 <= taken /\ taken <= clock
        BY <1>1 DEF FeedsInv, Times
      <3> QED
        BY <1>1, <3>1, <3>2
    <2>2. CASE TakeStamp
      BY <1>1, <2>2 DEF TakeStamp
    <2> QED
      BY <2>1, <2>2
  <1>3. UNCHANGED <<at, page, stamp, total, cache, walks, seen, stayed, shifted, silent>>
    BY DEF FeedTick, TakeStamp
  <1>4. FeedsTypeOK'
    BY <1>1, <1>2, <1>3 DEF FeedsInv, FeedsTypeOK
  <1>5. Times'
    <2>1. ASSUME NEW d \in Listed
          PROVE  1 <= rows[d].updated /\ rows[d].updated <= clock'
      <3>1. 1 <= rows[d].updated /\ rows[d].updated <= clock /\ rows[d].updated \in Nat
        BY RowsAre DEF FeedsInv, Times, Row
      <3> QED
        BY <1>1, <1>2, <3>1
    <2>2. clock' >= 1
      BY <1>1, <1>2
    <2> QED
      BY <1>1, <1>2, <2>1, <2>2, Zenon DEF Times
  <1> QED
    BY <1>1, <1>3, <1>4, <1>5, SameTable DEF FeedsInv, Fresh, TrueTo, More

\* A page is shown, and the next is asked for or the walk is over.
LEMMA ShowsTypes ==
  ASSUME FeedsTypeOK, NEW docs \in SUBSET Docs, NEW more, Shows(docs, more)
  PROVE  at' \in {"more", "done"} /\ page' \in Nat /\ seen' \in SUBSET Docs
  <1>1. page \in Nat /\ seen \in SUBSET Docs
    BY DEF FeedsTypeOK
  <1>2. CASE more
    BY <1>1, <1>2 DEF Shows
  <1>3. CASE ~more
    BY <1>1, <1>3 DEF Shows
  <1> QED
    BY <1>2, <1>3

\* A walk begins, or a held page is shown.
LEMMA WalkStep ==
  ASSUME FeedsInv, StartWalk \/ \E e \in cache : Hit(e)
  PROVE  FeedsInv'
  <1>1. /\ UNCHANGED <<rows, kind, clock, taken, cache, silent, stamp, total>>
        /\ at' \notin {"asked", "counted"}
    BY DEF StartWalk, Hit, Shows
  <1>2. Times'
    BY <1>1 DEF FeedsInv, Times, Listed
  <1>3. FeedsTypeOK'
    <2>1. CASE StartWalk
      <3>1. Shelf \in SUBSET Docs
        BY DEF Shelf, Listed
      <3>2. /\ at' = "more" /\ page' \in Nat /\ walks' \in Nat
            /\ seen' = {} /\ stayed' \in SUBSET Docs /\ shifted' = FALSE
            /\ commits' = commits
        BY <2>1, <3>1 DEF StartWalk, FeedsInv, FeedsTypeOK
      <3> QED
        BY <1>1, <3>2 DEF FeedsInv, FeedsTypeOK
    <2>2. ASSUME NEW e \in cache, Hit(e) PROVE FeedsTypeOK'
      <3>1. e.docs \in SUBSET Docs /\ e.silent \in BOOLEAN
        <4>1. e \in Pages
          BY DEF FeedsInv, FeedsTypeOK
        <4> QED
          BY <4>1 DEF Pages
      <3>2. at' \in {"more", "done"} /\ page' \in Nat /\ seen' \in SUBSET Docs
        BY <2>2, <3>1, ShowsTypes DEF Hit, FeedsInv
      <3>3. UNCHANGED <<commits, walks, stayed>>
        BY <2>2 DEF Hit
      <3>4. shifted' \in BOOLEAN
        BY <2>2, Zenon DEF Hit, FeedsInv, FeedsTypeOK
      <3> QED
        BY <1>1, <3>2, <3>3, <3>4 DEF FeedsInv, FeedsTypeOK
    <2> QED
      BY <2>1, <2>2
  <1> QED
    BY <1>1, <1>2, <1>3, SameTable DEF FeedsInv, Fresh, TrueTo, More

\* The HEAD is dated like the shelf, and the count is of the shelf.
LEMMA AskStep == ASSUME FeedsInv, Miss \/ Count PROVE FeedsInv'
  <1>1. Stamp \in Nat /\ Cardinality(Shelf) \in Nat
    BY StampIs, RowsAre DEF FeedsInv, Newest
  <1>2. FeedsTypeOK' /\ Times'
    BY <1>1 DEF Miss, Count, FeedsInv, FeedsTypeOK, Times, Listed
  <1> QED
    BY <1>1, <1>2, SameTable DEF Miss, Count, FeedsInv, Fresh, TrueTo, More

\* The page that is read is what its count and its shelf make it.
LEMMA SelectStep == ASSUME FeedsInv, Select PROVE FeedsInv'
  <1> DEFINE new == [page |-> page, stamp |-> stamp, docs |-> Contents(page),
                     more |-> More(page, total), silent |-> silent]
  <1>1. /\ UNCHANGED <<rows, kind, clock, taken, silent, stamp, total>>
        /\ cache' = cache \cup {new} /\ at' \notin {"asked", "counted"}
    BY DEF Select, Shows
  <1>2. Contents(page) \in SUBSET Docs /\ More(page, total) \in BOOLEAN
    BY DEF Contents, Shelf, Listed, More
  <1>3. new \in Pages
    BY <1>2, Zenon DEF FeedsInv, FeedsTypeOK, Pages
  <1>4. FeedsTypeOK' /\ Times'
    <2>1. at' \in {"more", "done"} /\ page' \in Nat /\ seen' \in SUBSET Docs
      BY <1>2, ShowsTypes DEF Select, FeedsInv
    <2>2. UNCHANGED <<commits, walks, stayed, shifted>>
      BY DEF Select
    <2>3. cache' \in SUBSET Pages
      BY <1>1, <1>3 DEF FeedsInv, FeedsTypeOK
    <2>4. FeedsTypeOK'
      BY <1>1, <2>1, <2>2, <2>3 DEF FeedsInv, FeedsTypeOK
    <2> QED
      BY <1>1, <2>4 DEF FeedsInv, Times, Listed
  <1>5. ~silent => TrueTo(stamp, Contents(page), page, More(page, total))
    BY DEF Select, FeedsInv, Fresh, TrueTo
  <1>6. ~new.silent => TrueTo(new.stamp, new.docs, new.page, new.more)
    BY <1>5, Zenon
  <1>7. \A e \in cache' : ~e.silent => TrueTo(e.stamp, e.docs, e.page, e.more)
    BY <1>1, <1>6 DEF FeedsInv, Fresh
  <1>8. \A e \in cache' : ~e.silent => TrueTo(e.stamp, e.docs, e.page, e.more)'
    BY <1>1, <1>7, SameTable DEF TrueTo, More
  <1> QED
    BY <1>1, <1>4, <1>8 DEF FeedsInv, Fresh

\* The invariant is inductive.
LEMMA FeedsStep == FeedsInv /\ [FeedsNext]_feedVars => FeedsInv'
  <1>1. FeedsInv /\ UNCHANGED feedVars => FeedsInv'
    BY SameTable DEF FeedsInv, FeedsTypeOK, Times, Fresh, TrueTo, More
  <1> QED
    BY <1>1, WriteStep, DeleteStep, ClockStep, WalkStep, AskStep, SelectStep DEF FeedsNext

-----------------------------------------------------------------------------
(* The table, the handler and the reader keep their types.                 *)
THEOREM FeedsTyped == FeedsSpec => []FeedsTypeOK
  <1>1. FeedsInv => FeedsTypeOK
    BY DEF FeedsInv
  <1> QED
    BY FeedsInitInv, FeedsStep, <1>1, PTL DEF FeedsSpec

(* A page held under the shelf's present Last-Modified is the page the hub *)
(* would serve, but after a change that Last-Modified cannot show, for any *)
(* documents, size of a page, number of walks and order of the sweep.      *)
THEOREM StalePagesExplained == FeedsSpec => []StaleOnlyWhenSilent
  <1>1. FeedsInv => StaleOnlyWhenSilent
    BY DEF FeedsInv, Fresh, TrueTo, StaleOnlyWhenSilent
  <1> QED
    BY FeedsInitInv, FeedsStep, <1>1, PTL DEF FeedsSpec

-----------------------------------------------------------------------------
(* A walk through the pages of a feed. *)

\* How many documents of the shelf come before d.
Rank(d) == Cardinality({x \in Shelf : Precedes(x, d)})

\* No row is later than the time the upsert in progress has read.
WrittenLast == taken # NoRow => \A d \in Listed : rows[d].updated <= taken

\* A walk that nothing has disturbed has yet to reach what it has not shown.
Ahead ==
    at \in {"more", "asked", "counted"} /\ ~shifted =>
        /\ page >= 1
        /\ \A d \in stayed \ seen : (page - 1) * PageSize <= Rank(d)

\* And the shelf has as many documents as were counted.
CountHolds == at = "counted" /\ ~shifted => total = Cardinality(Shelf)

\* The inductive invariant of a walk.
WalkInv == WrittenLast /\ stayed \subseteq Shelf /\ Ahead /\ CountHolds /\ WalkShowsAll

\* A rank is less than the size of the shelf.
LEMMA RankIs ==
  ASSUME FeedsTypeOK, NEW d \in Shelf
  PROVE  Rank(d) \in Nat /\ Rank(d) < Cardinality(Shelf)
  <1> DEFINE before == {x \in Shelf : Precedes(x, d)}
  <1>1. d \notin before
    <2>1. d \in Docs /\ rows[d] \in Row
      BY RowsAre DEF Shelf
    <2>3. rows[d].title \in Nat /\ rows[d].updated \in Nat /\ d \in Nat
      BY <2>1 DEF Row
    <2>2. ~Precedes(d, d)
      BY <2>3 DEF Precedes, ByTitle
    <2> QED
      BY <2>2
  <1>2. IsFiniteSet(Shelf) /\ before \subseteq Shelf \ {d}
    BY <1>1, RowsAre
  <1>3. IsFiniteSet(Shelf \ {d}) /\ Cardinality(Shelf \ {d}) = Cardinality(Shelf) - 1
    BY <1>2, FS_RemoveElement
  <1>4. Cardinality(before) <= Cardinality(Shelf \ {d}) /\ IsFiniteSet(before)
    BY <1>2, <1>3, FS_Subset
  <1>5. Cardinality(before) \in Nat /\ Cardinality(Shelf) \in Nat
    BY <1>2, <1>4, FS_CardinalityType
  <1> HIDE DEF before
  <1> QED
    BY <1>3, <1>4, <1>5 DEF Rank, before

\* Where the rank of a document puts it on the pages.
LEMMA PageOf ==
  ASSUME NEW r \in Nat, NEW p \in Nat, p >= 1, (p - 1) * PageSize <= r
  PROVE  r \div PageSize = p - 1 \/ p * PageSize <= r
  <1> DEFINE q == r \div PageSize
             m == p - 1
  <1>1. PageSize \in Nat /\ PageSize >= 1 /\ m \in Nat
    OBVIOUS
  <1>2. q \in Nat /\ PageSize * q <= r /\ r < PageSize * (q + 1)
    BY <1>1
  <1>3. CASE q = m
    BY <1>3
  <1>4. CASE q > m
    BY <1>1, <1>2, <1>4
  <1>5. CASE q < m
    BY <1>1, <1>2, <1>5
  <1> QED
    BY <1>1, <1>2, <1>3, <1>4, <1>5

\* A document keeps the ones before it, and may get others.
LEMMA RankGrows ==
  ASSUME FeedsTypeOK, NEW d, NEW b, {x \in Shelf : Precedes(x, d)} \subseteq b, b \subseteq Docs
  PROVE  Rank(d) <= Cardinality(b)
  <1>1. IsFiniteSet(b)
    BY FS_Subset
  <1> QED
    BY <1>1, FS_Subset DEF Rank

\* After a write in its time nothing that was kept has come forward.
LEMMA WriteKeepsOrder ==
  ASSUME FeedsInv, WalkInv, FeedsTypeOK',
         NEW d \in Docs, NEW t \in Titles, NEW h \in BOOLEAN, CommitUpsert(d, t, h), ~shifted'
  PROVE  \A y \in stayed' : Rank(y) <= Rank(y)'
  <1> DEFINE row == [title |-> t, here |-> h, updated |-> taken]
             late == \E x \in Dated : taken <= rows[x].updated
             leaves == d \in Shelf /\ ~h
             renamed == d \in Shelf /\ t # rows[d].title
  <1>1. /\ taken \in Nat /\ taken # NoRow
        /\ rows' = [rows EXCEPT ![d] = row] /\ rows \in [Docs -> Row \cup {NoRow}]
        /\ UNCHANGED kind /\ stayed' = stayed \ {d}
        /\ ~leaves /\ ~(renamed /\ (kind = "all" \/ late))
    BY DEF CommitUpsert, WriteRow, FeedsTypeOK, FeedsInv
  <1>2. rows'[d] = row /\ row \in Row /\ \A x \in Docs : x # d => rows'[x] = rows[x]
    <2>1. row \in Row
      BY <1>1, Zenon DEF Row
    <2> QED
      BY <1>1, <2>1
  <1>3. row.title = t /\ row.here = h /\ row.updated = taken
    BY Zenon
  <1> HIDE DEF row
  <1>4. Shelf \subseteq Shelf'
    BY <1>1, <1>2, <1>3 DEF Shelf, Listed, Row
  <1>5. ASSUME NEW y \in stayed', NEW x \in Shelf, Precedes(x, y)
        PROVE  Precedes(x, y)'
    <2>1. y \in Shelf /\ y # d /\ y \in Docs /\ rows'[y] = rows[y] /\ rows[y] \in Row
      BY <1>1, <1>2, RowsAre DEF WalkInv, FeedsInv, Shelf
    <2>2. x \in Docs /\ rows[x] \in Row /\ x \in Nat /\ y \in Nat
      BY <2>1, RowsAre DEF FeedsInv, Shelf
    <2>3. CASE x # d
      BY <1>1, <1>2, <1>5, <2>1, <2>2, <2>3 DEF Precedes, ByTitle
    <2>4. CASE x = d
      <3>1. rows[d].updated <= taken /\ rows[y].updated <= taken
        BY <1>1, <2>1, <2>4, RowsAre DEF WalkInv, WrittenLast, FeedsInv
      <3>2. /\ rows[d].updated \in Nat /\ rows[y].updated \in Nat
            /\ rows[d].title \in Nat /\ rows[y].title \in Nat /\ t \in Nat
        BY <2>1, <2>2, <2>4 DEF Row
      <3>3. CASE kind = "all"
        BY <1>1, <1>2, <1>3, <1>5, <2>1, <2>4, <3>3 DEF Precedes, ByTitle
      <3>4. CASE kind # "all" /\ rows[y].updated < taken
        BY <1>1, <1>2, <1>3, <2>1, <2>4, <3>2, <3>4 DEF Precedes
      <3>5. CASE kind # "all" /\ rows[y].updated = taken
        <4>1. t = rows[d].title
          BY <1>1, <2>1, <2>4, <3>2, <3>5, RowsAre DEF FeedsInv
        <4>2. rows[d].updated = taken /\ ByTitle(d, y)
          BY <1>5, <2>4, <3>1, <3>2, <3>5 DEF Precedes
        <4> QED
          BY <1>1, <1>2, <1>3, <2>1, <2>4, <3>5, <4>1, <4>2 DEF Precedes, ByTitle
      <3> QED
        BY <1>1, <3>1, <3>2, <3>3, <3>4, <3>5
    <2> QED
      BY <2>3, <2>4
  <1>6. ASSUME NEW y \in stayed' PROVE Rank(y) <= Rank(y)'
    <2> DEFINE b == {x \in Shelf' : Precedes(x, y)'}
    <2>1. {x \in Shelf : Precedes(x, y)} \subseteq b
      BY <1>4, <1>5
    <2>2. b \subseteq Docs
      BY DEF Shelf, Listed
    <2>3. Rank(y) <= Cardinality(b)
      <3> HIDE DEF b
      <3> QED
        BY <2>1, <2>2, RankGrows DEF FeedsInv
    <2> QED
      BY <2>3 DEF Rank
  <1> QED
    BY <1>6

\* The ranks of a shelf, before and after a step.
RanksFit == \A d \in Shelf : Rank(d) \in Nat /\ Rank(d) < Cardinality(Shelf)

\* Ranks are numbers below the size of the shelf, before a step ...
LEMMA RanksAre == FeedsTypeOK => RanksFit
  BY RankIs DEF RanksFit

\* ... and after it.
LEMMA RanksWillBe == FeedsTypeOK' => RanksFit'
  BY RanksAre, PTL

\* The two parts of the invariant that are about ranks, after a change of the table.
LEMMA StillAhead ==
  ASSUME FeedsTypeOK, FeedsTypeOK', WalkInv, stayed' \subseteq stayed, stayed' \subseteq Shelf',
         UNCHANGED <<at, page, seen>>, ~shifted' => ~shifted,
         ~shifted' => \A y \in stayed' : Rank(y) <= Rank(y)'
  PROVE  Ahead' /\ WalkShowsAll'
  <1>1. WalkShowsAll'
    BY DEF WalkInv, WalkShowsAll
  <1>2. ASSUME at \in {"more", "asked", "counted"}, ~shifted', NEW y \in stayed' \ seen
        PROVE  (page - 1) * PageSize <= Rank(y)'
    <2>1. Rank(y) \in Nat /\ Rank(y)' \in Nat /\ Rank(y) <= Rank(y)'
      BY <1>2, RanksAre, RanksWillBe DEF WalkInv, RanksFit
    <2>2. (page - 1) * PageSize <= Rank(y)
      BY <1>2 DEF WalkInv, Ahead
    <2>3. (page - 1) * PageSize \in Int
      BY DEF FeedsTypeOK
    <2> QED
      BY <2>1, <2>2, <2>3
  <1> QED
    BY <1>1, <1>2 DEF Ahead, WalkInv

\* A write that does not disturb the walk moves no document of the shelf towards
\* its beginning, past what was shown, but the one it writes.
LEMMA WriteWalks ==
  ASSUME FeedsInv, FeedsTypeOK', WalkInv,
         NEW d \in Docs, NEW t \in Titles, NEW h \in BOOLEAN, CommitUpsert(d, t, h)
  PROVE  WalkInv'
  <1> DEFINE row == [title |-> t, here |-> h, updated |-> taken]
  <1>1. /\ taken' = NoRow /\ stayed' = stayed \ {d}
        /\ UNCHANGED <<at, page, seen, total, kind>>
        /\ rows' = [rows EXCEPT ![d] = row]
    BY DEF CommitUpsert, WriteRow
  <1>2. ~shifted' => /\ ~shifted /\ (d \in Shelf => h)
                     /\ at = "counted" => (d \in Shelf <=> h)
    BY DEF CommitUpsert, WriteRow
  <1>3. rows'[d] = row /\ row # NoRow /\ row.here = h /\ \A x \in Docs : x # d => rows'[x] = rows[x]
    <2>1. row \in Row
      <3>1. taken \in Nat
        BY DEF CommitUpsert, WriteRow, FeedsInv, FeedsTypeOK
      <3> QED
        BY <3>1, Zenon DEF Row
    <2>2. row.here = h
      BY Zenon
    <2> QED
      BY <1>1, <2>1, <2>2 DEF FeedsInv, FeedsTypeOK, Row
  <1> HIDE DEF row
  <1>4. WrittenLast'
    BY <1>1 DEF WrittenLast
  <1>5. stayed' \subseteq Shelf'
    BY <1>1, <1>3 DEF WalkInv, Shelf, Listed
  <1>6. Ahead' /\ WalkShowsAll'
    <2>1. ~shifted' => \A y \in stayed' : Rank(y) <= Rank(y)'
      BY WriteKeepsOrder
    <2> QED
      BY <1>1, <1>2, <1>5, <2>1, StillAhead DEF FeedsInv
  <1>7. CountHolds'
    <2>1. at = "counted" /\ ~shifted' => Shelf' = Shelf
      BY <1>2, <1>3 DEF Shelf, Listed
    <2> QED
      BY <1>1, <1>2, <2>1 DEF WalkInv, CountHolds
  <1> QED
    BY <1>4, <1>5, <1>6, <1>7 DEF WalkInv

\* A row that is deleted disturbs the walk when it is of the shelf.
LEMMA DeleteWalks ==
  ASSUME FeedsInv, FeedsTypeOK', WalkInv, NEW d \in Docs, DeleteRow(d)
  PROVE  WalkInv'
  <1>1. /\ taken = NoRow /\ stayed' = stayed \ {d}
        /\ UNCHANGED <<taken, at, page, seen, total, kind>>
        /\ rows' = [rows EXCEPT ![d] = NoRow]
    BY DEF DeleteRow
  <1>2. ~shifted' => ~shifted /\ d \notin Shelf
    BY DEF DeleteRow
  <1>3. rows'[d] = NoRow /\ \A x \in Docs : x # d => rows'[x] = rows[x]
    BY <1>1 DEF FeedsInv, FeedsTypeOK
  <1>4. WrittenLast'
    BY <1>1 DEF WrittenLast
  <1>5. stayed' \subseteq Shelf'
    BY <1>1, <1>3 DEF WalkInv, Shelf, Listed
  <1>6. ~shifted' => Shelf' = Shelf /\ \A x \in Shelf : rows'[x] = rows[x]
    BY <1>2, <1>3 DEF Shelf, Listed
  <1>7. Ahead' /\ WalkShowsAll'
    <2>1. ASSUME ~shifted' PROVE \A y \in stayed' : Rank(y) <= Rank(y)'
      <3>1. ASSUME NEW y \in stayed' PROVE Rank(y)' = Rank(y)
        <4>1. y \in Shelf
          BY <1>1 DEF WalkInv
        <4>2. \A x \in Shelf : Precedes(x, y)' = Precedes(x, y)
          BY <1>1, <1>6, <2>1, <4>1 DEF Precedes, ByTitle
        <4> QED
          BY <1>6, <2>1, <4>2 DEF Rank
      <3>2. \A y \in stayed' : Rank(y) \in Nat
        BY <1>1, RanksAre DEF FeedsInv, WalkInv, RanksFit
      <3> QED
        BY <3>1, <3>2
    <2> QED
      BY <1>1, <1>2, <1>5, <2>1, StillAhead DEF FeedsInv
  <1>8. CountHolds'
    BY <1>1, <1>2, <1>6 DEF WalkInv, CountHolds
  <1> QED
    BY <1>4, <1>5, <1>7, <1>8 DEF WalkInv

\* The table stays, and with it the ranks.
LEMMA SameRanks ==
  ASSUME UNCHANGED <<rows, kind>>
  PROVE  /\ Shelf' = Shelf /\ Listed' = Listed /\ \A n : Contents(n)' = Contents(n)
         /\ \A d : Rank(d)' = Rank(d)
  BY SameTable DEF Rank, Shelf, Listed, Precedes, ByTitle

\* Neither the clock nor the time an upsert reads moves a document.
LEMMA ClockWalks == ASSUME FeedsInv, WalkInv, FeedTick \/ TakeStamp PROVE WalkInv'
  <1>1. /\ UNCHANGED <<rows, kind, at, page, seen, stayed, shifted, total>>
        /\ taken' # NoRow => taken' = taken \/ taken' = clock
    BY DEF FeedTick, TakeStamp
  <1>2. WrittenLast'
    BY <1>1, SameRanks DEF FeedsInv, Times, WalkInv, WrittenLast
  <1> QED
    BY <1>1, <1>2, SameRanks DEF WalkInv, Ahead, CountHolds, WalkShowsAll

\* A page is shown as the hub would serve it, or the walk is disturbed.
LEMMA ShowsWalks ==
  ASSUME FeedsTypeOK, WalkInv, at \in {"more", "counted"}, NEW docs, NEW more, Shows(docs, more),
         UNCHANGED <<rows, kind, taken, stayed>>,
         ~shifted' => /\ ~shifted /\ docs = Contents(page)
                      /\ more = More(page, Cardinality(Shelf))
  PROVE  WalkInv'
  <1>1. at' \in {"more", "done"} /\ seen' = seen \cup docs /\ page \in Nat
    BY DEF Shows, FeedsTypeOK
  <1>2. WrittenLast' /\ stayed' \subseteq Shelf' /\ CountHolds'
    BY <1>1, SameRanks DEF WalkInv, WrittenLast, CountHolds
  <1>3. ASSUME ~shifted', NEW d \in stayed, d \notin seen'
        PROVE  page >= 1 /\ page * PageSize <= Rank(d) /\ Rank(d) \in Nat
               /\ Rank(d) < Cardinality(Shelf)
    <2>1. /\ page >= 1 /\ (page - 1) * PageSize <= Rank(d)
          /\ Rank(d) \in Nat /\ Rank(d) < Cardinality(Shelf) /\ d \in Shelf
      BY <1>1, <1>3, RanksAre DEF WalkInv, Ahead, RanksFit
    <2>2. Rank(d) \div PageSize # page - 1
      BY <1>1, <1>3, <2>1 DEF Contents, Rank
    <2> QED
      BY <1>1, <2>1, <2>2, PageOf
  <1>4. page * PageSize \in Int /\ Cardinality(Shelf) \in Nat
    BY <1>1, RowsAre
  <1>5. Ahead'
    <2>1. CASE more
      <3>1. page' = page + 1 /\ page' - 1 = page
        BY <1>1, <2>1 DEF Shows
      <3>2. ~shifted' => page >= 1
        BY <1>1 DEF WalkInv, Ahead
      <3> QED
        BY <1>1, <1>3, <3>1, <3>2, SameRanks DEF Ahead
    <2>2. CASE ~more
      BY <2>2 DEF Shows, Ahead
    <2> QED
      BY <2>1, <2>2
  <1>6. WalkShowsAll'
    <2>1. CASE more
      BY <2>1 DEF Shows, WalkShowsAll
    <2>2. CASE ~more
      <3>1. ~shifted' => Cardinality(Shelf) <= page * PageSize
        <4>1. ~shifted' => ~More(page, Cardinality(Shelf))
          BY <2>2
        <4> QED
          BY <1>4, <4>1 DEF More
      <3>2. ASSUME ~shifted', NEW d \in stayed, d \notin seen' PROVE FALSE
        BY <1>3, <1>4, <3>1, <3>2
      <3> QED
        BY <3>2 DEF WalkShowsAll
    <2> QED
      BY <2>1, <2>2
  <1> QED
    BY <1>2, <1>5, <1>6 DEF WalkInv

\* A page held under the present Last-Modified is shown.
LEMMA HitWalks == ASSUME FeedsInv, WalkInv, NEW e \in cache, Hit(e) PROVE WalkInv'
  <1>1. /\ at = "more" /\ Shows(e.docs, e.more) /\ UNCHANGED <<rows, kind, taken, stayed>>
        /\ e.page = page /\ e.stamp = Stamp
        /\ ~shifted' => ~shifted /\ ~e.silent
    BY DEF Hit, Held
  <1>2. ~e.silent => e.docs = Contents(page) /\ e.more = More(page, Cardinality(Shelf))
    BY <1>1 DEF FeedsInv, Fresh, TrueTo
  <1> QED
    BY <1>1, <1>2, ShowsWalks DEF FeedsInv

\* A page read from the table is shown.
LEMMA SelectWalks == ASSUME FeedsInv, WalkInv, Select PROVE WalkInv'
  <1>1. /\ at = "counted" /\ Shows(Contents(page), More(page, total))
        /\ UNCHANGED <<rows, kind, taken, stayed, shifted>>
    BY DEF Select
  <1>2. ~shifted => total = Cardinality(Shelf)
    BY <1>1 DEF WalkInv, CountHolds
  <1> QED
    BY <1>1, <1>2, ShowsWalks DEF FeedsInv

\* A walk begins at the first page.
LEMMA StartWalks == ASSUME FeedsInv, WalkInv, StartWalk PROVE WalkInv'
  <1>1. /\ at' = "more" /\ page' = 1 /\ seen' = {} /\ stayed' = Shelf
        /\ UNCHANGED <<rows, kind, taken>>
    BY DEF StartWalk
  <1>2. \A d \in Shelf : 0 * PageSize <= Rank(d)
    BY RanksAre DEF FeedsInv, RanksFit
  <1> QED
    BY <1>1, <1>2, SameRanks DEF WalkInv, WrittenLast, Ahead, CountHolds, WalkShowsAll

\* Between the request and the page nothing is shown.
LEMMA AskWalks == ASSUME FeedsInv, WalkInv, Miss \/ Count PROVE WalkInv'
  BY SameRanks DEF Miss, Count, WalkInv, WrittenLast, Ahead, CountHolds, WalkShowsAll

\* The invariant is inductive.
LEMMA WalksStep == FeedsInv /\ FeedsTypeOK' /\ WalkInv /\ [FeedsNext]_feedVars => WalkInv'
  <1>1. WalkInv /\ UNCHANGED feedVars => WalkInv'
    BY SameRanks DEF WalkInv, WrittenLast, Ahead, CountHolds, WalkShowsAll
  <1> QED
    BY <1>1, WriteWalks, DeleteWalks, ClockWalks, StartWalks, HitWalks, SelectWalks, AskWalks
       DEF FeedsNext

(* A reader that pages through a shelf is shown every document that was on *)
(* it and not written all the while, unless the walk was disturbed: for    *)
(* any documents, titles, size of a page and number of writes between two  *)
(* of its requests.                                                        *)
THEOREM WalksShowAll == FeedsSpec => []WalkShowsAll
  <1>1. FeedsInit => WalkInv
    BY DEF FeedsInit, WalkInv, WrittenLast, Ahead, CountHolds, WalkShowsAll
  <1>2. FeedsInv => FeedsTypeOK
    BY DEF FeedsInv
  <1>3. WalkInv => WalkShowsAll
    BY DEF WalkInv
  <1> QED
    BY FeedsInitInv, FeedsStep, WalksStep, <1>1, <1>2, <1>3, PTL DEF FeedsSpec

-----------------------------------------------------------------------------
USE DEF curatedVars

-----------------------------------------------------------------------------
(* The manifest of curated shelves.                                        *)

\* The headings that have a name, in order.
NamedHeadings ==
    InOrder({i \in DOMAIN lines : lines[i].is = "heading" /\ lines[i].of # NoName}, Len(lines))
\* Whether a heading follows heading i.
Closed(i) == \E j \in (i + 1)..Len(lines) : lines[j].is = "heading"

\* What the lines say under each heading.
Told == [i \in 1..Len(lines) |-> Says(i)]
\* The headings another follows.
Shut == {i \in 1..Len(lines) : Closed(i)}

\* What the loop has built is what the lines read so far say: a shelf for
\* every named heading, the last of them still open unless a heading without
\* a name closed it.
ManifestRead ==
    LET h == NamedHeadings
        n == Len(h)
    IN  IF name = NoName
        THEN /\ out = [k \in 1..n |-> Told[h[k]]]
             /\ \A k \in 1..n : h[k] \in Shut
        ELSE /\ n # 0 /\ out = [k \in 1..(n - 1) |-> Told[h[k]]]
             /\ [name |-> name, note |-> note, books |-> picks] = Told[h[n]]
             /\ h[n] \notin Shut /\ \A k \in 1..(n - 1) : h[k] \in Shut

\* The inductive invariant.
CuratedInv ==
    /\ CuratedTypeOK
    /\ ~returned => ManifestRead
    /\ returned => ShelvesFollowManifest

\* A name has one path or none.
LEMMA ByNameIs == ASSUME NEW n PROVE ByName(n) \in Seq(Paths)
  <1> DEFINE all == {p \in Paths : NameOf[p] = n}
  <1>1. CASE all = {}
    BY <1>1 DEF ByName
  <1>2. CASE all # {}
    <2>1. PICK m \in Nat : Paths \subseteq 1..m
      BY CuratedAssumption
    <2> DEFINE f == [i \in 1..m |-> IF i \in all THEN i ELSE 0]
    <2>2. all \subseteq 1..m /\ m >= 1 /\ f \in [1..m -> Nat]
      <3>1. all \subseteq 1..m
        BY <2>1
      <3>2. PICK p \in all : TRUE
        BY <1>2
      <3>3. m >= 1
        BY <3>1, <3>2
      <3>4. f \in [1..m -> Nat]
        OBVIOUS
      <3> QED
        BY <3>1, <3>3, <3>4
    <2>3. PICK g \in 1..m : \A i \in 1..m : f[i] <= f[g]
      <3> HIDE DEF f
      <3> QED
        BY <2>2, HasGreatest
    <2>4. \A p \in all : p \in 1..m /\ f[p] = p
      BY <2>2
    <2>5. g \in all
      <3>1. PICK p \in all : p \in 1..m /\ f[p] = p
        BY <1>2, <2>4
      <3> QED
        BY <2>3, <3>1
    <2>6. \A q \in all : q <= g
      BY <2>3, <2>4, <2>5
    <2> HIDE DEF f
    <2>7. (CHOOSE p \in all : \A q \in all : q <= p) \in all
      BY <2>5, <2>6
    <2> QED
      BY <1>2, <2>7 DEF ByName
  <1> QED
    BY <1>1, <1>2

\* A line more: what it adds to the lines of a kind under a heading, ...
LEMMA OfKindStep ==
  ASSUME lines \in Seq(Lines), NEW line \in Lines, lines' = Append(lines, line),
         NEW i \in 1..Len(lines), NEW kinds, kinds # "heading"
  PROVE  /\ OfKind(i, kinds) \in Seq(1..Len(lines))
         /\ OfKind(i, kinds)' = IF ~Closed(i) /\ line.is = kinds
                                THEN Append(OfKind(i, kinds), Len(lines) + 1)
                                ELSE OfKind(i, kinds)
  <1> DEFINE N == Len(lines)
             K == {j \in Under(i) : lines[j].is = kinds}
             L == {j \in Under(i)' : lines'[j].is = kinds}
  <1>1. /\ N \in Nat /\ Len(lines') = N + 1 /\ lines'[N + 1] = line
        /\ \A j \in 1..N : lines'[j] = lines[j]
    OBVIOUS
  <1>2. OfKind(i, kinds) = InOrder(K, N) /\ OfKind(i, kinds)' = InOrder(L, N + 1)
    BY <1>1 DEF OfKind
  <1> HIDE DEF N
  <1>3. /\ Under(i) = {j \in (i + 1)..N : \A k \in (i + 1)..j : lines[k].is # "heading"}
        /\ Under(i)' = {j \in (i + 1)..(N + 1) : \A k \in (i + 1)..j : lines'[k].is # "heading"}
    BY <1>1 DEF Under, N
  <1>4. i \in 1..N
    BY DEF N
  <1>5. ASSUME NEW j \in 1..N PROVE j \in K <=> j \in L
    <2>1. j \in Under(i) <=> j \in (i + 1)..N /\ \A k \in (i + 1)..j : lines[k].is # "heading"
      BY <1>3
    <2>2. j \in Under(i)' <=> j \in (i + 1)..N /\ \A k \in (i + 1)..j : lines'[k].is # "heading"
      BY <1>1, <1>3
    <2>3. \A k \in (i + 1)..j : lines'[k] = lines[k]
      BY <1>1, <1>4
    <2> QED
      BY <1>1, <2>1, <2>2, <2>3
  <1>6. N + 1 \in L <=> ~Closed(i) /\ line.is = kinds
    <2>1. N + 1 \in Under(i)' <=> \A k \in (i + 1)..(N + 1) : lines'[k].is # "heading"
      BY <1>1, <1>3, <1>4
    <2>2. Closed(i) <=> \E k \in (i + 1)..N : lines[k].is = "heading"
      BY DEF Closed, N
    <2>3. ASSUME NEW k \in (i + 1)..(N + 1)
          PROVE  k = N + 1 \/ (k \in (i + 1)..N /\ lines'[k] = lines[k])
      <3>1. k = N + 1 \/ (k \in (i + 1)..N /\ k \in 1..N)
        BY <1>1, <1>4
      <3> QED
        BY <1>1, <3>1
    <2>4. /\ N + 1 \in (i + 1)..(N + 1)
          /\ \A k \in (i + 1)..N : k \in (i + 1)..(N + 1) /\ lines'[k] = lines[k]
      BY <1>1, <1>4
    <2>5. line.is = kinds => (N + 1 \in Under(i)' <=> ~Closed(i))
      BY <1>1, <2>1, <2>2, <2>3, <2>4
    <2> QED
      BY <1>1, <2>5
  <1> HIDE DEF K, L
  <1>7. InOrder(K, N) = InOrder(L, N)
    BY <1>1, <1>5, InOrderSame
  <1>8. InOrder(L, N + 1) = IF N + 1 \in L THEN Append(InOrder(L, N), N + 1) ELSE InOrder(L, N)
    BY <1>1, InOrderSteps
  <1>9. InOrder(K, N) \in Seq(1..N)
    BY <1>1, InOrderIs DEF Ordered
  <1> QED
    BY <1>2, <1>6, <1>7, <1>8, <1>9 DEF N

\* ... to the books, ...
BooksUnder(i) == Says(i).books

\* ... to the books, which are those of its picks one after the other, ...
LEMMA BooksStep ==
  ASSUME lines \in Seq(Lines), NEW line \in Lines, lines' = Append(lines, line),
         NEW i \in 1..Len(lines)
  PROVE  BooksUnder(i)' = IF ~Closed(i) /\ line.is = "pick"
                     THEN BooksUnder(i) \o ByName(line.of) ELSE BooksUnder(i)
  <1> DEFINE N == Len(lines)
             s == OfKind(i, "pick")
             t == s'
             parts == [k \in DOMAIN s |-> ByName(lines[s[k]].of)]
             more == [k \in DOMAIN t |-> ByName(lines'[t[k]].of)]
  <1>1. /\ s \in Seq(1..N)
        /\ t = IF ~Closed(i) /\ line.is = "pick" THEN Append(s, N + 1) ELSE s
    <2>1. "pick" # "heading"
      OBVIOUS
    <2> QED
      BY <2>1, OfKindStep
  <1>2. BooksUnder(i) = FlattenSeq(parts)
    BY DEF BooksUnder, Says
  <1>3. BooksUnder(i)' = FlattenSeq(more)
    BY DEF BooksUnder, Says, ByName
  <1>4. /\ N \in Nat /\ lines'[N + 1] = line /\ \A j \in 1..N : lines'[j] = lines[j]
    OBVIOUS
  <1> HIDE DEF N, s, t
  <1>5. \A k \in DOMAIN s : s[k] \in 1..N /\ lines'[s[k]] = lines[s[k]]
    <2>1. s \in Seq(1..N)
      BY <1>1
    <2>2. \A k \in DOMAIN s : s[k] \in 1..N
      BY <1>4, <2>1
    <2> QED
      BY <1>4, <2>2
  <1>6. CASE ~(~Closed(i) /\ line.is = "pick")
    <2>1. t = s
      BY <1>1, <1>6
    <2>2. more = parts
      BY <1>5, <2>1
    <2> QED
      BY <1>2, <1>3, <1>6, <2>2
  <1>7. CASE ~Closed(i) /\ line.is = "pick"
    <2> DEFINE m == Len(s)
               x == ByName(line.of)
    <2>1. t = Append(s, N + 1)
      BY <1>1, <1>7
    <2>2. /\ m \in Nat /\ DOMAIN s = 1..m /\ DOMAIN t = 1..(m + 1) /\ t[m + 1] = N + 1
          /\ \A k \in 1..m : t[k] = s[k]
      BY <1>1, <2>1
    <2> HIDE DEF m
    <2>3. /\ OfLength(parts, m)
          /\ more = [k \in 1..(m + 1) |-> IF k = m + 1 THEN x ELSE parts[k]]
      <3>1. \A k \in 1..(m + 1) :
               ByName(lines'[t[k]].of) = IF k = m + 1 THEN x ELSE ByName(lines[s[k]].of)
        <4>1. \A k \in 1..(m + 1) : k = m + 1 \/ k \in 1..m
          BY <2>2
        <4> QED
          BY <1>4, <1>5, <2>2, <4>1
      <3>2. \A k \in 1..(m + 1) : k # m + 1 => k \in 1..m
        BY <2>2
      <3> QED
        BY <2>2, <3>1, <3>2 DEF OfLength
    <2> HIDE DEF parts, more
    <2>4. more = Append(parts, x)
      <3>1. m \in Nat /\ OfLength(parts, m)
        BY <2>2, <2>3
      <3> HIDE DEF x
      <3>2. Append(parts, x) = [k \in 1..(m + 1) |-> IF k = m + 1 THEN x ELSE parts[k]]
        BY <3>1, AppendIs
      <3> QED
        BY <2>3, <3>2
    <2>5. /\ m = 0 => FlattenSeq(parts) = <<>> /\ FlattenSeq(Append(parts, x)) = x
          /\ m # 0 => FlattenSeq(Append(parts, x)) = FlattenSeq(parts) \o x
      <3>1. m \in Nat /\ OfLength(parts, m)
        BY <2>2, <2>3
      <3> HIDE DEF x
      <3> QED
        BY <3>1, FlattenAppend, Zenon
    <2>6. CASE m = 0
      <3>1. FlattenSeq(parts) = <<>> /\ FlattenSeq(Append(parts, x)) = x
        BY <2>5, <2>6
      <3>2. <<>> \o x = x
        <4>1. x \in Seq(Paths)
          BY ByNameIs
        <4> HIDE DEF x
        <4> QED
          BY <4>1, ConcatEmptySeq
      <3> QED
        BY <1>2, <1>3, <1>7, <2>4, <3>1, <3>2
    <2>7. CASE m # 0
      <3>1. FlattenSeq(Append(parts, x)) = FlattenSeq(parts) \o x
        BY <2>5, <2>7
      <3> QED
        BY <1>2, <1>3, <1>7, <2>4, <3>1
    <2> QED
      BY <2>6, <2>7
  <1> QED
    BY <1>6, <1>7

\* ... and to all a heading says.
LEMMA SaysStep ==
  ASSUME lines \in Seq(Lines), NEW line \in Lines, lines' = Append(lines, line),
         NEW i \in 1..Len(lines)
  PROVE  Says(i)' = [name |-> Says(i).name,
                     note |-> IF ~Closed(i) /\ line.is = "text"
                              THEN Says(i).note + 1 ELSE Says(i).note,
                     books |-> IF ~Closed(i) /\ line.is = "pick"
                               THEN BooksUnder(i) \o ByName(line.of) ELSE BooksUnder(i)]
         /\ Says(i) = [name |-> lines[i].of, note |-> Says(i).note, books |-> BooksUnder(i)]
         /\ Says(i).note \in Nat
  <1>1. Says(i) = [name |-> lines[i].of, note |-> Len(OfKind(i, "text")), books |-> BooksUnder(i)]
    BY DEF Says, BooksUnder
  <1>2. Says(i)' = [name |-> lines'[i].of, note |-> Len(OfKind(i, "text")'), books |-> BooksUnder(i)']
    BY DEF Says, BooksUnder
  <1>3. lines'[i] = lines[i]
    OBVIOUS
  <1>4. /\ Len(OfKind(i, "text")) \in Nat
        /\ Len(OfKind(i, "text")') = IF ~Closed(i) /\ line.is = "text"
                                     THEN Len(OfKind(i, "text")) + 1 ELSE Len(OfKind(i, "text"))
    <2> DEFINE s == OfKind(i, "text")
               t == s'
               N == Len(lines)
    <2>1. "text" # "heading"
      OBVIOUS
    <2>2. /\ s \in Seq(1..N) /\ N \in Nat
          /\ t = IF ~Closed(i) /\ line.is = "text" THEN Append(s, N + 1) ELSE s
      BY <2>1, OfKindStep
    <2> HIDE DEF s, t, N
    <2>3. Len(s) \in Nat /\ Len(Append(s, N + 1)) = Len(s) + 1
      BY <2>2
    <2>4. /\ Len(s) \in Nat
          /\ Len(t) = IF ~Closed(i) /\ line.is = "text" THEN Len(s) + 1 ELSE Len(s)
      BY <2>2, <2>3
    <2> QED
      BY <2>4 DEF s, t
  <1>5. Says(i).name = lines[i].of /\ Says(i).note = Len(OfKind(i, "text"))
    BY <1>1
  <1>6. BooksUnder(i)' = IF ~Closed(i) /\ line.is = "pick"
                         THEN BooksUnder(i) \o ByName(line.of) ELSE BooksUnder(i)
    BY BooksStep
  <1> QED
    BY <1>1, <1>2, <1>3, <1>4, <1>5, <1>6

\* A heading says nothing before a line is read under it.
LEMMA SaysFirst ==
  ASSUME lines \in Seq(Lines), NEW line \in Lines, lines' = Append(lines, line),
         NEW N, N = Len(lines)
  PROVE  Says(N + 1)' = [name |-> line.of, note |-> 0, books |-> <<>>]
  <1>1. N \in Nat /\ Len(lines') = N + 1 /\ lines'[N + 1] = line
    OBVIOUS
  <1>2. ASSUME NEW kinds PROVE OfKind(N + 1, kinds)' = <<>>
    <2> DEFINE K == {j \in Under(N + 1)' : lines'[j].is = kinds}
    <2>1. OfKind(N + 1, kinds)' = InOrder(K, N + 1)
      BY <1>1 DEF OfKind
    <2>2. K = {}
      BY <1>1 DEF Under
    <2> HIDE DEF K
    <2>3. /\ InOrder(K, N + 1) \in Seq(1..(N + 1))
          /\ \A i \in DOMAIN InOrder(K, N + 1) : InOrder(K, N + 1)[i] \in K
      BY <1>1, InOrderIs DEF Ordered
    <2>4. DOMAIN InOrder(K, N + 1) = {}
      BY <2>2, <2>3
    <2> QED
      BY <2>1, <2>3, <2>4
  <1>3. FlattenSeq([k \in DOMAIN OfKind(N + 1, "pick")' |->
                       ByName(lines'[(OfKind(N + 1, "pick")')[k]].of)]) = <<>>
    <2> DEFINE f == [k \in DOMAIN OfKind(N + 1, "pick")' |->
                       ByName(lines'[(OfKind(N + 1, "pick")')[k]].of)]
    <2>1. DOMAIN OfKind(N + 1, "pick")' = 1..0
      BY <1>2
    <2>2. OfLength(f, 0)
      BY <2>1 DEF OfLength
    <2> HIDE DEF f
    <2>3. FlattenSeq(f) = <<>>
      BY <2>2, FlattenAppend
    <2> QED
      BY <2>3 DEF f
  <1>4. Says(N + 1)' = [name |-> lines'[N + 1].of, note |-> Len(OfKind(N + 1, "text")'),
                        books |-> FlattenSeq([k \in DOMAIN OfKind(N + 1, "pick")' |->
                                     ByName(lines'[(OfKind(N + 1, "pick")')[k]].of)])]
    BY DEF Says, ByName
  <1>5. Len(OfKind(N + 1, "text")') = 0
    BY <1>2
  <1> QED
    BY <1>1, <1>3, <1>4, <1>5

\* h has the named headings of the lines read so far, n of them.
Headed(h, n) ==
    /\ h \in Seq(1..Len(lines)) /\ n = Len(h) /\ n \in Nat
    /\ \A i, j \in 1..n : i < j => h[i] < h[j]
    /\ \A k \in 1..n : /\ h[k] \in 1..Len(lines) /\ lines[h[k]].is = "heading"
                       /\ lines[h[k]].of # NoName
    /\ \A i \in 1..Len(lines) : lines[i].is = "heading" /\ lines[i].of # NoName =>
                                   \E k \in 1..n : h[k] = i

\* They are all of the named headings, in order, ...
LEMMA NamedAre == ASSUME lines \in Seq(Lines) PROVE Headed(NamedHeadings, Len(NamedHeadings))
  <1> DEFINE N == Len(lines)
             K == {i \in DOMAIN lines : lines[i].is = "heading" /\ lines[i].of # NoName}
             h == InOrder(K, N)
  <1>1. N \in Nat /\ DOMAIN lines = 1..N
    OBVIOUS
  <1>2. \A i \in 1..N : i \in K <=> lines[i].is = "heading" /\ lines[i].of # NoName
    BY <1>1
  <1>3. NamedHeadings = h
    BY DEF NamedHeadings
  <1> HIDE DEF K, N
  <1>4. /\ h \in Seq(1..N) /\ \A i, j \in DOMAIN h : i < j => h[i] < h[j]
        /\ \A i \in DOMAIN h : h[i] \in K
        /\ \A k \in 1..N : k \in K => \E i \in DOMAIN h : h[i] = k
    BY <1>1, InOrderIs DEF Ordered
  <1> HIDE DEF h
  <1>5. DOMAIN h = 1..Len(h) /\ Len(h) \in Nat /\ \A k \in 1..Len(h) : h[k] \in 1..N
    <2>1. h \in Seq(1..N)
      BY <1>4
    <2> QED
      BY <1>1, <2>1
  <1>6. Headed(h, Len(h))
    BY <1>2, <1>4, <1>5 DEF Headed, N
  <1> QED
    BY <1>3, <1>6

\* ... and a line adds itself to them when it is one.
LEMMA NamedStep ==
  ASSUME lines \in Seq(Lines), NEW line \in Lines, lines' = Append(lines, line)
  PROVE  NamedHeadings' = IF line.is = "heading" /\ line.of # NoName
                          THEN Append(NamedHeadings, Len(lines) + 1) ELSE NamedHeadings
  <1> DEFINE N == Len(lines)
             K == {i \in DOMAIN lines : lines[i].is = "heading" /\ lines[i].of # NoName}
             L == {i \in DOMAIN lines' : lines'[i].is = "heading" /\ lines'[i].of # NoName}
  <1>1. /\ N \in Nat /\ Len(lines') = N + 1 /\ lines'[N + 1] = line
        /\ DOMAIN lines = 1..N /\ DOMAIN lines' = 1..(N + 1)
        /\ \A j \in 1..N : lines'[j] = lines[j]
    OBVIOUS
  <1>2. \A i \in 1..N : i \in K <=> i \in L
    BY <1>1
  <1>3. N + 1 \in L <=> line.is = "heading" /\ line.of # NoName
    BY <1>1
  <1>4. NamedHeadings = InOrder(K, N) /\ NamedHeadings' = InOrder(L, N + 1)
    BY <1>1 DEF NamedHeadings
  <1> HIDE DEF K, L, N
  <1>5. InOrder(K, N) = InOrder(L, N)
    BY <1>1, <1>2, InOrderSame
  <1>6. InOrder(L, N + 1) = IF N + 1 \in L THEN Append(InOrder(L, N), N + 1) ELSE InOrder(L, N)
    BY <1>1, InOrderSteps
  <1> QED
    BY <1>3, <1>4, <1>5, <1>6 DEF N

\* Whether a heading follows, once a line more is read.
LEMMA ClosedStep ==
  ASSUME lines \in Seq(Lines), NEW line \in Lines, lines' = Append(lines, line),
         NEW i \in 1..Len(lines)
  PROVE  Closed(i)' <=> Closed(i) \/ line.is = "heading"
  <1> DEFINE N == Len(lines)
  <1>1. /\ N \in Nat /\ Len(lines') = N + 1 /\ lines'[N + 1] = line /\ i \in 1..N
        /\ \A j \in 1..N : lines'[j] = lines[j]
    OBVIOUS
  <1>2. \A j \in (i + 1)..(N + 1) : j = N + 1 \/ j \in (i + 1)..N
    BY <1>1
  <1>3. N + 1 \in (i + 1)..(N + 1) /\ \A j \in (i + 1)..N : j \in (i + 1)..(N + 1) /\ j \in 1..N
    BY <1>1
  <1>4. Closed(i) <=> \E j \in (i + 1)..N : lines[j].is = "heading"
    BY DEF Closed
  <1>5. Closed(i)' <=> \E j \in (i + 1)..(N + 1) : lines'[j].is = "heading"
    BY <1>1 DEF Closed
  <1> HIDE DEF N
  <1> QED
    BY <1>1, <1>2, <1>3, <1>4, <1>5

\* What a line adds to what is told, and to the headings that are shut.
LEMMA ToldStep ==
  ASSUME lines \in Seq(Lines), NEW line \in Lines, lines' = Append(lines, line),
         NEW N, N = Len(lines)
  PROVE  /\ \A i \in 1..N :
              /\ i \in Shut \/ line.is = "heading" => Told'[i] = Told[i]
              /\ i \notin Shut /\ line.is = "text" =>
                   Told'[i] = [name |-> Told[i].name, note |-> Told[i].note + 1,
                               books |-> Told[i].books]
              /\ i \notin Shut /\ line.is = "pick" =>
                   Told'[i] = [name |-> Told[i].name, note |-> Told[i].note,
                               books |-> Told[i].books \o ByName(line.of)]
              /\ i \in Shut' <=> i \in Shut \/ line.is = "heading"
         /\ Told'[N + 1] = Says(N + 1)'
         /\ N + 1 \notin Shut'
  <1>1. /\ N \in Nat /\ Len(lines') = N + 1
        /\ \A i \in 1..N : i \in 1..(N + 1)
        /\ N + 1 \in 1..(N + 1)
    OBVIOUS
  <1>2. Told = [i \in 1..N |-> Says(i)] /\ Told' = [i \in 1..(N + 1) |-> Says(i)']
    BY <1>1 DEF Told
  <1>3. ASSUME NEW i \in 1..N
        PROVE  /\ i \in Shut \/ line.is = "heading" => Told'[i] = Told[i]
               /\ i \notin Shut /\ line.is = "text" =>
                    Told'[i] = [name |-> Told[i].name, note |-> Told[i].note + 1,
                                books |-> Told[i].books]
               /\ i \notin Shut /\ line.is = "pick" =>
                    Told'[i] = [name |-> Told[i].name, note |-> Told[i].note,
                                books |-> Told[i].books \o ByName(line.of)]
               /\ i \in Shut' <=> i \in Shut \/ line.is = "heading"
    <2>1. Told[i] = Says(i) /\ Told'[i] = Says(i)'
      BY <1>1, <1>2
    <2>2. i \in Shut <=> Closed(i)
      BY DEF Shut
    <2>3. i \in Shut' <=> Closed(i)'
      BY <1>1 DEF Shut
    <2>4. Closed(i)' <=> Closed(i) \/ line.is = "heading"
      BY ClosedStep
    <2>5. /\ Says(i)' = [name |-> Says(i).name,
                         note |-> IF ~Closed(i) /\ line.is = "text"
                                  THEN Says(i).note + 1 ELSE Says(i).note,
                         books |-> IF ~Closed(i) /\ line.is = "pick"
                                   THEN BooksUnder(i) \o ByName(line.of) ELSE BooksUnder(i)]
          /\ Says(i) = [name |-> lines[i].of, note |-> Says(i).note, books |-> BooksUnder(i)]
      BY SaysStep
    <2>6. BooksUnder(i) = Says(i).books /\ Says(i).name = lines[i].of
      BY <2>5
    <2>7. ASSUME Closed(i) \/ line.is = "heading" PROVE Says(i)' = Says(i)
      <3>1. ~(~Closed(i) /\ line.is = "text") /\ ~(~Closed(i) /\ line.is = "pick")
        BY <2>7
      <3>2. Says(i)' = [name |-> Says(i).name, note |-> Says(i).note, books |-> BooksUnder(i)]
        BY <2>5, <3>1
      <3> QED
        BY <2>5, <2>6, <3>2
    <2>8. ASSUME ~Closed(i), line.is = "text"
          PROVE  Says(i)' = [name |-> Says(i).name, note |-> Says(i).note + 1,
                             books |-> Says(i).books]
      <3>1. ~(~Closed(i) /\ line.is = "pick")
        BY <2>8
      <3> QED
        BY <2>5, <2>6, <2>8, <3>1
    <2>9. ASSUME ~Closed(i), line.is = "pick"
          PROVE  Says(i)' = [name |-> Says(i).name, note |-> Says(i).note,
                             books |-> Says(i).books \o ByName(line.of)]
      <3>1. ~(~Closed(i) /\ line.is = "text")
        BY <2>9
      <3> QED
        BY <2>5, <2>6, <2>9, <3>1
    <2> QED
      BY <2>1, <2>2, <2>3, <2>4, <2>7, <2>8, <2>9, Zenon
  <1>4. Told'[N + 1] = Says(N + 1)'
    BY <1>1, <1>2
  <1>5. N + 1 \notin Shut'
    <2>1. ((N + 1) + 1)..(N + 1) = {}
      BY <1>1
    <2>2. ~Closed(N + 1)'
      BY <1>1, <2>1 DEF Closed
    <2> QED
      BY <1>1, <2>2 DEF Shut
  <1> QED
    BY <1>3, <1>4, <1>5

\* The shelves once the open one is flushed: one for every named heading.
LEMMA FlushedIs ==
  ASSUME lines \in Seq(Lines), ManifestRead
  PROVE  LET h == NamedHeadings IN
         Flushed = [k \in 1..Len(h) |-> Told[h[k]]]
  <1> DEFINE h == NamedHeadings
             n == Len(h)
             shelf == [name |-> name, note |-> note, books |-> picks]
  <1>1. n \in Nat
    BY NamedAre DEF Headed
  <1>2. /\ name = NoName => out = [k \in 1..n |-> Told[h[k]]]
        /\ name # NoName => /\ n # 0 /\ out = [k \in 1..(n - 1) |-> Told[h[k]]]
                            /\ shelf = Told[h[n]]
    BY Zenon DEF ManifestRead
  <1>3. Flushed = IF name = NoName THEN out ELSE Append(out, shelf)
    BY DEF Flushed
  <1> HIDE DEF h, n, shelf
  <1>4. CASE name = NoName
    BY <1>2, <1>3, <1>4 DEF h, n
  <1>5. CASE name # NoName
    <2>1. n - 1 \in Nat /\ (n - 1) + 1 = n /\ out = [k \in 1..(n - 1) |-> Told[h[k]]]
      BY <1>1, <1>2, <1>5
    <2>2. OfLength(out, n - 1)
      BY <2>1 DEF OfLength
    <2>3. Append(out, shelf) = [k \in 1..n |-> IF k = n THEN shelf ELSE out[k]]
      BY <2>1, <2>2, AppendIs
    <2>4. \A k \in 1..n : (IF k = n THEN shelf ELSE out[k]) = Told[h[k]]
      <3>1. \A k \in 1..n : k # n => k \in 1..(n - 1)
        BY <1>1
      <3> QED
        BY <1>2, <1>5, <2>1, <3>1
    <2>5. Append(out, shelf) = [k \in 1..n |-> Told[h[k]]]
      BY <2>3, <2>4
    <2> QED
      BY <1>3, <1>5, <2>5 DEF h, n
  <1> QED
    BY <1>4, <1>5

\* A heading flushes the shelf that is open, and opens the next.
LEMMA HeadingReads ==
  ASSUME lines \in Seq(Lines), ManifestRead, NEW hd \in Headings, Heading(hd)
  PROVE  ManifestRead'
  <1> DEFINE line == [is |-> "heading", of |-> hd]
             N == Len(lines)
             h == NamedHeadings
             n == Len(h)
             Hold(a, m, t, u) ==
                IF name' = NoName
                THEN /\ out' = [k \in 1..m |-> t[a[k]]]
                     /\ \A k \in 1..m : a[k] \in u
                ELSE /\ m # 0 /\ out' = [k \in 1..(m - 1) |-> t[a[k]]]
                     /\ [name |-> name', note |-> note', books |-> picks'] = t[a[m]]
                     /\ a[m] \notin u /\ \A k \in 1..(m - 1) : a[k] \in u
  <1>1. /\ lines' = Append(lines, line) /\ out' = Flushed
        /\ name' = hd /\ note' = 0 /\ picks' = <<>>
    BY DEF Heading, ReadsLine
  <1>2. line \in Lines /\ line.is = "heading" /\ line.of = hd
    BY Zenon DEF Lines
  <1>3. Headed(h, n)
    BY NamedAre
  <1>4. n \in Nat /\ h \in Seq(1..N) /\ N \in Nat /\ \A k \in 1..n : h[k] \in 1..N
    BY <1>3 DEF Headed
  <1>5. Flushed = [k \in 1..n |-> Told[h[k]]]
    BY FlushedIs
  <1>6. NamedHeadings' = IF hd # NoName THEN Append(h, N + 1) ELSE h
    BY <1>1, <1>2, NamedStep
  <1> HIDE DEF line
  <1>7. \A i \in 1..N : Told'[i] = Told[i] /\ i \in Shut'
    BY <1>1, <1>2, ToldStep
  <1>8. Told'[N + 1] = [name |-> hd, note |-> 0, books |-> <<>>] /\ N + 1 \notin Shut'
    <2>1. PICK M : M = N
      OBVIOUS
    <2>2. Told'[M + 1] = Says(M + 1)' /\ M + 1 \notin Shut'
      BY <1>1, <1>2, <2>1, ToldStep
    <2>3. Says(M + 1)' = [name |-> line.of, note |-> 0, books |-> <<>>]
      BY <1>1, <1>2, <2>1, SaysFirst
    <2> QED
      BY <1>2, <2>1, <2>2, <2>3
  <1>9. ManifestRead' <=> Hold(NamedHeadings', Len(NamedHeadings'), Told', Shut')
    BY Zenon DEF ManifestRead
  <1> HIDE DEF N
  <1>10. CASE hd = NoName
    <2>1. NamedHeadings' = h /\ Len(NamedHeadings') = n /\ name' = NoName
      BY <1>1, <1>6, <1>10
    <2> HIDE DEF h, n
    <2>2. out' = [k \in 1..n |-> Told'[h[k]]] /\ \A k \in 1..n : h[k] \in Shut'
      BY <1>1, <1>4, <1>5, <1>7
    <2> QED
      BY <1>9, <2>1, <2>2
  <1>11. CASE hd # NoName
    <2> DEFINE g == Append(h, N + 1)
    <2>1. NamedHeadings' = g /\ name' = hd
      BY <1>1, <1>6, <1>11
    <2>2. Len(g) = n + 1 /\ g[n + 1] = N + 1 /\ \A k \in 1..n : g[k] = h[k]
      BY <1>4
    <2> HIDE DEF h, n, g
    <2>3. out' = [k \in 1..n |-> Told'[g[k]]] /\ \A k \in 1..n : g[k] \in Shut'
      <3>1. \A k \in 1..n : g[k] = h[k] /\ h[k] \in 1..N
        BY <1>4, <2>2
      <3>2. \A k \in 1..n : Told'[g[k]] = Told[h[k]] /\ g[k] \in Shut'
        BY <1>7, <3>1
      <3> QED
        BY <1>1, <1>5, <3>2
    <2>4. /\ [name |-> name', note |-> note', books |-> picks'] = Told'[g[n + 1]]
          /\ g[n + 1] \notin Shut'
      BY <1>1, <1>8, <2>2
    <2>5. n + 1 # 0 /\ (n + 1) - 1 = n
      BY <1>4
    <2>6. Hold(g, n + 1, Told', Shut')
      BY <1>11, <2>1, <2>3, <2>4, <2>5
    <2> QED
      BY <1>9, <2>1, <2>2, <2>6
  <1> QED
    BY <1>10, <1>11

\* A line that is no heading: it adds to the shelf that is open.
LEMMA PlainReads ==
  ASSUME lines \in Seq(Lines), ManifestRead, NEW line \in Lines,
         lines' = Append(lines, line), line.is = "pick" \/ line.is = "text",
         name' = name, out' = out,
         name # NoName =>
            /\ note' = IF line.is = "text" THEN note + 1 ELSE note
            /\ picks' = IF line.is = "pick" THEN picks \o ByName(line.of) ELSE picks
  PROVE  ManifestRead'
  <1> DEFINE N == Len(lines)
             h == NamedHeadings
             n == Len(h)
             shelf == [name |-> name, note |-> note, books |-> picks]
             Hold(a, m, t, u) ==
                IF name' = NoName
                THEN /\ out' = [k \in 1..m |-> t[a[k]]]
                     /\ \A k \in 1..m : a[k] \in u
                ELSE /\ m # 0 /\ out' = [k \in 1..(m - 1) |-> t[a[k]]]
                     /\ [name |-> name', note |-> note', books |-> picks'] = t[a[m]]
                     /\ a[m] \notin u /\ \A k \in 1..(m - 1) : a[k] \in u
  <1>1. Headed(h, n)
    BY NamedAre
  <1>2. n \in Nat /\ N \in Nat /\ \A k \in 1..n : h[k] \in 1..N
    BY <1>1 DEF Headed
  <1>3. line.is # "heading" /\ ~(line.is = "pick" /\ line.is = "text")
    OBVIOUS
  <1>4. NamedHeadings' = h
    BY <1>3, NamedStep
  <1>5. /\ \A i \in 1..N :
              /\ i \in Shut => Told'[i] = Told[i]
              /\ i \notin Shut /\ line.is = "text" =>
                   Told'[i] = [name |-> Told[i].name, note |-> Told[i].note + 1,
                               books |-> Told[i].books]
              /\ i \notin Shut /\ line.is = "pick" =>
                   Told'[i] = [name |-> Told[i].name, note |-> Told[i].note,
                               books |-> Told[i].books \o ByName(line.of)]
              /\ i \in Shut' <=> i \in Shut
    BY <1>3, ToldStep
  <1>5a. \A i \in 1..N : (i \in Shut' <=> i \in Shut) /\ (i \in Shut => Told'[i] = Told[i])
    BY <1>5
  <1>6. /\ name = NoName => /\ out = [k \in 1..n |-> Told[h[k]]]
                            /\ \A k \in 1..n : h[k] \in Shut
        /\ name # NoName => /\ n # 0 /\ out = [k \in 1..(n - 1) |-> Told[h[k]]]
                            /\ shelf = Told[h[n]] /\ h[n] \notin Shut
                            /\ \A k \in 1..(n - 1) : h[k] \in Shut
    BY Zenon DEF ManifestRead
  <1>7. ManifestRead' <=> Hold(NamedHeadings', Len(NamedHeadings'), Told', Shut')
    BY Zenon DEF ManifestRead
  <1> HIDE DEF h, n, N
  <1>8. NamedHeadings' = h /\ Len(NamedHeadings') = n
    BY <1>4 DEF h, n
  <1>9. CASE name = NoName
    <2>1. \A k \in 1..n : h[k] \in Shut' /\ Told'[h[k]] = Told[h[k]]
      BY <1>2, <1>6, <1>9, <1>5a
    <2>2. out' = [k \in 1..n |-> Told'[h[k]]]
      BY <1>6, <1>9, <2>1
    <2> QED
      BY <1>7, <1>8, <1>9, <2>1, <2>2
  <1>10. CASE name # NoName
    <2>1. \A k \in 1..(n - 1) : h[k] \in Shut' /\ Told'[h[k]] = Told[h[k]]
      <3>1. \A k \in 1..(n - 1) : h[k] \in 1..N /\ h[k] \in Shut
        BY <1>2, <1>6, <1>10
      <3> QED
        BY <1>5a, <3>1
    <2>2. out' = [k \in 1..(n - 1) |-> Told'[h[k]]]
      BY <1>6, <1>10, <2>1
    <2>3. h[n] \in 1..N /\ h[n] \notin Shut /\ h[n] \notin Shut'
      <3>1. n \in 1..n
        BY <1>2, <1>6, <1>10
      <3>2. h[n] \in 1..N /\ h[n] \notin Shut
        BY <1>2, <1>6, <1>10, <3>1
      <3> QED
        BY <1>5a, <3>2
    <2>4. Told[h[n]].name = name /\ Told[h[n]].note = note /\ Told[h[n]].books = picks
      BY <1>6, <1>10
    <2>5. [name |-> name', note |-> note', books |-> picks'] = Told'[h[n]]
      <3>1. CASE line.is = "text"
        <4>1. note' = note + 1 /\ picks' = picks
          BY <1>3, <1>10, <3>1
        <4>2. Told'[h[n]] = [name |-> Told[h[n]].name, note |-> Told[h[n]].note + 1,
                             books |-> Told[h[n]].books]
          BY <1>5, <2>3, <3>1
        <4> QED
          BY <2>4, <4>1, <4>2
      <3>2. CASE line.is = "pick"
        <4>1. note' = note /\ picks' = picks \o ByName(line.of)
          BY <1>3, <1>10, <3>2
        <4>2. Told'[h[n]] = [name |-> Told[h[n]].name, note |-> Told[h[n]].note,
                             books |-> Told[h[n]].books \o ByName(line.of)]
          BY <1>5, <2>3, <3>2
        <4> QED
          BY <2>4, <4>1, <4>2
      <3> QED
        BY <3>1, <3>2
    <2> QED
      BY <1>6, <1>7, <1>8, <1>10, <2>1, <2>2, <2>3, <2>5
  <1> QED
    BY <1>9, <1>10

\* A pick adds the books of its name, ...
LEMMA PickReads ==
  ASSUME lines \in Seq(Lines), ManifestRead, NEW nm \in Names, Pick(nm)
  PROVE  ManifestRead'
  <1> DEFINE line == [is |-> "pick", of |-> nm]
  <1>1. line \in Lines /\ line.is = "pick" /\ line.is # "text" /\ line.of = nm
    BY Zenon DEF Lines
  <1>2. /\ lines' = Append(lines, line) /\ picks' = picks \o ByName(nm)
        /\ name' = name /\ note' = note /\ out' = out
    BY DEF Pick, ReadsLine
  <1> HIDE DEF line
  <1> QED
    BY <1>1, <1>2, PlainReads

\* ... and a line of text counts, to the shelf that is open.
LEMMA TextReads ==
  ASSUME lines \in Seq(Lines), ManifestRead, Text
  PROVE  ManifestRead'
  <1> DEFINE line == [is |-> "text", of |-> NoName]
  <1>1. line \in Lines /\ line.is = "text" /\ line.is # "pick"
    BY Zenon DEF Lines
  <1>2. /\ lines' = Append(lines, line) /\ picks' = picks
        /\ note' = (IF name = NoName THEN note ELSE note + 1)
        /\ name' = name /\ out' = out
    BY DEF Text, ReadsLine
  <1> HIDE DEF line
  <1> QED
    BY <1>1, <1>2, PlainReads

\* The shelves of the headings that have a name and books.
Shown ==
    LET said == InOrder({i \in DOMAIN lines : SaysBooks(i)}, Len(lines))
    IN  [k \in DOMAIN said |-> Says(said[k])]

\* Of the shelves that were flushed those with books are the ones to show, in
\* the order of their headings.
LEMMA WithBooksIs ==
  ASSUME lines \in Seq(Lines), ManifestRead PROVE WithBooks(Flushed) = Shown
  <1> DEFINE N == Len(lines)
             h == NamedHeadings
             n == Len(h)
             K == {i \in DOMAIN lines : SaysBooks(i)}
             said == InOrder(K, N)
             B == {i \in DOMAIN Flushed : Flushed[i].books # <<>>}
             kept == InOrder(B, n)
             s == [m \in DOMAIN kept |-> h[kept[m]]]
  <1>1. Headed(h, n)
    BY NamedAre
  <1>2. /\ n \in Nat /\ N \in Nat /\ DOMAIN lines = 1..N /\ n = Len(h) /\ h \in Seq(1..N)
        /\ \A i, j \in 1..n : i < j => h[i] < h[j]
        /\ \A k \in 1..n : /\ h[k] \in 1..N /\ lines[h[k]].is = "heading"
                           /\ lines[h[k]].of # NoName
        /\ \A i \in 1..N : lines[i].is = "heading" /\ lines[i].of # NoName =>
                                   \E k \in 1..n : h[k] = i
    BY <1>1 DEF Headed
  <1>3. /\ Flushed = [k \in 1..n |-> Told[h[k]]]
        /\ \A i \in 1..N : Told[i] = Says(i)
    <2>1. Flushed = [k \in 1..n |-> Told[h[k]]]
      BY FlushedIs
    <2> QED
      BY <2>1 DEF Told
  <1>4. Shown = [k \in DOMAIN said |-> Says(said[k])]
    BY DEF Shown
  <1>5. WithBooks(Flushed) = [m \in DOMAIN kept |-> Flushed[kept[m]]]
    <2> DEFINE f == Flushed
    <2>1. WithBooks(f) = LET a == InOrder({i \in DOMAIN f : f[i].books # <<>>}, Len(f))
                         IN  [m \in DOMAIN a |-> f[a[m]]]
      BY Zenon DEF WithBooks
    <2>2. Len(f) = n
      BY <1>2, <1>3
    <2> QED
      BY <2>1, <2>2
  <1>6. \A i \in 1..N : i \in K <=> lines[i].is = "heading" /\ lines[i].of # NoName
                                    /\ Says(i).books # <<>>
    BY <1>2 DEF SaysBooks
  <1>7. \A k \in 1..n : k \in B <=> Says(h[k]).books # <<>>
    BY <1>2, <1>3
  <1> HIDE DEF N, h, n, K, B
  <1>8. /\ said \in Seq(1..N) /\ \A i, j \in DOMAIN said : i < j => said[i] < said[j]
        /\ \A i \in DOMAIN said : said[i] \in K
        /\ \A k \in 1..N : k \in K => \E i \in DOMAIN said : said[i] = k
    BY <1>2, InOrderIs DEF Ordered
  <1>9. /\ kept \in Seq(1..n) /\ \A i, j \in DOMAIN kept : i < j => kept[i] < kept[j]
        /\ \A i \in DOMAIN kept : kept[i] \in B
        /\ \A k \in 1..n : k \in B => \E i \in DOMAIN kept : kept[i] = k
    BY <1>2, InOrderIs DEF Ordered
  <1> HIDE DEF said, kept
  <1>10. \A i \in DOMAIN said : said[i] \in 1..N
    BY <1>2, <1>8
  <1>11. \A i \in DOMAIN kept : kept[i] \in 1..n
    BY <1>2, <1>9
  <1>12. DOMAIN kept = 1..Len(kept) /\ Len(kept) \in Nat
    BY <1>9
  <1>13. \A m \in DOMAIN kept : s[m] = h[kept[m]] /\ s[m] \in 1..N
    BY <1>2, <1>11
  <1>14. DOMAIN s = DOMAIN kept
    OBVIOUS
  <1> HIDE DEF s
  <1>15. Increasing(s)
    <2>1. s \in Seq(Nat)
      <3>1. \A m \in 1..Len(kept) : h[kept[m]] \in Nat
        BY <1>2, <1>12, <1>13
      <3> QED
        BY <1>12, <3>1 DEF s
    <2>2. ASSUME NEW i \in DOMAIN s, NEW j \in DOMAIN s, i < j PROVE s[i] < s[j]
      <3>1. kept[i] < kept[j] /\ kept[i] \in 1..n /\ kept[j] \in 1..n
        BY <1>9, <1>11, <1>14, <2>2
      <3>2. h[kept[i]] < h[kept[j]]
        BY <1>2, <3>1
      <3> QED
        BY <1>13, <1>14, <3>2
    <2> QED
      BY <2>1, <2>2 DEF Increasing
  <1>16. Increasing(said)
    <2>1. said \in Seq(Nat)
      <3>1. 1..N \subseteq Nat
        BY <1>2
      <3> QED
        BY <1>8, <3>1, SeqMonotonic
    <2> QED
      BY <1>8, <2>1 DEF Increasing
  <1>17. Within(s, said)
    <2>1. ASSUME NEW m \in DOMAIN s PROVE \E j \in DOMAIN said : said[j] = s[m]
      <3>1. kept[m] \in B /\ kept[m] \in 1..n /\ s[m] = h[kept[m]] /\ s[m] \in 1..N
        BY <1>9, <1>11, <1>13, <1>14
      <3>2. s[m] \in K
        BY <1>2, <1>6, <1>7, <3>1
      <3> QED
        BY <1>8, <3>1, <3>2
    <2> QED
      BY <2>1 DEF Within
  <1>18. Within(said, s)
    <2>1. ASSUME NEW j \in DOMAIN said PROVE \E m \in DOMAIN s : s[m] = said[j]
      <3>1. said[j] \in K /\ said[j] \in 1..N
        BY <1>8, <1>10
      <3>2. PICK k \in 1..n : h[k] = said[j]
        BY <1>2, <1>6, <3>1
      <3>3. k \in B
        BY <1>6, <1>7, <3>1, <3>2
      <3>4. PICK m \in DOMAIN kept : kept[m] = k
        BY <1>9, <3>3
      <3> QED
        BY <1>13, <1>14, <3>2, <3>4
    <2> QED
      BY <2>1 DEF Within
  <1>19. s = said
    BY <1>15, <1>16, <1>17, <1>18, OneOrder
  <1>20. \A m \in DOMAIN kept : Flushed[kept[m]] = Says(said[m])
    <2>1. ASSUME NEW m \in DOMAIN kept PROVE Flushed[kept[m]] = Says(said[m])
      <3>1. kept[m] \in 1..n /\ said[m] = h[kept[m]] /\ h[kept[m]] \in 1..N
        BY <1>2, <1>11, <1>13, <1>19
      <3>2. Flushed[kept[m]] = Told[h[kept[m]]]
        BY <1>3, <3>1 DEF h, n
      <3>3. Told[said[m]] = Says(said[m])
        BY <1>3, <3>1 DEF N
      <3> QED
        BY <3>1, <3>2, <3>3
    <2> QED
      BY <2>1
  <1>21. [m \in DOMAIN kept |-> Flushed[kept[m]]] = [m \in DOMAIN said |-> Says(said[m])]
    BY <1>14, <1>19, <1>20
  <1> QED
    BY <1>4, <1>5, <1>21 DEF said, kept, K, N, B, n

\* Nothing is said anew while no line is read.
LEMMA SaysSame == ASSUME lines' = lines PROVE Told' = Told /\ Shown' = Shown
  <1>1. ASSUME NEW i PROVE Says(i)' = Says(i) /\ (SaysBooks(i)' <=> SaysBooks(i))
    <2>1. Under(i)' = Under(i)
      BY DEF Under
    <2>2. \A kinds : OfKind(i, kinds)' = OfKind(i, kinds)
      BY <2>1 DEF OfKind
    <2>3. Says(i)' = Says(i)
      <3>1. [k \in DOMAIN OfKind(i, "pick")' |-> ByName(lines'[(OfKind(i, "pick")')[k]].of)]
              = [k \in DOMAIN OfKind(i, "pick") |-> ByName(lines[OfKind(i, "pick")[k]].of)]
        BY <2>2
      <3>2. Says(i)' = [name |-> lines'[i].of, note |-> Len(OfKind(i, "text")'),
                        books |-> FlattenSeq([k \in DOMAIN OfKind(i, "pick")' |->
                                     ByName(lines'[(OfKind(i, "pick")')[k]].of)])]
        BY DEF Says, ByName
      <3>3. Says(i) = [name |-> lines[i].of, note |-> Len(OfKind(i, "text")),
                       books |-> FlattenSeq([k \in DOMAIN OfKind(i, "pick") |->
                                    ByName(lines[OfKind(i, "pick")[k]].of)])]
        BY DEF Says
      <3> QED
        BY <2>2, <3>1, <3>2, <3>3, Zenon
    <2> QED
      BY <2>3 DEF SaysBooks
  <1>2. Told' = Told
    BY <1>1 DEF Told
  <1>3. {i \in DOMAIN lines' : SaysBooks(i)'} = {i \in DOMAIN lines : SaysBooks(i)}
    BY <1>1
  <1>4. Shown' = Shown
    BY <1>1, <1>3 DEF Shown
  <1> QED
    BY <1>2, <1>4

\* And they are what is returned.
LEMMA ReturnShows ==
  ASSUME lines \in Seq(Lines), ManifestRead, Return
  PROVE  ShelvesFollowManifest'
  <1>1. lines' = lines /\ out' = WithBooks(Flushed)
    BY DEF Return
  <1>2. Shown' = Shown
    BY <1>1, SaysSame
  <1>3. ShelvesFollowManifest' <=> (returned' => out' = Shown')
    BY Zenon DEF ShelvesFollowManifest, Shown
  <1> QED
    BY <1>1, <1>2, <1>3, WithBooksIs

-----------------------------------------------------------------------------
\* The types of a shelf.
ShelfRecord == [name : Headings, note : Nat, books : Seq(Paths)]

\* Flushing keeps to the types, ...
LEMMA FlushedTyped == ASSUME CuratedTypeOK PROVE Flushed \in Seq(ShelfRecord)
  <1>1. [name |-> name, note |-> note, books |-> picks] \in ShelfRecord
    BY DEF CuratedTypeOK, ShelfRecord
  <1>2. out \in Seq(ShelfRecord)
    BY DEF CuratedTypeOK, ShelfRecord
  <1> QED
    BY <1>1, <1>2 DEF Flushed

\* ... and so does leaving shelves out.
LEMMA WithBooksTyped ==
  ASSUME NEW T, NEW f \in Seq(T) PROVE WithBooks(f) \in Seq(T)
  <1> DEFINE a == InOrder({i \in DOMAIN f : f[i].books # <<>>}, Len(f))
  <1>1. WithBooks(f) = [m \in DOMAIN a |-> f[a[m]]]
    BY Zenon DEF WithBooks
  <1>2. Len(f) \in Nat /\ DOMAIN f = 1..Len(f)
    OBVIOUS
  <1>3. a \in Seq(1..Len(f))
    BY <1>2, InOrderIs DEF Ordered
  <1> HIDE DEF a
  <1>4. DOMAIN a = 1..Len(a) /\ Len(a) \in Nat /\ \A m \in 1..Len(a) : a[m] \in 1..Len(f)
    BY <1>2, <1>3
  <1>5. \A m \in 1..Len(a) : f[a[m]] \in T
    BY <1>2, <1>4
  <1> QED
    BY <1>1, <1>4, <1>5

\* No step leaves the types.
LEMMA CuratedTypes ==
  ASSUME CuratedTypeOK, [CuratedNext]_curatedVars PROVE CuratedTypeOK'
  <1>1. ASSUME NEW hd \in Headings, Heading(hd) PROVE CuratedTypeOK'
    <2>1. out' \in Seq([name : Headings, note : Nat, books : Seq(Paths)])
      BY <1>1, FlushedTyped DEF Heading, ShelfRecord
    <2>2. [is |-> "heading", of |-> hd] \in Lines
      BY Zenon DEF Lines
    <2> QED
      BY <1>1, <2>1, <2>2 DEF CuratedTypeOK, Heading, ReadsLine
  <1>2. ASSUME NEW nm \in Names, Pick(nm) PROVE CuratedTypeOK'
    <2>1. [is |-> "pick", of |-> nm] \in Lines
      BY Zenon DEF Lines
    <2>2. picks' \in Seq(Paths)
      BY <1>2, ByNameIs, ConcatProperties DEF Pick, CuratedTypeOK
    <2> QED
      BY <1>2, <2>1, <2>2 DEF CuratedTypeOK, Pick, ReadsLine
  <1>3. CASE Text
    <2>1. [is |-> "text", of |-> NoName] \in Lines
      BY Zenon DEF Lines
    <2> QED
      BY <1>3, <2>1 DEF CuratedTypeOK, Text, ReadsLine
  <1>4. CASE Return
    <2>1. out' \in Seq([name : Headings, note : Nat, books : Seq(Paths)])
      BY <1>4, FlushedTyped, WithBooksTyped DEF Return, ShelfRecord
    <2> QED
      BY <1>4, <2>1 DEF CuratedTypeOK, Return
  <1>5. CASE UNCHANGED curatedVars
    BY <1>5 DEF CuratedTypeOK
  <1> QED
    BY <1>1, <1>2, <1>3, <1>4, <1>5 DEF CuratedNext

\* No line is read at first, and nothing is said.
LEMMA CuratedStarts == CuratedInit => CuratedInv
  <1> SUFFICES ASSUME CuratedInit PROVE CuratedInv
    OBVIOUS
  <1>1. lines = <<>> /\ name = NoName /\ note = 0 /\ picks = <<>> /\ out = <<>> /\ returned = FALSE
    BY DEF CuratedInit
  <1>2. CuratedTypeOK
    <2>1. NoName \in Headings
      BY CuratedAssumption
    <2>2. /\ <<>> \in Seq(Lines) /\ <<>> \in Seq(Paths)
          /\ <<>> \in Seq([name : Headings, note : Nat, books : Seq(Paths)])
      OBVIOUS
    <2> QED
      BY <1>1, <2>1, <2>2 DEF CuratedTypeOK
  <1>3. ManifestRead
    <2> DEFINE h == NamedHeadings
               n == Len(h)
    <2>1. h = <<>>
      <3>1. Headed(h, n) /\ Len(lines) = 0
        BY <1>1, <1>2, NamedAre DEF CuratedTypeOK
      <3>2. n \in Nat /\ n = Len(h) /\ h \in Seq(1..0) /\ \A k \in 1..n : h[k] \in 1..0
        BY <3>1 DEF Headed
      <3> QED
        BY <3>2
    <2>2. n = 0 /\ 1..n = {}
      BY <2>1
    <2> HIDE DEF h, n
    <2>3. out = [k \in 1..n |-> Told[h[k]]]
      BY <1>1, <2>2
    <2> QED
      BY <1>1, <2>2, <2>3, Zenon DEF ManifestRead, h, n
  <1> QED
    BY <1>1, <1>2, <1>3 DEF CuratedInv

\* The invariant is inductive.
LEMMA CuratedKept == CuratedInv /\ [CuratedNext]_curatedVars => CuratedInv'
  <1> SUFFICES ASSUME CuratedInv, [CuratedNext]_curatedVars PROVE CuratedInv'
    OBVIOUS
  <1>1. CuratedTypeOK /\ (~returned => ManifestRead) /\ (returned => ShelvesFollowManifest)
    BY DEF CuratedInv
  <1>2. lines \in Seq(Lines)
    BY <1>1 DEF CuratedTypeOK
  <1>3. CuratedTypeOK'
    BY <1>1, CuratedTypes
  <1>4. ASSUME NEW hd \in Headings, Heading(hd) PROVE CuratedInv'
    <2>1. ~returned /\ ~returned'
      BY <1>4 DEF Heading, ReadsLine
    <2> QED
      BY <1>1, <1>2, <1>3, <1>4, <2>1, HeadingReads DEF CuratedInv
  <1>5. ASSUME NEW nm \in Names, Pick(nm) PROVE CuratedInv'
    <2>1. ~returned /\ ~returned'
      BY <1>5 DEF Pick, ReadsLine
    <2> QED
      BY <1>1, <1>2, <1>3, <1>5, <2>1, PickReads DEF CuratedInv
  <1>6. CASE Text
    <2>1. ~returned /\ ~returned'
      BY <1>6 DEF Text, ReadsLine
    <2> QED
      BY <1>1, <1>2, <1>3, <1>6, <2>1, TextReads DEF CuratedInv
  <1>7. CASE Return
    <2>1. ~returned /\ returned'
      BY <1>7 DEF Return
    <2> QED
      BY <1>1, <1>2, <1>3, <1>7, <2>1, ReturnShows DEF CuratedInv
  <1>8. CASE UNCHANGED curatedVars
    <2>1. lines' = lines /\ name' = name /\ note' = note /\ picks' = picks /\ out' = out
          /\ returned' = returned
      BY <1>8
    <2>2. Shown' = Shown
      BY <2>1, SaysSame
    <2>3. /\ ShelvesFollowManifest' <=> (returned' => out' = Shown')
          /\ ShelvesFollowManifest <=> (returned => out = Shown)
      BY Zenon DEF ShelvesFollowManifest, Shown
    <2>4. ManifestRead' = ManifestRead
      <3>1. NamedHeadings' = NamedHeadings /\ Shut' = Shut
        BY <2>1, Zenon DEF NamedHeadings, Shut, Closed
      <3>2. Told' = Told
        BY <2>1, SaysSame
      <3> QED
        BY <2>1, <3>1, <3>2, Zenon DEF ManifestRead
    <2> QED
      BY <1>1, <1>3, <2>1, <2>2, <2>3, <2>4 DEF CuratedInv
  <1> QED
    BY <1>4, <1>5, <1>6, <1>7, <1>8 DEF CuratedNext

(* For any manifest, names and listing: the shelves that are returned are  *)
(* the headings with a name and books under them, in order, each with its  *)
(* own lines.                                                              *)
THEOREM ShelvesTrue == CuratedSpec => []ShelvesFollowManifest
  <1>1. CuratedInv => ShelvesFollowManifest
    BY DEF CuratedInv, ShelvesFollowManifest
  <1> QED
    BY <1>1, CuratedStarts, CuratedKept, PTL DEF CuratedSpec

-----------------------------------------------------------------------------
(* The parts side by side. *)

\* The parts' inductive invariants together.
WebInv == FeedsInv /\ EbooksInv /\ CuratedInv /\ DoorInv /\ LoginsInv

\* Each part's invariant survives a step of that part, and a step of another.
LEMMA WebStep == WebInv /\ [WebNext]_webVars => WebInv'
  <1> SUFFICES ASSUME WebInv, [WebNext]_webVars PROVE WebInv'
    OBVIOUS
  <1>1. /\ [FeedsNext]_feedVars => FeedsInv'
        /\ [EbooksNext]_ebookVars => EbooksInv'
        /\ [CuratedNext]_curatedVars => CuratedInv'
        /\ [DoorNext]_doorVars => DoorInv'
        /\ [LoginsNext]_loginVars => LoginsInv'
    BY FeedsStep, EbooksStep, CuratedKept, DoorInvStep, LoginsInvStep DEF WebInv
  <1>2. /\ [FeedsNext]_feedVars /\ [EbooksNext]_ebookVars /\ [CuratedNext]_curatedVars
        /\ [DoorNext]_doorVars /\ [LoginsNext]_loginVars
    BY DEF WebNext, webVars
  <1> QED
    BY <1>1, <1>2 DEF WebInv

(* Every part of the web application keeps to its types, whichever of them *)
(* a behaviour follows.                                                    *)
THEOREM WebTyped == WebSpec => []WebTypeOK
  <1>1. WebInit => WebInv
    BY FeedsInitInv, EbooksInitInv, CuratedStarts, DoorInitInv, LoginsInitInv DEF WebInit, WebInv
  <1>2. WebInv => WebTypeOK
    BY DEF WebInv, FeedsInv, EbooksInv, CuratedInv, DoorInv, LoginsInv, WebTypeOK
  <1> QED
    BY <1>1, <1>2, WebStep, PTL DEF WebSpec
=============================================================================
