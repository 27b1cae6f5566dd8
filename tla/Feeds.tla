------------------------------- MODULE Feeds -------------------------------
(***************************************************************************)
(* The paged OPDS feeds of one shelf: upsert_document and delete_document  *)
(* writing the table, the feed handler counting and then reading a page,   *)
(* and the reader (KOReader), which sends a HEAD for every page and fetches*)
(* the page again only when it has none under the Last-Modified it is told.*)
(*                                                                         *)
(* A sweep is the only writer.  It reads the clock at the start of an      *)
(* upsert and commits later; both clocks have the resolution of a second,  *)
(* here a tick.  A shelf of a tag is dated like a shelf of a collection.   *)
(***************************************************************************)
EXTENDS Integers, FiniteSets

CONSTANTS
    Docs,       \* documents, numbered
    Titles,     \* titles, numbered in their alphabetical order
    NoRow,
    PageSize,   \* HUB_OPDS_PAGE_SIZE
    MaxClock, MaxCommits, MaxWalks   \* bounds of the exploration

ASSUME FeedDocsAssumption == Docs \subseteq Nat /\ IsFiniteSet(Docs)
ASSUME FeedTitlesAssumption == Titles \subseteq Nat
ASSUME FeedNoRowAssumption ==
    NoRow \notin Nat /\ NoRow \notin [title : Titles, here : BOOLEAN, updated : Nat]
ASSUME FeedPageAssumption == PageSize \in Nat \ {0}

VARIABLES
    clock,
    rows,      \* rows[d]: the row of d; here says that the shelf is one of its shelves
    taken,     \* the time the upsert in progress has read, or NoRow
    commits,
    kind,      \* which shelf the reader walks
    at,        \* where the reader is: see FeedsTypeOK
    page,      \* the page it asks for
    stamp,     \* the Last-Modified its HEAD of that page was given
    total,     \* what the handler has counted
    cache,     \* the pages the reader holds
    walks,
    seen,      \* the documents this walk has shown
    stayed,    \* the documents neither written nor deleted since this walk began
    shifted,   \* something has moved documents to an earlier page in this walk
    silent     \* the shelf has changed under the Last-Modified of the HEAD

feedVars == <<clock, rows, taken, commits, kind, at, page, stamp, total, cache,
              walks, seen, stayed, shifted, silent>>
writerVars == <<clock, rows, taken, commits>>
ghostVars == <<stayed, shifted>>

Kinds == {"new", "all", "collection", "search"}
Row == [title : Titles, here : BOOLEAN, updated : Nat]
Pages == [page : Nat, stamp : Nat, docs : SUBSET Docs, more : BOOLEAN, silent : BOOLEAN]

Listed == {d \in Docs : rows[d] # NoRow}
Shelf == {d \in Listed : rows[d].here}

\* The rows whose newest time is the Last-Modified: new, all and search take
\* the whole table.
Dated == IF kind = "collection" THEN Shelf ELSE Listed

\* An empty shelf is dated 1970.
Stamp ==
    IF Dated = {} THEN 0
    ELSE CHOOSE s \in {rows[d].updated : d \in Dated} :
             \A d \in Dated : rows[d].updated <= s

ByTitle(x, y) ==
    \/ rows[x].title < rows[y].title
    \/ rows[x].title = rows[y].title /\ x < y

\* ORDER BY of the shelf; what it leaves open is in the order of the table.
Precedes(x, y) ==
    IF kind = "all" THEN ByTitle(x, y)
    ELSE \/ rows[x].updated > rows[y].updated
         \/ rows[x].updated = rows[y].updated /\ ByTitle(x, y)

\* LIMIT PageSize OFFSET (n - 1) * PageSize
Contents(n) ==
    {d \in Shelf : Cardinality({x \in Shelf : Precedes(x, d)}) \div PageSize = n - 1}

\* Mutant: the number of pages is rounded down.
MoreRoundedDown(n, t) == n < t \div PageSize

\* Page n of a shelf of t documents has a link to the next.
More(n, t) == n * PageSize < t

FeedsTypeOK ==
    /\ clock \in Nat /\ commits \in Nat /\ walks \in Nat
    /\ rows \in [Docs -> Row \cup {NoRow}]
    /\ taken \in Nat \cup {NoRow}
    /\ kind \in Kinds
    /\ at \in {"idle", "more", "asked", "counted", "done"}
    /\ page \in Nat /\ stamp \in Nat /\ total \in Nat
    /\ cache \in SUBSET Pages
    /\ seen \in SUBSET Docs /\ stayed \in SUBSET Docs
    /\ shifted \in BOOLEAN /\ silent \in BOOLEAN

\* A first sweep has written some documents within one second.
FeedsInit ==
    /\ clock = 1 /\ taken = NoRow /\ commits = 0
    /\ rows \in [Docs -> {NoRow} \cup [title : Titles, here : {TRUE}, updated : {1}]]
    /\ kind \in Kinds
    /\ at = "idle" /\ page = 1 /\ stamp = 0 /\ total = 0
    /\ cache = {} /\ walks = 0
    /\ seen = {} /\ stayed = {} /\ shifted = FALSE /\ silent = FALSE

-----------------------------------------------------------------------------
(* The sweep writes the table. *)

FeedTick ==
    /\ clock < MaxClock
    /\ clock' = clock + 1
    /\ UNCHANGED <<rows, taken, commits, kind, at, page, stamp, total, cache, walks,
                   seen, ghostVars, silent>>

TakeStamp ==
    /\ taken = NoRow /\ commits < MaxCommits
    /\ taken' = clock
    /\ commits' = commits + 1
    /\ UNCHANGED <<clock, rows, kind, at, page, stamp, total, cache, walks, seen,
                   ghostVars, silent>>

\* What is shown may change while the Last-Modified does not, or comes back later.
Hidden(h) ==
    /\ silent' = (silent \/ h)
    /\ cache' = IF h THEN {[e EXCEPT !.silent = TRUE] : e \in cache} ELSE cache

WriteRow(d, t, h, time) ==
    /\ taken # NoRow
    /\ kind \in {"collection", "search"} \/ h
    /\ rows' = [rows EXCEPT ![d] = [title |-> t, here |-> h, updated |-> time]]
    /\ taken' = NoRow
    /\ LET late == \E x \in Dated : taken <= rows[x].updated
           leaves == d \in Shelf /\ ~h
           renamed == d \in Shelf /\ t # rows[d].title
       IN /\ Hidden(late \/ (kind = "collection" /\ leaves))
          /\ shifted' = \/ shifted
                        \/ leaves
                        \/ renamed /\ (kind = "all" \/ late)
                        \/ d \notin Shelf /\ h /\ at = "counted"
    /\ stayed' = stayed \ {d}
    /\ UNCHANGED <<clock, commits, kind, at, page, stamp, total, walks, seen>>

\* Mutant: a row keeps the time it was first written.
CommitCreated(d, t, h) ==
    WriteRow(d, t, h, IF d \in Listed THEN rows[d].updated ELSE taken)

CommitUpsert(d, t, h) == WriteRow(d, t, h, taken)

DeleteRow(d) ==
    /\ taken = NoRow /\ commits < MaxCommits
    /\ d \in Listed
    /\ rows' = [rows EXCEPT ![d] = NoRow]
    /\ commits' = commits + 1
    /\ Hidden(d \in Dated)
    /\ shifted' = (shifted \/ d \in Shelf)
    /\ stayed' = stayed \ {d}
    /\ UNCHANGED <<clock, taken, kind, at, page, stamp, total, walks, seen>>

-----------------------------------------------------------------------------
(* The reader walks the shelf from its first page. *)

StartWalk ==
    /\ at \in {"idle", "done"} /\ walks < MaxWalks
    /\ at' = "more" /\ page' = 1 /\ walks' = walks + 1
    /\ seen' = {} /\ stayed' = Shelf /\ shifted' = FALSE
    /\ UNCHANGED <<writerVars, kind, stamp, total, cache, silent>>

Shows(docs, more) ==
    /\ seen' = seen \cup docs
    /\ IF more THEN at' = "more" /\ page' = page + 1 ELSE at' = "done" /\ page' = page

Held(e) == e.page = page /\ e.stamp = Stamp

Hit(e) ==
    /\ at = "more" /\ Held(e)
    /\ Shows(e.docs, e.more)
    /\ shifted' = (shifted \/ e.silent)
    /\ UNCHANGED <<writerVars, kind, stamp, total, cache, walks, stayed, silent>>

Miss ==
    /\ at = "more" /\ ~\E e \in cache : Held(e)
    /\ at' = "asked" /\ stamp' = Stamp /\ silent' = FALSE
    /\ UNCHANGED <<writerVars, kind, page, total, cache, walks, seen, ghostVars>>

\* _acquisition_feed: the shelf is counted and read in two statements.
Count ==
    /\ at = "asked"
    /\ at' = "counted" /\ total' = Cardinality(Shelf)
    /\ UNCHANGED <<writerVars, kind, page, stamp, cache, walks, seen, ghostVars, silent>>

Select ==
    /\ at = "counted"
    /\ Shows(Contents(page), More(page, total))
    /\ cache' = cache \cup {[page |-> page, stamp |-> stamp, docs |-> Contents(page),
                             more |-> More(page, total), silent |-> silent]}
    /\ UNCHANGED <<writerVars, kind, stamp, total, walks, ghostVars, silent>>

FeedsNext ==
    \/ FeedTick \/ TakeStamp
    \/ \E d \in Docs, t \in Titles, h \in BOOLEAN : CommitUpsert(d, t, h)
    \/ \E d \in Docs : DeleteRow(d)
    \/ StartWalk \/ Miss \/ Count \/ Select
    \/ \E e \in cache : Hit(e)

FeedsSpec == FeedsInit /\ [][FeedsNext]_feedVars

-----------------------------------------------------------------------------
(* A page the reader holds under the shelf's present Last-Modified is the  *)
(* page the hub would serve, unless since its HEAD a document was deleted  *)
(* or left the collection, or an upsert committed with a time that is not  *)
(* newer than the shelf.  These are the changes Last-Modified cannot show. *)
StaleOnlyWhenSilent ==
    \A e \in cache : e.stamp = Stamp /\ ~e.silent =>
        e.docs = Contents(e.page) /\ e.more = More(e.page, Cardinality(Shelf))

(* A reader that pages through a shelf is shown every document that was on *)
(* it and not written all the while, unless something before it left the   *)
(* shelf or moved back in it, a document came in between the count and the *)
(* read of a page, or a held page was one Last-Modified had not renewed.   *)
WalkShowsAll == at = "done" /\ ~shifted => stayed \subseteq seen
=============================================================================
