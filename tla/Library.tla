------------------------------ MODULE Library ------------------------------
(***************************************************************************)
(* The inbox sweep of kindle-os and the three things it keeps in step:     *)
(* the markdown inbox (written from outside by rsync), the catalog in      *)
(* SQLite (tables documents and gc_queue) and the library directory, one   *)
(* directory of EPUB files per document.                                   *)
(*                                                                         *)
(* One builder thread runs the sweep, one step at a time; the inbox, the   *)
(* clock and process deaths interleave with every step of it.              *)
(* Every catalog write of the code is one SQLite transaction and is one    *)
(* step here.  The catalog and the library survive a crash, the sweep's    *)
(* local variables do not.                                                 *)
(*                                                                         *)
(* A write that finds the database locked for longer than busy_timeout     *)
(* raises and leaves the transaction that sqlite3 opened for it open, for  *)
(* nothing in the code ever rolls back.  The builder's next SELECT then    *)
(* pins the snapshot it reads, and once any other connection has committed *)
(* after it, no write of the builder's connection succeeds again.          *)
(*                                                                         *)
(* The name of an EPUB carries the first eight digits of its build_sha, so *)
(* an EPUB is identified with its build: the text it was rendered from and *)
(* the renderer configuration (HUB_STABLE_FILENAMES off, the default).     *)
(***************************************************************************)
EXTENDS Integers, FiniteSets

CONSTANTS
    Paths,        \* inbox-relative paths, in the order scan() sorts them
    Texts,        \* what a source file may contain
    Unbuildable,  \* the texts for which build() raises
    Renderers,    \* values of the renderer knobs that enter build_sha
    Grace,        \* HUB_GC_GRACE_DAYS, in ticks of the clock
    None,         \* no file, no row, no timestamp
    MaxClock, MaxEdits, MaxMishaps   \* bounds of the exploration

ASSUME PathsAssumption == Paths \subseteq Nat
ASSUME TextsAssumption == Unbuildable \subseteq Texts
ASSUME NoneAssumption ==
    /\ None \notin Paths \cup Texts \cup Nat
    /\ \A b \in [text : Texts, renderer : Renderers] :
          None # b /\ \A t \in Texts : None # [build |-> b, source |-> t]
ASSUME GraceAssumption == Grace \in Nat
ASSUME BoundsAssumption == {MaxClock, MaxEdits, MaxMishaps} \subseteq Nat

VARIABLES
    inbox,     \* inbox[p]: the text at p, or None
    clock,     \* the wall clock
    renderer,  \* the renderer configuration of the running process
    docs,      \* table documents: docs[p] is the row of p, or None
    queue,     \* table gc_queue: queue[p] is deleted_at, or None
    stuck,     \* the builder's connection holds a snapshot it cannot write from
    epubs,     \* epubs[p]: the *.epub files in the directory of p
    pc,        \* where the builder is in sweep(), "idle" between sweeps
    force,     \* the sweep's force argument
    known,     \* known[p]: build_sha of p when the sweep started
    found,     \* found[p]: what scan() hashed at p, or None
    todo,      \* the paths the current loop of the sweep has yet to visit
    src,       \* the path the sweep is working on, or None
    built,     \* the build just written to the directory of src, or None
    edits, mishaps   \* how many edits, crashes and faults there have been

inboxVars  == <<inbox, edits>>
store      == <<docs, queue, stuck>>
sweepVars  == <<pc, force, known, found, todo, src, built>>
vars == <<inbox, clock, renderer, docs, queue, stuck, epubs, pc, force, known, found,
          todo, src, built, edits, mishaps>>

Builds == [text : Texts, renderer : Renderers]
Rows   == [build : Builds, source : Texts]
Files  == [build : Builds, mtime : Nat]

Listed(p) == docs[p] # None

\* compute_build_sha: what the current process would build from text t.
BuildOf(t) == [text |-> t, renderer |-> renderer]

\* Whether the EPUB of build b is in the directory of p.
Has(p, b) == \E e \in epubs[p] : e.build = b

\* A timestamp older than the grace period (both cutoffs compare with <).
Expired(t) == t < clock - Grace

Blank == [p \in Paths |-> None]

\* The sweep's local variables go out of scope, and the builder is at l.
LeaveSweep(l) ==
    /\ pc' = l
    /\ force' = FALSE
    /\ known' = Blank /\ found' = Blank
    /\ todo' = {} /\ src' = None /\ built' = None

\* A crash, an unreadable file, a full disk or a locked database: there are
\* MaxMishaps of them.
Mishap == mishaps < MaxMishaps /\ mishaps' = mishaps + 1

\* A write of the builder raises, leaving the catalog as it is: the database is
\* locked (and whether another connection commits before the builder can write
\* again decides whether it is stuck), or the builder has been stuck before.
WriteRaises ==
    /\ \/ ~stuck /\ Mishap /\ stuck' \in BOOLEAN
       \/ stuck /\ UNCHANGED <<stuck, mishaps>>
    /\ UNCHANGED <<docs, queue>>

-----------------------------------------------------------------------------
(* The world around the hub. *)

Init ==
    /\ inbox \in [Paths -> Texts \cup {None}]
    /\ clock = 0
    /\ renderer \in Renderers
    /\ docs = Blank
    /\ queue = Blank
    /\ stuck = FALSE
    /\ epubs = [p \in Paths |-> {}]
    /\ pc = "idle"
    /\ force = FALSE
    /\ known = Blank
    /\ found = Blank
    /\ todo = {}
    /\ src = None
    /\ built = None
    /\ edits = 0 /\ mishaps = 0

\* rsync puts a text at p (by an atomic rename of a dot file) or removes it.
Edit(p, t) ==
    /\ edits < MaxEdits
    /\ inbox[p] # t
    /\ inbox' = [inbox EXCEPT ![p] = t]
    /\ edits' = edits + 1
    /\ UNCHANGED <<clock, renderer, store, epubs, sweepVars, mishaps>>

Tick ==
    /\ clock < MaxClock
    /\ clock' = clock + 1
    /\ UNCHANGED <<inboxVars, renderer, store, epubs, sweepVars, mishaps>>

-----------------------------------------------------------------------------
(* sweep(): scan *)

\* known = store.get_build_shas(), before the walk of the inbox.
StartSweep(f) ==
    /\ pc = "idle"
    /\ pc' = "scan"
    /\ force' = f
    /\ known' = [p \in Paths |-> IF Listed(p) THEN docs[p].build ELSE None]
    /\ found' = Blank
    /\ todo' = Paths
    /\ UNCHANGED <<inboxVars, clock, renderer, store, epubs, src, built, mishaps>>

\* scan() hashes the files one after the other, each at its own moment.
ScanFile(p) ==
    /\ pc = "scan" /\ p \in todo
    /\ found' = [found EXCEPT ![p] = inbox[p]]
    /\ todo' = todo \ {p}
    /\ UNCHANGED <<inboxVars, clock, renderer, store, epubs, pc, force, known, src, built,
                   mishaps>>

\* A file or its directory that cannot be read is left out of the scan.
ScanError(p) ==
    /\ pc = "scan" /\ p \in todo
    /\ inbox[p] # None
    /\ Mishap
    /\ todo' = todo \ {p}
    /\ UNCHANGED <<inboxVars, clock, renderer, store, epubs, pc, force, known, found, src,
                   built>>

ScanDone ==
    /\ pc = "scan" /\ todo = {}
    /\ pc' = "file"
    /\ todo' = {p \in Paths : found[p] # None}
    /\ UNCHANGED <<inboxVars, clock, renderer, store, epubs, force, known, found, src, built,
                   mishaps>>

-----------------------------------------------------------------------------
(* sweep(): the loop over the files found, in path order *)

NextFile(p) == /\ pc = "file" /\ p \in todo
               /\ \A q \in todo : p <= q

\* The file vanished since the scan: read_bytes raises outside the try, and
\* _safe_sweep ends the whole sweep.
AbortSweep(p) ==
    /\ NextFile(p)
    /\ ~force /\ inbox[p] = None
    /\ LeaveSweep("idle")
    /\ UNCHANGED <<inboxVars, clock, renderer, store, epubs, mishaps>>

\* Mutant: the sweep compares what the scan hashed with documents.source_sha.
UpToDateBySource(p) == ~force /\ Listed(p) /\ docs[p].source = found[p]

UpToDate(p) == ~force /\ inbox[p] # None /\ known[p] = BuildOf(inbox[p])

SkipFile(p) ==
    /\ NextFile(p)
    /\ UpToDate(p)
    /\ todo' = todo \ {p}
    /\ UNCHANGED <<inboxVars, clock, renderer, store, epubs, pc, force, known, found, src,
                   built, mishaps>>

SelectFile(p) ==
    /\ NextFile(p)
    /\ force \/ inbox[p] # None
    /\ ~UpToDate(p)
    /\ pc' = "build"
    /\ src' = p
    /\ UNCHANGED <<inboxVars, clock, renderer, store, epubs, force, known, found, todo, built,
                   mishaps>>

\* build() reads the source a third time and writes the EPUB under a temporary
\* name that replaces the final one; an EPUB of the same build is overwritten.
WriteEpub ==
    /\ pc = "build"
    /\ inbox[src] \in Texts \ Unbuildable
    /\ LET b == BuildOf(inbox[src])
       IN  /\ built' = b
           /\ epubs' = [epubs EXCEPT ![src] =
                  {e \in @ : e.build # b} \cup {[build |-> b, mtime |-> clock]}]
    /\ pc' = "prune"
    /\ UNCHANGED <<inboxVars, clock, renderer, store, force, known, found, todo, src,
                   mishaps>>

\* build() raises before anything is written: the file is gone or the text
\* cannot be rendered.  The sweep counts an error and goes on.
BuildError ==
    /\ pc = "build"
    /\ inbox[src] \notin Texts \ Unbuildable
    /\ pc' = "file"
    /\ todo' = todo \ {src}
    /\ src' = None
    /\ UNCHANGED <<inboxVars, clock, renderer, store, epubs, force, known, found, built,
                   mishaps>>

\* build() raises although the source is fine: the EPUB cannot be written, or it
\* is in place and the media next to it cannot be.
BuildFault ==
    /\ pc \in {"build", "prune"}
    /\ Mishap
    /\ pc' = "file"
    /\ todo' = todo \ {src}
    /\ src' = None
    /\ built' = None
    /\ UNCHANGED <<inboxVars, clock, renderer, store, epubs, force, known, found>>

\* _prune_old_epubs: every other EPUB of the document whose own mtime is older
\* than the grace period.  An unlink that fails is passed over.
Stale(p) == {e \in epubs[p] : e.build # built /\ Expired(e.mtime)}

PruneEpubs ==
    /\ pc = "prune"
    /\ \E gone \in SUBSET Stale(src) :
          epubs' = [epubs EXCEPT ![src] = @ \ gone]
    /\ pc' = "commit"
    /\ UNCHANGED <<inboxVars, clock, renderer, store, force, known, found, todo, src, built,
                   mishaps>>

\* Mutant: a document that comes back keeps its place in gc_queue.
UpsertKeepsQueue ==
    /\ pc = "commit" /\ ~stuck
    /\ docs' = [docs EXCEPT ![src] = [build |-> built, source |-> found[src]]]
    /\ pc' = "file"
    /\ todo' = todo \ {src}
    /\ src' = None
    /\ built' = None
    /\ UNCHANGED <<inboxVars, clock, renderer, queue, stuck, epubs, force, known, found, mishaps>>

\* Mutant: the row's build is computed from what the scan read.
UpsertScanned ==
    /\ pc = "commit" /\ ~stuck
    /\ docs' = [docs EXCEPT ![src] = [build |-> BuildOf(found[src]), source |-> found[src]]]
    /\ queue' = [queue EXCEPT ![src] = None]
    /\ pc' = "file"
    /\ todo' = todo \ {src}
    /\ src' = None
    /\ built' = None
    /\ UNCHANGED <<inboxVars, clock, renderer, stuck, epubs, force, known, found, mishaps>>

\* upsert_document: the row, and the document's place in gc_queue, in one commit.
\* source_sha is the hash the scan took, not that of the bytes build() read.
Upsert ==
    /\ pc = "commit" /\ ~stuck
    /\ docs' = [docs EXCEPT ![src] = [build |-> built, source |-> found[src]]]
    /\ queue' = [queue EXCEPT ![src] = None]
    /\ pc' = "file"
    /\ todo' = todo \ {src}
    /\ src' = None
    /\ built' = None
    /\ UNCHANGED <<inboxVars, clock, renderer, stuck, epubs, force, known, found, mishaps>>

\* upsert_document raises: an error is counted, and the next file is taken.
UpsertError ==
    /\ pc = "commit"
    /\ WriteRaises
    /\ pc' = "file"
    /\ todo' = todo \ {src}
    /\ src' = None
    /\ built' = None
    /\ UNCHANGED <<inboxVars, clock, renderer, epubs, force, known, found>>

\* set(known) - seen: listed when the sweep started, not found by the scan.
FilesDone ==
    /\ pc = "file" /\ todo = {}
    /\ pc' = "withdraw"
    /\ todo' = {p \in Paths : known[p] # None /\ found[p] = None}
    /\ UNCHANGED <<inboxVars, clock, renderer, store, epubs, force, known, found, src, built,
                   mishaps>>

-----------------------------------------------------------------------------
(* sweep(): deletions and garbage collection *)

\* Mutant: the row goes, and nothing is queued.
DeleteUnqueued(p) ==
    /\ pc = "withdraw" /\ p \in todo
    /\ Listed(p) => ~stuck
    /\ docs' = [docs EXCEPT ![p] = None]
    /\ todo' = todo \ {p}
    /\ UNCHANGED <<inboxVars, clock, renderer, queue, stuck, epubs, pc, force, known, found, src,
                   built, mishaps>>

\* Mutant: gc_queue records when the files are due, counted the wrong way.
DeleteBackdated(p) ==
    /\ pc = "withdraw" /\ p \in todo
    /\ Listed(p) => ~stuck
    /\ docs' = [docs EXCEPT ![p] = None]
    /\ queue' = [queue EXCEPT ![p] = IF Listed(p) THEN clock - Grace ELSE @]
    /\ todo' = todo \ {p}
    /\ UNCHANGED <<inboxVars, clock, renderer, stuck, epubs, pc, force, known, found, src, built,
                   mishaps>>

\* delete_document: drop the row and queue the directory, in one commit.
DeleteDocument(p) ==
    /\ pc = "withdraw" /\ p \in todo
    /\ Listed(p) => ~stuck
    /\ docs' = [docs EXCEPT ![p] = None]
    /\ queue' = [queue EXCEPT ![p] = IF Listed(p) THEN clock ELSE @]
    /\ todo' = todo \ {p}
    /\ UNCHANGED <<inboxVars, clock, renderer, stuck, epubs, pc, force, known, found, src, built,
                   mishaps>>

\* Mutant: the grace period is forgotten.
DueAtOnce == {p \in Paths : queue[p] # None}

\* due_for_gc: the whole list is read once.
Due == {p \in Paths : queue[p] # None /\ Expired(queue[p])}

DeletionsDone ==
    /\ pc = "withdraw" /\ todo = {}
    /\ pc' = "reclaim"
    /\ todo' = Due
    /\ UNCHANGED <<inboxVars, clock, renderer, store, epubs, force, known, found, src, built,
                   mishaps>>

\* remove_document_files: rmtree unlinks the files one after the other.
RemoveFiles(p) ==
    /\ pc = "reclaim" /\ p \in todo
    /\ src \in {None, p}
    /\ \E left \in SUBSET epubs[p] :
          /\ left = {} \/ left # epubs[p]
          /\ epubs' = [epubs EXCEPT ![p] = left]
          /\ pc' = IF left = {} THEN "forget" ELSE "reclaim"
    /\ src' = p
    /\ UNCHANGED <<inboxVars, clock, renderer, store, force, known, found, todo, built,
                   mishaps>>

\* rmtree ignores errors: files that could not be unlinked stay, and gc_queue
\* forgets them all the same.
RemoveError(p) ==
    /\ pc = "reclaim" /\ p \in todo
    /\ src \in {None, p}
    /\ Mishap
    /\ pc' = "forget"
    /\ src' = p
    /\ UNCHANGED <<inboxVars, clock, renderer, store, epubs, force, known, found, todo, built>>

\* Mutant: forget_gc is not called.
ForgetNothing ==
    /\ pc = "forget" /\ ~stuck
    /\ pc' = "reclaim"
    /\ todo' = todo \ {src}
    /\ src' = None
    /\ UNCHANGED <<inboxVars, clock, renderer, store, epubs, force, known, found, built, mishaps>>

ForgetGc ==
    /\ pc = "forget" /\ ~stuck
    /\ queue' = [queue EXCEPT ![src] = None]
    /\ pc' = "reclaim"
    /\ todo' = todo \ {src}
    /\ src' = None
    /\ UNCHANGED <<inboxVars, clock, renderer, docs, stuck, epubs, force, known, found, built,
                   mishaps>>

\* set_meta("last_sweep", ...), and the end.
EndSweep ==
    /\ pc = "reclaim" /\ todo = {} /\ ~stuck
    /\ LeaveSweep("idle")
    /\ UNCHANGED <<inboxVars, clock, renderer, store, epubs, mishaps>>

\* delete_document, forget_gc or set_meta raises: no handler before _safe_sweep.
SweepRaises ==
    /\ \/ pc = "withdraw" /\ \E p \in todo : Listed(p)
       \/ pc = "forget"
       \/ pc = "reclaim" /\ todo = {}
    /\ WriteRaises
    /\ LeaveSweep("idle")
    /\ UNCHANGED <<inboxVars, clock, renderer, epubs>>

-----------------------------------------------------------------------------
(* Process death and restart *)

Crash ==
    /\ pc # "down"
    /\ Mishap
    /\ LeaveSweep("down")
    /\ stuck' = FALSE
    /\ UNCHANGED <<inboxVars, clock, renderer, docs, queue, epubs>>

\* The new process reads its configuration from the environment.
Restart(r) ==
    /\ pc = "down"
    /\ pc' = "idle"
    /\ renderer' = r
    /\ UNCHANGED <<inboxVars, clock, store, epubs, force, known, found, todo, src, built,
                   mishaps>>

-----------------------------------------------------------------------------
Sweep ==
    \/ \E f \in BOOLEAN : StartSweep(f)
    \/ \E p \in Paths :
          \/ ScanFile(p) \/ AbortSweep(p) \/ SkipFile(p) \/ SelectFile(p)
          \/ DeleteDocument(p) \/ RemoveFiles(p)
    \/ ScanDone \/ WriteEpub \/ BuildError \/ PruneEpubs \/ Upsert \/ UpsertError
    \/ FilesDone \/ DeletionsDone \/ ForgetGc \/ EndSweep \/ SweepRaises

Environment ==
    \/ \E p \in Paths : ScanError(p) \/ RemoveError(p)
    \/ \E p \in Paths, t \in Texts \cup {None} : Edit(p, t)
    \/ BuildFault \/ Tick \/ Crash

Next == Sweep \/ Environment \/ \E r \in Renderers : Restart(r)

Spec == Init /\ [][Next]_vars

\* The builder thread keeps running (the loop wakes at least every
\* HUB_BUILD_INTERVAL seconds) and the container restarts a dead process.
\* Nothing is assumed of the inbox, the clock, or faults.
Fairness == WF_vars(Sweep) /\ WF_vars(\E r \in Renderers : Restart(r))

FairSpec == Spec /\ Fairness

-----------------------------------------------------------------------------
(* Properties *)

Phases == {"idle", "down", "scan", "file", "build", "prune", "commit", "withdraw",
           "reclaim", "forget"}

\* The variables hold what the code's columns, locals and files can hold.
TypeOK ==
    /\ inbox \in [Paths -> Texts \cup {None}]
    /\ clock \in Nat
    /\ renderer \in Renderers
    /\ docs \in [Paths -> Rows \cup {None}]
    /\ queue \in [Paths -> Nat \cup {None}]
    /\ stuck \in BOOLEAN
    /\ epubs \in [Paths -> SUBSET Files]
    /\ pc \in Phases
    /\ force \in BOOLEAN
    /\ known \in [Paths -> Builds \cup {None}]
    /\ found \in [Paths -> Texts \cup {None}]
    /\ todo \in SUBSET Paths
    /\ src \in Paths \cup {None}
    /\ built \in Builds \cup {None}
    /\ edits \in Nat /\ mishaps \in Nat

\* A document in the catalog always has an EPUB on disk, through every crash
\* and every re-appearance of a deleted source: the directory GC may not take
\* the files of a document that came back (upsert_document clears gc_queue).
ListedHasEpub == \A p \in Paths : Listed(p) => epubs[p] # {}

\* Without a crash or a failed commit, the one EPUB a row names is missing at
\* most while that row is about to be replaced (between _prune_old_epubs and
\* the commit of upsert_document for the same document).
RowNamesItsEpub ==
    mishaps = 0 =>
        \A p \in Paths :
            Listed(p) /\ ~Has(p, docs[p].build) => pc = "commit" /\ src = p

\* Without a crash or a fault, no directory of EPUBs is forgotten: between
\* sweeps each one belongs to a row or waits in gc_queue.
NoOrphans ==
    mishaps = 0 /\ pc = "idle" =>
        \A p \in Paths : epubs[p] # {} => Listed(p) \/ queue[p] # None

\* When the inbox has come to rest the catalog agrees with it: a removed source
\* is not listed, and a source that can be built is listed with the build the
\* current renderer makes of it, whatever crashed, failed or moved on the way.
Agrees(p) ==
    IF inbox[p] = None
    THEN ~Listed(p)
    ELSE inbox[p] \notin Unbuildable => Listed(p) /\ docs[p].build = BuildOf(inbox[p])

\* ... as long as the builder's connection can write.
Converges == <>[](stuck \/ \A p \in Paths : Agrees(p))

\* As the README of the hub says, a file dropped in the inbox is readable within
\* a minute; and the handler of _safe_sweep logs that the loop continues.
LoopRecovers == <>[](\A p \in Paths : Agrees(p))

\* A directory whose grace period is over is collected, or its document is back.
DueIsCollected == \A p \in Paths : p \in Due ~> queue[p] = None \/ stuck

\* The library keeps the promise of Shelf.
Promise == INSTANCE Shelf WITH
    shelf <- [p \in Paths |-> IF Listed(p) THEN docs[p].build ELSE None],
    left  <- queue,
    kept  <- {p \in Paths : epubs[p] # {}}

KeepsPromise == Promise!Spec
=============================================================================
