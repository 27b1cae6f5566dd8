# A verification project for kindle-os

kindle-os is a small hub: markdown is rsynced into an inbox, a background thread
turns it into EPUBs and catalog rows, and two doors serve them: a Kindle reads
OPDS feeds with a device token, a browser reads pages with a session cookie.
This directory holds TLA+ models of the hub, the TLC runs that check them, and
TLAPS proofs about them. Paths below are relative to `src/hub/src/kindle_hub/`
unless they begin with `src/`.

## Running it

    tlc -workers 2 -config Library.cfg MCLibrary.tla     # any .cfg with the module of its run
    tlapm LibraryProofs.tla                              # any *Proofs module

`PROJECT.json` lists the runs, the source lines of every definition (`map`), the
hazards, the findings, the mutants that show each property can fail, and the
theorems.

## The system

One process serves HTTP (gunicorn, one worker, four threads) and runs one
builder thread; `kindle-hub` commands run beside it as processes of their own.
Shared state: the SQLite catalog (WAL, one connection per thread, no explicit
`BEGIN` and no `rollback` anywhere), the inbox (written by rsync only), the
library directory (written by the builder, read by nginx) and `secrets.env`
(read at start).

| component | state | operations | what makes it correct |
|---|---|---|---|
| inbox sweep (`builder.py` sweep, `ingest/scanner.py`, `convert/pipeline.py`, document half of `catalog/store.py`) | inbox, documents, gc_queue, EPUB files, the sweep's locals | scan, decide, build, prune, upsert, delete, collect | a row names files that exist; catalog converges to inbox; nothing is collected too early or forgotten |
| builder thread and lock (`builder.py`) | flock, wake event, force flag | start, wait, sweep, request_rebuild, CLI build | one sweep at a time; no request lost; somebody owns the loop |
| downloads (`web/reader.py`, nginx) | an answered request | check row and file, hand to nginx | the file is there when nginx opens it |
| web sessions (`catalog/store.py`, `web/reader.py`, `auth/`) | sessions, cookies | login, touch, logout, logout everywhere, password change | dropped stays dropped; active stays accepted |
| device tokens (`app.py`, `catalog/store.py`, `__main__.py`) | device_tokens, tombstones, secrets.env | seed, add, rm, unrevoke, authenticate | revoked stays revoked |
| gates, guards and access log (`auth/middleware.py`, `app.py`, `catalog/store.py`) | a connection per thread, one access row per device request | authenticate, note the use, slide, drop, answer | no device is let in on a stale view, and no dropped session; a locked database is never a refusal; every use is logged |
| login slots (`auth/__init__.py`) | two semaphore slots | verify with a 5 s wait, fail after a delay | a slot always comes back; a login is always answered |
| feeds (`web/opds.py`, shelf queries) | the reader's cached pages | shelves, paging, Last-Modified | a cached page is not stale; a walk misses nothing |
| ebooks shelf (`web/ebooks.py`) | files of another tree, one cached listing, a manifest | scan, shelves | a listing is at most two minutes old; shelves say what the manifest says |
| converters (`convert/*`) | what one build has read so far | sections, tables, code lines, pictures, charts | nothing of a document is lost, what cannot be shown stays apart, and what is shown is what was written |
| web reader pages, CSRF, admin, configuration, CLI, nginx | - | pages, health, settings | - |

Hard behaviours, in the order they matter here: the inbox and the process's life
interleave with every step of a sweep; catalog and library are two stores that
are never committed together; SELECTs run outside the transactions of the writes
they guard; a locked database leaves a transaction open; the builder, the CLI
and the operator's edits of `secrets.env` are processes that know nothing of each
other; and every time limit (grace, idle, cap, interval) is compared with a
clock that runs on in between. The full list is under `hazards`.

## Modules

**Library** models `sweep()` from `get_build_shas` to `set_meta`. A sweep is a
walk of `pc` through `scan, file, build, prune, commit, withdraw, reclaim,
forget` and back to `idle`; `found`, `known`, `todo`, `src` and `built` are its
locals, `force` its argument. Each SQLite transaction is one step (`Upsert`,
`DeleteDocument`, `ForgetGc`), each visible file operation another (`WriteEpub`
is the `os.replace`, `PruneEpubs`, `RemoveFiles` which can be seen half done).
`inbox` changes under it (`Edit`); `Crash` drops the locals, `Restart` may bring
another renderer configuration. A text is a model value. An EPUB is identified
with its build, because its name carries the build's digest (the default,
`HUB_STABLE_FILENAMES` off). `WriteRaises` is what a locked database does to the
builder's connection: the write raises and, if any other connection commits
before the builder writes again, the connection is `stuck` until the process
ends. That this is what sqlite3's implicit transactions do was observed on the
library itself before it was modelled.

**Shelf** is the abstract specification: a document is absent, listed, or in its
grace period. `Library!KeepsPromise` is the refinement: `shelf` is the build of
the row, `left` is `gc_queue`, `kept` the documents with an EPUB. It promises
that files come before the row and stay while it is listed and for the grace
period after; that an in-flight revision keeps its exact file is not promised,
because the code does not keep it.

**Downloads** EXTENDS Library with one reader: `Download` is the route's check
of row and file, `OpenFile` the moment nginx opens what the header names.

**BuildLoop** models who sweeps and when: `lock` is the flock, `loop[h]` the line
of `_run` a hub's builder thread stands at, `wake` and `forceNext` the two
attributes `request_rebuild` sets one after the other, `cli[b]` a build by hand.
A sweep is one state here and all of Library there; `OneSweeper` is what lets
Library have one builder. `owed` is a history variable: hubs with an answered
request whose forced sweep has not begun.

**DeviceTokens** splits registering (`is_token_revoked`, then INSERT) and
revoking (SELECT, then one transaction) the way the statements are split.
`revoked` and `raced` are history variables: the second holds the registrations
whose pair was tombstoned after they had checked it, and `OnlyARaceRevives` says that
a tombstoned pair comes to authenticate at the insert of one of these and at no
other step.

**Sessions** splits `touch_session` into the decision and the write that follows
it in a statement of its own. A request may carry any cookie ever issued, as the hub
asks nothing of a cookie's age: the browser's own limit (`Sends`) matters to
`CookieSlides` alone. `lastUse` is a history variable: the last time a request was
accepted, which `last_seen` follows at up to a day's distance.

**KindleDoor** follows requests through the gates. A request is at `token`,
`note`, `session`, `slide`, `drop` or `view`; each is one statement on the worker
thread's own connection, whose state is `conn[w]`. A statement that finds the
database locked (`LockedOut`) answers 500 and leaves the connection in the
transaction Python opened for it; its next read pins `view[w]`, and it writes
again only while nobody else has committed (`behind`). The model is the store's
`_execute` and `commit`, `current_basic_principal`, `current_session_principal`,
the four decorators, `note_device_access`, the redirect guard, and the address
nginx passes on. `ever` and `always` are history variables: what the credential
of the request was good for at some time, and all the time, of the request. A wedged
connection can let a session in that is no longer there, which `FreshAdmission` excepts
and `DroppedIsOut` is about. One view writes, `/admin/logout-everywhere` (`ViewRaises`). The
ages of a session are Sessions' subject; here its row is live, aged or gone.

**Logins** is `verify_web_password`: a thread waits for one of the slots, gives up
after `_VERIFY_WAIT_SECONDS`, verifies, releases in the `finally`, and holds a
refusal back. Whoever comes first takes a freed slot, newcomers included.

**Feeds** puts the sweep's two writes (`TakeStamp` then `CommitUpsert`, because the
timestamp is taken before the commit; `DeleteRow`) next to a reader that walks a
shelf: `Miss` is its HEAD, `Count` and `Select` the two statements of
`_acquisition_feed`, `Hit` a page it has under the present Last-Modified.
`silent` and `shifted` are history variables: they name the changes that
Last-Modified, and paging by offset, cannot show.

**Ebooks** is `scan()`: threads that find no fresh listing walk the tree file by
file, and whoever ends last leaves its listing in `_cache`, dated when its walk
began. **Curated** is `shelves()`, the loop over the manifest's lines.

**Enumerate** has the two loops that several modules share: the one that notes where
something is found, in order (`InOrder`: the headings a document is cut at, the cells
and the shelves that are kept), and `sum()` (`Total`).

**Reflow** (`reflow_line`), **Sections** (`split_sections`, the EPUB's files and
contents), **Tables** (`parse_table`, `transform`) and **Charts** (`_parse_bars`,
`render_bars`) are pure functions, written as the loops they are: an action takes
one atom, block, cell or line, so that TLC meets every input up to the bound and
an invariant can speak of each prefix. Text is its width, or a member of a small
set.

In Reflow the characters of the line behind its indentation are numbered, and a
word, the piece being filled (`cur`) and the pieces (`out`) are the numbers they run
through, so that what is lost or doubled can be told from `out` itself. In Sections a
token is what the cut and the XML parser tell apart: an H1 with a `#` or underlined, a
line in a fence that looks like one, text, raw markup, a control character, where an
outermost quotation or list begins and ends. `DocTitle` is `frontmatter.split`: the
stated title, or what `_H1_RE` finds first in the source, or the file's name; it goes
into the files of sections without a heading, the package and the NCX. In Charts a
number is in tenths with the separator it is written with; `Meant` is what a writer
means by it, `Parse` what the hub reads.

**Pictures** is the collector of a build: a reference is resolved once for
the narrow and once for the wide rendering, pixels and digest are two reads of a
file that may be replaced in between, and media files are written in place. What the
published page shows (`web`) is kept apart from what was collected. `raced` and `cut`
are history variables: which build gave a name to other pixels, and which died
in writing which media file; `media[n].by` is the build that wrote it.

**MCWebApp** (Feeds, Ebooks, Curated, KindleDoor, Logins) and **MCConversion** (the
five converters) each hold five of these modules. Their parts share
no state, so a behaviour follows one of them, its `focus`, and the others stay at
their initial states: interleaving them would multiply the states and reach
nothing new. The initial states are those of the part in focus; a walk starts on
a shelf of at least a full page of documents of one title (retitling is among the
sweep's writes). **MCHub** does the same, with `part`, for MCWebApp, BuildLoop,
DeviceTokens and Sessions, whose tables and flags no two of them share; what the
sessions and tokens are to a request in KindleDoor, its `Write` may change at any time.
`HubTypeOK` joins their types, `HubFairness` and the two liveness properties
`LoopServes` and `LoginsAnswered` are those of BuildLoop and Logins, each for the
behaviours that follow its part. **MCLibrary** follows either two documents of texts
that can be built under one renderer (`many`), or one document whose text and
renderer change and which a reader downloads.

The `MC*` modules give constants their values for TLC; the `*Proofs` modules
hold theorems, those of ListingsProofs and ConversionProofs also of the compositions.

## Runs

| run | bounds | shows |
|---|---|---|
| `library` | 2 documents and 2 texts, or 1 document, 3 texts (one cannot be built), 2 renderers and a download; 2 edits, 3 clock values, grace 1, 1 mishap | the invariants, convergence (across renderers too), collection and the refinement of Shelf; only a revision takes a file in flight |
| `library_wedge` | 1 edit, 1 mishap | **fails**: the loop does not recover from a locked database |
| `downloads_in_flight` | as `library` | **fails**: the comment of `_prune_old_epubs` |
| `hub` | loop: 2 hubs, 2 builds, 2 requests, 2 deaths; tokens: 1 device, 2 good digests and a malformed one, 2 seeders, 4 values of the environment, 3 starts, 3 commands; sessions: 1 session, 2 threads, 2 passwords, idle 2 days, cap 4, half-day ticks, 10 ticks; feeds: 3 documents, 2 titles, pages of 2, 2 commits, 2 seconds, 2 walks; ebooks: 2 files, 2 threads, a TTL of 2 in 4 ticks, 1 change; manifest: 5 lines over 3 names, 3 paths (two of one name) and 3 headings (one empty); doors: 1 worker, 1 token, 2 addresses; logins: 3 on 2 slots, a wait of 1 | mutual exclusion and no lost request; only a registration caught between its check and its insert revives a tombstoned pair; both timeouts and a new password refuse a session, a slide revives none; what a feed, a listing, the manifest, a gate and a slot can promise |
| `build_loop_owner` | 1 hub, 1 build | **fails**: nobody owns the loop |
| `device_tokens_race` | tokens as above | **fails**: that race, which no authentication notices |
| `device_tokens_rm` | tokens as above | **fails**: an older digest comes back |
| `sessions_cookie` | as above, 2 sessions | **fails**: the cookie does not slide |
| `kill_switch` | doors as above | **fails**: a dropped session is let in on a wedged connection |
| `conversion` | code: 20 columns, 4 indentations, 5 widths, 5 atoms; sections: 4 tokens of 9 kinds, 3 headlines (one empty, one with a control character), 2 stated titles; tables: 20 columns, 3 by 2 cells; pictures: 2 images, 2 contents, 1 figure, 2 saves, 2 builds, 1 death; charts: 4 bars of 10 numbers, a height of 256 | nothing of a document is lost on the way to the screen, and damage stays where it is |
| `code_edge` | code at one indentation | **fails**: a piece of one word passes the edge |
| `charts_point` | 2 bars of 3 sizes | **fails**: a decimal point is dropped |

Why the bounds are enough. A document's life needs an edit to change or remove it
and a second one to bring it back, and the second document is there to be handled
before or after the first in the same sweep; two ticks with a grace of one is the
shortest history in which something expires, and something else does not. One
mishap (a crash between any two steps, an unreadable text, a full disk while the EPUB is built or
pruned, a locked database) at every possible step covers each window it can fall in. The cap of
four days with an
idle timeout of two makes both boundaries reachable, with a slide in between. One
session is enough: no step looks at a second one, and logout everywhere, which drops
all, also comes from the command line without a session. Three documents on pages of two make a second page, from which a document can move to
the first; two commits bring a change and another under the same second, and two
walks a page held from the one to the other. Two threads and two files are two
walks that overlap at each file, one beginning before the change and ending after
the other. One worker is enough at the doors: all that other workers do to it is
commit, and `Write` commits anything at any time; `AdmissionsFresh` and its
neighbours are proved for any number. Three logins on two slots make one wait and
give up. The four
indentations of a screen of twenty columns include one at which only the
continuation's budget is at its minimum of eight and one at which both are; the
widths give words that fit, that wrap and that are cut, into up to six chunks. Four
tokens are text before, between and after two headings, or a quotation with a heading in
it; the footnotes come on top. Ten numbers are four sizes with a comma or a point, two of
them whole, one negative and one zero: charts of zeros alone and of one decimal separator
only are among them. A height of 256 cuts a chart of four rows,
as 1400 pixels cut one of nineteen.
Three starts and three commands are what it takes to seed, add, revoke and seed
again with a second seeder overlapping. Deadlock is not checked: every run reaches
its bounds on edits, clock, deaths or commands, and hubs may be idle.

Each passing property has a mutant of the code (a definition marked "Mutant"
beside the one it replaces) under which TLC finds it violated.

## Fairness

`Library!FairSpec` assumes that the builder thread keeps taking steps (the loop
runs every `HUB_BUILD_INTERVAL` seconds and nothing in it waits for the outside)
and that a dead process is restarted (`restart:` in `docker-compose.yml`); nothing
is assumed of the inbox, the clock or faults. The fairness is on the sweep as a whole, which chooses a
file nondeterministically only where the code's order is unspecified. `LoopFairness`
assumes each builder thread and each request thread runs on; it assumes nothing
of the wait's timeout, so `RequestIsServed` (`LoopServes` in the run) is owed to the wake event alone. `LoginsFairness`
assumes that worker threads run on, that time passes while one waits, and that a
verification and a delay end. It is weak throughout: no thread is promised a slot
that others keep taking, so `EveryLoginAnswered` (`LoginsAnswered`) rests on giving up.
Feeds, Ebooks, Curated, KindleDoor and the converters promise safety only: a
request runs to its answer or its process ends.

`Converges` and `DueIsCollected` are stated up to `stuck`; that nothing weaker
will do is the finding of `library_wedge`.

## Findings

1. **A locked database stops the builder for good** (`library_wedge`). One write
   that outlasts `busy_timeout` leaves its transaction open; nothing rolls back; each
   later write fails at once and each later sweep logs an error.
2. **Pruning goes by the age of the old file** (`downloads_in_flight`), not by when it was
   superseded, and happens before the new row is committed.
3. **The loop may have no owner** (`build_loop_owner`).
4. **`token rm` tombstones one digest** (`device_tokens_rm`), not the ones in
   `HUB_OPDS_TOKENS`.
5. **The session cookie does not slide** (`sessions_cookie`).
6. **A revocation can be overtaken** (`device_tokens_race`): tombstones are checked at
   registration only, in a transaction of its own, and never "before every auth".
7. **The kill switch misses a wedged connection** (`kill_switch`), the web door's share
   in finding 1: its old view still holds the session.
8. **A continuation can pass the edge** (`code_edge`): a word measured by the first
   budget, cut in chunks of it or carried over whole, stands four columns deeper.
9. **A decimal point is dropped** (`charts_point`): 71.6 is read as 716.

The passing property beside each says how far the code goes: `OnlyARevisionTakesIt`,
`OnlyARaceRevives`, `FreshAdmission`, `PieceFits` and `ChartIsTrue` hold with these
exceptions, named one by one, and with no others.

## Where comments promise more

These have no run of their own: a passing property says how far the code goes,
and its exceptions are what the comment leaves out. TLC reaches each exception, and
finds the property violated without it.

* `web/opds.py:18`, "an accurate Last-Modified": it is the newest stamp of the rows
  that are left, so a deletion does not change it and a reader that holds a
  page goes on showing it. `StaleOnlyWhenSilent` lists the changes that do this.
  In this sense a document does not "leave every feed immediately"
  (`catalog/store.py:193`): it leaves what the hub serves.
* `convert/epub.py:111`, the fallback to plain text is "never a broken book":
  escaping leaves a control character as it is, in the text or in the title, nothing
  is checked again, and the package, nav and NCX are not checked at all.
  `DamageStaysApart` says which files and contents cannot be opened: just those
  that hold such a character (`Hurt`).
* `convert/mdrender.py:216`, "one HTML fragment per top-level section": the level of a
  heading is not looked at, so an H1 in a quotation or a list is a boundary and both
  halves of the quotation are shown as escaped markup. `DamageStaysApart` says
  that otherwise only raw markup costs a section its layout.
* `convert/pipeline.py:348-349`, media files are written lest the page "shows broken
  pictures": a death in writing one leaves it torn, and as it exists no later
  build writes it again. `PageShowsItsPictures` ties each torn file to the death of
  the build that wrote it.
* `convert/images.py:87`, an image is "byte-deterministic for a given input": its name is
  the digest of a second read, and goes to the pixels of the first. A file replaced
  in between is served with the old pixels under the new content's name, by
  later builds too. `PageShowsItsPictures` ties each such name to the build that
  raced the replacement.
* `convert/diagram.py:144`, "every value is printed": the height is cut at `MAX_H`, and
  rows below it are drawn outside the picture. `ChartIsTrue` says that only those are.

## Proofs

TLC checks the instances above; TLAPS proves the following for all values of
the constants, under the assumptions stated in each module (`None` is none of
the values it stands apart from, bounds are natural numbers).

* `LibraryProofs`: `TypeCorrect`, `ListedDocumentsHaveFiles`, `Refinement`.
  `ListedHasEpub` is not inductive. The invariant `Inv` adds `Bookkeeping` (in
  `prune` and `commit` the build just written is in the directory of `src`),
  `ListedOrQueued` (no document is both listed and in `gc_queue`, because
  `upsert_document` clears the queue in the transaction that lists it) and
  `Collecting` (whatever the sweep is about to remove is queued and expired,
  hence not listed). With them each step of the sweep is a step of Shelf:
  `Upsert` is `Publish`, `DeleteDocument` is `Withdraw`, the last unlink of
  `RemoveFiles` is `Discard`, `ForgetGc` is `Forget`, `WriteEpub` is `Prepare`.
* `BuildLoopProofs`: `TypeCorrect`, `MutualExclusion` (from `LockHeld`: whoever
  runs the loop or sweeps by hand holds the flock) and `RequestsKept`, whose
  strengthening `RequestKept` also speaks of a request that arrives in the middle of a sweep: the
  event will still be set when the thread comes back to wait.
* `DeviceTokensProofs`: `TypeCorrect`, `OnlyRacesRevive`, from `JobsRaced`: a
  registration about to insert a tombstoned pair checked before the tombstone. A step
  makes a pair authenticate only by inserting it, and one that is tombstoned at the
  insert was so before, since no step does both.
* `SessionsProofs`: `TypeCorrect`, `LagBounded`, `ActiveAccepted`,
  `DroppedForGood`, `StaleRefused`, from `OnlyIssued`,
  `SlidesAcceptable` (a slide under way is of a row that is still acceptable or gone)
  and `NeverAhead` (a row is never seen later than its last use, so that an idle time
  counted from it is no shorter than the real one).
* `LibraryProofs` again: `RowsNameTheirEpubs` and `NothingOrphaned` hold up to the first
  mishap. Their strengthening `Faultless` speaks of every step: only the document
  between prune and commit may be listed under a file that is gone, only the
  one just written may have files and no owner, and `forget_gc` follows an
  empty directory.
  `DownloadsSurvive` adds `Fetched`: a document whose download is on its way was
  listed when it was answered, so that its entry in `gc_queue` is younger and its directory
  is not emptied before the grace period is over.
* `AccessProofs`: of KindleDoor, `DoorTyped`, `AdmissionsFresh`, `RefusalsExplained`, `UsesLogged`, for
  any number of workers. `DoorInv` adds `SeesTruth` (a pinned view is the database
  unless somebody has committed since), `Tracked` (`always` is within what the
  credential is good for now, and that within `ever`), and for each worker `Admits` and
  `Refusals`, which say what a request on its way has already been good for.
  Of Logins, `LoginsTyped`, `RefusalsUnderLoad`, from `SlotsKept`: free slots and threads
  at work add up to `Slots`.
* `ListingsProofs`: `EbooksTyped`, `ListingsRecent`, from `BooksDated` (no listing is from the
  future), `WalkTrue` and `ListingTrue` (what a walk has looked at, and the kept listing,
  are true of every file that has not changed since they began). `FeedsTyped`,
  `StalePagesExplained`, for any finite set of documents, any size of a page and any
  number of walks: `Times` says that no row is dated later than now, and `Fresh` that
  an unmarked page is dated no later than the shelf and, when it is dated like the
  shelf, is the page the hub would serve. `Fresh` follows a write by `Dating`: a write
  that is not marked either moves the Last-Modified or leaves every page as it is.
* `ConversionProofs`: `TypeCorrect`, `PiecesFit`, `LineKept`, for any screen and any line.
  `ReflowInv` has three parts beside the types: `CurIs` (what is kept back ends where the
  line was last read, and is wider than the continuation's budget only as a word that was
  measured by the first one), `Well` (the pieces so far are in order and each within its
  bound) and `Covered` (a character of a word is in a piece or still kept back).
  `PicturesTyped`, `PackagesClosed`, `PagesShowTheirPictures`, for any document and any
  number of builds, deaths and changes of the image files. Their invariant `PicturesInv`
  adds that what has been rendered is among what was collected (`TextCollected`), that
  every picture collected, and every media file, has the pixels its name says unless the
  build it is of raced a replacement (`PicturesTrue`, `MediaTrue`; the latter also that a torn
  file is being written or its build died in writing it), that a picture no longer
  pending has its media file (`MediaComplete`), and that so has every picture of the
  published page (`PageKept`).
* `EnumerateProofs` has the lemmas the proofs about sequences rest on. A recursive
  definition is a CHOOSE of a function that satisfies its equation. `FoldExists` shows by
  induction that for a fold there is one; `InOrderUnfolds`, `TotalUnfolds` and
  `FlattenUnfolds` say what it is. `InOrderIs`: what
  `InOrder` gives is increasing and has every number asked for. `OneOrder`: two
  increasing sequences with the same members are equal, which is how what a loop
  built is shown to be what a property describes. `Flattens`: pieces cut from a
  sequence one behind the other are, joined, the sequence. Induction is stated for a
  set of numbers (`Inductive`), because a lemma cannot be given a predicate here.
* `ListingsProofs` again, a walk: `WalksShowAll`. `WalkShowsAll` speaks of the end of a
  walk; `Ahead` says of its middle that a document which has stayed on the shelf and
  has not been shown has at least `(page - 1) * PageSize` documents before it
  (`Rank`), so that its page is yet to come, and `CountHolds` that the shelf is still
  as large as it was counted, so that the next link is there. A write that does not
  set `shifted` moves no rank down (`StillAhead`), because a row is dated no earlier
  than any other (`WrittenLast`) or keeps its place. The hub and the reader's cache
  come in through `FeedsInv`: a page held under the present Last-Modified is the
  page the hub would serve.
* `ListingsProofs`, the manifest: `ShelvesTrue`. While the loop reads, `ManifestRead` holds:
  `out` has what the lines say under every named heading but the open one, and
  `name`, `note` and `picks` what they have said under the open one so far.
  `ToldStep` says what one more line adds to each heading's part of the manifest:
  nothing when another heading follows it. `WebTyped` puts the five parts together.
* `ConversionProofs`, the sections: `SpineReadsTrue`, `DamageApart`, for any
  document and title. `ChunksCut` finds the places where `Chunked` cuts: they increase from
  0 to the last token, and each H1 is at the beginning of a chunk. The two properties
  are then about one list of spans, and `Flattens` about their sum. `NestedInChunk` carries
  quotations over: where no H1 is inside one, none is cut, and every chunk is balanced.
* `ConversionProofs`, the tables: `WideTablesKeep`, for any table. A column is as wide as
  its widest cell (`WidestIs`), which one of its rows has: the rows that have them are a
  choice of cells side by side as wide as the estimate, and no choice is wider
  (`GridFits`, by `TotalGrows`); the entries of a record are what `InOrder` keeps. `TablesInv` adds that
  every row is as wide as the header, and that what is shown is of the rows as they
  still are.
* `ConversionProofs`, the charts: `ChartsTrue`, for any rows. The peak is no smaller than any
  number read and is one of them (`PeakIs`), so one bar fills the track (`LongestFills`);
  division keeps the order (`LongerBar`), numbers read by the same factor keep theirs
  (`ParseIs`), and rounding is off by half at most (`Rounding`). `ConversionTyped` puts the five parts together.

Every safety property that a passing run checks is stated by a theorem: invariants,
action properties and the refinement of Shelf. Only model-checked is liveness under
fairness (`Converges`, `DueIsCollected`, `LoopServes`, `LoginsAnswered`), which
the proof system does not reach.

## Not modelled, and why

* `Builder.stop()`: no caller.
* `HUB_STABLE_FILENAMES`: off by default; an EPUB then has one name per document.
* Two paths with one `doc_id`: a collision of 48-bit digests.
* Pixels, fonts, graph drawing, the zip container, HTML formatting: data the
  properties do not tell apart.
* TLS, rate limits, fail2ban, rsync's own protocol: other programs.
* `tools/artifact_to_md.py` runs on the author's machine.
* Front matter but for the title, configuration and text cleaning: parsers of strings,
  whose results are constants here.
* In Sections: the cut of a title at 200 characters, the levels of nesting below the
  outermost (an H1 is cut at in any of them), a heading or markup that is not XML in a
  footnote, and the cover page.
* Two image files of one content: they become two entries of one name in the package
  and the archive. `Collected` keeps them apart; nothing promises distinct names. The admin page formats what others keep.
* CSRF and the redirect target of a login: checks of one request on its own values.
* A document page reads its row and its HTML in two statements, and may show the
  page of two builds to one request; nothing promises otherwise.
* The navigation feeds, and the feeds, letters and downloads made from an ebooks
  listing: lists over the state that Feeds, Ebooks and Curated have.
* `render-one` (a debugging command) and `prune_device_access` (no caller); the
  rolling summary of the access log.
* The limit on the lines of a code fence; covers; Graphviz; titles of charts.
