------------------------------- MODULE Ebooks -------------------------------
(***************************************************************************)
(* The ebooks shelf: scan(), which walks the directory and keeps the       *)
(* listing for _CACHE_SECONDS, run by several threads of one worker that   *)
(* share _cache without a lock.  A scan reads the clock before it walks,   *)
(* and whoever ends last leaves its listing, the older of two included.    *)
(***************************************************************************)
EXTENDS Integers

CONSTANTS
    Files,       \* paths of readable files under the root, numbered in their order
    Readers,     \* threads
    NoFile,
    TTL,         \* _CACHE_SECONDS, in ticks
    MaxTick, MaxChanges   \* bounds of the exploration

ASSUME NoFileAssumption ==
    /\ NoFile \notin Nat
    /\ NoFile \notin [at : Nat, books : [Files -> Nat \cup {NoFile}]]
    /\ NoFile \notin [began : Nat, left : SUBSET Files, got : [Files -> Nat \cup {NoFile}]]
ASSUME FilesAssumption == Files \subseteq Nat
ASSUME TTLAssumption == TTL \in Nat \ {0}

VARIABLES
    tick,
    changes,   \* how often the owner has changed a file
    files,     \* files[f]: its mtime, or NoFile
    changed,   \* when files[f] was last written or removed
    listing,   \* _cache: a listing and the time its scan began, or NoFile
    scanning,  \* scanning[t]: the walk of thread t, or NoFile
    given      \* given[t]: the listing thread t has returned last, and when it was asked

ebookVars == <<tick, changes, files, changed, listing, scanning, given>>
ownerVars == <<changes, files, changed>>

Books == [Files -> Nat \cup {NoFile}]
Listings == [at : Nat, books : Books]
Walks == [began : Nat, left : SUBSET Files, got : Books]

EbooksTypeOK ==
    /\ tick \in Nat /\ changes \in Nat
    /\ files \in Books
    /\ changed \in [Files -> Nat]
    /\ listing \in Listings \cup {NoFile}
    /\ scanning \in [Readers -> Walks \cup {NoFile}]
    /\ given \in [Readers -> Listings \cup {NoFile}]

NoBooks == [f \in Files |-> NoFile]

EbooksInit ==
    /\ tick = 0 /\ changes = 0
    /\ files = NoBooks /\ changed = [f \in Files |-> 0]
    /\ listing = NoFile
    /\ scanning = [t \in Readers |-> NoFile]
    /\ given = [t \in Readers |-> NoFile]

EbookTick ==
    /\ tick < MaxTick
    /\ tick' = tick + 1
    /\ UNCHANGED <<ownerVars, listing, scanning, given>>

\* The owner copies a file in, replaces it, or takes it away.
Change(f, new) ==
    /\ changes < MaxChanges /\ new # files[f]
    /\ changes' = changes + 1
    /\ files' = [files EXCEPT ![f] = new]
    /\ changed' = [changed EXCEPT ![f] = tick]
    /\ UNCHANGED <<tick, listing, scanning, given>>

Gives(t, asked, books) == given' = [given EXCEPT ![t] = [at |-> asked, books |-> books]]

Kept == listing # NoFile /\ tick - listing.at < TTL

ScanHit(t) ==
    /\ scanning[t] = NoFile /\ Kept
    /\ Gives(t, tick, listing.books)
    /\ UNCHANGED <<tick, ownerVars, listing, scanning>>

ScanBegin(t) ==
    /\ scanning[t] = NoFile /\ ~Kept
    /\ scanning' = [scanning EXCEPT ![t] = [began |-> tick, left |-> Files, got |-> NoBooks]]
    /\ UNCHANGED <<tick, ownerVars, listing, given>>

\* The next file of the walk, in the order of the paths: a file that is gone by
\* then is left out.
ScanPath(t) ==
    /\ scanning[t] # NoFile
    /\ \E f \in scanning[t].left :
           /\ \A g \in scanning[t].left : f <= g
           /\ scanning' = [scanning EXCEPT ![t].left = @ \ {f}, ![t].got[f] = files[f]]
    /\ UNCHANGED <<tick, ownerVars, listing, given>>

Ends(t, at) ==
    /\ scanning[t] # NoFile /\ scanning[t].left = {}
    /\ listing' = [at |-> at, books |-> scanning[t].got]
    /\ Gives(t, scanning[t].began, scanning[t].got)
    /\ scanning' = [scanning EXCEPT ![t] = NoFile]
    /\ UNCHANGED <<tick, ownerVars>>

\* Mutant: the listing is dated when the walk ends.
ScanEndDatedLate(t) == Ends(t, tick)

ScanEnd(t) == Ends(t, scanning[t].began)

EbooksNext ==
    \/ EbookTick
    \/ \E f \in Files : Change(f, tick) \/ Change(f, NoFile)
    \/ \E t \in Readers :
           ScanHit(t) \/ ScanBegin(t) \/ ScanPath(t) \/ ScanEnd(t)

EbooksSpec == EbooksInit /\ [][EbooksNext]_ebookVars

-----------------------------------------------------------------------------
(* Whoever asks for the listing sees every file as it is, unless the file  *)
(* changed less than _CACHE_SECONDS before it was asked for, or after: the *)
(* older of two walks may end last and replace the newer listing, and      *)
(* still expires by the time it began.                                     *)
ListingIsRecent ==
    \A t \in Readers : given[t] # NoFile =>
        \A f \in Files : changed[f] <= given[t].at - TTL => given[t].books[f] = files[f]
=============================================================================
