--------------------------- MODULE LibraryProofs ---------------------------
(***************************************************************************)
(* What holds of the sweep for every inbox, every set of renderers and any *)
(* number of edits, crashes and faults, and of a download next to it.      *)
(***************************************************************************)
EXTENDS Downloads, TLAPS

\* Where the sweep stands determines what its local variables hold.
Bookkeeping ==
    /\ pc = "file" => \A p \in todo : found[p] # None
    /\ pc \in {"build", "prune", "commit"} =>
          src \in todo /\ \A p \in todo : found[p] # None
    /\ pc \in {"prune", "commit"} => built \in Builds /\ Has(src, built)
    /\ pc = "forget" => src \in todo

\* Only documents whose grace period is over are collected.
Collecting ==
    pc \in {"reclaim", "forget"} =>
        \A p \in todo : queue[p] # None /\ Expired(queue[p])

\* No document is listed and waits for collection; a listed one has its files.
ListedOrQueued == \A p \in Paths : Listed(p) => queue[p] = None

Inv == TypeOK /\ Bookkeeping /\ Collecting /\ ListedOrQueued /\ ListedHasEpub

\* The assumptions the proofs use, and the definitions every step needs.
USE PathsAssumption, NoneAssumption, GraceAssumption, BoundsAssumption
USE DEF vars, inboxVars, store, sweepVars, Blank

\* At the first start the catalog and the library are empty.
LEMMA InitInv == Init => Inv
  <1>1. ASSUME Init PROVE TypeOK
    <2>1. stuck \in BOOLEAN /\ force \in BOOLEAN
      BY <1>1 DEF Init
    <2>2. edits \in Nat /\ mishaps \in Nat /\ clock \in Nat /\ pc \in Phases
      BY <1>1 DEF Init, Phases
    <2>3. epubs \in [Paths -> SUBSET Files]
      BY <1>1 DEF Init
    <2> QED
      BY <1>1, <2>1, <2>2, <2>3 DEF Init, TypeOK
  <1>2. Init => Bookkeeping /\ Collecting
    BY DEF Init, Bookkeeping, Collecting
  <1>3. Init => ListedOrQueued /\ ListedHasEpub
    BY DEF Init, ListedOrQueued, ListedHasEpub, Listed
  <1> QED
    BY <1>1, <1>2, <1>3 DEF Inv

-----------------------------------------------------------------------------
(* The steps of the sweep keep the variables within their types. *)

LEMMA TypeStep == Inv /\ [Next]_vars => TypeOK'
  <1> SUFFICES ASSUME Inv, [Next]_vars PROVE TypeOK'
    OBVIOUS
  <1> USE DEF Inv, TypeOK, Bookkeeping, Phases, Mishap, LeaveSweep, WriteRaises
  <1>1. ASSUME NEW f \in BOOLEAN, StartSweep(f) PROVE TypeOK'
    BY <1>1 DEF StartSweep, Listed, Rows
  <1>2. ASSUME NEW p \in Paths, ScanFile(p) PROVE TypeOK'
    BY <1>2 DEF ScanFile
  <1>3. ASSUME NEW p \in Paths, AbortSweep(p) PROVE TypeOK'
    BY <1>3 DEF AbortSweep, NextFile
  <1>4. ASSUME NEW p \in Paths, SkipFile(p) PROVE TypeOK'
    BY <1>4 DEF SkipFile
  <1>5. ASSUME NEW p \in Paths, SelectFile(p) PROVE TypeOK'
    BY <1>5 DEF SelectFile, NextFile
  <1>6. ASSUME NEW p \in Paths, DeleteDocument(p) PROVE TypeOK'
    BY <1>6 DEF DeleteDocument
  <1>7. ASSUME NEW p \in Paths, RemoveFiles(p) PROVE TypeOK'
    BY <1>7 DEF RemoveFiles
  <1>8. CASE ScanDone
    BY <1>8 DEF ScanDone
  <1>9. CASE WriteEpub
    BY <1>9 DEF WriteEpub, BuildOf, Builds, Files
  <1>10. CASE BuildError
    BY <1>10 DEF BuildError
  <1>11. CASE PruneEpubs
    BY <1>11 DEF PruneEpubs
  <1>12. CASE Upsert
    BY <1>12 DEF Upsert, Rows
  <1>13. CASE UpsertError
    <2>1. mishaps' \in Nat
      BY <1>13 DEF UpsertError
    <2>2. stuck' \in BOOLEAN
      BY <1>13 DEF UpsertError
    <2> QED
      BY <1>13, <2>1, <2>2 DEF UpsertError
  <1>14. CASE FilesDone
    BY <1>14 DEF FilesDone
  <1>15. CASE DeletionsDone
    BY <1>15 DEF DeletionsDone, Due
  <1>16. CASE ForgetGc
    BY <1>16 DEF ForgetGc
  <1>17. CASE EndSweep
    BY <1>17 DEF EndSweep
  <1>18. CASE SweepRaises
    <2>1. mishaps' \in Nat
      BY <1>18 DEF SweepRaises
    <2>2. stuck' \in BOOLEAN
      BY <1>18 DEF SweepRaises
    <2> QED
      BY <1>18, <2>1, <2>2 DEF SweepRaises
  <1>19. ASSUME NEW p \in Paths, ScanError(p) PROVE TypeOK'
    BY <1>19 DEF ScanError
  <1>20. ASSUME NEW p \in Paths, RemoveError(p) PROVE TypeOK'
    BY <1>20 DEF RemoveError
  <1>21. ASSUME NEW p \in Paths, NEW t \in Texts \cup {None}, Edit(p, t) PROVE TypeOK'
    BY <1>21 DEF Edit
  <1>22. CASE Tick
    BY <1>22 DEF Tick
  <1>23. CASE Crash
    <2>1. mishaps' \in Nat
      BY <1>23 DEF Crash
    <2> QED
      BY <1>23, <2>1 DEF Crash
  <1>24. ASSUME NEW r \in Renderers, Restart(r) PROVE TypeOK'
    BY <1>24 DEF Restart
  <1>25. CASE BuildFault
    <2>1. mishaps' \in Nat
      BY <1>25 DEF BuildFault
    <2> QED
      BY <1>25, <2>1 DEF BuildFault
  <1>26. CASE UNCHANGED vars
    BY <1>26
  <1> QED
    BY <1>1, <1>2, <1>3, <1>4, <1>5, <1>6, <1>7, <1>8, <1>9, <1>10, <1>11, <1>12, <1>13,
       <1>14, <1>15, <1>16, <1>17, <1>18, <1>19, <1>20, <1>21, <1>22, <1>23, <1>24, <1>25, <1>26
       DEF Next, Sweep, Environment

-----------------------------------------------------------------------------
(* The steps keep track of where the sweep stands. *)

LEMMA BookkeepingStep == Inv /\ [Next]_vars => Bookkeeping'
  <1> SUFFICES ASSUME Inv, [Next]_vars PROVE Bookkeeping'
    OBVIOUS
  <1> USE DEF Inv, TypeOK, Bookkeeping, LeaveSweep, Has
  <1>1. ASSUME NEW f \in BOOLEAN, StartSweep(f) PROVE Bookkeeping'
    BY <1>1 DEF StartSweep
  <1>2. ASSUME NEW p \in Paths, ScanFile(p) \/ ScanError(p) PROVE Bookkeeping'
    BY <1>2 DEF ScanFile, ScanError
  <1>3. ASSUME NEW p \in Paths, AbortSweep(p) PROVE Bookkeeping'
    BY <1>3 DEF AbortSweep
  <1>4. ASSUME NEW p \in Paths, SkipFile(p) PROVE Bookkeeping'
    BY <1>4 DEF SkipFile, NextFile
  <1>5. ASSUME NEW p \in Paths, SelectFile(p) PROVE Bookkeeping'
    BY <1>5 DEF SelectFile, NextFile
  <1>6. ASSUME NEW p \in Paths, DeleteDocument(p) PROVE Bookkeeping'
    BY <1>6 DEF DeleteDocument
  <1>7. ASSUME NEW p \in Paths, RemoveFiles(p) \/ RemoveError(p) PROVE Bookkeeping'
    BY <1>7 DEF RemoveFiles, RemoveError
  <1>8. CASE ScanDone
    BY <1>8 DEF ScanDone
  <1>9. CASE WriteEpub
    <2>1. built' \in Builds
      BY <1>9 DEF WriteEpub, BuildOf, Builds
    <2> DEFINE new == [build |-> BuildOf(inbox[src]), mtime |-> clock]
    <2>2. new \in epubs'[src] /\ built' = new.build /\ src' = src
      BY <1>9 DEF WriteEpub
    <2>3. Has(src, built)'
      BY <2>2
    <2> QED
      BY <1>9, <2>1, <2>3 DEF WriteEpub
  <1>10. CASE BuildError \/ BuildFault \/ UpsertError \/ Upsert
    BY <1>10 DEF BuildError, BuildFault, UpsertError, Upsert
  <1>11. CASE PruneEpubs
    <2>1. Has(src, built)'
      BY <1>11 DEF PruneEpubs, Stale
    <2> QED
      BY <1>11, <2>1 DEF PruneEpubs
  <1>12. CASE FilesDone \/ DeletionsDone \/ ForgetGc
    BY <1>12 DEF FilesDone, DeletionsDone, ForgetGc
  <1>13. CASE EndSweep \/ SweepRaises \/ Crash
    BY <1>13 DEF EndSweep, SweepRaises, Crash
  <1>14. ASSUME NEW p \in Paths, NEW t \in Texts \cup {None}, Edit(p, t) PROVE Bookkeeping'
    BY <1>14 DEF Edit
  <1>15. CASE Tick
    BY <1>15 DEF Tick
  <1>16. ASSUME NEW r \in Renderers, Restart(r) PROVE Bookkeeping'
    BY <1>16 DEF Restart
  <1>17. CASE UNCHANGED vars
    BY <1>17
  <1> QED
    BY <1>1, <1>2, <1>3, <1>4, <1>5, <1>6, <1>7, <1>8, <1>9, <1>10, <1>11, <1>12, <1>13,
       <1>14, <1>15, <1>16, <1>17 DEF Next, Sweep, Environment

-----------------------------------------------------------------------------
(* Collection takes only documents that are due, and no listed one. *)

LEMMA CollectingStep == Inv /\ [Next]_vars => Collecting' /\ ListedOrQueued'
  <1> SUFFICES ASSUME Inv, [Next]_vars PROVE Collecting' /\ ListedOrQueued'
    OBVIOUS
  <1> USE DEF Inv, TypeOK, Bookkeeping, Collecting, ListedOrQueued, LeaveSweep, Listed,
             Expired
  <1>1. ASSUME NEW f \in BOOLEAN, StartSweep(f) PROVE Collecting' /\ ListedOrQueued'
    BY <1>1 DEF StartSweep
  <1>2. ASSUME NEW p \in Paths,
               ScanFile(p) \/ ScanError(p) \/ AbortSweep(p) \/ SkipFile(p) \/ SelectFile(p)
        PROVE Collecting' /\ ListedOrQueued'
    BY <1>2 DEF ScanFile, ScanError, AbortSweep, SkipFile, SelectFile, NextFile
  <1>3. ASSUME NEW p \in Paths, DeleteDocument(p) PROVE Collecting' /\ ListedOrQueued'
    BY <1>3 DEF DeleteDocument
  <1>4. ASSUME NEW p \in Paths, RemoveFiles(p) \/ RemoveError(p)
        PROVE Collecting' /\ ListedOrQueued'
    BY <1>4 DEF RemoveFiles, RemoveError
  <1>5. CASE ScanDone \/ WriteEpub \/ BuildError \/ BuildFault \/ PruneEpubs \/ UpsertError
              \/ FilesDone
    BY <1>5 DEF ScanDone, WriteEpub, BuildError, BuildFault, PruneEpubs, UpsertError,
                WriteRaises, FilesDone
  <1>6. CASE Upsert
    BY <1>6 DEF Upsert
  <1>7. CASE DeletionsDone
    BY <1>7 DEF DeletionsDone, Due
  <1>8. CASE ForgetGc
    BY <1>8 DEF ForgetGc
  <1>9. CASE EndSweep \/ SweepRaises \/ Crash
    BY <1>9 DEF EndSweep, SweepRaises, Crash, WriteRaises
  <1>10. ASSUME NEW p \in Paths, NEW t \in Texts \cup {None}, Edit(p, t)
         PROVE Collecting' /\ ListedOrQueued'
    BY <1>10 DEF Edit
  <1>11. CASE Tick
    BY <1>11 DEF Tick
  <1>12. ASSUME NEW r \in Renderers, Restart(r) PROVE Collecting' /\ ListedOrQueued'
    BY <1>12 DEF Restart
  <1>13. CASE UNCHANGED vars
    BY <1>13
  <1> QED
    BY <1>1, <1>2, <1>3, <1>4, <1>5, <1>6, <1>7, <1>8, <1>9, <1>10, <1>11, <1>12, <1>13
       DEF Next, Sweep, Environment

-----------------------------------------------------------------------------
(* No step takes the last EPUB of a listed document. *)

LEMMA FilesStep == Inv /\ [Next]_vars => ListedHasEpub'
  <1> SUFFICES ASSUME Inv, [Next]_vars PROVE ListedHasEpub'
    OBVIOUS
  <1> USE DEF Inv, TypeOK, ListedHasEpub, Listed
  <1>1. CASE UNCHANGED <<docs, epubs>>
    BY <1>1
  <1>2. ASSUME NEW p \in Paths, DeleteDocument(p) PROVE ListedHasEpub'
    BY <1>2 DEF DeleteDocument
  <1>3. ASSUME NEW p \in Paths, RemoveFiles(p) PROVE ListedHasEpub'
    BY <1>3 DEF RemoveFiles, Collecting, ListedOrQueued
  <1>4. CASE WriteEpub
    BY <1>4 DEF WriteEpub, Bookkeeping
  <1>5. CASE PruneEpubs
    BY <1>5 DEF PruneEpubs, Stale, Bookkeeping, Has
  <1>6. CASE Upsert
    BY <1>6 DEF Upsert, Bookkeeping, Has
  <1> QED
    <2>1. ASSUME NEW f \in BOOLEAN, StartSweep(f) PROVE UNCHANGED <<docs, epubs>>
      BY <2>1 DEF StartSweep
    <2>2. ASSUME NEW p \in Paths,
                 ScanFile(p) \/ ScanError(p) \/ AbortSweep(p) \/ SkipFile(p)
                     \/ SelectFile(p) \/ RemoveError(p)
          PROVE UNCHANGED <<docs, epubs>>
      BY <2>2 DEF ScanFile, ScanError, AbortSweep, SkipFile, SelectFile, RemoveError
    <2>3. ScanDone \/ BuildError \/ BuildFault \/ UpsertError \/ FilesDone \/ DeletionsDone
              \/ ForgetGc \/ EndSweep \/ SweepRaises \/ Tick \/ Crash \/ UNCHANGED vars
          => UNCHANGED <<docs, epubs>>
      BY DEF ScanDone, BuildError, BuildFault, UpsertError, FilesDone, DeletionsDone, ForgetGc,
             EndSweep, SweepRaises, WriteRaises, Tick, Crash
    <2>4. ASSUME NEW p \in Paths, NEW t \in Texts \cup {None}, Edit(p, t)
          PROVE UNCHANGED <<docs, epubs>>
      BY <2>4 DEF Edit
    <2>5. ASSUME NEW r \in Renderers, Restart(r) PROVE UNCHANGED <<docs, epubs>>
      BY <2>5 DEF Restart
    <2> QED
      BY <1>1, <1>2, <1>3, <1>4, <1>5, <1>6, <2>1, <2>2, <2>3, <2>4, <2>5
         DEF Next, Sweep, Environment

\* The inductive invariant of the sweep.
THEOREM Invariant == Spec => []Inv
  <1>1. Inv /\ [Next]_vars => Inv'
    BY TypeStep, BookkeepingStep, CollectingStep, FilesStep DEF Inv
  <1> QED
    BY InitInv, <1>1, PTL DEF Spec

\* The catalog, the library and the sweep's locals stay within their types.
THEOREM TypeCorrect == Spec => []TypeOK
  <1>1. Inv => TypeOK
    BY DEF Inv
  <1> QED
    BY Invariant, <1>1, PTL

\* A listed document has an EPUB on disk at every step of every sweep.
THEOREM ListedDocumentsHaveFiles == Spec => []ListedHasEpub
  <1>1. Inv => ListedHasEpub
    BY DEF Inv
  <1> QED
    BY Invariant, <1>1, PTL

-----------------------------------------------------------------------------
(* Every step of the hub is a step of Shelf, or changes nothing Shelf sees. *)

USE DEF Promise!vars

\* The abstract state of the library, as Promise substitutes it for Shelf's.
ShelfOf == [p \in Paths |-> IF Listed(p) THEN docs[p].build ELSE None]
KeptOf == {p \in Paths : epubs[p] # {}}

\* Steps that write neither the catalog nor the library are invisible to Shelf.
LEMMA Invisible ==
  ASSUME UNCHANGED <<docs, queue, epubs, clock>>
  PROVE  UNCHANGED Promise!vars
  BY DEF Listed

\* An empty catalog and library are an empty shelf.
LEMMA PromiseInit == Init => Promise!Init
  BY DEF Init, Promise!Init, Listed

\* Upsert is Publish, delete_document Withdraw, rmtree Discard, forget_gc Forget;
\* build() is Prepare, and every other step is one Shelf does not see.
LEMMA PromiseStep == Inv /\ [Next]_vars => [Promise!Next]_(Promise!vars)
  <1> SUFFICES ASSUME Inv, [Next]_vars PROVE Promise!Next \/ UNCHANGED Promise!vars
    OBVIOUS
  <1> USE DEF Inv, TypeOK
  <1>1. CASE UNCHANGED <<docs, queue, epubs, clock>>
    BY <1>1, Invisible
  <1>2. ASSUME NEW p \in Paths, DeleteDocument(p)
        PROVE  Promise!Next \/ UNCHANGED Promise!vars
    <2>1. CASE ~Listed(p)
      <3>1. UNCHANGED <<docs, queue, epubs, clock>>
        BY <1>2, <2>1 DEF DeleteDocument, Listed
      <3> QED
        BY <3>1, Invisible
    <2>2. CASE Listed(p)
      <3>1. docs[p].build \in Builds
        BY <2>2 DEF Listed, Rows
      <3>2. docs[p].build # None
        BY <3>1 DEF Builds
      <3>3. Promise!Withdraw(p)
        BY <1>2, <2>2, <3>2 DEF DeleteDocument, Promise!Withdraw, Listed
      <3> QED
        BY <3>3 DEF Promise!Next
    <2> QED
      BY <2>1, <2>2
  <1>3. ASSUME NEW p \in Paths, RemoveFiles(p)
        PROVE  Promise!Next \/ UNCHANGED Promise!vars
    <2>1. queue[p] # None /\ Expired(queue[p])
      BY <1>3 DEF RemoveFiles, Collecting
    <2>2. UNCHANGED <<docs, queue, clock>>
      BY <1>3 DEF RemoveFiles
    <2>3. CASE epubs'[p] = {}
      <3>1. Promise!Discard(p)
        BY <1>3, <2>1, <2>2, <2>3 DEF RemoveFiles, Promise!Discard, Expired, Listed
      <3> QED
        BY <3>1 DEF Promise!Next
    <2>4. CASE epubs'[p] # {}
      <3>1. KeptOf' = KeptOf
        BY <1>3, <2>4 DEF RemoveFiles, KeptOf
      <3> QED
        BY <2>2, <3>1 DEF Listed, KeptOf
    <2> QED
      BY <2>3, <2>4
  <1>4. CASE WriteEpub
    <2>1. PICK p \in Paths : p = src
      BY <1>4 DEF WriteEpub, Bookkeeping
    <2>2. UNCHANGED <<docs, queue, clock>>
      BY <1>4 DEF WriteEpub
    <2>3. epubs'[p] # {} /\ \A q \in Paths \ {p} : epubs'[q] = epubs[q]
      BY <1>4, <2>1 DEF WriteEpub
    <2>4. KeptOf' = KeptOf \cup {p}
      BY <2>3 DEF KeptOf
    <2>5. Promise!Prepare(p)
      BY <2>2, <2>4 DEF Promise!Prepare, KeptOf, Listed
    <2> QED
      BY <2>5 DEF Promise!Next
  <1>5. CASE PruneEpubs
    <2>1. src \in Paths /\ UNCHANGED <<docs, queue, clock>>
      BY <1>5 DEF PruneEpubs, Bookkeeping
    <2>2. KeptOf' = KeptOf
      BY <1>5, <2>1 DEF PruneEpubs, KeptOf, Stale, Bookkeeping, Has
    <2> QED
      BY <2>1, <2>2 DEF KeptOf, Listed
  <1>6. CASE Upsert
    <2>1. PICK p \in Paths, b \in Builds : p = src /\ b = built
      BY <1>6 DEF Upsert, Bookkeeping
    <2>2. p \in KeptOf /\ found[p] \in Texts
      BY <1>6, <2>1 DEF Upsert, Bookkeeping, Has, KeptOf
    <2>3. [build |-> b, source |-> found[p]] # None
      BY <2>2 DEF Builds
    <2>4. ShelfOf' = [ShelfOf EXCEPT ![p] = b]
      BY <1>6, <2>1, <2>3 DEF Upsert, ShelfOf, Listed
    <2>5. Promise!Publish(p, b)
      BY <1>6, <2>1, <2>2, <2>4 DEF Upsert, Promise!Publish, KeptOf, ShelfOf
    <2> QED
      BY <2>5 DEF Promise!Next
  <1>7. CASE ForgetGc
    <2>1. PICK p \in Paths : p = src
      BY <1>7 DEF ForgetGc, Bookkeeping
    <2>2. queue[p] # None /\ Expired(queue[p])
      BY <1>7, <2>1 DEF ForgetGc, Bookkeeping, Collecting
    <2>3. Promise!Forget(p)
      BY <1>7, <2>1, <2>2 DEF ForgetGc, Promise!Forget, Expired, Listed
    <2> QED
      BY <2>3 DEF Promise!Next
  <1>8. CASE Tick
    <2>1. Promise!Tick
      BY <1>8 DEF Tick, Promise!Tick, Listed
    <2> QED
      BY <2>1 DEF Promise!Next
  <1> QED
    <2> DEFINE Same == UNCHANGED <<docs, queue, epubs, clock>>
    <2>1. ASSUME NEW f \in BOOLEAN, StartSweep(f) PROVE Same
      BY <2>1 DEF StartSweep
    <2>2. ASSUME NEW p \in Paths,
                 ScanFile(p) \/ ScanError(p) \/ AbortSweep(p) \/ SkipFile(p)
                     \/ SelectFile(p) \/ RemoveError(p)
          PROVE Same
      BY <2>2 DEF ScanFile, ScanError, AbortSweep, SkipFile, SelectFile, RemoveError
    <2>3. ScanDone \/ BuildError \/ BuildFault \/ UpsertError \/ FilesDone \/ DeletionsDone
              \/ EndSweep \/ SweepRaises \/ Crash \/ UNCHANGED vars
          => Same
      BY DEF ScanDone, BuildError, BuildFault, UpsertError, FilesDone, DeletionsDone,
             EndSweep, SweepRaises, WriteRaises, Crash
    <2>4. ASSUME NEW p \in Paths, NEW t \in Texts \cup {None}, Edit(p, t) PROVE Same
      BY <2>4 DEF Edit
    <2>5. ASSUME NEW r \in Renderers, Restart(r) PROVE Same
      BY <2>5 DEF Restart
    <2> QED
      BY <1>1, <1>2, <1>3, <1>4, <1>5, <1>6, <1>7, <1>8, <2>1, <2>2, <2>3, <2>4, <2>5
         DEF Next, Sweep, Environment

\* The sweep implements Shelf: no document is listed before its files are there,
\* and none loses its files while listed or in its grace period.
THEOREM Refinement == Spec => KeepsPromise
  <1>1. Inv /\ [Next]_vars => [Promise!Next]_(Promise!vars)
    BY PromiseStep
  <1> QED
    BY PromiseInit, <1>1, Invariant, PTL DEF Spec, KeepsPromise, Promise!Spec

-----------------------------------------------------------------------------
(* As long as nothing has gone wrong: every row names a file but in the    *)
(* window of its own revision, and no directory is without an owner but    *)
(* that of a document on its way into the catalog.                         *)

Unnamed(p) == Listed(p) /\ ~Has(p, docs[p].build)
Unowned(p) == epubs[p] # {} /\ ~Listed(p) /\ queue[p] = None

Faultless ==
    mishaps = 0 =>
        /\ ~stuck
        /\ \A p \in Paths : Unnamed(p) => pc = "commit" /\ src = p
        /\ \A p \in Paths : Unowned(p) => pc \in {"prune", "commit"} /\ src = p
        /\ pc = "forget" => epubs[src] = {}

LEMMA FaultlessInit == Init => Faultless
  BY DEF Init, Faultless, Unnamed, Unowned, Listed

\* A step without a mishap comes after none.
LEMMA MishapsGrow == TypeOK /\ [Next]_vars => mishaps' = mishaps \/ mishaps' # 0
  <1> SUFFICES ASSUME TypeOK, [Next]_vars PROVE mishaps' = mishaps \/ mishaps' # 0
    OBVIOUS
  <1>1. mishaps \in Nat
    BY DEF TypeOK
  <1>2. Sweep \/ UNCHANGED vars => mishaps' = mishaps \/ mishaps' # 0
    BY <1>1 DEF Sweep, StartSweep, ScanFile, AbortSweep, SkipFile, SelectFile, DeleteDocument,
       RemoveFiles, ScanDone, WriteEpub, BuildError, PruneEpubs, Upsert, UpsertError, FilesDone,
       DeletionsDone, ForgetGc, EndSweep, SweepRaises, WriteRaises, Mishap
  <1>3. Environment => mishaps' = mishaps \/ mishaps' # 0
    BY <1>1 DEF Environment, ScanError, RemoveError, Edit, BuildFault, Tick, Crash, Mishap
  <1>4. ASSUME NEW r \in Renderers, Restart(r) PROVE mishaps' = mishaps
    BY <1>4 DEF Restart
  <1> QED
    BY <1>2, <1>3, <1>4 DEF Next

LEMMA FaultlessStep == Inv /\ Faultless /\ [Next]_vars => Faultless'
  <1> SUFFICES ASSUME Inv, Faultless, [Next]_vars, mishaps' = 0 PROVE Faultless'
    BY DEF Faultless
  <1>0. mishaps = 0
    BY MishapsGrow DEF Inv
  <1> USE <1>0 DEF Inv, TypeOK, Faultless, Unnamed, Unowned, Listed
  <1>1. ASSUME UNCHANGED <<docs, queue, stuck, epubs>>, pc \notin {"prune", "commit"},
               pc' # "forget"
        PROVE  Faultless'
    BY <1>1 DEF Has
  <1>2. ASSUME UNCHANGED <<docs, queue, stuck, epubs, pc, src>> PROVE Faultless'
    BY <1>2 DEF Has
  <1>3. ASSUME NEW p \in Paths, DeleteDocument(p) PROVE Faultless'
    BY <1>3 DEF DeleteDocument, Has
  <1>4. ASSUME NEW p \in Paths, RemoveFiles(p) PROVE Faultless'
    <2>1. ~Listed(p) /\ queue[p] # None
      BY <1>4 DEF RemoveFiles, Collecting, ListedOrQueued
    <2> QED
      BY <1>4, <2>1 DEF RemoveFiles, Has
  <1>5. CASE WriteEpub
    <2>1. \A p \in Paths, b \in Builds : Has(p, b) => Has(p, b)'
      <3>1. ASSUME NEW p \in Paths, NEW b \in Builds, NEW e \in epubs[p], e.build = b
            PROVE Has(p, b)'
        <4> DEFINE c == BuildOf(inbox[src])
        <4> DEFINE new == [build |-> c, mtime |-> clock]
        <4>1. src \in Paths /\ epubs' = [epubs EXCEPT ![src] = {x \in @ : x.build # c} \cup {new}]
          BY <1>5 DEF WriteEpub, Bookkeeping
        <4>2. CASE p # src
          BY <3>1, <4>1, <4>2 DEF Has
        <4>3. CASE p = src /\ b # c
          BY <3>1, <4>1, <4>3 DEF Has
        <4>4. CASE p = src /\ b = c
          <5>1. new \in epubs'[p] /\ new.build = b
            BY <4>1, <4>4
          <5> QED
            BY <5>1 DEF Has
        <4> QED
          BY <4>2, <4>3, <4>4
      <3> QED
        BY <3>1 DEF Has
    <2>2. \A p \in Paths : docs[p] # None => docs[p].build \in Builds
      BY DEF Rows
    <2>3. \A p \in Paths : ~Unnamed(p)'
      BY <1>5, <2>1, <2>2 DEF WriteEpub
    <2> QED
      BY <1>5, <2>3 DEF WriteEpub
  <1>6. CASE PruneEpubs
    <2>1. src \in Paths /\ UNCHANGED <<docs, queue, stuck, src>> /\ pc = "prune" /\ pc' = "commit"
      BY <1>6 DEF PruneEpubs, Bookkeeping
    <2>2. \A p \in Paths \ {src} : epubs'[p] = epubs[p]
      BY <1>6 DEF PruneEpubs
    <2>3. \A p \in Paths : epubs'[p] # {} => epubs[p] # {}
      BY <1>6, <2>2 DEF PruneEpubs
    <2> QED
      BY <2>1, <2>2, <2>3 DEF Has
  <1>7. CASE Upsert
    <2>1. src \in Paths /\ Has(src, built) /\ built \in Builds /\ found[src] \in Texts
      BY <1>7 DEF Upsert, Bookkeeping
    <2>2. docs' = [docs EXCEPT ![src] = [build |-> built, source |-> found[src]]]
          /\ docs'[src].build = built /\ docs'[src] # None
      BY <1>7, <2>1 DEF Upsert, Builds
    <2> QED
      BY <1>7, <2>1, <2>2 DEF Upsert, Has
  <1>8. CASE ForgetGc
    BY <1>8 DEF ForgetGc, Bookkeeping, Has
  <1> QED
    <2>1. ASSUME NEW f \in BOOLEAN, StartSweep(f) PROVE Faultless'
      BY <2>1, <1>1 DEF StartSweep
    <2>2. ASSUME NEW p \in Paths, ScanFile(p) \/ SkipFile(p) PROVE Faultless'
      BY <2>2, <1>2 DEF ScanFile, SkipFile
    <2>3. ASSUME NEW p \in Paths, AbortSweep(p) \/ SelectFile(p) PROVE Faultless'
      BY <2>3, <1>1 DEF AbortSweep, SelectFile, NextFile, LeaveSweep
    <2>4. CASE ScanDone \/ BuildError \/ FilesDone \/ DeletionsDone \/ EndSweep
      BY <2>4, <1>1 DEF ScanDone, BuildError, FilesDone, DeletionsDone, EndSweep, LeaveSweep
    <2>5. ~UpsertError /\ ~SweepRaises /\ ~BuildFault /\ ~Crash
      BY DEF UpsertError, SweepRaises, WriteRaises, BuildFault, Crash, Mishap
    <2>6. ASSUME NEW p \in Paths, ScanError(p) \/ RemoveError(p) PROVE FALSE
      BY <2>6 DEF ScanError, RemoveError, Mishap
    <2>7. ASSUME NEW p \in Paths, NEW t \in Texts \cup {None}, Edit(p, t) PROVE Faultless'
      BY <2>7, <1>2 DEF Edit
    <2>8. CASE Tick \/ UNCHANGED vars
      BY <2>8, <1>2 DEF Tick
    <2>9. ASSUME NEW r \in Renderers, Restart(r) PROVE Faultless'
      BY <2>9, <1>1 DEF Restart
    <2> QED
      BY <1>3, <1>4, <1>5, <1>6, <1>7, <1>8, <2>1, <2>2, <2>3, <2>4, <2>5, <2>6, <2>7, <2>8, <2>9
         DEF Next, Sweep, Environment

\* What Faultless says of the two properties.
LEMMA FaultlessGives == Faultless => RowNamesItsEpub /\ NoOrphans
  BY DEF Faultless, RowNamesItsEpub, NoOrphans, Unnamed, Unowned

\* Without a mishap a row's EPUB is missing at most in the window in which the
\* sweep has pruned it and is about to commit the row of its successor.
THEOREM RowsNameTheirEpubs == Spec => []RowNamesItsEpub
  <1>1. Inv /\ Faultless /\ Inv' /\ [Next]_vars => Faultless'
    BY FaultlessStep
  <1> QED
    BY FaultlessInit, Invariant, <1>1, FaultlessGives, PTL DEF Spec

\* Without a mishap every directory of EPUBs between two sweeps belongs to a
\* row or waits in gc_queue.
THEOREM NothingOrphaned == Spec => []NoOrphans
  <1>1. Inv /\ Faultless /\ Inv' /\ [Next]_vars => Faultless'
    BY FaultlessStep
  <1> QED
    BY FaultlessInit, Invariant, <1>1, FaultlessGives, PTL DEF Spec

-----------------------------------------------------------------------------
(* A download in flight. *)

USE DEF downloadVars

\* A document that was listed when the download was answered is queued later,
\* and its directory is not emptied before its grace period is over.
Fetched ==
    /\ fetch \in Fetches \cup {None}
    /\ fetch # None =>
          /\ fetch.since <= clock
          /\ queue[fetch.path] # None => fetch.since <= queue[fetch.path]
          /\ InGrace => epubs[fetch.path] # {}

\* The steps of the library with a download on its way.
LEMMA FetchedStep ==
  ASSUME Inv, Fetched, [Next]_vars, UNCHANGED fetch, fetch # None
  PROVE  Fetched'
  <1> DEFINE p == fetch.path
  <1> USE DEF Inv, TypeOK, Fetched, Fetches, InGrace
  <1>0. p \in Paths /\ fetch.since \in Nat /\ clock \in Nat /\ Grace \in Nat
    OBVIOUS
  <1>1. CASE UNCHANGED <<queue, epubs, clock>>
    BY <1>1
  <1>2. ASSUME NEW q \in Paths, DeleteDocument(q) PROVE Fetched'
    BY <1>0, <1>2 DEF DeleteDocument
  <1>3. ASSUME NEW q \in Paths, RemoveFiles(q) PROVE Fetched'
    <2>1. queue[q] \in Nat /\ queue[q] < clock - Grace
      BY <1>3 DEF RemoveFiles, Collecting, Expired
    <2>2. q = p => ~InGrace
      BY <1>0, <2>1
    <2>3. UNCHANGED <<queue, clock>> /\ (q # p => epubs'[p] = epubs[p])
      BY <1>3, <1>0 DEF RemoveFiles
    <2> QED
      BY <1>0, <2>2, <2>3
  <1>4. CASE WriteEpub
    <2>1. UNCHANGED <<queue, clock>> /\ (epubs[p] # {} => epubs'[p] # {})
      BY <1>4, <1>0 DEF WriteEpub, Bookkeeping
    <2> QED
      BY <2>1
  <1>5. CASE PruneEpubs
    <2>1. UNCHANGED <<queue, clock>> /\ (epubs[p] # {} => epubs'[p] # {})
      BY <1>5, <1>0 DEF PruneEpubs, Stale, Bookkeeping, Has
    <2> QED
      BY <2>1
  <1>6. CASE Upsert \/ ForgetGc
    <2>1. UNCHANGED <<epubs, clock>> /\ queue' = [queue EXCEPT ![src] = None]
      BY <1>6 DEF Upsert, ForgetGc
    <2> QED
      BY <1>0, <2>1
  <1>7. CASE Tick
    <2>1. UNCHANGED <<queue, epubs>> /\ clock' = clock + 1
      BY <1>7 DEF Tick
    <2>2. InGrace' => InGrace
      BY <1>0, <2>1
    <2> QED
      BY <1>0, <2>1, <2>2
  <1> QED
    <2> DEFINE Same == UNCHANGED <<queue, epubs, clock>>
    <2>1. ASSUME NEW f \in BOOLEAN, StartSweep(f) PROVE Same
      BY <2>1 DEF StartSweep
    <2>2. ASSUME NEW q \in Paths,
                 ScanFile(q) \/ ScanError(q) \/ AbortSweep(q) \/ SkipFile(q)
                     \/ SelectFile(q) \/ RemoveError(q)
          PROVE Same
      BY <2>2 DEF ScanFile, ScanError, AbortSweep, SkipFile, SelectFile, RemoveError
    <2>3. ScanDone \/ BuildError \/ BuildFault \/ UpsertError \/ FilesDone \/ DeletionsDone
              \/ EndSweep \/ SweepRaises \/ Crash \/ UNCHANGED vars
          => Same
      BY DEF ScanDone, BuildError, BuildFault, UpsertError, FilesDone, DeletionsDone,
             EndSweep, SweepRaises, WriteRaises, Crash
    <2>4. ASSUME NEW q \in Paths, NEW t \in Texts \cup {None}, Edit(q, t) PROVE Same
      BY <2>4 DEF Edit
    <2>5. ASSUME NEW r \in Renderers, Restart(r) PROVE Same
      BY <2>5 DEF Restart
    <2> QED
      BY <1>1, <1>2, <1>3, <1>4, <1>5, <1>6, <1>7, <2>1, <2>2, <2>3, <2>4, <2>5
         DEF Next, Sweep, Environment

\* Every step of the system with its downloads.
LEMMA DownloadStep == Inv /\ Fetched /\ [DownloadNext]_downloadVars => Inv' /\ Fetched'
  <1> SUFFICES ASSUME Inv, Fetched, [DownloadNext]_downloadVars PROVE Inv' /\ Fetched'
    OBVIOUS
  <1>1. [Next]_vars
    BY DEF DownloadNext, Download, OpenFile
  <1>2. Inv'
    BY <1>1, TypeStep, BookkeepingStep, CollectingStep, FilesStep DEF Inv
  <1>3. CASE UNCHANGED fetch
    <2>1. CASE fetch = None
      BY <1>2, <1>3, <2>1 DEF Fetched
    <2>2. CASE fetch # None
      BY <1>1, <1>2, <1>3, <2>2, FetchedStep
    <2> QED
      BY <2>1, <2>2
  <1>4. CASE OpenFile
    BY <1>2, <1>4 DEF OpenFile, Fetched
  <1>5. ASSUME NEW p \in Paths, Download(p) PROVE Fetched'
    <2> DEFINE new == [path |-> p, build |-> docs[p].build, since |-> clock]
    <2>1. docs[p].build \in Builds /\ clock \in Nat /\ queue[p] = None /\ epubs[p] # {}
      BY <1>5 DEF Download, Listed, Inv, TypeOK, Rows, ListedOrQueued, ListedHasEpub
    <2>2. fetch' = new /\ UNCHANGED <<clock, queue, epubs>>
      BY <1>5 DEF Download
    <2>3. new \in Fetches
      BY <2>1 DEF Fetches
    <2> QED
      BY <1>2, <2>1, <2>2, <2>3 DEF Fetched
  <1> QED
    BY <1>2, <1>3, <1>4, <1>5 DEF DownloadNext

\* Within the grace period only a newer EPUB of the same document takes the file
\* of a download in flight; no deletion, return or restart does.
THEOREM DownloadsSurvive == DownloadSpec => []OnlyARevisionTakesIt
  <1>1. DownloadInit => Inv /\ Fetched
    BY InitInv DEF DownloadInit, Fetched
  <1>2. Inv /\ Fetched => OnlyARevisionTakesIt
    BY DEF Inv, TypeOK, Fetched, Fetches, OnlyARevisionTakesIt, InGrace, Has
  <1> QED
    BY <1>1, <1>2, DownloadStep, PTL DEF DownloadSpec
=============================================================================
