-------------------------- MODULE BuildLoopProofs --------------------------
(***************************************************************************)
(* Mutual exclusion of the sweep, and that no rebuild request is slept     *)
(* through, for any number of hubs, builds by hand and requests.           *)
(***************************************************************************)
EXTENDS BuildLoop, TLAPS

\* Whoever runs the loop, or sweeps by hand, holds the flock.
LockHeld ==
    /\ \A h \in Hubs : OwnsLock(h) => lock = h
    /\ \A b \in Builds : cli[b] = "sweeping" => lock = b

\* An owed sweep will be noticed at the next wait, not only at the current one.
RequestKept ==
    \A h \in owed :
        /\ OwnsLock(h) /\ forceNext[h]
        /\ loop[h] \in {"waiting", "sweeping"} =>
              wake[h] \/ \E r \in Rebuilds : target[r] = h

Inv == LoopTypeOK /\ LockHeld /\ RequestKept

USE BuildOnStartAssumption, DisjointAssumption
USE DEF loopVars, LoopStates, Processes

\* No process runs at first, and nothing is owed.
LEMMA InitInv == LoopInit => Inv
  <1>1. LoopInit => LoopTypeOK
    BY DEF LoopInit, LoopTypeOK
  <1>2. LoopInit => LockHeld /\ RequestKept
    BY DEF LoopInit, LockHeld, RequestKept, OwnsLock
  <1> QED
    BY <1>1, <1>2 DEF Inv

-----------------------------------------------------------------------------
\* Each step keeps the lock, the threads and the flags within their types.
LEMMA TypeStep == LoopTypeOK /\ [LoopNext]_loopVars => LoopTypeOK'
  <1> SUFFICES ASSUME LoopTypeOK, [LoopNext]_loopVars PROVE LoopTypeOK'
    OBVIOUS
  <1> USE DEF LoopTypeOK, Release
  <1>1. ASSUME NEW h \in Hubs, Start(h) PROVE LoopTypeOK'
    BY <1>1 DEF Start
  <1>2. ASSUME NEW h \in Hubs, WaitWoken(h) \/ WaitTimedOut(h) PROVE LoopTypeOK'
    BY <1>2 DEF WaitWoken, WaitTimedOut
  <1>3. ASSUME NEW h \in Hubs, ClearWake(h) PROVE LoopTypeOK'
    BY <1>3 DEF ClearWake
  <1>4. ASSUME NEW h \in Hubs, TakeForce(h) PROVE LoopTypeOK'
    BY <1>4 DEF TakeForce
  <1>5. ASSUME NEW h \in Hubs, SweepEnds(h) PROVE LoopTypeOK'
    BY <1>5 DEF SweepEnds
  <1>6. ASSUME NEW r \in Rebuilds, NEW h \in Hubs, Rebuild(r, h) PROVE LoopTypeOK'
    BY <1>6 DEF Rebuild
  <1>7. ASSUME NEW r \in Rebuilds, SetWake(r) PROVE LoopTypeOK'
    BY <1>7 DEF SetWake
  <1>8. ASSUME NEW b \in Builds, BuildStarts(b) PROVE LoopTypeOK'
    BY <1>8 DEF BuildStarts
  <1>9. ASSUME NEW b \in Builds, BuildEnds(b) \/ BuildDies(b) PROVE LoopTypeOK'
    BY <1>9 DEF BuildEnds, BuildDies
  <1>10. ASSUME NEW h \in Hubs, HubDies(h) PROVE LoopTypeOK'
    BY <1>10 DEF HubDies
  <1>11. CASE UNCHANGED loopVars
    BY <1>11
  <1> QED
    BY <1>1, <1>2, <1>3, <1>4, <1>5, <1>6, <1>7, <1>8, <1>9, <1>10, <1>11 DEF LoopNext, Thread

\* The lock changes hands only between processes that are not sweeping.
LEMMA LockStep == LoopTypeOK /\ LockHeld /\ [LoopNext]_loopVars => LockHeld'
  <1> SUFFICES ASSUME LoopTypeOK, LockHeld, [LoopNext]_loopVars PROVE LockHeld'
    OBVIOUS
  <1> USE DEF LoopTypeOK, LockHeld, OwnsLock, Release
  <1>1. ASSUME NEW h \in Hubs, Start(h) PROVE LockHeld'
    BY <1>1 DEF Start
  <1>2. ASSUME NEW h \in Hubs,
               WaitWoken(h) \/ WaitTimedOut(h) \/ ClearWake(h) \/ TakeForce(h) \/ SweepEnds(h)
        PROVE  LockHeld'
    BY <1>2 DEF WaitWoken, WaitTimedOut, ClearWake, TakeForce, SweepEnds
  <1>3. ASSUME NEW r \in Rebuilds, NEW h \in Hubs, Rebuild(r, h) PROVE LockHeld'
    BY <1>3 DEF Rebuild
  <1>4. ASSUME NEW r \in Rebuilds, SetWake(r) PROVE LockHeld'
    BY <1>4 DEF SetWake
  <1>5. ASSUME NEW b \in Builds, BuildStarts(b) PROVE LockHeld'
    BY <1>5 DEF BuildStarts
  <1>6. ASSUME NEW b \in Builds, BuildEnds(b) \/ BuildDies(b) PROVE LockHeld'
    BY <1>6 DEF BuildEnds, BuildDies
  <1>7. ASSUME NEW h \in Hubs, HubDies(h) PROVE LockHeld'
    BY <1>7 DEF HubDies
  <1>8. CASE UNCHANGED loopVars
    BY <1>8
  <1> QED
    BY <1>1, <1>2, <1>3, <1>4, <1>5, <1>6, <1>7, <1>8 DEF LoopNext, Thread

\* _force_next is set before the wake event and taken after it is cleared.
LEMMA RequestStep == LoopTypeOK /\ RequestKept /\ [LoopNext]_loopVars => RequestKept'
  <1> SUFFICES ASSUME LoopTypeOK, RequestKept, [LoopNext]_loopVars PROVE RequestKept'
    OBVIOUS
  <1> USE DEF LoopTypeOK, RequestKept, OwnsLock
  <1>1. ASSUME NEW h \in Hubs, Start(h) PROVE RequestKept'
    BY <1>1 DEF Start
  <1>2. ASSUME NEW h \in Hubs, WaitWoken(h) \/ WaitTimedOut(h) PROVE RequestKept'
    BY <1>2 DEF WaitWoken, WaitTimedOut
  <1>3. ASSUME NEW h \in Hubs, ClearWake(h) PROVE RequestKept'
    BY <1>3 DEF ClearWake
  <1>4. ASSUME NEW h \in Hubs, TakeForce(h) PROVE RequestKept'
    BY <1>4 DEF TakeForce
  <1>5. ASSUME NEW h \in Hubs, SweepEnds(h) PROVE RequestKept'
    BY <1>5 DEF SweepEnds
  <1>6. ASSUME NEW r \in Rebuilds, NEW h \in Hubs, Rebuild(r, h) PROVE RequestKept'
    BY <1>6 DEF Rebuild
  <1>7. ASSUME NEW r \in Rebuilds, SetWake(r) PROVE RequestKept'
    BY <1>7 DEF SetWake
  <1>8. ASSUME NEW b \in Builds, BuildStarts(b) \/ BuildEnds(b) \/ BuildDies(b)
        PROVE  RequestKept'
    BY <1>8 DEF BuildStarts, BuildEnds, BuildDies
  <1>9. ASSUME NEW h \in Hubs, HubDies(h) PROVE RequestKept'
    BY <1>9 DEF HubDies
  <1>10. CASE UNCHANGED loopVars
    BY <1>10
  <1> QED
    BY <1>1, <1>2, <1>3, <1>4, <1>5, <1>6, <1>7, <1>8, <1>9, <1>10 DEF LoopNext, Thread

\* The variables stay within their types, lock holders hold the lock and no
\* rebuild request is lost: the inductive invariant of the loop.
THEOREM Invariant == LoopSpec => []Inv
  <1>1. Inv /\ [LoopNext]_loopVars => Inv'
    BY TypeStep, LockStep, RequestStep DEF Inv
  <1> QED
    BY InitInv, <1>1, PTL DEF LoopSpec

\* The variables of the loop hold what the code's attributes can hold.
THEOREM TypeCorrect == LoopSpec => []LoopTypeOK
  <1>1. Inv => LoopTypeOK
    BY DEF Inv
  <1> QED
    BY Invariant, <1>1, PTL

\* However many hubs, builds by hand and deaths: one sweep at a time.
THEOREM MutualExclusion == LoopSpec => []OneSweeper
  <1>1. ASSUME Inv, NEW p \in Sweeping, NEW q \in Sweeping PROVE p = q
    <2>1. lock = p /\ lock = q
      BY <1>1 DEF Inv, LoopTypeOK, LockHeld, OwnsLock, Sweeping
    <2> QED
      BY <2>1
  <1>2. Inv => OneSweeper
    BY <1>1 DEF OneSweeper
  <1> QED
    BY Invariant, <1>2, PTL

\* However many requests at whatever moments: none is slept through.
THEOREM RequestsKept == LoopSpec => []NoLostRequest
  <1>1. Inv => NoLostRequest
    BY DEF Inv, RequestKept, NoLostRequest
  <1> QED
    BY Invariant, <1>1, PTL
=============================================================================
