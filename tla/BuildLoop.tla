----------------------------- MODULE BuildLoop -----------------------------
(***************************************************************************)
(* Who sweeps, and when: the flock of BuildLock shared by the hub's        *)
(* processes and by `kindle-hub build`, the builder thread's wait on its   *)
(* wake event, and the force flag that POST /admin/rebuild sets for it.    *)
(* What a sweep does is the subject of Library; here it is one state.      *)
(*                                                                         *)
(* Every step is one the interpreter runs without a switch point: an Event *)
(* operation, or one statement on _force_next.                             *)
(***************************************************************************)
EXTENDS Naturals, FiniteSets

CONSTANTS
    Hubs,         \* processes that serve the app, each with a Builder object
    Builds,       \* runs of `kindle-hub build`
    Rebuilds,     \* POST /admin/rebuild request threads
    Nobody,
    BuildOnStart, \* HUB_BUILD_ON_START
    MaxDeaths     \* bound on process deaths

ASSUME BuildOnStartAssumption == BuildOnStart \in BOOLEAN
ASSUME DisjointAssumption == Hubs \cap Builds = {} /\ Nobody \notin Hubs \cup Builds

VARIABLES
    lock,    \* the process whose descriptor holds the flock, or Nobody
    loop,    \* loop[h]: where the builder thread of h is
    wake,    \* wake[h]: the event _wake is set
    forceNext, \* forceNext[h]: _force_next
    force,   \* force[h]: the argument of the sweep h is about to run or runs
    cli,     \* cli[b]: where a `kindle-hub build` is
    target,  \* target[r]: the hub whose _force_next request r has set, with
             \* the wake event still to be set; or Nobody
    owed,    \* the hubs that owe a forced sweep to a request already answered
    deaths

loopVars == <<lock, loop, wake, forceNext, force, cli, target, owed, deaths>>

Processes == Hubs \cup Builds

\* "down": no process.  "serving": start() found the lock taken, no thread.
\* The others are the lines of _run: before the first sweep, in wait(), after
\* it and before clear(), before the swap of the force flag, in the sweep.
LoopStates == {"down", "serving", "waiting", "woken", "cleared", "sweeping"}

\* A flock goes when its descriptor is closed, by release() or by the kernel.
Release(p) == lock' = IF lock = p THEN Nobody ELSE lock

OwnsLock(h) == loop[h] \notin {"down", "serving"}

LoopInit ==
    /\ lock = Nobody
    /\ loop = [h \in Hubs |-> "down"]
    /\ wake = [h \in Hubs |-> FALSE]
    /\ forceNext = [h \in Hubs |-> FALSE]
    /\ force = [h \in Hubs |-> FALSE]
    /\ cli = [b \in Builds |-> "new"]
    /\ target = [r \in Rebuilds |-> Nobody]
    /\ owed = {}
    /\ deaths = 0

-----------------------------------------------------------------------------
(* The hub's builder thread *)

\* create_app builds a Builder and calls start(): one attempt at the lock.
Start(h) ==
    /\ loop[h] = "down"
    /\ IF lock = Nobody
       THEN /\ lock' = h
            /\ loop' = [loop EXCEPT ![h] = IF BuildOnStart THEN "sweeping" ELSE "waiting"]
       ELSE /\ loop' = [loop EXCEPT ![h] = "serving"]
            /\ UNCHANGED lock
    /\ UNCHANGED <<wake, forceNext, force, cli, target, owed, deaths>>

\* _wake.wait(timeout): the event is set, ...
WaitWoken(h) ==
    /\ loop[h] = "waiting" /\ wake[h]
    /\ loop' = [loop EXCEPT ![h] = "woken"]
    /\ UNCHANGED <<lock, wake, forceNext, force, cli, target, owed, deaths>>

\* ... or HUB_BUILD_INTERVAL seconds have passed.
WaitTimedOut(h) ==
    /\ loop[h] = "waiting" /\ ~wake[h]
    /\ loop' = [loop EXCEPT ![h] = "woken"]
    /\ UNCHANGED <<lock, wake, forceNext, force, cli, target, owed, deaths>>

ClearWake(h) ==
    /\ loop[h] = "woken"
    /\ wake' = [wake EXCEPT ![h] = FALSE]
    /\ loop' = [loop EXCEPT ![h] = "cleared"]
    /\ UNCHANGED <<lock, forceNext, force, cli, target, owed, deaths>>

TakeForce(h) ==
    /\ loop[h] = "cleared"
    /\ force' = [force EXCEPT ![h] = forceNext[h]]
    /\ forceNext' = [forceNext EXCEPT ![h] = FALSE]
    /\ owed' = IF forceNext[h] THEN owed \ {h} ELSE owed
    /\ loop' = [loop EXCEPT ![h] = "sweeping"]
    /\ UNCHANGED <<lock, wake, cli, target, deaths>>

\* Mutant: the event is cleared after the sweep as well.
SweepEndsClearing(h) ==
    /\ loop[h] = "sweeping"
    /\ loop' = [loop EXCEPT ![h] = "waiting"]
    /\ force' = [force EXCEPT ![h] = FALSE]
    /\ wake' = [wake EXCEPT ![h] = FALSE]
    /\ UNCHANGED <<lock, forceNext, cli, target, owed, deaths>>

\* _safe_sweep returns, whether sweep() finished or raised.
SweepEnds(h) ==
    /\ loop[h] = "sweeping"
    /\ loop' = [loop EXCEPT ![h] = "waiting"]
    /\ force' = [force EXCEPT ![h] = FALSE]
    /\ UNCHANGED <<lock, wake, forceNext, cli, target, owed, deaths>>

-----------------------------------------------------------------------------
(* POST /admin/rebuild *)

\* The 409 answer of a hub without the lock changes nothing.
Rebuild(r, h) ==
    /\ target[r] = Nobody
    /\ OwnsLock(h)
    /\ forceNext' = [forceNext EXCEPT ![h] = TRUE]
    /\ target' = [target EXCEPT ![r] = h]
    /\ owed' = owed \cup {h}
    /\ UNCHANGED <<lock, loop, wake, force, cli, deaths>>

\* Mutant: the request leaves the sweep to the next interval.
SetNoWake(r) ==
    /\ target[r] # Nobody
    /\ target' = [target EXCEPT ![r] = Nobody]
    /\ UNCHANGED <<lock, loop, wake, forceNext, force, cli, owed, deaths>>

SetWake(r) ==
    /\ target[r] # Nobody
    /\ wake' = [wake EXCEPT ![target[r]] = TRUE]
    /\ target' = [target EXCEPT ![r] = Nobody]
    /\ UNCHANGED <<lock, loop, forceNext, force, cli, owed, deaths>>

-----------------------------------------------------------------------------
(* kindle-hub build: acquire or decline, sweep, release *)

\* Mutant: the result of acquire() is not looked at.
BuildStartsAnyway(b) ==
    /\ cli[b] = "new"
    /\ cli' = [cli EXCEPT ![b] = "sweeping"]
    /\ lock' = IF lock = Nobody THEN b ELSE lock
    /\ UNCHANGED <<loop, wake, forceNext, force, target, owed, deaths>>

BuildStarts(b) ==
    /\ cli[b] = "new"
    /\ IF lock = Nobody
       THEN lock' = b /\ cli' = [cli EXCEPT ![b] = "sweeping"]
       ELSE UNCHANGED lock /\ cli' = [cli EXCEPT ![b] = "done"]
    /\ UNCHANGED <<loop, wake, forceNext, force, target, owed, deaths>>

BuildEnds(b) ==
    /\ cli[b] = "sweeping"
    /\ Release(b)
    /\ cli' = [cli EXCEPT ![b] = "done"]
    /\ UNCHANGED <<loop, wake, forceNext, force, target, owed, deaths>>

-----------------------------------------------------------------------------
(* A process dies: the kernel drops its flock, its threads and memory go. *)

HubDies(h) ==
    /\ loop[h] # "down"
    /\ deaths < MaxDeaths
    /\ deaths' = deaths + 1
    /\ Release(h)
    /\ loop' = [loop EXCEPT ![h] = "down"]
    /\ wake' = [wake EXCEPT ![h] = FALSE]
    /\ forceNext' = [forceNext EXCEPT ![h] = FALSE]
    /\ force' = [force EXCEPT ![h] = FALSE]
    /\ owed' = owed \ {h}
    /\ target' = [r \in Rebuilds |-> IF target[r] = h THEN Nobody ELSE target[r]]
    /\ UNCHANGED cli

BuildDies(b) ==
    /\ cli[b] = "sweeping"
    /\ deaths < MaxDeaths
    /\ deaths' = deaths + 1
    /\ Release(b)
    /\ cli' = [cli EXCEPT ![b] = "done"]
    /\ UNCHANGED <<loop, wake, forceNext, force, target, owed>>

-----------------------------------------------------------------------------
Thread(h) == WaitWoken(h) \/ ClearWake(h) \/ TakeForce(h) \/ SweepEnds(h)

LoopNext ==
    \/ \E h \in Hubs : Start(h) \/ Thread(h) \/ WaitTimedOut(h) \/ HubDies(h)
    \/ \E r \in Rebuilds, h \in Hubs : Rebuild(r, h)
    \/ \E r \in Rebuilds : SetWake(r)
    \/ \E b \in Builds : BuildStarts(b) \/ BuildEnds(b) \/ BuildDies(b)

LoopSpec == LoopInit /\ [][LoopNext]_loopVars

\* A sweep ends and threads that can run do run.  Nothing is assumed of the
\* timeout: a rebuild request must not have to wait for it.
LoopFairness ==
    /\ \A h \in Hubs : WF_loopVars(Thread(h))
    /\ \A r \in Rebuilds : WF_loopVars(SetWake(r))

FairLoopSpec == LoopSpec /\ LoopFairness

-----------------------------------------------------------------------------
(* Properties *)

LoopTypeOK ==
    /\ lock \in Processes \cup {Nobody}
    /\ loop \in [Hubs -> LoopStates]
    /\ wake \in [Hubs -> BOOLEAN]
    /\ forceNext \in [Hubs -> BOOLEAN]
    /\ force \in [Hubs -> BOOLEAN]
    /\ cli \in [Builds -> {"new", "sweeping", "done"}]
    /\ target \in [Rebuilds -> Hubs \cup {Nobody}]
    /\ owed \in SUBSET Hubs
    /\ deaths \in Nat

\* The processes inside sweep(), by the loop or by hand.
Sweeping == {h \in Hubs : loop[h] = "sweeping"} \cup {b \in Builds : cli[b] = "sweeping"}

\* No two processes ever sweep at the same time, through deaths, restarts and
\* builds run by hand: what lets Library have a single builder.
OneSweeper == \A p, q \in Sweeping : p = q

\* An answered rebuild request cannot be slept through: while a forced sweep is
\* owed, its flag is still up, and the thread is either about to look at it or
\* will be woken for it (or the request is on its way to waking it).
NoLostRequest ==
    \A h \in owed :
        /\ forceNext[h]
        /\ loop[h] = "waiting" => wake[h] \/ \E r \in Rebuilds : target[r] = h

\* An answered rebuild request is followed by the start of a forced sweep, or
\* its process dies, without the sweep interval ever having to elapse.
RequestIsServed == \A h \in Hubs : h \in owed ~> h \notin owed

\* As the module docstring of builder.py says, "exactly one process owns the
\* loop": when every hub is up and nothing is built by hand, one of them does.
SomeHubOwnsTheLoop ==
    (\A h \in Hubs : loop[h] # "down") /\ (\A b \in Builds : cli[b] # "sweeping") =>
        \E h \in Hubs : OwnsLock(h)
=============================================================================
