--------------------------- MODULE SessionsProofs ---------------------------
(***************************************************************************)
(* The web door's promises for any number of sessions, worker threads and  *)
(* passwords, and any timeouts.                                            *)
(***************************************************************************)
EXTENDS Sessions, TLAPS

\* A row, and a thread about to touch one, belong to a session once issued.
OnlyIssued ==
    /\ \A s \in Sids : table[s] # Absent => Issued(s)
    /\ \A t \in Threads : touch[t] # Absent => Issued(touch[t].sid)

\* A slide under way is of a row that is still acceptable, or gone.
SlidesAcceptable ==
    \A t \in Threads : touch[t] # Absent /\ touch[t].does = "slide" =>
        LET row == table[touch[t].sid]
        IN  row # Absent =>
                /\ row.epoch = epoch
                /\ time - row.created <= Absolute
                /\ time - lastUse[touch[t].sid] <= Idle

\* A row never says that the session was used later than it was.
NeverAhead ==
    \A s \in Sids : Issued(s) =>
        /\ lastUse[s] <= time
        /\ table[s] # Absent => table[s].last <= lastUse[s]

Inv == SessionsTypeOK /\ OnlyIssued /\ SlidesAcceptable /\ NeverAhead /\ LastSeenLag

USE DayAssumption, IdleAssumption, AbsoluteAssumption, AbsentAssumption
USE DEF touchVars

\* The timeouts are whole numbers of ticks.
LEMMA Timeouts == Idle \in Nat /\ Absolute \in Nat
  BY DEF Idle, Absolute

\* There are no sessions at first.
LEMMA InitInv == SessionsInit => Inv
  BY DEF SessionsInit, Inv, SessionsTypeOK, OnlyIssued, SlidesAcceptable, NeverAhead,
         LastSeenLag, Issued

-----------------------------------------------------------------------------
\* Each step keeps rows, cookies and threads within their types.
LEMMA TypeStep == SessionsTypeOK /\ [SessionsNext]_touchVars => SessionsTypeOK'
  <1> SUFFICES ASSUME SessionsTypeOK, [SessionsNext]_touchVars PROVE SessionsTypeOK'
    OBVIOUS
  <1> USE Timeouts DEF SessionsTypeOK, Rows, Touches
  <1>1. CASE Tick
    BY <1>1 DEF Tick
  <1>2. ASSUME NEW s \in Sids \cup {Absent}, DropAll(s) PROVE SessionsTypeOK'
    BY <1>2 DEF DropAll
  <1>3. ASSUME NEW s \in Sids, Login(s) PROVE SessionsTypeOK'
    BY <1>3 DEF Login
  <1>4. ASSUME NEW s \in Sids, Logout(s) PROVE SessionsTypeOK'
    BY <1>4 DEF Logout
  <1>5. ASSUME NEW t \in Threads, NEW s \in Sids, TouchRefuses(t, s) PROVE SessionsTypeOK'
    BY <1>5 DEF TouchRefuses
  <1>6. ASSUME NEW t \in Threads, NEW s \in Sids, TouchAccepts(t, s) PROVE SessionsTypeOK'
    BY <1>6 DEF TouchAccepts
  <1>7. ASSUME NEW t \in Threads, TouchDrops(t) PROVE SessionsTypeOK'
    BY <1>7 DEF TouchDrops
  <1>8. ASSUME NEW t \in Threads, TouchSlides(t) PROVE SessionsTypeOK'
    BY <1>8 DEF TouchSlides
  <1>9. ASSUME NEW e \in Epochs, Rotate(e) PROVE SessionsTypeOK'
    BY <1>9 DEF Rotate
  <1>10. CASE UNCHANGED touchVars
    BY <1>10
  <1> QED
    BY <1>1, <1>2, <1>3, <1>4, <1>5, <1>6, <1>7, <1>8, <1>9, <1>10 DEF SessionsNext

\* Only a login creates a row, and a session is issued once.
LEMMA IssuedStep == SessionsTypeOK /\ OnlyIssued /\ [SessionsNext]_touchVars => OnlyIssued'
  <1> SUFFICES ASSUME SessionsTypeOK, OnlyIssued, [SessionsNext]_touchVars PROVE OnlyIssued'
    OBVIOUS
  <1> USE DEF SessionsTypeOK, Touches, OnlyIssued, Issued
  <1>1. CASE Tick \/ \E s \in Sids \cup {Absent} : DropAll(s)
    BY <1>1 DEF Tick, DropAll
  <1>2. ASSUME NEW s \in Sids, Login(s) PROVE OnlyIssued'
    BY <1>2 DEF Login
  <1>3. ASSUME NEW s \in Sids, Logout(s) PROVE OnlyIssued'
    BY <1>3 DEF Logout
  <1>4. ASSUME NEW t \in Threads, NEW s \in Sids, TouchRefuses(t, s) PROVE OnlyIssued'
    BY <1>4 DEF TouchRefuses
  <1>5. ASSUME NEW t \in Threads, NEW s \in Sids, TouchAccepts(t, s) PROVE OnlyIssued'
    BY <1>5 DEF TouchAccepts
  <1>6. ASSUME NEW t \in Threads, TouchDrops(t) PROVE OnlyIssued'
    BY <1>6 DEF TouchDrops
  <1>7. ASSUME NEW t \in Threads, TouchSlides(t) PROVE OnlyIssued'
    BY <1>7 DEF TouchSlides
  <1>8. ASSUME NEW e \in Epochs, Rotate(e) PROVE OnlyIssued'
    BY <1>8 DEF Rotate
  <1>9. CASE UNCHANGED touchVars
    BY <1>9
  <1> QED
    BY <1>1, <1>2, <1>3, <1>4, <1>5, <1>6, <1>7, <1>8, <1>9 DEF SessionsNext

-----------------------------------------------------------------------------
(* No tick, and no new password, comes between a slide's check and its write. *)

LEMMA SlidesStep == Inv /\ [SessionsNext]_touchVars => SlidesAcceptable'
  <1> SUFFICES ASSUME Inv, [SessionsNext]_touchVars PROVE SlidesAcceptable'
    OBVIOUS
  <1> USE DEF Inv, SessionsTypeOK, Touches, OnlyIssued, SlidesAcceptable, Issued
  <1>1. CASE Tick
    BY <1>1 DEF Tick
  <1>2. ASSUME NEW s \in Sids \cup {Absent}, DropAll(s) PROVE SlidesAcceptable'
    BY <1>2 DEF DropAll
  <1>3. ASSUME NEW s \in Sids, Login(s) PROVE SlidesAcceptable'
    <2>1. \A t \in Threads : touch[t] # Absent => touch[t].sid # s
      BY <1>3 DEF Login
    <2> QED
      BY <1>3, <2>1 DEF Login
  <1>4. ASSUME NEW s \in Sids, Logout(s) PROVE SlidesAcceptable'
    BY <1>4 DEF Logout
  <1>5. ASSUME NEW t \in Threads, NEW s \in Sids, TouchRefuses(t, s)
        PROVE  SlidesAcceptable'
    BY <1>5 DEF TouchRefuses
  <1>6. ASSUME NEW t \in Threads, NEW s \in Sids, TouchAccepts(t, s)
        PROVE  SlidesAcceptable'
    <2>1. /\ table[s].epoch = epoch
          /\ time - table[s].created <= Absolute
          /\ time - table[s].last <= Idle
      BY <1>6, Timeouts DEF TouchAccepts, Rejects, Rows
    <2>2. Issued(s) /\ table[s] # Absent /\ table[s].last <= lastUse[s]
      BY <1>6 DEF TouchAccepts, NeverAhead
    <2>3. time - lastUse[s] <= Idle
      BY <2>1, <2>2, Timeouts DEF Rows
    <2>4. CASE time - table[s].last > Day
      BY <1>6, <2>1, <2>3, <2>4 DEF TouchAccepts
    <2>5. CASE ~(time - table[s].last > Day)
      <3>1. touch' = touch /\ table' = table /\ time' = time /\ epoch' = epoch
            /\ lastUse' = [lastUse EXCEPT ![s] = time]
        BY <1>6, <2>5 DEF TouchAccepts
      <3>2. time - time <= Idle
        BY Timeouts
      <3> QED
        BY <3>1, <3>2
    <2> QED
      BY <2>4, <2>5
  <1>7. ASSUME NEW t \in Threads, TouchDrops(t) PROVE SlidesAcceptable'
    BY <1>7 DEF TouchDrops
  <1>8. ASSUME NEW t \in Threads, TouchSlides(t) PROVE SlidesAcceptable'
    <2>1. \A s \in Sids : table'[s] # Absent =>
             /\ table[s] # Absent
             /\ table'[s].epoch = table[s].epoch /\ table'[s].created = table[s].created
      BY <1>8 DEF TouchSlides, Rows
    <2>2. \A u \in Sids : lastUse'[u] = lastUse[u] \/ lastUse'[u] = time
      BY <1>8 DEF TouchSlides
    <2>3. time' = time /\ epoch' = epoch /\ time - time <= Idle
      BY <1>8, Timeouts DEF TouchSlides
    <2>4. ASSUME NEW u \in Threads, touch'[u] # Absent, touch'[u].does = "slide"
          PROVE  touch[u] = touch'[u] /\ touch[u] # Absent /\ touch[u].sid \in Sids
      BY <1>8, <2>4 DEF TouchSlides
    <2> QED
      BY <2>1, <2>2, <2>3, <2>4
  <1>9. ASSUME NEW e \in Epochs, Rotate(e) PROVE SlidesAcceptable'
    BY <1>9 DEF Rotate
  <1>10. CASE UNCHANGED touchVars
    BY <1>10
  <1> QED
    BY <1>1, <1>2, <1>3, <1>4, <1>5, <1>6, <1>7, <1>8, <1>9, <1>10 DEF SessionsNext

(* last_seen is written with the present time, and lastUse with it. *)

LEMMA AheadStep == Inv /\ [SessionsNext]_touchVars => NeverAhead'
  <1> SUFFICES ASSUME Inv, [SessionsNext]_touchVars PROVE NeverAhead'
    OBVIOUS
  <1> USE DEF Inv, SessionsTypeOK, Touches, OnlyIssued, Issued, NeverAhead
  <1>1. CASE Tick
    <2>1. time <= time'
      BY <1>1 DEF Tick
    <2> QED
      BY <1>1, <2>1 DEF Tick
  <1>2. ASSUME NEW s \in Sids \cup {Absent}, DropAll(s) PROVE NeverAhead'
    BY <1>2 DEF DropAll
  <1>3. ASSUME NEW s \in Sids, Login(s) PROVE NeverAhead'
    BY <1>3 DEF Login
  <1>4. ASSUME NEW s \in Sids, Logout(s) PROVE NeverAhead'
    BY <1>4 DEF Logout
  <1>5. ASSUME NEW t \in Threads, NEW s \in Sids, TouchRefuses(t, s) PROVE NeverAhead'
    BY <1>5 DEF TouchRefuses
  <1>6. ASSUME NEW t \in Threads, NEW s \in Sids, TouchAccepts(t, s) PROVE NeverAhead'
    <2>1. table' = table /\ time' = time
      BY <1>6 DEF TouchAccepts
    <2>2. CASE lastUse' = lastUse
      BY <2>1, <2>2
    <2>3. CASE lastUse' = [lastUse EXCEPT ![s] = time]
      <3>1. table[s] # Absent /\ table[s].last <= time
        BY <1>6 DEF TouchAccepts, Rows
      <3> QED
        BY <2>1, <2>3, <3>1
    <2> QED
      BY <1>6, <2>2, <2>3 DEF TouchAccepts
  <1>7. ASSUME NEW t \in Threads, TouchDrops(t) PROVE NeverAhead'
    BY <1>7 DEF TouchDrops
  <1>8. ASSUME NEW t \in Threads, TouchSlides(t) PROVE NeverAhead'
    <2> DEFINE sid == touch[t].sid
    <2>1. sid \in Sids /\ time' = time
      BY <1>8 DEF TouchSlides
    <2>2. \A s \in Sids \ {sid} : table'[s] = table[s] /\ lastUse'[s] = lastUse[s]
      BY <1>8 DEF TouchSlides
    <2>3. lastUse'[sid] = time /\ (table'[sid] # Absent => table'[sid].last = time)
      BY <1>8, <2>1 DEF TouchSlides, Rows
    <2> HIDE DEF sid
    <2> QED
      BY <2>1, <2>2, <2>3
  <1>9. ASSUME NEW e \in Epochs, Rotate(e) PROVE NeverAhead'
    BY <1>9 DEF Rotate
  <1>10. CASE UNCHANGED touchVars
    BY <1>10
  <1> QED
    BY <1>1, <1>2, <1>3, <1>4, <1>5, <1>6, <1>7, <1>8, <1>9, <1>10 DEF SessionsNext

(* An accepted use is at most 24 hours ahead of the row it did not write. *)

LEMMA LagStep == Inv /\ [SessionsNext]_touchVars => LastSeenLag'
  <1> SUFFICES ASSUME Inv, [SessionsNext]_touchVars PROVE LastSeenLag'
    OBVIOUS
  <1> USE DEF Inv, SessionsTypeOK, Touches, OnlyIssued, Issued, LastSeenLag
  <1>1. CASE Tick
    BY <1>1 DEF Tick
  <1>2. ASSUME NEW s \in Sids \cup {Absent}, DropAll(s) PROVE LastSeenLag'
    BY <1>2 DEF DropAll
  <1>3. ASSUME NEW s \in Sids, Login(s) PROVE LastSeenLag'
    BY <1>3 DEF Login
  <1>4. ASSUME NEW s \in Sids, Logout(s) PROVE LastSeenLag'
    BY <1>4 DEF Logout
  <1>5. ASSUME NEW t \in Threads, NEW s \in Sids, TouchRefuses(t, s) PROVE LastSeenLag'
    BY <1>5 DEF TouchRefuses
  <1>6. ASSUME NEW t \in Threads, NEW s \in Sids, TouchAccepts(t, s) PROVE LastSeenLag'
    <2>1. CASE time - table[s].last > Day
      BY <1>6, <2>1 DEF TouchAccepts
    <2>2. CASE ~(time - table[s].last > Day)
      <3>1. time - table[s].last <= Day
        BY <1>6, <2>2 DEF TouchAccepts, Rows
      <3>2. table' = table /\ lastUse' = [lastUse EXCEPT ![s] = time]
        BY <1>6, <2>2 DEF TouchAccepts
      <3> QED
        BY <3>1, <3>2
    <2> QED
      BY <2>1, <2>2
  <1>7. ASSUME NEW t \in Threads, TouchDrops(t) PROVE LastSeenLag'
    BY <1>7 DEF TouchDrops
  <1>8. ASSUME NEW t \in Threads, TouchSlides(t) PROVE LastSeenLag'
    <2> DEFINE sid == touch[t].sid
    <2>1. sid \in Sids
      BY <1>8 DEF TouchSlides
    <2>2. \A s \in Sids \ {sid} : table'[s] = table[s] /\ lastUse'[s] = lastUse[s]
      BY <1>8 DEF TouchSlides
    <2>3. lastUse'[sid] = time /\ (table'[sid] # Absent => table'[sid].last = time)
      BY <1>8, <2>1 DEF TouchSlides, Rows
    <2> HIDE DEF sid
    <2> QED
      BY <2>1, <2>2, <2>3
  <1>9. ASSUME NEW e \in Epochs, Rotate(e) PROVE LastSeenLag'
    BY <1>9 DEF Rotate
  <1>10. CASE UNCHANGED touchVars
    BY <1>10
  <1> QED
    BY <1>1, <1>2, <1>3, <1>4, <1>5, <1>6, <1>7, <1>8, <1>9, <1>10 DEF SessionsNext

\* The inductive invariant of the web door.
THEOREM Invariant == SessionsSpec => []Inv
  <1>1. Inv /\ [SessionsNext]_touchVars => Inv'
    BY TypeStep, IssuedStep, SlidesStep, AheadStep, LagStep DEF Inv
  <1> QED
    BY InitInv, <1>1, PTL DEF SessionsSpec

\* The sessions table, the cookies and the threads stay within their types.
THEOREM TypeCorrect == SessionsSpec => []SessionsTypeOK
  <1>1. Inv => SessionsTypeOK
    BY DEF Inv
  <1> QED
    BY Invariant, <1>1, PTL

\* last_seen is never more than 24 hours behind the session's last use.
THEOREM LagBounded == SessionsSpec => []LastSeenLag
  <1>1. Inv => LastSeenLag
    BY DEF Inv
  <1> QED
    BY Invariant, <1>1, PTL

\* The daily write costs a user at most one day of the idle timeout.
THEOREM ActiveAccepted == SessionsSpec => []ActiveIsAccepted
  <1>1. ASSUME Inv PROVE ActiveIsAccepted
    <2> SUFFICES ASSUME NEW s \in Sids,
                        table[s] # Absent, table[s].epoch = epoch,
                        time - lastUse[s] <= Idle - Day,
                        time - table[s].created <= Absolute
                 PROVE  ~Rejects(table[s])
      BY DEF ActiveIsAccepted
    <2>1. table[s] \in Rows /\ lastUse[s] \in Nat /\ time \in Nat
      BY <1>1 DEF Inv, SessionsTypeOK, OnlyIssued, Issued
    <2>2. lastUse[s] - table[s].last <= Day
      BY <1>1 DEF Inv, LastSeenLag
    <2>3. time - table[s].last <= Idle
      BY <2>1, <2>2, Timeouts DEF Rows
    <2>4. ~(time - table[s].last > Idle) /\ ~(time - table[s].created > Absolute)
      BY <2>1, <2>3, Timeouts DEF Rows
    <2> QED
      BY <2>4 DEF Rejects
  <1> QED
    BY <1>1, Invariant, PTL

\* A dropped session is never resurrected by a slide that overlaps the drop.
THEOREM DroppedForGood == SessionsSpec => DroppedStaysDropped
  <1>1. ASSUME Inv, [SessionsNext]_touchVars, NEW s \in Sids, Issued(s), table[s] = Absent
        PROVE  table'[s] = Absent
    <2> USE <1>1 DEF Inv, SessionsTypeOK
    <2>1. CASE \E t \in Sids : Login(t)
      BY <2>1 DEF Login
    <2>2. CASE \E t \in Sids : Logout(t)
      BY <2>2 DEF Logout
    <2>3. CASE \E t \in Threads : TouchDrops(t)
      BY <2>3 DEF TouchDrops
    <2>4. CASE \E t \in Threads : TouchSlides(t)
      BY <2>4 DEF TouchSlides
    <2>5. CASE \E t \in Sids \cup {Absent} : DropAll(t)
      BY <2>5 DEF DropAll
    <2>6. CASE UNCHANGED table
      BY <2>6
    <2>7. Tick \/ UNCHANGED touchVars => UNCHANGED table
      BY DEF Tick
    <2>8. ASSUME NEW t \in Threads, NEW u \in Sids, TouchRefuses(t, u) \/ TouchAccepts(t, u)
          PROVE UNCHANGED table
      BY <2>8 DEF TouchRefuses, TouchAccepts
    <2>9. ASSUME NEW e \in Epochs, Rotate(e) PROVE UNCHANGED table
      BY <2>9 DEF Rotate
    <2> QED
      BY <2>1, <2>2, <2>3, <2>4, <2>5, <2>6, <2>7, <2>8, <2>9 DEF SessionsNext
  <1>2. Inv /\ [SessionsNext]_touchVars =>
          [\A s \in Sids : Issued(s) /\ table[s] = Absent => table'[s] = Absent]_touchVars
    BY <1>1
  <1> QED
    BY Invariant, <1>2, PTL DEF SessionsSpec, DroppedStaysDropped

\* No request accepts a session of an old password, past its absolute cap or
\* idle for too long.
THEOREM StaleRefused == SessionsSpec => StaleIsRefused
  <1> DEFINE Fresh(s) == /\ table[s].epoch = epoch
                         /\ time - table[s].created <= Absolute
                         /\ time - lastUse[s] <= Idle
  <1>1. ASSUME Inv, [SessionsNext]_touchVars, NEW s \in Sids, Issued(s), table[s] # Absent,
               lastUse'[s] # lastUse[s]
        PROVE  Fresh(s)
    <2> USE <1>1 DEF Inv, SessionsTypeOK
    <2>1. ASSUME NEW u \in Sids, Login(u) PROVE Fresh(s)
      BY <2>1 DEF Login
    <2>2. ASSUME NEW t \in Threads, NEW u \in Sids, TouchAccepts(t, u) PROVE Fresh(s)
      <3>1. u = s
        BY <2>2 DEF TouchAccepts
      <3>2. /\ table[s].epoch = epoch
            /\ time - table[s].created <= Absolute
            /\ time - table[s].last <= Idle
        BY <2>2, <3>1, Timeouts DEF TouchAccepts, Rejects, Rows
      <3>3. table[s].last <= lastUse[s] /\ lastUse[s] \in Nat /\ table[s].last \in Nat
        BY DEF NeverAhead, Issued, Rows
      <3> QED
        BY <3>2, <3>3, Timeouts
    <2>3. ASSUME NEW t \in Threads, TouchSlides(t) PROVE Fresh(s)
      <3>1. touch[t].sid = s
        BY <2>3 DEF TouchSlides
      <3> QED
        BY <2>3, <3>1 DEF TouchSlides, SlidesAcceptable
    <2>4. ~UNCHANGED lastUse
      OBVIOUS
    <2>5. Tick \/ (\E u \in Sids \cup {Absent} : DropAll(u)) \/ UNCHANGED touchVars
          => UNCHANGED lastUse
      BY DEF Tick, DropAll
    <2>6. ASSUME NEW u \in Sids, Logout(u) PROVE UNCHANGED lastUse
      BY <2>6 DEF Logout
    <2>7. ASSUME NEW t \in Threads, NEW u \in Sids, TouchRefuses(t, u) PROVE UNCHANGED lastUse
      BY <2>7 DEF TouchRefuses
    <2>8. ASSUME NEW t \in Threads, TouchDrops(t) PROVE UNCHANGED lastUse
      BY <2>8 DEF TouchDrops
    <2>9. ASSUME NEW e \in Epochs, Rotate(e) PROVE UNCHANGED lastUse
      BY <2>9 DEF Rotate
    <2> HIDE DEF Fresh
    <2> QED
      BY <2>1, <2>2, <2>3, <2>4, <2>5, <2>6, <2>7, <2>8, <2>9 DEF SessionsNext
  <1>2. Inv /\ [SessionsNext]_touchVars =>
          [\A s \in Sids : Issued(s) /\ table[s] # Absent /\ lastUse'[s] # lastUse[s] =>
               /\ table[s].epoch = epoch
               /\ time - table[s].created <= Absolute
               /\ time - lastUse[s] <= Idle]_touchVars
    BY <1>1
  <1> QED
    BY Invariant, <1>2, PTL DEF SessionsSpec, StaleIsRefused
=============================================================================
