------------------------------ MODULE Sessions ------------------------------
(***************************************************************************)
(* The web door: the table sessions, the worker threads that validate and  *)
(* slide a session on every request (touch_session), logging in and out,   *)
(* dropping every session, changing the web password, and the cookie each  *)
(* browser holds.                                                          *)
(*                                                                         *)
(* touch_session reads the row, decides, and then deletes or updates in a  *)
(* statement of its own, so another thread may run in between.  The code   *)
(* compares timestamps of one second; the clock here ticks Day times a day *)
(* and a request lasts less than a tick.  No statement of a request finds  *)
(* the database locked (Library shows what follows when one does).         *)
(***************************************************************************)
EXTENDS Integers

CONSTANTS
    Sids,      \* session ids; one is never issued twice
    Threads,   \* the worker threads
    Epochs,    \* password_epoch values of the web passwords in use
    Absent,
    Day,           \* ticks in 24 hours
    IdleDays,      \* HUB_SESSION_IDLE_DAYS
    AbsoluteDays,  \* HUB_SESSION_ABSOLUTE_DAYS
    MaxTime, MaxRotations   \* bounds of the exploration

ASSUME AbsentAssumption ==
    /\ Absent \notin Nat
    /\ Absent \notin [created : Nat, last : Nat, epoch : Epochs]
    /\ Absent \notin [sid : Sids, does : {"drop", "slide"}]
ASSUME DayAssumption == Day \in Nat \ {0}
ASSUME IdleAssumption == IdleDays \in Nat \ {0}
ASSUME AbsoluteAssumption == AbsoluteDays \in Nat /\ IdleDays <= AbsoluteDays

VARIABLES
    time,
    epoch,    \* password_epoch of the running hub's HUB_WEB_PASSWORD_HASH
    table,    \* table sessions: table[s] is the row of s, or Absent
    cookie,   \* cookie[s]: when the browser discards the cookie of s, or Absent
    touch,    \* touch[t]: what thread t is about to do to the row it read, or Absent
    lastUse,  \* lastUse[s]: when s was last issued or accepted, or Absent if never issued
    rotations

touchVars == <<time, epoch, table, cookie, touch, lastUse, rotations>>

Idle == IdleDays * Day
Absolute == AbsoluteDays * Day

Rows == [created : Nat, last : Nat, epoch : Epochs]
Touches == [sid : Sids, does : {"drop", "slide"}]

Issued(s) == lastUse[s] # Absent

\* The browser still sends the cookie of s.
Sends(s) == cookie[s] # Absent /\ time < cookie[s]

SessionsInit ==
    /\ time = 0
    /\ epoch \in Epochs
    /\ table = [s \in Sids |-> Absent]
    /\ cookie = [s \in Sids |-> Absent]
    /\ touch = [t \in Threads |-> Absent]
    /\ lastUse = [s \in Sids |-> Absent]
    /\ rotations = 0

\* No request is left unfinished for a whole tick.
Tick ==
    /\ time < MaxTime
    /\ \A t \in Threads : touch[t] = Absent
    /\ time' = time + 1
    /\ UNCHANGED <<epoch, table, cookie, touch, lastUse, rotations>>

-----------------------------------------------------------------------------
(* login_post: a row and a cookie.  A cookie lives IdleDays from the login. *)

Login(s) ==
    /\ ~Issued(s)
    /\ table' = [table EXCEPT ![s] = [created |-> time, last |-> time, epoch |-> epoch]]
    /\ cookie' = [cookie EXCEPT ![s] = time + Idle]
    /\ lastUse' = [lastUse EXCEPT ![s] = time]
    /\ UNCHANGED <<time, epoch, touch, rotations>>

-----------------------------------------------------------------------------
(* touch_session, by a thread whose request carries the cookie of s *)

\* The hub takes whatever cookie is sent, however old: browsers keep clocks of
\* their own, and a cookie may be kept elsewhere.
Request(t, s) == touch[t] = Absent /\ Issued(s)

\* Mutant: the idle time is counted from the login.
RejectsByAge(row) ==
    \/ row.epoch # epoch
    \/ time - row.created > Idle

\* Mutant: the password a session was made under is not compared.
RejectsAnyEpoch(row) ==
    \/ time - row.last > Idle
    \/ time - row.created > Absolute

\* An unknown session is refused and nothing changes; these are the three
\* refusals that delete the row.
Rejects(row) ==
    \/ row.epoch # epoch
    \/ time - row.last > Idle
    \/ time - row.created > Absolute

TouchRefuses(t, s) ==
    /\ Request(t, s)
    /\ table[s] # Absent
    /\ Rejects(table[s])
    /\ touch' = [touch EXCEPT ![t] = [sid |-> s, does |-> "drop"]]
    /\ UNCHANGED <<time, epoch, table, cookie, lastUse, rotations>>

\* Mutant: the row is slid a day later.
TouchAcceptsLate(t, s) ==
    /\ Request(t, s)
    /\ table[s] # Absent
    /\ ~Rejects(table[s])
    /\ IF time - table[s].last > 2 * Day
       THEN /\ touch' = [touch EXCEPT ![t] = [sid |-> s, does |-> "slide"]]
            /\ UNCHANGED lastUse
       ELSE /\ lastUse' = [lastUse EXCEPT ![s] = time]
            /\ UNCHANGED touch
    /\ UNCHANGED <<time, epoch, table, cookie, rotations>>

\* Accepted, at once or, when the row was last seen over 24 hours ago, after
\* sliding it.
TouchAccepts(t, s) ==
    /\ Request(t, s)
    /\ table[s] # Absent
    /\ ~Rejects(table[s])
    /\ IF time - table[s].last > Day
       THEN /\ touch' = [touch EXCEPT ![t] = [sid |-> s, does |-> "slide"]]
            /\ UNCHANGED lastUse
       ELSE /\ lastUse' = [lastUse EXCEPT ![s] = time]
            /\ UNCHANGED touch
    /\ UNCHANGED <<time, epoch, table, cookie, rotations>>

TouchDrops(t) ==
    /\ touch[t] # Absent /\ touch[t].does = "drop"
    /\ table' = [table EXCEPT ![touch[t].sid] = Absent]
    /\ touch' = [touch EXCEPT ![t] = Absent]
    /\ UNCHANGED <<time, epoch, cookie, lastUse, rotations>>

\* Mutant: the slide inserts the row it has read again.
TouchReplaces(t) ==
    /\ touch[t] # Absent /\ touch[t].does = "slide"
    /\ LET s == touch[t].sid
       IN  table' = [table EXCEPT ![s] = [created |-> time, last |-> time, epoch |-> epoch]]
    /\ lastUse' = [lastUse EXCEPT ![touch[t].sid] = time]
    /\ touch' = [touch EXCEPT ![t] = Absent]
    /\ UNCHANGED <<time, epoch, cookie, rotations>>

\* UPDATE ... WHERE id_hash = ?: no row, no effect.
TouchSlides(t) ==
    /\ touch[t] # Absent /\ touch[t].does = "slide"
    /\ LET s == touch[t].sid
       IN  table' = IF table[s] = Absent THEN table ELSE [table EXCEPT ![s].last = time]
    /\ lastUse' = [lastUse EXCEPT ![touch[t].sid] = time]
    /\ touch' = [touch EXCEPT ![t] = Absent]
    /\ UNCHANGED <<time, epoch, cookie, rotations>>

-----------------------------------------------------------------------------
(* Logging out, here and everywhere *)

\* /logout checks the form token only: it drops the session the cookie names.
Logout(s) ==
    /\ Issued(s)
    /\ table' = [table EXCEPT ![s] = Absent]
    /\ cookie' = [cookie EXCEPT ![s] = Absent]
    /\ UNCHANGED <<time, epoch, touch, lastUse, rotations>>

\* drop_all_sessions, from the admin page of a session s that the hub accepts and
\* whose cookie goes with it, or from `kindle-hub logout-all` (s is Absent).
DropAll(s) ==
    /\ s # Absent => table[s] # Absent /\ ~Rejects(table[s])
    /\ \E r \in Sids : table[r] # Absent
    /\ table' = [r \in Sids |-> Absent]
    /\ cookie' = [r \in Sids |-> IF r = s THEN Absent ELSE cookie[r]]
    /\ UNCHANGED <<time, epoch, touch, lastUse, rotations>>

\* A new HUB_WEB_PASSWORD_HASH takes effect with a restart, which ends every
\* request under way.
Rotate(e) ==
    /\ e # epoch
    /\ rotations < MaxRotations
    /\ rotations' = rotations + 1
    /\ epoch' = e
    /\ touch' = [t \in Threads |-> Absent]
    /\ UNCHANGED <<time, table, cookie, lastUse>>

-----------------------------------------------------------------------------
SessionsNext ==
    \/ Tick
    \/ \E s \in Sids \cup {Absent} : DropAll(s)
    \/ \E s \in Sids : Login(s) \/ Logout(s)
    \/ \E t \in Threads, s \in Sids : TouchRefuses(t, s) \/ TouchAccepts(t, s)
    \/ \E t \in Threads : TouchDrops(t) \/ TouchSlides(t)
    \/ \E e \in Epochs : Rotate(e)

SessionsSpec == SessionsInit /\ [][SessionsNext]_touchVars

-----------------------------------------------------------------------------
(* Properties *)

SessionsTypeOK ==
    /\ time \in Nat
    /\ epoch \in Epochs
    /\ table \in [Sids -> Rows \cup {Absent}]
    /\ cookie \in [Sids -> Nat \cup {Absent}]
    /\ touch \in [Threads -> Touches \cup {Absent}]
    /\ lastUse \in [Sids -> Nat \cup {Absent}]
    /\ rotations \in Nat

\* A session that was dropped - by logout, logout everywhere, expiry or a new
\* password - stays dropped, whatever slide was under way in another thread.
DroppedStaysDropped ==
    [][\A s \in Sids : Issued(s) /\ table[s] = Absent => table'[s] = Absent]_touchVars

\* The row lags behind the session's real use by at most 24 hours, whatever
\* slides overlap, are overtaken by a drop or are lost in a restart.
LastSeenLag ==
    \A s \in Sids : table[s] # Absent => lastUse[s] - table[s].last <= Day

\* A session used within the last IdleDays - 1 days, inside its absolute cap
\* and of the current password, is never refused: the daily write of last_seen
\* costs a user at most one day of the idle timeout.
ActiveIsAccepted ==
    \A s \in Sids :
        /\ table[s] # Absent /\ table[s].epoch = epoch
        /\ time - lastUse[s] <= Idle - Day
        /\ time - table[s].created <= Absolute
        => ~Rejects(table[s])

\* No request accepts a session made under an old password, past its absolute
\* cap, or unused for longer than the idle timeout, whatever the cookie says: the
\* row the hub judges by may lag behind the session's use but never runs ahead of
\* it, and what a slide has read is still true when it writes.
StaleIsRefused ==
    [][\A s \in Sids : Issued(s) /\ table[s] # Absent /\ lastUse'[s] # lastUse[s] =>
           /\ table[s].epoch = epoch
           /\ time - table[s].created <= Absolute
           /\ time - lastUse[s] <= Idle]_touchVars

\* docs/architecture.md: "sliding idle 30 days, hard cap 90 days".  A session in
\* daily use is in the browser for as long as the hub would accept it.
CookieSlides ==
    \A s \in Sids :
        /\ table[s] # Absent /\ table[s].epoch = epoch
        /\ time - table[s].created <= Absolute
        /\ cookie[s] # Absent /\ lastUse[s] < cookie[s]   \* that use was the browser's
        /\ time - lastUse[s] <= Day
        => Sends(s)
=============================================================================
