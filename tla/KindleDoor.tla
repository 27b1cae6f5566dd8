----------------------------- MODULE KindleDoor -----------------------------
(***************************************************************************)
(* The gates of the routes and the answer on the wire: the device token    *)
(* (current_basic_principal), the session (current_session_principal), the *)
(* four decorators, the access row every device request must commit, and   *)
(* the redirect guard, on the worker threads' own database connections.    *)
(*                                                                         *)
(* A statement that finds the database locked raises, and nothing rolls    *)
(* back: the connection is left in a transaction ("open"), whose next read *)
(* fixes what it sees ("pinned") until a write of it commits, which it     *)
(* cannot once another connection has committed.  Sessions has the ages of *)
(* a session; here its row is live, aged or gone.                          *)
(***************************************************************************)
EXTENDS Integers, Sequences

CONSTANTS
    Workers,     \* worker threads, each with a connection
    Tokens,      \* token digests of one device
    NoToken,
    Peers        \* client addresses

ASSUME NoTokenAssumption == NoToken \notin Tokens /\ NoToken \notin Peers
ASSUME PeersAssumption == Peers # {}

VARIABLES
    db,        \* [token: the digest registered for the device, row: the session's row]
    conn,      \* conn[w]: "clean", "open" or "pinned"
    view,      \* view[w]: what a pinned connection sees
    behind,    \* behind[w]: another connection has committed since the pin
    step,      \* step[w]: where the request of w is
    req,       \* req[w]: the last request of w
    by,        \* by[w]: the principal it was let in as, or "none"
    code,      \* code[w]: its status, 0 before it is answered
    logged,    \* logged[w]: the address of the access row it committed, or NoToken
    ever,      \* ever[w]: the principals it was good for at some time
    always     \* always[w]: the principals it was good for all the time

doorVars == <<db, conn, view, behind, step, req, by, code, logged, ever, always>>
requestVars == <<step, req, by, code, logged>>

\* An aged row is past its timeouts, or of an old password.
Databases == [token : Tokens \cup {NoToken}, row : {"none", "live", "aged"}]
Doors == {"opds", "any", "web", "admin"}
Principals == {"device", "web"}
\* claims: the X-Forwarded-For the client has sent itself
Requests == [door : Doors, cred : Tokens \cup {NoToken}, cookie : BOOLEAN,
             peer : Peers, claims : Seq(Peers)]

\* The paths under /opds and /ebooks and the EPUBs, which the Kindle asks for.
Kindle(r) == r.door \in {"opds", "any"}
Accepts(r) == IF Kindle(r) THEN Principals ELSE {"web"}

Good(d, r) ==
    {p \in Principals : \/ p = "device" /\ r.cred # NoToken /\ r.cred = d.token
                        \/ p = "web" /\ r.cookie /\ d.row = "live"}

DoorTypeOK ==
    /\ db \in Databases
    /\ conn \in [Workers -> {"clean", "open", "pinned"}]
    /\ view \in [Workers -> Databases]
    /\ behind \in [Workers -> BOOLEAN]
    /\ step \in [Workers -> {"token", "note", "session", "slide", "drop", "view", "done"}]
    /\ req \in [Workers -> Requests]
    /\ by \in [Workers -> Principals \cup {"none"}]
    /\ code \in [Workers -> {0, 200, 302, 401, 404, 500}]
    /\ logged \in [Workers -> Peers \cup {NoToken}]
    /\ ever \in [Workers -> SUBSET Principals]
    /\ always \in [Workers -> SUBSET Principals]

NoRequest(p) ==
    [door |-> "web", cred |-> NoToken, cookie |-> FALSE, peer |-> p, claims |-> <<>>]

DoorInit ==
    /\ db = [token |-> NoToken, row |-> "none"]
    /\ conn = [w \in Workers |-> "clean"]
    /\ view = [w \in Workers |-> db]
    /\ behind = [w \in Workers |-> FALSE]
    /\ step = [w \in Workers |-> "done"]
    /\ req = [w \in Workers |-> NoRequest(CHOOSE p \in Peers : TRUE)]
    /\ by = [w \in Workers |-> "none"] /\ code = [w \in Workers |-> 302]
    /\ logged = [w \in Workers |-> NoToken]
    /\ ever = [w \in Workers |-> {}] /\ always = [w \in Workers |-> {}]

-----------------------------------------------------------------------------
(* A commit: every other pinned connection is behind it. *)
Committed(writers) ==
    behind' = [w \in Workers |-> IF w \in writers THEN FALSE
                                 ELSE behind[w] \/ conn[w] = "pinned"]

\* A token is registered or revoked, a session begins or is dropped, or the
\* builder writes, each on a connection of its own.
Write(d) ==
    /\ db' = d
    /\ Committed({})
    /\ ever' = [w \in Workers |-> ever[w] \cup Good(d, req[w])]
    /\ always' = [w \in Workers |-> always[w] \cap Good(d, req[w])]
    /\ UNCHANGED <<conn, view, requestVars>>

\* Time passes: the row ages wherever it is seen.
AgesIn(d) == [d EXCEPT !.row = IF @ = "live" THEN "aged" ELSE @]
Ages ==
    /\ db' = AgesIn(db)
    /\ view' = [w \in Workers |-> AgesIn(view[w])]
    /\ always' = [w \in Workers |-> always[w] \ {"web"}]
    /\ UNCHANGED <<conn, behind, requestVars, ever>>

Sees(w) == IF conn[w] = "pinned" THEN view[w] ELSE db

\* A read in an open transaction fixes what the connection sees from then on.
Reads(w) ==
    IF conn[w] = "open"
    THEN /\ conn' = [conn EXCEPT ![w] = "pinned"]
         /\ view' = [view EXCEPT ![w] = db]
         /\ behind' = [behind EXCEPT ![w] = FALSE]
    ELSE UNCHANGED <<conn, view, behind>>

CanWrite(w) == ~(conn[w] = "pinned" /\ behind[w])

Commits(w) ==
    /\ CanWrite(w)
    /\ conn' = [conn EXCEPT ![w] = "clean"]
    /\ Committed({w})
    /\ UNCHANGED view

Answer(w, status) ==
    /\ step' = [step EXCEPT ![w] = "done"]
    /\ code' = [code EXCEPT ![w] = status]

\* The statement raises: at once on a pinned connection that is behind, after
\* busy_timeout on any other.
LockedOut(w) ==
    /\ conn' = IF conn[w] = "clean" THEN [conn EXCEPT ![w] = "open"] ELSE conn
    /\ UNCHANGED <<db, view, behind, ever, always, req, by, logged>>

Arrive(w, r) ==
    /\ step[w] = "done"
    /\ req' = [req EXCEPT ![w] = r]
    /\ step' = [step EXCEPT ![w] = IF Kindle(r) THEN "token" ELSE "session"]
    /\ by' = [by EXCEPT ![w] = "none"]
    /\ code' = [code EXCEPT ![w] = 0]
    /\ logged' = [logged EXCEPT ![w] = NoToken]
    /\ ever' = [ever EXCEPT ![w] = Good(db, r)]
    /\ always' = [always EXCEPT ![w] = Good(db, r)]
    /\ UNCHANGED <<db, conn, view, behind>>

\* device_token_digest, and the comparison; a request without the header
\* reads nothing.
ReadToken(w) ==
    /\ step[w] = "token"
    /\ IF req[w].cred = NoToken THEN UNCHANGED <<conn, view, behind>> ELSE Reads(w)
    /\ step' = [step EXCEPT ![w] =
                  IF "device" \in Good(Sees(w), req[w]) THEN "note" ELSE "session"]
    /\ UNCHANGED <<db, req, by, code, logged, ever, always>>

\* nginx sets X-Real-IP to its peer and appends the peer to X-Forwarded-For.
RealIp(r) == r.peer
ForwardedFor(r) == Append(r.claims, r.peer)

\* Mutant: the first element of X-Forwarded-For.
ClientIpFirst(r) == ForwardedFor(r)[1]

ClientIp(r) == IF RealIp(r) # NoToken THEN RealIp(r)
               ELSE ForwardedFor(r)[Len(ForwardedFor(r))]

NoteUse(w) ==
    /\ step[w] = "note"
    /\ Commits(w)
    /\ logged' = [logged EXCEPT ![w] = ClientIp(req[w])]
    /\ by' = [by EXCEPT ![w] = "device"]
    /\ step' = [step EXCEPT ![w] = "view"]
    /\ UNCHANGED <<db, ever, always, req, code>>

\* Mutant: the device is let in although its use could not be noted.
NoteRaisesIgnored(w) ==
    /\ step[w] = "note"
    /\ by' = [by EXCEPT ![w] = "device"]
    /\ step' = [step EXCEPT ![w] = "view"]
    /\ UNCHANGED <<db, conn, view, behind, ever, always, req, code, logged>>

\* Mutant: the device is refused when its use cannot be noted.
NoteRaisesRefusing(w) ==
    /\ step[w] = "note" /\ LockedOut(w) /\ Answer(w, 401)

NoteRaises(w) == step[w] = "note" /\ LockedOut(w) /\ Answer(w, 500)

Refuses(w) == Answer(w, IF req[w].door = "web" THEN 302 ELSE 401)

\* touch_session reads the row; it slides the row when that is due, and drops
\* an aged one.
ReadSession(w) ==
    /\ step[w] = "session"
    /\ IF req[w].cookie THEN Reads(w) ELSE UNCHANGED <<conn, view, behind>>
    /\ UNCHANGED <<db, req, logged, ever, always>>

SessionGood(w) ==
    /\ ReadSession(w)
    /\ req[w].cookie /\ Sees(w).row = "live"
    /\ \E due \in BOOLEAN : step' = [step EXCEPT ![w] = IF due THEN "slide" ELSE "view"]
    /\ by' = [by EXCEPT ![w] = "web"]
    /\ UNCHANGED code

SessionAged(w) ==
    /\ ReadSession(w)
    /\ req[w].cookie /\ Sees(w).row = "aged"
    /\ step' = [step EXCEPT ![w] = "drop"]
    /\ UNCHANGED <<by, code>>

NoSession(w) ==
    /\ ReadSession(w)
    /\ ~req[w].cookie \/ Sees(w).row = "none"
    /\ Refuses(w)
    /\ UNCHANGED by

Slide(w) ==
    /\ step[w] = "slide"
    /\ Commits(w)
    /\ step' = [step EXCEPT ![w] = "view"]
    /\ UNCHANGED <<db, ever, always, req, by, code, logged>>

SlideRaises(w) == step[w] = "slide" /\ LockedOut(w) /\ Answer(w, 500)

Drop(w) ==
    /\ step[w] = "drop"
    /\ Commits(w)
    /\ db' = [db EXCEPT !.row = "none"]
    /\ always' = [v \in Workers |-> always[v] \ {"web"}]
    /\ Refuses(w)
    /\ UNCHANGED <<ever, req, by, logged>>

DropRaises(w) == step[w] = "drop" /\ LockedOut(w) /\ Answer(w, 500)

\* _no_redirect_guard: no view of a Kindle path redirects today, and the router
\* is told not to (strict_slashes, merge_slashes).
Guarded(r, status) == IF Kindle(r) /\ status \in 300..399 THEN 401 ELSE status

\* The view answers.  One view behind the gates writes, /admin/logout-everywhere,
\* and its statement may raise.
View(w, status) ==
    /\ step[w] = "view"
    /\ status = 302 => ~Kindle(req[w])
    /\ Answer(w, Guarded(req[w], status))
    /\ UNCHANGED <<db, conn, view, behind, ever, always, req, by, logged>>

ViewRaises(w) ==
    step[w] = "view" /\ req[w].door = "admin" /\ LockedOut(w) /\ Answer(w, 500)

Arrives(w) ==
    \E d \in Doors, c \in Tokens \cup {NoToken}, k \in BOOLEAN, p \in Peers :
      \E claims \in {<<>>} \cup {<<q>> : q \in Peers \ {p}} :
        Arrive(w, [door |-> d, cred |-> c, cookie |-> k, peer |-> p, claims |-> claims])

Proceeds(w) ==
    \/ ReadToken(w) \/ NoteUse(w) \/ NoteRaises(w)
    \/ SessionGood(w) \/ SessionAged(w) \/ NoSession(w)
    \/ Slide(w) \/ SlideRaises(w) \/ Drop(w) \/ DropRaises(w)
    \/ ViewRaises(w)

DoorNext ==
    \/ \E t \in Tokens \cup {NoToken} : Write([db EXCEPT !.token = t])
    \/ \E l \in {"none", "live"} : Write([db EXCEPT !.row = l])
    \/ Ages
    \/ \E w \in Workers : Arrives(w) \/ Proceeds(w) \/ \E s \in {200, 302, 404} : View(w, s)

DoorSpec == DoorInit /\ [][DoorNext]_doorVars

-----------------------------------------------------------------------------
(* The connection can commit nothing any more: _execute raises on every    *)
(* write, and no code rolls back.                                          *)
Wedged(w) == conn[w] = "pinned" /\ behind[w]

(* A device is let in only with a token that was registered at some time   *)
(* while its request ran, on a wedged connection too: what it sees may be  *)
(* old, but then the access row cannot be committed.  A session let in was *)
(* live at some time of the request; only a wedged connection, which still *)
(* answers a session whose slide is not due, lets one in that was not (see *)
(* DroppedIsOut).                                                          *)
FreshAdmission ==
    \A w \in Workers : by[w] # "none" =>
        by[w] \in ever[w] \/ (by[w] = "web" /\ Wedged(w))

(* As the docstring of logout_everywhere says, dropping the sessions is    *)
(* the kill switch for a lost phone: a session that was gone before the    *)
(* request arrived is not let in.                                          *)
DroppedIsOut ==
    \A w \in Workers : by[w] = "web" => "web" \in ever[w]

(* A request whose credential its route accepts, and which was good for    *)
(* all of the request, is refused only on a wedged connection; a locked    *)
(* database is an error (500) and never a refusal.                         *)
RefusedOnlyIfWedged ==
    \A w \in Workers :
        code[w] \in {302, 401} /\ by[w] = "none" /\ always[w] \cap Accepts(req[w]) # {}
            => Wedged(w)

(* Every request answered to a device has committed its access row, under  *)
(* the address nginx saw, whatever the client claims to be forwarding.     *)
EveryUseIsLogged ==
    \A w \in Workers :
        by[w] = "device" => logged[w] = req[w].peer
=============================================================================
