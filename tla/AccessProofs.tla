------------------------------ MODULE AccessProofs --------------------------
(***************************************************************************)
(* Who is let in: the gates for any number of worker threads, tokens and   *)
(* addresses, and any commits, timeouts and locked databases between their *)
(* statements; and the two slots of the login for any number of slots,     *)
(* threads and ticks of waiting.                                           *)
(***************************************************************************)
EXTENDS KindleDoor, Logins, FiniteSetTheorems, TLAPS

\* A pinned connection that nobody has committed behind sees the database.
SeesTruth == \A w \in Workers : conn[w] = "pinned" => behind[w] \/ view[w] = db

\* What a request is good for now, it was good for at some time, and what it
\* was good for all the time, it is good for now.
Tracked ==
    \A w \in Workers : /\ Good(db, req[w]) \subseteq ever[w]
                       /\ always[w] \subseteq Good(db, req[w])

\* Whoever is let in, or is about to be, was once good, or the worker is wedged.
Admits(w) ==
    /\ step[w] = "note" => "device" \in ever[w] \/ Wedged(w)
    /\ by[w] = "device" => "device" \in ever[w] /\ logged[w] = req[w].peer
    /\ by[w] = "web" => "web" \in ever[w] \/ Wedged(w)

\* Whoever is refused, or is about to be, was not good all the time, or the
\* worker is wedged.
Refusals(w) ==
    /\ step[w] # "done" => code[w] = 0
    /\ step[w] \in {"slide", "view"} => by[w] # "none"
    /\ step[w] \in {"session", "drop"} /\ Kindle(req[w]) =>
           "device" \notin always[w] \/ Wedged(w)
    /\ step[w] = "drop" => "web" \notin always[w] \/ Wedged(w)
    /\ code[w] \in {302, 401} /\ by[w] = "none" =>
           always[w] \cap Accepts(req[w]) = {} \/ Wedged(w)

DoorInv ==
    /\ DoorTypeOK /\ SeesTruth /\ Tracked
    /\ \A w \in Workers : Admits(w) /\ Refusals(w)

USE NoTokenAssumption, PeersAssumption
USE DEF doorVars, requestVars

\* What a request is good for.
LEMMA GoodFor ==
    ASSUME NEW d, NEW r
    PROVE  /\ Good(d, r) \subseteq Principals
           /\ "device" \in Good(d, r) <=> r.cred # NoToken /\ r.cred = d.token
           /\ "web" \in Good(d, r) <=> r.cookie /\ d.row = "live"
  BY DEF Good, Principals

\* A Kindle path accepts both principals, any other the session only.
LEMMA Accepting ==
    ASSUME NEW r
    PROVE  Accepts(r) = IF Kindle(r) THEN {"device", "web"} ELSE {"web"}
  BY DEF Accepts, Principals

\* Ageing changes nothing but a live row, which is good for nothing after.
LEMMA Ageing ==
    ASSUME NEW d \in Databases, NEW r
    PROVE  /\ AgesIn(d) \in Databases
           /\ Good(AgesIn(d), r) = Good(d, r) \ {"web"}
  BY DEF AgesIn, Databases, Good, Principals

\* Nobody is asking at first.
LEMMA DoorInitInv == DoorInit => DoorInv
  <1> SUFFICES ASSUME DoorInit PROVE DoorInv
    OBVIOUS
  <1>1. (CHOOSE p \in Peers : TRUE) \in Peers
    OBVIOUS
  <1>2. DoorTypeOK
    BY <1>1 DEF DoorInit, DoorTypeOK, Databases, Requests, Doors, NoRequest
  <1>3. SeesTruth /\ Tracked
    BY GoodFor DEF DoorInit, SeesTruth, Tracked, NoRequest, Principals
  <1>4. \A w \in Workers : Admits(w) /\ Refusals(w)
    BY DEF DoorInit, Admits, Refusals
  <1> QED
    BY <1>2, <1>3, <1>4 DEF DoorInv

\* The steps, with the sets their inputs are taken from.
LEMMA StepCases ==
    ASSUME DoorTypeOK, [DoorNext]_doorVars
    PROVE  \/ \E d \in Databases : Write(d)
           \/ Ages
           \/ \E w \in Workers, r \in Requests : Arrive(w, r)
           \/ \E w \in Workers : Proceeds(w)
           \/ \E w \in Workers, s \in {200, 302, 404} : View(w, s)
           \/ UNCHANGED doorVars
  <1>1. ASSUME NEW t \in Tokens \cup {NoToken} PROVE [db EXCEPT !.token = t] \in Databases
    BY DEF DoorTypeOK, Databases
  <1>2. ASSUME NEW l \in {"none", "live"} PROVE [db EXCEPT !.row = l] \in Databases
    BY DEF DoorTypeOK, Databases
  <1>3. ASSUME NEW d \in Doors, NEW c \in Tokens \cup {NoToken}, NEW k \in BOOLEAN,
               NEW p \in Peers, NEW claims \in {<<>>} \cup {<<q>> : q \in Peers \ {p}}
        PROVE  [door |-> d, cred |-> c, cookie |-> k, peer |-> p, claims |-> claims]
                   \in Requests
    <2>1. claims \in Seq(Peers)
      <3>1. <<>> \in Seq(Peers) /\ \A q \in Peers : <<q>> \in Seq(Peers)
        OBVIOUS
      <3> QED
        BY <1>3, <3>1
    <2> QED
      BY <1>3, <2>1 DEF Requests
  <1>4. ASSUME NEW w \in Workers, Arrives(w) PROVE \E r \in Requests : Arrive(w, r)
    BY <1>3, <1>4 DEF Arrives
  <1>5. CASE \E t \in Tokens \cup {NoToken} : Write([db EXCEPT !.token = t])
    BY <1>1, <1>5
  <1>6. CASE \E l \in {"none", "live"} : Write([db EXCEPT !.row = l])
    BY <1>2, <1>6
  <1> QED
    BY <1>4, <1>5, <1>6 DEF DoorNext

\* A read changes the connection within its types.
LEMMA ReadTypes ==
    ASSUME DoorTypeOK, NEW w \in Workers, Reads(w) \/ UNCHANGED <<conn, view, behind>>
    PROVE  /\ conn' \in [Workers -> {"clean", "open", "pinned"}]
           /\ view' \in [Workers -> Databases]
           /\ behind' \in [Workers -> BOOLEAN]
  <1>1. CASE UNCHANGED <<conn, view, behind>>
    BY <1>1 DEF DoorTypeOK
  <1>2. CASE Reads(w) /\ conn[w] = "open"
    <2>1. conn' \in [Workers -> {"clean", "open", "pinned"}]
      BY <1>2 DEF DoorTypeOK, Reads
    <2>2. view' \in [Workers -> Databases]
      BY <1>2 DEF DoorTypeOK, Reads
    <2>3. behind' \in [Workers -> BOOLEAN]
      <3>1. behind' = [behind EXCEPT ![w] = FALSE]
        BY <1>2 DEF Reads
      <3>2. behind \in [Workers -> BOOLEAN]
        BY DEF DoorTypeOK
      <3> QED
        BY <3>1, <3>2
    <2> QED
      BY <2>1, <2>2, <2>3
  <1>3. CASE Reads(w) /\ conn[w] # "open"
    BY <1>3, <1>1 DEF Reads
  <1> QED
    BY <1>1, <1>2, <1>3

\* A step keeps the types.
LEMMA DoorTypeStep == DoorTypeOK /\ [DoorNext]_doorVars => DoorTypeOK'
  <1> SUFFICES ASSUME DoorTypeOK, [DoorNext]_doorVars PROVE DoorTypeOK'
    OBVIOUS
  <1> USE DEF DoorTypeOK
  <1>1. ASSUME NEW d \in Databases, Write(d) PROVE DoorTypeOK'
    BY <1>1, GoodFor DEF Write, Committed
  <1>2. CASE Ages
    <2>1. db' \in Databases /\ view' \in [Workers -> Databases]
      BY <1>2, Ageing DEF Ages
    <2> QED
      BY <1>2, <2>1 DEF Ages
  <1>3. ASSUME NEW w \in Workers, NEW r \in Requests, Arrive(w, r) PROVE DoorTypeOK'
    BY <1>3, GoodFor DEF Arrive
  <1>4. ASSUME NEW w \in Workers, ReadToken(w) PROVE DoorTypeOK'
    BY <1>4, ReadTypes DEF ReadToken
  <1>5. ASSUME NEW w \in Workers, NoteUse(w) PROVE DoorTypeOK'
    <2>1. ClientIp(req[w]) \in Peers
      BY DEF ClientIp, RealIp, Requests
    <2>2. by' \in [Workers -> Principals \cup {"none"}]
      BY <1>5 DEF NoteUse, Principals
    <2> QED
      BY <1>5, <2>1, <2>2 DEF NoteUse, Commits, Committed
  <1>6. ASSUME NEW w \in Workers, NoteRaises(w) PROVE DoorTypeOK'
    BY <1>6 DEF NoteRaises, LockedOut, Answer
  <1>7. ASSUME NEW w \in Workers, SessionGood(w) PROVE DoorTypeOK'
    <2>1. by' \in [Workers -> Principals \cup {"none"}]
      BY <1>7 DEF SessionGood, Principals
    <2>2. step' \in [Workers -> {"token", "note", "session", "slide", "drop", "view", "done"}]
      BY <1>7 DEF SessionGood
    <2> QED
      BY <1>7, <2>1, <2>2, ReadTypes DEF SessionGood, ReadSession
  <1>8. ASSUME NEW w \in Workers, SessionAged(w) PROVE DoorTypeOK'
    BY <1>8, ReadTypes DEF SessionAged, ReadSession
  <1>9. ASSUME NEW w \in Workers, NoSession(w) PROVE DoorTypeOK'
    BY <1>9, ReadTypes DEF NoSession, ReadSession, Refuses, Answer
  <1>10. ASSUME NEW w \in Workers, Slide(w) PROVE DoorTypeOK'
    BY <1>10 DEF Slide, Commits, Committed
  <1>11. ASSUME NEW w \in Workers, SlideRaises(w) PROVE DoorTypeOK'
    BY <1>11 DEF SlideRaises, LockedOut, Answer
  <1>12. ASSUME NEW w \in Workers, Drop(w) PROVE DoorTypeOK'
    <2>1. db' \in Databases
      BY <1>12 DEF Drop, Databases
    <2>2. always' \in [Workers -> SUBSET Principals]
      BY <1>12 DEF Drop
    <2> QED
      <3>1. code' \in [Workers -> {0, 200, 302, 401, 404, 500}]
        BY <1>12 DEF Drop, Refuses, Answer
      <3>2. step' \in [Workers -> {"token", "note", "session", "slide", "drop", "view", "done"}]
        BY <1>12 DEF Drop, Refuses, Answer
      <3> QED
        BY <1>12, <2>1, <2>2, <3>1, <3>2 DEF Drop, Commits, Committed
  <1>13. ASSUME NEW w \in Workers, DropRaises(w) PROVE DoorTypeOK'
    BY <1>13 DEF DropRaises, LockedOut, Answer
  <1>14. ASSUME NEW w \in Workers, ViewRaises(w) PROVE DoorTypeOK'
    BY <1>14 DEF ViewRaises, LockedOut, Answer
  <1>15. ASSUME NEW w \in Workers, NEW s \in {200, 302, 404}, View(w, s) PROVE DoorTypeOK'
    BY <1>15 DEF View, Guarded, Answer
  <1>16. CASE UNCHANGED doorVars
    BY <1>16
  <1> QED
    BY StepCases, <1>1, <1>2, <1>3, <1>4, <1>5, <1>6, <1>7, <1>8, <1>9, <1>10, <1>11, <1>12,
       <1>13, <1>14, <1>15, <1>16 DEF Proceeds
\* What a pinned connection sees is the database until somebody commits.
LEMMA TruthStep == DoorTypeOK /\ SeesTruth /\ [DoorNext]_doorVars => SeesTruth'
  <1> SUFFICES ASSUME DoorTypeOK, SeesTruth, [DoorNext]_doorVars,
                      NEW v \in Workers, conn'[v] = "pinned", ~behind'[v]
               PROVE  view'[v] = db'
    BY DEF SeesTruth
  <1>t. /\ conn \in [Workers -> {"clean", "open", "pinned"}]
        /\ view \in [Workers -> Databases]
        /\ behind \in [Workers -> BOOLEAN]
    BY DEF DoorTypeOK
  <1> USE DEF SeesTruth
  <1>1. ASSUME NEW d \in Databases, Write(d) PROVE view'[v] = db'
    BY <1>1, <1>t DEF Write, Committed
  <1>2. CASE Ages
    BY <1>2, <1>t DEF Ages
  <1>3. ASSUME NEW w \in Workers, NEW r \in Requests, Arrive(w, r) PROVE view'[v] = db'
    BY <1>3 DEF Arrive
  <1>4. ASSUME NEW w \in Workers, Reads(w) \/ UNCHANGED <<conn, view, behind>>, db' = db
        PROVE  view'[v] = db'
    BY <1>4, <1>t DEF Reads
  <1>5. ASSUME NEW w \in Workers, Commits(w) PROVE view'[v] = db'
    <2>1. v # w /\ conn[v] = "pinned"
      BY <1>5, <1>t DEF Commits
    <2>2. behind'[v]
      BY <1>5, <1>t, <2>1 DEF Commits, Committed
    <2> QED
      BY <2>2
  <1>6. ASSUME NEW w \in Workers, LockedOut(w) PROVE view'[v] = db'
    BY <1>6, <1>t DEF LockedOut
  <1>7. ASSUME NEW w \in Workers, NEW s \in {200, 302, 404}, View(w, s) PROVE view'[v] = db'
    BY <1>7 DEF View
  <1>8. ASSUME NEW w \in Workers, Proceeds(w) PROVE view'[v] = db'
    BY <1>4, <1>5, <1>6, <1>8
       DEF Proceeds, ReadToken, NoteUse, NoteRaises, SessionGood, SessionAged, NoSession,
           ReadSession, Slide, SlideRaises, Drop, DropRaises, ViewRaises
  <1>9. CASE UNCHANGED doorVars
    BY <1>9
  <1> QED
    BY StepCases, <1>1, <1>2, <1>3, <1>7, <1>8, <1>9

\* A commit and a request's arrival keep account of what a request is good for.
LEMMA TrackedStep == DoorTypeOK /\ Tracked /\ [DoorNext]_doorVars => Tracked'
  <1> SUFFICES ASSUME DoorTypeOK, Tracked, [DoorNext]_doorVars PROVE Tracked'
    OBVIOUS
  <1> USE DEF Tracked
  <1>t. /\ ever \in [Workers -> SUBSET Principals]
        /\ always \in [Workers -> SUBSET Principals]
        /\ req \in [Workers -> Requests]
        /\ db \in Databases
    BY DEF DoorTypeOK
  <1>1. ASSUME NEW d \in Databases, Write(d) PROVE Tracked'
    BY <1>1, <1>t DEF Write
  <1>2. CASE Ages
    BY <1>2, <1>t, Ageing DEF Ages
  <1>3. ASSUME NEW w \in Workers, NEW r \in Requests, Arrive(w, r) PROVE Tracked'
    BY <1>3, <1>t DEF Arrive
  <1>4. CASE UNCHANGED <<db, req, ever, always>>
    BY <1>4
  <1>5. ASSUME NEW w \in Workers, Drop(w) PROVE Tracked'
    <2>1. \A v \in Workers : Good(db', req[v]) = Good(db, req[v]) \ {"web"}
      <3>1. db'.token = db.token /\ db'.row = "none"
        BY <1>5, <1>t DEF Drop, Databases
      <3> QED
        BY <3>1, GoodFor DEF Principals
    <2> QED
      BY <1>5, <1>t, <2>1 DEF Drop
  <1>6. ASSUME NEW w \in Workers, Proceeds(w) PROVE Tracked'
    BY <1>4, <1>5, <1>6
       DEF Proceeds, ReadToken, NoteUse, NoteRaises, SessionGood, SessionAged, NoSession,
           ReadSession, Slide, SlideRaises, DropRaises, ViewRaises, LockedOut
  <1>7. ASSUME NEW w \in Workers, NEW s \in {200, 302, 404}, View(w, s) PROVE Tracked'
    BY <1>4, <1>7 DEF View
  <1> QED
    BY StepCases, <1>1, <1>2, <1>3, <1>4, <1>6, <1>7

\* A worker that does nothing keeps its account, whatever others commit.
LEMMA Bystander ==
    ASSUME NEW v \in Workers, Admits(v), Refusals(v),
           step'[v] = step[v], req'[v] = req[v], by'[v] = by[v], code'[v] = code[v],
           logged'[v] = logged[v], Wedged(v) => Wedged(v)',
           ever[v] \subseteq ever'[v], always'[v] \subseteq always[v]
    PROVE  Admits(v)' /\ Refusals(v)'
  <1>1. Admits(v)'
    BY DEF Admits
  <1>2. Refusals(v)'
    BY DEF Refusals
  <1> QED
    BY <1>1, <1>2

Accounts == \A v \in Workers : Admits(v) /\ Refusals(v)

\* Commits, and time, without a worker.
LEMMA CommitStep ==
    ASSUME DoorInv, (\E d \in Databases : Write(d)) \/ Ages
    PROVE  Accounts'
  <1> SUFFICES ASSUME NEW v \in Workers PROVE (Admits(v) /\ Refusals(v))'
    BY DEF Accounts
  <1>t. /\ Admits(v) /\ Refusals(v)
        /\ behind \in [Workers -> BOOLEAN]
        /\ ever \in [Workers -> SUBSET Principals]
        /\ always \in [Workers -> SUBSET Principals]
    BY DEF DoorInv, DoorTypeOK
  <1>1. ASSUME NEW d \in Databases, Write(d) PROVE (Admits(v) /\ Refusals(v))'
    BY <1>1, <1>t, Bystander DEF Write, Committed, Wedged
  <1>2. CASE Ages
    BY <1>2, <1>t, Bystander DEF Ages, Wedged
  <1> QED
    BY <1>1, <1>2

\* Only a commit of its own ends a worker's wedge, and it can make none.
LEMMA StaysWedged ==
    ASSUME DoorTypeOK, NEW w \in Workers, NEW v \in Workers,
           Reads(w) \/ UNCHANGED <<conn, view, behind>> \/ LockedOut(w)
    PROVE  Wedged(v) => Wedged(v)'
  <1>t. /\ conn \in [Workers -> {"clean", "open", "pinned"}]
        /\ behind \in [Workers -> BOOLEAN]
    BY DEF DoorTypeOK
  <1>1. CASE Reads(w)
    BY <1>1, <1>t DEF Reads, Wedged
  <1>2. CASE UNCHANGED <<conn, view, behind>>
    BY <1>2 DEF Wedged
  <1>3. CASE LockedOut(w)
    BY <1>3, <1>t DEF LockedOut, Wedged
  <1> QED
    BY <1>1, <1>2, <1>3

\* What a step of worker w leaves alone, for any other worker.
LEMMA OthersKeep ==
    ASSUME DoorInv, DoorTypeOK, NEW w \in Workers, NEW v \in Workers, v # w,
           \/ Proceeds(w)
           \/ \E r \in Requests : Arrive(w, r)
           \/ \E s \in {200, 302, 404} : View(w, s)
    PROVE  (Admits(v) /\ Refusals(v))'
  <1>t. /\ Admits(v) /\ Refusals(v)
        /\ conn \in [Workers -> {"clean", "open", "pinned"}]
        /\ behind \in [Workers -> BOOLEAN]
        /\ step \in [Workers -> {"token", "note", "session", "slide", "drop", "view", "done"}]
        /\ req \in [Workers -> Requests]
        /\ by \in [Workers -> Principals \cup {"none"}]
        /\ code \in [Workers -> {0, 200, 302, 401, 404, 500}]
        /\ logged \in [Workers -> Peers \cup {NoToken}]
        /\ ever \in [Workers -> SUBSET Principals]
        /\ always \in [Workers -> SUBSET Principals]
    BY DEF DoorInv, DoorTypeOK
  <1>1. ASSUME NEW r \in Requests, Arrive(w, r) PROVE (Admits(v) /\ Refusals(v))'
    BY <1>1, <1>t, Bystander DEF Arrive, Wedged
  <1>2. ASSUME NEW s \in {200, 302, 404}, View(w, s) PROVE (Admits(v) /\ Refusals(v))'
    BY <1>2, <1>t, Bystander DEF View, Answer, Wedged
  <1>4. ASSUME Commits(w) PROVE Wedged(v) => Wedged(v)'
    BY <1>4, <1>t DEF Commits, Committed, Wedged
  <1>6. CASE ReadToken(w)
    BY <1>6, <1>t, Bystander, StaysWedged DEF ReadToken
  <1>7. CASE NoteUse(w)
    BY <1>4, <1>7, <1>t, Bystander DEF NoteUse
  <1>8. CASE NoteRaises(w) \/ SlideRaises(w) \/ DropRaises(w) \/ ViewRaises(w)
    <2>1. LockedOut(w) /\ Answer(w, 500)
      BY <1>8 DEF NoteRaises, SlideRaises, DropRaises, ViewRaises
    <2>2. Wedged(v) => Wedged(v)'
      BY <2>1, StaysWedged
    <2>3. /\ step'[v] = step[v] /\ code'[v] = code[v]
          /\ UNCHANGED <<req, by, logged, ever, always>>
      BY <2>1, <1>t DEF LockedOut, Answer
    <2> QED
      BY <2>2, <2>3, <1>t, Bystander
  <1>9. CASE SessionGood(w)
    BY <1>9, <1>t, Bystander, StaysWedged DEF SessionGood, ReadSession
  <1>10. CASE SessionAged(w)
    BY <1>10, <1>t, Bystander, StaysWedged DEF SessionAged, ReadSession
  <1>11. CASE NoSession(w)
    BY <1>11, <1>t, Bystander, StaysWedged DEF NoSession, ReadSession, Refuses, Answer
  <1>12. CASE Slide(w)
    BY <1>4, <1>12, <1>t, Bystander DEF Slide
  <1>13. CASE Drop(w)
    BY <1>4, <1>13, <1>t, Bystander DEF Drop, Refuses, Answer
  <1> QED
    BY <1>1, <1>2, <1>6, <1>7, <1>8, <1>9, <1>10, <1>11, <1>12, <1>13 DEF Proceeds

\* A worker sees the database as it is, or is wedged.
LEMMA Sight ==
    ASSUME DoorInv, NEW w \in Workers
    PROVE  Wedged(w) \/ Sees(w) = db
  BY DEF DoorInv, SeesTruth, Sees, Wedged

\* What worker w answers to its own request.
LEMMA ActorKeeps ==
    ASSUME DoorInv, DoorTypeOK, NEW w \in Workers,
           \/ Proceeds(w)
           \/ \E r \in Requests : Arrive(w, r)
           \/ \E s \in {200, 302, 404} : View(w, s)
    PROVE  (Admits(w) /\ Refusals(w))'
  <1>t. /\ Admits(w) /\ Refusals(w)
        /\ conn \in [Workers -> {"clean", "open", "pinned"}]
        /\ behind \in [Workers -> BOOLEAN]
        /\ step \in [Workers -> {"token", "note", "session", "slide", "drop", "view", "done"}]
        /\ req \in [Workers -> Requests]
        /\ by \in [Workers -> Principals \cup {"none"}]
        /\ code \in [Workers -> {0, 200, 302, 401, 404, 500}]
        /\ logged \in [Workers -> Peers \cup {NoToken}]
        /\ ever \in [Workers -> SUBSET Principals]
        /\ always \in [Workers -> SUBSET Principals]
    BY DEF DoorInv, DoorTypeOK
  <1>g. /\ Good(db, req[w]) \subseteq ever[w]
        /\ always[w] \subseteq Good(db, req[w])
        /\ Wedged(w) \/ Sees(w) = db
    BY Sight DEF DoorInv, Tracked
  <1>1. ASSUME NEW r \in Requests, Arrive(w, r) PROVE (Admits(w) /\ Refusals(w))'
    BY <1>1, <1>t DEF Arrive, Admits, Refusals
  <1>2. ASSUME NEW s \in {200, 302, 404}, View(w, s) PROVE (Admits(w) /\ Refusals(w))'
    <2>1. by'[w] # "none" /\ step'[w] = "done"
      BY <1>2, <1>t DEF View, Answer, Refusals
    <2>2. /\ by'[w] = by[w] /\ ever'[w] = ever[w] /\ logged'[w] = logged[w]
          /\ req'[w] = req[w] /\ Wedged(w)' = Wedged(w)
      BY <1>2 DEF View, Wedged
    <2> QED
      BY <1>t, <2>1, <2>2 DEF Admits, Refusals
  <1>3. CASE ReadToken(w)
    <2>1. Wedged(w) => Wedged(w)'
      BY <1>3, StaysWedged DEF ReadToken
    <2>2. CASE "device" \in Good(Sees(w), req[w])
      BY <1>3, <1>t, <1>g, <2>1, <2>2 DEF ReadToken, Admits, Refusals
    <2>3. CASE "device" \notin Good(Sees(w), req[w])
      BY <1>3, <1>t, <1>g, <2>1, <2>3 DEF ReadToken, Admits, Refusals
    <2> QED
      BY <2>2, <2>3
  <1>4. CASE NoteUse(w)
    <2>1. ~Wedged(w)
      BY <1>4 DEF NoteUse, Commits, CanWrite, Wedged
    <2>2. logged'[w] = req[w].peer
      BY <1>4, <1>t DEF NoteUse, ClientIp, RealIp, Requests
    <2> QED
      BY <1>4, <1>t, <2>1, <2>2 DEF NoteUse, Admits, Refusals
  <1>5. CASE NoteRaises(w) \/ SlideRaises(w) \/ DropRaises(w) \/ ViewRaises(w)
    <2>1. LockedOut(w) /\ Answer(w, 500)
      BY <1>5 DEF NoteRaises, SlideRaises, DropRaises, ViewRaises
    <2>2. Wedged(w) => Wedged(w)'
      BY <2>1, StaysWedged
    <2> QED
      BY <1>t, <2>1, <2>2 DEF LockedOut, Answer, Admits, Refusals
  <1>6. CASE SessionGood(w)
    <2>1. Wedged(w) => Wedged(w)'
      BY <1>6, StaysWedged DEF SessionGood, ReadSession
    <2>2. "web" \in Good(Sees(w), req[w])
      BY <1>6, GoodFor DEF SessionGood
    <2> QED
      BY <1>6, <1>t, <1>g, <2>1, <2>2 DEF SessionGood, ReadSession, Admits, Refusals
  <1>7. CASE SessionAged(w)
    <2>1. Wedged(w) => Wedged(w)'
      BY <1>7, StaysWedged DEF SessionAged, ReadSession
    <2>2. "web" \notin Good(Sees(w), req[w])
      BY <1>7, GoodFor DEF SessionAged
    <2> QED
      BY <1>7, <1>t, <1>g, <2>1, <2>2 DEF SessionAged, ReadSession, Admits, Refusals
  <1>8. CASE NoSession(w)
    <2>1. Wedged(w) => Wedged(w)'
      BY <1>8, StaysWedged DEF NoSession, ReadSession
    <2>2. "web" \notin Good(Sees(w), req[w])
      BY <1>8, GoodFor DEF NoSession
    <2>3. always[w] \cap Accepts(req[w]) = {} \/ Wedged(w)
      BY <1>8, <1>t, <1>g, <2>2, Accepting DEF NoSession, ReadSession, Refusals
    <2> QED
      BY <1>8, <1>t, <2>1, <2>3
         DEF NoSession, ReadSession, Refuses, Answer, Admits, Refusals
  <1>9. CASE Slide(w)
    <2>1. ~Wedged(w)
      BY <1>9 DEF Slide, Commits, CanWrite, Wedged
    <2> QED
      BY <1>9, <1>t, <2>1 DEF Slide, Admits, Refusals
  <1>10. CASE Drop(w)
    <2>1. ~Wedged(w)
      BY <1>10 DEF Drop, Commits, CanWrite, Wedged
    <2>2. always'[w] \cap Accepts(req[w]) = {}
      BY <1>10, <1>t, <2>1, Accepting DEF Drop, Refusals, Principals
    <2> QED
      BY <1>10, <1>t, <2>1, <2>2 DEF Drop, Refuses, Answer, Admits, Refusals
  <1> QED
    BY <1>1, <1>2, <1>3, <1>4, <1>5, <1>6, <1>7, <1>8, <1>9, <1>10 DEF Proceeds

\* The invariant is inductive.
LEMMA DoorInvStep == DoorInv /\ [DoorNext]_doorVars => DoorInv'
  <1> SUFFICES ASSUME DoorInv, [DoorNext]_doorVars PROVE DoorInv'
    OBVIOUS
  <1>1. DoorTypeOK /\ DoorTypeOK'
    BY DoorTypeStep DEF DoorInv
  <1>2. SeesTruth' /\ Tracked'
    BY TruthStep, TrackedStep DEF DoorInv
  <1>3. ASSUME NEW w \in Workers,
               \/ Proceeds(w)
               \/ \E r \in Requests : Arrive(w, r)
               \/ \E s \in {200, 302, 404} : View(w, s)
        PROVE  Accounts'
    BY <1>1, <1>3, OthersKeep, ActorKeeps DEF Accounts
  <1>4. ASSUME UNCHANGED doorVars PROVE Accounts'
    <2>1. ASSUME NEW v \in Workers PROVE (Admits(v) /\ Refusals(v))'
      <3>1. Admits(v) /\ Refusals(v)
        BY DEF DoorInv
      <3> QED
        BY <1>4, <3>1, Bystander DEF Wedged
    <2> QED
      BY <2>1 DEF Accounts
  <1>5. ASSUME (\E d \in Databases : Write(d)) \/ Ages PROVE Accounts'
    BY <1>5, CommitStep
  <1>6. Accounts'
    BY <1>1, <1>3, <1>4, <1>5, StepCases
  <1> QED
    BY <1>1, <1>2, <1>6 DEF DoorInv, Accounts

-----------------------------------------------------------------------------
(* The database, the connections and the requests keep their types.        *)
THEOREM DoorTyped == DoorSpec => []DoorTypeOK
  <1>1. DoorInv => DoorTypeOK
    BY DEF DoorInv
  <1> QED
    BY DoorInitInv, DoorInvStep, <1>1, PTL DEF DoorSpec

(* Nobody is let in on a credential that was at no time of the request     *)
(* good, but a session on a wedged connection: an old view lets a revoked  *)
(* device as far as its access row, which then cannot be committed.        *)
THEOREM AdmissionsFresh == DoorSpec => []FreshAdmission
  <1>1. DoorInv => FreshAdmission
    BY DEF DoorInv, DoorTypeOK, Admits, FreshAdmission, Wedged, Principals
  <1> QED
    BY DoorInitInv, DoorInvStep, <1>1, PTL DEF DoorSpec

(* A good credential is refused on a wedged connection only.               *)
THEOREM RefusalsExplained == DoorSpec => []RefusedOnlyIfWedged
  <1>1. DoorInv => RefusedOnlyIfWedged
    BY DEF DoorInv, Refusals, RefusedOnlyIfWedged, Wedged
  <1> QED
    BY DoorInitInv, DoorInvStep, <1>1, PTL DEF DoorSpec

(* A device's request is answered after its access row is committed, with  *)
(* the address of nginx's peer.                                            *)
THEOREM UsesLogged == DoorSpec => []EveryUseIsLogged
  <1>1. DoorInv => EveryUseIsLogged
    BY DEF DoorInv, Admits, EveryUseIsLogged
  <1> QED
    BY DoorInitInv, DoorInvStep, <1>1, PTL DEF DoorSpec

-----------------------------------------------------------------------------
(* The slots of the login.                                                 *)

\* Every slot is free or with a thread that verifies.
SlotsKept == free + Cardinality(Hashing) = Slots

LoginsInv == LoginsTypeOK /\ SlotsKept /\ RefusedOnlyUnderLoad

USE SlotsAssumption, LoginThreadsAssumption
USE DEF loginVars

\* The threads that verify are finitely many.
LEMMA HashingFinite == IsFiniteSet(Hashing) /\ Cardinality(Hashing) \in Nat
  BY FS_Subset, FS_CardinalityType DEF Hashing

\* A thread begins to verify.
LEMMA OneMore ==
    ASSUME LoginsTypeOK, NEW t \in LoginThreads, phase[t] # "hashing", Goes(t, "hashing")
    PROVE  Cardinality(Hashing') = Cardinality(Hashing) + 1
  <1>1. Hashing' = Hashing \cup {t} /\ t \notin Hashing
    BY DEF Hashing, Goes, LoginsTypeOK
  <1> QED
    BY <1>1, HashingFinite, FS_AddElement

\* A thread has verified.
LEMMA OneLess ==
    ASSUME LoginsTypeOK, NEW t \in LoginThreads, NEW to, phase[t] = "hashing",
           to # "hashing", Goes(t, to)
    PROVE  Cardinality(Hashing') = Cardinality(Hashing) - 1
  <1>1. Hashing' = Hashing \ {t} /\ t \in Hashing
    BY DEF Hashing, Goes, LoginsTypeOK
  <1> QED
    BY <1>1, HashingFinite, FS_RemoveElement

\* A thread that goes on without a slot.
LEMMA SameMany ==
    ASSUME LoginsTypeOK, NEW t \in LoginThreads, NEW to, phase[t] # "hashing",
           to # "hashing", Goes(t, to)
    PROVE  Hashing' = Hashing
  BY DEF Hashing, Goes, LoginsTypeOK

\* Nobody verifies at first.
LEMMA LoginsInitInv == LoginsInit => LoginsInv
  <1> SUFFICES ASSUME LoginsInit PROVE LoginsInv
    OBVIOUS
  <1>1. Hashing = {}
    BY DEF LoginsInit, Hashing
  <1> QED
    BY <1>1, FS_EmptySet DEF LoginsInit, LoginsInv, LoginsTypeOK, SlotsKept, RefusedOnlyUnderLoad

\* The slots are kept by each step.
LEMMA SlotsStep == LoginsTypeOK /\ SlotsKept /\ [LoginsNext]_loginVars => SlotsKept'
  <1> SUFFICES ASSUME LoginsTypeOK, SlotsKept, [LoginsNext]_loginVars PROVE SlotsKept'
    OBVIOUS
  <1> USE HashingFinite DEF SlotsKept
  <1>t. free \in 0..Slots
    BY DEF LoginsTypeOK
  <1>1. CASE WaitTick \/ UNCHANGED loginVars
    BY <1>1 DEF WaitTick, Hashing
  <1>2. ASSUME NEW t \in LoginThreads, NEW r \in BOOLEAN, LoginPost(t, r) PROVE SlotsKept'
    BY <1>2, SameMany DEF LoginPost
  <1>3. ASSUME NEW t \in LoginThreads, Acquire(t) PROVE SlotsKept'
    BY <1>3, <1>t, OneMore DEF Acquire
  <1>4. ASSUME NEW t \in LoginThreads, GivesUp(t) PROVE SlotsKept'
    BY <1>4, SameMany DEF GivesUp
  <1>5. ASSUME NEW t \in LoginThreads, Verifies(t) PROVE SlotsKept'
    BY <1>5, <1>t, OneLess DEF Verifies
  <1>6. ASSUME NEW t \in LoginThreads, VerifyRaises(t) PROVE SlotsKept'
    BY <1>6, <1>t, OneLess DEF VerifyRaises
  <1>7. ASSUME NEW t \in LoginThreads, DelayEnds(t) PROVE SlotsKept'
    BY <1>7, SameMany DEF DelayEnds
  <1> QED
    BY <1>1, <1>2, <1>3, <1>4, <1>5, <1>6, <1>7 DEF LoginsNext

\* A step keeps the types: a slot is released by whoever took one.
LEMMA LoginsTypeStep == LoginsTypeOK /\ SlotsKept /\ [LoginsNext]_loginVars => LoginsTypeOK'
  <1> SUFFICES ASSUME LoginsTypeOK, SlotsKept, [LoginsNext]_loginVars PROVE LoginsTypeOK'
    OBVIOUS
  <1> USE DEF LoginsTypeOK, Goes
  <1>1. CASE WaitTick
    BY <1>1 DEF WaitTick
  <1>2. ASSUME NEW t \in LoginThreads, NEW r \in BOOLEAN, LoginPost(t, r) PROVE LoginsTypeOK'
    BY <1>2 DEF LoginPost
  <1>3. ASSUME NEW t \in LoginThreads, Acquire(t) PROVE LoginsTypeOK'
    BY <1>3 DEF Acquire
  <1>4. ASSUME NEW t \in LoginThreads, GivesUp(t) PROVE LoginsTypeOK'
    BY <1>4, HashingFinite DEF GivesUp
  <1>5. ASSUME NEW t \in LoginThreads, Verifies(t) \/ VerifyRaises(t) PROVE LoginsTypeOK'
    <2>1. Hashing # {}
      BY <1>5 DEF Verifies, VerifyRaises, Hashing
    <2>2. Cardinality(Hashing) > 0
      BY <2>1, HashingFinite, FS_EmptySet
    <2>3. free' \in 0..Slots
      BY <1>5, <2>2, HashingFinite DEF SlotsKept, Verifies, VerifyRaises
    <2> QED
      BY <1>5, <2>3 DEF Verifies, VerifyRaises
  <1>6. ASSUME NEW t \in LoginThreads, DelayEnds(t) PROVE LoginsTypeOK'
    BY <1>6 DEF DelayEnds
  <1>7. CASE UNCHANGED loginVars
    BY <1>7
  <1> QED
    BY <1>1, <1>2, <1>3, <1>4, <1>5, <1>6, <1>7 DEF LoginsNext

\* A right password is refused to a thread that found every slot taken.
LEMMA RefusedStep == LoginsInv /\ [LoginsNext]_loginVars => RefusedOnlyUnderLoad'
  <1> SUFFICES ASSUME LoginsInv, [LoginsNext]_loginVars PROVE RefusedOnlyUnderLoad'
    OBVIOUS
  <1> USE DEF LoginsInv, LoginsTypeOK, RefusedOnlyUnderLoad, Goes
  <1>1. CASE WaitTick \/ UNCHANGED loginVars
    BY <1>1 DEF WaitTick
  <1>2. ASSUME NEW t \in LoginThreads, NEW r \in BOOLEAN, LoginPost(t, r)
        PROVE  RefusedOnlyUnderLoad'
    BY <1>2 DEF LoginPost
  <1>3. ASSUME NEW t \in LoginThreads, Acquire(t) \/ Verifies(t) PROVE RefusedOnlyUnderLoad'
    BY <1>3 DEF Acquire, Verifies
  <1>4. ASSUME NEW t \in LoginThreads, GivesUp(t) PROVE RefusedOnlyUnderLoad'
    <2>1. crowd'[t] = Slots
      BY <1>4, HashingFinite DEF GivesUp, SlotsKept
    <2> QED
      BY <1>4, <2>1 DEF GivesUp
  <1>5. ASSUME NEW t \in LoginThreads, VerifyRaises(t) PROVE RefusedOnlyUnderLoad'
    BY <1>5 DEF VerifyRaises
  <1>6. ASSUME NEW t \in LoginThreads, DelayEnds(t) PROVE RefusedOnlyUnderLoad'
    BY <1>6 DEF DelayEnds
  <1> QED
    BY <1>1, <1>2, <1>3, <1>4, <1>5, <1>6 DEF LoginsNext

\* The invariant is inductive.
LEMMA LoginsInvStep == LoginsInv /\ [LoginsNext]_loginVars => LoginsInv'
  BY SlotsStep, LoginsTypeStep, RefusedStep DEF LoginsInv

-----------------------------------------------------------------------------
(* The semaphore never counts below zero nor above its bound, which        *)
(* BoundedSemaphore would raise for.                                       *)
THEOREM LoginsTyped == LoginsSpec => []LoginsTypeOK
  <1>1. LoginsInv => LoginsTypeOK
    BY DEF LoginsInv
  <1> QED
    BY LoginsInitInv, LoginsInvStep, <1>1, PTL DEF LoginsSpec

(* A right password is refused only while every slot is at work.           *)
THEOREM RefusalsUnderLoad == LoginsSpec => []RefusedOnlyUnderLoad
  <1>1. LoginsInv => RefusedOnlyUnderLoad
    BY DEF LoginsInv
  <1> QED
    BY LoginsInitInv, LoginsInvStep, <1>1, PTL DEF LoginsSpec
=============================================================================
