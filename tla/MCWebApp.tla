----------------------------- MODULE MCWebApp -----------------------------
(***************************************************************************)
(* Five parts of the web application side by side.  They share no state,   *)
(* so a behaviour follows one of them, its focus, and the others stay at   *)
(* their initial states: interleaving them would reach nothing new.        *)
(***************************************************************************)
EXTENDS Feeds, Ebooks, Curated, KindleDoor, Logins

VARIABLE focus

webVars == <<focus, feedVars, ebookVars, curatedVars, doorVars, loginVars>>

\* Two directories hold a file of the same name.
MCNameOf == (1 :> "a") @@ (2 :> "b") @@ (3 :> "a")

WebInit ==
    /\ focus \in {"feeds", "ebooks", "curated", "door", "logins"}
    /\ FeedsInit /\ EbooksInit /\ CuratedInit /\ DoorInit /\ LoginsInit
    /\ \A d \in Listed : rows[d].title = 1
    /\ IF focus = "feeds" THEN Cardinality(Listed) >= PageSize
                          ELSE kind = "new" /\ Listed = {}

WebNext ==
    \/ /\ focus = "feeds" /\ FeedsNext
       /\ UNCHANGED <<focus, ebookVars, curatedVars, doorVars, loginVars>>
    \/ /\ focus = "ebooks" /\ EbooksNext
       /\ UNCHANGED <<focus, feedVars, curatedVars, doorVars, loginVars>>
    \/ /\ focus = "curated" /\ CuratedNext
       /\ UNCHANGED <<focus, feedVars, ebookVars, doorVars, loginVars>>
    \/ /\ focus = "door" /\ DoorNext
       /\ UNCHANGED <<focus, feedVars, ebookVars, curatedVars, loginVars>>
    \/ /\ focus = "logins" /\ LoginsNext
       /\ UNCHANGED <<focus, feedVars, ebookVars, curatedVars, doorVars>>

WebSpec == WebInit /\ [][WebNext]_webVars /\ LoginsFairness

(* Every part keeps to its types. *)
WebTypeOK ==
    FeedsTypeOK /\ EbooksTypeOK /\ CuratedTypeOK /\ DoorTypeOK /\ LoginsTypeOK
=============================================================================
