----------------------------- MODULE Downloads -----------------------------
(***************************************************************************)
(* A reader's download next to the sweep of Library.  The acquisition      *)
(* route checks the row and the file and answers with an X-Accel-Redirect  *)
(* header; nginx opens the named file some time later, in another process  *)
(* (a restart of the hub does not take an answered request back).          *)
(***************************************************************************)
EXTENDS Library

VARIABLE fetch   \* the answered download whose file is not open yet, or None

Fetches == [path : Paths, build : Builds, since : Nat]

downloadVars == <<vars, fetch>>

\* download() and _serve_library_file: 404 unless the URL names the listed
\* build and its file is there; only the request that passes changes anything.
Download(p) ==
    /\ pc # "down"
    /\ fetch = None
    /\ Listed(p)
    /\ Has(p, docs[p].build)
    /\ fetch' = [path |-> p, build |-> docs[p].build, since |-> clock]
    /\ UNCHANGED vars

\* nginx opens the file, or answers 404 when it is gone.
OpenFile ==
    /\ fetch # None
    /\ fetch' = None
    /\ UNCHANGED vars

DownloadInit == Init /\ fetch = None

DownloadNext ==
    \/ Next /\ UNCHANGED fetch
    \/ \E p \in Paths : Download(p)
    \/ OpenFile

DownloadFairness ==
    /\ WF_downloadVars(Sweep /\ UNCHANGED fetch)
    /\ WF_downloadVars((\E r \in Renderers : Restart(r)) /\ UNCHANGED fetch)

DownloadSpec == DownloadInit /\ [][DownloadNext]_downloadVars /\ DownloadFairness

-----------------------------------------------------------------------------
(* Properties *)

InGrace == fetch # None /\ clock - fetch.since <= Grace

\* As the comment of _prune_old_epubs says: old builds hang around for the grace
\* period so a download already in flight cannot 404.
InFlightFileKept == InGrace => Has(fetch.path, fetch.build)

\* What the code does guarantee: within the grace period neither a deletion of
\* the document nor a re-appearance nor a restart takes the file of a download
\* in flight; only a newer EPUB of the same document does.
OnlyARevisionTakesIt ==
    InGrace /\ ~Has(fetch.path, fetch.build) =>
        \E e \in epubs[fetch.path] : e.build # fetch.build
=============================================================================
