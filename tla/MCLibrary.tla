----------------------------- MODULE MCLibrary -----------------------------
(***************************************************************************)
(* A behaviour follows either several documents, of texts that can be      *)
(* built under one renderer, or one document whose text and renderer       *)
(* change, and a reader downloading it.                                    *)
(***************************************************************************)
EXTENDS Downloads

CONSTANTS t1, r1, Buildable   \* a text, a renderer, and texts of the first kind

VARIABLE many   \* several documents are followed

MCPaths == {1, 2}

\* One source in the inbox when the hub first starts; edits bring the other.
MCInit ==
    /\ many \in BOOLEAN
    /\ DownloadInit /\ renderer = r1
    /\ inbox = [p \in Paths |-> IF p = 1 THEN t1 ELSE None]

MCNext ==
    /\ DownloadNext
    /\ IF many THEN /\ renderer' = r1 /\ fetch' = None
                    /\ \A p \in Paths : inbox'[p] \in Buildable \cup {None}
               ELSE \A p \in Paths : p # 1 => inbox'[p] = None
    /\ UNCHANGED many

MCSpec == MCInit /\ [][MCNext]_<<downloadVars, many>> /\ DownloadFairness
=============================================================================
