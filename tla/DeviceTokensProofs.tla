------------------------- MODULE DeviceTokensProofs -------------------------
(***************************************************************************)
(* How a revoked pair can come to authenticate again, for any devices and  *)
(* digests, any value of HUB_OPDS_TOKENS, and any number of processes that *)
(* register and revoke.                                                    *)
(***************************************************************************)
EXTENDS DeviceTokens, TLAPS

\* A registration about to insert a tombstoned pair checked before the tombstone.
JobsRaced == \A a \in Actors : job[a] \in tomb => a \in raced

Inv == TokensTypeOK /\ JobsRaced

USE MalformedAssumption, ActorsAssumption, SecretsAssumption, NilAssumption
USE DEF tokenVars, Actors

\* The tables are empty at first.
LEMMA InitInv == TokensInit => Inv
  BY DEF TokensInit, Inv, TokensTypeOK, JobsRaced, Pairs

\* The entry a seeding process stands at is a pair of a device and a digest.
LEMMA EntryType ==
  ASSUME TokensTypeOK, NEW s \in Seeders, AtEntry(s)
  PROVE  Entry(s) \in Pairs
  BY DEF TokensTypeOK, AtEntry, Entry

-----------------------------------------------------------------------------
\* Each step keeps the tables and the processes within their types.
LEMMA TypeStep == TokensTypeOK /\ [TokensNext]_tokenVars => TokensTypeOK'
  <1> SUFFICES ASSUME TokensTypeOK, [TokensNext]_tokenVars PROVE TokensTypeOK'
    OBVIOUS
  <1> USE DEF TokensTypeOK, Command
  <1>1. ASSUME NEW e \in Secrets, EditSecrets(e) PROVE TokensTypeOK'
    BY <1>1 DEF EditSecrets
  <1>2. ASSUME NEW s \in Seeders, StartSeeding(s) PROVE TokensTypeOK'
    <2>1. secrets \in Seq(Pairs)
      BY DEF Pairs
    <2> QED
      BY <1>2, <2>1 DEF StartSeeding
  <1>3. ASSUME NEW s \in Seeders, SeedingDies(s) PROVE TokensTypeOK'
    BY <1>3 DEF SeedingDies
  <1>4. ASSUME NEW s \in Seeders, SeedRefused(s) \/ SeedingDone(s) PROVE TokensTypeOK'
    <2>1. pos'[s] \in Nat /\ pos' = [pos EXCEPT ![s] = pos'[s]]
      BY <1>4 DEF SeedRefused, SeedingDone
    <2> QED
      BY <1>4, <2>1 DEF SeedRefused, SeedingDone
  <1>5. ASSUME NEW s \in Seeders, SeedCheck(s) PROVE TokensTypeOK'
    <2>1. Entry(s) \in Pairs
      BY <1>5, EntryType DEF SeedCheck
    <2> QED
      BY <1>5, <2>1 DEF SeedCheck
  <1>6. ASSUME NEW s \in Seeders, SeedInsert(s) PROVE TokensTypeOK'
    <2>1. job[s] \in Pairs
      BY <1>6 DEF SeedInsert, Insert
    <2> QED
      BY <1>6, <2>1 DEF SeedInsert, Insert, Pairs
  <1>7. ASSUME NEW n \in Devices, NEW d \in Digests, AddCheck(n, d) PROVE TokensTypeOK'
    BY <1>7 DEF AddCheck, Pairs
  <1>8. CASE AddInsert
    <2>1. job[Operator] \in Pairs
      BY <1>8 DEF AddInsert, Insert
    <2> QED
      BY <1>8, <2>1 DEF AddInsert, Insert, Pairs
  <1>9. ASSUME NEW n \in Devices, RmRead(n) PROVE TokensTypeOK'
    BY <1>9 DEF RmRead, Pairs
  <1>10. CASE RmCommit
    <2>1. rm \in Pairs /\ rm[1] \in Devices
      BY <1>10 DEF RmCommit, Pairs
    <2> QED
      BY <1>10, <2>1 DEF RmCommit
  <1>11. ASSUME NEW n \in Devices, Unrevoke(n) PROVE TokensTypeOK'
    BY <1>11 DEF Unrevoke
  <1>12. CASE UNCHANGED tokenVars
    BY <1>12
  <1> QED
    BY <1>1, <1>2, <1>3, <1>4, <1>5, <1>6, <1>7, <1>8, <1>9, <1>10, <1>11, <1>12 DEF TokensNext

-----------------------------------------------------------------------------
\* A registration checks before it becomes a job, so only a revocation that
\* overlaps it can tombstone a job's pair.
LEMMA JobsStep == TokensTypeOK /\ JobsRaced /\ [TokensNext]_tokenVars => JobsRaced'
  <1> SUFFICES ASSUME TokensTypeOK, JobsRaced, [TokensNext]_tokenVars PROVE JobsRaced'
    OBVIOUS
  <1> USE DEF TokensTypeOK, JobsRaced
  <1>0. Nil \notin Pairs
    BY DEF Pairs
  <1>1. CASE UNCHANGED <<tomb, job, raced>>
    BY <1>1
  <1>2. ASSUME NEW s \in Seeders, SeedingDies(s) PROVE JobsRaced'
    BY <1>0, <1>2 DEF SeedingDies
  <1>3. ASSUME NEW s \in Seeders, SeedCheck(s) PROVE JobsRaced'
    BY <1>3 DEF SeedCheck, Refused
  <1>4. ASSUME NEW s \in Seeders, SeedInsert(s) PROVE JobsRaced'
    BY <1>0, <1>4 DEF SeedInsert, Insert
  <1>5. ASSUME NEW n \in Devices, NEW d \in Digests, AddCheck(n, d) PROVE JobsRaced'
    BY <1>5 DEF AddCheck, Refused
  <1>6. CASE AddInsert
    BY <1>0, <1>6 DEF AddInsert, Insert
  <1>7. CASE RmCommit
    BY <1>7 DEF RmCommit
  <1>8. ASSUME NEW n \in Devices, Unrevoke(n) PROVE JobsRaced'
    BY <1>8 DEF Unrevoke
  <1> QED
    <2>1. ASSUME NEW e \in Secrets, EditSecrets(e) PROVE UNCHANGED <<tomb, job, raced>>
      BY <2>1 DEF EditSecrets
    <2>2. ASSUME NEW s \in Seeders, StartSeeding(s) \/ SeedRefused(s) \/ SeedingDone(s)
          PROVE UNCHANGED <<tomb, job, raced>>
      BY <2>2 DEF StartSeeding, SeedRefused, SeedingDone
    <2>3. ASSUME NEW n \in Devices, RmRead(n) PROVE UNCHANGED <<tomb, job, raced>>
      BY <2>3 DEF RmRead
    <2> QED
      BY <1>1, <1>2, <1>3, <1>4, <1>5, <1>6, <1>7, <1>8, <2>1, <2>2, <2>3 DEF TokensNext

-----------------------------------------------------------------------------
(* Of the live rows only an insert makes one, and only of the pair it checked. *)

Revives(p) ==
  (p[1] \in Devices /\ live[p[1]] = p[2]) \/ (\E a \in raced : job[a] = p /\ job'[a] = Nil)

LEMMA InsertRevives ==
  ASSUME TokensTypeOK, JobsRaced, NEW a \in Actors, Insert(a), tomb' = tomb,
         NEW p \in tomb, live'[p[1]] = p[2]
  PROVE  Revives(p)
  <1>1. job[a] \in Pairs
    BY DEF TokensTypeOK, Insert
  <1>2. PICK n \in Devices, d \in Digests : job[a] = <<n, d>>
    BY <1>1 DEF Pairs
  <1>3. live' = [live EXCEPT ![n] = d] /\ job' = [job EXCEPT ![a] = Nil]
    BY <1>2 DEF Insert
  <1>4. p \in Pairs /\ p[1] \in Devices
    BY DEF TokensTypeOK, Pairs
  <1>5. CASE p[1] = n
    <2>1. p[2] = d
      BY <1>3, <1>5 DEF TokensTypeOK
    <2>2. p = job[a]
      BY <1>2, <1>4, <1>5, <2>1 DEF Pairs
    <2>3. a \in raced /\ job'[a] = Nil
      BY <1>3, <2>2 DEF JobsRaced, TokensTypeOK
    <2> QED
      BY <2>2, <2>3 DEF Revives
  <1>6. CASE p[1] # n
    BY <1>3, <1>4, <1>6 DEF TokensTypeOK, Revives
  <1> QED
    BY <1>5, <1>6

\* A step that writes no live row and no tombstone revives nothing; `token rm`
\* takes away the row of the device it tombstones.
LEMMA OnlyRacesStep ==
  ASSUME Inv, [TokensNext]_tokenVars, NEW p \in tomb', live'[p[1]] = p[2]
  PROVE  p \in tomb /\ Revives(p)
  <1> USE DEF Inv
  <1>0. (tomb' \subseteq tomb) => p \in tomb /\ p[1] \in Devices
    BY DEF TokensTypeOK, Pairs
  <1>1. CASE live' = live /\ tomb' \subseteq tomb
    BY <1>0, <1>1 DEF Revives
  <1>2. ASSUME NEW s \in Seeders, SeedInsert(s) PROVE p \in tomb /\ Revives(p)
    BY <1>0, <1>2, InsertRevives DEF SeedInsert
  <1>3. CASE AddInsert
    BY <1>0, <1>3, InsertRevives DEF AddInsert
  <1>4. CASE RmCommit
    <2>1. PICK n \in Devices, d \in Digests : rm = <<n, d>>
      BY <1>4 DEF RmCommit, TokensTypeOK, Pairs
    <2>2. live' = [live EXCEPT ![n] = Nil] /\ tomb' = tomb \cup {rm}
      BY <1>4, <2>1 DEF RmCommit
    <2>3. p \in Pairs
      BY <1>4, <2>2 DEF TokensTypeOK, RmCommit
    <2>4. p[1] \in Devices /\ p[2] \in Digests
      BY <2>3 DEF Pairs
    <2>5. p[1] # n
      BY <2>2, <2>4 DEF TokensTypeOK
    <2>6. p \in tomb
      BY <2>1, <2>2, <2>5
    <2> QED
      BY <2>2, <2>4, <2>5, <2>6 DEF TokensTypeOK, Revives
  <1> QED
    <2>1. ASSUME NEW e \in Secrets, EditSecrets(e) PROVE live' = live /\ tomb' \subseteq tomb
      BY <2>1 DEF EditSecrets
    <2>2. ASSUME NEW s \in Seeders,
                 StartSeeding(s) \/ SeedingDies(s) \/ SeedRefused(s) \/ SeedCheck(s)
                     \/ SeedingDone(s)
          PROVE live' = live /\ tomb' \subseteq tomb
      BY <2>2 DEF StartSeeding, SeedingDies, SeedRefused, SeedCheck, SeedingDone
    <2>3. ASSUME NEW n \in Devices, NEW d \in Digests, AddCheck(n, d)
          PROVE live' = live /\ tomb' \subseteq tomb
      BY <2>3 DEF AddCheck
    <2>4. ASSUME NEW n \in Devices, RmRead(n) \/ Unrevoke(n)
          PROVE live' = live /\ tomb' \subseteq tomb
      BY <2>4 DEF RmRead, Unrevoke
    <2>5. UNCHANGED tokenVars => live' = live /\ tomb' \subseteq tomb
      OBVIOUS
    <2> QED
      BY <1>1, <1>2, <1>3, <1>4, <2>1, <2>2, <2>3, <2>4, <2>5 DEF TokensNext

-----------------------------------------------------------------------------
\* The inductive invariant of the token tables.
THEOREM Invariant == TokensSpec => []Inv
  <1>1. Inv /\ [TokensNext]_tokenVars => Inv'
    BY TypeStep, JobsStep DEF Inv
  <1> QED
    BY InitInv, <1>1, PTL DEF TokensSpec

\* The tables and the processes that write them stay within their types.
THEOREM TypeCorrect == TokensSpec => []TokensTypeOK
  <1>1. Inv => TokensTypeOK
    BY DEF Inv
  <1> QED
    BY Invariant, <1>1, PTL

\* No restart and no later registration brings a tombstoned pair back: only one
\* that had checked before the tombstone was there can.
THEOREM OnlyRacesRevive == TokensSpec => OnlyARaceRevives
  <1>1. Inv /\ [TokensNext]_tokenVars =>
            [\A p \in tomb' :
                 Authenticates(p[1], p[2])' =>
                     \/ p \in tomb /\ Authenticates(p[1], p[2])
                     \/ \E a \in raced : job[a] = p /\ job'[a] = Nil]_tokenVars
    BY OnlyRacesStep DEF Revives, Authenticates
  <1> QED
    BY Invariant, <1>1, PTL DEF TokensSpec, OnlyARaceRevives
=============================================================================
