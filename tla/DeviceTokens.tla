---------------------------- MODULE DeviceTokens ----------------------------
(***************************************************************************)
(* The tokens of the Kindle door: the tables device_tokens and             *)
(* revoked_device_tokens, the seeding of the first from HUB_OPDS_TOKENS at *)
(* every start of the hub and every `kindle-hub build`, and the commands   *)
(* token add, token rm and token unrevoke run beside them.                 *)
(*                                                                         *)
(* SQLite serialises the writes; a SELECT before the first write of a      *)
(* connection is not part of its transaction.  So registering a token and  *)
(* revoking one are each a read step and a write step.                     *)
(***************************************************************************)
EXTENDS Naturals, Sequences

CONSTANTS
    Devices,      \* device names
    Digests,    \* sha256 digests of tokens
    Malformed,  \* digests that are not 64 hex digits
    Seeders,    \* processes that seed: the hub, a `kindle-hub build`
    Operator,   \* the shell in which `token add` runs
    Secrets,    \* the values HUB_OPDS_TOKENS takes, as sequences of pairs
    Nil,
    MaxStarts, MaxCommands   \* bounds of the exploration

ASSUME MalformedAssumption == Malformed \subseteq Digests
ASSUME ActorsAssumption == Operator \notin Seeders
ASSUME SecretsAssumption == Secrets \subseteq Seq(Devices \X Digests)
ASSUME NilAssumption == Nil \notin Digests /\ Nil \notin Devices \X Digests

VARIABLES
    secrets,  \* HUB_OPDS_TOKENS in secrets.env
    live,     \* table device_tokens: live[n] is the digest of n, or Nil
    tomb,     \* table revoked_device_tokens: a set of pairs
    env,      \* env[s]: the value process s read at its start
    pos,      \* pos[s]: the entry s seeds next, 0 when s is not seeding
    job,      \* job[a]: the pair a has found not tombstoned and will insert
    rm,       \* the pair a `token rm` has read and will revoke, or Nil
    revoked,  \* names revoked while nothing was being registered, and not given
              \* back by hand since
    raced,    \* registrations whose pair was tombstoned after they had checked it
    starts, commands   \* how much of each bound is used up

tokenVars == <<secrets, live, tomb, env, pos, job, rm, revoked, raced, starts, commands>>

Pairs == Devices \X Digests
Actors == Seeders \cup {Operator}

\* current_basic_principal: the Basic credentials are compared with the live
\* row alone.
Authenticates(n, d) == live[n] = d

TokensInit ==
    /\ secrets \in Secrets
    /\ live = [n \in Devices |-> Nil]
    /\ tomb = {}
    /\ env = [s \in Seeders |-> <<>>]
    /\ pos = [s \in Seeders |-> 0]
    /\ job = [a \in Actors |-> Nil]
    /\ rm = Nil
    /\ revoked = {} /\ raced = {}
    /\ starts = 0 /\ commands = 0

Command == commands < MaxCommands /\ commands' = commands + 1

\* The operator edits secrets.env; running processes keep what they read.
EditSecrets(e) ==
    /\ e # secrets
    /\ Command
    /\ secrets' = e
    /\ UNCHANGED <<live, tomb, env, pos, job, rm, revoked, raced, starts>>

-----------------------------------------------------------------------------
(* upsert_device_token: the tombstone check, then the insert. *)

\* Mutant: registering does not look at the tombstones.
NeverRefused(p) == FALSE

Refused(p) == p \in tomb

Insert(a) ==
    /\ job[a] # Nil
    /\ live' = [live EXCEPT ![job[a][1]] = job[a][2]]
    /\ job' = [job EXCEPT ![a] = Nil]
    /\ raced' = raced \ {a}

-----------------------------------------------------------------------------
(* seed_device_tokens *)

StartSeeding(s) ==
    /\ pos[s] = 0
    /\ starts < MaxStarts
    /\ starts' = starts + 1
    /\ env' = [env EXCEPT ![s] = secrets]
    /\ pos' = [pos EXCEPT ![s] = 1]
    /\ UNCHANGED <<secrets, live, tomb, job, rm, revoked, raced, commands>>

Entry(s) == env[s][pos[s]]
AtEntry(s) == pos[s] \in 1..Len(env[s]) /\ job[s] = Nil

\* A malformed digest raises: the process does not start, and what the earlier
\* entries registered stays.  Death between two steps looks the same.
SeedingDies(s) ==
    /\ pos[s] # 0
    /\ pos' = [pos EXCEPT ![s] = 0]
    /\ job' = [job EXCEPT ![s] = Nil]
    /\ raced' = raced \ {s}
    /\ UNCHANGED <<secrets, live, tomb, env, rm, revoked, starts, commands>>

SeedRefused(s) ==
    /\ AtEntry(s)
    /\ Entry(s)[2] \notin Malformed
    /\ Refused(Entry(s))
    /\ pos' = [pos EXCEPT ![s] = @ + 1]
    /\ UNCHANGED <<secrets, live, tomb, env, job, rm, revoked, raced, starts, commands>>

SeedCheck(s) ==
    /\ AtEntry(s)
    /\ Entry(s)[2] \notin Malformed
    /\ ~Refused(Entry(s))
    /\ job' = [job EXCEPT ![s] = Entry(s)]
    /\ UNCHANGED <<secrets, live, tomb, env, pos, rm, revoked, raced, starts, commands>>

SeedInsert(s) ==
    /\ Insert(s)
    /\ pos' = [pos EXCEPT ![s] = @ + 1]
    /\ UNCHANGED <<secrets, tomb, env, rm, revoked, starts, commands>>

SeedingDone(s) ==
    /\ pos[s] # 0 /\ pos[s] > Len(env[s])
    /\ pos' = [pos EXCEPT ![s] = 0]
    /\ UNCHANGED <<secrets, live, tomb, env, job, rm, revoked, raced, starts, commands>>

-----------------------------------------------------------------------------
(* The token commands *)

\* token add: a tombstoned pair is refused (and reported as registered).
AddCheck(n, d) ==
    /\ job[Operator] = Nil
    /\ ~Refused(<<n, d>>)
    /\ Command
    /\ job' = [job EXCEPT ![Operator] = <<n, d>>]
    /\ UNCHANGED <<secrets, live, tomb, env, pos, rm, revoked, raced, starts>>

AddInsert ==
    /\ Insert(Operator)
    /\ revoked' = revoked \ {job[Operator][1]}
    /\ UNCHANGED <<secrets, tomb, env, pos, rm, starts, commands>>

\* token rm: read the digest of the live row ...
RmRead(n) ==
    /\ rm = Nil
    /\ live[n] # Nil
    /\ Command
    /\ rm' = <<n, live[n]>>
    /\ UNCHANGED <<secrets, live, tomb, env, pos, job, revoked, raced, starts>>

\* No registration is under way.
Quiet == (\A s \in Seeders : pos[s] = 0) /\ (\A a \in Actors : job[a] = Nil)

RmCommit ==
    /\ rm # Nil
    /\ tomb' = tomb \cup {rm}
    /\ live' = [live EXCEPT ![rm[1]] = Nil]
    /\ rm' = Nil
    /\ revoked' = IF Quiet THEN revoked \cup {rm[1]} ELSE revoked
    /\ raced' = raced \cup {a \in Actors : job[a] = rm}
    /\ UNCHANGED <<secrets, env, pos, job, starts, commands>>

Unrevoke(n) ==
    /\ Command
    /\ tomb' = {p \in tomb : p[1] # n}
    /\ raced' = {a \in raced : job[a][1] # n}
    /\ revoked' = revoked \ {n}
    /\ UNCHANGED <<secrets, live, env, pos, job, rm, starts>>

-----------------------------------------------------------------------------
TokensNext ==
    \/ \E e \in Secrets : EditSecrets(e)
    \/ \E s \in Seeders :
          \/ StartSeeding(s) \/ SeedingDies(s) \/ SeedRefused(s) \/ SeedCheck(s)
          \/ SeedInsert(s) \/ SeedingDone(s)
    \/ \E n \in Devices, d \in Digests : AddCheck(n, d)
    \/ AddInsert \/ RmCommit
    \/ \E n \in Devices : RmRead(n) \/ Unrevoke(n)

TokensSpec == TokensInit /\ [][TokensNext]_tokenVars

-----------------------------------------------------------------------------
(* Properties *)

TokensTypeOK ==
    /\ secrets \in Secrets
    /\ live \in [Devices -> Digests \cup {Nil}]
    /\ tomb \in SUBSET Pairs
    /\ env \in [Seeders -> Seq(Pairs)]
    /\ pos \in [Seeders -> Nat]
    /\ job \in [Actors -> Pairs \cup {Nil}]
    /\ rm \in Pairs \cup {Nil}
    /\ revoked \in SUBSET Devices
    /\ raced \in SUBSET Actors
    /\ starts \in Nat /\ commands \in Nat

\* A tombstoned pair comes to authenticate in one way only: a registration that
\* is being carried out at that moment had found it free, and `token rm` has
\* tombstoned it since.  No restart, `build` or `token add` that began after
\* `token rm` returned brings the pair back.
OnlyARaceRevives ==
    [][\A p \in tomb' :
           Authenticates(p[1], p[2])' =>
               \/ p \in tomb /\ Authenticates(p[1], p[2])
               \/ \E a \in raced : job[a] = p /\ job'[a] = Nil]_tokenVars

\* As the docstring of is_token_revoked says, the tombstones are looked at before
\* every auth, so that a race cannot slip through: what is revoked never
\* authenticates.
NoRaceSlipsThrough == \A p \in tomb : ~Authenticates(p[1], p[2])

\* As the docstring of token_rm says, the digest still sitting in
\* HUB_OPDS_TOKENS cannot re-register a revoked device at the next startup.
RevokedStaysRevoked == \A n \in revoked : live[n] = Nil
=============================================================================
