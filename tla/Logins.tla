------------------------------- MODULE Logins -------------------------------
(***************************************************************************)
(* Logging in to the web: worker threads verify a password on one of two   *)
(* slots shared by all of them, give up after _VERIFY_WAIT_SECONDS of      *)
(* waiting for one, and hold a refusal back for a constant delay.  A slot  *)
(* that is freed goes to whichever thread comes first, newcomers included. *)
(***************************************************************************)
EXTENDS Integers, FiniteSets

CONSTANTS
    LoginThreads,
    Slots,       \* the value of _verify_slots
    Wait         \* _VERIFY_WAIT_SECONDS, in ticks

ASSUME SlotsAssumption == Slots \in Nat \ {0} /\ Wait \in Nat
ASSUME LoginThreadsAssumption == IsFiniteSet(LoginThreads)

VARIABLES
    free,      \* slots left in the semaphore
    phase,     \* phase[t]: where the login of t is
    right,     \* right[t]: its password is the right one
    waited,    \* waited[t]: ticks it has waited for a slot
    crowd      \* crowd[t]: how many were verifying when t gave up, else 0

loginVars == <<free, phase, right, waited, crowd>>

Hashing == {t \in LoginThreads : phase[t] = "hashing"}

LoginsTypeOK ==
    /\ free \in 0..Slots
    /\ phase \in [LoginThreads ->
                    {"idle", "waiting", "hashing", "delay", "refused", "admitted"}]
    /\ right \in [LoginThreads -> BOOLEAN]
    /\ waited \in [LoginThreads -> 0..Wait]
    /\ crowd \in [LoginThreads -> Nat]

LoginsInit ==
    /\ free = Slots
    /\ phase = [t \in LoginThreads |-> "idle"]
    /\ right = [t \in LoginThreads |-> FALSE]
    /\ waited = [t \in LoginThreads |-> 0]
    /\ crowd = [t \in LoginThreads |-> 0]

Goes(t, to) == phase' = [phase EXCEPT ![t] = to]

LoginPost(t, r) ==
    /\ phase[t] \in {"idle", "refused", "admitted"}
    /\ Goes(t, "waiting")
    /\ right' = [right EXCEPT ![t] = r]
    /\ waited' = [waited EXCEPT ![t] = 0]
    /\ crowd' = [crowd EXCEPT ![t] = 0]
    /\ UNCHANGED free

Acquire(t) ==
    /\ phase[t] = "waiting" /\ free > 0
    /\ free' = free - 1
    /\ Goes(t, "hashing")
    /\ UNCHANGED <<right, waited, crowd>>

\* Mutant: a thread waits for its slot as long as it takes.
NeverGivesUp(t) == phase[t] = "waiting" /\ free < 0 /\ UNCHANGED loginVars

\* Mutant: a thread that gave up releases the slot it did not get.
GivesUpReleasing(t) ==
    /\ phase[t] = "waiting" /\ free = 0 /\ waited[t] = Wait
    /\ free' = free + 1
    /\ crowd' = [crowd EXCEPT ![t] = Cardinality(Hashing)]
    /\ Goes(t, "delay")
    /\ UNCHANGED <<right, waited>>

GivesUp(t) ==
    /\ phase[t] = "waiting" /\ free = 0 /\ waited[t] = Wait
    /\ crowd' = [crowd EXCEPT ![t] = Cardinality(Hashing)]
    /\ Goes(t, "delay")
    /\ UNCHANGED <<free, right, waited>>

Verifies(t) ==
    /\ phase[t] = "hashing"
    /\ right[t]
    /\ free' = free + 1
    /\ Goes(t, "admitted")
    /\ UNCHANGED <<right, waited, crowd>>

\* Mutant: the slot is released after a verification that returned.
VerifyRaisesKeeping(t) ==
    /\ phase[t] = "hashing"
    /\ ~right[t]
    /\ Goes(t, "delay")
    /\ UNCHANGED <<free, right, waited, crowd>>

\* The library raises for a wrong password.  (A malformed HUB_WEB_PASSWORD_HASH
\* raises for every password, and no login is ever admitted.)
VerifyRaises(t) ==
    /\ phase[t] = "hashing"
    /\ ~right[t]
    /\ free' = free + 1
    /\ Goes(t, "delay")
    /\ UNCHANGED <<right, waited, crowd>>

\* constant_failure_delay, without a slot
DelayEnds(t) ==
    /\ phase[t] = "delay"
    /\ Goes(t, "refused")
    /\ UNCHANGED <<free, right, waited, crowd>>

\* A thread whose wait is over runs before the next tick.
WaitTick ==
    /\ \E t \in LoginThreads : phase[t] = "waiting"
    /\ \A t \in LoginThreads : phase[t] = "waiting" => waited[t] < Wait
    /\ waited' = [t \in LoginThreads |->
                    IF phase[t] = "waiting" THEN waited[t] + 1 ELSE waited[t]]
    /\ UNCHANGED <<free, phase, right, crowd>>

LoginsNext ==
    \/ WaitTick
    \/ \E t \in LoginThreads :
           \/ \E r \in BOOLEAN : LoginPost(t, r)
           \/ Acquire(t) \/ GivesUp(t) \/ Verifies(t) \/ VerifyRaises(t) \/ DelayEnds(t)

\* Threads run, time passes, and a verification ends.
LoginsFairness ==
    /\ WF_loginVars(WaitTick)
    /\ \A t \in LoginThreads :
           /\ WF_loginVars(Acquire(t) \/ GivesUp(t))
           /\ WF_loginVars(Verifies(t) \/ VerifyRaises(t))
           /\ WF_loginVars(DelayEnds(t))

LoginsSpec == LoginsInit /\ [][LoginsNext]_loginVars /\ LoginsFairness

-----------------------------------------------------------------------------
(* A right password is refused only to a thread that gave up while every   *)
(* slot was at work on another login: no slot is ever lost, whatever way   *)
(* the verifications before it ended.                                      *)
RefusedOnlyUnderLoad ==
    \A t \in LoginThreads :
        phase[t] \in {"delay", "refused"} /\ right[t] => crowd[t] = Slots

(* Every login is answered, however many others keep taking the slots.     *)
EveryLoginAnswered ==
    \A t \in LoginThreads : phase[t] = "waiting" ~> phase[t] \in {"refused", "admitted"}
=============================================================================
