-------------------------------- MODULE MCHub --------------------------------
(***************************************************************************)
(* Four parts of the running hub side by side: who runs the builder loop,  *)
(* the device tokens, the sessions, and the web application (itself five   *)
(* parts).  They share no state, so a behaviour follows one of them and    *)
(* the others stay at their initial states.                                *)
(***************************************************************************)
EXTENDS MCWebApp, MCDeviceTokens, BuildLoop, Sessions

VARIABLE part

hubVars == <<part, webVars, loopVars, tokenVars, touchVars>>

HubInit ==
    /\ part \in {"web", "loop", "tokens", "sessions"}
    /\ WebInit /\ LoopInit /\ TokensInit /\ SessionsInit
    /\ part # "web" => focus = "door"
    /\ part # "tokens" => secrets = <<>>
    /\ epoch = CHOOSE e \in Epochs : TRUE

HubNext ==
    \/ /\ part = "web" /\ WebNext
       /\ UNCHANGED <<part, loopVars, tokenVars, touchVars>>
    \/ /\ part = "loop" /\ LoopNext
       /\ UNCHANGED <<part, webVars, tokenVars, touchVars>>
    \/ /\ part = "tokens" /\ TokensNext
       /\ UNCHANGED <<part, webVars, loopVars, touchVars>>
    \/ /\ part = "sessions" /\ SessionsNext
       /\ UNCHANGED <<part, webVars, loopVars, tokenVars>>

\* LoginsFairness and LoopFairness, each of the part that is followed: in any
\* other behaviour none of its steps is possible.
HubFairness ==
    /\ WF_loginVars(focus = "logins" /\ WaitTick)
    /\ \A t \in LoginThreads :
           /\ WF_loginVars(focus = "logins" /\ (Acquire(t) \/ GivesUp(t)))
           /\ WF_loginVars(focus = "logins" /\ (Verifies(t) \/ VerifyRaises(t)))
           /\ WF_loginVars(focus = "logins" /\ DelayEnds(t))
    /\ \A h \in Hubs : WF_loopVars(part = "loop" /\ Thread(h))
    /\ \A r \in Rebuilds : WF_loopVars(part = "loop" /\ SetWake(r))

HubSpec == HubInit /\ [][HubNext]_hubVars /\ HubFairness

(* A request for a rebuild is served, whatever hub or build dies, so long  *)
(* as the hub that took the loop runs: RequestIsServed, of the behaviours  *)
(* that follow the loop.                                                   *)
LoopServes == part = "loop" => RequestIsServed

(* Every login is answered: EveryLoginAnswered, of the behaviours that     *)
(* follow the logins.                                                      *)
LoginsAnswered == focus = "logins" => EveryLoginAnswered

(* Every part keeps to its types. *)
HubTypeOK == WebTypeOK /\ LoopTypeOK /\ TokensTypeOK /\ SessionsTypeOK
=============================================================================
