--------------------------------- MODULE MCShell ---------------------------------
(* Small instances of what surrounds the pages of the web client. The four     *)
(* share no state: a behaviour is of one of them, the others rest.             *)
EXTENDS WebSession, FirstLaunch, ApiRetry, Player

CONSTANT Parts
VARIABLE part

Init == part \in Parts /\ SessionInit /\ WizardInit /\ RetryInit /\ PlayerInit

Next ==
    /\ UNCHANGED part
    /\ \/ part = "session" /\ SessionNext /\ UNCHANGED <<wizard, retry, player>>
       \/ part = "wizard" /\ WizardNext /\ UNCHANGED <<session, retry, player>>
       \/ part = "retry" /\ RetryNext /\ UNCHANGED <<session, wizard, player>>
       \/ part = "player" /\ PlayerNext /\ UNCHANGED <<session, wizard, retry>>

\* A part at rest enables none of these actions.
Fairness == WizardFairness /\ RetryFairness /\ WF_player(CountDown)

Spec == Init /\ [][Next]_<<part, session, wizard, retry, player>> /\ Fairness
================================================================================
