------------------------------ MODULE Lifecycle ------------------------------
(***************************************************************************)
(* What the daemon promises its callers, without goroutines, sync.Once or       *)
(* WaitGroup: there is one loop, it does one round at a time, it ends between   *)
(* rounds and only after it was told to, it is not started again, and whoever   *)
(* asked for the stop goes on only after it has ended.  CovenantServer is        *)
(* shown to implement this specification.                                      *)
(***************************************************************************)
CONSTANT Callers

VARIABLES
    phase,          \* the loop: "new", "running" or "ended"
    working,        \* is a round under way?
    closing,        \* was the loop told to end?
    returned        \* the callers whose Stop has returned

lifeVars == <<phase, working, closing, returned>>

Init ==
    /\ phase = "new"
    /\ working = FALSE
    /\ closing = FALSE
    /\ returned = {}

Begin ==
    /\ phase = "new"
    /\ phase' = "running"
    /\ UNCHANGED <<working, closing, returned>>

BeginRound ==
    /\ phase = "running" /\ ~working
    /\ working' = TRUE
    /\ UNCHANGED <<phase, closing, returned>>

EndRound ==
    /\ working
    /\ working' = FALSE
    /\ UNCHANGED <<phase, closing, returned>>

Close ==
    /\ phase # "new" /\ ~closing
    /\ closing' = TRUE
    /\ UNCHANGED <<phase, working, returned>>

End ==
    /\ phase = "running" /\ ~working /\ closing
    /\ phase' = "ended"
    /\ UNCHANGED <<working, closing, returned>>

Return(c) ==
    /\ phase = "ended"
    /\ returned' = returned \cup {c}
    /\ UNCHANGED <<phase, working, closing>>

Next ==
    \/ Begin \/ BeginRound \/ EndRound \/ Close \/ End
    \/ \E c \in Callers : Return(c)

Spec == Init /\ [][Next]_lifeVars

=============================================================================
