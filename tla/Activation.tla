----------------------------- MODULE Activation -----------------------------
(***************************************************************************)
(* What the activation screens of the overlay promise: the user moves      *)
(* from the check of the activation list to the welcome screen only with a *)
(* granted activation, the tools are unlocked once, a grant is never taken *)
(* back, and an overlay that was closed shows nothing more.                *)
(***************************************************************************)

EXTENDS Naturals

VARIABLES
    stage,      \* the screen the user is at
    granted,    \* the activation list holds this computer
    hidden,     \* the user closed the overlay
    unlocks     \* how often the game code was patched

vars == <<stage, granted, hidden, unlocks>>

Stages == {"checking", "request", "welcome", "tools"}

TypeOK ==
    /\ stage \in Stages
    /\ granted \in BOOLEAN
    /\ hidden \in BOOLEAN
    /\ unlocks \in {0, 1}

Init ==
    /\ stage = "checking"
    /\ granted = FALSE
    /\ hidden = FALSE
    /\ unlocks = 0

Grant ==
    /\ stage \in {"checking", "request"}
    /\ granted' = TRUE
    /\ UNCHANGED <<stage, hidden, unlocks>>

Deny ==
    /\ stage = "checking"
    /\ ~granted
    /\ stage' = "request"
    /\ UNCHANGED <<granted, hidden, unlocks>>

Admit ==
    /\ stage \in {"checking", "request"}
    /\ granted
    /\ stage' = "welcome"
    /\ UNCHANGED <<granted, hidden, unlocks>>

Close ==
    /\ stage = "welcome"
    /\ hidden' = TRUE
    /\ UNCHANGED <<stage, granted, unlocks>>

Unlock ==
    /\ stage = "welcome"
    /\ granted
    /\ ~hidden
    /\ stage' = "tools"
    /\ unlocks' = unlocks + 1
    /\ UNCHANGED <<granted, hidden>>

Next == Grant \/ Deny \/ Admit \/ Close \/ Unlock

Spec == Init /\ [][Next]_vars

=============================================================================
