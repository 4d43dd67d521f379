----------------------------- MODULE HookedCall -----------------------------
(***************************************************************************)
(* What a thread of the game may notice of hooking: nothing.  Each call of *)
(* a function executes the instructions 0..N-1 of its prologue and the     *)
(* rest, number N, once each and in order, however often the function is   *)
(* patched and restored and the thread is stopped for it meanwhile.        *)
(***************************************************************************)
EXTENDS Naturals

CONSTANTS GameThreads, Targets, N

VARIABLES
    fn,     \* the function each thread is in
    next,   \* the instruction it executes next; N + 1 when it has returned
    stopped \* threads that are suspended

vars == <<fn, next, stopped>>

\* A thread outside the functions.
Idle == N + 2

Init ==
    /\ fn \in [GameThreads -> Targets]
    /\ next = [g \in GameThreads |-> Idle]
    /\ stopped = {}

Call(g, t) ==
    /\ g \notin stopped
    /\ next[g] = Idle
    /\ fn' = [fn EXCEPT ![g] = t]
    /\ next' = [next EXCEPT ![g] = 0]
    /\ UNCHANGED stopped

Step(g) ==
    /\ g \notin stopped
    /\ next[g] \in 0..N
    /\ next' = [next EXCEPT ![g] = @ + 1]
    /\ UNCHANGED <<fn, stopped>>

Return(g) ==
    /\ g \notin stopped
    /\ next[g] \in {N, N + 1}
    /\ next' = [next EXCEPT ![g] = Idle]
    /\ UNCHANGED <<fn, stopped>>

\* A thread is suspended or resumed, and finds itself where it was.
Stop(g) ==
    /\ g \notin stopped
    /\ stopped' = stopped \cup {g}
    /\ UNCHANGED <<fn, next>>

Resume(g) ==
    /\ g \in stopped
    /\ stopped' = stopped \ {g}
    /\ UNCHANGED <<fn, next>>

Next ==
    \E g \in GameThreads :
        \/ Step(g) \/ Return(g) \/ Stop(g) \/ Resume(g)
        \/ \E t \in Targets : Call(g, t)

Spec == Init /\ [][Next]_vars

=============================================================================
