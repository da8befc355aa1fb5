---------------------------- MODULE CallLifecycle ----------------------------
(***************************************************************************)
(* What a call promises the script that holds it (the State constants,     *)
(* Status, Completion and the Expect functions of engine/call.go), without *)
(* saying which goroutine does what: it rings, is answered and ends, each  *)
(* at most once and in that order; 200 is the status of answered calls and *)
(* of no other; an answered call is reported exactly once when it ends,    *)
(* and only then are those who wait for the end woken.                     *)
(***************************************************************************)
EXTENDS Integers

VARIABLES
    phase,      \* 0 calling, 1 ringing, 2 connected, 3 ended
    status,     \* the status of the INVITE, 0 while unknown
    answered,   \* the call has been connected
    reported,   \* CallEnd events
    over        \* waiters of the end are woken

vars == <<phase, status, answered, reported, over>>

Init ==
    /\ phase = 0
    /\ status = 0
    /\ answered = FALSE
    /\ reported = 0
    /\ over = FALSE

Ring ==
    /\ phase = 0
    /\ phase' = 1
    /\ UNCHANGED <<status, answered, reported, over>>

Answer ==
    /\ phase < 2
    /\ phase' = 2
    /\ status' = 200
    /\ answered' = TRUE
    /\ UNCHANGED <<reported, over>>

\* A call that fails before anyone holds it is over in the same step.
End ==
    /\ phase < 3
    /\ phase' = 3
    /\ IF answered THEN status' = status ELSE status' # 200
    /\ over' => phase = 0
    /\ UNCHANGED <<answered, reported>>

Report ==
    /\ phase = 3
    /\ answered
    /\ reported = 0
    /\ ~over
    /\ reported' = 1
    /\ UNCHANGED <<phase, status, answered, over>>

Wake ==
    /\ phase = 3
    /\ ~over
    /\ answered => reported = 1
    /\ over' = TRUE
    /\ UNCHANGED <<phase, status, answered, reported>>

Next == Ring \/ Answer \/ End \/ Report \/ Wake

Spec == Init /\ [][Next]_vars
=============================================================================
