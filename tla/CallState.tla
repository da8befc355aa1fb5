------------------------------ MODULE CallState ------------------------------
(***************************************************************************)
(* The part of engine.Call that its mutex protects, and the functions that *)
(* change it (engine/call.go).  Every operator is one critical section:    *)
(* it takes the call before the lock and gives the call after the unlock.  *)
(* Times are reduced to "has been set"; a channel is open, closed, or      *)
(* "panic" once it has been closed twice, which is what Go does then.      *)
(***************************************************************************)
EXTENDS Integers

\* The order matters: the code compares states with >= and <.
StateCalling == 0
StateRinging == 1
StateConnected == 2
StateEnded == 3

EndedBy == {"", "local", "remote", "timeout", "error"}

Channel == {"open", "closed", "panic"}

Calls == [state : StateCalling..StateEnded, status : Nat, endedBy : EndedBy,
          tRing : BOOLEAN, tAnswer : BOOLEAN,
          ringing : Channel, connected : Channel, done : Channel]

\* newCall
NewCall == [state |-> StateCalling, status |-> 0, endedBy |-> "",
            tRing |-> FALSE, tAnswer |-> FALSE,
            ringing |-> "open", connected |-> "open", done |-> "open"]

\* Go's close(ch)
CloseChan(ch) == IF ch = "open" THEN "closed" ELSE "panic"
-----------------------------------------------------------------------------
\* A plausible slip of markRinging: a 180 that follows a 183 is not ignored.
MarkRingingAgain(c) ==
    IF c.state >= StateConnected THEN c
    ELSE [c EXCEPT !.state = StateRinging, !.tRing = TRUE,
                   !.ringing = CloseChan(@)]

\* markRinging
MarkRinging(c) ==
    IF c.state >= StateRinging THEN c
    ELSE [c EXCEPT !.state = StateRinging, !.tRing = TRUE,
                   !.ringing = CloseChan(@)]

\* A plausible slip of markConnected: only "already connected" is checked, so
\* an answer revives a call that has ended.
MarkConnectedEvenIfEnded(c) ==
    IF c.state = StateConnected THEN c
    ELSE [c EXCEPT !.state = StateConnected, !.status = 200, !.tAnswer = TRUE,
                   !.connected = CloseChan(@),
                   !.ringing = IF c.state < StateRinging THEN CloseChan(@) ELSE @]

\* markConnected
MarkConnected(c) ==
    IF c.state >= StateConnected THEN c
    ELSE [c EXCEPT !.state = StateConnected, !.status = 200, !.tAnswer = TRUE,
                   !.connected = CloseChan(@),
                   !.ringing = IF c.state < StateRinging THEN CloseChan(@) ELSE @]

\* The critical section of finish when the call has not ended yet
FinishLocked(c, by, status) ==
    [c EXCEPT !.state = StateEnded,
              !.endedBy = by,
              !.status = IF status # 0 /\ c.state # StateConnected THEN status ELSE @,
              !.ringing = IF c.state < StateRinging THEN CloseChan(@) ELSE @]
=============================================================================
