---------------------------- MODULE IncomingCall -----------------------------
(***************************************************************************)
(* An incoming call from the arrival of its INVITE to its end: the handler *)
(* Device.onInvite, which lives as long as the server transaction, the     *)
(* decision channel through which accept, reject and hangup reach it, and  *)
(* CANCEL, BYE, the ring timeout and Destroy running against it (CallCore).*)
(* The caller and the SIP library's server transaction are external.       *)
(***************************************************************************)
EXTENDS CallCore

CONSTANT MaxDecides    \* bound: accept and reject calls of the script that return true

ASSUME IncomingConstants == MaxDecides \in Nat

VARIABLES
    decision,      \* Call.decision, a channel of capacity one: 0 = empty, or a status
    delivered,     \* the call is in the inbox: the script may have it
    decides,       \* accept and reject calls that returned true
    final,         \* the final response to the INVITE: 0 = none yet
    writeFailed,   \* a response to the INVITE could not be written
    acked,         \* the ACK for our 200 arrived
    cancelled,     \* the session's context is done: CANCEL arrived
    destroyed      \* the device's context is done

uas == <<decision, delivered, decides, final, writeFailed, acked, cancelled, destroyed>>
vars == <<core, uas>>

Finals == {200, 400, 480, 481, 486, 487, 488, 603}
TypeOK ==
    /\ CoreTypeOK
    /\ pc[Invite] \in FinishPc \cup CorePc \cup IncomingPc
    /\ decision \in {0, 200, 486, 603}
    /\ delivered \in BOOLEAN
    /\ decides \in Nat
    /\ final \in Finals \cup {0}
    /\ writeFailed \in BOOLEAN
    /\ acked \in BOOLEAN
    /\ cancelled \in BOOLEAN
    /\ destroyed \in BOOLEAN

Init ==
    /\ CoreInit
    /\ decision = 0
    /\ delivered = FALSE
    /\ decides = 0
    /\ final = 0
    /\ writeFailed = FALSE
    /\ acked = FALSE
    /\ cancelled = FALSE
    /\ destroyed = FALSE
-----------------------------------------------------------------------------
(* onInvite up to the select *)

\* ReadInvite fails: 400, and no call is made
InviteUnreadable ==
    /\ pc[Invite] = "idle"
    /\ Goto(Invite, "exit")
    /\ final' = 400
    /\ UNCHANGED <<call, byeBy, inCalls, media, timer, callEnds, wasConnected, byeRes, ret, dialog, byeLost>>
    /\ UNCHANGED <<decision, delivered, decides, writeFailed, acked, cancelled, destroyed>>

\* Replaces names no call (481), or the offer cannot be answered (488):
\* nobody else has the call, which has no stream, and finish runs to its end.
InviteRefused ==
    /\ pc[Invite] = "idle"
    /\ Goto(Invite, "exit")
    /\ final' \in {481, 488}
    /\ call' = [FinishLocked(call, "local", final') EXCEPT !.done = CloseChan(@)]
    /\ media' = "closed"
    /\ UNCHANGED <<byeBy, inCalls, timer, callEnds, wasConnected, byeRes, ret, dialog, byeLost>>
    /\ UNCHANGED <<decision, delivered, decides, writeFailed, acked, cancelled, destroyed>>

\* addCall; an INVITE that replaces a call is accepted by the handler itself
\* and does not ring
InviteArrives ==
    /\ pc[Invite] = "idle"
    /\ inCalls' = TRUE
    /\ \/ /\ Goto(Invite, "ring")
          /\ UNCHANGED decision
       \/ /\ Goto(Invite, "ringing")
          /\ decision' = 200
    /\ UNCHANGED <<call, byeBy, media, timer, callEnds, wasConnected, byeRes, ret, dialog, byeLost>>
    /\ UNCHANGED <<delivered, decides, final, writeFailed, acked, cancelled, destroyed>>

\* ring: a 180 that cannot be written ends the call
Ring ==
    /\ pc[Invite] = "ring"
    /\ \/ /\ Goto(Invite, "ringing")
          /\ UNCHANGED <<call, wasConnected, writeFailed>>
       \/ /\ Finish(Invite, "error", 0)
          /\ writeFailed' = TRUE
    /\ UNCHANGED <<byeBy, inCalls, media, timer, callEnds, byeRes, ret, dialog, byeLost>>
    /\ UNCHANGED <<decision, delivered, decides, final, acked, cancelled, destroyed>>

\* markRinging, deliver
Deliver ==
    /\ pc[Invite] = "ringing"
    /\ call' = MarkRinging(call)
    /\ delivered' = TRUE
    /\ Goto(Invite, "select")
    /\ UNCHANGED <<byeBy, inCalls, media, timer, callEnds, wasConnected, byeRes, ret, dialog, byeLost>>
    /\ UNCHANGED <<decision, decides, final, writeFailed, acked, cancelled, destroyed>>
-----------------------------------------------------------------------------
(* The cases of the select.  sess.Respond writes the final response unless *)
(* the transaction already has one (the library's 487 to a CANCEL); its    *)
(* error is only logged.                                                   *)

Respond(code) == final' = IF final = 0 THEN code ELSE final

TakeDecision ==
    /\ pc[Invite] = "select"
    /\ decision # 0
    /\ decision' = 0
    /\ \/ /\ decision = 200
          /\ Goto(Invite, "answer")
          /\ UNCHANGED <<call, wasConnected, final>>
       \/ /\ decision # 200
          /\ Respond(decision)
          /\ Finish(Invite, "local", decision)
    /\ UNCHANGED <<byeBy, inCalls, media, timer, callEnds, byeRes, ret, dialog, byeLost>>
    /\ UNCHANGED <<delivered, decides, writeFailed, acked, cancelled, destroyed>>

Cancelled ==
    /\ pc[Invite] = "select"
    /\ cancelled
    /\ Finish(Invite, "remote", 487)
    /\ UNCHANGED <<byeBy, inCalls, media, timer, callEnds, byeRes, ret, dialog, byeLost>>
    /\ UNCHANGED uas

\* A plausible slip: the ring timeout only gives up on the script.
RingTimeoutUnanswered ==
    /\ pc[Invite] = "select"
    /\ Finish(Invite, "timeout", 480)
    /\ UNCHANGED <<byeBy, inCalls, media, timer, callEnds, byeRes, ret, dialog, byeLost>>
    /\ UNCHANGED uas

\* A plausible slip: there is no ring timeout.
RingTimeoutNever == FALSE /\ UNCHANGED vars

RingTimeout ==
    /\ pc[Invite] = "select"
    /\ Respond(480)
    /\ Finish(Invite, "timeout", 480)
    /\ UNCHANGED <<byeBy, inCalls, media, timer, callEnds, byeRes, ret, dialog, byeLost>>
    /\ UNCHANGED <<decision, delivered, decides, writeFailed, acked, cancelled, destroyed>>

DeviceGone ==
    /\ pc[Invite] = "select"
    /\ destroyed
    /\ Respond(480)
    /\ Finish(Invite, "local", 480)
    /\ UNCHANGED <<byeBy, inCalls, media, timer, callEnds, byeRes, ret, dialog, byeLost>>
    /\ UNCHANGED <<decision, delivered, decides, writeFailed, acked, cancelled, destroyed>>
-----------------------------------------------------------------------------
(* answer *)

\* WriteResponse puts the 200 on the wire, or fails at once when the INVITE
\* was cancelled or the transport is gone
Answer ==
    /\ pc[Invite] = "answer"
    /\ \/ /\ final = 0
          /\ final' = 200
          /\ dialog' = "up"
          /\ Goto(Invite, "acking")
          /\ UNCHANGED <<call, wasConnected, writeFailed>>
       \/ /\ Finish(Invite, "error", 0)
          /\ writeFailed' = (writeFailed \/ final = 0)
          /\ UNCHANGED <<final, dialog>>
    /\ UNCHANGED <<byeBy, inCalls, media, timer, callEnds, byeRes, ret, byeLost>>
    /\ UNCHANGED <<decision, delivered, decides, acked, cancelled, destroyed>>

\* onAck hands the ACK to the session of a call that is still registered;
\* WriteResponse returns
AckArrives ==
    /\ pc[Invite] = "acking"
    /\ inCalls
    /\ acked' = TRUE
    /\ Goto(Invite, "mark")
    /\ UNCHANGED <<call, byeBy, inCalls, media, timer, callEnds, wasConnected, byeRes, ret, dialog, byeLost>>
    /\ UNCHANGED <<decision, delivered, decides, final, writeFailed, cancelled, destroyed>>

\* A plausible slip: the error of a late return is taken for a missing ACK.
AckTimeoutLate ==
    /\ pc[Invite] \in {"acking", "mark"}
    /\ Finish(Invite, "error", 0)
    /\ UNCHANGED <<byeBy, inCalls, media, timer, callEnds, byeRes, ret, dialog, byeLost>>
    /\ UNCHANGED uas

\* Another: the error is ignored and the call goes on without an ACK.
AckTimeoutConnects ==
    /\ pc[Invite] = "acking"
    /\ Goto(Invite, "mark")
    /\ UNCHANGED <<call, byeBy, inCalls, media, timer, callEnds, wasConnected, byeRes, ret, dialog, byeLost>>
    /\ UNCHANGED uas

\* No ACK: WriteResponse returns an error
AckTimeout ==
    /\ pc[Invite] = "acking"
    /\ Finish(Invite, "error", 0)
    /\ UNCHANGED <<byeBy, inCalls, media, timer, callEnds, byeRes, ret, dialog, byeLost>>
    /\ UNCHANGED uas

\* markConnected
Mark ==
    /\ pc[Invite] = "mark"
    /\ call' = MarkConnected(call)
    /\ Goto(Invite, "media")
    /\ UNCHANGED <<byeBy, inCalls, media, timer, callEnds, wasConnected, byeRes, ret, dialog, byeLost>>
    /\ UNCHANGED uas

\* startMedia, then startSessionLater when the INVITE agreed on a timer
StartMedia ==
    /\ pc[Invite] = "media"
    /\ media' = IF media = "closed" THEN "closed" ELSE "sending"
    /\ ArmSession \/ UNCHANGED timer
    /\ Goto(Invite, "exit")
    /\ UNCHANGED <<call, byeBy, inCalls, callEnds, wasConnected, byeRes, ret, dialog, byeLost>>
    /\ UNCHANGED uas
-----------------------------------------------------------------------------
(* decide, and Hangup of an incoming call *)

\* decide: a call that is not answered or over, and an empty channel
CanDecide == call.state < StateConnected /\ decision = 0

\* Accept and Reject by the script; a call that returns false changes nothing
Decide ==
    \E code \in {200, 486} :
        /\ delivered
        /\ decides < MaxDecides
        /\ CanDecide
        /\ decision' = code
        /\ decides' = decides + 1
        /\ UNCHANGED core
        /\ UNCHANGED <<delivered, final, writeFailed, acked, cancelled, destroyed>>

\* The script has a delivered call, Destroy every registered one.
HangupCall(h) ==
    /\ delivered \/ inCalls
    /\ HangupStart(h)
    /\ UNCHANGED uas

\* Reject(603, "Decline"), whose result Hangup ignores
HangupReject(h) ==
    /\ pc[h] = "cancel"
    /\ Goto(h, "wait")
    /\ decision' = IF CanDecide THEN 603 ELSE decision
    /\ UNCHANGED <<call, byeBy, inCalls, media, timer, callEnds, wasConnected, byeRes, ret, dialog, byeLost>>
    /\ UNCHANGED <<delivered, decides, final, writeFailed, acked, cancelled, destroyed>>
-----------------------------------------------------------------------------
(* External: the caller, and the end of the device *)

\* CANCEL: the library answers the INVITE with 487 and ends the session's context
PeerCancels ==
    /\ pc[Invite] \notin {"idle", "exit"}
    /\ final = 0
    /\ final' = 487
    /\ cancelled' = TRUE
    /\ UNCHANGED core
    /\ UNCHANGED <<decision, delivered, decides, writeFailed, acked, destroyed>>

Destroyed ==
    /\ ~destroyed
    /\ destroyed' = TRUE
    /\ UNCHANGED core
    /\ UNCHANGED <<decision, delivered, decides, final, writeFailed, acked, cancelled>>
-----------------------------------------------------------------------------
Handler ==
    \/ Ring \/ Deliver
    \/ TakeDecision \/ Cancelled \/ RingTimeout \/ DeviceGone
    \/ Answer \/ AckTimeout \/ Mark \/ StartMedia

Next ==
    \/ InviteUnreadable \/ InviteRefused \/ InviteArrives
    \/ Handler \/ AckArrives
    \/ Decide
    \/ \E h \in Hangers : HangupCall(h) \/ HangupReject(h)
    \/ (CoreProgress \/ CoreEnv(TRUE)) /\ UNCHANGED uas
    \/ PeerCancels \/ Destroyed

Spec == Init /\ [][Next]_vars

\* The handler runs and its timers fire; the caller, the network and the
\* script owe nothing.
Fairness ==
    /\ WF_vars(Handler)
    /\ \A t \in Threads : WF_vars((FinishStep(t) \/ ByeStep(t)) /\ UNCHANGED uas)
    /\ \A h \in Hangers : WF_vars(HangupReject(h)) /\ WF_vars(HangupWait(h) /\ UNCHANGED uas)
    /\ WF_vars(OnBye /\ UNCHANGED uas)

FairSpec == Spec /\ Fairness
-----------------------------------------------------------------------------
(* Properties *)

\* The handler never leaves a caller without a final response, whichever case
\* of its select wins, unless the transport refused to write one.
InviteAnswered == pc[Invite] = "exit" => final # 0 \/ writeFailed

\* A caller whose ACK arrived is never left with a dialog of its own: when the
\* call is over and every goroutine is at rest one side has sent BYE.
NoOrphanDialog ==
    Quiescent /\ call.done = "closed" /\ acked => dialog = "down" \/ byeLost

\* A call counts as answered only when the caller has our 200 and we have its
\* ACK: connected never stands for a call that was refused or cancelled.
ConnectedMeansConfirmed == call.tAnswer => acked /\ final = 200 /\ call.status = 200

\* hangup() that says true has ended the call here, and at the caller too
\* unless the BYE was lost or the caller's ACK never came.
HangupTrueMeansOver ==
    \A h \in Hangers :
        ret[h] = "true" =>
            /\ call.state = StateEnded
            /\ dialog = "up" => byeLost \/ ~acked
=============================================================================
