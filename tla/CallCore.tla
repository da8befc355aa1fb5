------------------------------ MODULE CallCore -------------------------------
(***************************************************************************)
(* What an outgoing and an incoming call share: the goroutines that can    *)
(* end a call and the steps each of them takes.                            *)
(*                                                                         *)
(*   Invite    drives the INVITE: runOutgoing, or the onInvite handler     *)
(*   ByeReq    the handler of the peer's BYE (Device.onBye)                *)
(*   Session   the session timer's callback (refreshSession,               *)
(*             sessionExpired)                                             *)
(*   Replace   the goroutine that hangs this call up because another call  *)
(*             took it over (INVITE with Replaces)                         *)
(*   Hangers   one per Call.Hangup in progress: the script, Destroy        *)
(*                                                                         *)
(* pc[t] is where goroutine t stands between two critical sections, so     *)
(* that every interleaving of them is a behaviour.                         *)
(***************************************************************************)
EXTENDS CallState

CONSTANT Hangers    \* the Hangup calls of a behaviour

Invite == "invite"
ByeReq == "byereq"
Session == "session"
Replace == "replace"
Threads == {Invite, ByeReq, Session, Replace} \cup Hangers

ASSUME HangersAreThreads == Hangers \cap {Invite, ByeReq, Session, Replace} = {}

VARIABLES
    call,          \* the fields behind Call.mu
    byeBy,         \* Call.byeBy: who the next BYE is attributed to
    inCalls,       \* Device.calls holds the call
    media,         \* the RTP stream: "open", "sending" or "closed"
    timer,         \* the session timer: "off", "armed" or "stopped"
    callEnds,      \* CallEnd events given to the observer
    pc,            \* where each goroutine stands
    wasConnected,  \* finish's local variable, per goroutine
    byeRes,        \* the response to the BYE a goroutine has sent: 0 = none yet
    ret,           \* what each Hangup returned: "none", "true" or "false"
    dialog,        \* external: the peer's view of the dialog: "none", "up", "down"
    byeLost        \* a BYE went unanswered

core == <<call, byeBy, inCalls, media, timer, callEnds, pc, wasConnected,
          byeRes, ret, dialog, byeLost>>

\* Where a goroutine can stand: in finish, in the rest of what is modelled
\* here, or in one of the two ways to drive an INVITE
FinishPc == {"fin1", "fin2", "fin3"}
CorePc == {"idle", "recv", "fired", "refresh", "cancel", "wait", "bye", "byesent", "exit"}
OutgoingPc == {"select", "ack", "setup", "mark", "media", "fail"}
IncomingPc == {"ring", "ringing", "select", "answer", "acking", "mark", "media"}

CoreTypeOK ==
    /\ call \in Calls
    /\ byeBy \in EndedBy
    /\ inCalls \in BOOLEAN
    /\ media \in {"open", "sending", "closed"}
    /\ timer \in {"off", "armed", "stopped"}
    /\ callEnds \in Nat
    /\ pc \in [Threads -> FinishPc \cup CorePc \cup OutgoingPc \cup IncomingPc]
    /\ wasConnected \in [Threads -> BOOLEAN]
    /\ byeRes \in [Threads -> {0, 200, 481}]
    /\ ret \in [Hangers -> {"none", "true", "false"}]
    /\ dialog \in {"none", "up", "down"}
    /\ byeLost \in BOOLEAN

CoreInit ==
    /\ call = NewCall
    /\ byeBy = ""
    /\ inCalls = FALSE
    /\ media = "open"
    /\ timer = "off"
    /\ callEnds = 0
    /\ pc = [t \in Threads |-> "idle"]
    /\ wasConnected = [t \in Threads |-> FALSE]
    /\ byeRes = [t \in Threads |-> 0]
    /\ ret = [h \in Hangers |-> "none"]
    /\ dialog = "none"
    /\ byeLost = FALSE

Goto(t, l) == pc' = [pc EXCEPT ![t] = l]

Quiescent == \A t \in Threads : pc[t] \in {"idle", "exit"}
-----------------------------------------------------------------------------
(* finish: the critical section that only the first caller passes, then    *)
(* the clean-up outside the mutex, then close(done).                       *)

\* A plausible slip: "ended already" is not checked.
FinishUnguarded(t, by, status) ==
    /\ call' = FinishLocked(call, by, status)
    /\ wasConnected' = [wasConnected EXCEPT ![t] = call.state = StateConnected]
    /\ Goto(t, "fin1")

Finish(t, by, status) ==
    IF call.state = StateEnded
    THEN /\ Goto(t, "exit")
         /\ UNCHANGED <<call, wasConnected>>
    ELSE /\ call' = FinishLocked(call, by, status)
         /\ wasConnected' = [wasConnected EXCEPT ![t] = call.state = StateConnected]
         /\ Goto(t, "fin1")

\* stopSession, Device.removeCall
FinishDetach(t) ==
    /\ pc[t] = "fin1"
    /\ Goto(t, "fin2")
    /\ timer' = IF timer = "armed" THEN "stopped" ELSE timer
    /\ inCalls' = FALSE
    /\ UNCHANGED <<call, byeBy, media, callEnds, wasConnected, byeRes, ret, dialog, byeLost>>

\* closeMedia, then the CallEnd event of a call that was answered
FinishReport(t) ==
    /\ pc[t] = "fin2"
    /\ Goto(t, "fin3")
    /\ media' = "closed"
    /\ callEnds' = IF wasConnected[t] THEN callEnds + 1 ELSE callEnds
    /\ UNCHANGED <<call, byeBy, inCalls, timer, wasConnected, byeRes, ret, dialog, byeLost>>

\* close(c.done)
FinishWake(t) ==
    /\ pc[t] = "fin3"
    /\ Goto(t, "exit")
    /\ call' = [call EXCEPT !.done = CloseChan(@)]
    /\ UNCHANGED <<byeBy, inCalls, media, timer, callEnds, wasConnected, byeRes, ret, dialog, byeLost>>

FinishStep(t) == FinishDetach(t) \/ FinishReport(t) \/ FinishWake(t)
-----------------------------------------------------------------------------
(* bye: send BYE, wait for the response or for 32 s, finish in any case.   *)

ByeSend(t) ==
    /\ pc[t] = "bye"
    /\ Goto(t, "byesent")
    /\ UNCHANGED <<call, byeBy, inCalls, media, timer, callEnds, wasConnected, byeRes, ret, dialog, byeLost>>

\* external: the peer answers a BYE, with 481 when it knows no such dialog
PeerAnswersBye(t) ==
    /\ pc[t] = "byesent"
    /\ byeRes[t] = 0
    /\ byeRes' = [byeRes EXCEPT ![t] = IF dialog = "up" THEN 200 ELSE 481]
    /\ dialog' = "down"
    /\ UNCHANGED <<call, byeBy, inCalls, media, timer, callEnds, pc, wasConnected, ret, byeLost>>

\* What a Hangup that ends in bye returns: err == nil && res.IsSuccess()
HangupReturn(t, ok) ==
    ret' = IF t \in Hangers THEN [ret EXCEPT ![t] = IF ok THEN "true" ELSE "false"] ELSE ret

\* The rest of bye; the call ends whatever became of the BYE.
ByeDone(t) ==
    /\ pc[t] = "byesent"
    /\ byeRes[t] # 0
    /\ Finish(t, IF byeBy = "" THEN "local" ELSE byeBy, 0)
    /\ HangupReturn(t, byeRes[t] = 200)
    /\ UNCHANGED <<byeBy, inCalls, media, timer, callEnds, byeRes, dialog, byeLost>>

\* Plausible slips: nothing bounds the wait for the response, and a BYE that
\* got none returns without finish, as if the call could still be ended.
ByeWaitsForever(t) == FALSE /\ pc[t] = "byesent" /\ UNCHANGED core

ByeTimeoutKeepsCall(t) ==
    /\ pc[t] = "byesent"
    /\ byeRes[t] = 0
    /\ Goto(t, "exit")
    /\ HangupReturn(t, FALSE)
    /\ byeLost' = TRUE
    /\ UNCHANGED <<call, byeBy, inCalls, media, timer, callEnds, wasConnected, byeRes, dialog>>

\* No response within 32 s, a transport error, or the device's context ended
ByeTimeout(t) ==
    /\ pc[t] = "byesent"
    /\ byeRes[t] = 0
    /\ Finish(t, IF byeBy = "" THEN "local" ELSE byeBy, 0)
    /\ HangupReturn(t, FALSE)
    /\ byeLost' = TRUE
    /\ UNCHANGED <<byeBy, inCalls, media, timer, callEnds, byeRes, dialog>>

ByeStep(t) == ByeSend(t) \/ ByeDone(t) \/ ByeTimeout(t)
-----------------------------------------------------------------------------
(* Hangup: look at the state, ask the INVITE to end, wait for the outcome. *)

\* c.State() and the switch; the request itself (requestCancel or Reject) is
\* the next step, after the mutex has been released.
HangupStart(h) ==
    /\ pc[h] = "idle"
    /\ Goto(h, CASE call.state = StateEnded -> "exit"
                 [] call.state = StateConnected -> "bye"
                 [] OTHER -> "cancel")
    /\ ret' = [ret EXCEPT ![h] = IF call.state = StateEnded THEN "true" ELSE @]
    /\ UNCHANGED <<call, byeBy, inCalls, media, timer, callEnds, wasConnected, byeRes, dialog, byeLost>>

\* A plausible slip: an answer that comes instead of the end is taken for it.
HangupWaitTakesAnswer(h) ==
    /\ pc[h] = "wait"
    /\ \/ /\ call.done = "closed" \/ call.connected = "closed"
          /\ Goto(h, "exit")
          /\ ret' = [ret EXCEPT ![h] = "true"]
       \/ /\ Goto(h, "exit")
          /\ ret' = [ret EXCEPT ![h] = "false"]
    /\ UNCHANGED <<call, byeBy, inCalls, media, timer, callEnds, wasConnected, byeRes, dialog, byeLost>>

\* case <-c.done, case <-c.connected, case <-time.After(32 * time.Second)
HangupWait(h) ==
    /\ pc[h] = "wait"
    /\ \/ /\ call.done = "closed"
          /\ Goto(h, "exit")
          /\ ret' = [ret EXCEPT ![h] = "true"]
       \/ /\ call.connected = "closed"
          /\ Goto(h, "bye")
          /\ UNCHANGED ret
       \/ /\ Goto(h, "exit")
          /\ ret' = [ret EXCEPT ![h] = "false"]
    /\ UNCHANGED <<call, byeBy, inCalls, media, timer, callEnds, wasConnected, byeRes, dialog, byeLost>>
-----------------------------------------------------------------------------
(* onBye *)

\* external: the peer hangs up
PeerBye ==
    /\ dialog = "up"
    /\ pc[ByeReq] = "idle"
    /\ dialog' = "down"
    /\ Goto(ByeReq, "recv")
    /\ UNCHANGED <<call, byeBy, inCalls, media, timer, callEnds, wasConnected, byeRes, ret, byeLost>>

\* An unknown call is answered with 481, a known one with 200 and finish;
\* when the 200 cannot be written the handler leaves the call alone.
OnBye ==
    /\ pc[ByeReq] = "recv"
    /\ \/ /\ inCalls
          /\ Finish(ByeReq, "remote", 0)
       \/ /\ Goto(ByeReq, "exit")   \* findCall found nothing, or Respond failed
          /\ UNCHANGED <<call, wasConnected>>
    /\ UNCHANGED <<byeBy, inCalls, media, timer, callEnds, byeRes, ret, dialog, byeLost>>
-----------------------------------------------------------------------------
(* Session timer and Replaces *)

\* A plausible slip of sessionRefreshed: it arms the timer of an ended call.
ArmAlways == timer' = "armed"

\* sessionRefreshed
ArmSession == timer' = IF call.state = StateEnded THEN timer ELSE "armed"

\* time.AfterFunc runs its function in a goroutine of its own
SessionFires ==
    /\ timer = "armed"
    /\ pc[Session] = "idle"
    /\ timer' = "off"
    /\ Goto(Session, "fired")
    /\ UNCHANGED <<call, byeBy, inCalls, media, callEnds, wasConnected, byeRes, ret, dialog, byeLost>>

\* refreshSession and sessionExpired begin with a look at the state
SessionCheck ==
    /\ pc[Session] = "fired"
    /\ Goto(Session, IF call.state = StateConnected THEN "refresh" ELSE "idle")
    /\ UNCHANGED <<call, byeBy, inCalls, media, timer, callEnds, wasConnected, byeRes, ret, dialog, byeLost>>

\* The re-INVITE succeeds and restarts the timer, or it fails, or no refresh
\* came from the peer: byeWith.
SessionRefresh ==
    /\ pc[Session] = "refresh"
    /\ \/ /\ Goto(Session, "idle")
          /\ ArmSession
          /\ UNCHANGED byeBy
       \/ /\ byeBy' \in {"error", "timeout"}
          /\ Goto(Session, "bye")
          /\ UNCHANGED timer
    /\ UNCHANGED <<call, inCalls, media, callEnds, wasConnected, byeRes, ret, dialog, byeLost>>

\* old.byeWith(EndedByRemote, "replaced"): the call was in Device.calls when
\* the INVITE with Replaces arrived, and is hung up without another look.
Replaced ==
    /\ pc[Replace] = "recv"
    /\ byeBy' = "remote"
    /\ Goto(Replace, "bye")
    /\ UNCHANGED <<call, inCalls, media, timer, callEnds, wasConnected, byeRes, ret, dialog, byeLost>>

\* The peer names a dialog that it takes for established; replacedCall finds
\* it in Device.calls and compares the tags, which our side must know too.
ReplacesArrives(tagsKnown) ==
    /\ pc[Replace] = "idle"
    /\ inCalls
    /\ dialog = "up"
    /\ tagsKnown
    /\ Goto(Replace, "recv")
    /\ UNCHANGED <<call, byeBy, inCalls, media, timer, callEnds, wasConnected, byeRes, ret, dialog, byeLost>>
-----------------------------------------------------------------------------
\* Steps of this program's goroutines that happen once they are possible
CoreProgress ==
    \/ \E t \in Threads : FinishStep(t) \/ ByeStep(t)
    \/ \E h \in Hangers : HangupWait(h)
    \/ OnBye
    \/ SessionCheck
    \/ SessionRefresh
    \/ Replaced

\* Steps the peer, the script or a timer may take
CoreEnv(tagsKnown) ==
    \/ \E t \in Threads : PeerAnswersBye(t)
    \/ PeerBye
    \/ SessionFires
    \/ ReplacesArrives(tagsKnown)
-----------------------------------------------------------------------------
(* Properties of every call, outgoing or incoming *)

\* No channel of a call is ever closed twice, whichever goroutines race to
\* ring, answer and end it: in Go the second close panics and takes the
\* whole test process with it (markRinging, markConnected, finish).
NoDoubleClose == "panic" \notin {call.ringing, call.connected, call.done}

\* However many goroutines end a call, one of them passes finish's guard:
\* at most one is in the clean-up, the observer hears of the end at most
\* once, and the clean-up is under way exactly while the call has ended and
\* done is still open.
OneFinisher ==
    /\ callEnds <= 1
    /\ \A s, t \in Threads : pc[s] \in FinishPc /\ pc[t] \in FinishPc => s = t
    /\ (\E t \in Threads : pc[t] \in FinishPc)
         <=> (call.state = StateEnded /\ call.done = "open")

\* Once done is closed nothing of the call is left behind, and nothing comes
\* back later: it is out of Device.calls, its stream is closed, no session
\* timer is armed, and an answered call has been reported to CallEnd.
DoneMeansCleanedUp ==
    call.done = "closed" =>
        /\ call.state = StateEnded
        /\ ~inCalls
        /\ media = "closed"
        /\ timer # "armed"
        /\ call.tAnswer <=> callEnds = 1

\* Every call gets somewhere, and nobody is left behind on the way.  A call
\* that nobody answers, whose script never decides, whose CANCEL the peer does
\* not answer or whose ACK does not come is connected or ends, and an end under
\* way gets to close(done).  Every Hangup returns, from wherever it waits.  And
\* a BYE ends the call whoever sent it (Hangup, the session timer, Replaces,
\* the answer that crossed our CANCEL) and whatever became of it: answered with
\* 200 or 481, unanswered for 32 s, or racing another end.
CallSettles ==
    []<>(/\ inCalls => call.state >= StateConnected
         /\ call.state = StateEnded => call.done = "closed"
         /\ \A h \in Hangers : pc[h] \in {"idle", "exit"}
         /\ \A t \in Threads : pc[t] \notin {"bye", "byesent"}
         /\ byeLost \/ (\E t \in Threads : byeRes[t] # 0) => call.done = "closed")

\* Both directions keep the promises of CallLifecycle: a call only moves
\* forward, no late answer revives it, no late end changes the status of an
\* answered call, and waiters wake after the metrics were recorded.
Lifecycle == INSTANCE CallLifecycle WITH
    phase <- call.state,
    status <- call.status,
    answered <- call.tAnswer,
    reported <- callEnds,
    over <- call.done # "open"

KeepsLifecycle == Lifecycle!Spec
=============================================================================
