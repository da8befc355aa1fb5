---------------------------- MODULE OutgoingCall -----------------------------
(***************************************************************************)
(* An outgoing call from Device.Call to its end: the INVITE client         *)
(* transaction(s) driven by uacDialog.run, what runOutgoing does with the  *)
(* outcome, and Hangup, BYE and timers running against it (CallCore).      *)
(* The peer and the network are external: the responses a peer may send,   *)
(* CANCEL and BYE delivered or lost, a transaction that dies.              *)
(***************************************************************************)
EXTENDS CallCore, Sequences

CONSTANTS
    HasPassword,   \* cfg.Password # ""
    MaxInFlight    \* bound: responses the peer has sent and run has not read

ASSUME OutgoingConstants ==
    /\ HasPassword \in BOOLEAN
    /\ MaxInFlight \in Nat \ {0}

VARIABLES
    cancelReq,     \* Call.cancelReq is closed (the script asked for CANCEL)
    u,             \* the local variables of uacDialog.run and u.invite's CSeq
    cancelGo,      \* the goroutine of uacDialog.cancel: "none", "spawned", "sent", "over"
    cancelSeq,     \* CSeq of the INVITE the CANCEL names: 0 = no CANCEL yet
    result,        \* the inviteResult: [res, cancelled]
    setups,        \* CallSetup events with Success = TRUE / FALSE
    reports,       \* Request events for INVITE
    acked,         \* ACK for the 2xx was written
    resps,         \* external: responses on their way to the transaction u.tx
    peer           \* external: the peer's server transaction for u.invite

uac == <<cancelReq, u, cancelGo, cancelSeq, result, setups, reports, acked, resps, peer>>
vars == <<core, uac>>

maxAuthAttempts == 2

Responses == {100, 180, 200, 401, 422, 486, 487}
IsProvisional(r) == r < 200
IsSuccess(r) == r >= 200 /\ r < 300

Locals == [provisional : BOOLEAN, cancelSent : BOOLEAN, cancelNil : BOOLEAN,
           noAnswer : BOOLEAN, authAttempts : 0..maxAuthAttempts,
           retried422 : BOOLEAN, seq : Nat]

TypeOK ==
    /\ CoreTypeOK
    /\ pc[Invite] \in FinishPc \cup CorePc \cup OutgoingPc
    /\ cancelReq \in BOOLEAN
    /\ u \in Locals
    /\ cancelGo \in {"none", "spawned", "sent", "over"}
    /\ cancelSeq \in Nat
    /\ result \in [res : Responses \cup {0}, cancelled : BOOLEAN]
    /\ setups \in [success : Nat, failure : Nat]
    /\ reports \in Nat
    /\ acked \in BOOLEAN
    /\ resps \in Seq(Responses)
    /\ peer \in {"trying", "proceeding", "final"}

Init ==
    /\ CoreInit
    /\ cancelReq = FALSE
    /\ u = [provisional |-> FALSE, cancelSent |-> FALSE, cancelNil |-> FALSE,
            noAnswer |-> TRUE, authAttempts |-> 0, retried422 |-> FALSE, seq |-> 0]
    /\ cancelGo = "none"
    /\ cancelSeq = 0
    /\ result = [res |-> 0, cancelled |-> FALSE]
    /\ setups = [success |-> 0, failure |-> 0]
    /\ reports = 0
    /\ acked = FALSE
    /\ resps = <<>>
    /\ peer = "trying"
-----------------------------------------------------------------------------
(* Device.Call *)

\* The INVITE is sent, the call registered and runOutgoing started.
Call ==
    /\ pc[Invite] = "idle"
    /\ Goto(Invite, "select")
    /\ inCalls' = TRUE
    /\ u' = [u EXCEPT !.seq = 1]
    /\ UNCHANGED <<call, byeBy, media, timer, callEnds, wasConnected, byeRes, ret, dialog, byeLost>>
    /\ UNCHANGED <<cancelReq, cancelGo, cancelSeq, result, setups, reports, acked, resps, peer>>

\* TransactionRequest failed: the whole of finish runs before anyone else
\* has the call.
CallSendFails ==
    /\ pc[Invite] = "idle"
    /\ Goto(Invite, "exit")
    /\ call' = [FinishLocked(call, "error", 0) EXCEPT !.done = CloseChan(@)]
    /\ media' = "closed"
    /\ reports' = reports + 1
    /\ UNCHANGED <<byeBy, inCalls, timer, callEnds, wasConnected, byeRes, ret, dialog, byeLost>>
    /\ UNCHANGED <<cancelReq, u, cancelGo, cancelSeq, result, setups, acked, resps, peer>>
-----------------------------------------------------------------------------
(* uacDialog.run: one action per case of the select, and per case of the   *)
(* switch on a response.                                                   *)

\* sendCancel: the goroutine that writes the CANCEL starts
SendCancel(v) == [v EXCEPT !.cancelSent = TRUE]

\* The closure requestCancel, on the variables v of run
RequestCancel(v) ==
    LET w == [v EXCEPT !.cancelNil = TRUE, !.noAnswer = FALSE]
    IN IF w.provisional THEN SendCancel(w) ELSE w

\* go u.cancel(), when v has just set cancelSent
SpawnCancel(v) ==
    cancelGo' = IF v.cancelSent /\ ~u.cancelSent THEN "spawned" ELSE cancelGo

\* run returns: its result is kept, its other variables are gone and nobody
\* reads the transaction's responses any more.
Return(res, cancelled, label) ==
    /\ result' = [res |-> res, cancelled |-> cancelled]
    /\ u' = [u EXCEPT !.provisional = FALSE, !.cancelNil = FALSE, !.noAnswer = FALSE,
                      !.authAttempts = 0, !.retried422 = FALSE]
    /\ resps' = <<>>
    /\ Goto(Invite, label)

Receive(r) ==
    /\ pc[Invite] = "select"
    /\ resps # <<>>
    /\ Head(resps) = r

OnProvisional ==
    \E r \in Responses :
        /\ Receive(r)
        /\ IsProvisional(r)
        /\ LET v == [u EXCEPT !.provisional = TRUE]
               w == IF v.cancelNil /\ ~v.cancelSent THEN SendCancel(v) ELSE v
           IN u' = w /\ SpawnCancel(w)
        /\ call' = IF r > 100 THEN MarkRinging(call) ELSE call
        /\ resps' = Tail(resps)
        /\ UNCHANGED <<byeBy, inCalls, media, timer, callEnds, pc, wasConnected, byeRes, ret, dialog, byeLost>>
        /\ UNCHANGED <<cancelReq, cancelSeq, result, setups, reports, acked, peer>>

OnSuccess ==
    /\ Receive(200)
    /\ Return(200, u.cancelSent, "ack")
    /\ reports' = reports + 1
    /\ UNCHANGED <<call, byeBy, inCalls, media, timer, callEnds, wasConnected, byeRes, ret, dialog, byeLost>>
    /\ UNCHANGED <<cancelReq, cancelGo, cancelSeq, setups, acked, peer>>

\* A plausible slip: the challenge is answered although CANCEL went out.
MayRetryAfterCancel(r) ==
    \/ r = 401 /\ u.authAttempts < maxAuthAttempts /\ HasPassword
    \/ r = 422 /\ ~u.retried422

\* The guards of the two retry cases (401 stands for 401 and 407)
MayRetry(r) ==
    \/ r = 401 /\ u.authAttempts < maxAuthAttempts /\ HasPassword /\ ~u.cancelSent
    \/ r = 422 /\ ~u.retried422 /\ ~u.cancelSent

\* retryWithAuth, retryWithMinSE: a fresh INVITE in a new transaction, or an
\* error (no challenge, bad Min-SE, transport) that ends the loop.
OnRetry ==
    \E r \in {401, 422} :
        /\ Receive(r)
        /\ MayRetry(r)
        /\ reports' = reports + 1
        /\ \/ /\ u' = IF r = 401
                      THEN [u EXCEPT !.seq = @ + 1, !.provisional = FALSE, !.authAttempts = @ + 1]
                      ELSE [u EXCEPT !.seq = @ + 1, !.provisional = FALSE, !.retried422 = TRUE]
              /\ resps' = <<>>
              /\ peer' = "trying"
              /\ UNCHANGED <<result, pc>>
           \/ /\ Return(r, FALSE, "fail")
              /\ UNCHANGED peer
        /\ UNCHANGED <<call, byeBy, inCalls, media, timer, callEnds, wasConnected, byeRes, ret, dialog, byeLost>>
        /\ UNCHANGED <<cancelReq, cancelGo, cancelSeq, setups, acked>>

\* default: any other final response
OnFailure ==
    \E r \in Responses :
        /\ Receive(r)
        /\ r >= 300
        /\ ~MayRetry(r)
        /\ Return(r, u.cancelSent, "fail")
        /\ reports' = IF u.cancelSent /\ r = 487 THEN reports ELSE reports + 1
        /\ UNCHANGED <<call, byeBy, inCalls, media, timer, callEnds, wasConnected, byeRes, ret, dialog, byeLost>>
        /\ UNCHANGED <<cancelReq, cancelGo, cancelSeq, setups, acked, peer>>

\* A plausible slip: a transaction that died is not reported.
TxDoneSilently ==
    /\ pc[Invite] = "select"
    /\ Return(0, u.cancelSent, "fail")
    /\ UNCHANGED <<call, byeBy, inCalls, media, timer, callEnds, wasConnected, byeRes, ret, dialog, byeLost>>
    /\ UNCHANGED <<cancelReq, cancelGo, cancelSeq, setups, reports, acked, peer>>

\* case <-u.tx.Done()
TxDone ==
    /\ pc[Invite] = "select"
    /\ Return(0, u.cancelSent, "fail")
    /\ reports' = IF u.cancelSent THEN reports ELSE reports + 1
    /\ UNCHANGED <<call, byeBy, inCalls, media, timer, callEnds, wasConnected, byeRes, ret, dialog, byeLost>>
    /\ UNCHANGED <<cancelReq, cancelGo, cancelSeq, setups, acked, peer>>

\* case <-cancel and case <-timer.C
OnCancelOrNoAnswer ==
    /\ pc[Invite] = "select"
    /\ \/ cancelReq /\ ~u.cancelNil
       \/ u.noAnswer
    /\ u' = RequestCancel(u)
    /\ SpawnCancel(RequestCancel(u))
    /\ UNCHANGED core
    /\ UNCHANGED <<cancelReq, cancelSeq, result, setups, reports, acked, resps, peer>>

\* A plausible slip: nothing bounds the wait for the 487.
CancelWaitForever == FALSE /\ UNCHANGED vars

\* case <-cancelWait: no 487 within 64*T1 of the CANCEL
CancelWait ==
    /\ pc[Invite] = "select"
    /\ u.cancelSent
    /\ Return(0, TRUE, "fail")
    /\ UNCHANGED <<call, byeBy, inCalls, media, timer, callEnds, wasConnected, byeRes, ret, dialog, byeLost>>
    /\ UNCHANGED <<cancelReq, cancelGo, cancelSeq, setups, reports, acked, peer>>

\* uacDialog.cancel: the goroutine reads u.invite when it gets to run
CancelRuns ==
    /\ cancelGo = "spawned"
    /\ cancelGo' = "sent"
    /\ cancelSeq' = u.seq
    /\ UNCHANGED core
    /\ UNCHANGED <<cancelReq, u, result, setups, reports, acked, resps, peer>>
-----------------------------------------------------------------------------
(* runOutgoing after uacDialog.run *)

Success == [setups EXCEPT !.success = @ + 1]
Failure == [setups EXCEPT !.failure = @ + 1]

\* u.ack, and the CallSetup event and finish when it cannot be written
Ack ==
    /\ pc[Invite] = "ack"
    /\ \/ /\ acked' = TRUE
          /\ Goto(Invite, "setup")
          /\ UNCHANGED <<call, wasConnected, setups>>
       \/ /\ setups' = Failure
          /\ Finish(Invite, "error", 0)
          /\ UNCHANGED acked
    /\ UNCHANGED <<byeBy, inCalls, media, timer, callEnds, byeRes, ret, dialog, byeLost>>
    /\ UNCHANGED <<cancelReq, u, cancelGo, cancelSeq, result, reports, resps, peer>>

\* setup.Success = !r.cancelled
Setup ==
    /\ pc[Invite] = "setup"
    /\ setups' = IF result.cancelled THEN Failure ELSE Success
    /\ Goto(Invite, "mark")
    /\ UNCHANGED <<call, byeBy, inCalls, media, timer, callEnds, wasConnected, byeRes, ret, dialog, byeLost>>
    /\ UNCHANGED <<cancelReq, u, cancelGo, cancelSeq, result, reports, acked, resps, peer>>

\* A plausible slip: a call answered while it was being cancelled is kept.
MarkKeepsCancelled ==
    /\ pc[Invite] = "mark"
    /\ call' = MarkConnected(call)
    /\ Goto(Invite, IF result.cancelled THEN "exit" ELSE "media")
    /\ UNCHANGED <<byeBy, inCalls, media, timer, callEnds, wasConnected, byeRes, ret, dialog, byeLost>>
    /\ UNCHANGED uac

\* Another: such a call is finished like a cancelled one, without a BYE.
MarkFinishesCancelled ==
    /\ pc[Invite] = "mark"
    /\ \/ /\ result.cancelled
          /\ Finish(Invite, "local", 487)
       \/ /\ ~result.cancelled
          /\ call' = MarkConnected(call)
          /\ Goto(Invite, "media")
          /\ UNCHANGED wasConnected
    /\ UNCHANGED <<byeBy, inCalls, media, timer, callEnds, byeRes, ret, dialog, byeLost>>
    /\ UNCHANGED uac

\* markConnected; an answer that crossed the CANCEL is hung up
Mark ==
    /\ pc[Invite] = "mark"
    /\ call' = MarkConnected(call)
    /\ Goto(Invite, IF result.cancelled THEN "bye" ELSE "media")
    /\ UNCHANGED <<byeBy, inCalls, media, timer, callEnds, wasConnected, byeRes, ret, dialog, byeLost>>
    /\ UNCHANGED uac

\* startMedia, then sessionFromAnswer: the 2xx may name a session interval
StartMedia ==
    /\ pc[Invite] = "media"
    /\ media' = IF media = "closed" THEN "closed" ELSE "sending"
    /\ ArmSession \/ UNCHANGED timer
    /\ Goto(Invite, "exit")
    /\ UNCHANGED <<call, byeBy, inCalls, callEnds, wasConnected, byeRes, ret, dialog, byeLost>>
    /\ UNCHANGED uac

\* No 2xx: the CallSetup event, then finish by cancelledBy, the response or
\* the error
Fail ==
    /\ pc[Invite] = "fail"
    /\ setups' = Failure
    /\ LET cancelledBy == IF call.endedBy = "" THEN "timeout" ELSE call.endedBy
       IN CASE result.cancelled -> Finish(Invite, cancelledBy, 487)
            [] ~result.cancelled /\ result.res # 0 -> Finish(Invite, "remote", result.res)
            [] OTHER -> Finish(Invite, "error", 0)
    /\ UNCHANGED <<byeBy, inCalls, media, timer, callEnds, byeRes, ret, dialog, byeLost>>
    /\ UNCHANGED <<cancelReq, u, cancelGo, cancelSeq, result, reports, acked, resps, peer>>
-----------------------------------------------------------------------------
(* Hangup of an outgoing call, and CallCore's steps *)

\* Call.tags: the peer's tag is known from the 2xx on
TagsKnown == pc[Invite] \notin {"idle", "select"}

\* The script has the call once Call has returned.
HangupCall(h) ==
    /\ pc[Invite] # "idle"
    /\ HangupStart(h)
    /\ UNCHANGED uac

\* requestCancel(EndedByLocal), which cancelOnce lets through once
HangupCancel(h) ==
    /\ pc[h] = "cancel"
    /\ Goto(h, "wait")
    /\ cancelReq' = TRUE
    /\ call' = IF cancelReq THEN call ELSE [call EXCEPT !.endedBy = "local"]
    /\ UNCHANGED <<byeBy, inCalls, media, timer, callEnds, wasConnected, byeRes, ret, dialog, byeLost>>
    /\ UNCHANGED <<u, cancelGo, cancelSeq, result, setups, reports, acked, resps, peer>>
-----------------------------------------------------------------------------
(* External: the peer's INVITE server transaction and the network          *)

\* A response reaches the transaction while run still listens to it.
PeerSends(r) ==
    /\ u.seq > 0
    /\ peer # "final"
    /\ \/ /\ pc[Invite] = "select"
          /\ Len(resps) < MaxInFlight
          /\ resps' = Append(resps, r)
       \/ /\ pc[Invite] # "select"
          /\ UNCHANGED resps
    /\ UNCHANGED <<cancelReq, u, cancelGo, cancelSeq, result, setups, reports, acked>>

PeerProvisional ==
    /\ \E r \in {100, 180} : PeerSends(r)
    /\ peer' = "proceeding"
    /\ UNCHANGED core

PeerAnswers ==
    /\ PeerSends(200)
    /\ peer' = "final"
    /\ dialog' = "up"
    /\ UNCHANGED <<call, byeBy, inCalls, media, timer, callEnds, pc, wasConnected, byeRes, ret, byeLost>>

PeerRefuses ==
    /\ \E r \in {401, 422, 486} : PeerSends(r)
    /\ peer' = "final"
    /\ UNCHANGED core

\* The CANCEL arrives: 487 unless the INVITE already has its final response
PeerCancelled ==
    /\ cancelGo = "sent"
    /\ cancelGo' = "over"
    /\ \/ /\ peer # "final"
          /\ Len(resps) < MaxInFlight
          /\ resps' = IF pc[Invite] = "select" THEN Append(resps, 487) ELSE resps
          /\ peer' = "final"
       \/ UNCHANGED <<resps, peer>>    \* too late, or the CANCEL was lost
    /\ UNCHANGED core
    /\ UNCHANGED <<cancelReq, u, cancelSeq, result, setups, reports, acked>>
-----------------------------------------------------------------------------
Run ==
    \/ OnProvisional \/ OnSuccess \/ OnRetry \/ OnFailure
    \/ OnCancelOrNoAnswer \/ CancelWait
    \/ Ack \/ Setup \/ Mark \/ StartMedia \/ Fail

Next ==
    \/ Call \/ CallSendFails
    \/ Run \/ TxDone \/ CancelRuns
    \/ \E h \in Hangers : HangupCall(h) \/ HangupCancel(h)
    \/ (CoreProgress \/ CoreEnv(TagsKnown)) /\ UNCHANGED uac
    \/ PeerProvisional \/ PeerAnswers \/ PeerRefuses \/ PeerCancelled

Spec == Init /\ [][Next]_vars

\* Timer B of the client transaction: no response at all
TxTimeout == ~u.provisional /\ resps = <<>> /\ TxDone

\* The program's goroutines run, its timers fire and select is fair among
\* its ready cases; the peer, the network and the script owe nothing.
Fairness ==
    /\ WF_vars(Run)
    /\ WF_vars(OnCancelOrNoAnswer)
    /\ WF_vars(CancelWait)
    /\ WF_vars(TxTimeout)
    /\ \A t \in Threads : WF_vars((FinishStep(t) \/ ByeStep(t)) /\ UNCHANGED uac)
    /\ \A h \in Hangers : WF_vars(HangupCancel(h)) /\ WF_vars(HangupWait(h) /\ UNCHANGED uac)
    /\ WF_vars(OnBye /\ UNCHANGED uac)

FairSpec == Spec /\ Fairness
-----------------------------------------------------------------------------
(* Properties *)

\* RFC 3261 9.1, the reason for run's "provisional" flag: CANCEL goes out
\* only for an INVITE the peer has answered provisionally, and the goroutine
\* that builds it later still finds that very INVITE, although a challenge
\* or a 422 may have replaced it in between.
CancelNamesPendingInvite ==
    /\ u.cancelSent => peer # "trying"
    /\ cancelSeq # 0 => cancelSeq = u.seq

\* A dialog the peer saw confirmed is never abandoned: when the call is over
\* and every goroutine is at rest, one side has sent BYE (which may have been
\* lost), the answer that crossed our CANCEL included.
NoOrphanDialog ==
    Quiescent /\ call.done = "closed" /\ acked => dialog = "down" \/ byeLost

\* Once CANCEL is out the call does not survive, whatever the peer answers.
CancelEndsCall ==
    Quiescent /\ pc[Invite] = "exit" /\ u.cancelSent => call.done = "closed"

\* When hangup() says true the call has ended on this side, and at the peer
\* too unless the BYE was lost or the peer's late answer was never accepted.
HangupTrueMeansOver ==
    \A h \in Hangers :
        ret[h] = "true" =>
            /\ call.state = StateEnded
            /\ dialog = "up" => byeLost \/ ~acked

\* sip_requests counts every INVITE once: each one that was challenged or
\* raised to Min-SE when its refusal arrived, the last one when the loop
\* ends, and not at all only when our own CANCEL ended it.
InvitesReported ==
    u.seq > 0 =>
        CASE pc[Invite] = "select" -> reports = u.seq - 1
          [] pc[Invite] # "select" /\ result.cancelled /\ result.res # 200 ->
                reports \in {u.seq - 1, u.seq}
          [] OTHER -> reports = u.seq

-----------------------------------------------------------------------------
(* What the documentation says and the code does not do                    *)

\* metrics.md: "answered - ended is the number of calls in progress", so when
\* the only call is over the difference is zero.
AnsweredMinusEnded ==
    call.done = "closed" /\ pc[Invite] = "exit" => setups.success = callEnds
=============================================================================
