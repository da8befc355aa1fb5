------------------------- MODULE OutgoingCallProofs --------------------------
(***************************************************************************)
(* Proofs about OutgoingCall, for any number of concurrent Hangup calls    *)
(* and any number of responses in flight: type correctness, the safety     *)
(* properties every call shares, the CANCEL discipline, and refinement of  *)
(* CallLifecycle.                                                          *)
(***************************************************************************)
EXTENDS OutgoingCall, CallCoreProofs

\* Before Device.Call has sent the INVITE nothing has happened.
IdleInv ==
    pc[Invite] = "idle" =>
        /\ \A t \in Threads : pc[t] = "idle"
        /\ call.state = StateCalling
        /\ ~inCalls /\ timer = "off" /\ dialog = "none"
        /\ u.seq = 0 /\ cancelGo = "none"

\* CancelNamesPendingInvite with what keeps it: provisional and every response
\* in flight belong to the present INVITE, and the goroutine that sends the
\* CANCEL exists only once cancelSent is set, which rules out another INVITE.
CancelInv ==
    /\ u.provisional => peer # "trying"
    /\ resps # <<>> => peer # "trying"
    /\ u.cancelSent => peer # "trying"
    /\ cancelGo # "none" => u.cancelSent
    /\ cancelSeq # 0 => cancelGo \in {"sent", "over"} /\ cancelSeq = u.seq

\* run never gives a 2xx to the branch that ends the call as refused.
ResultInv == pc[Invite] = "fail" => result.res # 200

SideInv == IdleInv /\ CancelInv /\ ResultInv

Inv == TypeOK /\ CoreInv /\ SideInv
-----------------------------------------------------------------------------
USE DEF StateCalling, StateRinging, StateConnected, StateEnded

(* The variables of run                                                    *)

\* Each assignment keeps them in their types and changes nothing else.
LEMMA LocalsUpdates ==
    ASSUME NEW v \in Locals
    PROVE  /\ [v EXCEPT !.provisional = TRUE] \in Locals
           /\ [v EXCEPT !.provisional = FALSE] \in Locals
           /\ [v EXCEPT !.cancelSent = TRUE] \in Locals
           /\ [v EXCEPT !.cancelNil = TRUE] \in Locals
           /\ [v EXCEPT !.cancelNil = FALSE] \in Locals
           /\ [v EXCEPT !.noAnswer = FALSE] \in Locals
           /\ [v EXCEPT !.retried422 = TRUE] \in Locals
           /\ [v EXCEPT !.retried422 = FALSE] \in Locals
           /\ \A n \in 0..maxAuthAttempts : [v EXCEPT !.authAttempts = n] \in Locals
           /\ \A n \in Nat : [v EXCEPT !.seq = n] \in Locals
<1>1. [v EXCEPT !.provisional = TRUE] \in Locals /\ [v EXCEPT !.provisional = FALSE] \in Locals
    BY DEF Locals
<1>2. [v EXCEPT !.cancelSent = TRUE] \in Locals
    BY DEF Locals
<1>3. [v EXCEPT !.cancelNil = TRUE] \in Locals /\ [v EXCEPT !.cancelNil = FALSE] \in Locals
    BY DEF Locals
<1>4. [v EXCEPT !.noAnswer = FALSE] \in Locals
    BY DEF Locals
<1>5. [v EXCEPT !.retried422 = TRUE] \in Locals /\ [v EXCEPT !.retried422 = FALSE] \in Locals
    BY DEF Locals
<1>6. \A n \in 0..maxAuthAttempts : [v EXCEPT !.authAttempts = n] \in Locals
    BY DEF Locals
<1>7. \A n \in Nat : [v EXCEPT !.seq = n] \in Locals
    BY DEF Locals
<1> QED BY <1>1, <1>2, <1>3, <1>4, <1>5, <1>6, <1>7

\* requestCancel sends CANCEL only after a provisional response.
LEMMA RequestCancelFacts ==
    ASSUME NEW v \in Locals
    PROVE  /\ RequestCancel(v) \in Locals
           /\ RequestCancel(v).provisional = v.provisional
           /\ RequestCancel(v).seq = v.seq
           /\ RequestCancel(v).cancelSent = (v.cancelSent \/ v.provisional)
<1> DEFINE w1 == [v EXCEPT !.cancelNil = TRUE]
           w == [w1 EXCEPT !.noAnswer = FALSE]
<1>1. w1 \in Locals /\ w \in Locals
    BY LocalsUpdates
<1>2. w = [v EXCEPT !.cancelNil = TRUE, !.noAnswer = FALSE]
    OBVIOUS
<1>3. /\ w.provisional = v.provisional /\ w.seq = v.seq /\ w.cancelSent = v.cancelSent
      /\ w.provisional \in BOOLEAN /\ w.cancelSent \in BOOLEAN
    BY DEF Locals
<1>4. RequestCancel(v) = IF w.provisional THEN [w EXCEPT !.cancelSent = TRUE] ELSE w
    BY <1>2 DEF RequestCancel, SendCancel
<1> HIDE DEF w1, w
<1>5. CASE w.provisional
    <2>1. RequestCancel(v) = [w EXCEPT !.cancelSent = TRUE]
        BY <1>4, <1>5
    <2>2. RequestCancel(v) \in Locals
        BY <2>1, <1>1, LocalsUpdates
    <2> QED BY <2>1, <2>2, <1>1, <1>3, <1>5 DEF Locals
<1>6. CASE ~w.provisional
    BY <1>1, <1>3, <1>4, <1>6
<1> QED BY <1>5, <1>6, <1>3

\* A provisional response, and the CANCEL that waited for one
LEMMA ProvisionalFacts ==
    ASSUME NEW v \in Locals
    PROVE  LET w == [v EXCEPT !.provisional = TRUE]
               x == IF w.cancelNil /\ ~w.cancelSent THEN SendCancel(w) ELSE w
           IN x \in Locals /\ x.seq = v.seq /\ (v.cancelSent => x.cancelSent)
<1> DEFINE w == [v EXCEPT !.provisional = TRUE]
<1>1. w \in Locals /\ w.seq = v.seq /\ w.cancelSent = v.cancelSent
    BY LocalsUpdates DEF Locals
<1> HIDE DEF w
<1>2. SendCancel(w) \in Locals /\ SendCancel(w).seq = v.seq /\ SendCancel(w).cancelSent = TRUE
    BY <1>1, LocalsUpdates DEF SendCancel, Locals
<1>3. CASE w.cancelNil /\ ~w.cancelSent
    BY <1>2, <1>3 DEF w
<1>4. CASE ~(w.cancelNil /\ ~w.cancelSent)
    BY <1>1, <1>4 DEF w
<1> QED BY <1>3, <1>4

\* run returns.
LEMMA ReturnFacts ==
    ASSUME TypeOK, NEW res, NEW cancelled, NEW label, Return(res, cancelled, label)
    PROVE  /\ u' \in Locals
           /\ u'.provisional = FALSE /\ u'.seq = u.seq /\ u'.cancelSent = u.cancelSent
           /\ result' = [res |-> res, cancelled |-> cancelled]
           /\ resps' = <<>> /\ resps' \in Seq(Responses)
           /\ Goto(Invite, label)
<1> DEFINE d1 == [u EXCEPT !.provisional = FALSE]
           d2 == [d1 EXCEPT !.cancelNil = FALSE]
           d3 == [d2 EXCEPT !.noAnswer = FALSE]
           d4 == [d3 EXCEPT !.authAttempts = 0]
           d5 == [d4 EXCEPT !.retried422 = FALSE]
<1>0. u \in Locals
    BY DEF TypeOK
<1>1. d1 \in Locals
    BY <1>0, LocalsUpdates
<1>2. d2 \in Locals
    BY <1>1, LocalsUpdates
<1>3. d3 \in Locals
    BY <1>2, LocalsUpdates
<1>4. d4 \in Locals
    <2>1. 0 \in 0..maxAuthAttempts
        BY DEF maxAuthAttempts
    <2> QED BY <1>3, <2>1, LocalsUpdates, Zenon
<1>5. d5 \in Locals
    BY <1>4, LocalsUpdates
<1>6. u' = d5
    BY DEF Return
<1>7. u'.provisional = FALSE /\ u'.seq = u.seq /\ u'.cancelSent = u.cancelSent
    BY <1>0 DEF Return, Locals
<1> HIDE DEF d5
<1> QED BY <1>5, <1>6, <1>7 DEF Return
-----------------------------------------------------------------------------
(* Steps                                                                   *)

AllPc == FinishPc \cup CorePc \cup OutgoingPc \cup IncomingPc

\* The goroutine of the INVITE moves to one of its own labels.
LEMMA InviteGoto ==
    ASSUME CoreTypeOK, NEW l \in OutgoingPc \cup {"exit", "bye"}, Goto(Invite, l)
    PROVE  /\ pc' \in [Threads -> AllPc]
           /\ pc'[Invite] = l
           /\ l \in OtherPc
           /\ l \in FinishPc \cup CorePc \cup OutgoingPc
           /\ l # "idle"
BY ThreadNames DEF CoreTypeOK, Goto, OtherPc, CorePc, OutgoingPc, AllPc

\* Or into finish.
LEMMA InviteFinish ==
    ASSUME CoreTypeOK, CoreInv, NEW by \in EndedBy, NEW status \in Nat, status # 200,
           pc[Invite] \in OutgoingPc,
           Finish(Invite, by, status), UNCHANGED <<inCalls, media, timer, callEnds>>
    PROVE  /\ CoreInv'
           /\ call' \in Calls
           /\ pc' \in [Threads -> AllPc]
           /\ wasConnected' \in [Threads -> BOOLEAN]
           /\ pc'[Invite] \in FinishPc \cup CorePc \cup OutgoingPc
           /\ pc'[Invite] \notin {"idle", "fail"}
<1>1. pc[Invite] \notin FinishPc
    BY DEF OutgoingPc, FinishPc
<1>2. /\ CoreInv'
      /\ call' \in Calls
      /\ pc' \in [Threads -> AllPc]
      /\ wasConnected' \in [Threads -> BOOLEAN]
    BY <1>1, ThreadNames, FinishKeeps DEF AllPc
<1>3. pc'[Invite] \in {"fin1", "exit"}
    BY ThreadNames DEF Finish, Goto, CoreTypeOK
<1> QED BY <1>2, <1>3 DEF FinishPc, CorePc

\* Steps that leave the variables of the INVITE alone
LEMMA SideKept ==
    ASSUME Inv, UNCHANGED <<u, resps, peer, cancelGo, cancelSeq>>,
           pc'[Invite] # "idle", pc'[Invite] = "fail" => result'.res # 200
    PROVE  SideInv'
BY DEF Inv, SideInv, IdleInv, CancelInv, ResultInv

\* Device.Call
LEMMA CallKeeps == Inv /\ (Call \/ CallSendFails) => Inv'
<1> SUFFICES ASSUME Inv, Call \/ CallSendFails PROVE Inv'
    OBVIOUS
<1> USE DEF Inv
<1>0. /\ CoreTypeOK /\ pc[Invite] = "idle" /\ call \in Calls
      /\ (\A t \in Threads : pc[t] = "idle") /\ call.state = StateCalling
      /\ ~inCalls /\ timer = "off" /\ u.seq = 0 /\ cancelGo = "none" /\ u \in Locals
      /\ peer \in {"trying", "proceeding", "final"}
    BY DEF Call, CallSendFails, SideInv, IdleInv, TypeOK, CoreTypeOK
<1>1. CASE Call
    <2> USE <1>1 DEF Call
    <2>1. /\ pc' \in [Threads -> AllPc] /\ pc'[Invite] = "select" /\ "select" \in OtherPc
          /\ "select" \in FinishPc \cup CorePc \cup OutgoingPc
        BY <1>0, InviteGoto DEF OutgoingPc
    <2>2. u' \in Locals /\ u'.seq = 1 /\ u'.provisional = u.provisional /\ u'.cancelSent = u.cancelSent
        BY <1>0 DEF Locals
    <2>3. TypeOK'
        BY <2>1, <2>2 DEF TypeOK, CoreTypeOK, AllPc
    <2>4. CoreInv'
        BY <1>0, <2>1, ThreadNames, MoveKeeps DEF FinishPc
    <2>5. SideInv'
        BY <1>0, <2>1, <2>2 DEF SideInv, IdleInv, CancelInv, ResultInv
    <2> QED BY <2>3, <2>4, <2>5
<1>2. CASE CallSendFails
    <2> USE <1>2 DEF CallSendFails
    <2> DEFINE f == FinishLocked(call, "error", 0)
    <2>1. /\ pc' \in [Threads -> AllPc] /\ pc'[Invite] = "exit"
          /\ "exit" \in FinishPc \cup CorePc \cup OutgoingPc
        BY <1>0, InviteGoto
    <2>2. /\ f \in Calls /\ f.state = StateEnded /\ f.status = call.status
          /\ f.tAnswer = call.tAnswer /\ f.ringing = CloseChan(call.ringing)
          /\ f.connected = call.connected /\ f.done = call.done
        BY <1>0, FinishLockedFacts DEF EndedBy
    <2> HIDE DEF f
    <2>3. /\ call' \in Calls /\ call'.state = f.state /\ call'.status = f.status
          /\ call'.tAnswer = f.tAnswer /\ call'.ringing = f.ringing
          /\ call'.connected = f.connected /\ call'.done = CloseChan(f.done)
        BY <2>2, CloseDoneFacts DEF f
    <2>4. TypeOK'
        BY <2>1, <2>3 DEF TypeOK, CoreTypeOK, AllPc
    <2>5. call.done = "open" /\ call.ringing = "open" /\ ~call.tAnswer /\ callEnds = 0 /\ call.status = 0
        BY <1>0 DEF CoreInv, ChannelInv, OwnerInv, CleanupInv, StatusInv
    <2>6. ChannelInv' /\ StatusInv'
        BY <2>2, <2>3, <2>5 DEF CoreInv, ChannelInv, StatusInv, CloseChan
    <2>7. \A t \in Threads : pc'[t] \notin FinishPc
        BY <1>0 DEF Goto, CoreTypeOK, FinishPc
    <2>8. call'.done = "closed" /\ call'.state = StateEnded /\ Reported'
        BY <2>2, <2>3, <2>5 DEF CloseChan, Reported
    <2>9. OwnerInv'
        BY <2>7, <2>8 DEF OwnerInv
    <2>10. CleanupInv'
        BY <1>0, <2>7, <2>8 DEF CleanupInv, FinishPc
    <2>11. SideInv'
        BY <2>1, SideKept
    <2> QED BY <2>4, <2>6, <2>9, <2>10, <2>11 DEF CoreInv
<1> QED BY <1>1, <1>2

\* The cases of the select that leave the loop
LEMMA ReturnKeeps ==
    Inv /\ (OnSuccess \/ OnFailure \/ TxDone \/ CancelWait) => Inv'
<1> SUFFICES ASSUME Inv, OnSuccess \/ OnFailure \/ TxDone \/ CancelWait PROVE Inv'
    OBVIOUS
<1> USE DEF Inv
<1>0. TypeOK /\ CoreTypeOK /\ u.cancelSent \in BOOLEAN /\ reports \in Nat
    BY DEF TypeOK, Locals
<1>1. PICK res \in Responses \cup {0}, cancelled \in BOOLEAN, label \in {"ack", "fail"} :
         Return(res, cancelled, label) /\ (label = "fail" => res # 200)
    <2>1. CASE OnSuccess
        BY <2>1, <1>0 DEF OnSuccess, Responses
    <2>2. CASE OnFailure
        <3>1. PICK r \in Responses : r >= 300 /\ Return(r, u.cancelSent, "fail")
            BY <2>2 DEF OnFailure
        <3>2. r # 200
            BY <3>1 DEF Responses
        <3> QED BY <3>1, <3>2, <1>0
    <2>3. CASE TxDone
        BY <2>3, <1>0 DEF TxDone
    <2>4. CASE CancelWait
        <3>1. Return(0, TRUE, "fail")
            BY <2>4, Zenon DEF CancelWait
        <3>2. 0 # 200
            OBVIOUS
        <3> WITNESS 0 \in Responses \cup {0}, TRUE \in BOOLEAN, "fail" \in {"ack", "fail"}
        <3> QED BY <3>1, <3>2, Zenon
    <2> QED BY <2>1, <2>2, <2>3, <2>4
<1>2. /\ pc[Invite] = "select"
      /\ reports' \in Nat
      /\ UNCHANGED <<call, byeBy, inCalls, media, timer, callEnds, wasConnected, byeRes,
                     ret, dialog, byeLost>>
      /\ UNCHANGED <<cancelReq, cancelGo, cancelSeq, setups, acked, peer>>
    <2>1. CASE OnSuccess
        BY <2>1, <1>0 DEF OnSuccess, Receive
    <2>2. CASE OnFailure
        BY <2>2, <1>0 DEF OnFailure, Receive
    <2>3. CASE TxDone
        BY <2>3, <1>0 DEF TxDone
    <2>4. CASE CancelWait
        BY <2>4, <1>0 DEF CancelWait
    <2> QED BY <2>1, <2>2, <2>3, <2>4
<1>3. /\ u' \in Locals
      /\ u'.provisional = FALSE /\ u'.seq = u.seq /\ u'.cancelSent = u.cancelSent
      /\ result' = [res |-> res, cancelled |-> cancelled]
      /\ resps' = <<>> /\ resps' \in Seq(Responses)
      /\ Goto(Invite, label)
    BY <1>0, <1>1, ReturnFacts
<1>4. label \in OutgoingPc
    BY DEF OutgoingPc
<1>5. /\ pc' \in [Threads -> AllPc] /\ pc'[Invite] = label /\ label \in OtherPc
      /\ label \in FinishPc \cup CorePc \cup OutgoingPc
    BY <1>0, <1>3, <1>4, InviteGoto
<1>6. TypeOK'
    BY <1>2, <1>3, <1>5 DEF TypeOK, CoreTypeOK, AllPc
<1>7. CoreInv'
    BY <1>0, <1>2, <1>3, <1>5, ThreadNames, MoveKeeps DEF FinishPc
<1>8. SideInv'
    BY <1>1, <1>2, <1>3, <1>5 DEF SideInv, IdleInv, CancelInv, ResultInv
<1> QED BY <1>6, <1>7, <1>8

\* A provisional response
LEMMA ProvisionalKeeps == Inv /\ OnProvisional => Inv'
<1> SUFFICES ASSUME Inv, OnProvisional PROVE Inv'
    OBVIOUS
<1> USE DEF Inv
<1>0. TypeOK /\ CoreTypeOK /\ call \in Calls /\ u \in Locals /\ resps \in Seq(Responses)
    BY DEF TypeOK, CoreTypeOK
<1> DEFINE v == [u EXCEPT !.provisional = TRUE]
           w == IF v.cancelNil /\ ~v.cancelSent THEN SendCancel(v) ELSE v
<1>1. PICK r \in Responses :
         /\ Receive(r)
         /\ u' = w /\ SpawnCancel(w)
         /\ call' = IF r > 100 THEN MarkRinging(call) ELSE call
         /\ resps' = Tail(resps)
         /\ UNCHANGED <<byeBy, inCalls, media, timer, callEnds, pc, wasConnected, byeRes,
                        ret, dialog, byeLost>>
         /\ UNCHANGED <<cancelReq, cancelSeq, result, setups, reports, acked, peer>>
    BY DEF OnProvisional
<1>2. u' \in Locals /\ u'.seq = u.seq /\ (u.cancelSent => u'.cancelSent)
    BY <1>0, <1>1, ProvisionalFacts
<1> HIDE DEF v, w
<1>3. resps # <<>> /\ resps' \in Seq(Responses) /\ pc[Invite] = "select" /\ pc' = pc
    BY <1>0, <1>1 DEF Receive
<1>4. /\ cancelGo' = cancelGo \/ cancelGo' = "spawned"
      /\ cancelGo' # cancelGo => ~u.cancelSent /\ u'.cancelSent
    BY <1>1 DEF SpawnCancel
<1>5. call' \in Calls /\ ChannelInv' /\ StatusInv'
      /\ (call'.state = StateEnded <=> call.state = StateEnded)
      /\ call'.done = call.done
      /\ (call.state = StateEnded => call'.tAnswer = call.tAnswer)
    <2>1. CASE call' = call
        BY <2>1, <1>0 DEF CoreInv, ChannelInv, StatusInv
    <2>2. CASE call.state = StateCalling /\ call' = MarkRinging(call)
        <3>1. /\ call' \in Calls /\ call'.state = StateRinging /\ call'.status = call.status
              /\ call'.tAnswer = call.tAnswer /\ call'.ringing = CloseChan(call.ringing)
              /\ call'.connected = call.connected /\ call'.done = call.done
            BY <2>2, <1>0, MarkRingingFacts
        <3> QED BY <3>1, <2>2 DEF CoreInv, ChannelInv, StatusInv, CloseChan
    <2>3. call' = call \/ (call.state = StateCalling /\ call' = MarkRinging(call))
        BY <1>0, <1>1, MarkRingingFacts
    <2> QED BY <2>1, <2>2, <2>3
<1>6. TypeOK'
    BY <1>1, <1>2, <1>3, <1>4, <1>5 DEF TypeOK, CoreTypeOK
<1>7. CoreInv'
    BY <1>0, <1>1, <1>5, StepKeeps
<1>8. SideInv'
    BY <1>1, <1>2, <1>3, <1>4 DEF SideInv, IdleInv, CancelInv, ResultInv
<1> QED BY <1>6, <1>7, <1>8

\* A challenge or a 422: another INVITE, which only a run without CANCEL sends,
\* or the end of the loop.
LEMMA RetryKeeps == Inv /\ OnRetry => Inv'
<1> SUFFICES ASSUME Inv, OnRetry PROVE Inv'
    OBVIOUS
<1> USE DEF Inv
<1>0. TypeOK /\ CoreTypeOK /\ u \in Locals /\ reports \in Nat
    BY DEF TypeOK
<1>1. PICK r \in {401, 422} :
        /\ Receive(r)
        /\ MayRetry(r)
        /\ reports' = reports + 1
        /\ \/ /\ u' = IF r = 401
                      THEN [u EXCEPT !.seq = @ + 1, !.provisional = FALSE, !.authAttempts = @ + 1]
                      ELSE [u EXCEPT !.seq = @ + 1, !.provisional = FALSE, !.retried422 = TRUE]
              /\ resps' = <<>>
              /\ peer' = "trying"
              /\ UNCHANGED <<result, pc>>
           \/ /\ Return(r, FALSE, "fail")
              /\ UNCHANGED peer
        /\ UNCHANGED <<call, byeBy, inCalls, media, timer, callEnds, wasConnected, byeRes,
                       ret, dialog, byeLost>>
        /\ UNCHANGED <<cancelReq, cancelGo, cancelSeq, setups, acked>>
    BY DEF OnRetry
<1>2. pc[Invite] = "select" /\ reports' \in Nat
    BY <1>0, <1>1 DEF Receive
<1>3. ~u.cancelSent
    BY <1>1 DEF MayRetry
<1>4. CASE /\ u' = IF r = 401
                   THEN [u EXCEPT !.seq = @ + 1, !.provisional = FALSE, !.authAttempts = @ + 1]
                   ELSE [u EXCEPT !.seq = @ + 1, !.provisional = FALSE, !.retried422 = TRUE]
           /\ resps' = <<>>
           /\ peer' = "trying"
           /\ UNCHANGED <<result, pc>>
    <2> DEFINE d1 == [u EXCEPT !.seq = u.seq + 1]
               d2 == [d1 EXCEPT !.provisional = FALSE]
               d3 == [d2 EXCEPT !.authAttempts = u.authAttempts + 1]
               d4 == [d2 EXCEPT !.retried422 = TRUE]
    <2>1. d1 \in Locals
        <3>1. u.seq + 1 \in Nat
            BY <1>0 DEF Locals
        <3> QED BY <1>0, <3>1, LocalsUpdates, Zenon
    <2>2. d2 \in Locals
        BY <2>1, LocalsUpdates
    <2>3. r = 401 => u.authAttempts + 1 \in 0..maxAuthAttempts
        BY <1>0, <1>1 DEF Locals, MayRetry, maxAuthAttempts
    <2>4. (r = 401 => d3 \in Locals) /\ d4 \in Locals
        <3> HIDE DEF d2
        <3> QED BY <2>2, <2>3, LocalsUpdates, Zenon
    <2>5. u' = IF r = 401 THEN d3 ELSE d4
        BY <1>4
    <2>6. d3.provisional = FALSE /\ d4.provisional = FALSE
          /\ d3.cancelSent = u.cancelSent /\ d4.cancelSent = u.cancelSent
        BY <1>0 DEF Locals
    <2>7. u' \in Locals
        <3> HIDE DEF d3, d4
        <3> QED BY <2>4, <2>5
    <2>8. u'.provisional = FALSE /\ u'.cancelSent = u.cancelSent
        <3> HIDE DEF d3, d4
        <3> QED BY <2>5, <2>6
    <2> HIDE DEF d1, d2, d3, d4
    <2>9. TypeOK'
        BY <1>1, <1>2, <1>4, <2>7 DEF TypeOK, CoreTypeOK
    <2>10. CoreInv'
        BY <1>0, <1>1, <1>4, MoveKeeps
    <2>11. SideInv'
        BY <1>1, <1>2, <1>3, <1>4, <2>8 DEF SideInv, IdleInv, CancelInv, ResultInv
    <2> QED BY <2>9, <2>10, <2>11
<1>5. CASE Return(r, FALSE, "fail") /\ UNCHANGED peer
    <2>0. r \in Responses \cup {0} /\ r # 200
        BY DEF Responses
    <2>1. /\ u' \in Locals
          /\ u'.provisional = FALSE /\ u'.seq = u.seq /\ u'.cancelSent = u.cancelSent
          /\ result' = [res |-> r, cancelled |-> FALSE]
          /\ resps' = <<>> /\ resps' \in Seq(Responses)
          /\ Goto(Invite, "fail")
        <3>1. Return(r, FALSE, "fail")
            BY <1>5, Zenon
        <3> QED BY <1>0, <3>1, ReturnFacts, Zenon
    <2>2. /\ pc' \in [Threads -> AllPc] /\ pc'[Invite] = "fail" /\ "fail" \in OtherPc
          /\ "fail" \in FinishPc \cup CorePc \cup OutgoingPc
        BY <1>0, <2>1, InviteGoto DEF OutgoingPc
    <2>3. TypeOK'
        <3>1. result' \in [res : Responses \cup {0}, cancelled : BOOLEAN]
            BY <2>0, <2>1
        <3> QED BY <1>1, <1>2, <1>5, <2>1, <2>2, <3>1 DEF TypeOK, CoreTypeOK, AllPc
    <2>4. CoreInv'
        BY <1>0, <1>1, <1>2, <2>1, <2>2, ThreadNames, MoveKeeps DEF FinishPc
    <2>5. SideInv'
        BY <1>1, <1>2, <1>3, <1>5, <2>0, <2>1, <2>2 DEF SideInv, IdleInv, CancelInv, ResultInv
    <2> QED BY <2>3, <2>4, <2>5
<1> QED BY <1>1, <1>4, <1>5, Zenon

\* hangup() or the no-answer timer asks for CANCEL; its goroutine runs.
LEMMA CancelKeeps == Inv /\ (OnCancelOrNoAnswer \/ CancelRuns) => Inv'
<1> SUFFICES ASSUME Inv, OnCancelOrNoAnswer \/ CancelRuns PROVE Inv'
    OBVIOUS
<1> USE DEF Inv
<1>0. TypeOK /\ CoreTypeOK /\ u \in Locals /\ u.seq \in Nat
    BY DEF TypeOK, Locals
<1>1. UNCHANGED core /\ UNCHANGED <<cancelReq, result, setups, reports, acked, resps, peer>>
    BY DEF OnCancelOrNoAnswer, CancelRuns
<1>2. CoreTypeOK' /\ CoreInv' /\ UNCHANGED pc
    <2>1. UNCHANGED <<call, byeBy, inCalls, media, timer, callEnds, pc, wasConnected, byeRes,
                      ret, dialog, byeLost>>
        BY <1>1 DEF core
    <2>2. CoreInv'
        BY <1>0, <2>1, MoveKeeps
    <2> QED BY <1>0, <2>1, <2>2 DEF CoreTypeOK
<1>3. CASE OnCancelOrNoAnswer
    <2>1. /\ u' \in Locals /\ u'.provisional = u.provisional /\ u'.seq = u.seq
          /\ u'.cancelSent = (u.cancelSent \/ u.provisional)
        BY <1>0, <1>3, RequestCancelFacts DEF OnCancelOrNoAnswer
    <2>2. /\ cancelGo' = cancelGo \/ cancelGo' = "spawned"
          /\ cancelGo' # cancelGo => ~u.cancelSent /\ u'.cancelSent
          /\ cancelSeq' = cancelSeq /\ pc[Invite] = "select"
        BY <1>3 DEF OnCancelOrNoAnswer, SpawnCancel
    <2>3. TypeOK'
        BY <1>1, <1>2, <2>1, <2>2 DEF TypeOK
    <2>4. SideInv'
        BY <1>1, <1>2, <2>1, <2>2 DEF SideInv, IdleInv, CancelInv, ResultInv
    <2> QED BY <1>2, <2>3, <2>4
<1>4. CASE CancelRuns
    <2>1. cancelGo = "spawned" /\ cancelGo' = "sent" /\ cancelSeq' = u.seq /\ u' = u
        BY <1>4 DEF CancelRuns
    <2>2. TypeOK'
        BY <1>0, <1>1, <1>2, <2>1 DEF TypeOK
    <2>3. SideInv'
        BY <1>1, <1>2, <2>1 DEF SideInv, IdleInv, CancelInv, ResultInv
    <2> QED BY <1>2, <2>2, <2>3
<1> QED BY <1>3, <1>4

\* What runOutgoing does with a 2xx, short of finish: ack, CallSetup, media
LEMMA AnswerKeeps == Inv /\ (Ack \/ Setup \/ StartMedia) => Inv'
<1> SUFFICES ASSUME Inv, Ack \/ Setup \/ StartMedia PROVE Inv'
    OBVIOUS
<1> USE DEF Inv
<1>0. TypeOK /\ CoreTypeOK /\ call \in Calls /\ setups \in [success : Nat, failure : Nat]
    BY DEF TypeOK, CoreTypeOK
<1>1. Success \in [success : Nat, failure : Nat] /\ Failure \in [success : Nat, failure : Nat]
    BY <1>0 DEF Success, Failure
<1>2. CASE Ack /\ Finish(Invite, "error", 0)
    <2>1. /\ pc[Invite] \in OutgoingPc /\ "error" \in EndedBy
          /\ UNCHANGED <<byeBy, inCalls, media, timer, callEnds, byeRes, ret, dialog, byeLost>>
          /\ UNCHANGED <<cancelReq, u, cancelGo, cancelSeq, result, reports, resps, peer>>
          /\ setups' \in [success : Nat, failure : Nat] /\ acked' \in BOOLEAN
        BY <1>0, <1>1, <1>2 DEF Ack, OutgoingPc, EndedBy, TypeOK
    <2>2. /\ CoreInv'
          /\ call' \in Calls
          /\ pc' \in [Threads -> AllPc]
          /\ wasConnected' \in [Threads -> BOOLEAN]
          /\ pc'[Invite] \in FinishPc \cup CorePc \cup OutgoingPc
          /\ pc'[Invite] \notin {"idle", "fail"}
        BY <1>0, <1>2, <2>1, InviteFinish
    <2>3. TypeOK'
        BY <2>1, <2>2 DEF TypeOK, CoreTypeOK, AllPc
    <2>4. SideInv'
        BY <2>1, <2>2, SideKept
    <2> QED BY <2>2, <2>3, <2>4
<1>3. CASE ~(Ack /\ Finish(Invite, "error", 0))
    <2>1. /\ pc[Invite] \in {"ack", "setup", "media"}
          /\ UNCHANGED <<call, byeBy, inCalls, callEnds, wasConnected, byeRes, ret, dialog, byeLost>>
          /\ UNCHANGED <<cancelReq, u, cancelGo, cancelSeq, result, reports, resps, peer>>
          /\ setups' \in [success : Nat, failure : Nat] /\ acked' \in BOOLEAN
        BY <1>0, <1>1, <1>3 DEF Ack, Setup, StartMedia, TypeOK, uac
    <2>2. PICK l \in {"setup", "mark", "exit"} : Goto(Invite, l)
        BY <1>3 DEF Ack, Setup, StartMedia
    <2>3. /\ media' \in {"open", "sending", "closed"} /\ (media = "closed" => media' = "closed")
          /\ timer' \in {"off", "armed", "stopped"}
          /\ timer' = "armed" => timer = "armed" \/ call.state # StateEnded
        BY <1>0, <1>3 DEF Ack, Setup, StartMedia, ArmSession, CoreTypeOK
    <2>4. /\ pc' \in [Threads -> AllPc] /\ pc'[Invite] = l /\ l \in OtherPc
          /\ l \in FinishPc \cup CorePc \cup OutgoingPc /\ l # "idle"
        BY <1>0, <2>2, InviteGoto DEF OutgoingPc
    <2>5. TypeOK'
        BY <2>1, <2>3, <2>4 DEF TypeOK, CoreTypeOK, AllPc
    <2>6. CoreInv'
        BY <1>0, <2>1, <2>2, <2>3, <2>4, ThreadNames, MoveKeeps DEF FinishPc
    <2>7. SideInv'
        BY <2>1, <2>4, SideKept
    <2> QED BY <2>5, <2>6, <2>7
<1> QED BY <1>2, <1>3

\* markConnected: the call is answered, unless it has ended meanwhile.
LEMMA MarkKeeps == Inv /\ Mark => Inv'
<1> SUFFICES ASSUME Inv, Mark PROVE Inv'
    OBVIOUS
<1> USE DEF Inv
<1>0. TypeOK /\ CoreTypeOK /\ call \in Calls /\ call.state \in 0..3
    BY DEF TypeOK, CoreTypeOK, Calls
<1>1. /\ pc[Invite] = "mark" /\ call' = MarkConnected(call)
      /\ UNCHANGED <<byeBy, inCalls, media, timer, callEnds, wasConnected, byeRes, ret, dialog, byeLost>>
      /\ UNCHANGED <<cancelReq, u, cancelGo, cancelSeq, result, setups, reports, acked, resps, peer>>
    BY DEF Mark, uac
<1>2. PICK l \in {"bye", "media"} : Goto(Invite, l)
    BY DEF Mark
<1>3. /\ pc' \in [Threads -> AllPc] /\ pc'[Invite] = l /\ l \in OtherPc
      /\ l \in FinishPc \cup CorePc \cup OutgoingPc /\ l # "idle"
    BY <1>0, <1>2, InviteGoto DEF OutgoingPc
<1>4. call' \in Calls /\ ChannelInv' /\ StatusInv'
      /\ (call'.state = StateEnded <=> call.state = StateEnded)
      /\ call'.done = call.done
      /\ (call.state = StateEnded => call'.tAnswer = call.tAnswer)
    <2>1. CASE call.state >= StateConnected
        <3>1. call' = call
            BY <2>1, <1>0, <1>1, MarkConnectedFacts
        <3> QED BY <3>1, <1>0 DEF CoreInv, ChannelInv, StatusInv
    <2>2. CASE call.state < StateConnected
        <3>1. /\ call' \in Calls /\ call'.state = StateConnected /\ call'.status = 200
              /\ call'.tAnswer = TRUE
              /\ call'.ringing = IF call.state = StateCalling THEN CloseChan(call.ringing) ELSE call.ringing
              /\ call'.connected = CloseChan(call.connected) /\ call'.done = call.done
            BY <2>2, <1>0, <1>1, MarkConnectedFacts
        <3>2. call.connected = "open" /\ call.state # StateEnded
            BY <2>2, <1>0 DEF CoreInv, ChannelInv
        <3> QED BY <3>1, <3>2, <1>0 DEF CoreInv, ChannelInv, StatusInv, CloseChan
    <2> QED BY <2>1, <2>2, <1>0
<1>5. TypeOK'
    BY <1>1, <1>3, <1>4 DEF TypeOK, CoreTypeOK, AllPc
<1>6. CoreInv'
    BY <1>0, <1>1, <1>2, <1>3, <1>4, ThreadNames, StepKeeps DEF FinishPc
<1>7. SideInv'
    BY <1>1, <1>3, SideKept
<1> QED BY <1>5, <1>6, <1>7

\* Without a 2xx the call is finished, never with status 200.
LEMMA FailFinishes ==
    ASSUME Inv, Fail
    PROVE  \E by \in EndedBy, status \in Nat : status # 200 /\ Finish(Invite, by, status)
<1>1. {"timeout", "remote", "error"} \subseteq EndedBy
    BY DEF EndedBy
<1>2. /\ call.endedBy \in EndedBy /\ result.res \in Nat /\ result.cancelled \in BOOLEAN
      /\ result.res # 200
    <2>1. call.endedBy \in EndedBy
        BY DEF Inv, TypeOK, CoreTypeOK, Calls
    <2>2. result.res \in Nat /\ result.cancelled \in BOOLEAN
        BY DEF Inv, TypeOK, Responses
    <2>3. result.res # 200
        BY DEF Inv, Fail, SideInv, ResultInv
    <2> QED BY <2>1, <2>2, <2>3
<1>3. CASE result.cancelled
    <2>1. PICK by \in EndedBy : Finish(Invite, by, 487)
        BY <1>1, <1>2, <1>3 DEF Fail
    <2> QED BY <2>1
<1>4. CASE ~result.cancelled /\ result.res # 0
    BY <1>1, <1>2, <1>4 DEF Fail
<1>5. CASE ~result.cancelled /\ result.res = 0
    BY <1>1, <1>2, <1>5 DEF Fail
<1> QED BY <1>2, <1>3, <1>4, <1>5

\* The branch of runOutgoing without a 2xx
LEMMA FailKeeps == Inv /\ Fail => Inv'
<1> SUFFICES ASSUME Inv, Fail PROVE Inv'
    OBVIOUS
<1> USE DEF Inv
<1>0. /\ TypeOK /\ CoreTypeOK /\ setups \in [success : Nat, failure : Nat]
    BY DEF TypeOK
<1>1. /\ pc[Invite] \in OutgoingPc
      /\ UNCHANGED <<byeBy, inCalls, media, timer, callEnds, byeRes, ret, dialog, byeLost>>
      /\ UNCHANGED <<cancelReq, u, cancelGo, cancelSeq, result, reports, acked, resps, peer>>
    BY DEF Fail, OutgoingPc
<1>2. setups' \in [success : Nat, failure : Nat]
    <2>1. setups' = Failure
        BY Zenon DEF Fail
    <2> QED BY <1>0, <2>1 DEF Failure
<1>3. PICK by \in EndedBy, status \in Nat : status # 200 /\ Finish(Invite, by, status)
    BY FailFinishes
<1>4. /\ CoreInv'
      /\ call' \in Calls
      /\ pc' \in [Threads -> AllPc]
      /\ wasConnected' \in [Threads -> BOOLEAN]
      /\ pc'[Invite] \in FinishPc \cup CorePc \cup OutgoingPc
      /\ pc'[Invite] \notin {"idle", "fail"}
    BY <1>0, <1>1, <1>3, InviteFinish
<1>5. TypeOK'
    BY <1>1, <1>2, <1>4 DEF TypeOK, CoreTypeOK, AllPc
<1>6. SideInv'
    BY <1>1, <1>4, SideKept
<1> QED BY <1>4, <1>5, <1>6

\* Hangup up to the request for CANCEL
LEMMA HangupKeeps ==
    ASSUME Inv, NEW h \in Hangers, HangupCall(h) \/ HangupCancel(h)
    PROVE  Inv'
<1> USE DEF Inv
<1>0. /\ TypeOK /\ CoreTypeOK /\ call \in Calls
      /\ h \in Threads /\ Invite \in Threads /\ h # Invite
    BY ThreadNames, HangersAreThreads DEF TypeOK, CoreTypeOK
<1>1. CASE HangupCall(h)
    <2>1. HangupStart(h) /\ UNCHANGED uac /\ pc[Invite] # "idle"
        BY <1>1 DEF HangupCall
    <2>2. CoreTypeOK' /\ CoreInv'
        BY <1>0, <2>1, OthersKeep
    <2>3. pc'[Invite] = pc[Invite]
        BY <1>0, <2>1 DEF HangupStart, Goto, CoreTypeOK
    <2>4. UNCHANGED <<cancelReq, u, cancelGo, cancelSeq, result, setups, reports, acked, resps, peer>>
        BY <2>1 DEF uac
    <2>5. TypeOK'
        BY <1>0, <2>2, <2>3, <2>4 DEF TypeOK
    <2>6. SideInv'
        BY <2>1, <2>3, <2>4, SideKept DEF SideInv, ResultInv
    <2> QED BY <2>2, <2>5, <2>6
<1>2. CASE HangupCancel(h)
    <2>1. /\ pc[h] = "cancel" /\ Goto(h, "wait") /\ cancelReq' = TRUE
          /\ UNCHANGED <<byeBy, inCalls, media, timer, callEnds, wasConnected, byeRes, ret, dialog, byeLost>>
          /\ UNCHANGED <<u, cancelGo, cancelSeq, result, setups, reports, acked, resps, peer>>
        BY <1>2 DEF HangupCancel
    <2>2. call' = call \/ call' = [call EXCEPT !.endedBy = "local"]
        BY <1>2 DEF HangupCancel
    <2>3. /\ call' \in Calls /\ call'.state = call.state /\ call'.status = call.status
          /\ call'.tAnswer = call.tAnswer /\ call'.ringing = call.ringing
          /\ call'.connected = call.connected /\ call'.done = call.done
        BY <1>0, <2>2 DEF Calls, EndedBy
    <2>4. ChannelInv' /\ StatusInv'
        BY <2>3 DEF CoreInv, ChannelInv, StatusInv
    <2>5. "wait" \in OtherPc /\ pc[h] \notin FinishPc
        BY <2>1 DEF OtherPc, CorePc, FinishPc
    <2>6. CoreInv'
        BY <1>0, <2>1, <2>3, <2>4, <2>5, StepKeeps
    <2>7. pc' \in [Threads -> AllPc] /\ pc'[Invite] = pc[Invite]
        BY <1>0, <2>1 DEF Goto, CoreTypeOK, CorePc, AllPc
    <2>8. TypeOK'
        BY <2>1, <2>3, <2>7 DEF TypeOK, CoreTypeOK, AllPc
    <2>9. pc[Invite] # "idle"
        BY <1>0, <2>1 DEF SideInv, IdleInv
    <2>10. SideInv'
        BY <2>1, <2>7, <2>9, SideKept DEF SideInv, ResultInv
    <2> QED BY <2>6, <2>8, <2>10
<1> QED BY <1>1, <1>2

\* The peer and the network
LEMMA PeerKeeps ==
    Inv /\ (PeerProvisional \/ PeerAnswers \/ PeerRefuses \/ PeerCancelled) => Inv'
<1> SUFFICES ASSUME Inv, PeerProvisional \/ PeerAnswers \/ PeerRefuses \/ PeerCancelled
             PROVE  Inv'
    OBVIOUS
<1> USE DEF Inv
<1>0. TypeOK /\ CoreTypeOK /\ resps \in Seq(Responses)
    BY DEF TypeOK
<1>1. /\ UNCHANGED <<call, byeBy, inCalls, media, timer, callEnds, pc, wasConnected, byeRes, ret, byeLost>>
      /\ UNCHANGED <<cancelReq, u, cancelSeq, result, setups, reports, acked>>
      /\ dialog' \in {"none", "up", "down"}
    BY <1>0 DEF PeerProvisional, PeerAnswers, PeerRefuses, PeerCancelled, PeerSends, core, CoreTypeOK
<1>2. /\ resps' \in Seq(Responses)
      /\ peer' \in {"trying", "proceeding", "final"}
      /\ resps' # resps \/ peer' # peer => peer' # "trying"
    <2>1. ASSUME NEW r \in Responses, PeerSends(r) PROVE resps' \in Seq(Responses)
        BY <1>0, <2>1 DEF PeerSends
    <2>2. CASE PeerProvisional \/ PeerAnswers \/ PeerRefuses
        BY <2>1, <2>2 DEF PeerProvisional, PeerAnswers, PeerRefuses, Responses
    <2>3. CASE PeerCancelled
        <3>1. 487 \in Responses
            BY DEF Responses
        <3>2. resps' = resps \/ resps' = Append(resps, 487)
            BY <2>3 DEF PeerCancelled
        <3>3. /\ resps' \in Seq(Responses)
            BY <1>0, <3>1, <3>2
        <3>4. UNCHANGED <<resps, peer>> \/ peer' = "final"
            BY <2>3 DEF PeerCancelled
        <3> QED BY <3>3, <3>4 DEF TypeOK
    <2> QED BY <2>2, <2>3
<1>3. /\ cancelGo' = cancelGo \/ (cancelGo = "sent" /\ cancelGo' = "over")
      /\ pc[Invite] # "idle"
    <2>1. CASE PeerProvisional \/ PeerAnswers \/ PeerRefuses
        BY <2>1 DEF PeerProvisional, PeerAnswers, PeerRefuses, PeerSends, SideInv, IdleInv
    <2>2. CASE PeerCancelled
        BY <2>2 DEF PeerCancelled, SideInv, IdleInv
    <2> QED BY <2>1, <2>2
<1>4. CoreInv'
    BY <1>0, <1>1, MoveKeeps
<1>5. TypeOK'
    BY <1>1, <1>2, <1>3 DEF TypeOK, CoreTypeOK
<1>6. SideInv'
    BY <1>1, <1>2, <1>3 DEF SideInv, IdleInv, CancelInv, ResultInv
<1> QED BY <1>4, <1>5, <1>6

\* The steps an outgoing call shares with an incoming one
LEMMA SharedKeeps ==
    ASSUME Inv, CoreProgress \/ CoreEnv(TagsKnown), UNCHANGED uac
    PROVE  Inv'
<1> USE DEF Inv
<1>1. CoreTypeOK' /\ CoreInv'
    BY CoreStepKeeps DEF TypeOK
<1>2. UNCHANGED <<cancelReq, u, cancelGo, cancelSeq, result, setups, reports, acked, resps, peer>>
    BY DEF uac
<1>3. pc'[Invite] = pc[Invite] \/ pc'[Invite] \in FinishPc \cup {"byesent", "exit"}
    BY InviteMoves DEF TypeOK
<1>4. pc[Invite] # "idle"
    BY NothingYet DEF SideInv, IdleInv
<1>5. pc'[Invite] # "idle" /\ (pc'[Invite] = "fail" => result'.res # 200)
    BY <1>2, <1>3, <1>4 DEF SideInv, ResultInv, FinishPc
<1>6. TypeOK'
    BY <1>1, <1>2, <1>3 DEF TypeOK, CorePc
<1>7. SideInv'
    BY <1>2, <1>5, SideKept
<1> QED BY <1>1, <1>6, <1>7
-----------------------------------------------------------------------------
(* Theorems                                                                *)

\* A call that is about to be placed satisfies the invariant.
LEMMA InitHolds == Init => Inv
<1> SUFFICES ASSUME Init PROVE Inv
    OBVIOUS
<1>1. CoreInit
    BY DEF Init
<1>2. CoreTypeOK /\ CoreInv
    BY <1>1, CoreInitHolds
<1>3. /\ \A t \in Threads : pc[t] = "idle"
      /\ pc[Invite] = "idle" /\ call.state = StateCalling
      /\ ~inCalls /\ timer = "off" /\ dialog = "none"
    BY <1>1, ThreadNames, NewCallFacts DEF CoreInit
<1>4. /\ cancelReq = FALSE /\ cancelGo = "none" /\ cancelSeq = 0
      /\ u = [provisional |-> FALSE, cancelSent |-> FALSE, cancelNil |-> FALSE,
              noAnswer |-> TRUE, authAttempts |-> 0, retried422 |-> FALSE, seq |-> 0]
      /\ result = [res |-> 0, cancelled |-> FALSE]
      /\ setups = [success |-> 0, failure |-> 0]
      /\ reports = 0 /\ acked = FALSE /\ resps = <<>> /\ peer = "trying"
    BY DEF Init
<1>5. u \in Locals /\ u.provisional = FALSE /\ u.cancelSent = FALSE /\ u.seq = 0
    BY <1>4 DEF Locals, maxAuthAttempts
<1>6. TypeOK
    <2>1. /\ result \in [res : Responses \cup {0}, cancelled : BOOLEAN]
          /\ setups \in [success : Nat, failure : Nat]
        BY <1>4
    <2>2. resps \in Seq(Responses)
        BY <1>4
    <2> QED BY <1>2, <1>3, <1>4, <1>5, <2>1, <2>2 DEF TypeOK, CorePc
<1>7. SideInv
    BY <1>3, <1>4, <1>5 DEF SideInv, IdleInv, CancelInv, ResultInv
<1> QED BY <1>2, <1>6, <1>7 DEF Inv

\* Every step keeps it.
LEMMA StepHolds == Inv /\ [Next]_vars => Inv'
<1> SUFFICES ASSUME Inv, [Next]_vars PROVE Inv'
    OBVIOUS
<1>1. CASE Call \/ CallSendFails
    BY <1>1, CallKeeps
<1>2. CASE OnSuccess \/ OnFailure \/ TxDone \/ CancelWait
    BY <1>2, ReturnKeeps
<1>3. CASE OnProvisional
    BY <1>3, ProvisionalKeeps
<1>4. CASE OnRetry
    BY <1>4, RetryKeeps
<1>5. CASE OnCancelOrNoAnswer \/ CancelRuns
    BY <1>5, CancelKeeps
<1>6. CASE Ack \/ Setup \/ StartMedia
    BY <1>6, AnswerKeeps
<1>7. CASE Mark \/ Fail
    BY <1>7, MarkKeeps, FailKeeps
<1>8. CASE \E h \in Hangers : HangupCall(h) \/ HangupCancel(h)
    BY <1>8, HangupKeeps
<1>9. CASE (CoreProgress \/ CoreEnv(TagsKnown)) /\ UNCHANGED uac
    BY <1>9, SharedKeeps
<1>10. CASE PeerProvisional \/ PeerAnswers \/ PeerRefuses \/ PeerCancelled
    BY <1>10, PeerKeeps
<1>11. CASE UNCHANGED vars
    <2>1. UNCHANGED <<call, byeBy, inCalls, media, timer, callEnds, pc, wasConnected, byeRes,
                      ret, dialog, byeLost>>
        BY <1>11 DEF vars, core
    <2>2. UNCHANGED <<cancelReq, u, cancelGo, cancelSeq, result, setups, reports, acked, resps, peer>>
        BY <1>11 DEF vars, uac
    <2>3. CoreInv'
        BY <2>1, MoveKeeps DEF Inv, TypeOK
    <2>4. TypeOK'
        BY <2>1, <2>2 DEF Inv, TypeOK, CoreTypeOK
    <2>5. SideInv'
        BY <2>1, <2>2 DEF Inv, SideInv, IdleInv, CancelInv, ResultInv
    <2> QED BY <2>3, <2>4, <2>5 DEF Inv
<1> QED BY <1>1, <1>2, <1>3, <1>4, <1>5, <1>6, <1>7, <1>8, <1>9, <1>10, <1>11, Zenon
        DEF Next, Run

\* The inductive invariant holds throughout.
THEOREM Invariance == Spec => []Inv
<1>1. Init => Inv
    BY InitHolds
<1>2. Inv /\ [Next]_vars => Inv'
    BY StepHolds
<1> QED BY <1>1, <1>2, PTL DEF Spec

\* Every variable keeps its type, with any number of Hangup calls.
THEOREM TypeCorrect == Spec => []TypeOK
<1>1. Inv => TypeOK
    BY DEF Inv
<1> QED BY <1>1, Invariance, PTL

\* However many goroutines ring, answer and end a call at the same time,
\* none closes a channel that is closed already.
THEOREM NeverPanics == Spec => []NoDoubleClose
<1>1. Inv => NoDoubleClose
    BY CoreInvGives DEF Inv, TypeOK
<1> QED BY <1>1, Invariance, PTL

\* Exactly one goroutine passes the guard of finish and cleans up.
THEOREM EndsOnce == Spec => []OneFinisher
<1>1. Inv => OneFinisher
    BY CoreInvGives DEF Inv, TypeOK
<1> QED BY <1>1, Invariance, PTL

\* Whoever is woken by done finds the call out of Device.calls, its stream
\* closed, its session timer off for good, and the metrics recorded.
THEOREM CleansUp == Spec => []DoneMeansCleanedUp
<1>1. Inv => DoneMeansCleanedUp
    BY CoreInvGives DEF Inv, TypeOK
<1> QED BY <1>1, Invariance, PTL

\* CANCEL names the INVITE that is pending, and only one the peer has answered
\* provisionally, for any number of responses in flight.
THEOREM CancelDiscipline == Spec => []CancelNamesPendingInvite
<1>1. Inv => CancelNamesPendingInvite
    BY DEF Inv, SideInv, CancelInv, CancelNamesPendingInvite
<1> QED BY <1>1, Invariance, PTL

\* A step of an outgoing call is a step of CallLifecycle or changes nothing in
\* its view.
LEMMA StepRefines == Inv /\ [Next]_vars => LifecycleStep
<1> SUFFICES ASSUME Inv, [Next]_vars PROVE LifecycleStep
    OBVIOUS
<1>0. CoreTypeOK /\ CoreInv /\ call \in Calls
    BY DEF Inv, TypeOK, CoreTypeOK
<1>1. ASSUME UNCHANGED <<call, callEnds>> PROVE LifecycleStep
    BY <1>1, SameView
<1>2. CASE CallSendFails
    <2> DEFINE f == FinishLocked(call, "error", 0)
    <2>1. /\ f \in Calls /\ f.state = StateEnded /\ f.status = call.status
          /\ f.tAnswer = call.tAnswer /\ f.done = call.done
        BY <1>0, FinishLockedFacts DEF EndedBy
    <2>2. call' = [f EXCEPT !.done = CloseChan(@)] /\ callEnds' = callEnds
        BY <1>2 DEF CallSendFails
    <2> HIDE DEF f
    <2>3. /\ call'.state = StateEnded /\ call'.status = call.status
          /\ call'.tAnswer = call.tAnswer
        BY <2>1, <2>2, CloseDoneFacts
    <2>4. call.state = StateCalling /\ call.status = 0 /\ ~call.tAnswer
        BY <1>2, ThreadNames DEF CallSendFails, Inv, SideInv, IdleInv, CoreInv, ChannelInv, StatusInv
    <2>5. Lifecycle!End
        BY <2>2, <2>3, <2>4 DEF Lifecycle!End
    <2> QED BY <2>5 DEF LifecycleStep, Lifecycle!Next
<1>3. CASE OnProvisional
    <2>1. callEnds' = callEnds /\ (call' = call \/ call' = MarkRinging(call))
        BY <1>3 DEF OnProvisional
    <2> QED BY <1>0, <1>1, <2>1, RingRefines
<1>4. CASE Mark
    BY <1>0, <1>4, AnswerRefines DEF Mark
<1>5. CASE Ack
    <2>1. callEnds' = callEnds /\ (call' = call \/ Finish(Invite, "error", 0)) /\ "error" \in EndedBy
        BY <1>5 DEF Ack, EndedBy
    <2> QED BY <1>0, <1>1, <2>1, ThreadNames, FinishRefines
<1>6. CASE Fail
    <2>1. \E by \in EndedBy, status \in Nat : status # 200 /\ Finish(Invite, by, status)
        BY <1>6, FailFinishes
    <2>2. callEnds' = callEnds
        BY <1>6, Zenon DEF Fail
    <2> QED BY <1>0, <2>1, <2>2, ThreadNames, FinishRefines
<1>7. CASE \E h \in Hangers : HangupCancel(h)
    <2>1. callEnds' = callEnds /\ (call' = call \/ call' = [call EXCEPT !.endedBy = "local"])
        BY <1>7 DEF HangupCancel
    <2>2. /\ call'.state = call.state /\ call'.status = call.status
          /\ call'.tAnswer = call.tAnswer /\ call'.done = call.done
        BY <1>0, <2>1 DEF Calls
    <2> QED BY <2>1, <2>2, SameView
<1>8. CASE CoreProgress \/ CoreEnv(TagsKnown) \/ \E h \in Hangers : HangupCall(h)
    BY <1>0, <1>8, CoreStepRefines DEF HangupCall
<1>9. CASE Call \/ OnSuccess \/ OnRetry \/ OnFailure \/ TxDone \/ CancelWait \/ Setup \/ StartMedia
    <2>1. UNCHANGED <<call, callEnds>>
        BY <1>9 DEF Call, OnSuccess, OnRetry, OnFailure, TxDone, CancelWait, Setup, StartMedia
    <2> QED BY <1>1, <2>1
<1>10. CASE OnCancelOrNoAnswer \/ CancelRuns \/ PeerProvisional \/ PeerAnswers \/ PeerRefuses
            \/ PeerCancelled \/ UNCHANGED vars
    <2>1. UNCHANGED <<call, callEnds>>
        BY <1>10 DEF OnCancelOrNoAnswer, CancelRuns, PeerProvisional, PeerAnswers, PeerRefuses,
                     PeerCancelled, vars, core
    <2> QED BY <1>1, <2>1
<1> QED BY <1>2, <1>3, <1>4, <1>5, <1>6, <1>7, <1>8, <1>9, <1>10, Zenon DEF Next, Run

\* An outgoing call keeps the promises of CallLifecycle: it moves forward
\* only, no late answer revives it, no late end rewrites the status of an
\* answered call, and waiters wake after the end was reported.
THEOREM RefinesLifecycle == Spec => KeepsLifecycle
<1>1. Init => Lifecycle!Init
    BY NewCallFacts DEF Init, CoreInit, Lifecycle!Init
<1>2. Inv /\ [Next]_vars => [Lifecycle!Next]_(Lifecycle!vars)
    BY StepRefines DEF LifecycleStep
<1> QED BY <1>1, <1>2, Invariance, PTL DEF Spec, KeepsLifecycle, Lifecycle!Spec
-----------------------------------------------------------------------------
(* INVITEs reported, dialogs ended                                         *)

\* InvitesReported with what it starts from: the INVITE that run is waiting
\* for is the one not yet reported.
ReportInv ==
    /\ pc[Invite] = "idle" => reports = 0
    /\ pc[Invite] = "select" => u.seq > 0 /\ reports = u.seq - 1
    /\ u.seq > 0 /\ pc[Invite] # "select" =>
         IF result.cancelled /\ result.res # 200
         THEN reports \in {u.seq - 1, u.seq}
         ELSE reports = u.seq

\* The peer's final response is the last of its INVITE, a dialog exists from
\* its 2xx on, and as long as run listens that 2xx is still to be read: a
\* challenge can then no longer be the answer.
PeerInv ==
    /\ dialog # "none" => peer = "final"
    /\ dialog # "none" /\ pc[Invite] = "select" => resps # <<>> /\ resps[Len(resps)] = 200
    /\ \A i \in 1..Len(resps) : resps[i] >= 200 => peer = "final" /\ i = Len(resps)
    /\ \A i \in 1..Len(resps) : resps[i] = 200 => dialog # "none"
    /\ pc[Invite] \in {"ack", "setup", "mark", "media"} => dialog # "none"

\* A call that has ended is over at the peer, unless run ended it before the
\* ACK went out, after which none does.
OverInv ==
    /\ pc[Invite] \in {"idle", "select", "ack", "fail"} => ~acked
    /\ call.state = StateEnded => OverAtPeer \/ (~acked /\ pc[Invite] \in EndPc)

\* A cancelled INVITE is remembered as cancelled until the call is ended for it.
CancelledInv ==
    /\ u.cancelSent /\ pc[Invite] \in {"ack", "setup", "mark"} => result.cancelled
    /\ u.cancelSent => pc[Invite] # "media"
    /\ u.cancelSent /\ pc[Invite] = "exit" => call.state = StateEnded

DialogInv == ByeInv /\ ReportInv /\ PeerInv /\ OverInv /\ CancelledInv

\* run stays in its loop.
LEMMA LoopDialogs ==
    ASSUME Inv, DialogInv, pc[Invite] = "select",
           UNCHANGED <<pc, byeRes, ret, dialog, byeLost, acked>>,
           call'.tAnswer = call.tAnswer, call'.state = StateEnded <=> call.state = StateEnded,
           u'.seq > 0, reports' = u'.seq - 1, PeerInv'
    PROVE  DialogInv'
<1> USE DEF DialogInv
<1>1. ByeInv' /\ (OverAtPeer => OverAtPeer')
    BY InviteDialogs DEF Inv, TypeOK
<1>2. ReportInv' /\ CancelledInv'
    BY DEF ReportInv, CancelledInv
<1>3. OverInv'
    BY <1>1 DEF OverInv
<1> QED BY <1>1, <1>2, <1>3

\* run returns, and reports the last INVITE unless its own CANCEL ended it.
LEMMA ReturnDialogs ==
    ASSUME Inv, DialogInv, pc[Invite] = "select",
           NEW res, NEW cancelled \in BOOLEAN, NEW label \in {"ack", "fail"},
           Return(res, cancelled, label),
           UNCHANGED <<call, byeRes, ret, dialog, byeLost, acked, peer>>,
           label = "ack" => dialog # "none" /\ cancelled = u.cancelSent,
           reports' = reports + 1 \/ (reports' = reports /\ cancelled /\ res # 200)
    PROVE  DialogInv'
<1> USE DEF DialogInv
<1>0. /\ TypeOK /\ CoreTypeOK /\ u.seq \in Nat /\ reports \in Nat
    BY DEF Inv, TypeOK, Locals
<1>1. /\ u'.seq = u.seq /\ u'.cancelSent = u.cancelSent /\ resps' = <<>>
      /\ result' = [res |-> res, cancelled |-> cancelled]
      /\ Goto(Invite, label)
    BY <1>0, ReturnFacts
<1>2. pc'[Invite] = label
    BY <1>0, <1>1, ThreadNames DEF Goto, CoreTypeOK
<1>3. ByeInv' /\ (OverAtPeer => OverAtPeer')
    BY <1>0, <1>1, InviteDialogs
<1>4. ReportInv'
    <2>1. reports = u.seq - 1
        BY DEF ReportInv
    <2>2. result'.res = res /\ result'.cancelled = cancelled
        BY <1>1
    <2> QED BY <1>0, <1>1, <1>2, <2>1, <2>2 DEF ReportInv
<1>5. PeerInv'
    BY <1>1, <1>2 DEF PeerInv
<1>6. OverInv'
    BY <1>2, <1>3 DEF OverInv, EndPc, FinishPc
<1>7. CancelledInv'
    <2>1. result'.cancelled = cancelled
        BY <1>1
    <2> QED BY <1>1, <1>2, <2>1 DEF CancelledInv
<1> QED BY <1>3, <1>4, <1>5, <1>6, <1>7

\* The cases of the select that leave the loop; the 2xx that OnSuccess reads
\* has set up a dialog.
LEMMA LeaveDialogs ==
    ASSUME Inv, DialogInv, OnSuccess \/ OnFailure \/ TxDone \/ CancelWait
    PROVE  DialogInv'
<1>0. u.cancelSent \in BOOLEAN /\ reports \in Nat /\ resps \in Seq(Responses)
    BY DEF Inv, TypeOK, Locals
<1>1. CASE OnSuccess
    <2>1. dialog # "none"
        <3>1. resps # <<>> /\ Head(resps) = 200
            BY <1>1 DEF OnSuccess, Receive
        <3>2. 1 \in 1..Len(resps) /\ resps[1] = 200
            BY <1>0, <3>1
        <3> QED BY <3>2 DEF DialogInv, PeerInv
    <2> QED BY <1>0, <1>1, <2>1, ReturnDialogs DEF OnSuccess, Receive
<1>2. CASE OnFailure
    <2>1. PICK r \in Responses :
            /\ Receive(r) /\ r >= 300 /\ Return(r, u.cancelSent, "fail")
            /\ reports' = IF u.cancelSent /\ r = 487 THEN reports ELSE reports + 1
            /\ UNCHANGED <<call, byeBy, inCalls, media, timer, callEnds, wasConnected, byeRes, ret, dialog, byeLost>>
            /\ UNCHANGED <<cancelReq, cancelGo, cancelSeq, setups, acked, peer>>
        BY <1>2 DEF OnFailure
    <2>2. reports' = reports + 1 \/ (reports' = reports /\ u.cancelSent /\ r # 200)
        BY <2>1
    <2> QED BY <1>0, <2>1, <2>2, ReturnDialogs DEF Receive
<1>3. CASE TxDone
    <2>1. reports' = reports + 1 \/ (reports' = reports /\ u.cancelSent /\ 0 # 200)
        BY <1>3 DEF TxDone
    <2> QED BY <1>0, <1>3, <2>1, ReturnDialogs DEF TxDone
<1>4. CASE CancelWait
    <2>1. Return(0, TRUE, "fail") /\ pc[Invite] = "select"
        BY <1>4, Zenon DEF CancelWait
    <2>2. UNCHANGED <<call, byeRes, ret, dialog, byeLost, acked, peer, reports>>
        BY <1>4 DEF CancelWait
    <2>3. reports' = reports /\ TRUE /\ 0 # 200
        BY <2>2
    <2> QED BY <2>1, <2>2, <2>3, ReturnDialogs, Zenon
<1> QED BY <1>1, <1>2, <1>3, <1>4

\* A challenge or a 422 is the peer's final response, so the peer has no dialog
\* and the next INVITE starts afresh.
LEMMA RetryDialogs ==
    ASSUME Inv, DialogInv, OnRetry
    PROVE  DialogInv'
<1>0. /\ u \in Locals /\ u.seq \in Nat /\ reports \in Nat /\ resps \in Seq(Responses)
    BY DEF Inv, TypeOK, Locals
<1>1. PICK r \in {401, 422} :
        /\ Receive(r)
        /\ reports' = reports + 1
        /\ \/ /\ u' = IF r = 401
                      THEN [u EXCEPT !.seq = @ + 1, !.provisional = FALSE, !.authAttempts = @ + 1]
                      ELSE [u EXCEPT !.seq = @ + 1, !.provisional = FALSE, !.retried422 = TRUE]
              /\ resps' = <<>>
              /\ peer' = "trying"
              /\ UNCHANGED <<result, pc>>
           \/ /\ Return(r, FALSE, "fail")
              /\ UNCHANGED peer
        /\ UNCHANGED <<call, byeBy, inCalls, media, timer, callEnds, wasConnected, byeRes,
                       ret, dialog, byeLost>>
        /\ UNCHANGED <<cancelReq, cancelGo, cancelSeq, setups, acked>>
    BY DEF OnRetry
<1>2. pc[Invite] = "select" /\ resps # <<>> /\ Head(resps) = r
    BY <1>1 DEF Receive
<1>3. dialog = "none"
    <2>1. 1 \in 1..Len(resps) /\ resps[1] = r /\ r >= 200 /\ r # 200
        BY <1>0, <1>2
    <2>2. Len(resps) = 1
        <3>1. \A i \in 1..Len(resps) : resps[i] >= 200 => i = Len(resps)
            BY DEF DialogInv, PeerInv
        <3>2. PICK i \in 1..Len(resps) : i = 1
            BY <2>1
        <3>3. resps[i] >= 200
            BY <2>1, <3>2
        <3>4. i = Len(resps)
            BY <3>1, <3>3
        <3> QED BY <3>2, <3>4
    <2> QED BY <1>2, <2>1, <2>2 DEF DialogInv, PeerInv
<1>4. CASE /\ u' = IF r = 401
                   THEN [u EXCEPT !.seq = @ + 1, !.provisional = FALSE, !.authAttempts = @ + 1]
                   ELSE [u EXCEPT !.seq = @ + 1, !.provisional = FALSE, !.retried422 = TRUE]
           /\ resps' = <<>>
           /\ UNCHANGED pc
    <2>1. u'.seq = u.seq + 1
        BY <1>0, <1>4 DEF Locals
    <2>2. reports' = u'.seq - 1 /\ u'.seq > 0
        BY <1>0, <1>1, <1>2, <2>1 DEF DialogInv, ReportInv
    <2>3. PeerInv'
        BY <1>1, <1>2, <1>3, <1>4 DEF PeerInv
    <2> QED BY <1>1, <1>2, <1>4, <2>2, <2>3, LoopDialogs
<1>5. CASE Return(r, FALSE, "fail") /\ UNCHANGED peer
    <2>1. Return(r, FALSE, "fail")
        BY <1>5, Zenon
    <2>2. /\ UNCHANGED <<call, byeRes, ret, dialog, byeLost, acked, peer>>
          /\ reports' = reports + 1
        BY <1>1, <1>5
    <2> QED BY <1>2, <2>1, <2>2, ReturnDialogs, Zenon
<1> QED BY <1>1, <1>4, <1>5, Zenon

\* A provisional response leaves the final one that follows it in place.
LEMMA ProvisionalDialogs ==
    ASSUME Inv, DialogInv, OnProvisional
    PROVE  DialogInv'
<1>0. /\ CoreTypeOK /\ call \in Calls /\ u \in Locals /\ resps \in Seq(Responses)
    BY DEF Inv, TypeOK, CoreTypeOK
<1> DEFINE v == [u EXCEPT !.provisional = TRUE]
           w == IF v.cancelNil /\ ~v.cancelSent THEN SendCancel(v) ELSE v
<1>1. PICK r \in Responses :
         /\ Receive(r) /\ IsProvisional(r)
         /\ u' = w
         /\ call' = IF r > 100 THEN MarkRinging(call) ELSE call
         /\ resps' = Tail(resps)
         /\ UNCHANGED <<byeBy, inCalls, media, timer, callEnds, pc, wasConnected, byeRes,
                        ret, dialog, byeLost>>
         /\ UNCHANGED <<cancelReq, cancelSeq, result, setups, reports, acked, peer>>
    BY DEF OnProvisional
<1>2. u'.seq = u.seq
    BY <1>0, <1>1, ProvisionalFacts
<1> HIDE DEF v, w
<1>3. /\ call'.tAnswer = call.tAnswer
      /\ call'.state = StateEnded <=> call.state = StateEnded
    BY <1>0, <1>1, MarkRingingFacts
<1>4. pc[Invite] = "select" /\ resps # <<>> /\ Head(resps) = r /\ r < 200
    BY <1>1 DEF Receive, IsProvisional
<1>5. /\ Len(resps') = Len(resps) - 1 /\ Len(resps) \in Nat \ {0} /\ resps[1] < 200
      /\ \A i \in 1..Len(resps') : i + 1 \in 1..Len(resps) /\ resps'[i] = resps[i + 1]
    BY <1>0, <1>1, <1>4
<1>6. PeerInv'
    <2>1. dialog' # "none" => peer' = "final"
        BY <1>1 DEF DialogInv, PeerInv
    <2>2. dialog' # "none" => resps' # <<>> /\ resps'[Len(resps')] = 200
        <3> SUFFICES ASSUME dialog' # "none" PROVE resps' # <<>> /\ resps'[Len(resps')] = 200
            OBVIOUS
        <3>1. resps[Len(resps)] = 200
            BY <1>1, <1>4 DEF DialogInv, PeerInv
        <3>2. Len(resps) # 1
            BY <1>5, <3>1
        <3>3. Len(resps') \in 1..Len(resps')
            BY <1>5, <3>2
        <3>4. resps' # <<>>
            BY <3>3
        <3> QED BY <1>5, <3>1, <3>3, <3>4
    <2>3. \A i \in 1..Len(resps') : resps'[i] >= 200 => peer' = "final" /\ i = Len(resps')
        <3>1. \A i \in 1..Len(resps) : resps[i] >= 200 => peer = "final" /\ i = Len(resps)
            BY DEF DialogInv, PeerInv
        <3> TAKE i \in 1..Len(resps')
        <3>2. i + 1 \in 1..Len(resps) /\ resps'[i] = resps[i + 1] /\ i \in Nat
            BY <1>5
        <3>3. resps[i + 1] >= 200 => peer = "final" /\ i + 1 = Len(resps)
            BY <3>1, <3>2, Zenon
        <3>4. resps'[i] >= 200 => i + 1 = Len(resps) /\ peer' = "final"
            BY <1>1, <3>2, <3>3
        <3> QED BY <1>5, <3>2, <3>4
    <2>4. \A i \in 1..Len(resps') : resps'[i] = 200 => dialog' # "none"
        <3>1. \A i \in 1..Len(resps) : resps[i] = 200 => dialog # "none"
            BY DEF DialogInv, PeerInv
        <3> QED BY <1>1, <1>5, <3>1
    <2>5. pc'[Invite] = "select"
        BY <1>1, <1>4
    <2> QED BY <2>1, <2>2, <2>3, <2>4, <2>5 DEF PeerInv
<1>7. u'.seq > 0 /\ reports' = u'.seq - 1
    BY <1>1, <1>2, <1>4 DEF DialogInv, ReportInv
<1> QED BY <1>1, <1>3, <1>4, <1>6, <1>7, LoopDialogs

\* CANCEL: asked for, and sent
LEMMA CancelDialogs ==
    ASSUME Inv, DialogInv, OnCancelOrNoAnswer \/ CancelRuns
    PROVE  DialogInv'
<1>0. u \in Locals
    BY DEF Inv, TypeOK
<1>1. /\ UNCHANGED <<call, pc, byeRes, ret, dialog, byeLost>>
      /\ UNCHANGED <<result, reports, acked, resps, peer>>
    BY DEF OnCancelOrNoAnswer, CancelRuns, core
<1>2. PeerInv'
    BY <1>1 DEF DialogInv, PeerInv
<1>3. CASE OnCancelOrNoAnswer
    <2>1. pc[Invite] = "select" /\ u'.seq = u.seq
        BY <1>0, <1>3, RequestCancelFacts DEF OnCancelOrNoAnswer
    <2>2. u'.seq > 0 /\ reports' = u'.seq - 1
        BY <1>1, <2>1 DEF DialogInv, ReportInv
    <2> QED BY <1>1, <1>2, <2>1, <2>2, LoopDialogs
<1>4. CASE CancelRuns
    <2>1. u' = u
        BY <1>4 DEF CancelRuns
    <2>2. ByeInv'
        BY <1>1 DEF DialogInv, ByeInv
    <2> QED BY <1>1, <1>2, <2>1, <2>2 DEF DialogInv, ReportInv, OverInv, OverAtPeer, CancelledInv
<1> QED BY <1>3, <1>4

\* Device.Call
LEMMA CallDialogs ==
    ASSUME Inv, DialogInv, Call \/ CallSendFails
    PROVE  DialogInv'
<1>0. /\ CoreTypeOK /\ call \in Calls /\ u \in Locals /\ u.seq = 0 /\ pc[Invite] = "idle"
      /\ dialog = "none" /\ call.state = StateCalling /\ ~acked /\ reports = 0
    BY DEF Inv, TypeOK, CoreTypeOK, SideInv, IdleInv, DialogInv, OverInv, ReportInv, Call, CallSendFails
<1>1. CASE Call
    <2>1. u'.seq = 1 /\ pc'[Invite] = "select"
        BY <1>0, <1>1, ThreadNames DEF Call, Goto, CoreTypeOK, Locals
    <2>2. UNCHANGED <<call, byeRes, ret, dialog, byeLost, result, reports, acked, resps, peer>>
        BY <1>1 DEF Call
    <2>3. ByeInv'
        BY <1>0, <1>1, InviteDialogs DEF Call, DialogInv
    <2>4. ReportInv' /\ OverInv' /\ CancelledInv'
        BY <1>0, <2>1, <2>2 DEF ReportInv, OverInv, CancelledInv
    <2>5. PeerInv'
        BY <1>0, <2>1, <2>2 DEF PeerInv, DialogInv
    <2> QED BY <2>3, <2>4, <2>5 DEF DialogInv
<1>2. CASE CallSendFails
    <2> DEFINE f == FinishLocked(call, "error", 0)
    <2>1. f \in Calls /\ f.tAnswer = call.tAnswer /\ f.state = StateEnded
        BY <1>0, FinishLockedFacts DEF EndedBy
    <2>2. call' = [f EXCEPT !.done = CloseChan(@)]
        BY <1>2 DEF CallSendFails
    <2> HIDE DEF f
    <2>3. call'.tAnswer = call.tAnswer /\ call'.state = StateEnded
        BY <2>1, <2>2, CloseDoneFacts
    <2>4. /\ Goto(Invite, "exit")
          /\ UNCHANGED <<byeRes, ret, dialog, byeLost, u, result, acked, resps, peer>>
        BY <1>2 DEF CallSendFails
    <2>5. pc'[Invite] = "exit"
        BY <1>0, <2>4, ThreadNames DEF Goto, CoreTypeOK
    <2>6. ByeInv'
        BY <1>0, <2>3, <2>4, InviteDialogs DEF DialogInv
    <2>7. ReportInv' /\ OverInv' /\ CancelledInv'
        BY <1>0, <2>3, <2>4, <2>5 DEF ReportInv, OverInv, CancelledInv, EndPc
    <2>8. PeerInv'
        BY <1>0, <2>4, <2>5 DEF PeerInv, DialogInv
    <2> QED BY <2>6, <2>7, <2>8 DEF DialogInv
<1> QED BY <1>1, <1>2

\* runOutgoing after run: it moves on, or calls finish.
LEMMA AfterDialogs ==
    ASSUME Inv, DialogInv, pc[Invite] \in {"ack", "setup", "mark", "media", "fail"},
           NEW l \in {"setup", "mark", "media", "bye", "fin1", "exit"}, Goto(Invite, l),
           UNCHANGED <<byeRes, ret, dialog, byeLost, u, result, reports, resps, peer>>,
           call'.tAnswer => call.tAnswer \/ dialog # "none",
           call.state = StateEnded => call'.state = StateEnded,
           l \in {"setup", "mark", "media", "bye"} => dialog # "none",
           call'.state = StateEnded => call.state = StateEnded \/ (~acked' /\ l \in EndPc),
           u.cancelSent /\ l \in {"setup", "mark"} => result.cancelled,
           u.cancelSent => l # "media",
           u.cancelSent /\ l = "exit" => call'.state = StateEnded
    PROVE  DialogInv'
<1>0. /\ CoreTypeOK /\ pc'[Invite] = l /\ pc[Invite] \notin EndPc
    BY ThreadNames DEF Inv, TypeOK, CoreTypeOK, Goto, EndPc, FinishPc
<1>1. ByeInv' /\ (OverAtPeer => OverAtPeer')
    BY <1>0, InviteDialogs DEF DialogInv
<1>2. ReportInv'
    BY <1>0 DEF DialogInv, ReportInv
<1>3. PeerInv'
    BY <1>0 DEF DialogInv, PeerInv
<1>4. OverInv'
    BY <1>0, <1>1 DEF DialogInv, OverInv
<1>5. CancelledInv'
    BY <1>0 DEF CancelledInv
<1> QED BY <1>1, <1>2, <1>3, <1>4, <1>5 DEF DialogInv

\* ACK, CallSetup, markConnected, startMedia, or the branch without a 2xx
LEMMA AnswerDialogs ==
    ASSUME Inv, LifecycleStep, DialogInv, Ack \/ Setup \/ Mark \/ StartMedia \/ Fail
    PROVE  DialogInv'
<1>0. /\ CoreTypeOK /\ call \in Calls /\ (call.state = StateEnded => call'.state = StateEnded)
      /\ pc[Invite] \in {"ack", "fail"} => ~acked
      /\ pc[Invite] \in {"ack", "setup", "mark", "media"} => dialog # "none"
      /\ u.cancelSent /\ pc[Invite] \in {"ack", "setup", "mark"} => result.cancelled
      /\ u.cancelSent => pc[Invite] # "media"
    BY EndedStays DEF Inv, TypeOK, CoreTypeOK, DialogInv, OverInv, PeerInv, CancelledInv
<1>1. CASE Ack /\ Goto(Invite, "setup") /\ UNCHANGED call
    BY <1>0, <1>1, AfterDialogs DEF Ack
<1>2. ASSUME NEW by \in EndedBy, NEW status \in Nat, Finish(Invite, by, status),
             pc[Invite] \in {"ack", "fail"},
             UNCHANGED <<byeRes, ret, dialog, byeLost, u, result, reports, acked, resps, peer>>
      PROVE  DialogInv'
    <2>1. call'.state = StateEnded /\ call'.tAnswer = call.tAnswer
        BY <1>0, <1>2, ThreadNames, FinishEnds
    <2>2. PICK l \in {"fin1", "exit"} : Goto(Invite, l)
        BY <1>0, <1>2, ThreadNames, FinishEnds
    <2>3. l \in EndPc
        BY DEF EndPc, FinishPc
    <2> QED BY <1>0, <1>2, <2>1, <2>2, <2>3, AfterDialogs
<1>3. CASE Ack /\ Finish(Invite, "error", 0) /\ UNCHANGED acked
    <2>1. "error" \in EndedBy
        BY DEF EndedBy
    <2> QED BY <1>2, <1>3, <2>1 DEF Ack
<1>4. CASE Fail
    <2>1. PICK by \in EndedBy, status \in Nat : Finish(Invite, by, status)
        BY <1>4, FailFinishes
    <2>2. /\ pc[Invite] = "fail"
          /\ UNCHANGED <<byeRes, ret, dialog, byeLost, u, result, reports, acked, resps, peer>>
        BY <1>4 DEF Fail
    <2> QED BY <1>2, <2>1, <2>2
<1>5. CASE Setup
    BY <1>0, <1>5, AfterDialogs DEF Setup
<1>6. CASE Mark
    <2>1. call'.state = StateEnded <=> call.state = StateEnded
        <3>1. call.state \in 0..3
            BY <1>0 DEF Calls
        <3>2. call' = MarkConnected(call)
            BY <1>6 DEF Mark
        <3>3. CASE call.state >= StateConnected
            BY <1>0, <3>2, <3>3, MarkConnectedFacts
        <3>4. CASE call.state < StateConnected
            <4>1. MarkConnected(call).state = StateConnected
                BY <1>0, <3>4, MarkConnectedFacts
            <4> QED BY <3>2, <3>4, <4>1
        <3> QED BY <3>1, <3>3, <3>4
    <2>2. PICK l \in {"bye", "media"} : Goto(Invite, l) /\ (u.cancelSent => l # "media")
        BY <1>0, <1>6 DEF Mark
    <2>3. /\ pc[Invite] = "mark"
          /\ UNCHANGED <<byeRes, ret, dialog, byeLost, u, result, reports, acked, resps, peer>>
        BY <1>6 DEF Mark, uac
    <2> QED BY <1>0, <2>1, <2>2, <2>3, AfterDialogs
<1>7. CASE StartMedia
    <2>1. /\ pc[Invite] = "media" /\ Goto(Invite, "exit") /\ UNCHANGED call
          /\ UNCHANGED <<byeRes, ret, dialog, byeLost, u, result, reports, acked, resps, peer>>
        BY <1>7 DEF StartMedia, uac
    <2> QED BY <1>0, <2>1, AfterDialogs
<1> QED BY <1>1, <1>3, <1>4, <1>5, <1>6, <1>7 DEF Ack

\* Hangup and the steps every call shares leave the variables of the INVITE alone.
LEMMA SharedStepDialogs ==
    ASSUME Inv, DialogInv,
           \/ \E h \in Hangers : HangupCall(h) \/ HangupCancel(h)
           \/ (CoreProgress \/ CoreEnv(TagsKnown)) /\ UNCHANGED uac
    PROVE  DialogInv'
<1>0. CoreTypeOK /\ CoreInv /\ ByeInv /\ Invite \in Threads /\ call \in Calls
    BY ThreadNames DEF Inv, TypeOK, CoreTypeOK, DialogInv
<1>1. UNCHANGED <<u, result, reports, acked, resps, peer>>
    BY DEF HangupCall, HangupCancel, uac
<1>2. /\ DialogStep
      /\ pc[Invite] \in EndPc => pc'[Invite] \in EndPc
      /\ pc'[Invite] = "exit" => pc[Invite] = "exit" \/ call'.state = StateEnded
      /\ pc'[Invite] = pc[Invite] \/ pc'[Invite] \in EndPc \cup {"byesent"}
      /\ pc[Invite] \notin FinishPc \cup {"bye", "byesent"} => pc'[Invite] = pc[Invite]
    <2>1. ASSUME NEW h \in Hangers, HangupCancel(h)
          PROVE  DialogStep /\ pc'[Invite] = pc[Invite]
        <3>1. h \in Threads /\ h # Invite /\ h # Replace /\ h # Session /\ h # ByeReq
            BY ThreadNames, HangersAreThreads
        <3>2. call'.state = call.state /\ call'.tAnswer = call.tAnswer
            BY <1>0, <2>1 DEF HangupCancel, Calls
        <3>3. Goto(h, "wait") /\ UNCHANGED <<byeRes, ret, dialog, byeLost>>
            BY <2>1 DEF HangupCancel
        <3>4. DialogStep
            BY <1>0, <3>1, <3>2, <3>3, DialogMoves
        <3> QED BY <1>0, <3>1, <3>3, <3>4 DEF Goto, CoreTypeOK
    <2>2. CASE CoreProgress \/ CoreEnv(TagsKnown) \/ \E h \in Hangers : HangupStart(h)
        BY <1>0, <2>2, SharedDialogs, InviteLeaves
    <2>3. CASE \E h \in Hangers : HangupCancel(h)
        BY <2>1, <2>3
    <2> QED BY <2>2, <2>3 DEF HangupCall
<1>3. pc[Invite] # "idle"
    <2>1. CASE (CoreProgress \/ CoreEnv(TagsKnown)) /\ UNCHANGED uac
        BY <2>1, NothingYet DEF Inv, SideInv, IdleInv
    <2>2. CASE \E h \in Hangers : HangupCall(h) \/ HangupCancel(h)
        BY <2>2, ThreadNames DEF HangupCall, HangupCancel, Inv, SideInv, IdleInv
    <2> QED BY <2>1, <2>2
<1>4. ReportInv'
    BY <1>1, <1>2, <1>3 DEF DialogInv, ReportInv, EndPc, FinishPc
<1>5. PeerInv'
    BY <1>1, <1>2 DEF DialogInv, PeerInv, DialogStep, EndPc, FinishPc
<1>6. OverInv'
    BY <1>1, <1>2 DEF DialogInv, OverInv, DialogStep, EndPc, FinishPc
<1>7. CancelledInv'
    BY <1>1, <1>2 DEF DialogInv, CancelledInv, DialogStep, EndPc, FinishPc
<1> QED BY <1>2, <1>4, <1>5, <1>6, <1>7 DEF DialogInv, DialogStep

\* A response goes out while the INVITE has no final one: there is no dialog
\* yet, and only the new response can be final.
LEMMA PeerAddsResponse ==
    ASSUME Inv, DialogInv, NEW r \in Responses, peer # "final",
           resps' = resps \/ (pc[Invite] = "select" /\ resps' = Append(resps, r)),
           pc' = pc,
           r >= 200 => peer' = "final",
           \/ dialog' = "none" /\ r # 200
           \/ dialog' = "up" /\ r = 200 /\ peer' = "final"
              /\ (pc[Invite] = "select" => resps' = Append(resps, r))
    PROVE  PeerInv' /\ dialog = "none"
<1>0. resps \in Seq(Responses)
    BY DEF Inv, TypeOK
<1>1. /\ dialog = "none" /\ pc[Invite] \notin {"ack", "setup", "mark", "media"}
      /\ \A i \in 1..Len(resps) : ~(resps[i] >= 200)
    BY DEF DialogInv, PeerInv
<1>2. \A i \in 1..Len(resps) : resps[i] # 200
    <2>1. 200 >= 200
        OBVIOUS
    <2> QED BY <1>1, <2>1
<1>3. CASE resps' = resps
    <2>1. dialog' # "none" => pc[Invite] # "select"
        <3>1. Len(Append(resps, r)) = Len(resps) + 1 /\ Len(resps) \in Nat
            BY <1>0
        <3>2. Append(resps, r) # resps
            BY <3>1
        <3> QED BY <1>3, <3>2
    <2> QED BY <1>1, <1>2, <1>3, <2>1 DEF PeerInv
<1>4. CASE pc[Invite] = "select" /\ resps' = Append(resps, r)
    <2>1. /\ Len(resps') = Len(resps) + 1 /\ Len(resps) \in Nat
          /\ resps' # <<>> /\ resps'[Len(resps')] = r
          /\ \A i \in 1..Len(resps') : i = Len(resps') \/ (i \in 1..Len(resps) /\ resps'[i] = resps[i])
        BY <1>0, <1>4
    <2>2. \A i \in 1..Len(resps') : resps'[i] >= 200 => peer' = "final" /\ i = Len(resps')
        <3> SUFFICES ASSUME NEW i \in 1..Len(resps'), resps'[i] >= 200
                     PROVE  peer' = "final" /\ i = Len(resps')
            OBVIOUS
        <3>1. CASE i = Len(resps')
            BY <2>1, <3>1
        <3>2. CASE i \in 1..Len(resps) /\ resps'[i] = resps[i]
            BY <1>1, <3>2
        <3> QED BY <2>1, <3>1, <3>2
    <2>3. \A i \in 1..Len(resps') : resps'[i] = 200 => dialog' # "none"
        <3> SUFFICES ASSUME NEW i \in 1..Len(resps'), resps'[i] = 200
                     PROVE  dialog' # "none"
            OBVIOUS
        <3>1. CASE i = Len(resps')
            BY <2>1, <3>1
        <3>2. CASE i \in 1..Len(resps) /\ resps'[i] = resps[i]
            BY <1>2, <3>2
        <3> QED BY <2>1, <3>1, <3>2
    <2>4. dialog' # "none" => peer' = "final" /\ r = 200
        OBVIOUS
    <2> QED BY <1>1, <1>4, <2>1, <2>2, <2>3, <2>4 DEF PeerInv
<1> QED BY <1>1, <1>3, <1>4

\* The peer and the network
LEMMA PeerDialogs ==
    ASSUME Inv, DialogInv, PeerProvisional \/ PeerAnswers \/ PeerRefuses \/ PeerCancelled
    PROVE  DialogInv'
<1>0. CoreTypeOK
    BY DEF Inv, TypeOK
<1>1. UNCHANGED <<call, pc, byeRes, ret, byeLost, u, result, reports, acked>>
    BY DEF PeerProvisional, PeerAnswers, PeerRefuses, PeerCancelled, PeerSends, core
<1>2. PeerInv' /\ (dialog' = dialog \/ (dialog = "none" /\ dialog' = "up"))
    <2>0. DialogInv => (peer # "final" => dialog = "none")
        BY DEF DialogInv, PeerInv
    <2>1. CASE PeerProvisional
        <3>1. PICK r \in {100, 180} : PeerSends(r)
            BY <2>1 DEF PeerProvisional
        <3>2. r \in Responses /\ ~(r >= 200) /\ r # 200
            BY DEF Responses
        <3>3. UNCHANGED dialog
            BY <2>1 DEF PeerProvisional, core
        <3> QED BY <1>1, <2>0, <3>1, <3>2, <3>3, PeerAddsResponse DEF PeerSends
    <2>2. CASE PeerAnswers
        <3>1. 200 \in Responses
            BY DEF Responses
        <3> QED BY <1>1, <2>0, <2>2, <3>1, PeerAddsResponse DEF PeerAnswers, PeerSends
    <2>3. CASE PeerRefuses
        <3>1. PICK r \in {401, 422, 486} : PeerSends(r)
            BY <2>3 DEF PeerRefuses
        <3>2. r \in Responses /\ r # 200
            BY DEF Responses
        <3>3. UNCHANGED dialog /\ peer' = "final"
            BY <2>3 DEF PeerRefuses, core
        <3> QED BY <1>1, <2>0, <3>1, <3>2, <3>3, PeerAddsResponse DEF PeerSends
    <2>4. CASE PeerCancelled /\ ~UNCHANGED <<resps, peer>>
        <3>1. 487 \in Responses /\ 487 # 200
            BY DEF Responses
        <3>2. /\ peer # "final" /\ peer' = "final" /\ UNCHANGED dialog
              /\ resps' = resps \/ (pc[Invite] = "select" /\ resps' = Append(resps, 487))
            BY <2>4 DEF PeerCancelled, core
        <3> QED BY <1>1, <2>0, <3>1, <3>2, PeerAddsResponse
    <2>5. CASE PeerCancelled /\ UNCHANGED <<resps, peer>>
        <3>1. UNCHANGED dialog
            BY <2>5 DEF PeerCancelled, core
        <3> QED BY <1>1, <2>5, <3>1 DEF DialogInv, PeerInv
    <2> QED BY <2>1, <2>2, <2>3, <2>4, <2>5
<1>3. ByeInv' /\ (OverAtPeer => OverAtPeer')
    BY <1>0, <1>1, <1>2, InviteDialogs DEF DialogInv
<1>4. ReportInv' /\ CancelledInv'
    BY <1>1 DEF DialogInv, ReportInv, CancelledInv
<1>5. OverInv'
    BY <1>1, <1>3 DEF DialogInv, OverInv
<1> QED BY <1>2, <1>3, <1>4, <1>5 DEF DialogInv

\* DialogInv holds throughout.
THEOREM DialogInvariance == Spec => []DialogInv
<1>1. Init => DialogInv
    <2> SUFFICES ASSUME Init PROVE DialogInv
        OBVIOUS
    <2>1. /\ ByeInv /\ call.state = StateCalling /\ dialog = "none"
          /\ pc[Invite] = "idle" /\ acked = FALSE /\ reports = 0 /\ resps = <<>>
        BY CoreInitDialogs, ThreadNames DEF Init, CoreInit
    <2>2. u.seq = 0
        BY DEF Init
    <2> QED BY <2>1, <2>2 DEF DialogInv, ReportInv, PeerInv, OverInv, CancelledInv
<1>2. Inv /\ DialogInv /\ [Next]_vars => DialogInv'
    <2> SUFFICES ASSUME Inv, DialogInv, [Next]_vars PROVE DialogInv'
        OBVIOUS
    <2>1. LifecycleStep
        BY StepRefines
    <2>2. CASE Call \/ CallSendFails
        BY <2>2, CallDialogs
    <2>3. CASE OnSuccess \/ OnFailure \/ TxDone \/ CancelWait
        BY <2>3, LeaveDialogs
    <2>4. CASE OnProvisional \/ OnRetry
        BY <2>4, ProvisionalDialogs, RetryDialogs
    <2>5. CASE OnCancelOrNoAnswer \/ CancelRuns
        BY <2>5, CancelDialogs
    <2>6. CASE Ack \/ Setup \/ Mark \/ StartMedia \/ Fail
        BY <2>1, <2>6, AnswerDialogs
    <2>7. CASE \/ \E h \in Hangers : HangupCall(h) \/ HangupCancel(h)
               \/ (CoreProgress \/ CoreEnv(TagsKnown)) /\ UNCHANGED uac
        BY <2>7, SharedStepDialogs
    <2>8. CASE PeerProvisional \/ PeerAnswers \/ PeerRefuses \/ PeerCancelled
        BY <2>8, PeerDialogs
    <2>9. CASE UNCHANGED vars
        <3>1. UNCHANGED <<call, pc, byeRes, ret, dialog, byeLost, u, result, reports, acked, resps, peer>>
            BY <2>9 DEF vars, core, uac
        <3>2. ByeInv'
            BY <3>1 DEF DialogInv, ByeInv
        <3> QED BY <3>1, <3>2 DEF DialogInv, ReportInv, PeerInv, OverInv, OverAtPeer, CancelledInv
    <2> QED BY <2>2, <2>3, <2>4, <2>5, <2>6, <2>7, <2>8, <2>9, Zenon DEF Next, Run
<1> QED BY <1>1, <1>2, Invariance, PTL DEF Spec

\* sip_requests counts every INVITE exactly once, however often it was
\* challenged, except the one our own CANCEL ended, which may go uncounted.
THEOREM EveryInviteReported == Spec => []InvitesReported
<1>1. DialogInv => InvitesReported
    BY DEF DialogInv, ReportInv, InvitesReported
<1> QED BY <1>1, DialogInvariance, PTL

\* A peer that saw its answer acknowledged is never left alone with the dialog,
\* the answer that crossed our CANCEL included.
THEOREM LeavesNoDialog == Spec => []NoOrphanDialog
<1>1. Inv /\ DialogInv => NoOrphanDialog
    BY DEF Inv, CoreInv, OwnerInv, DialogInv, OverInv, OverAtPeer, NoOrphanDialog
<1> QED BY <1>1, Invariance, DialogInvariance, PTL

\* Once CANCEL is out the call ends, whatever the peer answered.
THEOREM CancelledCallEnds == Spec => []CancelEndsCall
<1>1. Inv /\ DialogInv => CancelEndsCall
    BY RestWakes DEF Inv, TypeOK, DialogInv, CancelledInv, CancelEndsCall
<1> QED BY <1>1, Invariance, DialogInvariance, PTL

\* hangup() returns true only for a call that is over, here and, where our ACK
\* went out and no BYE was lost, at the peer.
THEOREM TrueHangupIsEnd == Spec => []HangupTrueMeansOver
<1>1. DialogInv => HangupTrueMeansOver
    BY DEF DialogInv, ByeInv, OverInv, OverAtPeer, HangupTrueMeansOver
<1> QED BY <1>1, DialogInvariance, PTL
=============================================================================
