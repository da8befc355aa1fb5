------------------------- MODULE IncomingCallProofs --------------------------
(***************************************************************************)
(* Proofs about IncomingCall, for any number of concurrent Hangup calls    *)
(* and of decisions of the script: type correctness, the safety properties *)
(* every call shares, what the caller is told, and refinement of           *)
(* CallLifecycle.                                                          *)
(***************************************************************************)
EXTENDS IncomingCall, CallCoreProofs

\* Before the INVITE arrives nothing has happened.
IdleInv ==
    pc[Invite] = "idle" =>
        /\ \A t \in Threads : pc[t] = "idle"
        /\ call.state = StateCalling
        /\ ~inCalls /\ timer = "off" /\ dialog = "none" /\ ~delivered

\* InviteAnswered and ConnectedMeansConfirmed with what keeps them: what the
\* caller has been told at each place the handler can stand.
AnswerInv ==
    /\ pc[Invite] \in FinishPc \cup {"bye", "byesent", "exit"} => final # 0 \/ writeFailed
    /\ pc[Invite] \in {"acking", "mark", "media"} => final = 200
    /\ pc[Invite] \in {"mark", "media"} => acked
    /\ cancelled => final # 0
    /\ call.tAnswer => acked /\ final = 200

SideInv == IdleInv /\ AnswerInv

Inv == TypeOK /\ CoreInv /\ SideInv

AllPc == FinishPc \cup CorePc \cup OutgoingPc \cup IncomingPc
HandlerPc == FinishPc \cup CorePc \cup IncomingPc
-----------------------------------------------------------------------------
USE DEF StateCalling, StateRinging, StateConnected, StateEnded

\* The handler moves to one of its own labels.
LEMMA InviteGoto ==
    ASSUME CoreTypeOK, NEW l \in IncomingPc \cup {"exit"}, Goto(Invite, l)
    PROVE  /\ pc' \in [Threads -> AllPc]
           /\ pc'[Invite] = l
           /\ l \in OtherPc
           /\ l \in HandlerPc
           /\ l # "idle"
BY ThreadNames DEF CoreTypeOK, Goto, OtherPc, CorePc, IncomingPc, AllPc, HandlerPc

\* The handler calls finish, with a status that is not 200.
LEMMA InviteFinish ==
    ASSUME Inv, NEW by \in EndedBy, NEW status \in Nat, status # 200,
           pc[Invite] \in IncomingPc,
           Finish(Invite, by, status), UNCHANGED <<inCalls, media, timer, callEnds>>
    PROVE  /\ CoreInv'
           /\ call' \in Calls
           /\ pc' \in [Threads -> AllPc]
           /\ wasConnected' \in [Threads -> BOOLEAN]
           /\ pc'[Invite] \in {"fin1", "exit"}
           /\ pc'[Invite] \in HandlerPc
           /\ call'.tAnswer = call.tAnswer
           /\ LifecycleStep
<1>0. CoreTypeOK /\ CoreInv /\ call \in Calls
    BY DEF Inv, TypeOK, CoreTypeOK
<1>1. pc[Invite] \notin FinishPc
    BY DEF IncomingPc, FinishPc
<1>2. /\ CoreInv'
      /\ call' \in Calls
      /\ pc' \in [Threads -> AllPc]
      /\ wasConnected' \in [Threads -> BOOLEAN]
    BY <1>0, <1>1, ThreadNames, FinishKeeps DEF AllPc
<1>3. pc'[Invite] \in {"fin1", "exit"}
    BY <1>0, ThreadNames DEF Finish, Goto, CoreTypeOK
<1>4. call'.tAnswer = call.tAnswer
    BY <1>0, FinishLockedFacts DEF Finish
<1>5. LifecycleStep
    BY <1>0, ThreadNames, FinishRefines
<1> QED BY <1>2, <1>3, <1>4, <1>5 DEF FinishPc, CorePc, HandlerPc
-----------------------------------------------------------------------------
(* onInvite up to the select                                               *)

\* An INVITE that cannot be read, or that becomes a registered call
LEMMA ArriveKeeps == Inv /\ (InviteUnreadable \/ InviteArrives) => Inv' /\ LifecycleStep
<1> SUFFICES ASSUME Inv, InviteUnreadable \/ InviteArrives PROVE Inv' /\ LifecycleStep
    OBVIOUS
<1> USE DEF Inv
<1>0. /\ TypeOK /\ CoreTypeOK /\ pc[Invite] = "idle" /\ call.state # StateEnded
      /\ ~call.tAnswer
    BY DEF InviteUnreadable, InviteArrives, SideInv, IdleInv, TypeOK, CoreInv, ChannelInv
<1>1. /\ UNCHANGED <<call, byeBy, media, timer, callEnds, wasConnected, byeRes, ret, dialog, byeLost>>
      /\ UNCHANGED <<delivered, decides, writeFailed, acked, cancelled, destroyed>>
      /\ inCalls' \in BOOLEAN /\ decision' \in {0, 200, 486, 603} /\ final' \in Finals \cup {0}
    <2>1. 400 \in Finals
        BY DEF Finals
    <2>2. CASE InviteUnreadable
        BY <1>0, <2>1, <2>2 DEF InviteUnreadable, TypeOK, CoreTypeOK
    <2>3. CASE InviteArrives
        BY <1>0, <2>3 DEF InviteArrives, TypeOK, CoreTypeOK
    <2> QED BY <2>2, <2>3
<1>2. PICK l \in {"exit", "ring", "ringing"} : Goto(Invite, l)
    BY DEF InviteUnreadable, InviteArrives
<1>3. /\ pc' \in [Threads -> AllPc] /\ pc'[Invite] = l /\ l \in OtherPc /\ l \in HandlerPc
    BY <1>0, <1>2, InviteGoto DEF IncomingPc
<1>4. TypeOK'
    BY <1>0, <1>1, <1>3 DEF TypeOK, CoreTypeOK, AllPc, HandlerPc
<1>5. CoreInv'
    BY <1>0, <1>1, <1>2, <1>3, ThreadNames, MoveKeeps DEF FinishPc
<1>6. final' = final \/ (final' = 400 /\ final' # 0)
    BY DEF InviteUnreadable, InviteArrives
<1>7. l = "exit" => final' = 400
    BY <1>0, <1>2, <1>3 DEF InviteUnreadable, InviteArrives, Goto, CoreTypeOK
<1>8. SideInv'
    BY <1>0, <1>1, <1>3, <1>6, <1>7 DEF SideInv, IdleInv, AnswerInv, FinishPc
<1>9. LifecycleStep
    BY <1>1, SameView
<1> QED BY <1>4, <1>5, <1>8, <1>9

\* An INVITE that is refused before anyone has the call
LEMMA RefuseKeeps == Inv /\ InviteRefused => Inv' /\ LifecycleStep
<1> SUFFICES ASSUME Inv, InviteRefused PROVE Inv' /\ LifecycleStep
    OBVIOUS
<1> USE DEF Inv
<1> DEFINE f == FinishLocked(call, "local", final')
<1>0. /\ CoreTypeOK /\ pc[Invite] = "idle" /\ call \in Calls
      /\ (\A t \in Threads : pc[t] = "idle") /\ call.state = StateCalling
      /\ ~inCalls /\ timer = "off"
    BY DEF InviteRefused, SideInv, IdleInv, TypeOK, CoreTypeOK
<1>1. /\ Goto(Invite, "exit") /\ final' \in {481, 488} /\ media' = "closed"
      /\ call' = [f EXCEPT !.done = CloseChan(@)]
      /\ UNCHANGED <<byeBy, inCalls, timer, callEnds, wasConnected, byeRes, ret, dialog, byeLost>>
      /\ UNCHANGED <<decision, delivered, decides, writeFailed, acked, cancelled, destroyed>>
    BY DEF InviteRefused
<1>2. /\ f \in Calls /\ f.state = StateEnded /\ f.status = final'
      /\ f.tAnswer = call.tAnswer /\ f.ringing = CloseChan(call.ringing)
      /\ f.connected = call.connected /\ f.done = call.done
    <2>1. final' \in Nat /\ final' # 0 /\ "local" \in EndedBy
        BY <1>1 DEF EndedBy
    <2> QED BY <1>0, <2>1, FinishLockedFacts
<1> HIDE DEF f
<1>3. /\ call' \in Calls /\ call'.state = f.state /\ call'.status = f.status
      /\ call'.tAnswer = f.tAnswer /\ call'.ringing = f.ringing
      /\ call'.connected = f.connected /\ call'.done = CloseChan(f.done)
    BY <1>1, <1>2, CloseDoneFacts
<1>4. pc' \in [Threads -> AllPc] /\ pc'[Invite] = "exit" /\ "exit" \in HandlerPc
    BY <1>0, <1>1, InviteGoto
<1>5. TypeOK'
    BY <1>1, <1>3, <1>4 DEF TypeOK, CoreTypeOK, AllPc, HandlerPc, Finals
<1>6. call.done = "open" /\ call.ringing = "open" /\ ~call.tAnswer /\ callEnds = 0 /\ call.status = 0
    BY <1>0 DEF CoreInv, ChannelInv, OwnerInv, CleanupInv, StatusInv
<1>7. ChannelInv' /\ StatusInv'
    BY <1>1, <1>2, <1>3, <1>6 DEF CoreInv, ChannelInv, StatusInv, CloseChan
<1>8. \A t \in Threads : pc'[t] \notin FinishPc
    BY <1>0, <1>1 DEF Goto, CoreTypeOK, FinishPc
<1>9. call'.done = "closed" /\ call'.state = StateEnded /\ Reported'
    BY <1>1, <1>2, <1>3, <1>6 DEF CloseChan, Reported
<1>10. OwnerInv'
    BY <1>8, <1>9 DEF OwnerInv
<1>11. CleanupInv'
    BY <1>0, <1>1, <1>8, <1>9 DEF CleanupInv, FinishPc
<1>12. SideInv'
    BY <1>1, <1>2, <1>3, <1>4, <1>6 DEF SideInv, IdleInv, AnswerInv, FinishPc
<1>13. Lifecycle!End
    BY <1>0, <1>1, <1>2, <1>3, <1>6, <1>9 DEF Lifecycle!End
<1>14. LifecycleStep
    BY <1>13 DEF LifecycleStep, Lifecycle!Next
<1> QED BY <1>5, <1>7, <1>10, <1>11, <1>12, <1>14 DEF CoreInv

\* The cases in which the handler gives up: the 180 or the 200 cannot be
\* written, a refusal, CANCEL, the ring timeout, Destroy, no ACK
LEMMA GiveUpKeeps ==
    ASSUME Inv, NEW by \in EndedBy, NEW status \in Nat, status # 200,
           Finish(Invite, by, status),
           pc[Invite] \in {"ring", "select", "answer", "acking"},
           UNCHANGED <<byeBy, inCalls, media, timer, callEnds, byeRes, ret, dialog, byeLost>>,
           UNCHANGED <<delivered, decides, acked, cancelled, destroyed>>,
           decision' \in {0, 200, 486, 603}, final' \in Finals \cup {0}, writeFailed' \in BOOLEAN,
           final # 0 => final' = final,
           final' # 0 \/ writeFailed'
    PROVE  Inv' /\ LifecycleStep
<1> USE DEF Inv
<1>1. /\ CoreInv'
      /\ call' \in Calls
      /\ pc' \in [Threads -> AllPc]
      /\ wasConnected' \in [Threads -> BOOLEAN]
      /\ pc'[Invite] \in {"fin1", "exit"}
      /\ pc'[Invite] \in HandlerPc
      /\ call'.tAnswer = call.tAnswer
      /\ LifecycleStep
    <2>1. pc[Invite] \in IncomingPc
        BY DEF IncomingPc
    <2> HIDE DEF Inv
    <2> QED BY <2>1, InviteFinish
<1>2. TypeOK'
    BY <1>1 DEF TypeOK, CoreTypeOK, AllPc, HandlerPc
<1>3. SideInv'
    BY <1>1 DEF SideInv, IdleInv, AnswerInv
<1> QED BY <1>1, <1>2, <1>3

\* The handler moves on without touching the call.
LEMMA MoveOnKeeps ==
    ASSUME Inv, NEW l \in IncomingPc \cup {"exit"}, Goto(Invite, l),
           pc[Invite] \in IncomingPc,
           UNCHANGED <<call, byeBy, inCalls, callEnds, wasConnected, byeRes, ret, byeLost>>,
           UNCHANGED <<delivered, decides, cancelled, destroyed>>,
           media' \in {"open", "sending", "closed"}, media = "closed" => media' = "closed",
           timer' \in {"off", "armed", "stopped"},
           timer' = "armed" => timer = "armed" \/ call.state # StateEnded,
           dialog' \in {"none", "up", "down"},
           decision' \in {0, 200, 486, 603}, final' \in Finals \cup {0}, writeFailed' = writeFailed,
           acked' \in BOOLEAN, acked => acked',
           final # 0 => final' = final,
           l \in {"acking", "mark", "media", "exit"} => final' = 200,
           l \in {"mark", "media"} => acked'
    PROVE  Inv' /\ LifecycleStep
<1> USE DEF Inv
<1>0. TypeOK /\ CoreTypeOK /\ CoreInv /\ pc[Invite] \notin FinishPc
    BY DEF TypeOK, IncomingPc, FinishPc
<1>1. pc' \in [Threads -> AllPc] /\ pc'[Invite] = l /\ l \in OtherPc /\ l \in HandlerPc /\ l # "idle"
    BY <1>0, InviteGoto
<1>2. TypeOK'
    BY <1>0, <1>1 DEF TypeOK, CoreTypeOK, AllPc, HandlerPc
<1>3. CoreInv'
    BY <1>0, <1>1, ThreadNames, MoveKeeps
<1>4. l \notin FinishPc \cup {"bye", "byesent"}
    BY DEF IncomingPc, FinishPc
<1>5. SideInv'
    BY <1>1, <1>4 DEF SideInv, IdleInv, AnswerInv
<1>6. LifecycleStep
    BY SameView
<1> QED BY <1>2, <1>3, <1>5, <1>6

\* What both lemmas need to know of the present state
LEMMA HandlerFacts ==
    ASSUME Inv
    PROVE  /\ CoreTypeOK /\ call \in Calls
           /\ decision \in {0, 200, 486, 603} /\ final \in Finals \cup {0}
           /\ writeFailed \in BOOLEAN /\ acked \in BOOLEAN
           /\ media \in {"open", "sending", "closed"} /\ timer \in {"off", "armed", "stopped"}
           /\ dialog \in {"none", "up", "down"}
           /\ {"local", "remote", "timeout", "error"} \subseteq EndedBy
           /\ \A r \in {200, 480, 481, 486, 487, 488, 603} : r \in Finals
<1>1. {"local", "remote", "timeout", "error"} \subseteq EndedBy
    BY DEF EndedBy
<1>2. \A r \in {200, 480, 481, 486, 487, 488, 603} : r \in Finals
    BY DEF Finals
<1> QED BY <1>1, <1>2 DEF Inv, TypeOK, CoreTypeOK

\* ring
LEMMA RingKeeps == Inv /\ Ring => Inv' /\ LifecycleStep
<1> SUFFICES ASSUME Inv, Ring PROVE Inv' /\ LifecycleStep
    OBVIOUS
<1>1. CASE Goto(Invite, "ringing") /\ UNCHANGED <<call, wasConnected, writeFailed>>
    BY <1>1, HandlerFacts, MoveOnKeeps DEF Ring, IncomingPc
<1>2. CASE Finish(Invite, "error", 0) /\ writeFailed' = TRUE
    BY <1>2, HandlerFacts, GiveUpKeeps DEF Ring
<1> QED BY <1>1, <1>2 DEF Ring

\* The select: a decision of the script
LEMMA DecisionKeeps == Inv /\ TakeDecision => Inv' /\ LifecycleStep
<1> SUFFICES ASSUME Inv, TakeDecision PROVE Inv' /\ LifecycleStep
    OBVIOUS
<1>1. CASE Goto(Invite, "answer") /\ UNCHANGED <<call, wasConnected, final>>
    BY <1>1, HandlerFacts, MoveOnKeeps DEF TakeDecision, IncomingPc
<1>2. CASE decision # 200 /\ Respond(decision) /\ Finish(Invite, "local", decision)
    <2>1. /\ decision \in Nat /\ decision \in Finals /\ decision # 0 /\ final' \in Finals
          /\ final # 0 => final' = final
        BY <1>2, HandlerFacts DEF TakeDecision, Respond
    <2>2. final' # 0
        BY <2>1 DEF Finals
    <2> QED BY <1>2, <2>1, <2>2, HandlerFacts, GiveUpKeeps DEF TakeDecision
<1> QED BY <1>1, <1>2 DEF TakeDecision

\* The select: CANCEL, the ring timeout, Destroy
LEMMA SelectKeeps == Inv /\ (Cancelled \/ RingTimeout \/ DeviceGone) => Inv' /\ LifecycleStep
<1> SUFFICES ASSUME Inv, Cancelled \/ RingTimeout \/ DeviceGone PROVE Inv' /\ LifecycleStep
    OBVIOUS
<1>1. CASE Cancelled
    <2>1. final # 0 /\ final' = final
        BY <1>1 DEF Cancelled, Inv, SideInv, AnswerInv, uas
    <2> QED BY <1>1, <2>1, HandlerFacts, GiveUpKeeps DEF Cancelled, uas
<1>2. CASE RingTimeout \/ DeviceGone
    <2>1. Respond(480)
        BY <1>2 DEF RingTimeout, DeviceGone
    <2>2. final' # 0 /\ final' \in Finals \cup {0} /\ (final # 0 => final' = final)
        BY <2>1, HandlerFacts DEF Respond
    <2>3. PICK by \in EndedBy : Finish(Invite, by, 480)
        BY <1>2, HandlerFacts DEF RingTimeout, DeviceGone
    <2>4. /\ pc[Invite] = "select"
          /\ UNCHANGED <<byeBy, inCalls, media, timer, callEnds, byeRes, ret, dialog, byeLost>>
          /\ UNCHANGED <<decision, delivered, decides, writeFailed, acked, cancelled, destroyed>>
        BY <1>2 DEF RingTimeout, DeviceGone
    <2> QED BY <2>2, <2>3, <2>4, HandlerFacts, GiveUpKeeps
<1> QED BY <1>1, <1>2

\* answer: the 200 and its ACK
LEMMA AnswerKeeps == Inv /\ (Answer \/ AckArrives \/ AckTimeout) => Inv' /\ LifecycleStep
<1> SUFFICES ASSUME Inv, Answer \/ AckArrives \/ AckTimeout PROVE Inv' /\ LifecycleStep
    OBVIOUS
<1>1. CASE Answer
    <2>1. CASE /\ final = 0 /\ final' = 200 /\ dialog' = "up" /\ Goto(Invite, "acking")
               /\ UNCHANGED <<call, wasConnected, writeFailed>>
        BY <1>1, <2>1, HandlerFacts, MoveOnKeeps DEF Answer, IncomingPc
    <2>2. CASE /\ Finish(Invite, "error", 0)
               /\ writeFailed' = (writeFailed \/ final = 0)
               /\ UNCHANGED <<final, dialog>>
        <3>1. final' # 0 \/ writeFailed'
            BY <2>2, HandlerFacts
        <3>2. writeFailed' \in BOOLEAN
            BY <2>2, HandlerFacts
        <3> QED BY <1>1, <2>2, <3>1, <3>2, HandlerFacts, GiveUpKeeps DEF Answer
    <2> QED BY <1>1, <2>1, <2>2 DEF Answer
<1>2. CASE AckArrives
    <2>1. final = 200
        BY <1>2 DEF AckArrives, Inv, SideInv, AnswerInv
    <2> QED BY <1>2, <2>1, HandlerFacts, MoveOnKeeps DEF AckArrives, IncomingPc
<1>3. CASE AckTimeout
    <2>1. final = 200
        BY <1>3 DEF AckTimeout, Inv, SideInv, AnswerInv
    <2> QED BY <1>3, <2>1, HandlerFacts, GiveUpKeeps DEF AckTimeout, uas
<1> QED BY <1>1, <1>2, <1>3

\* startMedia and the session timer
LEMMA MediaKeeps == Inv /\ StartMedia => Inv' /\ LifecycleStep
<1> SUFFICES ASSUME Inv, StartMedia PROVE Inv' /\ LifecycleStep
    OBVIOUS
<1>1. final = 200
    BY DEF StartMedia, Inv, SideInv, AnswerInv
<1>2. /\ timer' \in {"off", "armed", "stopped"}
      /\ timer' = "armed" => timer = "armed" \/ call.state # StateEnded
    BY HandlerFacts DEF StartMedia, ArmSession
<1>3. media' \in {"open", "sending", "closed"} /\ (media = "closed" => media' = "closed")
    BY HandlerFacts DEF StartMedia
<1>4. /\ pc[Invite] = "media" /\ Goto(Invite, "exit")
      /\ UNCHANGED <<call, byeBy, inCalls, callEnds, wasConnected, byeRes, ret, dialog, byeLost>>
      /\ UNCHANGED <<decision, delivered, decides, final, writeFailed, acked, cancelled, destroyed>>
    BY DEF StartMedia, uas
<1> QED BY <1>1, <1>2, <1>3, <1>4, HandlerFacts, MoveOnKeeps DEF IncomingPc

\* markRinging and markConnected
LEMMA MarkKeeps == Inv /\ (Deliver \/ Mark) => Inv' /\ LifecycleStep
<1> SUFFICES ASSUME Inv, Deliver \/ Mark PROVE Inv' /\ LifecycleStep
    OBVIOUS
<1> USE DEF Inv
<1>0. TypeOK /\ CoreTypeOK /\ CoreInv /\ call \in Calls /\ call.state \in 0..3
    BY DEF TypeOK, CoreTypeOK, Calls
<1>1. /\ UNCHANGED <<byeBy, inCalls, media, timer, callEnds, wasConnected, byeRes, ret, dialog, byeLost>>
      /\ UNCHANGED <<decision, decides, final, writeFailed, acked, cancelled, destroyed>>
      /\ delivered' \in BOOLEAN
    BY DEF Deliver, Mark, uas, TypeOK
<1>2. /\ call' \in Calls /\ ChannelInv' /\ StatusInv'
      /\ (call'.state = StateEnded <=> call.state = StateEnded)
      /\ call'.done = call.done
      /\ (call.state = StateEnded => call'.tAnswer = call.tAnswer)
      /\ Deliver => call'.tAnswer = call.tAnswer
    <2>1. CASE call' = call
        BY <2>1, <1>0 DEF CoreInv, ChannelInv, StatusInv
    <2>2. CASE call.state = StateCalling /\ call' = MarkRinging(call)
        <3>1. /\ call' \in Calls /\ call'.state = StateRinging /\ call'.status = call.status
              /\ call'.tAnswer = call.tAnswer /\ call'.ringing = CloseChan(call.ringing)
              /\ call'.connected = call.connected /\ call'.done = call.done
            BY <2>2, <1>0, MarkRingingFacts
        <3> QED BY <3>1, <2>2 DEF CoreInv, ChannelInv, StatusInv, CloseChan
    <2>3. CASE ~Deliver /\ call.state < StateConnected /\ call' = MarkConnected(call)
        <3>1. /\ call' \in Calls /\ call'.state = StateConnected /\ call'.status = 200
              /\ call'.tAnswer = TRUE
              /\ call'.ringing = IF call.state = StateCalling THEN CloseChan(call.ringing) ELSE call.ringing
              /\ call'.connected = CloseChan(call.connected) /\ call'.done = call.done
            BY <2>3, <1>0, MarkConnectedFacts
        <3>2. call.connected = "open" /\ call.state # StateEnded
            BY <2>3, <1>0 DEF CoreInv, ChannelInv
        <3> QED BY <3>1, <3>2, <2>3, <1>0 DEF CoreInv, ChannelInv, StatusInv, CloseChan
    <2>4. Deliver => call' = MarkRinging(call)
        BY DEF Deliver
    <2>5. ~Deliver => call' = MarkConnected(call)
        BY DEF Mark
    <2>6. CASE Deliver
        BY <1>0, <2>1, <2>2, <2>4, <2>6, MarkRingingFacts
    <2>7. CASE ~Deliver
        <3>1. call.state < StateConnected \/ call' = call
            <4>1. call.state < StateConnected \/ call.state >= StateConnected
                BY <1>0
            <4>2. call.state >= StateConnected => MarkConnected(call) = call
                BY <1>0, MarkConnectedFacts
            <4> QED BY <4>1, <4>2, <2>5, <2>7
        <3> QED BY <2>1, <2>3, <2>5, <2>7, <3>1
    <2> QED BY <2>6, <2>7
<1>3. PICK l \in {"select", "media"} : Goto(Invite, l)
    BY DEF Deliver, Mark
<1>4. pc' \in [Threads -> AllPc] /\ pc'[Invite] = l /\ l \in OtherPc /\ l \in HandlerPc
    BY <1>0, <1>3, InviteGoto DEF IncomingPc
<1>5. TypeOK'
    BY <1>1, <1>2, <1>4 DEF TypeOK, CoreTypeOK, AllPc, HandlerPc
<1>6. pc[Invite] \notin FinishPc
    BY DEF Deliver, Mark, FinishPc
<1>7. CoreInv'
    BY <1>0, <1>1, <1>2, <1>3, <1>4, <1>6, ThreadNames, StepKeeps
<1>8. ~Deliver => final = 200 /\ acked
    BY DEF Mark, SideInv, AnswerInv
<1>9. Deliver => l = "select"
    BY <1>0, <1>3, <1>4 DEF Deliver, Goto, CoreTypeOK
<1>10. SideInv'
    BY <1>1, <1>2, <1>4, <1>8, <1>9 DEF SideInv, IdleInv, AnswerInv, FinishPc
<1>11. LifecycleStep
    BY <1>0, <1>1, RingRefines, AnswerRefines DEF Deliver, Mark
<1> QED BY <1>5, <1>7, <1>10, <1>11
-----------------------------------------------------------------------------
(* The others                                                              *)

\* Steps that leave the handler where it is and the call as it is seen
LEMMA SideKept ==
    ASSUME Inv, pc'[Invite] = pc[Invite], pc[Invite] # "idle", call'.tAnswer = call.tAnswer,
           final # 0 => final' = final, cancelled' => final' # 0,
           pc[Invite] \in {"acking", "mark", "media"} => final' = final,
           UNCHANGED <<writeFailed, acked>>
    PROVE  SideInv'
BY DEF Inv, SideInv, IdleInv, AnswerInv

\* accept, reject and hangup
LEMMA ScriptKeeps ==
    Inv /\ (Decide \/ \E h \in Hangers : HangupCall(h) \/ HangupReject(h)) => Inv' /\ LifecycleStep
<1> SUFFICES ASSUME Inv, Decide \/ \E h \in Hangers : HangupCall(h) \/ HangupReject(h)
             PROVE  Inv' /\ LifecycleStep
    OBVIOUS
<1> USE DEF Inv
<1>0. TypeOK /\ CoreTypeOK /\ CoreInv /\ (cancelled => final # 0)
    BY DEF TypeOK, SideInv, AnswerInv
<1>1. CASE Decide
    <2>1. /\ UNCHANGED <<call, byeBy, inCalls, media, timer, callEnds, pc, wasConnected, byeRes,
                         ret, dialog, byeLost>>
          /\ UNCHANGED <<delivered, final, writeFailed, acked, cancelled, destroyed>>
          /\ delivered
        BY <1>1 DEF Decide, core
    <2>2. decision' \in {0, 200, 486, 603} /\ decides' \in Nat
        BY <1>0, <1>1 DEF Decide, TypeOK
    <2>3. TypeOK'
        BY <1>0, <2>1, <2>2 DEF TypeOK, CoreTypeOK
    <2>4. CoreInv'
        BY <1>0, <2>1, MoveKeeps
    <2>5. pc[Invite] # "idle"
        BY <2>1 DEF SideInv, IdleInv
    <2>6. SideInv'
        BY <1>0, <2>1, <2>5, SideKept
    <2>7. LifecycleStep
        BY <2>1, SameView
    <2> QED BY <2>3, <2>4, <2>6, <2>7
<1>2. ASSUME NEW h \in Hangers, HangupCall(h) \/ HangupReject(h) PROVE Inv' /\ LifecycleStep
    <2>0. h \in Threads /\ h # Invite /\ Invite \in Threads
        BY ThreadNames, HangersAreThreads
    <2>1. CASE HangupCall(h)
        <3>1. HangupStart(h) /\ pc[Invite] # "idle"
            BY <2>1 DEF HangupCall, SideInv, IdleInv
        <3>2. UNCHANGED <<decision, delivered, decides, final, writeFailed, acked,
                          cancelled, destroyed>>
            BY <2>1 DEF HangupCall, uas
        <3>3. CoreTypeOK' /\ CoreInv'
            BY <1>0, <3>1, OthersKeep
        <3>4. pc'[Invite] = pc[Invite] /\ call' = call
            BY <1>0, <2>0, <3>1 DEF HangupStart, Goto, CoreTypeOK
        <3>5. TypeOK'
            BY <1>0, <3>2, <3>3, <3>4 DEF TypeOK
        <3>6. SideInv'
            BY <1>0, <3>1, <3>2, <3>4, SideKept
        <3>7. LifecycleStep
            BY <1>0, <3>1, CoreStepRefines
        <3> QED BY <3>3, <3>5, <3>6, <3>7
    <2>2. CASE HangupReject(h)
        <3>1. /\ pc[h] = "cancel" /\ Goto(h, "wait")
              /\ UNCHANGED <<call, byeBy, inCalls, media, timer, callEnds, wasConnected, byeRes,
                             ret, dialog, byeLost>>
              /\ UNCHANGED <<delivered, decides, final, writeFailed, acked, cancelled, destroyed>>
            BY <2>2 DEF HangupReject
        <3>2. decision' \in {0, 200, 486, 603}
            BY <1>0, <2>2 DEF HangupReject, TypeOK
        <3>3. "wait" \in OtherPc /\ pc[h] \notin FinishPc
            BY <3>1 DEF OtherPc, CorePc, FinishPc
        <3>4. CoreInv'
            BY <1>0, <2>0, <3>1, <3>3, MoveKeeps
        <3>5. pc' \in [Threads -> AllPc] /\ pc'[Invite] = pc[Invite]
            BY <1>0, <2>0, <3>1 DEF Goto, CoreTypeOK, CorePc, AllPc
        <3>6. TypeOK'
            BY <1>0, <3>1, <3>2, <3>5 DEF TypeOK, CoreTypeOK, AllPc
        <3>7. pc[Invite] # "idle"
            BY <2>0, <3>1 DEF SideInv, IdleInv
        <3>8. SideInv'
            BY <1>0, <3>1, <3>5, <3>7, SideKept
        <3>9. LifecycleStep
            BY <3>1, SameView
        <3> QED BY <3>4, <3>6, <3>8, <3>9
    <2> QED BY <1>2, <2>1, <2>2
<1> QED BY <1>1, <1>2

\* CANCEL, and Destroy; nothing happens
LEMMA OutsideKeeps == Inv /\ (PeerCancels \/ Destroyed \/ UNCHANGED vars) => Inv' /\ LifecycleStep
<1> SUFFICES ASSUME Inv, PeerCancels \/ Destroyed \/ UNCHANGED vars PROVE Inv' /\ LifecycleStep
    OBVIOUS
<1> USE DEF Inv
<1>0. TypeOK /\ CoreTypeOK /\ CoreInv
    BY DEF TypeOK
<1>1. /\ UNCHANGED <<call, byeBy, inCalls, media, timer, callEnds, pc, wasConnected, byeRes,
                     ret, dialog, byeLost>>
      /\ UNCHANGED <<decision, delivered, decides, writeFailed, acked>>
    BY DEF PeerCancels, Destroyed, vars, core, uas
<1>2. /\ final' \in Finals \cup {0} /\ cancelled' \in BOOLEAN /\ destroyed' \in BOOLEAN
    <2>1. CASE PeerCancels
        BY <2>1, HandlerFacts, <1>0 DEF PeerCancels, TypeOK
    <2>2. CASE Destroyed \/ UNCHANGED vars
        BY <2>2, <1>0 DEF Destroyed, TypeOK, vars, uas
    <2> QED BY <2>1, <2>2
<1>3. TypeOK'
    BY <1>0, <1>1, <1>2 DEF TypeOK, CoreTypeOK
<1>4. CoreInv'
    BY <1>0, <1>1, MoveKeeps
<1>5. SideInv'
    <2>1. CASE PeerCancels
        BY <2>1, <1>1 DEF PeerCancels, SideInv, IdleInv, AnswerInv
    <2>2. CASE Destroyed \/ UNCHANGED vars
        BY <2>2, <1>1 DEF Destroyed, vars, uas, SideInv, IdleInv, AnswerInv
    <2> QED BY <2>1, <2>2
<1>6. LifecycleStep
    BY <1>1, SameView
<1> QED BY <1>3, <1>4, <1>5, <1>6

\* The steps an incoming call shares with an outgoing one do not answer it.
LEMMA SharedKeeps ==
    ASSUME Inv, CoreProgress \/ CoreEnv(TRUE), UNCHANGED uas
    PROVE  Inv' /\ LifecycleStep
<1> USE DEF Inv
<1>0. TypeOK /\ CoreTypeOK /\ CoreInv
    BY DEF TypeOK
<1>1. PICK known \in BOOLEAN : CoreProgress \/ CoreEnv(known)
    BY Zenon
<1>2. CoreTypeOK' /\ CoreInv' /\ LifecycleStep
    BY <1>0, <1>1, CoreStepKeeps, CoreStepRefines
<1>3. UNCHANGED <<decision, delivered, decides, final, writeFailed, acked, cancelled, destroyed>>
    BY DEF uas
<1>4. \/ pc'[Invite] = pc[Invite]
      \/ /\ pc[Invite] \in FinishPc \cup {"bye", "byesent"}
         /\ pc'[Invite] \in FinishPc \cup {"byesent", "exit"}
    BY <1>0, <1>1, InviteMoves
<1>5. pc[Invite] # "idle"
    BY <1>1, NothingYet DEF SideInv, IdleInv
<1>6. call'.tAnswer = call.tAnswer
    BY <1>0, <1>1, SharedAnswersNothing
<1>7. TypeOK'
    BY <1>0, <1>2, <1>3, <1>4 DEF TypeOK, CorePc
<1>8. SideInv'
    BY <1>3, <1>4, <1>5, <1>6 DEF SideInv, IdleInv, AnswerInv, FinishPc
<1> QED BY <1>2, <1>7, <1>8
-----------------------------------------------------------------------------
(* Theorems                                                                *)

\* Before the INVITE arrives the invariant holds.
LEMMA InitHolds == Init => Inv
<1> SUFFICES ASSUME Init PROVE Inv
    OBVIOUS
<1>1. CoreInit
    BY DEF Init
<1>2. CoreTypeOK /\ CoreInv
    BY <1>1, CoreInitHolds
<1>3. /\ \A t \in Threads : pc[t] = "idle"
      /\ pc[Invite] = "idle" /\ call.state = StateCalling /\ ~call.tAnswer
      /\ ~inCalls /\ timer = "off" /\ dialog = "none"
    BY <1>1, ThreadNames, NewCallFacts DEF CoreInit
<1>4. TypeOK
    BY <1>2, <1>3 DEF Init, TypeOK, CorePc
<1>5. SideInv
    BY <1>3 DEF Init, SideInv, IdleInv, AnswerInv, FinishPc
<1> QED BY <1>2, <1>4, <1>5 DEF Inv

\* Every step keeps it, and is a step of CallLifecycle or unseen by it.
LEMMA StepHolds == Inv /\ [Next]_vars => Inv' /\ LifecycleStep
<1> SUFFICES ASSUME Inv, [Next]_vars PROVE Inv' /\ LifecycleStep
    OBVIOUS
<1>1. CASE InviteUnreadable \/ InviteArrives
    BY <1>1, ArriveKeeps
<1>2. CASE InviteRefused
    BY <1>2, RefuseKeeps
<1>3. CASE Ring
    BY <1>3, RingKeeps
<1>4. CASE Deliver \/ Mark
    BY <1>4, MarkKeeps
<1>5. CASE TakeDecision
    BY <1>5, DecisionKeeps
<1>6. CASE Cancelled \/ RingTimeout \/ DeviceGone
    BY <1>6, SelectKeeps
<1>7. CASE Answer \/ AckArrives \/ AckTimeout
    BY <1>7, AnswerKeeps
<1>8. CASE StartMedia
    BY <1>8, MediaKeeps
<1>9. CASE Decide \/ \E h \in Hangers : HangupCall(h) \/ HangupReject(h)
    BY <1>9, ScriptKeeps
<1>10. CASE (CoreProgress \/ CoreEnv(TRUE)) /\ UNCHANGED uas
    BY <1>10, SharedKeeps
<1>11. CASE PeerCancels \/ Destroyed \/ UNCHANGED vars
    BY <1>11, OutsideKeeps
<1> QED BY <1>1, <1>2, <1>3, <1>4, <1>5, <1>6, <1>7, <1>8, <1>9, <1>10, <1>11, Zenon
        DEF Next, Handler

\* The inductive invariant holds throughout.
THEOREM Invariance == Spec => []Inv
<1>1. Init => Inv
    BY InitHolds
<1>2. Inv /\ [Next]_vars => Inv'
    BY StepHolds
<1> QED BY <1>1, <1>2, PTL DEF Spec

\* Every variable keeps its type, with any number of decisions and of Hangup
\* calls.
THEOREM TypeCorrect == Spec => []TypeOK
<1>1. Inv => TypeOK
    BY DEF Inv
<1> QED BY <1>1, Invariance, PTL

\* However many goroutines ring, answer and end an incoming call, none closes
\* a channel that is closed already.
THEOREM NeverPanics == Spec => []NoDoubleClose
<1>1. Inv => NoDoubleClose
    BY CoreInvGives DEF Inv, TypeOK
<1> QED BY <1>1, Invariance, PTL

\* Exactly one goroutine passes the guard of finish and cleans up.
THEOREM EndsOnce == Spec => []OneFinisher
<1>1. Inv => OneFinisher
    BY CoreInvGives DEF Inv, TypeOK
<1> QED BY <1>1, Invariance, PTL

\* Whoever is woken by done finds the call cleaned up and reported.
THEOREM CleansUp == Spec => []DoneMeansCleanedUp
<1>1. Inv => DoneMeansCleanedUp
    BY CoreInvGives DEF Inv, TypeOK
<1> QED BY <1>1, Invariance, PTL

\* The handler never returns without a final response to the INVITE, unless
\* the transport refused one.
THEOREM AlwaysAnswered == Spec => []InviteAnswered
<1>1. Inv => InviteAnswered
    BY DEF Inv, SideInv, AnswerInv, InviteAnswered
<1> QED BY <1>1, Invariance, PTL

\* An incoming call counts as answered only after the ACK for its 200.
THEOREM AnsweredIsConfirmed == Spec => []ConnectedMeansConfirmed
<1>1. Inv => ConnectedMeansConfirmed
    BY DEF Inv, SideInv, AnswerInv, CoreInv, StatusInv, ConnectedMeansConfirmed
<1> QED BY <1>1, Invariance, PTL

\* An incoming call keeps the promises of CallLifecycle.
THEOREM RefinesLifecycle == Spec => KeepsLifecycle
<1>1. Init => Lifecycle!Init
    BY NewCallFacts DEF Init, CoreInit, Lifecycle!Init
<1>2. Inv /\ [Next]_vars => [Lifecycle!Next]_(Lifecycle!vars)
    BY StepHolds DEF LifecycleStep
<1> QED BY <1>1, <1>2, Invariance, PTL DEF Spec, KeepsLifecycle, Lifecycle!Spec
-----------------------------------------------------------------------------
(* Dialogs ended                                                           *)

\* The caller has a dialog from our 200 on, which is the first final response.
OfferedInv ==
    /\ dialog # "none" => final = 200
    /\ pc[Invite] \in {"acking", "mark", "media"} => dialog # "none"

\* A call that has ended is over at the caller, unless the handler ended it
\* before the ACK arrived, after which it takes none.
OverInv ==
    /\ pc[Invite] \in {"idle", "ring", "ringing", "select", "answer", "acking"} => ~acked
    /\ call.state = StateEnded => OverAtPeer \/ (~acked /\ pc[Invite] \in EndPc)

DialogInv == ByeInv /\ OfferedInv /\ OverInv

\* The handler gives up: no ACK has arrived by then, and none is taken later.
LEMMA GiveUpDialogs ==
    ASSUME Inv, DialogInv, NEW l \in {"fin1", "exit"}, Goto(Invite, l),
           pc[Invite] \in {"idle", "ring", "select", "answer", "acking"},
           call'.tAnswer = call.tAnswer, call.state = StateEnded => call'.state = StateEnded,
           UNCHANGED <<byeRes, ret, dialog, byeLost, acked>>,
           dialog # "none" => final' = 200
    PROVE  DialogInv'
<1> USE DEF DialogInv
<1>0. CoreTypeOK /\ pc'[Invite] = l
    BY ThreadNames DEF Inv, TypeOK, CoreTypeOK, Goto
<1>1. ByeInv' /\ (OverAtPeer => OverAtPeer')
    BY <1>0, InviteDialogs
<1>2. OfferedInv'
    BY <1>0 DEF OfferedInv
<1>3. OverInv'
    BY <1>0 DEF OverInv, EndPc, FinishPc
<1> QED BY <1>1, <1>2, <1>3

\* The handler goes on.  It is not in finish, so that a call which has ended
\* meanwhile was ended by a BYE.
LEMMA GoOnDialogs ==
    ASSUME Inv, DialogInv, NEW l \in IncomingPc \cup {"exit"}, Goto(Invite, l),
           pc[Invite] \in IncomingPc \cup {"idle"},
           call'.tAnswer => call.tAnswer \/ dialog # "none",
           call'.state = StateEnded <=> call.state = StateEnded,
           dialog' = dialog \/ (dialog = "none" /\ dialog' = "up"),
           UNCHANGED <<byeRes, ret, byeLost>>,
           dialog' # "none" => final' = 200,
           l \in {"acking", "mark", "media"} => dialog' # "none",
           l \in {"ring", "ringing", "select", "answer", "acking"} => ~acked'
    PROVE  DialogInv'
<1> USE DEF DialogInv
<1>0. CoreTypeOK /\ pc'[Invite] = l /\ pc[Invite] \notin EndPc /\ l \notin {"idle", "bye", "byesent"}
    BY ThreadNames DEF Inv, TypeOK, CoreTypeOK, Goto, IncomingPc, EndPc, FinishPc
<1>1. ByeInv' /\ (OverAtPeer => OverAtPeer')
    BY <1>0, InviteDialogs
<1>2. OfferedInv'
    BY <1>0 DEF OfferedInv
<1>3. OverInv'
    BY <1>0, <1>1 DEF OverInv
<1> QED BY <1>1, <1>2, <1>3

\* onInvite up to the select
LEMMA ArriveDialogs ==
    ASSUME Inv, Inv', LifecycleStep, DialogInv,
           InviteUnreadable \/ InviteRefused \/ InviteArrives \/ Ring \/ Deliver
    PROVE  DialogInv'
<1>0. /\ CoreTypeOK /\ call \in Calls /\ (call.state = StateEnded => call'.state = StateEnded)
      /\ pc[Invite] = "idle" => dialog = "none" /\ call.state = StateCalling /\ ~acked
      /\ pc[Invite] \in {"ring", "ringing"} => ~acked
      /\ dialog # "none" => final = 200
    BY EndedStays DEF Inv, TypeOK, CoreTypeOK, SideInv, IdleInv, DialogInv, OverInv, OfferedInv
<1>1. CASE InviteUnreadable
    BY <1>0, <1>1, GoOnDialogs DEF InviteUnreadable
<1>2. CASE InviteRefused
    <2>1. call'.tAnswer = call.tAnswer
        <3> DEFINE f == FinishLocked(call, "local", final')
        <3>1. "local" \in EndedBy /\ final' \in Nat
            BY <1>2 DEF InviteRefused, EndedBy
        <3>2. f \in Calls /\ f.tAnswer = call.tAnswer
            BY <1>0, <3>1, FinishLockedFacts
        <3>3. call' = [f EXCEPT !.done = CloseChan(@)]
            BY <1>2 DEF InviteRefused
        <3> HIDE DEF f
        <3> QED BY <3>2, <3>3, CloseDoneFacts
    <2> QED BY <1>0, <1>2, <2>1, GiveUpDialogs DEF InviteRefused
<1>3. CASE InviteArrives
    <2>1. PICK l \in {"ring", "ringing"} : Goto(Invite, l)
        BY <1>3 DEF InviteArrives
    <2> QED BY <1>0, <1>3, <2>1, GoOnDialogs DEF InviteArrives, IncomingPc
<1>4. CASE Ring /\ Goto(Invite, "ringing") /\ UNCHANGED call
    BY <1>0, <1>4, GoOnDialogs DEF Ring, IncomingPc
<1>5. CASE Ring /\ Finish(Invite, "error", 0)
    <2>1. call'.tAnswer = call.tAnswer /\ \E l \in {"fin1", "exit"} : Goto(Invite, l)
        <3>1. "error" \in EndedBy
            BY DEF EndedBy
        <3> QED BY <1>0, <1>5, <3>1, ThreadNames, FinishEnds
    <2> QED BY <1>0, <1>5, <2>1, GiveUpDialogs DEF Ring
<1>6. CASE Deliver
    <2>1. /\ call'.tAnswer = call.tAnswer
          /\ call'.state = StateEnded <=> call.state = StateEnded
        BY <1>0, <1>6, MarkRingingFacts DEF Deliver
    <2> QED BY <1>0, <1>6, <2>1, GoOnDialogs DEF Deliver, IncomingPc
<1> QED BY <1>1, <1>2, <1>3, <1>4, <1>5, <1>6 DEF Ring

\* The select
LEMMA SelectDialogs ==
    ASSUME Inv, Inv', LifecycleStep, DialogInv,
           TakeDecision \/ Cancelled \/ RingTimeout \/ DeviceGone
    PROVE  DialogInv'
<1>0. /\ CoreTypeOK /\ call \in Calls /\ (call.state = StateEnded => call'.state = StateEnded)
      /\ pc[Invite] = "select" /\ ~acked
      /\ dialog # "none" => final = 200
      /\ decision \in Nat
    BY EndedStays DEF Inv, TypeOK, CoreTypeOK, DialogInv, OverInv, OfferedInv,
                      TakeDecision, Cancelled, RingTimeout, DeviceGone
<1>1. CASE TakeDecision /\ Goto(Invite, "answer") /\ UNCHANGED <<call, final>>
    BY <1>0, <1>1, GoOnDialogs DEF TakeDecision, IncomingPc
<1>2. ASSUME NEW by \in EndedBy, NEW status \in Nat, Finish(Invite, by, status) PROVE DialogInv'
    <2>1. call'.tAnswer = call.tAnswer /\ \E l \in {"fin1", "exit"} : Goto(Invite, l)
        BY <1>0, <1>2, ThreadNames, FinishEnds
    <2>2. UNCHANGED <<byeRes, ret, dialog, byeLost, acked>>
        BY DEF TakeDecision, Cancelled, RingTimeout, DeviceGone, uas
    <2>3. dialog # "none" => final' = 200
        BY <1>0 DEF TakeDecision, Cancelled, RingTimeout, DeviceGone, uas, Respond
    <2> QED BY <1>0, <2>1, <2>2, <2>3, GiveUpDialogs
<1>3. {"local", "remote", "timeout"} \subseteq EndedBy /\ 480 \in Nat /\ 487 \in Nat
    BY DEF EndedBy
<1> QED BY <1>0, <1>1, <1>2, <1>3 DEF TakeDecision, Cancelled, RingTimeout, DeviceGone

\* answer
LEMMA AnswerDialogs ==
    ASSUME Inv, Inv', LifecycleStep, DialogInv,
           Answer \/ AckArrives \/ AckTimeout \/ Mark \/ StartMedia
    PROVE  DialogInv'
<1>0. /\ CoreTypeOK /\ call \in Calls /\ (call.state = StateEnded => call'.state = StateEnded)
      /\ pc[Invite] \in {"answer", "acking"} => ~acked
      /\ pc[Invite] \in {"acking", "mark", "media"} => dialog # "none"
      /\ dialog # "none" => final = 200
    BY EndedStays DEF Inv, TypeOK, CoreTypeOK, DialogInv, OverInv, OfferedInv
<1>1. CASE /\ Answer /\ final = 0 /\ final' = 200 /\ dialog' = "up" /\ Goto(Invite, "acking")
           /\ UNCHANGED call
    <2>1. dialog = "none"
        BY <1>0, <1>1
    <2> QED BY <1>0, <1>1, <2>1, GoOnDialogs DEF Answer, IncomingPc
<1>2. CASE (Answer /\ Finish(Invite, "error", 0) /\ UNCHANGED <<final, dialog>>) \/ AckTimeout
    <2>1. Finish(Invite, "error", 0) /\ "error" \in EndedBy
        BY <1>2 DEF AckTimeout, EndedBy
    <2>2. call'.tAnswer = call.tAnswer /\ \E l \in {"fin1", "exit"} : Goto(Invite, l)
        BY <1>0, <2>1, ThreadNames, FinishEnds
    <2>3. UNCHANGED <<byeRes, ret, dialog, byeLost, acked, final>> /\ pc[Invite] \in {"answer", "acking"}
        BY <1>2 DEF Answer, AckTimeout, uas
    <2> QED BY <1>0, <2>2, <2>3, GiveUpDialogs
<1>3. CASE AckArrives
    BY <1>0, <1>3, GoOnDialogs DEF AckArrives, IncomingPc
<1>4. CASE Mark
    <2>1. call'.state = StateEnded <=> call.state = StateEnded
        <3>1. call.state \in 0..3
            BY <1>0 DEF Calls
        <3>2. call' = MarkConnected(call)
            BY <1>4 DEF Mark
        <3>3. CASE call.state >= StateConnected
            BY <1>0, <3>2, <3>3, MarkConnectedFacts
        <3>4. CASE call.state < StateConnected
            <4>1. MarkConnected(call).state = StateConnected
                BY <1>0, <3>4, MarkConnectedFacts
            <4> QED BY <3>2, <3>4, <4>1
        <3> QED BY <3>1, <3>3, <3>4
    <2> QED BY <1>0, <1>4, <2>1, GoOnDialogs DEF Mark, IncomingPc, uas
<1>5. CASE StartMedia
    BY <1>0, <1>5, GoOnDialogs DEF StartMedia, IncomingPc, uas
<1> QED BY <1>1, <1>2, <1>3, <1>4, <1>5 DEF Answer

\* Everyone else: the handler stays where it is, or ends the call with its BYE.
LEMMA OtherStepDialogs ==
    ASSUME Inv, DialogInv, DialogStep,
           pc[Invite] \in EndPc => pc'[Invite] \in EndPc,
           pc'[Invite] = pc[Invite] \/ pc'[Invite] \in EndPc \cup {"byesent"},
           UNCHANGED acked, final # 0 => final' = final
    PROVE  DialogInv'
<1>1. OfferedInv'
    BY DEF DialogInv, OfferedInv, DialogStep, EndPc, FinishPc
<1>2. OverInv'
    BY DEF DialogInv, OverInv, DialogStep, EndPc, FinishPc
<1> QED BY <1>1, <1>2 DEF DialogInv, DialogStep

\* accept, reject, hangup, CANCEL, Destroy and the shared steps
LEMMA SharedStepDialogs ==
    ASSUME Inv, DialogInv,
           \/ Decide \/ PeerCancels \/ Destroyed \/ UNCHANGED vars
           \/ \E h \in Hangers : HangupCall(h) \/ HangupReject(h)
           \/ (CoreProgress \/ CoreEnv(TRUE)) /\ UNCHANGED uas
    PROVE  DialogInv'
<1>0. CoreTypeOK /\ CoreInv /\ ByeInv /\ Invite \in Threads
    BY ThreadNames DEF Inv, TypeOK, DialogInv
<1>1. CASE Decide \/ PeerCancels \/ Destroyed \/ UNCHANGED vars
    <2>1. UNCHANGED <<call, pc, byeRes, ret, dialog, byeLost>>
        BY <1>1 DEF Decide, PeerCancels, Destroyed, vars, core
    <2>2. UNCHANGED acked /\ (final # 0 => final' = final)
        BY <1>1 DEF Decide, PeerCancels, Destroyed, vars, uas
    <2>3. DialogStep
        BY <2>1 DEF DialogStep, ByeInv, OverAtPeer, DialogInv
    <2> QED BY <2>1, <2>2, <2>3, OtherStepDialogs
<1>2. ASSUME NEW h \in Hangers, HangupReject(h) PROVE DialogInv'
    <2>1. h \in Threads /\ h # Invite /\ h # Replace /\ h # Session /\ h # ByeReq
        BY ThreadNames, HangersAreThreads
    <2>2. DialogStep
        BY <1>0, <1>2, <2>1, DialogMoves DEF HangupReject
    <2>3. pc'[Invite] = pc[Invite] /\ UNCHANGED <<acked, final>>
        BY <1>0, <1>2, <2>1 DEF HangupReject, Goto, CoreTypeOK
    <2> QED BY <2>2, <2>3, OtherStepDialogs
<1>3. CASE \/ \E h \in Hangers : HangupCall(h)
           \/ (CoreProgress \/ CoreEnv(TRUE)) /\ UNCHANGED uas
    <2>1. /\ CoreProgress \/ CoreEnv(TRUE) \/ \E h \in Hangers : HangupStart(h)
          /\ UNCHANGED <<acked, final>>
        BY <1>3 DEF HangupCall, uas
    <2>2. DialogStep
        BY <1>0, <2>1, SharedDialogs
    <2>3. /\ pc[Invite] \in EndPc => pc'[Invite] \in EndPc
          /\ pc'[Invite] = pc[Invite] \/ pc'[Invite] \in EndPc \cup {"byesent"}
        BY <1>0, <2>1, InviteLeaves
    <2> QED BY <2>1, <2>2, <2>3, OtherStepDialogs
<1> QED BY <1>1, <1>2, <1>3

\* DialogInv holds throughout.
THEOREM DialogInvariance == Spec => []DialogInv
<1>1. Init => DialogInv
    <2> SUFFICES ASSUME Init PROVE DialogInv
        OBVIOUS
    <2>1. /\ ByeInv /\ call.state = StateCalling /\ dialog = "none"
          /\ pc[Invite] = "idle" /\ acked = FALSE
        BY CoreInitDialogs, ThreadNames DEF Init, CoreInit
    <2> QED BY <2>1 DEF DialogInv, OfferedInv, OverInv
<1>2. Inv /\ Inv' /\ DialogInv /\ [Next]_vars => DialogInv'
    <2> SUFFICES ASSUME Inv, Inv', DialogInv, [Next]_vars PROVE DialogInv'
        OBVIOUS
    <2>1. LifecycleStep
        BY StepHolds
    <2>2. CASE InviteUnreadable \/ InviteRefused \/ InviteArrives \/ Ring \/ Deliver
        BY <2>1, <2>2, ArriveDialogs
    <2>3. CASE TakeDecision \/ Cancelled \/ RingTimeout \/ DeviceGone
        BY <2>1, <2>3, SelectDialogs
    <2>4. CASE Answer \/ AckArrives \/ AckTimeout \/ Mark \/ StartMedia
        BY <2>1, <2>4, AnswerDialogs
    <2>5. CASE \/ Decide \/ PeerCancels \/ Destroyed \/ UNCHANGED vars
               \/ \E h \in Hangers : HangupCall(h) \/ HangupReject(h)
               \/ (CoreProgress \/ CoreEnv(TRUE)) /\ UNCHANGED uas
        BY <2>5, SharedStepDialogs
    <2> QED BY <2>2, <2>3, <2>4, <2>5, Zenon DEF Next, Handler
<1> QED BY <1>1, <1>2, Invariance, PTL DEF Spec

\* A caller whose ACK arrived is never left alone with the dialog: when the
\* call is over and all is at rest one side has sent BYE.
THEOREM LeavesNoDialog == Spec => []NoOrphanDialog
<1>1. Inv /\ DialogInv => NoOrphanDialog
    BY DEF Inv, CoreInv, OwnerInv, DialogInv, OverInv, OverAtPeer, NoOrphanDialog
<1> QED BY <1>1, Invariance, DialogInvariance, PTL

\* hangup() returns true only for a call that is over, here and, where the
\* caller had confirmed it and no BYE was lost, there.
THEOREM TrueHangupIsEnd == Spec => []HangupTrueMeansOver
<1>1. DialogInv => HangupTrueMeansOver
    BY DEF DialogInv, ByeInv, OverInv, OverAtPeer, HangupTrueMeansOver
<1> QED BY <1>1, DialogInvariance, PTL
=============================================================================
