--------------------------- MODULE CallCoreProofs ----------------------------
(***************************************************************************)
(* The inductive invariant of a call and the proof that every step of      *)
(* CallCore keeps it.  OutgoingCallProofs and IncomingCallProofs add the   *)
(* steps that drive the INVITE.                                            *)
(*                                                                         *)
(* OneFinisher and DoneMeansCleanedUp are not inductive: neither says that *)
(* the goroutine in finish remembers correctly whether the call had been   *)
(* connected, nor how far the clean-up must have come at each of its       *)
(* steps.  CoreInv adds that.                                              *)
(***************************************************************************)
EXTENDS CallCore, TLAPS

\* The channels that announce ringing, answer and end say what the state says.
ChannelInv ==
    /\ call.ringing = IF call.state = StateCalling THEN "open" ELSE "closed"
    /\ call.connected = IF call.tAnswer THEN "closed" ELSE "open"
    /\ call.done \in {"open", "closed"}
    /\ call.state = StateConnected => call.tAnswer
    /\ call.state < StateConnected => ~call.tAnswer

\* 200 is the status of answered calls only.
StatusInv ==
    /\ call.state < StateConnected => call.status = 0
    /\ call.tAnswer <=> call.status = 200

\* One goroutine owns the clean-up, and knows whether the call was answered.
OwnerInv ==
    /\ \A s, t \in Threads : pc[s] \in FinishPc /\ pc[t] \in FinishPc => s = t
    /\ (\E t \in Threads : pc[t] \in FinishPc)
         <=> (call.state = StateEnded /\ call.done = "open")
    /\ call.done = "closed" => call.state = StateEnded
    /\ \A t \in Threads : pc[t] \in FinishPc => wasConnected[t] = call.tAnswer

Reported == callEnds = IF call.tAnswer THEN 1 ELSE 0

\* How far the clean-up has come at each of its steps
CleanupInv ==
    /\ call.state # StateEnded => callEnds = 0
    /\ \A t \in Threads : pc[t] \in {"fin1", "fin2"} => callEnds = 0
    /\ \A t \in Threads : pc[t] \in {"fin2", "fin3"} => ~inCalls /\ timer # "armed"
    /\ \A t \in Threads : pc[t] = "fin3" => media = "closed" /\ Reported
    /\ call.done = "closed" => ~inCalls /\ timer # "armed" /\ media = "closed" /\ Reported

CoreInv == ChannelInv /\ StatusInv /\ OwnerInv /\ CleanupInv
-----------------------------------------------------------------------------
USE DEF StateCalling, StateRinging, StateConnected, StateEnded

\* The named goroutines are goroutines.
LEMMA ThreadNames ==
    /\ Invite \in Threads /\ ByeReq \in Threads /\ Session \in Threads /\ Replace \in Threads
    /\ Hangers \subseteq Threads
BY DEF Threads, Invite, ByeReq, Session, Replace

-----------------------------------------------------------------------------
(* What the critical sections of CallState do, field by field.  A record    *)
(* stays in its set under one EXCEPT at a time, hence the chains.           *)

\* newCall
LEMMA NewCallFacts ==
    /\ NewCall \in Calls
    /\ NewCall.state = StateCalling /\ NewCall.status = 0 /\ NewCall.tAnswer = FALSE
    /\ NewCall.ringing = "open" /\ NewCall.connected = "open" /\ NewCall.done = "open"
BY DEF NewCall, Calls, Channel, EndedBy

\* close of a channel gives a channel.
LEMMA CloseChanType == \A ch : CloseChan(ch) \in Channel
BY DEF CloseChan, Channel

\* markRinging
LEMMA MarkRingingFacts ==
    ASSUME NEW c \in Calls
    PROVE  /\ MarkRinging(c) \in Calls
           /\ c.state # StateCalling => MarkRinging(c) = c
           /\ c.state = StateCalling =>
                /\ MarkRinging(c).state = StateRinging
                /\ MarkRinging(c).status = c.status
                /\ MarkRinging(c).tAnswer = c.tAnswer
                /\ MarkRinging(c).ringing = CloseChan(c.ringing)
                /\ MarkRinging(c).connected = c.connected
                /\ MarkRinging(c).done = c.done
<1> DEFINE d1 == [c EXCEPT !.state = StateRinging]
           d2 == [d1 EXCEPT !.tRing = TRUE]
           d3 == [d2 EXCEPT !.ringing = CloseChan(c.ringing)]
<1>1. d1 \in Calls
    BY DEF Calls
<1>2. d2 \in Calls
    BY <1>1 DEF Calls
<1>3. d3 \in Calls
    BY <1>2, CloseChanType DEF Calls
<1>4. c.state \in 0..3
    BY DEF Calls
<1>5. CASE c.state = StateCalling
    <2>1. MarkRinging(c) = d3
        BY <1>5 DEF MarkRinging
    <2> QED BY <2>1, <1>3, <1>5 DEF Calls
<1>6. CASE c.state # StateCalling
    BY <1>4, <1>6 DEF MarkRinging
<1> QED BY <1>5, <1>6

\* markConnected
LEMMA MarkConnectedFacts ==
    ASSUME NEW c \in Calls
    PROVE  /\ MarkConnected(c) \in Calls
           /\ c.state >= StateConnected => MarkConnected(c) = c
           /\ c.state < StateConnected =>
                /\ MarkConnected(c).state = StateConnected
                /\ MarkConnected(c).status = 200
                /\ MarkConnected(c).tAnswer = TRUE
                /\ MarkConnected(c).ringing =
                      IF c.state = StateCalling THEN CloseChan(c.ringing) ELSE c.ringing
                /\ MarkConnected(c).connected = CloseChan(c.connected)
                /\ MarkConnected(c).done = c.done
<1> DEFINE r == IF c.state < StateRinging THEN CloseChan(c.ringing) ELSE c.ringing
           d1 == [c EXCEPT !.state = StateConnected]
           d2 == [d1 EXCEPT !.status = 200]
           d3 == [d2 EXCEPT !.tAnswer = TRUE]
           d4 == [d3 EXCEPT !.connected = CloseChan(c.connected)]
           d5 == [d4 EXCEPT !.ringing = r]
<1>0. c.state \in 0..3 /\ r \in Channel
    BY CloseChanType DEF Calls
<1>a. r = IF c.state = StateCalling THEN CloseChan(c.ringing) ELSE c.ringing
    BY <1>0
<1> HIDE DEF r
<1>1. d1 \in Calls
    BY DEF Calls
<1>2. d2 \in Calls
    BY <1>1 DEF Calls
<1>3. d3 \in Calls
    BY <1>2 DEF Calls
<1>4. d4 \in Calls
    BY <1>3, CloseChanType DEF Calls
<1>5. d5 \in Calls
    BY <1>4, <1>0 DEF Calls
<1>6. CASE c.state < StateConnected
    <2>1. MarkConnected(c) = d5
        BY <1>6, <1>0 DEF MarkConnected, r
    <2> QED BY <2>1, <1>5, <1>6, <1>a, <1>0 DEF Calls
<1>7. CASE c.state >= StateConnected
    BY <1>0, <1>7 DEF MarkConnected
<1>8. c.state < StateConnected \/ c.state >= StateConnected
    BY <1>0
<1>9. ~(c.state < StateConnected /\ c.state >= StateConnected)
    BY <1>0
<1> QED BY <1>6, <1>7, <1>8, <1>9, Zenon

\* The critical section of finish
LEMMA FinishLockedFacts ==
    ASSUME NEW c \in Calls, NEW by \in EndedBy, NEW status \in Nat
    PROVE  /\ FinishLocked(c, by, status) \in Calls
           /\ FinishLocked(c, by, status).state = StateEnded
           /\ FinishLocked(c, by, status).status =
                 IF status # 0 /\ c.state # StateConnected THEN status ELSE c.status
           /\ FinishLocked(c, by, status).tAnswer = c.tAnswer
           /\ FinishLocked(c, by, status).ringing =
                 IF c.state = StateCalling THEN CloseChan(c.ringing) ELSE c.ringing
           /\ FinishLocked(c, by, status).connected = c.connected
           /\ FinishLocked(c, by, status).done = c.done
<1> DEFINE r == IF c.state < StateRinging THEN CloseChan(c.ringing) ELSE c.ringing
           st == IF status # 0 /\ c.state # StateConnected THEN status ELSE c.status
           d1 == [c EXCEPT !.state = StateEnded]
           d2 == [d1 EXCEPT !.endedBy = by]
           d3 == [d2 EXCEPT !.status = st]
           d4 == [d3 EXCEPT !.ringing = r]
<1>0. c.state \in 0..3 /\ r \in Channel /\ st \in Nat
    BY CloseChanType DEF Calls
<1>a. r = IF c.state = StateCalling THEN CloseChan(c.ringing) ELSE c.ringing
    BY <1>0
<1>b. FinishLocked(c, by, status) = d4
    BY DEF FinishLocked
<1> HIDE DEF r, st
<1>1. d1 \in Calls
    BY DEF Calls
<1>2. d2 \in Calls
    BY <1>1 DEF Calls
<1>3. d3 \in Calls
    BY <1>2, <1>0 DEF Calls
<1>4. d4 \in Calls
    BY <1>3, <1>0 DEF Calls
<1>5. /\ d4.state = StateEnded /\ d4.status = st /\ d4.tAnswer = c.tAnswer
      /\ d4.ringing = r /\ d4.connected = c.connected /\ d4.done = c.done
    BY DEF Calls
<1> QED BY <1>a, <1>b, <1>4, <1>5 DEF st

\* close(done)
LEMMA CloseDoneFacts ==
    ASSUME NEW c \in Calls
    PROVE  LET d == [c EXCEPT !.done = CloseChan(@)]
           IN /\ d \in Calls
              /\ d.state = c.state /\ d.status = c.status /\ d.tAnswer = c.tAnswer
              /\ d.ringing = c.ringing /\ d.connected = c.connected
              /\ d.done = CloseChan(c.done)
BY CloseChanType DEF Calls
-----------------------------------------------------------------------------
\* A call is created in a state that satisfies the invariant.
LEMMA CoreInitHolds == CoreInit => CoreTypeOK /\ CoreInv
<1> SUFFICES ASSUME CoreInit PROVE CoreTypeOK /\ CoreInv
    OBVIOUS
<1>0. call = NewCall
    BY DEF CoreInit
<1>1. CoreTypeOK
    BY NewCallFacts DEF CoreInit, CoreTypeOK, EndedBy, CorePc
<1>2. ChannelInv /\ StatusInv
    BY <1>0, NewCallFacts DEF ChannelInv, StatusInv
<1>3. \A t \in Threads : pc[t] = "idle"
    BY DEF CoreInit
<1>4. call.state = StateCalling /\ call.done = "open" /\ callEnds = 0
    BY <1>0, NewCallFacts DEF CoreInit
<1>5. OwnerInv
    BY <1>3, <1>4 DEF OwnerInv, FinishPc
<1>6. CleanupInv
    BY <1>3, <1>4 DEF CleanupInv
<1> QED BY <1>5, <1>6, <1>1, <1>2, <1>3 DEF CoreInv

\* The invariant follows for the properties every call is checked against.
LEMMA CoreInvGives == CoreTypeOK /\ CoreInv => NoDoubleClose /\ OneFinisher /\ DoneMeansCleanedUp
<1> SUFFICES ASSUME CoreTypeOK, CoreInv PROVE NoDoubleClose /\ OneFinisher /\ DoneMeansCleanedUp
    OBVIOUS
<1> USE DEF CoreInv
<1>1. NoDoubleClose
    BY DEF ChannelInv, NoDoubleClose
<1>2. callEnds <= 1
    <2>1. CASE call.state # StateEnded
        BY <2>1 DEF CleanupInv
    <2>2. CASE call.done = "closed"
        BY <2>2 DEF CleanupInv, Reported
    <2>3. CASE call.state = StateEnded /\ call.done = "open"
        <3>1. PICK t \in Threads : pc[t] \in FinishPc
            BY <2>3 DEF OwnerInv
        <3> QED BY <3>1 DEF CleanupInv, Reported, FinishPc
    <2> QED BY <2>1, <2>2, <2>3 DEF ChannelInv
<1>3. OneFinisher
    BY <1>2 DEF OneFinisher, OwnerInv
<1>4. DoneMeansCleanedUp
    BY DEF DoneMeansCleanedUp, OwnerInv, CleanupInv, Reported, CoreTypeOK, Calls
<1> QED BY <1>1, <1>3, <1>4
-----------------------------------------------------------------------------
(* Steps                                                                   *)

OtherPc == CorePc \cup OutgoingPc \cup IncomingPc

\* No label of finish is a label of anything else.
LEMMA Labels == \A l \in OtherPc : l \notin FinishPc
BY DEF OtherPc, FinishPc, CorePc, OutgoingPc, IncomingPc

\* A goroutine that is not in finish moves, or none does; the call may ring or
\* be answered, but neither ends nor changes once it has ended; nothing that
\* the clean-up took away comes back after the end.
LEMMA StepKeeps ==
    ASSUME CoreTypeOK, CoreInv,
           pc' = pc \/ \E t \in Threads : \E l \in OtherPc : pc[t] \notin FinishPc /\ Goto(t, l),
           ChannelInv', StatusInv',
           call'.state = StateEnded <=> call.state = StateEnded,
           call'.done = call.done,
           call.state = StateEnded => call'.tAnswer = call.tAnswer,
           wasConnected' = wasConnected, callEnds' = callEnds,
           inCalls' = inCalls \/ call.state # StateEnded,
           media = "closed" => media' = "closed",
           timer' = "armed" => timer = "armed" \/ call.state # StateEnded
    PROVE  CoreInv'
<1> USE DEF CoreInv
<1>1. \A t \in Threads : pc'[t] \in FinishPc \/ pc[t] \in FinishPc => pc'[t] = pc[t]
    <2>1. CASE pc' = pc
        BY <2>1
    <2>2. CASE \E t \in Threads : \E l \in OtherPc : pc[t] \notin FinishPc /\ Goto(t, l)
        <3>1. PICK t \in Threads, l \in OtherPc : pc[t] \notin FinishPc /\ Goto(t, l)
            BY <2>2
        <3>2. l \notin FinishPc
            BY Labels
        <3> QED BY <3>1, <3>2 DEF Goto, CoreTypeOK
    <2> QED BY <2>1, <2>2
<1>2. \A t \in Threads : pc[t] \in FinishPc => call.state = StateEnded /\ call.done = "open"
    BY DEF OwnerInv
<1>3. OwnerInv'
    <2>1. \A s, t \in Threads : pc'[s] \in FinishPc /\ pc'[t] \in FinishPc => s = t
        BY <1>1 DEF OwnerInv
    <2>2. (\E t \in Threads : pc'[t] \in FinishPc) <=> (\E t \in Threads : pc[t] \in FinishPc)
        BY <1>1
    <2>3. \A t \in Threads : pc'[t] \in FinishPc => wasConnected'[t] = call'.tAnswer
        BY <1>1, <1>2 DEF OwnerInv
    <2> QED BY <2>1, <2>2, <2>3 DEF OwnerInv
<1>4. CleanupInv'
    <2>1. \A t \in Threads : pc'[t] \in {"fin1", "fin2"} => callEnds' = 0
        BY <1>1 DEF CleanupInv, FinishPc
    <2>2. \A t \in Threads : pc'[t] \in {"fin2", "fin3"} => ~inCalls' /\ timer' # "armed"
        BY <1>1, <1>2 DEF CleanupInv, FinishPc
    <2>3. \A t \in Threads : pc'[t] = "fin3" => media' = "closed" /\ Reported'
        BY <1>1, <1>2 DEF CleanupInv, FinishPc, Reported
    <2>4. call'.done = "closed" =>
             ~inCalls' /\ timer' # "armed" /\ media' = "closed" /\ Reported'
        BY DEF CleanupInv, OwnerInv, Reported
    <2> QED BY <2>1, <2>2, <2>3, <2>4 DEF CleanupInv
<1> QED BY <1>3, <1>4

\* The common case: the call itself does not change.
LEMMA MoveKeeps ==
    ASSUME CoreTypeOK, CoreInv,
           pc' = pc \/ \E t \in Threads : \E l \in OtherPc : pc[t] \notin FinishPc /\ Goto(t, l),
           UNCHANGED <<call, wasConnected, callEnds>>,
           inCalls' = inCalls \/ call.state # StateEnded,
           media = "closed" => media' = "closed",
           timer' = "armed" => timer = "armed" \/ call.state # StateEnded
    PROVE  CoreInv'
<1>1. ChannelInv' /\ StatusInv'
    BY DEF CoreInv, ChannelInv, StatusInv
<1> QED BY <1>1, StepKeeps

\* finish, by a goroutine that is not in it: the first caller becomes the
\* owner of the clean-up, any other leaves.
LEMMA FinishKeeps ==
    ASSUME CoreTypeOK, CoreInv,
           NEW t \in Threads, pc[t] \notin FinishPc,
           NEW by \in EndedBy, NEW status \in Nat, status # 200,
           Finish(t, by, status),
           UNCHANGED <<inCalls, media, timer, callEnds>>
    PROVE  /\ CoreInv'
           /\ call' \in Calls
           /\ pc' \in [Threads -> FinishPc \cup CorePc \cup OutgoingPc \cup IncomingPc]
           /\ wasConnected' \in [Threads -> BOOLEAN]
<1>0. call \in Calls
    BY DEF CoreTypeOK
<1>1. CASE call.state = StateEnded
    <2>1. Goto(t, "exit") /\ UNCHANGED <<call, wasConnected>>
        BY <1>1 DEF Finish
    <2>2. "exit" \in OtherPc
        BY DEF OtherPc, CorePc
    <2>3. CoreInv'
        BY <2>1, <2>2, MoveKeeps
    <2> QED BY <2>1, <2>3, <1>0 DEF CoreTypeOK, Goto, CorePc
<1>2. CASE call.state # StateEnded
    <2> USE DEF CoreInv
    <2>1. /\ call' = FinishLocked(call, by, status)
          /\ wasConnected' = [wasConnected EXCEPT ![t] = call.state = StateConnected]
          /\ pc' = [pc EXCEPT ![t] = "fin1"]
        BY <1>2 DEF Finish, Goto
    <2>2. /\ call' \in Calls
          /\ call'.state = StateEnded
          /\ call'.status = IF status # 0 /\ call.state # StateConnected THEN status ELSE call.status
          /\ call'.tAnswer = call.tAnswer
          /\ call'.ringing = IF call.state = StateCalling THEN CloseChan(call.ringing) ELSE call.ringing
          /\ call'.connected = call.connected
          /\ call'.done = call.done
        BY <2>1, <1>0, FinishLockedFacts
    <2>3. call.state \in 0..2 /\ call.tAnswer \in BOOLEAN
        BY <1>0, <1>2 DEF Calls
    <2>4. call.tAnswer <=> call.state = StateConnected
        BY <2>3 DEF ChannelInv
    <2>5. ChannelInv'
        BY <2>2, <2>3 DEF ChannelInv, CloseChan
    <2>6. StatusInv'
        BY <2>2, <2>3, <2>4 DEF StatusInv
    <2>7. call.done = "open" /\ \A s \in Threads : pc[s] \notin FinishPc
        BY <1>2 DEF OwnerInv, ChannelInv
    <2>8. \A s \in Threads : pc'[s] \in FinishPc <=> s = t
        BY <2>1, <2>7 DEF CoreTypeOK, FinishPc
    <2>9. pc'[t] = "fin1"
        BY <2>1 DEF CoreTypeOK
    <2>10. wasConnected'[t] = call'.tAnswer
        BY <2>1, <2>2, <2>3, <2>4 DEF CoreTypeOK
    <2>11. OwnerInv'
        BY <2>2, <2>7, <2>8, <2>10 DEF OwnerInv
    <2>12. callEnds' = 0
        BY <1>2 DEF CleanupInv
    <2>13. CleanupInv'
        BY <2>2, <2>7, <2>8, <2>9, <2>12 DEF CleanupInv, FinishPc
    <2>14. /\ pc' \in [Threads -> FinishPc \cup CorePc \cup OutgoingPc \cup IncomingPc]
           /\ wasConnected' \in [Threads -> BOOLEAN]
        BY <2>1 DEF CoreTypeOK, FinishPc
    <2> QED BY <2>2, <2>5, <2>6, <2>11, <2>13, <2>14
<1> QED BY <1>1, <1>2

\* The three steps of the clean-up, taken by its owner
LEMMA FinishStepKeeps ==
    ASSUME CoreTypeOK, CoreInv, NEW t \in Threads, FinishStep(t)
    PROVE  CoreTypeOK' /\ CoreInv'
<1> USE DEF CoreInv
<1>0. call \in Calls /\ call.tAnswer \in BOOLEAN
    BY DEF CoreTypeOK, Calls
<1>1. CASE FinishDetach(t)
    <2> USE <1>1 DEF FinishDetach, Goto
    <2>1. CoreTypeOK'
        BY DEF CoreTypeOK, FinishPc
    <2>2. pc[t] \in FinishPc /\ \A s \in Threads : pc'[s] = IF s = t THEN "fin2" ELSE pc[s]
        BY DEF CoreTypeOK, FinishPc
    <2>3. ChannelInv' /\ StatusInv'
        BY DEF ChannelInv, StatusInv
    <2>4. OwnerInv'
        BY <2>2 DEF OwnerInv, FinishPc
    <2>5. call.state = StateEnded /\ call.done = "open" /\ callEnds = 0
        BY <2>2 DEF OwnerInv, CleanupInv
    <2>6. \A s \in Threads : pc'[s] \in FinishPc => s = t
        BY <2>2 DEF OwnerInv, FinishPc
    <2>7. CleanupInv'
        BY <2>2, <2>5, <2>6 DEF CleanupInv, FinishPc
    <2> QED BY <2>1, <2>3, <2>4, <2>7
<1>2. CASE FinishReport(t)
    <2> USE <1>2 DEF FinishReport, Goto
    <2>1. CoreTypeOK'
        BY DEF CoreTypeOK, FinishPc
    <2>2. pc[t] = "fin2" /\ \A s \in Threads : pc'[s] = IF s = t THEN "fin3" ELSE pc[s]
        BY DEF CoreTypeOK, FinishPc
    <2>3. ChannelInv' /\ StatusInv'
        BY DEF ChannelInv, StatusInv
    <2>4. OwnerInv'
        BY <2>2 DEF OwnerInv, FinishPc
    <2>5. /\ call.state = StateEnded /\ call.done = "open" /\ callEnds = 0
          /\ ~inCalls /\ timer # "armed" /\ wasConnected[t] = call.tAnswer
        BY <2>2 DEF OwnerInv, CleanupInv, FinishPc
    <2>6. \A s \in Threads : pc'[s] \in FinishPc => s = t
        BY <2>2 DEF OwnerInv, FinishPc
    <2>7. Reported'
        BY <2>5, <1>0 DEF Reported
    <2>8. CleanupInv'
        BY <2>2, <2>5, <2>6, <2>7 DEF CleanupInv, FinishPc
    <2> QED BY <2>1, <2>3, <2>4, <2>8
<1>3. CASE FinishWake(t)
    <2> USE <1>3 DEF FinishWake, Goto
    <2>1. call' = [call EXCEPT !.done = CloseChan(@)] /\ call.done = "open" /\ call.state = StateEnded
        BY DEF OwnerInv, FinishPc
    <2>2. /\ call' \in Calls
          /\ call'.state = call.state /\ call'.status = call.status /\ call'.tAnswer = call.tAnswer
          /\ call'.ringing = call.ringing /\ call'.connected = call.connected
          /\ call'.done = "closed"
        BY <2>1, <1>0, CloseDoneFacts DEF CloseChan
    <2>3. CoreTypeOK'
        BY <2>2 DEF CoreTypeOK, CorePc
    <2>4. pc[t] = "fin3" /\ \A s \in Threads : pc'[s] = IF s = t THEN "exit" ELSE pc[s]
        BY DEF CoreTypeOK
    <2>5. ChannelInv' /\ StatusInv'
        BY <2>2 DEF ChannelInv, StatusInv
    <2>6. \A s \in Threads : pc'[s] \notin FinishPc
        BY <2>4 DEF OwnerInv, FinishPc
    <2>7. OwnerInv'
        BY <2>1, <2>2, <2>6 DEF OwnerInv
    <2>8. ~inCalls /\ timer # "armed" /\ media = "closed" /\ Reported
        BY <2>4 DEF CleanupInv
    <2>9. Reported'
        BY <2>2, <2>8 DEF Reported
    <2>10. CleanupInv'
        BY <2>1, <2>2, <2>6, <2>8, <2>9 DEF CleanupInv, FinishPc
    <2> QED BY <2>3, <2>5, <2>7, <2>10
<1> QED BY <1>1, <1>2, <1>3 DEF FinishStep

\* BYE sent, answered, timed out
LEMMA ByeKeeps ==
    ASSUME CoreTypeOK, CoreInv, NEW t \in Threads, ByeStep(t) \/ PeerAnswersBye(t)
    PROVE  CoreTypeOK' /\ CoreInv'
<1>1. CASE ByeSend(t)
    <2> USE <1>1 DEF ByeSend
    <2>1. pc[t] \notin FinishPc /\ "byesent" \in OtherPc
        BY DEF FinishPc, OtherPc, CorePc
    <2>2. CoreInv'
        BY <2>1, MoveKeeps
    <2> QED BY <2>2 DEF CoreTypeOK, Goto, CorePc
<1>2. CASE PeerAnswersBye(t)
    <2>1. CoreInv'
        BY <1>2, MoveKeeps DEF PeerAnswersBye
    <2> QED BY <1>2, <2>1 DEF PeerAnswersBye, CoreTypeOK
<1>3. ASSUME NEW ok \in BOOLEAN, HangupReturn(t, ok) PROVE ret' \in [Hangers -> {"none", "true", "false"}]
    BY <1>3 DEF HangupReturn, CoreTypeOK
<1>4. CASE ByeDone(t) \/ ByeTimeout(t)
    <2>1. PICK by \in EndedBy : Finish(t, by, 0)
        BY <1>4 DEF ByeDone, ByeTimeout, CoreTypeOK, EndedBy
    <2>2. pc[t] \notin FinishPc
        BY <1>4 DEF ByeDone, ByeTimeout, FinishPc
    <2>3. UNCHANGED <<byeBy, inCalls, media, timer, callEnds, byeRes, dialog>>
        BY <1>4 DEF ByeDone, ByeTimeout
    <2>4. /\ CoreInv'
          /\ call' \in Calls
          /\ pc' \in [Threads -> FinishPc \cup CorePc \cup OutgoingPc \cup IncomingPc]
          /\ wasConnected' \in [Threads -> BOOLEAN]
        BY <2>1, <2>2, <2>3, FinishKeeps
    <2>5. ret' \in [Hangers -> {"none", "true", "false"}] /\ byeLost' \in BOOLEAN
        BY <1>3, <1>4 DEF ByeDone, ByeTimeout, CoreTypeOK
    <2> QED BY <2>3, <2>4, <2>5 DEF CoreTypeOK
<1> QED BY <1>1, <1>2, <1>4 DEF ByeStep

\* Hangup, the peer's BYE, the session timer, Replaces
LEMMA OthersKeep ==
    ASSUME CoreTypeOK, CoreInv, NEW tagsKnown,
           \/ \E h \in Hangers : HangupStart(h) \/ HangupWait(h)
           \/ PeerBye \/ OnBye
           \/ SessionFires \/ SessionCheck \/ SessionRefresh
           \/ Replaced \/ ReplacesArrives(tagsKnown)
    PROVE  CoreTypeOK' /\ CoreInv'
<1> USE ThreadNames
<1>1. ASSUME NEW h \in Hangers, HangupStart(h) PROVE CoreTypeOK' /\ CoreInv'
    <2>1. PICK l \in {"exit", "bye", "cancel"} : Goto(h, l)
        BY <1>1, Zenon DEF HangupStart
    <2>2. pc[h] \notin FinishPc /\ l \in OtherPc
        BY <1>1 DEF HangupStart, FinishPc, OtherPc, CorePc
    <2>3. CoreInv'
        BY <1>1, <2>1, <2>2, MoveKeeps DEF HangupStart
    <2>4. pc' \in [Threads -> FinishPc \cup CorePc \cup OutgoingPc \cup IncomingPc]
        BY <2>1, <2>2 DEF CoreTypeOK, Goto, OtherPc
    <2> QED BY <1>1, <2>3, <2>4 DEF HangupStart, CoreTypeOK
<1>2. ASSUME NEW h \in Hangers, HangupWait(h) PROVE CoreTypeOK' /\ CoreInv'
    <2>1. PICK l \in {"exit", "bye"} : Goto(h, l)
        BY <1>2 DEF HangupWait
    <2>2. pc[h] \notin FinishPc /\ l \in OtherPc
        BY <1>2 DEF HangupWait, FinishPc, OtherPc, CorePc
    <2>3. CoreInv'
        BY <1>2, <2>1, <2>2, MoveKeeps DEF HangupWait
    <2>4. pc' \in [Threads -> FinishPc \cup CorePc \cup OutgoingPc \cup IncomingPc]
        BY <2>1, <2>2 DEF CoreTypeOK, Goto, OtherPc
    <2> QED BY <1>2, <2>3, <2>4 DEF HangupWait, CoreTypeOK
<1>3. CASE PeerBye
    <2>1. pc[ByeReq] \notin FinishPc /\ "recv" \in OtherPc
        BY <1>3 DEF PeerBye, FinishPc, OtherPc, CorePc
    <2>2. CoreInv'
        BY <1>3, <2>1, MoveKeeps DEF PeerBye
    <2> QED BY <1>3, <2>1, <2>2 DEF PeerBye, CoreTypeOK, Goto, OtherPc
<1>4. CASE OnBye
    <2>1. pc[ByeReq] \notin FinishPc /\ "exit" \in OtherPc /\ "remote" \in EndedBy
        BY <1>4 DEF OnBye, FinishPc, OtherPc, CorePc, EndedBy
    <2>2. CASE Finish(ByeReq, "remote", 0)
        <3>1. /\ CoreInv'
              /\ call' \in Calls
              /\ pc' \in [Threads -> FinishPc \cup CorePc \cup OutgoingPc \cup IncomingPc]
              /\ wasConnected' \in [Threads -> BOOLEAN]
            BY <1>4, <2>1, <2>2, FinishKeeps DEF OnBye
        <3> QED BY <1>4, <3>1 DEF OnBye, CoreTypeOK
    <2>3. CASE Goto(ByeReq, "exit") /\ UNCHANGED <<call, wasConnected>>
        <3>1. CoreInv'
            BY <1>4, <2>1, <2>3, MoveKeeps DEF OnBye
        <3> QED BY <1>4, <2>1, <2>3, <3>1 DEF OnBye, CoreTypeOK, Goto, OtherPc
    <2> QED BY <1>4, <2>2, <2>3 DEF OnBye
<1>5. CASE SessionFires
    <2>1. pc[Session] \notin FinishPc /\ "fired" \in OtherPc
        BY <1>5 DEF SessionFires, FinishPc, OtherPc, CorePc
    <2>2. CoreInv'
        BY <1>5, <2>1, MoveKeeps DEF SessionFires
    <2> QED BY <1>5, <2>1, <2>2 DEF SessionFires, CoreTypeOK, Goto, OtherPc
<1>6. CASE SessionCheck
    <2>1. pc[Session] \notin FinishPc /\ {"refresh", "idle"} \subseteq OtherPc
        BY <1>6 DEF SessionCheck, FinishPc, OtherPc, CorePc
    <2>2. PICK l \in {"refresh", "idle"} : Goto(Session, l)
        BY <1>6 DEF SessionCheck
    <2>3. CoreInv'
        BY <1>6, <2>1, <2>2, MoveKeeps DEF SessionCheck
    <2> QED BY <1>6, <2>1, <2>2, <2>3 DEF SessionCheck, CoreTypeOK, Goto, OtherPc
<1>7. CASE SessionRefresh
    <2>1. pc[Session] \notin FinishPc /\ {"bye", "idle"} \subseteq OtherPc
        BY <1>7 DEF SessionRefresh, FinishPc, OtherPc, CorePc
    <2>2. PICK l \in {"bye", "idle"} : Goto(Session, l)
        BY <1>7 DEF SessionRefresh
    <2>3. timer' = timer \/ (timer' = "armed" /\ call.state # StateEnded)
        BY <1>7 DEF SessionRefresh, ArmSession
    <2>4. CoreInv'
        BY <1>7, <2>1, <2>2, <2>3, MoveKeeps DEF SessionRefresh
    <2>5. byeBy' \in EndedBy
        BY <1>7 DEF SessionRefresh, CoreTypeOK, EndedBy
    <2> QED BY <1>7, <2>1, <2>2, <2>3, <2>4, <2>5 DEF SessionRefresh, CoreTypeOK, Goto, OtherPc
<1>8. CASE Replaced
    <2>1. pc[Replace] \notin FinishPc /\ "bye" \in OtherPc
        BY <1>8 DEF Replaced, FinishPc, OtherPc, CorePc
    <2>2. CoreInv'
        BY <1>8, <2>1, MoveKeeps DEF Replaced
    <2> QED BY <1>8, <2>1, <2>2 DEF Replaced, CoreTypeOK, Goto, OtherPc, EndedBy
<1>9. CASE ReplacesArrives(tagsKnown)
    <2>1. pc[Replace] \notin FinishPc /\ "recv" \in OtherPc
        BY <1>9 DEF ReplacesArrives, FinishPc, OtherPc, CorePc
    <2>2. CoreInv'
        BY <1>9, <2>1, MoveKeeps DEF ReplacesArrives
    <2> QED BY <1>9, <2>1, <2>2 DEF ReplacesArrives, CoreTypeOK, Goto, OtherPc
<1> QED BY <1>1, <1>2, <1>3, <1>4, <1>5, <1>6, <1>7, <1>8, <1>9

\* Every step the two kinds of calls share keeps the invariant.
LEMMA CoreStepKeeps ==
    ASSUME CoreTypeOK, CoreInv, NEW tagsKnown, CoreProgress \/ CoreEnv(tagsKnown)
    PROVE  CoreTypeOK' /\ CoreInv'
BY FinishStepKeeps, ByeKeeps, OthersKeep DEF CoreProgress, CoreEnv

\* Of these steps only finish and bye move the goroutine of the INVITE.
LEMMA InviteMoves ==
    ASSUME CoreTypeOK, NEW tagsKnown,
           CoreProgress \/ CoreEnv(tagsKnown) \/ \E h \in Hangers : HangupStart(h)
    PROVE  \/ pc'[Invite] = pc[Invite]
           \/ /\ pc[Invite] \in FinishPc \cup {"bye", "byesent"}
              /\ pc'[Invite] \in FinishPc \cup {"byesent", "exit"}
<1> USE ThreadNames
<1> DEFINE From == FinishPc \cup {"bye", "byesent"}
           To == FinishPc \cup {"byesent", "exit"}
<1>0. /\ Invite # ByeReq /\ Invite # Session /\ Invite # Replace
      /\ \A h \in Hangers : h # Invite
    BY HangersAreThreads DEF Invite, ByeReq, Session, Replace
<1>1. ASSUME NEW t \in Threads, NEW l, Goto(t, l), t = Invite => pc[t] \in From /\ l \in To
      PROVE  pc'[Invite] = pc[Invite] \/ (pc[Invite] \in From /\ pc'[Invite] \in To)
    BY <1>1 DEF Goto, CoreTypeOK
<1>2. ASSUME NEW t \in Threads, NEW by, NEW status, Finish(t, by, status)
      PROVE  \E l \in To : Goto(t, l)
    BY <1>2 DEF Finish, FinishPc
<1>3. ASSUME NEW t \in Threads, FinishStep(t) \/ ByeStep(t)
      PROVE  pc[t] \in From /\ \E l \in To : Goto(t, l)
    BY <1>2, <1>3 DEF FinishStep, FinishDetach, FinishReport, FinishWake,
                      ByeStep, ByeSend, ByeDone, ByeTimeout, FinishPc
<1>4. ASSUME NEW t \in Threads, PeerAnswersBye(t) PROVE pc' = pc
    BY <1>4 DEF PeerAnswersBye
<1>5. ASSUME NEW h \in Hangers, HangupStart(h) \/ HangupWait(h) PROVE \E l : Goto(h, l)
    BY <1>5 DEF HangupStart, HangupWait
<1>6. ASSUME OnBye \/ PeerBye PROVE \E l : Goto(ByeReq, l)
    BY <1>6, <1>2 DEF OnBye, PeerBye
<1>7. ASSUME SessionFires \/ SessionCheck \/ SessionRefresh PROVE \E l : Goto(Session, l)
    BY <1>7 DEF SessionFires, SessionCheck, SessionRefresh
<1>8. ASSUME Replaced \/ ReplacesArrives(tagsKnown) PROVE \E l : Goto(Replace, l)
    BY <1>8 DEF Replaced, ReplacesArrives
<1> HIDE DEF From, To
<1>9. pc'[Invite] = pc[Invite] \/ (pc[Invite] \in From /\ pc'[Invite] \in To)
    BY <1>0, <1>1, <1>3, <1>4, <1>5, <1>6, <1>7, <1>8 DEF CoreProgress, CoreEnv
<1> QED BY <1>9 DEF From, To

\* None of these steps answers a call.
LEMMA SharedAnswersNothing ==
    ASSUME CoreTypeOK, NEW tagsKnown, CoreProgress \/ CoreEnv(tagsKnown)
    PROVE  call'.tAnswer = call.tAnswer
<1> USE ThreadNames
<1>0. call \in Calls
    BY DEF CoreTypeOK
<1>1. ASSUME NEW t \in Threads, NEW by \in EndedBy, Finish(t, by, 0)
      PROVE  call'.tAnswer = call.tAnswer
    BY <1>0, <1>1, FinishLockedFacts DEF Finish
<1>2. ASSUME NEW t \in Threads, FinishStep(t) PROVE call'.tAnswer = call.tAnswer
    BY <1>0, <1>2, CloseDoneFacts DEF FinishStep, FinishDetach, FinishReport, FinishWake
<1>3. ASSUME NEW t \in Threads, ByeStep(t) PROVE call'.tAnswer = call.tAnswer
    <2>1. CASE ByeSend(t)
        BY <2>1 DEF ByeSend
    <2>2. CASE ByeDone(t) \/ ByeTimeout(t)
        <3>1. PICK by \in EndedBy : Finish(t, by, 0)
            BY <2>2 DEF ByeDone, ByeTimeout, CoreTypeOK, EndedBy
        <3> QED BY <3>1, <1>1
    <2> QED BY <1>3, <2>1, <2>2 DEF ByeStep
<1>4. ASSUME OnBye PROVE call'.tAnswer = call.tAnswer
    <2>1. "remote" \in EndedBy
        BY DEF EndedBy
    <2> QED BY <1>1, <1>4, <2>1 DEF OnBye
<1>5. ASSUME \/ \E t \in Threads : PeerAnswersBye(t)
             \/ \E h \in Hangers : HangupWait(h)
             \/ PeerBye \/ SessionFires \/ SessionCheck \/ SessionRefresh
             \/ Replaced \/ ReplacesArrives(tagsKnown)
      PROVE  call' = call
    BY <1>5 DEF PeerAnswersBye, HangupWait, PeerBye, SessionFires, SessionCheck,
                SessionRefresh, Replaced, ReplacesArrives
<1> QED BY <1>2, <1>3, <1>4, <1>5 DEF CoreProgress, CoreEnv

\* Before there is an INVITE none of these steps is possible.
LEMMA NothingYet ==
    ASSUME \A t \in Threads : pc[t] = "idle", timer = "off", dialog = "none",
           NEW tagsKnown, CoreProgress \/ CoreEnv(tagsKnown)
    PROVE  FALSE
BY ThreadNames
DEF CoreProgress, CoreEnv, FinishStep, FinishDetach, FinishReport, FinishWake,
    ByeStep, ByeSend, ByeDone, ByeTimeout, PeerAnswersBye, HangupWait, OnBye, PeerBye,
    SessionFires, SessionCheck, SessionRefresh, Replaced, ReplacesArrives
-----------------------------------------------------------------------------
(* Refinement of CallLifecycle: which of its steps each step is            *)

LifecycleStep == [Lifecycle!Next]_(Lifecycle!vars)

\* What CallLifecycle does not see
LEMMA SameView ==
    ASSUME call'.state = call.state, call'.status = call.status, call'.tAnswer = call.tAnswer,
           call'.done = call.done, callEnds' = callEnds
    PROVE  LifecycleStep
BY DEF LifecycleStep, Lifecycle!vars

\* markRinging is Ring.
LEMMA RingRefines ==
    ASSUME call \in Calls, callEnds' = callEnds, call' = MarkRinging(call)
    PROVE  LifecycleStep
<1>1. CASE call.state = StateCalling
    <2>1. /\ call'.state = StateRinging /\ call'.status = call.status
          /\ call'.tAnswer = call.tAnswer /\ call'.done = call.done
        BY <1>1, MarkRingingFacts
    <2>2. Lifecycle!Ring
        BY <1>1, <2>1 DEF Lifecycle!Ring
    <2> QED BY <2>2 DEF LifecycleStep, Lifecycle!Next
<1>2. CASE call.state # StateCalling
    BY <1>2, MarkRingingFacts, SameView
<1> QED BY <1>1, <1>2

\* markConnected is Answer.
LEMMA AnswerRefines ==
    ASSUME call \in Calls, callEnds' = callEnds, call' = MarkConnected(call)
    PROVE  LifecycleStep
<1>0. call.state \in 0..3
    BY DEF Calls
<1>1. CASE call.state < StateConnected
    <2>1. /\ call'.state = StateConnected /\ call'.status = 200
          /\ call'.tAnswer = TRUE /\ call'.done = call.done
        BY <1>1, MarkConnectedFacts
    <2>2. Lifecycle!Answer
        BY <1>1, <2>1 DEF Lifecycle!Answer
    <2> QED BY <2>2 DEF LifecycleStep, Lifecycle!Next
<1>2. CASE call.state >= StateConnected
    <2>1. call' = call
        BY <1>2, MarkConnectedFacts
    <2> QED BY <2>1, SameView
<1> QED BY <1>0, <1>1, <1>2

\* The critical section of finish is End.
LEMMA FinishRefines ==
    ASSUME CoreTypeOK, CoreInv, NEW t \in Threads,
           NEW by \in EndedBy, NEW status \in Nat, status # 200,
           Finish(t, by, status), callEnds' = callEnds
    PROVE  LifecycleStep
<1>0. call \in Calls /\ call.state \in 0..3 /\ call.tAnswer \in BOOLEAN
    BY DEF CoreTypeOK, Calls
<1>1. CASE call.state = StateEnded
    BY <1>1, SameView DEF Finish
<1>2. CASE call.state # StateEnded
    <2>1. call' = FinishLocked(call, by, status)
        BY <1>2 DEF Finish
    <2>2. /\ call'.state = StateEnded
          /\ call'.status = IF status # 0 /\ call.state # StateConnected THEN status ELSE call.status
          /\ call'.tAnswer = call.tAnswer
          /\ call'.done = call.done
        BY <2>1, <1>0, FinishLockedFacts
    <2>3. call.done = "open" /\ call.state < StateEnded
        BY <1>0, <1>2 DEF CoreInv, OwnerInv, ChannelInv
    <2>4. call.tAnswer <=> call.state = StateConnected
        BY <1>0, <1>2 DEF CoreInv, ChannelInv
    <2>5. IF call.tAnswer THEN call'.status = call.status ELSE call'.status # 200
        BY <2>2, <2>4 DEF CoreInv, StatusInv
    <2>6. Lifecycle!End
        BY <2>2, <2>3, <2>5 DEF Lifecycle!End
    <2> QED BY <2>6 DEF LifecycleStep, Lifecycle!Next
<1> QED BY <1>1, <1>2

\* The clean-up: CallEnd is Report, close(done) is Wake.
LEMMA FinishStepRefines ==
    ASSUME CoreTypeOK, CoreInv, NEW t \in Threads, FinishStep(t)
    PROVE  LifecycleStep
<1> USE DEF CoreInv
<1>0. call \in Calls /\ call.tAnswer \in BOOLEAN
    BY DEF CoreTypeOK, Calls
<1>1. CASE FinishDetach(t)
    BY <1>1, SameView DEF FinishDetach
<1>2. CASE FinishReport(t)
    <2>1. /\ call.state = StateEnded /\ call.done = "open" /\ callEnds = 0
          /\ wasConnected[t] = call.tAnswer /\ call' = call
        BY <1>2 DEF FinishReport, OwnerInv, CleanupInv, FinishPc
    <2>2. callEnds' = IF call.tAnswer THEN 1 ELSE 0
        BY <1>2, <2>1, <1>0 DEF FinishReport
    <2>3. CASE call.tAnswer
        <3>1. Lifecycle!Report
            BY <2>1, <2>2, <2>3 DEF Lifecycle!Report
        <3> QED BY <3>1 DEF LifecycleStep, Lifecycle!Next
    <2>4. CASE ~call.tAnswer
        BY <2>1, <2>2, <2>4, SameView
    <2> QED BY <2>3, <2>4
<1>3. CASE FinishWake(t)
    <2>1. /\ call.state = StateEnded /\ call.done = "open" /\ Reported
          /\ call' = [call EXCEPT !.done = CloseChan(@)] /\ callEnds' = callEnds
        BY <1>3 DEF FinishWake, OwnerInv, CleanupInv, FinishPc
    <2>2. /\ call'.state = call.state /\ call'.status = call.status
          /\ call'.tAnswer = call.tAnswer /\ call'.done = "closed"
        BY <2>1, <1>0, CloseDoneFacts DEF CloseChan
    <2>3. Lifecycle!Wake
        BY <2>1, <2>2 DEF Lifecycle!Wake, Reported
    <2> QED BY <2>3 DEF LifecycleStep, Lifecycle!Next
<1> QED BY <1>1, <1>2, <1>3 DEF FinishStep

\* Every step the two kinds of calls share
LEMMA CoreStepRefines ==
    ASSUME CoreTypeOK, CoreInv, NEW tagsKnown,
           \/ CoreProgress \/ CoreEnv(tagsKnown)
           \/ \E h \in Hangers : HangupStart(h)
    PROVE  LifecycleStep
<1> USE ThreadNames
<1>1. ASSUME UNCHANGED <<call, callEnds>> PROVE LifecycleStep
    BY <1>1, SameView
<1>2. ASSUME NEW t \in Threads, FinishStep(t) PROVE LifecycleStep
    BY <1>2, FinishStepRefines
<1>3. ASSUME NEW t \in Threads, ByeStep(t) PROVE LifecycleStep
    <2>1. CASE ByeSend(t)
        BY <2>1, <1>1 DEF ByeSend
    <2>2. CASE ByeDone(t) \/ ByeTimeout(t)
        <3>1. PICK by \in EndedBy : Finish(t, by, 0)
            BY <2>2 DEF ByeDone, ByeTimeout, CoreTypeOK, EndedBy
        <3>2. callEnds' = callEnds
            BY <2>2 DEF ByeDone, ByeTimeout
        <3> QED BY <3>1, <3>2, FinishRefines
    <2> QED BY <1>3, <2>1, <2>2 DEF ByeStep
<1>4. ASSUME OnBye PROVE LifecycleStep
    <2>1. "remote" \in EndedBy /\ callEnds' = callEnds
        BY <1>4 DEF EndedBy, OnBye
    <2>2. CASE Finish(ByeReq, "remote", 0)
        BY <2>1, <2>2, FinishRefines
    <2>3. CASE UNCHANGED call
        BY <2>1, <2>3, <1>1
    <2> QED BY <1>4, <2>2, <2>3 DEF OnBye
<1>5. ASSUME NEW t \in Threads, PeerAnswersBye(t) PROVE UNCHANGED <<call, callEnds>>
    BY <1>5 DEF PeerAnswersBye
<1>6. ASSUME NEW h \in Hangers, HangupStart(h) \/ HangupWait(h) PROVE UNCHANGED <<call, callEnds>>
    BY <1>6 DEF HangupStart, HangupWait
<1>7. ASSUME PeerBye \/ SessionFires \/ SessionCheck \/ SessionRefresh \/ Replaced
             \/ ReplacesArrives(tagsKnown)
      PROVE  UNCHANGED <<call, callEnds>>
    BY <1>7 DEF PeerBye, SessionFires, SessionCheck, SessionRefresh, Replaced, ReplacesArrives
<1> QED BY <1>1, <1>2, <1>3, <1>4, <1>5, <1>6, <1>7 DEF CoreProgress, CoreEnv
-----------------------------------------------------------------------------
(* Dialogs: what the peer knows of the call's end.                         *)
(*                                                                         *)
(* Every goroutine that is going to end an answered call has a dialog to   *)
(* end it in, and whoever ends a call that way leaves it over at the peer  *)
(* too, or has lost a BYE.  CoreInv says nothing of the dialog, so this is *)
(* an invariant of its own, kept on top of CoreInv.                        *)

OverAtPeer == dialog = "down" \/ byeLost

\* A BYE is only sent, and only answered, where there is a dialog; only an
\* answered BYE, or the peer's own, brings the handler here; and a Hangup
\* that has returned true has seen the end.
ByeInv ==
    /\ \A t \in Threads : byeRes[t] # 0 => dialog = "down"
    /\ \A t \in Threads : pc[t] \in {"bye", "byesent"} => dialog # "none"
    /\ pc[Replace] = "recv" => dialog # "none"
    /\ pc[Session] = "refresh" => dialog # "none"
    /\ pc[ByeReq] = "recv" => dialog = "down"
    /\ call.tAnswer => dialog # "none"
    /\ \A h \in Hangers : ret[h] = "true" => call.state = StateEnded

\* The labels of a goroutine that has called finish
EndPc == FinishPc \cup {"exit"}

\* What a step must do for the dialog
DialogStep ==
    /\ ByeInv'
    /\ OverAtPeer => OverAtPeer'
    /\ call.state = StateEnded => call'.state = StateEnded
    /\ call'.state = StateEnded => call.state = StateEnded \/ OverAtPeer'
    /\ dialog' = "none" <=> dialog = "none"

\* A goroutine moves to a label, or none moves; a dialog that changes goes
\* down; who sets out for a BYE, and who reports an end, has grounds for it.
LEMMA DialogMoves ==
    ASSUME CoreTypeOK, ByeInv,
           NEW t \in Threads, NEW l, Goto(t, l) \/ (pc' = pc /\ l = pc[t]),
           dialog' = dialog \/ (dialog # "none" /\ dialog' = "down"),
           byeLost => byeLost',
           \A s \in Threads : byeRes'[s] # 0 => byeRes[s] # 0 \/ dialog' = "down",
           call'.tAnswer = call.tAnswer,
           call.state = StateEnded => call'.state = StateEnded,
           call'.state = StateEnded => call.state = StateEnded \/ OverAtPeer',
           l \in {"bye", "byesent"} => dialog # "none",
           t = Replace /\ l = "recv" => dialog # "none",
           t = Session /\ l = "refresh" => dialog # "none",
           t = ByeReq /\ l = "recv" => dialog' = "down",
           \A h \in Hangers : ret'[h] = "true" => ret[h] = "true" \/ call'.state = StateEnded
    PROVE  DialogStep
<1>1. \A s \in Threads : pc'[s] = IF s = t THEN l ELSE pc[s]
    BY DEF Goto, CoreTypeOK
<1>2. dialog' = "none" <=> dialog = "none"
    OBVIOUS
<1>3. dialog = "down" => dialog' = "down"
    OBVIOUS
<1>4. OverAtPeer => OverAtPeer'
    BY <1>3 DEF OverAtPeer
<1>5. ByeInv'
    <2>1. \A s \in Threads : byeRes'[s] # 0 => dialog' = "down"
        BY <1>3 DEF ByeInv
    <2>2. \A s \in Threads : pc'[s] \in {"bye", "byesent"} => dialog' # "none"
        BY <1>1, <1>2 DEF ByeInv
    <2>3. /\ pc'[Replace] = "recv" => dialog' # "none"
          /\ pc'[Session] = "refresh" => dialog' # "none"
          /\ pc'[ByeReq] = "recv" => dialog' = "down"
          /\ call'.tAnswer => dialog' # "none"
        BY <1>1, <1>2, <1>3, ThreadNames DEF ByeInv
    <2>4. \A h \in Hangers : ret'[h] = "true" => call'.state = StateEnded
        BY DEF ByeInv
    <2> QED BY <2>1, <2>2, <2>3, <2>4 DEF ByeInv
<1> QED BY <1>2, <1>4, <1>5 DEF DialogStep

\* finish ends the call, whoever is the first to call it.
LEMMA FinishEnds ==
    ASSUME CoreTypeOK, NEW t \in Threads, NEW by \in EndedBy, NEW status \in Nat,
           Finish(t, by, status)
    PROVE  /\ call'.state = StateEnded /\ call'.tAnswer = call.tAnswer
           /\ \E l \in {"fin1", "exit"} : Goto(t, l)
<1>1. call \in Calls
    BY DEF CoreTypeOK
<1> QED BY <1>1, FinishLockedFacts DEF Finish

\* The clean-up of finish
LEMMA FinishStepDialogs ==
    ASSUME CoreTypeOK, CoreInv, ByeInv, NEW t \in Threads, FinishStep(t)
    PROVE  DialogStep
<1>1. call'.state = call.state /\ call'.tAnswer = call.tAnswer
    <2>1. call \in Calls
        BY DEF CoreTypeOK
    <2>2. call' = call \/ call' = [call EXCEPT !.done = CloseChan(@)]
        BY DEF FinishStep, FinishDetach, FinishReport, FinishWake
    <2> QED BY <2>1, <2>2, CloseDoneFacts
<1>2. PICK l \in {"fin2", "fin3", "exit"} : Goto(t, l)
    BY DEF FinishStep, FinishDetach, FinishReport, FinishWake
<1>3. UNCHANGED <<byeRes, ret, dialog, byeLost>>
    BY DEF FinishStep, FinishDetach, FinishReport, FinishWake
<1> QED BY <1>1, <1>2, <1>3, DialogMoves

\* BYE sent, answered, timed out: the call ends with the dialog down at the
\* peer, or with the BYE lost.
LEMMA ByeDialogs ==
    ASSUME CoreTypeOK, CoreInv, ByeInv, NEW t \in Threads, ByeStep(t) \/ PeerAnswersBye(t)
    PROVE  DialogStep
<1>1. CASE ByeSend(t)
    <2>1. dialog # "none"
        BY <1>1 DEF ByeSend, ByeInv
    <2> QED BY <1>1, <2>1, DialogMoves DEF ByeSend
<1>2. CASE PeerAnswersBye(t)
    <2>1. dialog # "none"
        BY <1>2 DEF PeerAnswersBye, ByeInv
    <2>2. UNCHANGED <<call, pc, ret, byeLost>> /\ dialog' = "down" /\ pc[t] = "byesent"
        BY <1>2 DEF PeerAnswersBye
    <2> QED BY <2>1, <2>2, DialogMoves
<1>3. CASE ByeDone(t) \/ ByeTimeout(t)
    <2>1. PICK by \in EndedBy : Finish(t, by, 0)
        BY <1>3 DEF ByeDone, ByeTimeout, CoreTypeOK, EndedBy
    <2>2. call'.state = StateEnded /\ call'.tAnswer = call.tAnswer
        BY <2>1, FinishEnds
    <2>3. PICK l \in {"fin1", "exit"} : Goto(t, l)
        BY <2>1, FinishEnds
    <2>4. UNCHANGED <<byeRes, dialog>> /\ (byeLost => byeLost')
        <3>1. CASE ByeDone(t)
            BY <3>1 DEF ByeDone
        <3>2. CASE ByeTimeout(t)
            BY <3>2, Zenon DEF ByeTimeout
        <3> QED BY <1>3, <3>1, <3>2
    <2>5. OverAtPeer'
        <3>1. CASE ByeDone(t)
            BY <3>1, <2>4 DEF ByeDone, ByeInv, OverAtPeer
        <3>2. CASE ByeTimeout(t)
            BY <3>2 DEF ByeTimeout, OverAtPeer
        <3> QED BY <1>3, <3>1, <3>2
    <2> QED BY <2>2, <2>3, <2>4, <2>5, DialogMoves
<1> QED BY <1>1, <1>2, <1>3 DEF ByeStep

\* Hangup: it sets out for a BYE only when the call was answered, and returns
\* true only when it has ended.
LEMMA HangupDialogs ==
    ASSUME CoreTypeOK, CoreInv, ByeInv, NEW h \in Hangers, HangupStart(h) \/ HangupWait(h)
    PROVE  DialogStep
<1>0. h \in Threads /\ h # Replace /\ h # Session /\ h # ByeReq
    BY ThreadNames, HangersAreThreads
<1>1. CASE HangupStart(h)
    <2>1. PICK l : Goto(h, l) /\ l \in {"exit", "bye", "cancel"}
                   /\ (l = "bye" => call.state = StateConnected)
        <3>1. CASE call.state = StateEnded
            BY <1>1, <3>1 DEF HangupStart
        <3>2. CASE call.state = StateConnected
            BY <1>1, <3>2 DEF HangupStart
        <3>3. CASE call.state # StateEnded /\ call.state # StateConnected
            BY <1>1, <3>3 DEF HangupStart
        <3> QED BY <3>1, <3>2, <3>3
    <2>2. l = "bye" => dialog # "none"
        BY <2>1 DEF CoreInv, ChannelInv, ByeInv
    <2>3. \A g \in Hangers : ret'[g] = "true" => ret[g] = "true" \/ call.state = StateEnded
        BY <1>1 DEF HangupStart, CoreTypeOK
    <2>4. UNCHANGED <<call, byeRes, dialog, byeLost>>
        BY <1>1 DEF HangupStart
    <2> QED BY <1>0, <2>1, <2>2, <2>3, <2>4, DialogMoves
<1>2. CASE HangupWait(h)
    <2>1. PICK l \in {"exit", "bye"} : Goto(h, l) /\ (l = "bye" => call.connected = "closed")
        BY <1>2 DEF HangupWait
    <2>2. l = "bye" => dialog # "none"
        BY <2>1 DEF CoreInv, ChannelInv, ByeInv
    <2>3. \A g \in Hangers : ret'[g] = "true" => ret[g] = "true" \/ call.state = StateEnded
        BY <1>2 DEF HangupWait, CoreTypeOK, CoreInv, OwnerInv
    <2>4. UNCHANGED <<call, byeRes, dialog, byeLost>>
        BY <1>2 DEF HangupWait
    <2> QED BY <1>0, <2>1, <2>2, <2>3, <2>4, DialogMoves
<1> QED BY <1>1, <1>2

\* The peer's BYE, the session timer, Replaces
LEMMA OtherDialogs ==
    ASSUME CoreTypeOK, CoreInv, ByeInv, NEW tagsKnown,
           \/ PeerBye \/ OnBye
           \/ SessionFires \/ SessionCheck \/ SessionRefresh
           \/ Replaced \/ ReplacesArrives(tagsKnown)
    PROVE  DialogStep
<1> USE ThreadNames
<1>0. /\ ByeReq # Replace /\ ByeReq # Session /\ Session # Replace
    BY DEF ByeReq, Session, Replace
<1>1. CASE PeerBye
    BY <1>0, <1>1, DialogMoves DEF PeerBye
<1>2. CASE OnBye
    <2>1. dialog = "down" /\ UNCHANGED <<byeRes, ret, dialog, byeLost>> /\ OverAtPeer'
        BY <1>2 DEF OnBye, ByeInv, OverAtPeer
    <2>2. CASE Finish(ByeReq, "remote", 0)
        <3>1. "remote" \in EndedBy
            BY DEF EndedBy
        <3>2. call'.state = StateEnded /\ call'.tAnswer = call.tAnswer
            BY <2>2, <3>1, FinishEnds
        <3>3. PICK l \in {"fin1", "exit"} : Goto(ByeReq, l)
            BY <2>2, <3>1, FinishEnds
        <3> QED BY <2>1, <3>2, <3>3, DialogMoves
    <2>3. CASE Goto(ByeReq, "exit") /\ UNCHANGED call
        BY <2>1, <2>3, DialogMoves
    <2> QED BY <1>2, <2>2, <2>3 DEF OnBye
<1>3. CASE SessionFires
    BY <1>0, <1>3, DialogMoves DEF SessionFires
<1>4. CASE SessionCheck
    <2>1. PICK l \in {"refresh", "idle"} : Goto(Session, l) /\ (l = "refresh" => call.state = StateConnected)
        BY <1>4 DEF SessionCheck
    <2>2. l = "refresh" => dialog # "none"
        BY <2>1 DEF CoreInv, ChannelInv, ByeInv
    <2>3. UNCHANGED <<call, byeRes, ret, dialog, byeLost>>
        BY <1>4 DEF SessionCheck
    <2> QED BY <1>0, <2>1, <2>2, <2>3, DialogMoves
<1>5. CASE SessionRefresh
    <2>1. dialog # "none" /\ UNCHANGED <<call, byeRes, ret, dialog, byeLost>>
        BY <1>5 DEF SessionRefresh, ByeInv
    <2>2. PICK l \in {"bye", "idle"} : Goto(Session, l)
        BY <1>5 DEF SessionRefresh
    <2> QED BY <1>0, <2>1, <2>2, DialogMoves
<1>6. CASE Replaced
    <2>1. dialog # "none"
        BY <1>6 DEF Replaced, ByeInv
    <2> QED BY <1>0, <1>6, <2>1, DialogMoves DEF Replaced
<1>7. CASE ReplacesArrives(tagsKnown)
    <2>1. dialog # "none"
        BY <1>7 DEF ReplacesArrives
    <2> QED BY <1>0, <1>7, <2>1, DialogMoves DEF ReplacesArrives
<1> QED BY <1>1, <1>2, <1>3, <1>4, <1>5, <1>6, <1>7

\* Every step the two kinds of calls share
LEMMA SharedDialogs ==
    ASSUME CoreTypeOK, CoreInv, ByeInv, NEW tagsKnown,
           \/ CoreProgress \/ CoreEnv(tagsKnown)
           \/ \E h \in Hangers : HangupStart(h)
    PROVE  DialogStep
BY FinishStepDialogs, ByeDialogs, HangupDialogs, OtherDialogs DEF CoreProgress, CoreEnv

\* The goroutine of the INVITE leaves for good only once the call has ended.
LEMMA InviteLeaves ==
    ASSUME CoreTypeOK, CoreInv, NEW tagsKnown,
           CoreProgress \/ CoreEnv(tagsKnown) \/ \E h \in Hangers : HangupStart(h)
    PROVE  /\ pc[Invite] \in EndPc => pc'[Invite] \in EndPc
           /\ pc'[Invite] = "exit" => pc[Invite] = "exit" \/ call'.state = StateEnded
           /\ pc[Invite] \notin FinishPc \cup {"bye", "byesent"} => pc'[Invite] = pc[Invite]
           /\ pc'[Invite] = pc[Invite] \/ pc'[Invite] \in EndPc \cup {"byesent"}
<1> USE ThreadNames
<1>0. /\ Invite # ByeReq /\ Invite # Session /\ Invite # Replace
      /\ \A h \in Hangers : h # Invite
    BY HangersAreThreads DEF Invite, ByeReq, Session, Replace
<1>1. CASE pc'[Invite] = pc[Invite]
    BY <1>1
<1>2. ASSUME NEW t \in Threads, FinishStep(t), pc'[Invite] # pc[Invite]
      PROVE  pc[Invite] \in FinishPc /\ pc'[Invite] \in EndPc /\ call'.state = StateEnded
    <2>1. pc[t] \in FinishPc /\ \E l \in EndPc : Goto(t, l)
        BY <1>2 DEF FinishStep, FinishDetach, FinishReport, FinishWake, FinishPc, EndPc
    <2>2. t = Invite
        BY <1>2, <2>1 DEF Goto, CoreTypeOK
    <2>3. call.state = StateEnded
        BY <2>1 DEF CoreInv, OwnerInv
    <2>4. call'.state = call.state
        <3>1. call \in Calls
            BY DEF CoreTypeOK
        <3>2. call' = call \/ call' = [call EXCEPT !.done = CloseChan(@)]
            BY <1>2 DEF FinishStep, FinishDetach, FinishReport, FinishWake
        <3> QED BY <3>1, <3>2, CloseDoneFacts
    <2> QED BY <2>1, <2>2, <2>3, <2>4 DEF Goto, CoreTypeOK
<1>3. ASSUME NEW t \in Threads, ByeSend(t), pc'[Invite] # pc[Invite]
      PROVE  pc[Invite] = "bye" /\ pc'[Invite] = "byesent"
    BY <1>3 DEF ByeSend, Goto, CoreTypeOK
<1>4. ASSUME NEW t \in Threads, ByeDone(t) \/ ByeTimeout(t), pc'[Invite] # pc[Invite]
      PROVE  pc[Invite] = "byesent" /\ pc'[Invite] \in EndPc /\ call'.state = StateEnded
    <2>1. pc[t] = "byesent" /\ \E by \in EndedBy : Finish(t, by, 0)
        BY <1>4 DEF ByeDone, ByeTimeout, CoreTypeOK, EndedBy
    <2>2. call'.state = StateEnded /\ \E l \in {"fin1", "exit"} : Goto(t, l)
        BY <2>1, FinishEnds
    <2> QED BY <1>4, <2>1, <2>2 DEF Goto, CoreTypeOK, EndPc, FinishPc
<1>5. ASSUME NEW t \in Threads, PeerAnswersBye(t) PROVE pc'[Invite] = pc[Invite]
    BY <1>5 DEF PeerAnswersBye
<1>6. ASSUME NEW h \in Hangers, HangupStart(h) \/ HangupWait(h) PROVE pc'[Invite] = pc[Invite]
    BY <1>0, <1>6 DEF HangupStart, HangupWait, Goto, CoreTypeOK
<1>7. ASSUME OnBye \/ PeerBye PROVE pc'[Invite] = pc[Invite]
    BY <1>0, <1>7 DEF OnBye, PeerBye, Finish, Goto, CoreTypeOK
<1>8. ASSUME SessionFires \/ SessionCheck \/ SessionRefresh PROVE pc'[Invite] = pc[Invite]
    BY <1>0, <1>8 DEF SessionFires, SessionCheck, SessionRefresh, Goto, CoreTypeOK
<1>9. ASSUME Replaced \/ ReplacesArrives(tagsKnown) PROVE pc'[Invite] = pc[Invite]
    BY <1>0, <1>9 DEF Replaced, ReplacesArrives, Goto, CoreTypeOK
<1>10. CASE pc'[Invite] # pc[Invite]
    <2>1. PICK t \in Threads : FinishStep(t) \/ ByeSend(t) \/ ByeDone(t) \/ ByeTimeout(t)
        BY <1>5, <1>6, <1>7, <1>8, <1>9, <1>10 DEF CoreProgress, CoreEnv, ByeStep
    <2> QED BY <1>2, <1>3, <1>4, <1>10, <2>1 DEF EndPc, FinishPc
<1> QED BY <1>1, <1>10

\* Steps that drive the INVITE: they may answer a call that has a dialog, and
\* may be the ones to set the dialog up.
LEMMA InviteDialogs ==
    ASSUME CoreTypeOK, ByeInv,
           \/ pc' = pc
           \/ \E l : Goto(Invite, l) /\ l # "byesent" /\ (l = "bye" => dialog # "none"),
           UNCHANGED <<byeRes, ret, byeLost>>,
           dialog' = dialog \/ (dialog = "none" /\ dialog' = "up"),
           call'.tAnswer => call.tAnswer \/ dialog # "none",
           call.state = StateEnded => call'.state = StateEnded
    PROVE  ByeInv' /\ (OverAtPeer => OverAtPeer')
<1>0. Invite # ByeReq /\ Invite # Session /\ Invite # Replace
    BY DEF Invite, ByeReq, Session, Replace
<1>1. /\ dialog' = "none" => dialog = "none"
      /\ dialog = "down" => dialog' = "down"
    OBVIOUS
<1>2. \A t \in Threads : t # Invite => pc'[t] = pc[t]
    BY ThreadNames DEF Goto, CoreTypeOK
<1>3. pc'[Invite] \in {"bye", "byesent"} => dialog # "none"
    BY ThreadNames DEF Goto, CoreTypeOK, ByeInv
<1>4. \A t \in Threads : pc'[t] \in {"bye", "byesent"} => dialog' # "none"
    BY <1>1, <1>2, <1>3 DEF ByeInv
<1>5. /\ pc'[Replace] = "recv" => dialog' # "none"
      /\ pc'[Session] = "refresh" => dialog' # "none"
      /\ pc'[ByeReq] = "recv" => dialog' = "down"
      /\ call'.tAnswer => dialog' # "none"
    BY <1>0, <1>1, <1>2, ThreadNames DEF ByeInv
<1>6. /\ \A t \in Threads : byeRes'[t] # 0 => dialog' = "down"
      /\ \A h \in Hangers : ret'[h] = "true" => call'.state = StateEnded
    BY <1>1 DEF ByeInv
<1> QED BY <1>1, <1>4, <1>5, <1>6 DEF ByeInv, OverAtPeer

\* An ended call stays ended: CallLifecycle says so.
LEMMA EndedStays ==
    ASSUME LifecycleStep, call.state = StateEnded
    PROVE  call'.state = StateEnded
BY DEF LifecycleStep, Lifecycle!Next, Lifecycle!Ring, Lifecycle!Answer, Lifecycle!End,
       Lifecycle!Report, Lifecycle!Wake, Lifecycle!vars

\* When every goroutine is at rest an ended call has woken its waiters.
LEMMA RestWakes ==
    ASSUME CoreTypeOK, CoreInv, Quiescent, call.state = StateEnded
    PROVE  call.done = "closed"
BY DEF CoreInv, OwnerInv, ChannelInv, Quiescent, FinishPc

\* Before there is an INVITE there is no dialog.
LEMMA CoreInitDialogs == CoreInit => ByeInv /\ call.state = StateCalling /\ dialog = "none"
BY NewCallFacts, ThreadNames DEF CoreInit, ByeInv
=============================================================================
