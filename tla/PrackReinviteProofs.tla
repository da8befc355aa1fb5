------------------------- MODULE PrackReinviteProofs -------------------------
(***************************************************************************)
(* Proofs about the transactions within a dialog: the acknowledgement of a *)
(* reliable 180 (Prack) and re-INVITEs of both ends (Reinvite).  The two   *)
(* share no state; each part states its own inductive invariant.           *)
(***************************************************************************)
EXTENDS Prack, Reinvite, TLAPS
-----------------------------------------------------------------------------
(***************************************************************************)
(* Proofs about reliable provisional responses, for any number of forked   *)
(* endpoints.  AcksOnce and LateRinging are not inductive: the first needs *)
(* to know that no PRACK was started before an RSeq was seen, the second   *)
(* that the goroutine that wrote a late 180 has left and that an endpoint  *)
(* which has not rung yet has no goroutine.                                *)
(***************************************************************************)

\* The caller has started no PRACK before it saw the RSeq, at most one for
\* each 180 afterwards, and has a dialog for those it still has to send.
CallerInv ==
    /\ lastRSeq = 0 => \A e \in Endpoints : acks[e] = 0
    /\ \A e \in Endpoints : acks[e] <= 1
    /\ acking # {} => res # None

\* A late 180 is the last thing its goroutine writes, and only the first 180
\* starts a goroutine.
RingerInv ==
    \A e \in Endpoints :
        /\ late[e] <= 1
        /\ late[e] = 1 => ringer[e] = "gone"
        /\ st[e] = "new" => ringer[e] = "off"

PrackInv == PrackTypeOK /\ CallerInv /\ RingerInv
-----------------------------------------------------------------------------
\* newCall and run: nothing is on the network, nobody rings.
LEMMA PrackStart == PrackInit => PrackInv
BY PrackConstants DEF PrackInit, PrackInv, PrackTypeOK, CallerInv, RingerInv, RSeq

\* A message of an endpoint is a message.
LEMMA MsgType ==
    ASSUME NEW e \in Endpoints, NEW m \in {"180", "200", "ACK", "PRACK"}
    PROVE  Msg(m, e) \in Messages
BY DEF Msg, Messages

\* Closing a channel moves at most the goroutine that waits, to its end.
LEMMA WakeFacts ==
    ASSUME PrackTypeOK, NEW e \in Endpoints, Wake(e)
    PROVE  /\ ringer' \in [Endpoints -> {"off", "wait", "fired", "write", "gone"}]
           /\ \A f \in Endpoints :
                 /\ ringer[f] = "gone" => ringer'[f] = "gone"
                 /\ ringer[f] = "off" => ringer'[f] = "off"
BY DEF PrackTypeOK, Wake

\* Every step of the endpoints keeps the invariant.
LEMMA UasStep ==
    ASSUME PrackInv, NEW e \in Endpoints,
           \/ RingReliably(e) \/ Ringer(e) \/ Deadline(e)
           \/ OnPrack(e) \/ Answer(e) \/ Connected(e) \/ CallEnds(e)
    PROVE  PrackInv'
<1>1. CASE RingReliably(e)
    BY <1>1, MsgType DEF PrackInv, PrackTypeOK, CallerInv, RingerInv, RingReliably, caller
<1>2. CASE Interval(e)
    BY <1>2 DEF PrackInv, PrackTypeOK, CallerInv, RingerInv, Interval, caller
<1>3. CASE CheckState(e)
    BY <1>3 DEF PrackInv, PrackTypeOK, CallerInv, RingerInv, CheckState, caller
<1>4. CASE Retransmit(e)
    BY <1>4, MsgType DEF PrackInv, PrackTypeOK, CallerInv, RingerInv, Retransmit, caller
<1>5. CASE Deadline(e)
    BY <1>5, WakeFacts DEF PrackInv, PrackTypeOK, CallerInv, RingerInv, Deadline, caller
<1>6. CASE OnPrack(e)
    BY <1>6, WakeFacts DEF PrackInv, PrackTypeOK, CallerInv, RingerInv, OnPrack, caller
<1>7. CASE Answer(e)
    BY <1>7, MsgType DEF PrackInv, PrackTypeOK, CallerInv, RingerInv, Answer, caller
<1>8. CASE Connected(e)
    BY <1>8, WakeFacts DEF PrackInv, PrackTypeOK, CallerInv, RingerInv, Connected, caller
<1>9. CASE CallEnds(e)
    BY <1>9, WakeFacts DEF PrackInv, PrackTypeOK, CallerInv, RingerInv, CallEnds, caller
<1> QED BY <1>1, <1>2, <1>3, <1>4, <1>5, <1>6, <1>7, <1>8, <1>9 DEF Ringer

\* Every step of the caller keeps the invariant.
LEMMA CallerStep ==
    ASSUME PrackInv, NEW e \in Endpoints,
           Ringing(e) \/ SendPRACK(e) \/ Established(e)
    PROVE  PrackInv'
<1>1. CASE Ringing(e)
    <2>1. CASE RSeq > lastRSeq
        BY <1>1, <2>1, PrackConstants
        DEF PrackInv, PrackTypeOK, CallerInv, RingerInv, Ringing, MaybePRACK, RSeq, uas
    <2>2. CASE RSeq <= lastRSeq
        BY <1>1, <2>2
        DEF PrackInv, PrackTypeOK, CallerInv, RingerInv, Ringing, MaybePRACK, RSeq, uas
    <2> QED BY <2>1, <2>2 DEF PrackInv, PrackTypeOK, RSeq
<1>2. CASE SendPRACK(e)
    <2>1. res \in Endpoints
        BY <1>2 DEF PrackInv, PrackTypeOK, CallerInv, SendPRACK
    <2> QED
        BY <1>2, <2>1, MsgType DEF PrackInv, PrackTypeOK, CallerInv, RingerInv, SendPRACK, uas
<1>3. CASE Established(e)
    BY <1>3, MsgType, PrackConstants
    DEF PrackInv, PrackTypeOK, CallerInv, RingerInv, Established, uas
<1> QED BY <1>1, <1>2, <1>3

\* Every step of the system keeps the invariant.
LEMMA PrackStep == PrackInv /\ [PrackNext]_prackVars => PrackInv'
<1> SUFFICES ASSUME PrackInv, [PrackNext]_prackVars PROVE PrackInv'
    OBVIOUS
<1>1. CASE GivesUp
    BY <1>1 DEF PrackInv, PrackTypeOK, CallerInv, RingerInv, GivesUp, uas
<1>2. CASE \E msg \in net : Lose(msg)
    BY <1>2 DEF PrackInv, PrackTypeOK, CallerInv, RingerInv, Lose, uas, caller
<1>3. CASE UNCHANGED prackVars
    BY <1>3 DEF PrackInv, PrackTypeOK, CallerInv, RingerInv, prackVars, uas, caller
<1> QED BY <1>1, <1>2, <1>3, UasStep, CallerStep DEF PrackNext

\* The inductive invariant holds in every reachable state.
LEMMA PrackInvariant == PrackSpec => []PrackInv
BY PrackStart, PrackStep, PTL DEF PrackSpec

\* Type correctness, which bounds the closes of Call.prack: sync.Once closes
\* the channel at most once, however many PRACKs arrive.
THEOREM PrackTypeCorrect == PrackSpec => []PrackTypeOK
<1>1. PrackInv => PrackTypeOK
    BY DEF PrackInv
<1> QED BY <1>1, PrackInvariant, PTL

\* maybePRACK: a reliable 180 that is repeated by its endpoint, or by the
\* network, is acknowledged at most once, and never outside a dialog.
THEOREM PrackAcksOnce == PrackSpec => []AcksOnce
<1>1. PrackInv => AcksOnce
    BY DEF PrackInv, CallerInv, AcksOnce
<1> QED BY <1>1, PrackInvariant, PTL

\* ringReliably: however the timers, the PRACK, the answer and the end of the
\* call race, at most one 180 is written once there is no reason for it.
THEOREM PrackLateRinging == PrackSpec => []LateRinging
<1>1. PrackInv => LateRinging
    BY DEF PrackInv, RingerInv, LateRinging
<1> QED BY <1>1, PrackInvariant, PTL
-----------------------------------------------------------------------------
(***************************************************************************)
(* Proofs about re-INVITEs of both ends at once.  Agreement speaks only of *)
(* moments when nobody has a re-INVITE under way.  The argument is about   *)
(* the direction an end is committed to: its stream's, or, while it waits, *)
(* the one it will restore, or the accepted one once the 200 is on its     *)
(* way.  The committed directions are each other's reverse in every state  *)
(* until a 200 is lost; an end that holds its lock answers 491, so nobody  *)
(* can change them behind the back of a pending exchange.                  *)
(***************************************************************************)

Waiting(s) == \E t \in Tasks : pc[s][t] = "wait"

\* What the direction would be if the re-INVITE under way failed
Held(s) == IF Waiting(s) THEN prev[s] ELSE dir[s]

\* What it will be, given what the other end has answered so far
Committed(s) == IF response[s] = 200 THEN Reverse(answer[s]) ELSE Held(s)

\* The lock's owner is the task past "lock"; only it has a request or a
\* response under way, and never both.
LockInv ==
    \A s \in Sides :
        /\ \A t \in Tasks : pc[s][t] \notin {"idle", "lock"} <=> mu[s] = t
        /\ request[s] # "none" \/ response[s] # 0 => Waiting(s)
        /\ request[s] = "none" \/ response[s] = 0

\* The offer is what the task wants, the answer its reverse, and a refresh
\* offers what there is.
OfferInv ==
    \A s \in Sides :
        /\ want[s]["script"] # "recvonly"
        /\ pc[s]["refresh"] = "send" => want[s]["refresh"] = dir[s]
        /\ pc[s]["refresh"] = "wait" => want[s]["refresh"] = prev[s]
        /\ \A t \in Tasks :
             pc[s][t] = "wait" =>
                /\ request[s] # "none" => request[s] = want[s][t]
                /\ response[s] = 200 => answer[s] = Reverse(want[s][t])

\* An accepted offer binds the other end, which has not had one accepted too.
AcceptInv ==
    \A s \in Sides :
        response[s] = 200 =>
            /\ Held(Other(s)) = answer[s]
            /\ response[Other(s)] # 200

CommitInv == lost # "open" => Committed(A) = Reverse(Committed(B))

HoldInv == lost = "never" => \A s \in Sides : Held(s) = "sendonly" => localHold[s]

ReinviteInv == TypeOK /\ LockInv /\ OfferInv /\ AcceptInv /\ CommitInv /\ HoldInv
-----------------------------------------------------------------------------
\* The ends of the call.
LEMMA SideFacts ==
    /\ A \in Sides /\ B \in Sides /\ A # B
    /\ Other(A) = B /\ Other(B) = A
    /\ \A s \in Sides : s = A \/ s = B
    /\ \A s \in Sides : Other(s) \in Sides /\ Other(s) # s /\ Other(Other(s)) = s
BY ReinviteConstants DEF Sides, Other

\* Direction.Reverse is a bijection that undoes itself.
LEMMA ReverseFacts ==
    /\ Reverse("sendrecv") = "sendrecv"
    /\ Reverse("sendonly") = "recvonly"
    /\ Reverse("recvonly") = "sendonly"
    /\ \A d \in Directions : Reverse(d) \in Directions /\ Reverse(Reverse(d)) = d
BY DEF Reverse, Directions

\* An established call, before any re-INVITE.
LEMMA ReinviteInit == Init => ReinviteInv
<1> SUFFICES ASSUME Init PROVE ReinviteInv
    OBVIOUS
<1> USE SideFacts, ReverseFacts, ReinviteConstants DEF Init
<1>1. TypeOK
    BY DEF TypeOK, Tasks, Directions
<1>2. LockInv /\ OfferInv /\ AcceptInv
    BY DEF LockInv, OfferInv, AcceptInv, Tasks
<1>3. CommitInv /\ HoldInv
    BY DEF CommitInv, HoldInv, Committed, Held, Waiting, Tasks
<1> QED BY <1>1, <1>2, <1>3 DEF ReinviteInv

\* A task moves; every other task stays where it is.
LEMMA GotoFacts ==
    ASSUME TypeOK, NEW s \in Sides, NEW t \in Tasks,
           NEW l \in {"idle", "lock", "send", "wait", "backoff", "bye"}, Goto(s, t, l)
    PROVE  /\ pc' \in [Sides -> [Tasks -> {"idle", "lock", "send", "wait", "backoff", "bye"}]]
           /\ pc'[s][t] = l
           /\ \A u \in Tasks : u # t => pc'[s][u] = pc[s][u]
           /\ \A o \in Sides : o # s => pc'[o] = pc[o]
BY DEF TypeOK, Goto

\* A re-INVITE that failed: the direction is back, and the task sleeps, returns
\* without the lock, or goes on to hang up.
LEMMA FailedFacts ==
    ASSUME TypeOK, NEW s \in Sides, NEW t \in Tasks, NEW code, pc[s][t] = "wait", Failed(s, t, code)
    PROVE  /\ dir' = Set(dir, s, prev[s])
           /\ attempt' \in [Sides -> 0..1]
           /\ \/ Goto(s, t, "backoff") /\ mu' = mu /\ t = "script"
              \/ Goto(s, t, "idle") /\ mu' = Set(mu, s, "none")
              \/ Goto(s, t, "bye") /\ mu' = mu
BY DEF TypeOK, Failed, Retries, Set

\* ... with the types of what it changed
LEMMA FailedType ==
    ASSUME TypeOK, NEW s \in Sides, NEW t \in Tasks, NEW code, pc[s][t] = "wait", Failed(s, t, code)
    PROVE  /\ dir' \in [Sides -> Directions]
           /\ mu' \in [Sides -> Tasks \cup {"none"}]
           /\ pc' \in [Sides -> [Tasks -> {"idle", "lock", "send", "wait", "backoff", "bye"}]]
<1>0. dir' = Set(dir, s, prev[s]) /\ (mu' = mu \/ mu' = Set(mu, s, "none"))
    BY FailedFacts
<1>1. dir' \in [Sides -> Directions]
    BY <1>0 DEF TypeOK, Set
<1>2. mu' \in [Sides -> Tasks \cup {"none"}]
    BY <1>0 DEF TypeOK, Set
<1>3. pc' \in [Sides -> [Tasks -> {"idle", "lock", "send", "wait", "backoff", "bye"}]]
    BY FailedFacts, GotoFacts
<1> QED BY <1>1, <1>2, <1>3

\* onReInvite refuses and changes nothing, or, when no re-INVITE of its own end
\* is under way, accepts.
LEMMA OnReInviteFacts ==
    ASSUME NEW s \in Sides, OnReInvite(s)
    PROVE  /\ request[s] # "none" /\ request' = Set(request, s, "none")
           /\ \/ /\ response' = Set(response, s, 481) \/ response' = Set(response, s, 491)
                 /\ dir' = dir /\ remoteHold' = remoteHold /\ answer' = answer
              \/ /\ mu[Other(s)] = "none"
                 /\ response' = Set(response, s, 200)
                 /\ remoteHold' = Set(remoteHold, Other(s), request[s] = "sendonly")
                 /\ dir' = Set(dir, Other(s), Reverse(request[s]))
                 /\ answer' = Set(answer, s, Reverse(request[s]))
           /\ UNCHANGED <<up, mu, localHold, pc, want, prev, attempt, holds, lost>>
BY SideFacts DEF OnReInvite, ReofferAnswer, Update

\* Every step keeps the types.
LEMMA TypeStep == TypeOK /\ [Next]_vars => TypeOK'
<1> SUFFICES ASSUME TypeOK, [Next]_vars PROVE TypeOK'
    OBVIOUS
<1> USE SideFacts, ReverseFacts, ReinviteConstants DEF TypeOK
<1>1. ASSUME NEW s \in Sides, ScriptReinvites(s) PROVE TypeOK'
    BY <1>1 DEF ScriptReinvites, Goto, Tasks, Directions
<1>2. ASSUME NEW s \in Sides, RefreshFires(s) PROVE TypeOK'
    BY <1>2 DEF RefreshFires, Goto, Tasks
<1>3. ASSUME NEW s \in Sides, Ends(s) PROVE TypeOK'
    BY <1>3 DEF Ends, Set
<1>4. ASSUME NEW s \in Sides, Backoff(s) PROVE TypeOK'
    BY <1>4 DEF Backoff, Goto, Tasks
<1>5. ASSUME NEW s \in Sides, RefreshBye(s) PROVE TypeOK'
    BY <1>5 DEF RefreshBye, Goto, Set, Tasks
<1>6. ASSUME NEW s \in Sides, OnReInvite(s) PROVE TypeOK'
    <2>1. /\ request[s] # "none" /\ request' = Set(request, s, "none")
          /\ \E code \in {200, 481, 491} : response' = Set(response, s, code)
          /\ UNCHANGED <<up, mu, localHold, pc, want, prev, attempt, holds, lost>>
        BY <1>6, OnReInviteFacts
    <2>2. \/ dir' = dir /\ remoteHold' = remoteHold /\ answer' = answer
          \/ /\ \E b \in BOOLEAN : remoteHold' = Set(remoteHold, Other(s), b)
             /\ dir' = Set(dir, Other(s), Reverse(request[s]))
             /\ answer' = Set(answer, s, Reverse(request[s]))
        BY <1>6, OnReInviteFacts
    <2>3. request' \in [Sides -> Directions \cup {"none"}] /\ request[s] \in Directions
        BY <2>1 DEF Set
    <2>4. response' \in [Sides -> {0, 200, 481, 491}]
        BY <2>1 DEF Set
    <2>5. /\ dir' \in [Sides -> Directions] /\ answer' \in [Sides -> Directions]
          /\ remoteHold' \in [Sides -> BOOLEAN]
        <3>1. PICK o \in Sides, d \in Directions : o = Other(s) /\ d = Reverse(request[s])
            BY <2>3
        <3>2. CASE dir' = dir /\ remoteHold' = remoteHold /\ answer' = answer
            BY <3>2
        <3>3. CASE /\ \E b \in BOOLEAN : remoteHold' = Set(remoteHold, o, b)
                   /\ dir' = Set(dir, o, d) /\ answer' = Set(answer, s, d)
            BY <3>3 DEF Set
        <3> QED BY <2>2, <3>1, <3>2, <3>3
    <2> QED BY <2>1, <2>3, <2>4, <2>5
<1>7. ASSUME NEW s \in Sides, NEW t \in Tasks, Lock(s, t) PROVE TypeOK'
    BY <1>7 DEF Lock, Goto, Set
<1>8. ASSUME NEW s \in Sides, NEW t \in Tasks, Send(s, t) PROVE TypeOK'
    BY <1>8 DEF Send, Offer, Goto, Set
<1>9. ASSUME NEW s \in Sides, NEW t \in Tasks, Accepted(s, t) PROVE TypeOK'
    <2>1. pc' \in [Sides -> [Tasks -> {"idle", "lock", "send", "wait", "backoff", "bye"}]]
        BY <1>9, GotoFacts DEF Accepted
    <2>2. dir' \in [Sides -> Directions]
        BY <1>9 DEF Accepted, ApplyAnswer, Set
    <2>3. localHold' \in [Sides -> BOOLEAN]
        BY <1>9 DEF Accepted, Set
    <2> QED BY <1>9, <2>1, <2>2, <2>3 DEF Accepted, Healed, Set
<1>10. ASSUME NEW s \in Sides, NEW t \in Tasks, Refused(s, t) PROVE TypeOK'
    <2>1. /\ dir' \in [Sides -> Directions]
          /\ mu' \in [Sides -> Tasks \cup {"none"}]
          /\ attempt' \in [Sides -> 0..1]
          /\ pc' \in [Sides -> [Tasks -> {"idle", "lock", "send", "wait", "backoff", "bye"}]]
        BY <1>10, FailedFacts, FailedType DEF Refused
    <2> QED BY <1>10, <2>1 DEF Refused, Set
<1>11. ASSUME NEW s \in Sides, NEW t \in Tasks, Timeout(s, t) PROVE TypeOK'
    <2>1. /\ dir' \in [Sides -> Directions]
          /\ mu' \in [Sides -> Tasks \cup {"none"}]
          /\ attempt' \in [Sides -> 0..1]
          /\ pc' \in [Sides -> [Tasks -> {"idle", "lock", "send", "wait", "backoff", "bye"}]]
        BY <1>11, FailedFacts, FailedType DEF Timeout
    <2> QED BY <1>11, <2>1 DEF Timeout, Set
<1>12. CASE UNCHANGED vars
    BY <1>12 DEF vars
<1> QED
    BY <1>1, <1>2, <1>3, <1>4, <1>5, <1>6, <1>7, <1>8, <1>9, <1>10, <1>11, <1>12
    DEF Next, TaskStep

-----------------------------------------------------------------------------
\* An end whose tasks and directions do not move holds what it held.
LEMMA HeldKept ==
    ASSUME NEW s \in Sides, pc'[s] = pc[s], dir'[s] = dir[s], prev'[s] = prev[s]
    PROVE  Held(s)' = Held(s) /\ Waiting(s)' = Waiting(s)
BY DEF Held, Waiting

\* While nothing is accepted and nobody's direction changes, the commitments
\* stand.
LEMMA CommitKept ==
    ASSUME ReinviteInv,
           \A s \in Sides : Held(s)' = Held(s) /\ (response'[s] = 200 <=> response[s] = 200),
           UNCHANGED <<answer, localHold, lost>>
    PROVE  AcceptInv' /\ CommitInv' /\ HoldInv'
<1>1. AcceptInv'
    BY SideFacts DEF ReinviteInv, AcceptInv
<1>2. CommitInv'
    BY SideFacts DEF ReinviteInv, CommitInv, Committed
<1>3. HoldInv'
    BY DEF ReinviteInv, HoldInv
<1> QED BY <1>1, <1>2, <1>3

\* A task that does not wait for a response gets none.
LEMMA NotWaiting ==
    ASSUME ReinviteInv, NEW s \in Sides, ~Waiting(s)
    PROVE  response[s] = 0 /\ request[s] = "none" /\ Held(s) = dir[s] /\ Committed(s) = dir[s]
BY DEF ReinviteInv, LockInv, Held, Committed

\* The task that waits is the one with the lock.
LEMMA TheWaiter ==
    ASSUME ReinviteInv, NEW s \in Sides, NEW t \in Tasks, pc[s][t] = "wait"
    PROVE  /\ mu[s] = t /\ Waiting(s) /\ Held(s) = prev[s]
           /\ \A u \in Tasks : u # t => pc[s][u] \in {"idle", "lock"}
BY DEF ReinviteInv, TypeOK, LockInv, Waiting, Held, Tasks

\* Hold and Unhold ask for the lock.
LEMMA ScriptReinvitesStep ==
    ASSUME ReinviteInv, NEW s \in Sides, ScriptReinvites(s)
    PROVE  LockInv' /\ OfferInv' /\ AcceptInv' /\ CommitInv' /\ HoldInv'
<1> USE SideFacts DEF ReinviteInv, TypeOK, ScriptReinvites, Goto, Tasks
<1>1. LockInv'
    BY DEF LockInv, Waiting
<1>2. OfferInv'
    BY DEF OfferInv
<1>3. \A x \in Sides : Held(x)' = Held(x)
    BY DEF Held, Waiting
<1>4. UNCHANGED <<response, answer, localHold, lost>>
    OBVIOUS
<1> QED BY <1>1, <1>2, <1>3, <1>4, CommitKept

\* The session timer asks for the lock.
LEMMA RefreshFiresStep ==
    ASSUME ReinviteInv, NEW s \in Sides, RefreshFires(s)
    PROVE  LockInv' /\ OfferInv' /\ AcceptInv' /\ CommitInv' /\ HoldInv'
<1> USE SideFacts DEF ReinviteInv, TypeOK, RefreshFires, Goto, Tasks
<1>1. LockInv'
    BY DEF LockInv, Waiting
<1>2. OfferInv'
    BY DEF OfferInv
<1>3. \A x \in Sides : Held(x)' = Held(x)
    BY DEF Held, Waiting
<1>4. UNCHANGED <<response, answer, localHold, lost>>
    OBVIOUS
<1> QED BY <1>1, <1>2, <1>3, <1>4, CommitKept

\* The lock is taken; a refresh offers what the stream has.
LEMMA LockStep ==
    ASSUME ReinviteInv, NEW s \in Sides, NEW t \in Tasks, Lock(s, t)
    PROVE  LockInv' /\ OfferInv' /\ AcceptInv' /\ CommitInv' /\ HoldInv'
<1> USE SideFacts DEF ReinviteInv, TypeOK, Lock, Goto, Tasks
<1>1. LockInv'
    BY DEF LockInv, Waiting, Set
<1>2. OfferInv'
    BY DEF OfferInv
<1>3. \A x \in Sides : Held(x)' = Held(x)
    BY DEF Held, Waiting
<1>4. UNCHANGED <<response, answer, localHold, lost>>
    OBVIOUS
<1> QED BY <1>1, <1>2, <1>3, <1>4, CommitKept

\* The sleep between two attempts ends.
LEMMA BackoffStep ==
    ASSUME ReinviteInv, NEW s \in Sides, Backoff(s)
    PROVE  LockInv' /\ OfferInv' /\ AcceptInv' /\ CommitInv' /\ HoldInv'
<1> USE SideFacts DEF ReinviteInv, TypeOK, Backoff, Goto, Tasks
<1>1. LockInv'
    BY DEF LockInv, Waiting, Set
<1>2. OfferInv'
    BY DEF OfferInv
<1>3. \A x \in Sides : Held(x)' = Held(x)
    BY DEF Held, Waiting
<1>4. UNCHANGED <<response, answer, localHold, lost>>
    OBVIOUS
<1> QED BY <1>1, <1>2, <1>3, <1>4, CommitKept

\* A refresh that failed hangs up and gives the lock back.
LEMMA RefreshByeStep ==
    ASSUME ReinviteInv, NEW s \in Sides, RefreshBye(s)
    PROVE  LockInv' /\ OfferInv' /\ AcceptInv' /\ CommitInv' /\ HoldInv'
<1> USE SideFacts DEF ReinviteInv, TypeOK, RefreshBye, Goto, Tasks
<1>1. LockInv'
    BY DEF LockInv, Waiting, Set
<1>2. OfferInv'
    BY DEF OfferInv
<1>3. \A x \in Sides : Held(x)' = Held(x)
    BY DEF Held, Waiting
<1>4. UNCHANGED <<response, answer, localHold, lost>>
    OBVIOUS
<1> QED BY <1>1, <1>2, <1>3, <1>4, CommitKept

\* The call ends at one end.
LEMMA EndsStep ==
    ASSUME ReinviteInv, NEW s \in Sides, Ends(s)
    PROVE  LockInv' /\ OfferInv' /\ AcceptInv' /\ CommitInv' /\ HoldInv'
BY DEF ReinviteInv, LockInv, OfferInv, AcceptInv, CommitInv, HoldInv, Committed, Held, Waiting, Ends

\* A re-INVITE is sent: what the stream had is remembered.
LEMMA SendStep ==
    ASSUME ReinviteInv, NEW s \in Sides, NEW t \in Tasks, Send(s, t)
    PROVE  LockInv' /\ OfferInv' /\ AcceptInv' /\ CommitInv' /\ HoldInv'
<1>1. ~Waiting(s)
    BY DEF ReinviteInv, LockInv, Waiting, Send
<1>2. response[s] = 0 /\ Held(s) = dir[s]
    BY <1>1, NotWaiting
<1> USE SideFacts DEF ReinviteInv, TypeOK, Send, Offer, Goto, Set, Tasks
<1>3. LockInv'
    BY <1>2 DEF LockInv, Waiting
<1>4. OfferInv'
    BY <1>2 DEF OfferInv, LockInv
<1>5. \A x \in Sides : Held(x)' = Held(x)
    BY <1>2 DEF Held, Waiting
<1>6. UNCHANGED <<response, answer, localHold, lost>>
    OBVIOUS
<1> QED BY <1>3, <1>4, <1>5, <1>6, CommitKept
\* A re-INVITE failed: the lock's owner changes accordingly, and every end
\* holds what it held.
LEMMA FailedStep ==
    ASSUME ReinviteInv, NEW s \in Sides, NEW t \in Tasks, NEW code, pc[s][t] = "wait",
           Failed(s, t, code), response' = Set(response, s, 0),
           request' = request \/ request' = Set(request, s, "none"),
           request'[s] = "none",
           UNCHANGED <<want, prev, answer>>
    PROVE  /\ LockInv' /\ OfferInv'
           /\ \A x \in Sides : Held(x)' = Held(x)
<1>1. /\ mu[s] = t /\ Held(s) = prev[s]
      /\ \A u \in Tasks : u # t => pc[s][u] \in {"idle", "lock"}
    BY TheWaiter
<1>2. /\ dir'[s] = prev[s]
      /\ \A x \in Sides : x # s => dir'[x] = dir[x]
    BY FailedFacts DEF ReinviteInv, TypeOK, Set
<1>3. \/ pc'[s][t] \in {"backoff", "bye"} /\ mu' = mu
      \/ pc'[s][t] = "idle" /\ mu' = Set(mu, s, "none")
    BY FailedFacts, GotoFacts DEF ReinviteInv
<1>4. /\ \A u \in Tasks : u # t => pc'[s][u] = pc[s][u]
      /\ \A x \in Sides : x # s => pc'[x] = pc[x]
    BY FailedFacts, GotoFacts DEF ReinviteInv
<1>5. /\ response'[s] = 0 /\ \A x \in Sides : x # s => response'[x] = response[x]
      /\ \A x \in Sides : x # s => request'[x] = request[x]
    BY DEF ReinviteInv, TypeOK, Set
<1>6. ~Waiting(s)'
    BY <1>1, <1>3, <1>4 DEF Waiting
<1>7. \A x \in Sides : Held(x)' = Held(x)
    BY <1>1, <1>2, <1>4, <1>6, HeldKept DEF Held
<1>8. LockInv'
    <2>1. ASSUME NEW x \in Sides, x # s, NEW u \in Tasks
          PROVE  pc'[x][u] \notin {"idle", "lock"} <=> mu'[x] = u
        BY <1>3, <1>4, <2>1 DEF ReinviteInv, LockInv, TypeOK, Set
    <2>2. ASSUME NEW u \in Tasks PROVE pc'[s][u] \notin {"idle", "lock"} <=> mu'[s] = u
        <3>1. u # "none" /\ mu \in [Sides -> Tasks \cup {"none"}]
            BY DEF Tasks, ReinviteInv, TypeOK
        <3> QED BY <1>1, <1>3, <1>4, <3>1 DEF Set
    <2>3. ASSUME NEW x \in Sides
          PROVE  /\ request'[x] # "none" \/ response'[x] # 0 => Waiting(x)'
                 /\ request'[x] = "none" \/ response'[x] = 0
        <3>1. CASE x = s
            BY <1>5, <3>1
        <3>2. CASE x # s
            BY <1>4, <1>5, <3>2 DEF ReinviteInv, LockInv, Waiting
        <3> QED BY <3>1, <3>2
    <2> QED BY <2>1, <2>2, <2>3 DEF LockInv
<1>9. OfferInv'
    <2>1. ASSUME NEW u \in Tasks PROVE pc'[s][u] \notin {"send", "wait"}
        BY <1>1, <1>3, <1>4
    <2>2. "refresh" \in Tasks
        BY DEF Tasks
    <2>3. ASSUME NEW x \in Sides
          PROVE  /\ want'[x]["script"] # "recvonly"
                 /\ pc'[x]["refresh"] = "send" => want'[x]["refresh"] = dir'[x]
                 /\ pc'[x]["refresh"] = "wait" => want'[x]["refresh"] = prev'[x]
                 /\ \A u \in Tasks :
                      pc'[x][u] = "wait" =>
                         /\ request'[x] # "none" => request'[x] = want'[x][u]
                         /\ response'[x] = 200 => answer'[x] = Reverse(want'[x][u])
        <3>1. CASE x = s
            BY <2>1, <2>2, <3>1 DEF ReinviteInv, OfferInv
        <3>2. CASE x # s
            BY <1>2, <1>4, <1>5, <3>2 DEF ReinviteInv, OfferInv
        <3> QED BY <3>1, <3>2
    <2> QED BY <2>3 DEF OfferInv
<1> QED BY <1>7, <1>8, <1>9

\* The other end refused.
LEMMA RefusedStep ==
    ASSUME ReinviteInv, NEW s \in Sides, NEW t \in Tasks, Refused(s, t)
    PROVE  LockInv' /\ OfferInv' /\ AcceptInv' /\ CommitInv' /\ HoldInv'
<1>1. request[s] = "none" /\ response[s] # 200
    BY DEF ReinviteInv, TypeOK, LockInv, Refused
<1>2. LockInv' /\ OfferInv' /\ \A x \in Sides : Held(x)' = Held(x)
    BY <1>1, FailedStep DEF Refused
<1>3. \A x \in Sides : response'[x] = 200 <=> response[x] = 200
    BY <1>1 DEF ReinviteInv, TypeOK, Refused, Set
<1>4. UNCHANGED <<answer, localHold, lost>>
    BY DEF Refused
<1> QED BY <1>2, <1>3, <1>4, CommitKept

\* No response in time: when the lost one was a 200, the ends disagree from now
\* on, and the model says so.
LEMMA TimeoutStep ==
    ASSUME ReinviteInv, NEW s \in Sides, NEW t \in Tasks, Timeout(s, t)
    PROVE  LockInv' /\ OfferInv' /\ AcceptInv' /\ CommitInv' /\ HoldInv'
<1>1. request'[s] = "none"
    BY DEF ReinviteInv, TypeOK, Timeout, Set
<1>2. LockInv' /\ OfferInv' /\ \A x \in Sides : Held(x)' = Held(x)
    BY <1>1, FailedStep DEF Timeout
<1>3. CASE response[s] # 200
    <2>1. \A x \in Sides : response'[x] = 200 <=> response[x] = 200
        BY <1>3 DEF ReinviteInv, TypeOK, Timeout, Set
    <2>2. UNCHANGED <<answer, localHold, lost>>
        BY <1>3 DEF Timeout
    <2> QED BY <1>2, <2>1, <2>2, CommitKept
<1>4. CASE response[s] = 200
    <2>1. lost' = "open"
        BY <1>4 DEF Timeout
    <2>2. \A x \in Sides : response'[x] # 200
        BY <1>4, SideFacts DEF ReinviteInv, TypeOK, AcceptInv, Timeout, Set
    <2> QED BY <1>2, <2>1, <2>2 DEF AcceptInv, CommitInv, HoldInv
<1> QED BY <1>3, <1>4

\* The 200 arrives: the direction becomes the accepted one, which is what the
\* other end is committed to.
LEMMA AcceptedStep ==
    ASSUME ReinviteInv, NEW s \in Sides, NEW t \in Tasks, Accepted(s, t)
    PROVE  LockInv' /\ OfferInv' /\ AcceptInv' /\ CommitInv' /\ HoldInv'
<1>1. /\ mu[s] = t /\ Held(s) = prev[s]
      /\ \A u \in Tasks : u # t => pc[s][u] \in {"idle", "lock"}
    BY TheWaiter DEF Accepted
<1>2. /\ answer[s] = Reverse(want[s][t]) /\ want[s][t] \in Directions
      /\ Reverse(answer[s]) = want[s][t]
    BY ReverseFacts DEF ReinviteInv, TypeOK, OfferInv, Accepted
<1>3. /\ dir'[s] = want[s][t]
      /\ \A x \in Sides : x # s => dir'[x] = dir[x]
    BY <1>2 DEF ReinviteInv, TypeOK, Accepted, ApplyAnswer, Set
<1>4. /\ pc'[s][t] = "idle"
      /\ \A u \in Tasks : u # t => pc'[s][u] = pc[s][u]
      /\ \A x \in Sides : x # s => pc'[x] = pc[x]
    BY GotoFacts DEF ReinviteInv, Accepted
<1>5. /\ response[s] = 200 /\ response'[s] = 0
      /\ \A x \in Sides : x # s => response'[x] = response[x]
      /\ mu'[s] = "none" /\ \A x \in Sides : x # s => mu'[x] = mu[x]
      /\ localHold'[s] = (want[s][t] # "sendrecv")
      /\ \A x \in Sides : x # s => localHold'[x] = localHold[x]
    BY DEF ReinviteInv, TypeOK, Accepted, Set
<1>6. UNCHANGED <<want, prev, request, answer>> /\ request[s] = "none"
    BY <1>5 DEF ReinviteInv, LockInv, Accepted
<1>7. ~Waiting(s)' /\ Held(s)' = want[s][t]
    BY <1>1, <1>3, <1>4 DEF Waiting, Held
<1>8. \A x \in Sides : x # s => Held(x)' = Held(x) /\ Waiting(x)' = Waiting(x)
    BY <1>3, <1>4, <1>6, HeldKept
<1>9. LockInv'
    <2>1. ASSUME NEW u \in Tasks PROVE pc'[s][u] \in {"idle", "lock"} /\ mu'[s] # u
        BY <1>1, <1>4, <1>5 DEF Tasks
    <2> QED BY <2>1, <1>4, <1>5, <1>6, <1>8 DEF ReinviteInv, LockInv
<1>10. OfferInv'
    <2>1. ASSUME NEW u \in Tasks PROVE pc'[s][u] \in {"idle", "lock"}
        BY <1>1, <1>4
    <2>2. "refresh" \in Tasks
        BY DEF Tasks
    <2> QED BY <2>1, <2>2, <1>3, <1>4, <1>5, <1>6 DEF ReinviteInv, OfferInv
<1>11. \A x \in Sides : response'[x] # 200
    BY <1>5, SideFacts DEF ReinviteInv, AcceptInv
<1>12. AcceptInv'
    BY <1>11 DEF AcceptInv
<1>13. CommitInv'
    <2>1. Held(Other(s))' = Reverse(Held(s)')
        BY <1>2, <1>5, <1>7, <1>8, SideFacts DEF ReinviteInv, AcceptInv
    <2>2. Held(s)' = Reverse(Held(Other(s))')
        BY <2>1, <1>2, <1>7
    <2>3. \A x \in Sides : Committed(x)' = Held(x)'
        BY <1>11 DEF Committed
    <2> QED BY <2>1, <2>2, <2>3, SideFacts DEF CommitInv
<1>14. HoldInv'
    <2>1. lost' = "never" => lost = "never"
        BY DEF Accepted, Healed, ReinviteInv, TypeOK
    <2>2. want[s][t] = "sendonly" => localHold'[s]
        BY <1>5
    <2>3. \A x \in Sides : x # s /\ localHold[x] => localHold'[x]
        BY <1>5
    <2> QED BY <2>1, <2>2, <2>3, <1>7, <1>8 DEF ReinviteInv, HoldInv
<1> QED BY <1>9, <1>10, <1>12, <1>13, <1>14

\* onReInvite: 481 and 491 change nothing; a 200 commits both ends to the offer.
\* An offer to receive only comes from a refresh, and repeats what was agreed.
LEMMA OnReInviteStep ==
    ASSUME ReinviteInv, NEW s \in Sides, OnReInvite(s)
    PROVE  LockInv' /\ OfferInv' /\ AcceptInv' /\ CommitInv' /\ HoldInv'
<1>1. /\ request[s] \in Directions /\ request[s] # "none" /\ request'[s] = "none"
      /\ \A x \in Sides : x # s => request'[x] = request[x]
      /\ UNCHANGED <<mu, localHold, pc, want, prev, lost>>
    BY OnReInviteFacts DEF ReinviteInv, TypeOK, Set
<1>2. Waiting(s) /\ response[s] = 0
    BY <1>1 DEF ReinviteInv, LockInv
<1>3. \A x \in Sides : Waiting(x)' = Waiting(x)
    BY <1>1 DEF Waiting
<1>4. CASE /\ response' = Set(response, s, 481) \/ response' = Set(response, s, 491)
           /\ dir' = dir /\ answer' = answer
    <2>1. /\ response'[s] # 0 /\ response'[s] # 200
          /\ \A x \in Sides : x # s => response'[x] = response[x]
        BY <1>4 DEF ReinviteInv, TypeOK, Set
    <2>2. LockInv'
        BY <1>1, <1>2, <1>3, <2>1 DEF ReinviteInv, LockInv
    <2>3. OfferInv'
        BY <1>1, <1>4, <2>1 DEF ReinviteInv, OfferInv
    <2>4. \A x \in Sides : Held(x)' = Held(x)
        BY <1>1, <1>4, HeldKept
    <2>5. \A x \in Sides : response'[x] = 200 <=> response[x] = 200
        BY <1>2, <2>1
    <2>6. UNCHANGED <<answer, localHold, lost>>
        BY <1>1, <1>4
    <2> QED BY <2>2, <2>3, <2>4, <2>5, <2>6, CommitKept
<1>5. CASE /\ mu[Other(s)] = "none"
           /\ response' = Set(response, s, 200)
           /\ dir' = Set(dir, Other(s), Reverse(request[s]))
           /\ answer' = Set(answer, s, Reverse(request[s]))
    <2>1. PICK o \in Sides, d \in Directions : o = Other(s) /\ d = request[s] /\ o # s
        BY <1>1, SideFacts
    <2>2. /\ response'[s] = 200 /\ response'[o] = response[o]
          /\ dir'[s] = dir[s] /\ dir'[o] = Reverse(d)
          /\ answer'[s] = Reverse(d) /\ answer'[o] = answer[o]
        BY <1>5, <2>1 DEF ReinviteInv, TypeOK, Set
    <2>3. \A x \in Sides : x = s \/ x = o
        BY <2>1, SideFacts
    <2>4. ~Waiting(o)
        BY <1>5, <2>1 DEF ReinviteInv, LockInv, Waiting, Tasks
    <2>5. response[o] = 0 /\ Held(o) = dir[o] /\ Committed(o) = dir[o]
        BY <2>4, NotWaiting
    <2>6. Held(o)' = Reverse(d) /\ Held(s)' = Held(s)
        BY <1>1, <1>3, <2>2, <2>4, HeldKept DEF Held
    <2>7. LockInv'
        BY <1>1, <1>2, <1>3, <2>2, <2>3, <2>5 DEF ReinviteInv, LockInv
    <2>8. OfferInv'
        <3>1. \A u \in Tasks : pc[o][u] # "wait" /\ pc[o][u] # "send"
            BY <1>5, <2>1 DEF ReinviteInv, LockInv, Tasks
        <3>2. "refresh" \in Tasks
            BY DEF Tasks
        <3>3. \A u \in Tasks : pc[s][u] = "wait" => want[s][u] = d
            BY <1>1, <2>1 DEF ReinviteInv, OfferInv
        <3> QED BY <1>1, <2>2, <2>3, <3>1, <3>2, <3>3 DEF ReinviteInv, OfferInv
    <2>9. AcceptInv'
        BY <2>1, <2>2, <2>3, <2>5, <2>6 DEF AcceptInv
    <2>10. CommitInv'
        <3>1. Committed(s)' = Reverse(Reverse(d)) /\ Committed(o)' = Reverse(d)
            BY <2>2, <2>5, <2>6 DEF Committed
        <3>2. Committed(s)' = Reverse(Committed(o)') /\ Committed(o)' = Reverse(Committed(s)')
            BY <3>1, ReverseFacts
        <3> QED BY <3>2, <2>1, SideFacts DEF CommitInv
    <2>11. HoldInv'
        <3> SUFFICES ASSUME lost = "never", Reverse(d) = "sendonly" PROVE localHold[o]
            BY <1>1, <2>3, <2>6 DEF ReinviteInv, HoldInv
        <3>1. d = "recvonly"
            BY ReverseFacts DEF Directions
        <3>2. PICK u \in Tasks : pc[s][u] = "wait"
            BY <1>2 DEF Waiting
        <3>3. want[s][u] = "recvonly"
            BY <3>1, <3>2, <1>1, <2>1 DEF ReinviteInv, OfferInv
        <3>4. u = "refresh"
            BY <3>3 DEF ReinviteInv, OfferInv, Tasks
        <3>5. prev[s] = "recvonly"
            BY <3>2, <3>3, <3>4 DEF ReinviteInv, OfferInv
        <3>6. Committed(s) = "recvonly"
            BY <1>2, <3>5 DEF Committed, Held
        <3>7. Committed(o) = "sendonly"
            <4>1. dir[o] \in Directions
                BY DEF ReinviteInv, TypeOK
            <4>2. Committed(s) = Reverse(Committed(o)) \/ Committed(o) = Reverse(Committed(s))
                BY <2>1, SideFacts DEF ReinviteInv, CommitInv
            <4> QED BY <4>1, <4>2, <3>6, <2>5, ReverseFacts
        <3> QED BY <3>7, <2>5 DEF ReinviteInv, HoldInv
    <2> QED BY <2>7, <2>8, <2>9, <2>10, <2>11
<1> QED BY <1>4, <1>5, OnReInviteFacts

\* Every step keeps the invariant.
LEMMA ReinviteStep == ReinviteInv /\ [Next]_vars => ReinviteInv'
<1> SUFFICES ASSUME ReinviteInv, [Next]_vars PROVE ReinviteInv'
    OBVIOUS
<1> DEFINE Rest == LockInv /\ OfferInv /\ AcceptInv /\ CommitInv /\ HoldInv
<1>1. TypeOK'
    BY TypeStep DEF ReinviteInv
<1>2. ASSUME NEW s \in Sides,
             \/ ScriptReinvites(s) \/ RefreshFires(s) \/ Ends(s)
             \/ Backoff(s) \/ RefreshBye(s) \/ OnReInvite(s)
      PROVE  Rest'
    BY <1>2, ScriptReinvitesStep, RefreshFiresStep, EndsStep, BackoffStep, RefreshByeStep,
       OnReInviteStep
<1>3. ASSUME NEW s \in Sides, NEW t \in Tasks, Lock(s, t) \/ TaskStep(s, t) \/ Timeout(s, t)
      PROVE  Rest'
    BY <1>3, LockStep, SendStep, AcceptedStep, RefusedStep, TimeoutStep DEF TaskStep
<1>4. ASSUME UNCHANGED vars PROVE Rest'
    BY <1>4
    DEF ReinviteInv, LockInv, OfferInv, AcceptInv, CommitInv, HoldInv, Committed, Held, Waiting, vars
<1>5. Rest'
    BY <1>2, <1>3, <1>4 DEF Next
<1> QED BY <1>1, <1>5 DEF ReinviteInv

\* The inductive invariant holds in every reachable state.
LEMMA ReinviteInvariant == Spec => []ReinviteInv
BY ReinviteInit, ReinviteStep, PTL DEF Spec

\* Type correctness of both ends.
THEOREM ReinviteTypeCorrect == Spec => []TypeOK
<1>1. ReinviteInv => TypeOK
    BY DEF ReinviteInv
<1> QED BY <1>1, ReinviteInvariant, PTL

\* reinviteOnce and onReInvite: with any number of holds, refreshes, glare and
\* timeouts, two ends that have no re-INVITE under way agree on who sends.
THEOREM ReinviteAgreement == Spec => []Agreement
<1>1. ASSUME ReinviteInv PROVE Agreement
    <2> SUFFICES ASSUME \A s \in Sides : mu[s] = "none", lost # "open"
                 PROVE  dir[A] = Reverse(dir[B])
        BY DEF Agreement
    <2>1. ASSUME NEW s \in Sides PROVE Committed(s) = dir[s]
        <3>1. ~Waiting(s)
            BY <1>1 DEF ReinviteInv, LockInv, Waiting, Tasks
        <3> QED BY <1>1, <3>1, NotWaiting
    <2> QED BY <1>1, <2>1, SideFacts DEF ReinviteInv, CommitInv
<1> QED BY <1>1, ReinviteInvariant, PTL

\* Call.localHold: isOnHold() never denies a hold unless a 200 was lost.
THEOREM ReinviteHoldIsReported == Spec => []HoldIsReported
<1>1. ASSUME ReinviteInv PROVE HoldIsReported
    <2> SUFFICES ASSUME lost = "never", NEW s \in Sides, mu[s] = "none", dir[s] = "sendonly"
                 PROVE  localHold[s]
        BY DEF HoldIsReported
    <2>1. Held(s) = dir[s]
        BY <1>1 DEF ReinviteInv, LockInv, Held, Waiting, Tasks
    <2> QED BY <1>1, <2>1 DEF ReinviteInv, HoldInv
<1> QED BY <1>1, ReinviteInvariant, PTL
=============================================================================
