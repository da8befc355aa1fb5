------------------------- MODULE InboxTransferProofs -------------------------
(***************************************************************************)
(* Proofs about the inbox of a device (Inbox) and about call transfer      *)
(* (Transfer).  The two share no state; each part states its own           *)
(* inductive invariant.                                                    *)
(***************************************************************************)
EXTENDS Inbox, Transfer, TLAPS
-----------------------------------------------------------------------------
(***************************************************************************)
(* Proofs about deliver and ExpectCall, for any number of calls, waiters   *)
(* and matching numbers.  ExactlyOnce is not inductive: a call that a      *)
(* waiter has claimed must have been delivered (or its later delivery      *)
(* would put it into the inbox again), and a waiter that looks again must  *)
(* have nothing to forget.  NoLostWakeup needs that no waiter remembers a  *)
(* signal that does not exist yet.                                         *)
(***************************************************************************)

\* A call is delivered once, and only delivered calls are claimed.
ArrivalInv ==
    /\ \A i, j \in DOMAIN delivered : delivered[i] = delivered[j] => i = j
    /\ \A w \in Waiters : got[w] \subseteq CallsAt(DOMAIN delivered)

\* A waiter holds a call only once it has left, and its signal is the
\* current one or a closed one.
WaiterInv ==
    \A w \in Waiters :
        /\ pc[w] # "found" => got[w] = {}
        /\ sig[w] <= inSignal

InboxInv == InboxTypeOK /\ ArrivalInv /\ WaiterInv /\ ExactlyOnce /\ NoLostWakeup
-----------------------------------------------------------------------------
\* newDevice: the inbox is empty and nobody waits.
LEMMA InboxStart == InboxInit => InboxInv
BY InboxConstants
DEF InboxInit, InboxInv, InboxTypeOK, ArrivalInv, WaiterInv, ExactlyOnce, NoLostWakeup, CallsAt, Matching

\* deliver: the new call is the last arrival, is in the inbox, and every
\* signal a waiter remembers is closed.
LEMMA DeliverStep ==
    ASSUME InboxInv, NEW c \in Calls, Deliver(c)
    PROVE  InboxInv'
<1> USE InboxConstants DEF InboxInv, Deliver
<1> DEFINE n == Len(delivered) + 1
<1>1. /\ delivered' \in Seq(Calls) /\ n \in Nat
      /\ DOMAIN delivered' = DOMAIN delivered \cup {n}
      /\ n \notin DOMAIN delivered
      /\ delivered'[n] = c
      /\ \A i \in DOMAIN delivered : delivered'[i] = delivered[i]
      /\ \A i \in DOMAIN delivered : delivered[i] # c
    BY DEF InboxTypeOK, CallsAt
<1>2. inbox \subseteq DOMAIN delivered /\ inbox' = inbox \cup {n}
    BY DEF InboxTypeOK
<1>3. InboxTypeOK'
    BY <1>1, <1>2 DEF InboxTypeOK
<1>4. ArrivalInv'
    <2>1. \A i, j \in DOMAIN delivered' : delivered'[i] = delivered'[j] => i = j
        BY <1>1 DEF ArrivalInv
    <2>2. \A w \in Waiters : got'[w] \subseteq CallsAt(DOMAIN delivered)'
        BY <1>1 DEF ArrivalInv, CallsAt
    <2> QED BY <2>1, <2>2 DEF ArrivalInv
<1>5. WaiterInv'
    BY DEF WaiterInv, InboxTypeOK
<1>6. ExactlyOnce'
    <2>1. \A w \in Waiters : c \notin got[w]
        BY <1>1 DEF ArrivalInv, CallsAt
    <2>2. ASSUME NEW w \in Waiters PROVE got'[w] \subseteq Wanted[w] \ CallsAt(inbox)'
        BY <1>1, <1>2, <2>1 DEF ExactlyOnce, CallsAt
    <2>3. \A i, j \in inbox' : delivered'[i] = delivered'[j] => i = j
        BY <1>1, <1>2 DEF ExactlyOnce
    <2>4. \A i \in DOMAIN delivered' :
             \/ i \in inbox' \/ delivered'[i] \in ended'
             \/ \E w \in Waiters : delivered'[i] \in got'[w]
        BY <1>1, <1>2 DEF ExactlyOnce
    <2> QED BY <2>2, <2>3, <2>4 DEF ExactlyOnce
<1>7. NoLostWakeup'
    BY DEF NoLostWakeup, WaiterInv, InboxTypeOK
<1> QED BY <1>3, <1>4, <1>5, <1>6, <1>7

\* The scan of ExpectCall: the claimed call leaves the inbox as it enters got,
\* and a waiter that found nothing remembers the signal of this very inbox.
LEMMA ScanStep ==
    ASSUME InboxInv, NEW w \in Waiters, Scan(w)
    PROVE  InboxInv'
<1> USE InboxConstants DEF InboxInv, Scan
<1>1. /\ First(w) \subseteq inbox
      /\ \A i \in First(w) : delivered[i] \in Wanted[w] \ ended
      /\ Matching(w) = {} => First(w) = {}
    BY DEF First, Matching
<1>2. \A i, j \in First(w) : i = j
    BY DEF First, Matching, InboxTypeOK
<1>3. /\ inbox' = {i \in inbox \ First(w) : delivered[i] \notin ended}
      /\ inbox' \subseteq inbox
    BY DEF Kept
<1>4. /\ got' \in [Waiters -> SUBSET Calls]
      /\ got'[w] = CallsAt(First(w))
      /\ \A v \in Waiters \ {w} : got'[v] = got[v]
      /\ got[w] = {}
    BY <1>1 DEF CallsAt, InboxTypeOK, WaiterInv
<1>5. InboxTypeOK'
    BY <1>3, <1>4 DEF InboxTypeOK
<1>6. ArrivalInv'
    BY <1>1, <1>4 DEF ArrivalInv, CallsAt, InboxTypeOK
<1>7. WaiterInv'
    BY <1>1, <1>4 DEF WaiterInv, InboxTypeOK, CallsAt
<1>8. ExactlyOnce'
    <2>1. ASSUME NEW i \in DOMAIN delivered', i \notin inbox', delivered'[i] \notin ended'
          PROVE  \E v \in Waiters : delivered'[i] \in got'[v]
        <3>1. CASE i \in inbox
            <4>1. i \in First(w)
                BY <2>1, <3>1, <1>3
            <4> QED BY <4>1, <1>4 DEF CallsAt
        <3>2. CASE i \notin inbox
            BY <2>1, <3>2, <1>4 DEF ExactlyOnce
        <3> QED BY <3>1, <3>2
    <2>2. \A i, j \in inbox' : delivered'[i] = delivered'[j] => i = j
        BY <1>3 DEF ExactlyOnce
    <2>3. ASSUME NEW v \in Waiters PROVE got'[v] \subseteq Wanted[v] \ CallsAt(inbox)'
        <3>1. CASE v = w
            <4>1. \A i \in First(w), j \in inbox' : delivered[i] # delivered[j]
                BY <1>1, <1>3 DEF ExactlyOnce
            <4> QED BY <3>1, <4>1, <1>1, <1>4 DEF CallsAt
        <3>2. CASE v # w
            BY <3>2, <1>3, <1>4 DEF CallsAt, ExactlyOnce
        <3> QED BY <3>1, <3>2
    <2>4. ASSUME NEW v \in Waiters, NEW u \in Waiters \ {v} PROVE got'[v] \cap got'[u] = {}
        <3>1. \A x \in Waiters \ {w} : got'[w] \cap got[x] = {}
            BY <1>1, <1>4 DEF CallsAt, ExactlyOnce
        <3> QED BY <3>1, <1>4 DEF ExactlyOnce
    <2> QED BY <2>1, <2>2, <2>3, <2>4 DEF ExactlyOnce
<1>9. NoLostWakeup'
    <2> SUFFICES ASSUME NEW v \in Waiters, pc'[v] = "wait", sig'[v] = inSignal',
                        NEW i \in inbox', delivered'[i] \in Wanted[v] \ ended'
                 PROVE  FALSE
        BY DEF NoLostWakeup, Matching
    <2>1. i \in inbox
        BY <1>3
    <2>2. CASE v = w
        <3>1. Matching(w) = {}
            BY <2>2 DEF InboxTypeOK
        <3> QED BY <3>1, <2>1, <2>2 DEF Matching
    <2>3. CASE v # w
        <3>1. pc[v] = "wait" /\ sig[v] = inSignal
            BY <2>3 DEF InboxTypeOK
        <3> QED BY <3>1, <2>1 DEF NoLostWakeup, Matching
    <2> QED BY <2>2, <2>3
<1> QED BY <1>5, <1>6, <1>7, <1>8, <1>9

\* The steps that leave the inbox alone.
LEMMA OtherStep ==
    ASSUME InboxInv,
           \/ \E c \in Calls : CallEnds(c)
           \/ \E w \in Waiters : ExpectCall(w) \/ Wake(w) \/ GiveUp(w)
           \/ UNCHANGED inboxVars
    PROVE  InboxInv'
<1> USE DEF InboxInv, InboxTypeOK, ArrivalInv, WaiterInv, ExactlyOnce, NoLostWakeup, CallsAt, Matching
<1>1. CASE \E c \in Calls : CallEnds(c)
    BY <1>1 DEF CallEnds
<1>2. ASSUME NEW w \in Waiters, ExpectCall(w) PROVE InboxInv'
    BY <1>2 DEF ExpectCall
<1>3. ASSUME NEW w \in Waiters, Wake(w) PROVE InboxInv'
    BY <1>3 DEF Wake
<1>4. ASSUME NEW w \in Waiters, GiveUp(w) PROVE InboxInv'
    BY <1>4 DEF GiveUp
<1>5. CASE UNCHANGED inboxVars
    BY <1>5 DEF inboxVars
<1> QED BY <1>1, <1>2, <1>3, <1>4, <1>5

\* Every step keeps the invariant.
LEMMA InboxStep == InboxInv /\ [InboxNext]_inboxVars => InboxInv'
BY DeliverStep, ScanStep, OtherStep DEF InboxNext

\* The inductive invariant holds in every reachable state.
LEMMA InboxInvariant == InboxSpec => []InboxInv
BY InboxStart, InboxStep, PTL DEF InboxSpec

\* Type correctness of the inbox and its waiters.
THEOREM InboxTypeCorrect == InboxSpec => []InboxTypeOK
<1>1. InboxInv => InboxTypeOK
    BY DEF InboxInv
<1> QED BY <1>1, InboxInvariant, PTL

\* ExpectCall: whatever numbers the waiters match and however their scans, the
\* deliveries and the ends of calls interleave, no call is lost and none is
\* handed to two waiters.
THEOREM InboxExactlyOnce == InboxSpec => []ExactlyOnce
<1>1. InboxInv => ExactlyOnce
    BY DEF InboxInv
<1> QED BY <1>1, InboxInvariant, PTL

\* deliver and ExpectCall: a waiter that sleeps on a signal nobody has closed
\* has no call to miss.
THEOREM InboxNoLostWakeup == InboxSpec => []NoLostWakeup
<1>1. InboxInv => NoLostWakeup
    BY DEF InboxInv
<1> QED BY <1>1, InboxInvariant, PTL
-----------------------------------------------------------------------------
(***************************************************************************)
(* Transfer, for any number of REFERs.  expectTransferred may return true  *)
(* long after the REFER it answers, on the report of an earlier one, and   *)
(* with reports that overtake each other; so the invariant follows the     *)
(* status back to where it came from: a final 200 is only ever written by  *)
(* followRefer for a call that was answered, a REFER that was not sent yet *)
(* has left no trace for the number xfer to confuse, and what the          *)
(* transferor holds for success is one of those calls.                     *)
(***************************************************************************)

\* A REFER that was not sent yet has left no trace.
FutureInv ==
    \A k \in Refers : k > xfer =>
        request[k] = "none" /\ follow[k] = "none" /\ \A i \in Kinds : notify[k][i] = "none"

\* followRefer has a status to report once it has dialled, and 200 is that of
\* an answered call.
FollowInv ==
    \A k \in Refers :
        /\ follow[k] # "none" => request[k] = "accepted"
        /\ follow[k] \in {"none", "trying", "call"} => code[k] = 0 /\ newCall[k] = "none"
        /\ code[k] = 200 => newCall[k] = "connected"

Answered == \E k \in 1..xfer : newCall[k] = "connected"

\* What the transferor takes for success
ProgressInv == Succeeded(status) \/ transferred = "true" => Answered

TransferInv == TypeOK /\ FutureInv /\ FollowInv /\ ProgressInv

\* The types, by who changes them
FlagsOK == up \in BOOLEAN /\ accepted \in BOOLEAN

TransferorOK ==
    /\ xfer \in 0..MaxRefers
    /\ status \in {0, 100, 200, 486, 503}
    /\ closes \in 0..1
    /\ script \in {"idle", "refer", "expect"}
    /\ transferred \in {"none", "true", "false", "timeout"}

TransfereeOK ==
    /\ request \in [Refers -> {"none", "sent", "accepted", "refused"}]
    /\ follow \in [Refers -> {"none", "trying", "call", "dialling", "report", "done"}]
    /\ newCall \in [Refers -> {"none", "calling", "connected", "ended"}]
    /\ referred \in 0..MaxRefers
    /\ notify \in [Refers -> [Kinds -> {"none", "sent", "handled"}]]
    /\ code \in [Refers -> {0, 200, 486, 503}]

-----------------------------------------------------------------------------
\* TypeOK is proved in these parts.
LEMMA TypeParts == TypeOK <=> FlagsOK /\ TransferorOK /\ TransfereeOK
BY DEF TypeOK, FlagsOK, TransferorOK, TransfereeOK

\* An established call and no REFER yet.
LEMMA TransferInit == Init => TransferInv
<1> SUFFICES ASSUME Init PROVE TransferInv
    OBVIOUS
<1> USE TransferConstants DEF Init
<1>1. FlagsOK
    BY DEF FlagsOK
<1>2. TransferorOK
    BY DEF TransferorOK
<1>3. TransfereeOK
    BY DEF TransfereeOK, Refers
<1>4. FutureInv /\ FollowInv
    BY DEF FutureInv, FollowInv
<1>5. ProgressInv
    BY DEF ProgressInv, Succeeded
<1> QED BY <1>1, <1>2, <1>3, <1>4, <1>5, TypeParts DEF TransferInv

\* Transfer: the progress of the one before is forgotten.
LEMMA ReferStep ==
    ASSUME TransferInv, Refer
    PROVE  TransferInv'
<1> USE TransferConstants, TypeParts DEF TransferInv, Refer, transferee
<1>1. FlagsOK'
    BY DEF FlagsOK
<1>2. TransferorOK'
    BY DEF TransferorOK
<1>3. TransfereeOK'
    BY DEF TransfereeOK, TransferorOK, Refers
<1>4. FutureInv'
    BY DEF TransfereeOK, TransferorOK, FutureInv, Refers
<1>5. FollowInv'
    BY DEF FollowInv, FutureInv, TransferorOK, TransfereeOK, Refers
<1>6. ProgressInv'
    BY DEF ProgressInv, Succeeded
<1>7. TypeOK'
    BY <1>1, <1>2, <1>3 DEF TypeOK, FlagsOK, TransferorOK, TransfereeOK
<1> QED BY <1>4, <1>5, <1>6, <1>7

\* A step that places no call, reports nothing and moves no REFER.
LEMMA ScriptStep ==
    ASSUME TransferInv,
           ReferAccepted \/ ReferFails \/ Ends \/ ExpectTransferred \/ ExpectReturns
           \/ ExpectTimeout \/ ReferredCall
    PROVE  TransferInv'
<1> USE TransferConstants, TypeParts
    DEF TransferInv, ReferAccepted, ReferFails, Ends, ExpectTransferred, ExpectReturns,
        ExpectTimeout, ReferredCall, Update, transferor, transferee
<1>1. FlagsOK'
    BY DEF FlagsOK
<1>2. TransferorOK'
    BY DEF TransferorOK
<1>3. TransfereeOK'
    BY DEF TransfereeOK, Refers
<1>4. FutureInv'
    BY DEF FutureInv
<1>5. FollowInv'
    BY DEF FollowInv
<1>6. ProgressInv'
    BY DEF ProgressInv, Succeeded, Answered
<1>7. TypeOK'
    BY <1>1, <1>2, <1>3 DEF TypeOK, FlagsOK, TransferorOK, TransfereeOK
<1> QED BY <1>4, <1>5, <1>6, <1>7

\* onNotify: the status is that of a report, and a 200 is an answered call's.
LEMMA NotifyStep ==
    ASSUME TransferInv, NEW k \in Refers, NEW i \in Kinds, OnNotify(k, i)
    PROVE  TransferInv'
<1> USE TransferConstants DEF TransferInv, OnNotify, Update, transferee
<1>1. TypeOK'
    BY DEF TypeOK
<1>2. FutureInv'
    BY DEF FutureInv, TypeOK
<1>3. FollowInv'
    BY DEF FollowInv
<1>4. k \in 1..xfer
    BY DEF FutureInv, TypeOK, Refers
<1>5. code[k] = 200 => Answered
    BY <1>4 DEF FollowInv, Answered
<1>6. ProgressInv'
    BY <1>5 DEF ProgressInv, Succeeded, Answered, TypeOK
<1> QED BY <1>1, <1>2, <1>3, <1>6

\* onRefer and followRefer on the transferee's side; an answered call stays
\* one for the transferor to have heard of.
LEMMA FollowStep ==
    ASSUME TransferInv, NEW k \in Refers, OnRefer(k) \/ Follows(k) \/ NewCallSettles(k)
    PROVE  TransferInv'
<1> USE TransferConstants, TypeParts DEF TransferInv
<1>0. UNCHANGED transferor
    BY DEF OnRefer, Follows, TryingDone, Call, Dialled, Report, NewCallSettles
<1>1. FlagsOK' /\ TransferorOK'
    BY <1>0 DEF FlagsOK, TransferorOK, transferor
<1>2. TransfereeOK' /\ FollowInv' /\ FutureInv'
    <2> USE <1>0 DEF TransfereeOK, Goto, transferor, Kinds
    <2>1. CASE OnRefer(k)
        <3>4. notify' \in [Refers -> [Kinds -> {"none", "sent", "handled"}]]
            BY <2>1 DEF OnRefer
        <3>1. TransfereeOK'
            BY <2>1, <3>4 DEF OnRefer
        <3>2. FollowInv'
            BY <2>1 DEF OnRefer, FollowInv
        <3>3. FutureInv'
            BY <2>1 DEF OnRefer, FutureInv
        <3> QED BY <3>1, <3>2, <3>3
    <2>2. CASE TryingDone(k)
        BY <2>2 DEF TryingDone, FollowInv, FutureInv
    <2>3. CASE Call(k)
        <3>1. referred' \in 0..MaxRefers
            BY <2>3 DEF Call, Refers
        <3>2. follow' \in [Refers -> {"none", "trying", "call", "dialling", "report", "done"}]
            BY <2>3 DEF Call
        <3>5. newCall' \in [Refers -> {"none", "calling", "connected", "ended"}]
            BY <2>3 DEF Call
        <3>6. code' \in [Refers -> {0, 200, 486, 503}]
            BY <2>3 DEF Call
        <3>7. TransfereeOK'
            BY <2>3, <3>1, <3>2, <3>5, <3>6 DEF Call
        <3>3. FollowInv'
            BY <2>3 DEF Call, FollowInv
        <3>4. FutureInv'
            BY <2>3 DEF Call, FutureInv
        <3> QED BY <3>3, <3>4, <3>7
    <2>4. CASE Dialled(k)
        BY <2>4 DEF Dialled, FollowInv, FutureInv
    <2>5. CASE Report(k)
        BY <2>5 DEF Report, FollowInv, FutureInv
    <2>6. CASE NewCallSettles(k)
        BY <2>6 DEF NewCallSettles, FollowInv, FutureInv
    <2> QED BY <2>1, <2>2, <2>3, <2>4, <2>5, <2>6 DEF Follows
<1>3. TypeOK'
    BY <1>1, <1>2 DEF TypeOK, FlagsOK, TransferorOK, TransfereeOK
<1>4. \A j \in Refers : newCall[j] = "connected" => newCall'[j] = "connected"
    BY DEF FollowInv, TransfereeOK, OnRefer, Follows, TryingDone, Call, Dialled, Report, NewCallSettles
<1>5. ProgressInv'
    BY <1>0, <1>4 DEF ProgressInv, Succeeded, Answered, TransferorOK, transferor, Refers
<1> QED BY <1>2, <1>3, <1>5

\* One step, whoever takes it.
LEMMA TransferNext == TransferInv /\ [Next]_vars => TransferInv'
<1> SUFFICES ASSUME TransferInv, [Next]_vars PROVE TransferInv'
    OBVIOUS
<1>1. CASE UNCHANGED vars
    BY <1>1 DEF TransferInv, TypeOK, FutureInv, FollowInv, ProgressInv, Succeeded, Answered,
                vars, transferor, transferee
<1>2. CASE Next
    BY <1>2, ReferStep, ScriptStep, NotifyStep, FollowStep DEF Next
<1> QED BY <1>1, <1>2

\* The invariant holds throughout.
LEMMA TransferInvariance == Spec => []TransferInv
BY TransferInit, TransferNext, PTL DEF Spec

\* Type correctness of REFER, NOTIFY and followRefer for any number of
\* transfers: transferProgress.done is closed at most once for each of them
\* (Call.update), however often the reports are repeated.
THEOREM TransferTypeCorrect == Spec => []TypeOK
BY TransferInvariance, PTL DEF TransferInv

\* ExpectTransferred returns true only when a call that followRefer placed for
\* this transferor was really answered.
THEOREM TransferTrueMeansConnected == Spec => []TrueMeansConnected
<1>1. TransferInv => TrueMeansConnected
    BY DEF TransferInv, ProgressInv, TrueMeansConnected, Answered
<1> QED BY <1>1, TransferInvariance, PTL
=============================================================================
