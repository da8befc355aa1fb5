-------------------------------- MODULE Inbox --------------------------------
(***************************************************************************)
(* How an incoming call finds the script that waits for it: the inbox of a *)
(* device, deliver, and ExpectCall called by any number of goroutines.     *)
(* The signal channel is replaced at every delivery; a waiter remembers    *)
(* the channel that was current when it looked at the inbox, so channels   *)
(* are numbered and all but the current one are closed.  The inbox holds   *)
(* its calls in order of arrival, an order that no scan changes, so its    *)
(* state is the set of the arrivals that are still in it.                  *)
(***************************************************************************)
EXTENDS Integers, Sequences, TLC

CONSTANTS
    Calls,      \* the calls that may come in
    Waiters,    \* the ExpectCall calls
    Wanted      \* Wanted[w]: the calls whose number matches the waiter's

ASSUME InboxConstants == Wanted \in [Waiters -> SUBSET Calls]

VARIABLES
    delivered,  \* the calls that have been put into the inbox, in this order
    inbox,      \* Device.inbox: the positions in delivered that it still holds
    inSignal,   \* the number of the current Device.inSignal
    ended,      \* calls whose state is StateEnded
    pc,         \* of each ExpectCall: "idle", "scan", "wait", "found", "none"
    sig,        \* the channel each ExpectCall waits on
    got         \* the calls each ExpectCall has claimed (at most one)

inboxVars == <<delivered, inbox, inSignal, ended, pc, sig, got>>

InboxTypeOK ==
    /\ delivered \in Seq(Calls)
    /\ inbox \subseteq DOMAIN delivered
    /\ inSignal \in Nat
    /\ ended \subseteq Calls
    /\ pc \in [Waiters -> {"idle", "scan", "wait", "found", "none"}]
    /\ sig \in [Waiters -> Nat]
    /\ got \in [Waiters -> SUBSET Calls]

InboxInit ==
    /\ delivered = <<>>
    /\ inbox = {}
    /\ inSignal = 0
    /\ ended = {}
    /\ pc = [w \in Waiters |-> "idle"]
    /\ sig = [w \in Waiters |-> 0]
    /\ got = [w \in Waiters |-> {}]
-----------------------------------------------------------------------------
CallsAt(positions) == {delivered[i] : i \in positions}

\* A plausible slip: waiters are woken only when the inbox was empty.
DeliverToEmpty(c) ==
    /\ c \notin CallsAt(DOMAIN delivered)
    /\ delivered' = Append(delivered, c)
    /\ inbox' = inbox \cup {Len(delivered) + 1}
    /\ inSignal' = IF inbox = {} THEN inSignal + 1 ELSE inSignal
    /\ UNCHANGED <<ended, pc, sig, got>>

\* deliver, called by onInvite once for every call
Deliver(c) ==
    /\ c \notin CallsAt(DOMAIN delivered)
    /\ delivered' = Append(delivered, c)
    /\ inbox' = inbox \cup {Len(delivered) + 1}
    /\ inSignal' = inSignal + 1
    /\ UNCHANGED <<ended, pc, sig, got>>

\* external to the inbox: a call ends at any time, in the inbox or claimed
CallEnds(c) ==
    /\ c \in CallsAt(DOMAIN delivered) \ ended
    /\ ended' = ended \cup {c}
    /\ UNCHANGED <<inbox, inSignal, delivered, pc, sig, got>>

ExpectCall(w) ==
    /\ pc[w] = "idle"
    /\ pc' = [pc EXCEPT ![w] = "scan"]
    /\ UNCHANGED <<inbox, inSignal, delivered, ended, sig, got>>

\* The calls of the inbox that waiter w may claim, and the first of them
Matching(w) == {i \in inbox : delivered[i] \in Wanted[w] \ ended}
First(w) == {i \in Matching(w) : \A j \in Matching(w) : i <= j}

\* A plausible slip: a second match is dropped along with the first.
KeptNotMatching(claimed) ==
    {i \in inbox : /\ delivered[i] \notin ended
                   /\ \A w \in Waiters :
                         delivered[i] \in Wanted[w] => CallsAt(claimed) \cap Wanted[w] = {}}

\* What the scan leaves in the inbox: everything but ended calls and the
\* claimed one
Kept(claimed) == {i \in inbox \ claimed : delivered[i] \notin ended}

\* The scan under inMu: drop ended calls, claim the first match, keep the
\* rest, and remember the current signal
Scan(w) ==
    /\ pc[w] = "scan"
    /\ inbox' = Kept(First(w))
    /\ got' = [got EXCEPT ![w] = CallsAt(First(w))]
    /\ pc' = [pc EXCEPT ![w] = IF Matching(w) = {} THEN "wait" ELSE "found"]
    /\ sig' = [sig EXCEPT ![w] = inSignal]
    /\ UNCHANGED <<inSignal, delivered, ended>>

\* case <-sig: the channel that was current at the scan has been closed
Wake(w) ==
    /\ pc[w] = "wait"
    /\ sig[w] # inSignal
    /\ pc' = [pc EXCEPT ![w] = "scan"]
    /\ UNCHANGED <<inbox, inSignal, delivered, ended, sig, got>>

\* case <-deadline.C, or case <-d.ctx.Done() when the device is destroyed
GiveUp(w) ==
    /\ pc[w] = "wait"
    /\ pc' = [pc EXCEPT ![w] = "none"]
    /\ UNCHANGED <<inbox, inSignal, delivered, ended, sig, got>>

InboxNext ==
    \/ \E c \in Calls : Deliver(c) \/ CallEnds(c)
    \/ \E w \in Waiters : ExpectCall(w) \/ Scan(w) \/ Wake(w) \/ GiveUp(w)

InboxSpec == InboxInit /\ [][InboxNext]_inboxVars

\* A goroutine in ExpectCall runs; its deadline need not be near.
InboxFairSpec == InboxSpec /\ \A w \in Waiters : WF_inboxVars(Scan(w)) /\ WF_inboxVars(Wake(w))
-----------------------------------------------------------------------------
\* No call is lost and none is handed out twice: a delivered call is in the
\* inbox once, or some ExpectCall has claimed it, or it ended unclaimed; no
\* two waiters of deliver's broadcast take the same one.
ExactlyOnce ==
    /\ \A i \in DOMAIN delivered :
          \/ i \in inbox
          \/ delivered[i] \in ended
          \/ \E w \in Waiters : delivered[i] \in got[w]
    /\ \A i, j \in inbox : delivered[i] = delivered[j] => i = j
    /\ \A w \in Waiters :
          /\ got[w] \subseteq Wanted[w] \ CallsAt(inbox)
          /\ \A v \in Waiters \ {w} : got[w] \cap got[v] = {}

\* No wake-up is lost: an ExpectCall blocked on a signal that is still open
\* has no live matching call in front of it.  Scan and capture of the signal
\* share one critical section, and deliver closes every signal it replaces.
NoLostWakeup ==
    \A w \in Waiters :
        pc[w] = "wait" /\ sig[w] = inSignal => Matching(w) = {}

\* A call that a waiter wants does not sit in the inbox for ever: it is
\* claimed, it ends, or the waiter leaves.
Claimed ==
    \A w \in Waiters, c \in Calls :
        (pc[w] = "wait" /\ c \in CallsAt(inbox) /\ c \in Wanted[w])
            ~> (c \notin CallsAt(inbox) \/ c \in ended \/ pc[w] \in {"none", "found"})
=============================================================================
