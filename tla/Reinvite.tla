------------------------------ MODULE Reinvite -------------------------------
(***************************************************************************)
(* Re-INVITEs on an established call whose two ends both run this code:    *)
(* hold and unhold by the scripts, the session refresh of one side, the    *)
(* handler onReInvite, and glare.  reinviteMu is held by the goroutine     *)
(* that has a re-INVITE under way, also while it backs off after a 491;    *)
(* the handler only tries the lock.  The SDP is reduced to its direction,  *)
(* the session timer to "may fire while no refresh is under way".          *)
(***************************************************************************)
EXTENDS Integers

CONSTANTS
    A, B,         \* the two ends of the call
    Refresher,    \* the end whose session timer sends the refreshes
    MaxHolds      \* bound: hold and unhold calls, of both ends together

ASSUME ReinviteConstants ==
    /\ A # B
    /\ Refresher \in {A, B}
    /\ MaxHolds \in Nat

Sides == {A, B}
Other(s) == IF s = A THEN B ELSE A

Tasks == {"script", "refresh"}

Directions == {"sendrecv", "sendonly", "recvonly"}

\* Direction.Reverse
Reverse(d) == CASE d = "sendonly" -> "recvonly"
                [] d = "recvonly" -> "sendonly"
                [] OTHER -> d

VARIABLES
    up,           \* the call is in Device.calls of this end
    mu,           \* who holds reinviteMu: "none" or a task
    dir,          \* Stream.dir
    localHold,    \* Call.localHold
    remoteHold,   \* Call.remoteHold
    pc,           \* where each task of each end stands
    want,         \* the direction a task offers
    prev,         \* reinviteOnce's prev, of the holder of the lock
    attempt,      \* reinvite's attempt
    request,      \* the re-INVITE on its way to the other end: "none" or its direction
    response,     \* the response on its way back: 0 = none
    answer,       \* ... and its direction
    holds,        \* hold and unhold calls made
    lost          \* a 200 was lost: "never", "open", or "healed" by a later exchange

vars == <<up, mu, dir, localHold, remoteHold, pc, want, prev, attempt, request,
          response, answer, holds, lost>>

TypeOK ==
    /\ up \in [Sides -> BOOLEAN]
    /\ mu \in [Sides -> Tasks \cup {"none"}]
    /\ dir \in [Sides -> Directions]
    /\ localHold \in [Sides -> BOOLEAN]
    /\ remoteHold \in [Sides -> BOOLEAN]
    /\ pc \in [Sides -> [Tasks -> {"idle", "lock", "send", "wait", "backoff", "bye"}]]
    /\ want \in [Sides -> [Tasks -> Directions]]
    /\ prev \in [Sides -> Directions]
    /\ attempt \in [Sides -> 0..1]
    /\ request \in [Sides -> Directions \cup {"none"}]
    /\ response \in [Sides -> {0, 200, 481, 491}]
    /\ answer \in [Sides -> Directions]
    /\ holds \in 0..MaxHolds
    /\ lost \in {"never", "open", "healed"}

Init ==
    /\ up = [s \in Sides |-> TRUE]
    /\ mu = [s \in Sides |-> "none"]
    /\ dir = [s \in Sides |-> "sendrecv"]
    /\ localHold = [s \in Sides |-> FALSE]
    /\ remoteHold = [s \in Sides |-> FALSE]
    /\ pc = [s \in Sides |-> [t \in Tasks |-> "idle"]]
    /\ want = [s \in Sides |-> [t \in Tasks |-> "sendrecv"]]
    /\ prev = [s \in Sides |-> "sendrecv"]
    /\ attempt = [s \in Sides |-> 0]
    /\ request = [s \in Sides |-> "none"]
    /\ response = [s \in Sides |-> 0]
    /\ answer = [s \in Sides |-> "sendrecv"]
    /\ holds = 0
    /\ lost = "never"

Goto(s, t, l) == pc' = [pc EXCEPT ![s][t] = l]
Set(f, s, v) == [f EXCEPT ![s] = v]
-----------------------------------------------------------------------------
(* The two callers of reinviteOnce *)

\* Hold and Unhold of a connected call
ScriptReinvites(s) ==
    /\ pc[s]["script"] = "idle"
    /\ up[s]
    /\ holds < MaxHolds
    /\ holds' = holds + 1
    /\ \E d \in {"sendonly", "sendrecv"} : want' = [want EXCEPT ![s]["script"] = d]
    /\ Goto(s, "script", "lock")
    /\ UNCHANGED <<up, mu, dir, localHold, remoteHold, prev, attempt, request,
                   response, answer, lost>>

\* refreshSession, run by the session timer
RefreshFires(s) ==
    /\ s = Refresher
    /\ pc[s]["refresh"] = "idle"
    /\ up[s]
    /\ Goto(s, "refresh", "lock")
    /\ UNCHANGED <<up, mu, dir, localHold, remoteHold, want, prev, attempt, request,
                   response, answer, holds, lost>>

\* reinviteMu.Lock; a refresh offers the direction the stream has now
Lock(s, t) ==
    /\ pc[s][t] = "lock"
    /\ mu[s] = "none"
    /\ mu' = Set(mu, s, t)
    /\ attempt' = Set(attempt, s, 0)
    /\ want' = IF t = "refresh" THEN [want EXCEPT ![s][t] = dir[s]] ELSE want
    /\ Goto(s, t, "send")
    /\ UNCHANGED <<up, dir, localHold, remoteHold, prev, request, response, answer,
                   holds, lost>>
-----------------------------------------------------------------------------
(* reinviteOnce *)

\* Stream.Offer sets the direction at once
Offer(s, d) == dir' = Set(dir, s, d)

\* Stream.ApplyAnswer, with the direction of the peer's answer
ApplyAnswer(s, d) == dir' = Set(dir, s, Reverse(d))

Send(s, t) ==
    /\ pc[s][t] = "send"
    /\ prev' = Set(prev, s, dir[s])
    /\ Offer(s, want[s][t])
    /\ request' = Set(request, s, want[s][t])
    /\ Goto(s, t, "wait")
    /\ UNCHANGED <<up, mu, localHold, remoteHold, want, attempt, response, answer,
                   holds, lost>>

\* For the properties: an exchange that completes makes up for a lost 200
Healed == IF lost = "open" THEN "healed" ELSE lost

\* A plausible slip: a session refresh counts as an unhold.
AcceptedRefreshUnholds(s, t) ==
    /\ pc[s][t] = "wait"
    /\ response[s] = 200
    /\ response' = Set(response, s, 0)
    /\ ApplyAnswer(s, answer[s])
    /\ localHold' = Set(localHold, s, t = "script" /\ want[s][t] # "sendrecv")
    /\ lost' = Healed
    /\ mu' = Set(mu, s, "none")
    /\ Goto(s, t, "idle")
    /\ UNCHANGED <<up, remoteHold, want, prev, attempt, request, answer, holds>>

\* The 2xx: ApplyAnswer, localHold, sessionRefreshed, unlock
Accepted(s, t) ==
    /\ pc[s][t] = "wait"
    /\ response[s] = 200
    /\ response' = Set(response, s, 0)
    /\ ApplyAnswer(s, answer[s])
    /\ localHold' = Set(localHold, s, want[s][t] # "sendrecv")
    /\ lost' = Healed
    /\ mu' = Set(mu, s, "none")
    /\ Goto(s, t, "idle")
    /\ UNCHANGED <<up, remoteHold, want, prev, attempt, request, answer, holds>>

\* reinvite tries a second time after a 491; refreshSession does not
Retries(s, t, code) == t = "script" /\ code = 491 /\ attempt[s] = 0

\* A plausible slip: the direction that was offered stays.
FailedKeepsOffer(s, t, code) ==
    /\ dir' = dir
    /\ \/ /\ Retries(s, t, code)
          /\ attempt' = Set(attempt, s, attempt[s] + 1)
          /\ Goto(s, t, "backoff")
          /\ UNCHANGED mu
       \/ /\ ~Retries(s, t, code)
          /\ t = "script"
          /\ mu' = Set(mu, s, "none")
          /\ Goto(s, t, "idle")
          /\ UNCHANGED attempt
       \/ /\ t = "refresh"
          /\ Goto(s, t, "bye")
          /\ UNCHANGED <<attempt, mu>>

\* Any other outcome restores the direction.  The script's goroutine backs
\* off or returns false; a refresh goes on to hang up, the lock still held.
Failed(s, t, code) ==
    /\ dir' = Set(dir, s, prev[s])
    /\ \/ /\ Retries(s, t, code)
          /\ attempt' = Set(attempt, s, attempt[s] + 1)
          /\ Goto(s, t, "backoff")
          /\ UNCHANGED mu
       \/ /\ ~Retries(s, t, code)
          /\ t = "script"
          /\ mu' = Set(mu, s, "none")
          /\ Goto(s, t, "idle")
          /\ UNCHANGED attempt
       \/ /\ t = "refresh"
          /\ Goto(s, t, "bye")
          /\ UNCHANGED <<attempt, mu>>

Refused(s, t) ==
    /\ pc[s][t] = "wait"
    /\ response[s] > 200
    /\ response' = Set(response, s, 0)
    /\ Failed(s, t, response[s])
    /\ UNCHANGED <<up, localHold, remoteHold, want, prev, request, answer, holds, lost>>

\* No final response within inDialogTimeout: the request or the response was
\* lost, or the device's context ended
Timeout(s, t) ==
    /\ pc[s][t] = "wait"
    /\ request' = Set(request, s, "none")
    /\ response' = Set(response, s, 0)
    /\ lost' = IF response[s] = 200 THEN "open" ELSE lost
    /\ Failed(s, t, 0)
    /\ UNCHANGED <<up, localHold, remoteHold, want, prev, answer, holds>>

\* time.Sleep between the attempts
Backoff(s) ==
    /\ pc[s]["script"] = "backoff"
    /\ Goto(s, "script", "send")
    /\ UNCHANGED <<up, mu, dir, localHold, remoteHold, want, prev, attempt, request,
                   response, answer, holds, lost>>

\* byeWith after a failed refresh, then the deferred unlock
RefreshBye(s) ==
    /\ pc[s]["refresh"] = "bye"
    /\ up' = Set(up, s, FALSE)
    /\ mu' = Set(mu, s, "none")
    /\ Goto(s, "refresh", "idle")
    /\ UNCHANGED <<dir, localHold, remoteHold, want, prev, attempt, request, response,
                   answer, holds, lost>>
-----------------------------------------------------------------------------
(* onReInvite at the end that receives the request of s *)

\* Stream.Update turns the stream and answers with its direction
Update(o, d) ==
    /\ dir' = Set(dir, o, Reverse(d))
    /\ answer' = Set(answer, Other(o), Reverse(d))

\* reofferAnswer: note the hold, then Update
ReofferAnswer(o, d) ==
    /\ remoteHold' = Set(remoteHold, o, d = "sendonly")
    /\ Update(o, d)

\* A plausible slip: the handler waits for the lock.
OnReInviteWaits(s) ==
    LET o == Other(s) IN
    /\ request[s] # "none"
    /\ request' = Set(request, s, "none")
    /\ \/ /\ ~up[o]
          /\ response' = Set(response, s, 481)
          /\ UNCHANGED <<dir, remoteHold, answer>>
       \/ /\ up[o]
          /\ mu[o] = "none"
          /\ ReofferAnswer(o, request[s])
          /\ response' = Set(response, s, 200)
    /\ UNCHANGED <<up, mu, localHold, pc, want, prev, attempt, holds, lost>>

\* 481 without a call, 491 while our own re-INVITE is under way, else
\* reofferAnswer
OnReInvite(s) ==
    LET o == Other(s) IN
    /\ request[s] # "none"
    /\ request' = Set(request, s, "none")
    /\ \/ /\ ~up[o]
          /\ response' = Set(response, s, 481)
          /\ UNCHANGED <<dir, remoteHold, answer>>
       \/ /\ up[o]
          /\ mu[o] # "none"
          /\ response' = Set(response, s, 491)
          /\ UNCHANGED <<dir, remoteHold, answer>>
       \/ /\ up[o]
          /\ mu[o] = "none"
          /\ ReofferAnswer(o, request[s])
          /\ response' = Set(response, s, 200)
    /\ UNCHANGED <<up, mu, localHold, pc, want, prev, attempt, holds, lost>>

\* The call ends here for any other reason (CallCore): Hangup, the peer's
\* BYE, the session's expiry
Ends(s) ==
    /\ up[s]
    /\ up' = Set(up, s, FALSE)
    /\ UNCHANGED <<mu, dir, localHold, remoteHold, pc, want, prev, attempt, request,
                   response, answer, holds, lost>>
-----------------------------------------------------------------------------
TaskStep(s, t) == Send(s, t) \/ Accepted(s, t) \/ Refused(s, t)

Next ==
    \E s \in Sides :
        \/ ScriptReinvites(s) \/ RefreshFires(s) \/ Ends(s)
        \/ Backoff(s) \/ RefreshBye(s) \/ OnReInvite(s)
        \/ \E t \in Tasks : Lock(s, t) \/ TaskStep(s, t) \/ Timeout(s, t)

Spec == Init /\ [][Next]_vars

\* Goroutines run, sleeps end, requests are handled; sync.Mutex lets nobody
\* starve.  The timeout is not needed and gets no fairness.
Fairness ==
    \A s \in Sides :
        /\ WF_vars(Backoff(s)) /\ WF_vars(RefreshBye(s)) /\ WF_vars(OnReInvite(s))
        /\ \A t \in Tasks : SF_vars(Lock(s, t)) /\ WF_vars(TaskStep(s, t))

FairSpec == Spec /\ Fairness
-----------------------------------------------------------------------------
(* Properties *)

\* The two ends agree on who sends: once no re-INVITE is under way their
\* directions are each other's reverse, whatever glare, refusals, retries
\* and refreshes came before.  When a 200 was lost they agree again after the
\* next exchange that completes, a refresh or a hold of either end.
Agreement ==
    (\A s \in Sides : mu[s] = "none") /\ lost # "open" => dir[A] = Reverse(dir[B])

\* isOnHold() does not deny a hold: an end whose stream only sends, which is
\* what hold() asks for, says that it is on hold, also after an unhold() that
\* failed, glare, and refreshes of either end, unless a 200 was lost.
HoldIsReported ==
    lost = "never" => \A s \in Sides : mu[s] = "none" /\ dir[s] = "sendonly" => localHold[s]

\* hold() and unhold() return although both ends re-INVITE at once and each
\* keeps its lock meanwhile: nobody waits for the other, and no timeout has
\* to come to the rescue.
HoldReturns ==
    \A s \in Sides : (pc[s]["script"] # "idle") ~> (pc[s]["script"] = "idle")
=============================================================================
