------------------------------ MODULE Transfer -------------------------------
(***************************************************************************)
(* Call transfer between two ends that both run engine/transfer.go.  The   *)
(* transferor sends REFER and follows it in a transferProgress; the        *)
(* transferee answers 202, places the new call on a goroutine of its own   *)
(* (followRefer) and reports with NOTIFY.  REFERs are numbered.  Every     *)
(* request is handled on its own goroutine, and onNotify answers before it *)
(* looks at the request, so that the next NOTIFY may be handled first.     *)
(* The new call is reduced to its outcome (OutgoingCall).                  *)
(***************************************************************************)
EXTENDS Integers

CONSTANT MaxRefers     \* bound: transfers of this call

ASSUME TransferConstants == MaxRefers \in Nat

Refers == 1..MaxRefers
Kinds == {"trying", "final"}

VARIABLES
    up,           \* the transferor's call is in Device.calls
    xfer,         \* Call.xfer: the REFER it follows, 0 = nil
    status,       \* its transferProgress.status
    closes,       \* how often its transferProgress.done was closed
    script,       \* the script: "idle", "refer" or "expect"
    transferred,  \* what ExpectTransferred returned for it
    accepted,     \* Transfer or AttendedTransfer returned true for it
    request,      \* a REFER: "none", "sent", "accepted", "refused"
    follow,       \* where followRefer stands, by REFER
    newCall,      \* the call it places: "none", "calling", "connected", "ended"
    referred,     \* Call.referred: the channel's content, 0 = empty
    notify,       \* a NOTIFY: "none", "sent", "handled"
    code          \* the status in the final NOTIFY

transferor == <<up, xfer, status, closes, script, transferred, accepted>>
transferee == <<follow, newCall, referred, code>>
vars == <<transferor, request, transferee, notify>>

TypeOK ==
    /\ up \in BOOLEAN
    /\ xfer \in 0..MaxRefers
    /\ status \in {0, 100, 200, 486, 503}
    /\ closes \in 0..1
    /\ script \in {"idle", "refer", "expect"}
    /\ transferred \in {"none", "true", "false", "timeout"}
    /\ accepted \in BOOLEAN
    /\ request \in [Refers -> {"none", "sent", "accepted", "refused"}]
    /\ follow \in [Refers -> {"none", "trying", "call", "dialling", "report", "done"}]
    /\ newCall \in [Refers -> {"none", "calling", "connected", "ended"}]
    /\ referred \in 0..MaxRefers
    /\ notify \in [Refers -> [Kinds -> {"none", "sent", "handled"}]]
    /\ code \in [Refers -> {0, 200, 486, 503}]

Init ==
    /\ up = TRUE
    /\ xfer = 0
    /\ status = 0
    /\ closes = 0
    /\ script = "idle"
    /\ transferred = "none"
    /\ accepted = FALSE
    /\ request = [k \in Refers |-> "none"]
    /\ follow = [k \in Refers |-> "none"]
    /\ newCall = [k \in Refers |-> "none"]
    /\ referred = 0
    /\ notify = [k \in Refers |-> [i \in Kinds |-> "none"]]
    /\ code = [k \in Refers |-> 0]
-----------------------------------------------------------------------------
(* The transferor *)

\* A plausible slip: done is closed without sync.Once.
UpdateEachTime(s, final) ==
    /\ status' = s
    /\ closes' = IF final THEN closes + 1 ELSE closes

\* transferProgress.update
Update(s, final) ==
    /\ status' = s
    /\ closes' = IF final THEN 1 ELSE closes

\* refer of a connected call, for Transfer and AttendedTransfer.  From now on
\* the progress of an earlier REFER is out of reach.
Refer ==
    /\ script = "idle"
    /\ up
    /\ xfer < MaxRefers
    /\ xfer' = xfer + 1
    /\ request' = [request EXCEPT ![xfer'] = "sent"]
    /\ script' = "refer"
    /\ status' = 0 /\ closes' = 0
    /\ transferred' = "none" /\ accepted' = FALSE
    /\ UNCHANGED <<up, notify>>
    /\ UNCHANGED transferee

\* The 202
ReferAccepted ==
    /\ script = "refer"
    /\ request[xfer] = "accepted"
    /\ accepted' = TRUE
    /\ script' = "idle"
    /\ UNCHANGED <<up, xfer, status, closes, transferred, request, notify>>
    /\ UNCHANGED transferee

\* Refused, or given up without a response, which may still be on its way:
\* the waiter must not wait for a NOTIFY
ReferFails ==
    /\ script = "refer"
    /\ Update(0, TRUE)
    /\ script' = "idle"
    /\ UNCHANGED <<up, xfer, transferred, accepted, request, notify>>
    /\ UNCHANGED transferee

ExpectTransferred ==
    /\ script = "idle"
    /\ xfer # 0
    /\ script' = "expect"
    /\ UNCHANGED <<up, xfer, status, closes, transferred, accepted, request, notify>>
    /\ UNCHANGED transferee

\* A plausible slip: any status but 0 counts as success.
SucceededUnlessZero(s) == s > 0

Succeeded(s) == s >= 200 /\ s < 300

\* done is closed
ExpectReturns ==
    /\ script = "expect"
    /\ closes > 0
    /\ transferred' = IF Succeeded(status) THEN "true" ELSE "false"
    /\ script' = "idle"
    /\ UNCHANGED <<up, xfer, status, closes, accepted, request, notify>>
    /\ UNCHANGED transferee

ExpectTimeout ==
    /\ script = "expect"
    /\ transferred' = "timeout"
    /\ script' = "idle"
    /\ UNCHANGED <<up, xfer, status, closes, accepted, request, notify>>
    /\ UNCHANGED transferee

\* onNotify answers 200, and only then updates the progress of the latest
\* REFER of the call, if there is a call
OnNotify(k, i) ==
    /\ notify[k][i] = "sent"
    /\ notify' = [notify EXCEPT ![k][i] = "handled"]
    /\ \/ /\ up
          /\ Update(IF i = "final" THEN code[k] ELSE 100, i = "final")
       \/ /\ ~up
          /\ UNCHANGED <<status, closes>>
    /\ UNCHANGED <<up, xfer, script, transferred, accepted, request>>
    /\ UNCHANGED transferee

\* The call ends: Hangup, BYE, session timer (CallCore)
Ends ==
    /\ up
    /\ up' = FALSE
    /\ UNCHANGED <<xfer, status, closes, script, transferred, accepted, request, notify>>
    /\ UNCHANGED transferee
-----------------------------------------------------------------------------
(* The transferee *)

Goto(k, l) == follow' = [follow EXCEPT ![k] = l]

\* onRefer: 202 and followRefer, which begins with NOTIFY 100, or a refusal
\* (481 without a call, 400 for a bad Refer-To)
OnRefer(k) ==
    /\ request[k] = "sent"
    /\ \/ /\ request' = [request EXCEPT ![k] = "accepted"]
          /\ Goto(k, "trying")
          /\ notify' = [notify EXCEPT ![k]["trying"] = "sent"]
       \/ /\ request' = [request EXCEPT ![k] = "refused"]
          /\ UNCHANGED <<follow, notify>>
    /\ UNCHANGED transferor
    /\ UNCHANGED <<newCall, referred, code>>

\* notifyRefer returns with the 200, which onNotify sends before it handles the
\* request, or gives up waiting for it
TryingDone(k) ==
    /\ follow[k] = "trying"
    /\ Goto(k, "call")
    /\ UNCHANGED <<transferor, request, newCall, referred, code, notify>>

\* Device.Call; the call goes into the channel if there is room
Call(k) ==
    /\ follow[k] = "call"
    /\ \/ /\ newCall' = [newCall EXCEPT ![k] = "calling"]
          /\ referred' = IF referred = 0 THEN k ELSE referred
          /\ Goto(k, "dialling")
          /\ UNCHANGED code
       \/ /\ code' = [code EXCEPT ![k] = 503]
          /\ Goto(k, "report")
          /\ UNCHANGED <<newCall, referred>>
    /\ UNCHANGED <<transferor, request, notify>>

\* The new call is answered, or ends without an answer
NewCallSettles(k) ==
    /\ newCall[k] = "calling"
    /\ \E o \in {"connected", "ended"} : newCall' = [newCall EXCEPT ![k] = o]
    /\ UNCHANGED <<transferor, request, follow, referred, code, notify>>

\* A plausible slip: the wait for the new call has no limit.
DialledUnlimited(k) ==
    /\ follow[k] = "dialling"
    /\ newCall[k] # "calling"
    /\ code' = [code EXCEPT ![k] = IF newCall[k] = "connected" THEN 200 ELSE 486]
    /\ Goto(k, "report")
    /\ UNCHANGED <<transferor, request, newCall, referred, notify>>

\* ExpectConnected, which a minute ends when the call is not settled
Dialled(k) ==
    /\ follow[k] = "dialling"
    /\ code' = [code EXCEPT ![k] = IF newCall[k] = "connected" THEN 200 ELSE 486]
    /\ Goto(k, "report")
    /\ UNCHANGED <<transferor, request, newCall, referred, notify>>

Report(k) ==
    /\ follow[k] = "report"
    /\ notify' = [notify EXCEPT ![k]["final"] = "sent"]
    /\ Goto(k, "done")
    /\ UNCHANGED <<transferor, request, newCall, referred, code>>

ReferredCall ==
    /\ referred # 0
    /\ referred' = 0
    /\ UNCHANGED <<transferor, request, follow, newCall, code, notify>>
-----------------------------------------------------------------------------
Follows(k) == TryingDone(k) \/ Call(k) \/ Dialled(k) \/ Report(k)

Next ==
    \/ Refer \/ ReferAccepted \/ ReferFails \/ Ends
    \/ ExpectTransferred \/ ExpectReturns \/ ExpectTimeout
    \/ ReferredCall
    \/ \E k \in Refers :
        \/ OnRefer(k) \/ Follows(k) \/ NewCallSettles(k)
        \/ \E i \in Kinds : OnNotify(k, i)

Spec == Init /\ [][Next]_vars

\* followRefer runs, its requests end with a response or a timeout, and so
\* does the wait for the new call.  Nothing is asked of the network.
Fairness == \A k \in Refers : WF_vars(Follows(k))

FairSpec == Spec /\ Fairness
-----------------------------------------------------------------------------
(* Properties *)

\* ExpectTransferred returns true only if a call placed for a REFER of this
\* call, that one or an earlier one, was answered: neither a failed REFER, a
\* refusal of the target nor a NOTIFY that overtakes another looks like one.
TrueMeansConnected ==
    transferred = "true" => \E k \in 1..xfer : newCall[k] = "connected"

\* The transferee reports on every REFER it accepted, although the target may
\* neither answer nor refuse, the transferor may answer no NOTIFY and nobody
\* may ever fetch the new call.
ReferIsFollowedUp == \A k \in Refers : (follow[k] # "none") ~> (notify[k]["final"] # "none")
-----------------------------------------------------------------------------
(* What the documentation says and the code does not do                    *)

\* expecttransferred.md: "true if the transfer succeeded".  The only REFER of
\* the call was accepted, the target answered and the final NOTIFY, with 200,
\* is what wakes the waiter.
SuccessIsReported ==
    xfer = 1 /\ accepted /\ code[1] = 200 => transferred # "false"
=============================================================================
