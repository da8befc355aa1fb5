--------------------------------- MODULE Prack --------------------------------
(***************************************************************************)
(* Reliable provisional responses (engine/prack.go): one INVITE that a     *)
(* proxy forks to several endpoints.  Each rings with a reliable 180 and a *)
(* goroutine that repeats it until a PRACK, the answer, the end of the     *)
(* call or a deadline; the caller's dialog acknowledges a new RSeq on a    *)
(* goroutine of its own.  The network loses, repeats and reorders.  Every  *)
(* endpoint numbers its only reliable response with RSeq 1.                *)
(*                                                                         *)
(* A goroutine blocked in a Go select leaves it by the first case that     *)
(* becomes ready: closing a channel moves the ringer that waits.           *)
(***************************************************************************)
EXTENDS Integers

CONSTANTS
    Endpoints,    \* the called devices
    None          \* no dialog yet

ASSUME PrackConstants == None \notin Endpoints

RSeq == 1

VARIABLES
    st,         \* the incoming call: "new", "ringing", "answered", "connected", "ended"
    ringer,     \* its goroutine: "off", "wait", "fired", "write", "gone"
    expired,    \* its deadline, 64*T1, has passed
    closes,     \* how often Call.prack was closed
    uac,        \* the caller's run: "waiting" for a final response, or "done"
    lastRSeq,   \* uacDialog.lastRSeq
    res,        \* uacDialog.res: whose response set up the dialog
    acking,     \* goroutines that will PRACK, by whose 180 they acknowledge
    net         \* what is on the network: it may arrive again

\* For the properties only
VARIABLES
    late,       \* 180s written after the reason to write them was gone
    acks        \* PRACK goroutines started, by whose 180

uas == <<st, ringer, expired, closes, late>>
caller == <<uac, lastRSeq, res, acking, acks>>
prackVars == <<uas, caller, net>>

Messages == [m : {"180", "200", "ACK", "PRACK"}, e : Endpoints]
Msg(m, e) == [m |-> m, e |-> e]

PrackTypeOK ==
    /\ st \in [Endpoints -> {"new", "ringing", "answered", "connected", "ended"}]
    /\ ringer \in [Endpoints -> {"off", "wait", "fired", "write", "gone"}]
    /\ expired \in [Endpoints -> BOOLEAN]
    /\ closes \in [Endpoints -> 0..1]
    /\ uac \in {"waiting", "done"}
    /\ lastRSeq \in 0..RSeq
    /\ res \in Endpoints \cup {None}
    /\ acking \subseteq Endpoints
    /\ net \subseteq Messages
    /\ late \in [Endpoints -> Nat]
    /\ acks \in [Endpoints -> Nat]

PrackInit ==
    /\ st = [e \in Endpoints |-> "new"]
    /\ ringer = [e \in Endpoints |-> "off"]
    /\ expired = [e \in Endpoints |-> FALSE]
    /\ closes = [e \in Endpoints |-> 0]
    /\ uac = "waiting"
    /\ lastRSeq = 0
    /\ res = None
    /\ acking = {}
    /\ net = {}
    /\ late = [e \in Endpoints |-> 0]
    /\ acks = [e \in Endpoints |-> 0]
-----------------------------------------------------------------------------
(* The called device *)

\* Call.connected or Call.done is closed
Over(e) == st[e] \in {"connected", "ended"}

\* A case of the ringer's select becomes ready
Wake(e) == ringer' = [ringer EXCEPT ![e] = IF @ = "wait" THEN "gone" ELSE @]

\* ringReliably writes the first 180 and starts the ringer, or cannot write it
\* and the call ends
RingReliably(e) ==
    /\ st[e] = "new"
    /\ \/ /\ st' = [st EXCEPT ![e] = "ringing"]
          /\ ringer' = [ringer EXCEPT ![e] = "wait"]
          /\ net' = net \cup {Msg("180", e)}
       \/ /\ st' = [st EXCEPT ![e] = "ended"]
          /\ UNCHANGED <<ringer, net>>
    /\ UNCHANGED <<expired, closes, late, caller>>

\* time.After(interval)
Interval(e) ==
    /\ ringer[e] = "wait"
    /\ ringer' = [ringer EXCEPT ![e] = "fired"]
    /\ UNCHANGED <<st, expired, closes, late, caller, net>>

CheckState(e) ==
    /\ ringer[e] = "fired"
    /\ ringer' = [ringer EXCEPT ![e] = IF Over(e) THEN "gone" ELSE "write"]
    /\ UNCHANGED <<st, expired, closes, late, caller, net>>

\* A plausible slip: the select does not listen to Call.prack.
RetransmitUnpracked(e) ==
    /\ ringer[e] = "write"
    /\ net' = net \cup {Msg("180", e)}
    /\ late' = [late EXCEPT ![e] = IF Over(e) \/ expired[e] \/ closes[e] > 0 THEN @ + 1 ELSE @]
    /\ ringer' = [ringer EXCEPT ![e] = IF Over(e) \/ expired[e] THEN "gone" ELSE "wait"]
    /\ UNCHANGED <<st, expired, closes, caller>>

\* The 180 again, and back to the select, which leaves at once if a case is
\* ready
Retransmit(e) ==
    LET ready == Over(e) \/ expired[e] \/ closes[e] > 0
    IN /\ ringer[e] = "write"
       /\ net' = net \cup {Msg("180", e)}
       /\ late' = [late EXCEPT ![e] = IF ready THEN @ + 1 ELSE @]
       /\ ringer' = [ringer EXCEPT ![e] = IF ready THEN "gone" ELSE "wait"]
       /\ UNCHANGED <<st, expired, closes, caller>>

\* A plausible slip: there is no deadline.
DeadlineNever(e) == FALSE /\ UNCHANGED prackVars

Deadline(e) ==
    /\ ringer[e] # "off"
    /\ ~expired[e]
    /\ expired' = [expired EXCEPT ![e] = TRUE]
    /\ Wake(e)
    /\ UNCHANGED <<st, closes, late, caller, net>>

\* A plausible slip: Call.prack is closed without sync.Once.
OnPrackEachTime(e) ==
    /\ Msg("PRACK", e) \in net
    /\ st[e] # "ended"
    /\ closes' = [closes EXCEPT ![e] = @ + 1]
    /\ Wake(e)
    /\ UNCHANGED <<st, expired, late, caller, net>>

\* onPrack, of a call the device still has, whatever RAck says
OnPrack(e) ==
    /\ Msg("PRACK", e) \in net
    /\ st[e] # "ended"
    /\ closes' = [closes EXCEPT ![e] = 1]
    /\ Wake(e)
    /\ UNCHANGED <<st, expired, late, caller, net>>

\* answer writes the 200; the call is connected with the ACK
Answer(e) ==
    /\ st[e] = "ringing"
    /\ st' = [st EXCEPT ![e] = "answered"]
    /\ net' = net \cup {Msg("200", e)}
    /\ UNCHANGED <<ringer, expired, closes, late, caller>>

Connected(e) ==
    /\ st[e] = "answered"
    /\ Msg("ACK", e) \in net
    /\ st' = [st EXCEPT ![e] = "connected"]
    /\ Wake(e)
    /\ UNCHANGED <<expired, closes, late, caller, net>>

\* Rejected, cancelled, hung up, or no ACK (IncomingCall)
CallEnds(e) ==
    /\ st[e] \in {"ringing", "answered", "connected"}
    /\ st' = [st EXCEPT ![e] = "ended"]
    /\ Wake(e)
    /\ UNCHANGED <<expired, closes, late, caller, net>>
-----------------------------------------------------------------------------
(* The caller *)

\* A plausible slip: a retransmission is acknowledged like a new response.
MaybePRACKAgain(e) ==
    /\ lastRSeq' = RSeq
    /\ res' = e
    /\ acking' = acking \cup {e}
    /\ acks' = [acks EXCEPT ![e] = @ + 1]

\* maybePRACK: a new RSeq sets up the early dialog and starts a goroutine
MaybePRACK(e) ==
    \/ /\ RSeq > lastRSeq
       /\ lastRSeq' = RSeq
       /\ res' = e
       /\ acking' = acking \cup {e}
       /\ acks' = [acks EXCEPT ![e] = @ + 1]
    \/ /\ RSeq <= lastRSeq
       /\ UNCHANGED <<lastRSeq, res, acking, acks>>

Ringing(e) ==
    /\ uac = "waiting"
    /\ Msg("180", e) \in net
    /\ MaybePRACK(e)
    /\ UNCHANGED <<uac, uas, net>>

\* The goroutine: inDialog takes the dialog there is by now, nil being no
\* dialog but a panic
SendPRACK(e) ==
    /\ e \in acking
    /\ acking' = acking \ {e}
    /\ net' = IF res = None THEN net ELSE net \cup {Msg("PRACK", res)}
    /\ UNCHANGED <<uac, lastRSeq, res, acks, uas>>

\* established and ack: the first 200 is the call's, run reads no more responses
Established(e) ==
    /\ uac = "waiting"
    /\ Msg("200", e) \in net
    /\ uac' = "done"
    /\ res' = e
    /\ net' = net \cup {Msg("ACK", e)}
    /\ UNCHANGED <<lastRSeq, acking, acks, uas>>

\* A failure, the transaction's end, or no answer to CANCEL (OutgoingCall)
GivesUp ==
    /\ uac = "waiting"
    /\ uac' = "done"
    /\ UNCHANGED <<lastRSeq, res, acking, acks, uas, net>>

Lose(msg) ==
    /\ net' = net \ {msg}
    /\ UNCHANGED <<uas, caller>>
-----------------------------------------------------------------------------
Ringer(e) == Interval(e) \/ CheckState(e) \/ Retransmit(e)

PrackNext ==
    \/ \E e \in Endpoints :
        \/ RingReliably(e) \/ Ringer(e) \/ Deadline(e)
        \/ OnPrack(e) \/ Answer(e) \/ Connected(e) \/ CallEnds(e)
        \/ Ringing(e) \/ SendPRACK(e) \/ Established(e)
    \/ GivesUp
    \/ \E msg \in net : Lose(msg)

PrackSpec == PrackInit /\ [][PrackNext]_prackVars

\* Timers fire and goroutines run; nothing is asked of the network, the caller
\* or the script.
PrackFairness == \A e \in Endpoints : WF_prackVars(Ringer(e)) /\ WF_prackVars(Deadline(e))

PrackFairSpec == PrackSpec /\ PrackFairness
-----------------------------------------------------------------------------
(* Properties *)

\* A 180 that is repeated, or arrives twice or late, is acknowledged once; and
\* the goroutine that does so, however late it runs, has a dialog to send the
\* PRACK in (inDialog dereferences uacDialog.res).
AcksOnce ==
    /\ \A e \in Endpoints : acks[e] <= 1
    /\ acking # {} => res # None

\* At most one more 180 is written after a PRACK arrived, the call was
\* connected or ended, or the deadline passed.
LateRinging == \A e \in Endpoints : late[e] <= 1

\* The repetition ends although no PRACK arrives, nobody answers and the caller
\* is gone.  (An endpoint rings once: its ringer is never started again.)
RingerStops == []<>(\A e \in Endpoints : ringer[e] \in {"off", "gone"})
=============================================================================
