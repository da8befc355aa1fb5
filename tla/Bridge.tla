-------------------------------- MODULE Bridge --------------------------------
(***************************************************************************)
(* The B2BUA of the test PBX (testpbx/calls.go).  A leg is one dialog      *)
(* between the PBX and an endpoint, a bridge is the pair of legs the PBX   *)
(* relays between.  The map legs finds the bridge of a Call-ID; a leg that *)
(* a transfer took out of its bridge waits in orphans for its endpoint to  *)
(* hang up.  Handlers run concurrently, each on its own goroutine; they    *)
(* share the two maps under one mutex but keep a bridge they found while   *)
(* they wait for endpoints.  Endpoints answer, refuse, hang up, or do not  *)
(* answer at all.  SDP, and with it the relay of re-INVITEs, is left out.  *)
(***************************************************************************)
EXTENDS Integers, FiniteSets

CONSTANTS
    MaxLegs,      \* bound: legs the PBX ever has
    MaxRequests,  \* bound: REFERs and BYEs of endpoints
    MaxLost       \* bound: BYEs and ACKs that do not get through

ASSUME BridgeConstants ==
    /\ MaxLegs \in Nat
    /\ MaxRequests \in Nat
    /\ MaxLost \in Nat

Legs == 1..MaxLegs
None == {}                  \* a nil *bridge

VARIABLES
    made,       \* how many legs have been made: they are numbered
    acked,      \* legs whose dialog the PBX holds confirmed: the INVITE is ACKed
    end,        \* the dialog as the endpoint sees it
    legs,       \* PBX.legs: the bridge of each leg
    orphans,    \* PBX.orphans
    invite,     \* where onInvite stands, by the caller's leg
    bye,        \* where a BYE and its onBye stand, by the leg it came from
    byeBr,      \* the bridge onBye found
    refer,      \* where the goroutine of onRefer stands, by the transferor's leg
    move        \* its variables: the bridges br and cb, the legs consult and nl

\* For the properties only
VARIABLES
    lost,       \* legs whose BYE or ACK did not get through
    raced       \* legs of handlers that overlapped, and of what they moved

pbx == <<legs, orphans>>
vars == <<made, acked, end, pbx, invite, bye, byeBr, refer, move, lost, raced>>

Bridges == {None} \cup {{x, y} : x, y \in Legs}
Locals == [br : Bridges, cb : Bridges, consult : Legs \cup {0}, nl : Legs \cup {0}]
NoLocals == [br |-> None, cb |-> None, consult |-> 0, nl |-> 0]

TypeOK ==
    /\ made \in 0..MaxLegs
    /\ acked \subseteq Legs
    /\ end \in [Legs -> {"none", "early", "up", "down"}]
    /\ legs \in [Legs -> Bridges]
    /\ \A l \in Legs : legs[l] # None => l \in legs[l]
    /\ orphans \subseteq Legs
    /\ invite \in [Legs -> {"none", "dial", "answer", "drop", "done"}]
    /\ bye \in [Legs -> {"none", "sent", "found", "unlinked", "done"}]
    /\ byeBr \in [Legs -> Bridges]
    /\ refer \in [Legs -> {"none", "blind", "dial", "reinvite", "drop", "attended",
                           "keep", "target", "move", "link", "consult", "done"}]
    /\ move \in [Legs -> Locals]
    /\ lost \subseteq Legs
    /\ raced \subseteq Legs

Init ==
    /\ made = 0
    /\ acked = {}
    /\ end = [l \in Legs |-> "none"]
    /\ legs = [l \in Legs |-> None]
    /\ orphans = {}
    /\ invite = [l \in Legs |-> "none"]
    /\ bye = [l \in Legs |-> "none"]
    /\ byeBr = [l \in Legs |-> None]
    /\ refer = [l \in Legs |-> "none"]
    /\ move = [l \in Legs |-> NoLocals]
    /\ lost = {}
    /\ raced = {}
-----------------------------------------------------------------------------
(* The maps, and requests to endpoints *)

\* bridge.other
Other(b, l) == IF b = {l} THEN l ELSE CHOOSE m \in b : m # l

Link(b) == legs' = [l \in Legs |-> IF l \in b THEN b ELSE legs[l]]

Unlink(S) ==
    /\ legs' = [l \in Legs |-> IF l \in S THEN None ELSE legs[l]]
    /\ orphans' = orphans \ S

\* What endpoints have asked for: each leg at most one REFER and one BYE
Requests == Cardinality({l \in Legs : bye[l] # "none"}) + Cardinality({l \in Legs : refer[l] # "none"})

\* find: the leg is in a bridge or an orphan
Found(l) == legs[l] # None \/ l \in orphans

\* A request of the PBX, or an endpoint's, does not get through
Lose(l) ==
    /\ Cardinality(lost) < MaxLost
    /\ lost' = lost \cup {l}

\* The caller's ACK can still be handled: WriteResponse waits for it, and onAck
\* finds the leg.
AwaitsAck(a) == invite[a] = "answer" /\ Found(a)

\* leg.bye: an endpoint that is still in the dialog leaves it, or the request
\* does not get through.  In a dialog that is not confirmed it waits for the
\* ACK and after 10 s gives up: because the ACK does not get through, or
\* because onAck discards every ACK of a leg that is in neither map.
Bye(l) ==
    \/ /\ l \in acked
       /\ end' = [end EXCEPT ![l] = "down"]
       /\ UNCHANGED lost
    \/ /\ l \in acked \/ AwaitsAck(l)
       /\ end[l] \in {"early", "up"}
       /\ Lose(l)
       /\ UNCHANGED end
    \/ /\ l \notin acked
       /\ ~AwaitsAck(l) \/ end[l] = "down"
       /\ UNCHANGED <<end, lost>>
-----------------------------------------------------------------------------
(* onInvite.  The caller's leg and the one to the callee are numbered      *)
(* together.  What is refused before dial (403, 404, 407, 400) leaves no   *)
(* trace.                                                                  *)

Callee(a) == a + 1

OnInvite ==
    /\ made + 2 <= MaxLegs
    /\ made' = made + 2
    /\ end' = [end EXCEPT ![made + 1] = "early", ![made + 2] = "early"]
    /\ invite' = [invite EXCEPT ![made + 1] = "dial"]
    /\ UNCHANGED <<acked, pbx, bye, byeBr, refer, move, lost>>

\* dial returns an error: refused, no answer, or the caller cancelled (an
\* answer that crosses the CANCEL is not ACKed, and the endpoint gives up)
DialFails(a) ==
    /\ invite[a] = "dial"
    /\ invite' = [invite EXCEPT ![a] = "done"]
    /\ end' = [end EXCEPT ![a] = "down", ![Callee(a)] = "down"]
    /\ UNCHANGED <<made, acked, pbx, bye, byeBr, refer, move, lost>>

\* The callee answered and has its ACK.  The bridge is there before the caller
\* gets the 200, for onAck looks for it.
Dialled(a) ==
    /\ invite[a] = "dial"
    /\ invite' = [invite EXCEPT ![a] = "answer"]
    /\ end' = [end EXCEPT ![Callee(a)] = "up"]
    /\ acked' = acked \cup {Callee(a)}
    /\ Link({a, Callee(a)})
    /\ UNCHANGED <<made, orphans, bye, byeBr, refer, move, lost>>

\* The caller gets the 200 and sends ACK
CallerAnswered(a) ==
    /\ invite[a] = "answer"
    /\ end[a] = "early"
    /\ end' = [end EXCEPT ![a] = "up"]
    /\ UNCHANGED <<made, acked, pbx, invite, bye, byeBr, refer, move, lost>>

\* onAck, of a leg that it finds: the dialog is confirmed, WriteResponse returns
OnAck(a) ==
    /\ AwaitsAck(a)
    /\ end[a] # "early"
    /\ invite' = [invite EXCEPT ![a] = "done"]
    /\ acked' = acked \cup {a}
    /\ UNCHANGED <<made, end, pbx, bye, byeBr, refer, move, lost>>

\* WriteResponse fails: the caller cancelled, or no ACK came, or onAck discarded
\* them all because a BYE or a transfer had taken the leg out of the maps
AnswerFails(a) ==
    /\ invite[a] = "answer"
    /\ invite' = [invite EXCEPT ![a] = "drop"]
    /\ \/ /\ end[a] = "early"
          /\ end' = [end EXCEPT ![a] = "down"]
          /\ UNCHANGED lost
       \/ /\ end[a] # "early"
          /\ Found(a)
          /\ Lose(a)
          /\ UNCHANGED end
       \/ /\ end[a] # "early"
          /\ ~Found(a)
          /\ UNCHANGED <<end, lost>>
    /\ Unlink({a, Callee(a)})
    /\ UNCHANGED <<made, acked, bye, byeBr, refer, move>>

CalleeDropped(a) ==
    /\ invite[a] = "drop"
    /\ invite' = [invite EXCEPT ![a] = "done"]
    /\ Bye(Callee(a))
    /\ UNCHANGED <<made, acked, pbx, bye, byeBr, refer, move>>
-----------------------------------------------------------------------------
(* BYE *)

\* The endpoint hangs up; its BYE reaches the PBX, some time, or does not
HangUp(l) ==
    /\ end[l] = "up"
    /\ Requests < MaxRequests
    /\ end' = [end EXCEPT ![l] = "down"]
    /\ \/ /\ bye' = [bye EXCEPT ![l] = "sent"]
          /\ UNCHANGED lost
       \/ /\ bye' = [bye EXCEPT ![l] = "done"]
          /\ Lose(l)
    /\ UNCHANGED <<made, acked, pbx, invite, byeBr, refer, move>>

\* onBye: find, and readBye answers; 481 without a leg
OnBye(l) ==
    /\ bye[l] = "sent"
    /\ bye' = [bye EXCEPT ![l] = IF Found(l) THEN "found" ELSE "done"]
    /\ byeBr' = [byeBr EXCEPT ![l] = legs[l]]
    /\ UNCHANGED <<made, acked, end, pbx, invite, refer, move, lost>>

\* A plausible slip: only the leg that hung up is taken out of the maps.
ByeUnlinksOne(l) ==
    /\ bye[l] = "found"
    /\ Unlink({l})
    /\ bye' = [bye EXCEPT ![l] = IF byeBr[l] = None THEN "done" ELSE "unlinked"]
    /\ UNCHANGED <<made, acked, end, invite, byeBr, refer, move, lost>>

\* unlink the leg, and the one it was bridged with when find looked
ByeUnlinks(l) ==
    /\ bye[l] = "found"
    /\ Unlink({l} \cup byeBr[l])
    /\ bye' = [bye EXCEPT ![l] = IF byeBr[l] = None THEN "done" ELSE "unlinked"]
    /\ UNCHANGED <<made, acked, end, invite, byeBr, refer, move, lost>>

ByeRelayed(l) ==
    /\ bye[l] = "unlinked"
    /\ Bye(Other(byeBr[l], l))
    /\ bye' = [bye EXCEPT ![l] = "done"]
    /\ byeBr' = [byeBr EXCEPT ![l] = None]
    /\ UNCHANGED <<made, acked, pbx, invite, refer, move>>
-----------------------------------------------------------------------------
(* REFER: 202, and a goroutine that transfers.  NOTIFYs change nothing here *)

At(t, s) == refer[t] = s
Goto(t, s) == refer' = [refer EXCEPT ![t] = s]

\* The goroutine is done; its variables are gone
Done(t) ==
    /\ Goto(t, "done")
    /\ move' = [move EXCEPT ![t] = NoLocals]

Keep(t) == Other(move[t].br, t)
Target(t) == Other(move[t].cb, move[t].consult)

\* The legs that endpoints made by calling the PBX: a consultation is one.
Callers == {a \in Legs : invite[a] # "none"}

\* onRefer: find, 481 without a bridge; Refer-To with or without Replaces,
\* in which the endpoint names a call of its own
OnRefer(t) ==
    /\ At(t, "none")
    /\ legs[t] # None
    /\ Requests < MaxRequests
    /\ \/ /\ Goto(t, "blind")
          /\ move' = [move EXCEPT ![t].br = legs[t]]
       \/ \E c \in Callers :
            /\ Goto(t, "attended")
            /\ move' = [move EXCEPT ![t].br = legs[t], ![t].consult = c]
    /\ UNCHANGED <<made, acked, end, pbx, invite, bye, byeBr, lost>>

\* blind: lookup and dial, or 404
BlindDials(t) ==
    /\ At(t, "blind")
    /\ \/ /\ made < MaxLegs
          /\ made' = made + 1
          /\ end' = [end EXCEPT ![made'] = "early"]
          /\ move' = [move EXCEPT ![t].nl = made']
          /\ Goto(t, "dial")
       \/ /\ Done(t)
          /\ UNCHANGED <<made, end>>
    /\ UNCHANGED <<acked, pbx, invite, bye, byeBr, lost>>

BlindDialled(t) ==
    /\ At(t, "dial")
    /\ \/ /\ end' = [end EXCEPT ![move[t].nl] = "up"]
          /\ acked' = acked \cup {move[t].nl}
          /\ Goto(t, "reinvite")
          /\ UNCHANGED move
       \/ /\ end' = [end EXCEPT ![move[t].nl] = "down"]
          /\ Done(t)
          /\ UNCHANGED acked
    /\ UNCHANGED <<made, pbx, invite, bye, byeBr, lost>>

\* reinvite the transferee: only an endpoint in the dialog answers with 2xx, and
\* not always
BlindReinvites(t) ==
    /\ At(t, "reinvite")
    /\ \/ end[Keep(t)] = "up" /\ Goto(t, "move")
       \/ Goto(t, "drop")
    /\ UNCHANGED <<made, acked, end, pbx, invite, bye, byeBr, move, lost>>

BlindDrops(t) ==
    /\ At(t, "drop")
    /\ Bye(move[t].nl)
    /\ Done(t)
    /\ UNCHANGED <<made, acked, pbx, invite, bye, byeBr>>

\* attended: the consultation call, 481 without it
AttendedFinds(t) ==
    /\ At(t, "attended")
    /\ LET cb == legs[move[t].consult]
       IN IF cb \in {None, move[t].br}
          THEN Done(t)
          ELSE Goto(t, "keep") /\ move' = [move EXCEPT ![t].cb = cb]
    /\ UNCHANGED <<made, acked, end, pbx, invite, bye, byeBr, lost>>

AttendedReinvites(t) ==
    /\ \/ At(t, "keep") /\ end[Keep(t)] = "up" /\ Goto(t, "target") /\ UNCHANGED move
       \/ At(t, "target") /\ end[Target(t)] = "up" /\ Goto(t, "move") /\ UNCHANGED move
       \/ At(t, "keep") /\ Done(t)
       \/ At(t, "target") /\ Done(t)
    /\ UNCHANGED <<made, acked, end, pbx, invite, bye, byeBr, lost>>

\* A plausible slip: the transferor's leg is dropped and not kept as an orphan.
MovesForgetting(t) ==
    /\ At(t, "move")
    /\ legs' = [l \in Legs |-> IF l \in {t, move[t].consult} THEN None ELSE legs[l]]
    /\ Goto(t, "link")
    /\ UNCHANGED <<made, acked, end, orphans, invite, bye, byeBr, move, lost>>

\* The transferor's leg, and the consultation leg, leave their bridges
Moves(t) ==
    /\ At(t, "move")
    /\ legs' = [l \in Legs |-> IF l \in {t, move[t].consult} THEN None ELSE legs[l]]
    /\ orphans' = orphans \cup {t}
    /\ Goto(t, "link")
    /\ UNCHANGED <<made, acked, end, invite, bye, byeBr, move, lost>>

\* The new bridge: the transferee with the new leg, or with the target
Links(t) ==
    /\ At(t, "link")
    /\ \/ /\ move[t].consult = 0
          /\ Link({Keep(t), move[t].nl})
          /\ Done(t)
       \/ /\ move[t].consult # 0
          /\ Link({Keep(t), Target(t)})
          /\ Goto(t, "consult")
          /\ UNCHANGED move
    /\ UNCHANGED <<made, acked, end, orphans, invite, bye, byeBr, lost>>

ConsultDropped(t) ==
    /\ At(t, "consult")
    /\ Bye(move[t].consult)
    /\ Done(t)
    /\ UNCHANGED <<made, acked, pbx, invite, bye, byeBr>>
-----------------------------------------------------------------------------
(* What runs, and on which legs *)

Inviting == {a \in Legs : invite[a] \in {"dial", "answer", "drop"}}
Hanging == {l \in Legs : bye[l] \in {"sent", "found", "unlinked"}}
Referring == {t \in Legs : refer[t] \notin {"none", "done"}}

AtRest == Inviting = {} /\ Hanging = {} /\ Referring = {}

LegsOf(kind, l) ==
    CASE kind = "invite" -> {l, Callee(l)}
      [] kind = "bye" -> {l} \cup byeBr[l]
      [] kind = "refer" -> ({t \in {l, move[l].consult, move[l].nl} : t # 0}
                             \cup move[l].br \cup move[l].cb)

Running ==
    ({"invite"} \X Inviting) \cup ({"bye"} \X Hanging) \cup ({"refer"} \X Referring)

\* The legs of handlers that share a leg, or touch one that was raced or lost
Overlap ==
    UNION {LegsOf(h[1], h[2]) : h \in
        {g \in Running :
            \/ LegsOf(g[1], g[2]) \cap (raced \cup lost) # {}
            \/ \E k \in Running \ {g} : LegsOf(g[1], g[2]) \cap LegsOf(k[1], k[2]) # {}}}

Step ==
    \/ OnInvite
    \/ \E a \in Legs :
        \/ DialFails(a) \/ Dialled(a) \/ CallerAnswered(a)
        \/ OnAck(a) \/ AnswerFails(a) \/ CalleeDropped(a)
    \/ \E l \in Legs : HangUp(l) \/ OnBye(l) \/ ByeUnlinks(l) \/ ByeRelayed(l)
    \/ \E t \in Legs :
        \/ OnRefer(t) \/ BlindDials(t) \/ BlindDialled(t) \/ BlindReinvites(t)
        \/ BlindDrops(t) \/ AttendedFinds(t) \/ AttendedReinvites(t)
        \/ Moves(t) \/ Links(t) \/ ConsultDropped(t)

Next == Step /\ raced' = raced \cup Overlap

Spec == Init /\ [][Next]_vars
-----------------------------------------------------------------------------
(* Properties *)

\* However hangups, transfers and answers overlap, the PBX forgets no leg whose
\* endpoint is still in the dialog: its BYE will be found, not refused with
\* 481.  Excepted are a leg whose own BYE or ACK was lost, and one of a dialog
\* the PBX never held confirmed: a caller's, which another handler (onBye, a
\* transfer) took out of the maps before onAck handled its ACK.
NoLegForgotten ==
    AtRest => \A l \in Legs \ lost :
        end[l] = "up" => Found(l) \/ (l \notin acked /\ l \in raced)

\* Where handlers did not overlap, the maps are what the endpoints see: both
\* legs of a bridge are in it and up, an orphan is up and in no bridge, and
\* nothing that is over is kept.
BridgeWhole ==
    AtRest => \A l \in Legs \ (raced \cup lost) : Found(l) =>
        /\ end[l] = "up"
        /\ \A m \in legs[l] : legs[m] = legs[l] /\ m \notin orphans
=============================================================================
