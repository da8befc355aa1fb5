---------------------------- MODULE BridgeProofs -----------------------------
(***************************************************************************)
(* Proofs about the B2BUA of the test PBX, for any number of legs,         *)
(* requests and lost messages.  Both properties speak of moments when no   *)
(* handler runs, so neither is inductive.                                  *)
(*                                                                         *)
(* NoLegForgotten: a leg of a confirmed dialog that is neither in a bridge *)
(* nor an orphan is in the hands of a handler that will link it or hang it *)
(* up (OwnedInv).  A leg that is not confirmed carries no such promise,    *)
(* but where handlers do not overlap only one whose answer is still being  *)
(* delivered is without its ACK (AckInv).                                  *)
(* That needs that a leg being dialled is unknown to every other handler   *)
(* (PendingInv, MentionInv), which rests on how legs are numbered.         *)
(*                                                                         *)
(* BridgeWhole excepts the legs of handlers that overlapped.  The argument *)
(* is about the clean legs, those that are not raced, not lost and not in  *)
(* an overlap now.  A handler with one clean leg has only clean ones and   *)
(* is alone on them (CleanAlone), so the maps are still what it found when *)
(* it looked them up (InviteAt, ByeAt, ReferAt), and a step of one handler *)
(* disturbs nothing about the legs of the others (Frame).  Clean legs only *)
(* ever become fewer (CleanShrinks).  The two writes of a transfer, which  *)
(* takes its bridge apart and then links the new one, need a phase of      *)
(* their own (LinkPhase).                                                  *)
(***************************************************************************)
EXTENDS Bridge, TLAPS

\* A leg that is being dialled: no other handler knows of it.
Pending(l) ==
    \/ \E a \in Legs : invite[a] = "dial" /\ l \in {a, Callee(a)}
    \/ \E t \in Legs : refer[t] = "dial" /\ move[t].nl = l

Settled(l) == l \in 1..made /\ ~Pending(l)

\* Legs are made in order, and nobody else's leg is dialled.
NumberInv ==
    /\ \A l \in Legs : l > made =>
         end[l] = "none" /\ invite[l] = "none" /\ bye[l] = "none" /\ refer[l] = "none"
    /\ \A a \in Legs : invite[a] # "none" => Callee(a) <= made /\ invite[Callee(a)] = "none"
    /\ \A t \in Legs : move[t].nl # 0 =>
         /\ move[t].nl <= made /\ invite[move[t].nl] = "none"
         /\ \A a \in Legs : invite[a] # "none" => Callee(a) # move[t].nl
         /\ \A s \in Legs : s # t => move[s].nl # move[t].nl

PendingInv == \A l \in Legs : Pending(l) => end[l] = "early"

\* What the maps and the handlers know is settled.
MentionInv ==
    \A l \in Legs : \A m \in legs[l] \cup byeBr[l] \cup move[l].br \cup move[l].cb : Settled(m)

\* The variables of a transfer, by where it stands
MoveInv ==
    \A t \in Legs :
        /\ refer[t] \in {"none", "done"} => move[t] = NoLocals
        /\ refer[t] \notin {"none", "done"} => t \in move[t].br
        /\ refer[t] = "blind" => move[t].consult = 0 /\ move[t].nl = 0
        /\ refer[t] \in {"dial", "reinvite", "drop"} => move[t].consult = 0 /\ move[t].nl # 0
        /\ refer[t] = "attended" => move[t].consult # 0 /\ move[t].nl = 0
        /\ refer[t] \in {"keep", "target", "consult"} =>
             move[t].consult \in move[t].cb /\ move[t].nl = 0
        /\ refer[t] \in {"move", "link"} =>
             \/ move[t].consult = 0 /\ move[t].nl # 0
             \/ move[t].consult \in move[t].cb /\ move[t].nl = 0

\* An endpoint that has sent BYE is out of the dialog for good.
DownInv ==
    \A l \in Legs :
        /\ bye[l] # "none" => end[l] = "down"
        /\ byeBr[l] # None => l \in byeBr[l]
        /\ bye[l] = "unlinked" => byeBr[l] # None

\* A handler has the leg in its hands and will hang it up or link it.
Owned(l) ==
    \/ \E b \in Legs : bye[b] = "unlinked" /\ l \in byeBr[b] /\ l # b
    \/ \E a \in Legs : invite[a] = "drop" /\ l = Callee(a)
    \/ \E t \in Legs :
        \/ refer[t] \in {"reinvite", "drop", "move", "link"} /\ move[t].nl = l
        \/ refer[t] \in {"link", "consult"} /\ move[t].consult = l

OwnedInv ==
    \A l \in Legs \ lost :
        l \in acked /\ end[l] \in {"early", "up"} /\ ~Pending(l) => Found(l) \/ Owned(l)

LegInv == TypeOK /\ NumberInv /\ PendingInv /\ MentionInv /\ MoveInv /\ DownInv /\ OwnedInv
-----------------------------------------------------------------------------
TypesOK ==
    /\ made \in 0..MaxLegs
    /\ acked \subseteq Legs
    /\ end \in [Legs -> {"none", "early", "up", "down"}]
    /\ legs \in [Legs -> Bridges]
    /\ \A l \in Legs : legs[l] # None => l \in legs[l]
    /\ orphans \subseteq Legs
    /\ invite \in [Legs -> {"none", "dial", "answer", "drop", "done"}]
    /\ bye \in [Legs -> {"none", "sent", "found", "unlinked", "done"}]
    /\ byeBr \in [Legs -> Bridges]
    /\ refer \in [Legs -> {"none", "blind", "dial", "reinvite", "drop", "attended",
                           "keep", "target", "move", "link", "consult", "done"}]
    /\ move \in [Legs -> Locals]
    /\ lost \subseteq Legs

\* The type invariant without the history variable raced, which Next sets for
\* every step alike.
LEMMA TypeParts == TypeOK <=> TypesOK /\ raced \subseteq Legs
BY DEF TypeOK, TypesOK

StepInv == TypesOK /\ NumberInv /\ PendingInv /\ MentionInv /\ MoveInv /\ DownInv /\ OwnedInv

\* The same for the whole invariant.
LEMMA InvParts == LegInv <=> StepInv /\ raced \subseteq Legs
BY TypeParts DEF LegInv, StepInv

\* bridge.other
LEMMA OtherFacts ==
    ASSUME NEW b \in Bridges, NEW l \in b
    PROVE  /\ Other(b, l) \in b /\ Other(b, l) \in Legs
           /\ b = {l, Other(b, l)}
<1>1. PICK x \in Legs, y \in Legs : b = {x, y}
    BY DEF Bridges, None
<1>2. CASE b = {l}
    BY <1>1, <1>2 DEF Other
<1>3. CASE b # {l}
    <2>1. \E m \in b : m # l
        BY <1>1, <1>3
    <2>2. Other(b, l) \in b /\ Other(b, l) # l
        BY <1>3, <2>1 DEF Other
    <2> QED BY <1>1, <2>2
<1> QED BY <1>2, <1>3

\* What a bridge is, and that none is not one.
LEMMA BridgeFacts ==
    /\ None \in Bridges
    /\ \A x, y \in Legs : {x, y} \in Bridges /\ {x, y} # None
    /\ \A b \in Bridges : b \subseteq Legs
BY DEF Bridges, None

\* The variables of a goroutine that does not run.
LEMMA NoLocalsType ==
    /\ NoLocals \in Locals
    /\ NoLocals.br = None /\ NoLocals.cb = None /\ NoLocals.consult = 0 /\ NoLocals.nl = 0
BY BridgeFacts DEF NoLocals, Locals
-----------------------------------------------------------------------------
\* A new PBX: no legs, and nothing in the maps.
LEMMA LegInit == Init => LegInv
<1> SUFFICES ASSUME Init PROVE LegInv
    OBVIOUS
<1> USE BridgeConstants, BridgeFacts, NoLocalsType DEF Init
<1>1. TypesOK
    BY DEF TypesOK, Legs
<1>2. NumberInv /\ PendingInv /\ MoveInv
    BY DEF NumberInv, PendingInv, MoveInv, Pending
<1>3. MentionInv /\ DownInv /\ OwnedInv
    BY DEF MentionInv, DownInv, OwnedInv, None
<1> QED BY <1>1, <1>2, <1>3, InvParts DEF StepInv

\* Nothing is dialled by a step of BYE.
ByeFrame == UNCHANGED <<made, invite, refer, move>>

\* So the same legs are pending and settled.
LEMMA ByeFrameFacts ==
    ASSUME ByeFrame
    PROVE  /\ \A l : Pending(l)' <=> Pending(l)
           /\ \A l : Settled(l)' <=> Settled(l)
BY DEF ByeFrame, Pending, Settled

\* The leg is the caller's or has been answered: it is nobody's to dial.
LEMMA HangUpStep ==
    ASSUME StepInv, NEW l \in Legs, HangUp(l)
    PROVE  StepInv'
<1> USE ByeFrameFacts DEF StepInv, HangUp, pbx
<1>0. ByeFrame
    BY DEF ByeFrame
<1>1. TypesOK'
    BY DEF TypesOK, Lose
<1>2. NumberInv' /\ MoveInv'
    BY <1>0 DEF NumberInv, MoveInv, TypesOK
<1>3. PendingInv'
    BY <1>0 DEF PendingInv, TypesOK
<1>4. MentionInv'
    BY <1>0 DEF MentionInv
<1>5. DownInv'
    BY DEF DownInv, TypesOK
<1>6. OwnedInv'
    BY <1>0 DEF OwnedInv, Owned, Found, TypesOK, Lose, DownInv
<1> QED BY <1>1, <1>2, <1>3, <1>4, <1>5, <1>6

\* onBye finds the bridge, or the orphan.
LEMMA OnByeStep ==
    ASSUME StepInv, NEW l \in Legs, OnBye(l)
    PROVE  StepInv'
<1> USE ByeFrameFacts DEF StepInv, OnBye, pbx
<1>0. ByeFrame
    BY DEF ByeFrame
<1>1. TypesOK'
    BY DEF TypesOK
<1>2. NumberInv' /\ MoveInv'
    BY <1>0 DEF NumberInv, MoveInv, TypesOK
<1>3. PendingInv'
    BY <1>0 DEF PendingInv, TypesOK
<1>4. MentionInv'
    BY <1>0 DEF MentionInv, TypesOK
<1>5. DownInv'
    BY DEF DownInv, TypesOK
<1>6. OwnedInv'
    BY <1>0 DEF OwnedInv, Owned, Found, TypesOK
<1> QED BY <1>1, <1>2, <1>3, <1>4, <1>5, <1>6

\* onBye: both legs leave the map, and the other one is now the handler's.
LEMMA ByeUnlinksStep ==
    ASSUME StepInv, NEW l \in Legs, ByeUnlinks(l)
    PROVE  StepInv'
<1> USE ByeFrameFacts DEF StepInv, ByeUnlinks, Unlink
<1>0. ByeFrame
    BY DEF ByeFrame
<1>1. TypesOK'
    BY BridgeFacts DEF TypesOK
<1>2. NumberInv' /\ MoveInv'
    BY <1>0 DEF NumberInv, MoveInv, TypesOK
<1>3. PendingInv'
    BY <1>0 DEF PendingInv
<1>4. MentionInv'
    BY <1>0 DEF MentionInv, TypesOK, None
<1>5. DownInv'
    BY DEF DownInv, TypesOK
<1>6. OwnedInv'
    BY <1>0 DEF OwnedInv, Owned, Found, TypesOK, DownInv, None
<1> QED BY <1>1, <1>2, <1>3, <1>4, <1>5, <1>6

\* onBye hangs up the other leg, or its BYE is lost.
LEMMA ByeRelayedStep ==
    ASSUME StepInv, NEW l \in Legs, ByeRelayed(l)
    PROVE  StepInv'
<1> USE ByeFrameFacts DEF StepInv, ByeRelayed, Bye, pbx
<1> DEFINE o == Other(byeBr[l], l)
<1>0. ByeFrame
    BY DEF ByeFrame
<1>1. /\ l \in byeBr[l] /\ byeBr[l] = {l, o}
      /\ o \in Legs /\ Settled(o)
    BY OtherFacts DEF DownInv, TypesOK, MentionInv
<1> HIDE DEF o
<1>2. \/ end' = [end EXCEPT ![o] = "down"] /\ lost' = lost
      \/ end' = end /\ lost' = lost \cup {o}
      \/ end' = end /\ lost' = lost /\ o \notin acked
    BY DEF Lose, o
<1>3. TypesOK'
    BY <1>1, <1>2, BridgeFacts DEF TypesOK
<1>4. NumberInv' /\ MoveInv'
    BY <1>0, <1>1, <1>2 DEF NumberInv, MoveInv, TypesOK, Settled
<1>5. PendingInv'
    BY <1>0, <1>1, <1>2 DEF PendingInv, TypesOK, Settled
<1>6. MentionInv'
    BY <1>0 DEF MentionInv, TypesOK, None
<1>7. DownInv'
    BY <1>2 DEF DownInv, TypesOK
<1>8. OwnedInv'
    BY <1>0, <1>1, <1>2 DEF OwnedInv, Owned, Found, TypesOK, None
<1> QED BY <1>3, <1>4, <1>5, <1>6, <1>7, <1>8
-----------------------------------------------------------------------------
\* onInvite makes two legs with new numbers.
LEMMA OnInviteStep ==
    ASSUME StepInv, OnInvite
    PROVE  StepInv'
<1> USE BridgeConstants DEF StepInv, OnInvite, pbx
<1> DEFINE a == made + 1
<1>0. a \in Legs /\ a + 1 \in Legs /\ made' = a + 1 /\ made \in Nat
    BY DEF TypesOK, Legs
<1>1. TypesOK'
    BY <1>0 DEF TypesOK, Legs
<1>2. NumberInv'
    BY <1>0 DEF NumberInv, TypesOK, Callee, Legs, Locals
<1>3. \A l \in Legs : Pending(l)' => Pending(l) \/ l \in {a, a + 1}
    BY <1>0 DEF Pending, TypesOK, Callee
<1>4. \A l \in Legs : Settled(l) => Settled(l)'
    BY <1>0, <1>3 DEF Settled, TypesOK, Legs
<1>5. PendingInv'
    BY <1>0, <1>3 DEF PendingInv, TypesOK
<1>6. MentionInv'
    BY <1>4, BridgeFacts DEF MentionInv, TypesOK, Locals
<1>7. MoveInv'
    BY DEF MoveInv
<1>8. DownInv'
    BY <1>0 DEF DownInv, NumberInv, TypesOK
<1>9. OwnedInv'
    BY <1>0 DEF OwnedInv, Owned, Found, Pending, TypesOK, Callee, NumberInv
<1> QED BY <1>1, <1>2, <1>5, <1>6, <1>7, <1>8, <1>9

\* Nobody else dials the legs of an INVITE.
LEMMA InviteAlone ==
    ASSUME TypesOK, NumberInv, NEW a \in Legs, invite[a] # "none"
    PROVE  /\ Callee(a) \in Legs /\ Callee(a) # a
           /\ a \in 1..made /\ Callee(a) \in 1..made
           /\ \A b \in Legs \ {a} : invite[b] # "none" => {b, Callee(b)} \cap {a, Callee(a)} = {}
           /\ \A t \in Legs : move[t].nl \notin {a, Callee(a)}
<1> USE BridgeConstants
<1>1. Callee(a) \in Legs /\ Callee(a) # a /\ a \in 1..made /\ Callee(a) \in 1..made
    BY DEF TypesOK, NumberInv, Callee, Legs
<1>2. \A t \in Legs : move[t].nl \notin {a, Callee(a)}
    BY <1>1 DEF TypesOK, NumberInv, Callee, Legs, Locals
<1>3. ASSUME NEW b \in Legs \ {a}, invite[b] # "none"
      PROVE  {b, Callee(b)} \cap {a, Callee(a)} = {}
    BY <1>1, <1>3 DEF NumberInv, Callee, Legs
<1> QED BY <1>1, <1>2, <1>3

\* The handler of an INVITE moves on from a; a leg that was settled stays so.
LEMMA InviteMoves ==
    ASSUME TypesOK, NumberInv, NEW a \in Legs, NEW s \in {"answer", "drop", "done"},
           invite[a] # "none", invite' = [invite EXCEPT ![a] = s],
           UNCHANGED <<made, refer, move>>
    PROVE  /\ \A l \in Legs : Pending(l)' <=> Pending(l) /\ l \notin {a, Callee(a)}
           /\ \A l \in Legs : Settled(l) => Settled(l)'
           /\ Settled(a)' /\ Settled(Callee(a))'
<1>0. /\ \A b \in Legs \ {a} : invite[b] # "none" => {b, Callee(b)} \cap {a, Callee(a)} = {}
      /\ \A t \in Legs : move[t].nl \notin {a, Callee(a)}
      /\ \A b \in Legs : invite'[b] = "dial" <=> b # a /\ invite[b] = "dial"
    BY InviteAlone DEF TypesOK
<1>1. \A l \in Legs : Pending(l)' <=> Pending(l) /\ l \notin {a, Callee(a)}
    <2> SUFFICES ASSUME NEW l \in Legs
                 PROVE  Pending(l)' <=> Pending(l) /\ l \notin {a, Callee(a)}
        OBVIOUS
    <2>1. Pending(l)' => Pending(l) /\ l \notin {a, Callee(a)}
        BY <1>0 DEF Pending
    <2>2. Pending(l) /\ l \notin {a, Callee(a)} => Pending(l)'
        BY <1>0 DEF Pending
    <2> QED BY <2>1, <2>2
<1> QED BY <1>1, InviteAlone DEF Settled

\* An INVITE that has been answered is not being dialled.
LEMMA NotDialling ==
    ASSUME TypesOK, NumberInv, NEW a \in Legs, invite[a] \notin {"none", "dial"}
    PROVE  ~Pending(a) /\ ~Pending(Callee(a))
BY InviteAlone DEF Pending

\* A step of onInvite makes no leg.
LEMMA InviteNumbers ==
    ASSUME TypesOK, NumberInv, NEW a \in Legs, NEW s \in {"answer", "drop", "done"},
           invite[a] # "none", invite' = [invite EXCEPT ![a] = s],
           UNCHANGED <<made, refer, move, bye>>,
           \A l \in Legs : end'[l] # end[l] => l \in {a, Callee(a)}
    PROVE  NumberInv'
BY InviteAlone DEF NumberInv, TypesOK, Callee, Legs

\* The callee refuses: neither leg was known to anyone.
LEMMA DialFailsStep ==
    ASSUME StepInv, NEW a \in Legs, DialFails(a)
    PROVE  StepInv'
<1> USE DEF StepInv, DialFails, pbx
<1>0. /\ Callee(a) \in Legs /\ Callee(a) # a
      /\ \A l \in Legs : Pending(l)' <=> Pending(l) /\ l \notin {a, Callee(a)}
      /\ \A l \in Legs : Settled(l) => Settled(l)'
    BY InviteAlone, InviteMoves
<1>1. TypesOK'
    BY <1>0 DEF TypesOK
<1>2. NumberInv'
    BY <1>0, InviteNumbers DEF TypesOK
<1>3. PendingInv'
    BY <1>0 DEF PendingInv, TypesOK
<1>4. MentionInv'
    BY <1>0, BridgeFacts DEF MentionInv, TypesOK, Locals
<1>5. MoveInv' /\ DownInv'
    BY <1>0 DEF MoveInv, DownInv, TypesOK
<1>6. OwnedInv'
    BY <1>0 DEF OwnedInv, Owned, Found, TypesOK
<1> QED BY <1>1, <1>2, <1>3, <1>4, <1>5, <1>6

\* The callee answers: the two legs are linked.
LEMMA DialledStep ==
    ASSUME StepInv, NEW a \in Legs, Dialled(a)
    PROVE  StepInv'
<1> USE DEF StepInv, Dialled, Link
<1>0. /\ Callee(a) \in Legs /\ Callee(a) # a
      /\ \A l \in Legs : Pending(l)' <=> Pending(l) /\ l \notin {a, Callee(a)}
      /\ \A l \in Legs : Settled(l) => Settled(l)'
      /\ Settled(a)' /\ Settled(Callee(a))'
    BY InviteAlone, InviteMoves
<1>1. TypesOK'
    BY <1>0, BridgeFacts DEF TypesOK
<1>2. NumberInv'
    BY <1>0, InviteNumbers DEF TypesOK
<1>3. PendingInv'
    BY <1>0 DEF PendingInv, TypesOK
<1>4. MentionInv'
    BY <1>0, BridgeFacts DEF MentionInv, TypesOK, Locals
<1>5. end[Callee(a)] = "early"
    BY <1>0 DEF PendingInv, Pending
<1>6. MoveInv' /\ DownInv'
    BY <1>0, <1>5 DEF MoveInv, DownInv, TypesOK
<1>7. OwnedInv'
    <2>1. \A l \in Legs : (Owned(l) => Owned(l)') /\ (Found(l) => Found(l)')
        BY <1>0, BridgeFacts DEF Owned, Found, TypesOK
    <2>2. Found(a)' /\ Found(Callee(a))'
        BY <1>0, BridgeFacts DEF Found, TypesOK
    <2> QED BY <1>0, <2>1, <2>2 DEF OwnedInv, TypesOK
<1> QED BY <1>1, <1>2, <1>3, <1>4, <1>6, <1>7

\* The caller has the 200.
LEMMA CallerAnsweredStep ==
    ASSUME StepInv, NEW a \in Legs, CallerAnswered(a)
    PROVE  StepInv'
<1> USE DEF StepInv, CallerAnswered, pbx
<1>0. /\ \A l : Pending(l)' <=> Pending(l)
      /\ \A l : Settled(l)' <=> Settled(l)
    BY DEF Pending, Settled
<1>1. TypesOK'
    BY DEF TypesOK
<1>2. NumberInv'
    BY InviteAlone DEF NumberInv, TypesOK
<1>3. ~Pending(a)
    BY InviteAlone DEF Pending
<1>4. PendingInv'
    BY <1>0, <1>3 DEF PendingInv, TypesOK
<1>5. MentionInv' /\ MoveInv'
    BY <1>0 DEF MentionInv, MoveInv
<1>6. DownInv'
    BY DEF DownInv, TypesOK
<1>7. OwnedInv'
    BY <1>0, <1>3 DEF OwnedInv, Owned, Found, TypesOK
<1> QED BY <1>1, <1>2, <1>4, <1>5, <1>6, <1>7

\* The ACK ends the handler; the bridge is in the map.
LEMMA OnAckStep ==
    ASSUME StepInv, NEW a \in Legs, OnAck(a)
    PROVE  StepInv'
<1> USE DEF StepInv, OnAck, AwaitsAck, pbx
<1>0. /\ \A l \in Legs : Pending(l)' <=> Pending(l) /\ l \notin {a, Callee(a)}
      /\ \A l \in Legs : Settled(l) => Settled(l)'
      /\ ~Pending(a) /\ ~Pending(Callee(a))
    BY InviteAlone, InviteMoves, NotDialling
<1>1. TypesOK'
    BY DEF TypesOK
<1>2. NumberInv'
    BY InviteNumbers
<1>3. PendingInv'
    BY <1>0 DEF PendingInv
<1>4. MentionInv'
    BY <1>0, BridgeFacts DEF MentionInv, TypesOK, Locals
<1>5. MoveInv' /\ DownInv'
    BY DEF MoveInv, DownInv
<1>6. OwnedInv'
    BY <1>0 DEF OwnedInv, Owned, Found, TypesOK
<1> QED BY <1>1, <1>2, <1>3, <1>4, <1>5, <1>6

\* No ACK: the legs are unlinked, and the callee's is the handler's to drop.
LEMMA AnswerFailsStep ==
    ASSUME StepInv, NEW a \in Legs, AnswerFails(a)
    PROVE  StepInv'
<1> USE DEF StepInv, AnswerFails, Unlink
<1>0. /\ Callee(a) \in Legs /\ Callee(a) # a
      /\ \A l \in Legs : Pending(l)' <=> Pending(l) /\ l \notin {a, Callee(a)}
      /\ \A l \in Legs : Settled(l) => Settled(l)'
      /\ ~Pending(a) /\ ~Pending(Callee(a))
    BY InviteAlone, InviteMoves, NotDialling
<1>1. \/ end' = [end EXCEPT ![a] = "down"] /\ lost' = lost
      \/ end' = end /\ lost' = lost \cup {a}
      \/ end' = end /\ lost' = lost /\ ~Found(a)
    BY DEF Lose
<1>2. TypesOK'
    BY <1>0, <1>1, BridgeFacts DEF TypesOK
<1>3. NumberInv'
    BY <1>0, <1>1, InviteNumbers DEF TypesOK
<1>4. PendingInv'
    BY <1>0, <1>1 DEF PendingInv, TypesOK
<1>5. MentionInv'
    BY <1>0, BridgeFacts DEF MentionInv, TypesOK, Locals, None
<1>6. MoveInv' /\ DownInv'
    BY <1>1 DEF MoveInv, DownInv, TypesOK
<1>7. OwnedInv'
    BY <1>0, <1>1 DEF OwnedInv, Owned, Found, TypesOK, None
<1> QED BY <1>2, <1>3, <1>4, <1>5, <1>6, <1>7

\* The BYE to the callee, which may be lost.
LEMMA CalleeDroppedStep ==
    ASSUME StepInv, NEW a \in Legs, CalleeDropped(a)
    PROVE  StepInv'
<1> USE DEF StepInv, CalleeDropped, Bye, pbx
<1>0. /\ Callee(a) \in Legs /\ Callee(a) # a
      /\ \A l \in Legs : Pending(l)' <=> Pending(l) /\ l \notin {a, Callee(a)}
      /\ \A l \in Legs : Settled(l) => Settled(l)'
      /\ ~Pending(a) /\ ~Pending(Callee(a))
    BY InviteAlone, InviteMoves, NotDialling
<1>1. \/ end' = [end EXCEPT ![Callee(a)] = "down"] /\ lost' = lost
      \/ end' = end /\ lost' = lost \cup {Callee(a)}
      \/ end' = end /\ lost' = lost /\ Callee(a) \notin acked
    BY DEF Lose
<1>2. TypesOK'
    BY <1>0, <1>1 DEF TypesOK
<1>3. NumberInv'
    BY <1>0, <1>1, InviteNumbers DEF TypesOK
<1>4. PendingInv'
    BY <1>0, <1>1 DEF PendingInv, TypesOK
<1>5. MentionInv'
    BY <1>0, BridgeFacts DEF MentionInv, TypesOK, Locals
<1>6. MoveInv' /\ DownInv'
    BY <1>1 DEF MoveInv, DownInv, TypesOK
<1>7. OwnedInv'
    <2>1. \A l \in Legs \ {Callee(a)} : Owned(l) => Owned(l)'
        BY DEF Owned, TypesOK
    <2> QED BY <1>0, <1>1, <2>1 DEF OwnedInv, Found, TypesOK
<1> QED BY <1>2, <1>3, <1>4, <1>5, <1>6, <1>7
-----------------------------------------------------------------------------
\* A transfer that neither begins nor ends dialling.
LEMMA ReferMoves ==
    ASSUME TypesOK, NumberInv, NEW t \in Legs, refer[t] # "dial", refer'[t] # "dial",
           UNCHANGED <<made, invite, bye>>,
           \A s \in Legs \ {t} : refer'[s] = refer[s] /\ move'[s] = move[s],
           move'[t].nl \in {0, move[t].nl}, refer[t] # "none" \/ t <= made,
           \A l \in Legs : end'[l] # end[l] => l <= made
    PROVE  /\ \A l \in Legs : Pending(l)' <=> Pending(l)
           /\ \A l \in Legs : Settled(l)' <=> Settled(l)
           /\ NumberInv'
<1>1. \A l \in Legs : Pending(l)' <=> Pending(l)
    BY DEF Pending
<1>2. \A l \in Legs : Settled(l)' <=> Settled(l)
    BY <1>1 DEF Settled
<1>3. \A l \in Legs : l > made =>
         end'[l] = "none" /\ invite'[l] = "none" /\ bye'[l] = "none" /\ refer'[l] = "none"
    BY BridgeConstants DEF NumberInv, TypesOK, Legs
<1>4. NumberInv'
    BY <1>3 DEF NumberInv, TypesOK, Legs
<1> QED BY <1>1, <1>2, <1>4

\* Done and Goto, field by field
LEMMA DoneFacts ==
    ASSUME TypesOK, NEW t \in Legs, Done(t)
    PROVE  /\ refer'[t] = "done" /\ move'[t] = NoLocals
           /\ \A s \in Legs \ {t} : refer'[s] = refer[s] /\ move'[s] = move[s]
           /\ refer' \in [Legs -> {"none", "blind", "dial", "reinvite", "drop", "attended",
                                   "keep", "target", "move", "link", "consult", "done"}]
           /\ move' \in [Legs -> Locals]
BY NoLocalsType DEF TypesOK, Done, Goto

\* What the maps and the handlers mention is a leg.
LEMMA Mentioned ==
    ASSUME TypesOK, NEW l \in Legs
    PROVE  /\ legs[l] \subseteq Legs /\ byeBr[l] \subseteq Legs
           /\ move[l] \in Locals /\ move[l].br \in Bridges /\ move[l].cb \in Bridges
           /\ move[l].br \subseteq Legs /\ move[l].cb \subseteq Legs
           /\ move[l].consult \in Legs \cup {0} /\ move[l].nl \in Legs \cup {0}
BY BridgeFacts DEF TypesOK, Locals

\* onRefer remembers the bridge it found, and the leg the REFER names.
LEMMA OnReferStep ==
    ASSUME StepInv, NEW t \in Legs, OnRefer(t)
    PROVE  StepInv'
<1> USE DEF StepInv, OnRefer, At, Goto, pbx
<1>0. move[t] = NoLocals /\ t \in legs[t] /\ legs[t] \in Bridges /\ t \in 1..made
    BY DEF MoveInv, TypesOK, MentionInv, Settled
<1>1. /\ move' \in [Legs -> Locals]
      /\ move'[t].br = legs[t] /\ move'[t].cb = None /\ move'[t].nl = 0
      /\ \/ refer' = [refer EXCEPT ![t] = "blind"] /\ move'[t].consult = 0
         \/ refer' = [refer EXCEPT ![t] = "attended"] /\ move'[t].consult # 0
      /\ \A s \in Legs \ {t} : move'[s] = move[s]
    <2> USE <1>0, NoLocalsType DEF TypesOK
    <2>1. CASE refer' = [refer EXCEPT ![t] = "blind"] /\ move' = [move EXCEPT ![t].br = legs[t]]
        BY <2>1 DEF Locals
    <2>2. ASSUME NEW c \in Callers, refer' = [refer EXCEPT ![t] = "attended"],
                 move' = [move EXCEPT ![t].br = legs[t], ![t].consult = c]
          PROVE  /\ move' \in [Legs -> Locals]
                 /\ move'[t].br = legs[t] /\ move'[t].cb = None /\ move'[t].nl = 0
                 /\ move'[t].consult # 0
                 /\ \A s \in Legs \ {t} : move'[s] = move[s]
        <3>1. c \in Legs /\ c # 0
            BY DEF Callers, Legs
        <3> QED BY <2>2, <3>1 DEF Locals
    <2> QED BY <2>1, <2>2
<1>2. /\ refer'[t] \in {"blind", "attended"}
      /\ refer'[t] = "blind" => move'[t].consult = 0
      /\ refer'[t] = "attended" => move'[t].consult # 0
      /\ \A s \in Legs \ {t} : refer'[s] = refer[s] /\ move'[s] = move[s]
    BY <1>1 DEF TypesOK
<1>3. refer' \in [Legs -> {"none", "blind", "dial", "reinvite", "drop", "attended",
                           "keep", "target", "move", "link", "consult", "done"}]
    BY <1>1 DEF TypesOK
<1>4. TypesOK'
    BY <1>1, <1>3 DEF TypesOK
<1>5. /\ \A l \in Legs : Pending(l)' <=> Pending(l)
      /\ \A l \in Legs : Settled(l)' <=> Settled(l)
      /\ NumberInv'
    BY <1>0, <1>1, <1>2, ReferMoves
<1>6. PendingInv' /\ DownInv'
    BY <1>5 DEF PendingInv, DownInv
<1>7. MentionInv'
    BY <1>1, <1>2, <1>5, Mentioned DEF MentionInv, None
<1>8. MoveInv'
    BY <1>0, <1>1, <1>2 DEF MoveInv
<1>9. OwnedInv'
    <2>1. \A l \in Legs : Owned(l) => Owned(l)'
        BY <1>2 DEF Owned
    <2> QED BY <1>5, <2>1 DEF OwnedInv, Found
<1> QED BY <1>4, <1>5, <1>6, <1>7, <1>8, <1>9

\* blind dials a new leg, which nobody else knows, or gives up.
LEMMA BlindDialsStep ==
    ASSUME StepInv, NEW t \in Legs, BlindDials(t)
    PROVE  StepInv'
<1> USE BridgeConstants DEF StepInv, BlindDials, At, pbx
<1>1. CASE Done(t) /\ UNCHANGED <<made, end>>
    <2> USE <1>1, DoneFacts
    <2>1. TypesOK'
        BY DEF TypesOK
    <2>2. /\ \A l \in Legs : Pending(l)' <=> Pending(l)
          /\ \A l \in Legs : Settled(l)' <=> Settled(l)
          /\ NumberInv'
        BY ReferMoves, NoLocalsType
    <2>3. PendingInv' /\ DownInv'
        BY <2>2 DEF PendingInv, DownInv
    <2>4. MentionInv'
        BY <2>2, Mentioned, NoLocalsType DEF MentionInv, None
    <2>5. MoveInv'
        BY DEF MoveInv
    <2>6. OwnedInv'
        <3>1. \A l \in Legs : Owned(l) => Owned(l)'
            BY DEF Owned
        <3> QED BY <2>2, <3>1 DEF OwnedInv, Found
    <2> QED BY <2>1, <2>2, <2>3, <2>4, <2>5, <2>6
<1>2. CASE /\ made < MaxLegs /\ made' = made + 1
           /\ end' = [end EXCEPT ![made'] = "early"]
           /\ move' = [move EXCEPT ![t].nl = made']
           /\ Goto(t, "dial")
    <2> USE <1>2 DEF Goto
    <2> DEFINE n == made + 1
    <2>0. n \in Legs /\ made' = n /\ made \in Nat /\ n > made /\ n # 0
        BY DEF TypesOK, Legs
    <2> HIDE DEF n
    <2>1. /\ move' \in [Legs -> Locals]
          /\ move'[t].nl = n /\ move'[t].consult = 0 /\ move'[t].cb = move[t].cb
          /\ move'[t].br = move[t].br /\ t \in move[t].br
          /\ refer'[t] = "dial" /\ refer[t] = "blind"
          /\ \A s \in Legs \ {t} : refer'[s] = refer[s] /\ move'[s] = move[s]
        BY <2>0 DEF TypesOK, Locals, MoveInv
    <2>2. TypesOK'
        BY <2>0, <2>1 DEF TypesOK
    <2>3. \A l \in Legs : Pending(l)' <=> Pending(l) \/ l = n
        BY <2>1 DEF Pending
    <2>4. \A l \in Legs : Settled(l) => Settled(l)'
        BY <2>0, <2>3 DEF Settled, Legs
    <2>5. NumberInv'
        <3>1. \A s \in Legs : move[s].nl # n
            BY <2>0 DEF NumberInv
        <3>2. invite[n] = "none" /\ \A a \in Legs : invite[a] # "none" => Callee(a) # n
            BY <2>0 DEF NumberInv, Legs, Callee
        <3>3. t <= made
            BY <2>1 DEF MentionInv, Settled
        <3> QED BY <2>0, <2>1, <3>1, <3>2, <3>3 DEF NumberInv, TypesOK, Legs, Callee, Locals
    <2>6. PendingInv'
        BY <2>0, <2>3 DEF PendingInv, TypesOK
    <2>7. DownInv'
        BY <2>0 DEF DownInv, TypesOK, NumberInv
    <2>8. MentionInv'
        BY <2>1, <2>4, Mentioned DEF MentionInv
    <2>9. MoveInv'
        BY <2>0, <2>1 DEF MoveInv
    <2>10. OwnedInv'
        <3>1. \A l \in Legs : Owned(l) => Owned(l)'
            BY <2>1 DEF Owned
        <3> QED BY <2>0, <2>3, <3>1 DEF OwnedInv, Found, TypesOK
    <2> QED BY <2>2, <2>5, <2>6, <2>7, <2>8, <2>9, <2>10
<1> QED BY <1>1, <1>2

\* A transfer gives up, or ends, having dealt with the leg it still owned.
LEMMA DoneStep ==
    ASSUME StepInv, NEW t \in Legs, refer[t] \notin {"none", "dial"}, Done(t),
           UNCHANGED <<made, acked, pbx, invite, bye, byeBr>>,
           NEW x \in Legs, Settled(x),
           \/ end' = end /\ lost' = lost
           \/ end' = [end EXCEPT ![x] = "down"] /\ lost' = lost
           \/ end' = end /\ lost' = lost \cup {x},
           \A l \in Legs \ lost : Owned(l) =>
               \/ Found(l) \/ Owned(l)'
               \/ l = x /\ (end'[x] = "down" \/ x \in lost' \/ x \notin acked)
    PROVE  StepInv'
<1> USE DoneFacts DEF StepInv, pbx
<1>1. TypesOK'
    BY DEF TypesOK
<1>2. \A l \in Legs : end'[l] # end[l] => l <= made
    BY DEF TypesOK, Settled
<1>3. /\ \A l \in Legs : Pending(l)' <=> Pending(l)
      /\ \A l \in Legs : Settled(l)' <=> Settled(l)
      /\ NumberInv'
    BY <1>2, ReferMoves, NoLocalsType
<1>4. PendingInv'
    BY <1>3 DEF PendingInv, TypesOK, Settled
<1>5. DownInv'
    BY DEF DownInv, TypesOK
<1>6. MentionInv'
    BY <1>3, Mentioned, NoLocalsType DEF MentionInv, None
<1>7. MoveInv'
    BY DEF MoveInv
<1>8. OwnedInv'
    BY <1>3 DEF OwnedInv, Found, TypesOK
<1> QED BY <1>1, <1>3, <1>4, <1>5, <1>6, <1>7, <1>8

\* A transfer goes on and touches nothing but its own variables.
LEMMA GotoStep ==
    ASSUME StepInv, NEW t \in Legs, refer[t] \notin {"none", "dial", "done"},
           NEW s \in {"reinvite", "drop", "keep", "target", "move", "link", "consult"}, Goto(t, s),
           UNCHANGED <<made, acked, end, pbx, invite, bye, byeBr, lost>>,
           move' \in [Legs -> Locals],
           \A r \in Legs \ {t} : move'[r] = move[r],
           move'[t].br = move[t].br, move'[t].nl = move[t].nl,
           move'[t].consult = move[t].consult,
           \A m \in move'[t].cb : Settled(m),
           MoveInv',
           \A l \in Legs \ lost : Owned(l) => Owned(l)'
    PROVE  StepInv'
<1> USE DEF StepInv, pbx
<1>0. refer'[t] = s /\ \A r \in Legs \ {t} : refer'[r] = refer[r]
    BY DEF Goto, TypesOK
<1>1. TypesOK'
    BY DEF TypesOK, Goto
<1>2. /\ \A l \in Legs : Pending(l)' <=> Pending(l)
      /\ \A l \in Legs : Settled(l)' <=> Settled(l)
      /\ NumberInv'
    BY <1>0, ReferMoves
<1>3. PendingInv' /\ DownInv'
    BY <1>2 DEF PendingInv, DownInv
<1>4. MentionInv'
    <2>1. \A m \in move'[t].cb : m \in Legs
        BY BridgeFacts DEF Locals
    <2> QED BY <1>2, <2>1, Mentioned DEF MentionInv
<1>5. OwnedInv'
    BY <1>2 DEF OwnedInv, Found
<1> QED BY <1>1, <1>2, <1>3, <1>4, <1>5

\* The legs a transfer works on
LEMMA MoveFacts ==
    ASSUME StepInv, NEW t \in Legs, refer[t] \notin {"none", "done"}
    PROVE  /\ t \in 1..made /\ Settled(t)
           /\ move[t].br = {t, Keep(t)} /\ Keep(t) \in Legs /\ Settled(Keep(t))
           /\ move[t].consult \in move[t].cb =>
                /\ move[t].consult \in Legs /\ Settled(move[t].consult)
                /\ Target(t) \in Legs /\ Settled(Target(t))
<1> USE DEF StepInv
<1>1. t \in move[t].br
    BY DEF MoveInv
<1>2. move[t].br = {t, Keep(t)} /\ Keep(t) \in Legs
    BY <1>1, OtherFacts, Mentioned DEF Keep
<1>3. ASSUME move[t].consult \in move[t].cb
      PROVE  Target(t) \in move[t].cb /\ Target(t) \in Legs /\ move[t].consult \in Legs
    BY <1>3, OtherFacts, Mentioned DEF Target
<1>4. Settled(t) /\ Settled(Keep(t))
    BY <1>2 DEF MentionInv
<1> QED BY <1>2, <1>3, <1>4 DEF MentionInv, Settled

\* The re-INVITE of the leg that is kept.
LEMMA BlindReinvitesStep ==
    ASSUME StepInv, NEW t \in Legs, BlindReinvites(t)
    PROVE  StepInv'
<1> USE DEF BlindReinvites, At
<1>1. PICK s \in {"move", "drop"} : Goto(t, s)
    OBVIOUS
<1>2. refer'[t] = s /\ \A r \in Legs \ {t} : refer'[r] = refer[r]
    BY <1>1 DEF StepInv, TypesOK, Goto
<1>3. MoveInv'
    BY <1>2 DEF StepInv, MoveInv
<1>4. \A l \in Legs : Owned(l) => Owned(l)'
    BY <1>2 DEF Owned
<1>5. \A m \in move[t].cb : Settled(m)
    BY DEF StepInv, MentionInv
<1> QED BY <1>1, <1>3, <1>4, <1>5, GotoStep DEF StepInv, TypesOK

\* A refused re-INVITE: the new leg is hung up.
LEMMA BlindDropsStep ==
    ASSUME StepInv, NEW t \in Legs, BlindDrops(t)
    PROVE  StepInv'
<1> USE DEF BlindDrops, At
<1> DEFINE x == move[t].nl
<1>1. x \in Legs /\ x # 0 /\ move[t].consult = 0
    BY Mentioned DEF StepInv, MoveInv
<1>2. Settled(x)
    <2>1. ~Pending(x)
        BY <1>1, InviteAlone DEF StepInv, NumberInv, Pending
    <2> QED BY <1>1, <2>1 DEF Settled, StepInv, NumberInv, Legs, TypesOK
<1>3. \/ end' = [end EXCEPT ![x] = "down"] /\ lost' = lost
      \/ end' = end /\ lost' = lost \cup {x}
      \/ end' = end /\ lost' = lost /\ x \notin acked
    BY DEF Bye, Lose
<1>4. end'[x] = "down" \/ x \in lost' \/ x \notin acked
    BY <1>1, <1>3 DEF StepInv, TypesOK
<1>5. \A l \in Legs \ {x} : Owned(l) => Owned(l)'
    BY <1>1, DoneFacts DEF Owned, StepInv, Legs
<1> HIDE DEF x
<1> QED BY <1>1, <1>2, <1>3, <1>4, <1>5, DoneStep

\* attended hangs up the consultation's leg.
LEMMA ConsultDroppedStep ==
    ASSUME StepInv, NEW t \in Legs, ConsultDropped(t)
    PROVE  StepInv'
<1> USE DEF ConsultDropped, At
<1> DEFINE x == move[t].consult
<1>1. x \in Legs /\ Settled(x) /\ move[t].nl = 0
    BY MoveFacts DEF StepInv, MoveInv
<1>3. \/ end' = [end EXCEPT ![x] = "down"] /\ lost' = lost
      \/ end' = end /\ lost' = lost \cup {x}
      \/ end' = end /\ lost' = lost /\ x \notin acked
    BY DEF Bye, Lose
<1>4. end'[x] = "down" \/ x \in lost' \/ x \notin acked
    BY <1>1, <1>3 DEF StepInv, TypesOK
<1>5. \A l \in Legs \ {x} : Owned(l) => Owned(l)'
    BY <1>1, DoneFacts DEF Owned, StepInv, Legs
<1> HIDE DEF x
<1> QED BY <1>1, <1>3, <1>4, <1>5, DoneStep

\* attended finds the consultation's bridge, or gives up.
LEMMA AttendedFindsStep ==
    ASSUME StepInv, NEW t \in Legs, AttendedFinds(t)
    PROVE  StepInv'
<1> USE DEF AttendedFinds, At
<1> DEFINE c == move[t].consult
<1>0. c \in Legs /\ legs[c] \in Bridges /\ move[t].nl = 0
    BY Mentioned DEF StepInv, MoveInv, TypesOK
<1>1. CASE Done(t)
    <2>1. \A l \in Legs : Owned(l) => Owned(l)'
        BY <1>0, <1>1, DoneFacts DEF Owned, StepInv, Legs
    <2> QED BY <1>1, <2>1, MoveFacts, DoneStep
<1>2. CASE Goto(t, "keep") /\ move' = [move EXCEPT ![t].cb = legs[c]] /\ legs[c] # None
    <2>1. c \in legs[c] /\ \A m \in legs[c] : Settled(m)
        BY <1>0, <1>2 DEF StepInv, TypesOK, MentionInv
    <2>2. /\ move' \in [Legs -> Locals]
          /\ \A r \in Legs \ {t} : move'[r] = move[r]
          /\ move'[t].br = move[t].br /\ move'[t].nl = move[t].nl
          /\ move'[t].consult = c /\ move'[t].cb = legs[c]
        BY <1>0, <1>2 DEF StepInv, TypesOK, Locals
    <2>3. refer'[t] = "keep" /\ \A r \in Legs \ {t} : refer'[r] = refer[r]
        BY <1>2 DEF StepInv, TypesOK, Goto
    <2>4. MoveInv'
        BY <1>0, <2>1, <2>2, <2>3 DEF StepInv, MoveInv
    <2>5. \A l \in Legs : Owned(l) => Owned(l)'
        BY <2>2, <2>3 DEF Owned
    <2> QED BY <1>2, <2>1, <2>2, <2>4, <2>5, GotoStep
<1> QED BY <1>1, <1>2

\* The two re-INVITEs of attended.
LEMMA AttendedReinvitesStep ==
    ASSUME StepInv, NEW t \in Legs, AttendedReinvites(t)
    PROVE  StepInv'
<1> USE DEF AttendedReinvites, At
<1>0. refer[t] \in {"keep", "target"}
    OBVIOUS
<1>1. CASE Done(t)
    <2>1. \A l \in Legs : Owned(l) => Owned(l)'
        BY <1>0, <1>1, DoneFacts DEF Owned, StepInv, Legs
    <2> QED BY <1>0, <1>1, <2>1, MoveFacts, DoneStep
<1>2. CASE \E s \in {"target", "move"} : Goto(t, s) /\ UNCHANGED move
    <2>0. PICK s \in {"target", "move"} : Goto(t, s) /\ UNCHANGED move
        BY <1>2
    <2>1. refer'[t] = s /\ \A r \in Legs \ {t} : refer'[r] = refer[r]
        BY <2>0 DEF StepInv, TypesOK, Goto
    <2>2. MoveInv'
        BY <1>0, <2>0, <2>1 DEF StepInv, MoveInv
    <2>3. \A l \in Legs : Owned(l) => Owned(l)'
        BY <1>0, <2>0, <2>1 DEF Owned
    <2>4. \A m \in move[t].cb : Settled(m)
        BY DEF StepInv, MentionInv
    <2> QED BY <1>0, <2>0, <2>2, <2>3, <2>4, GotoStep DEF StepInv, TypesOK
<1> QED BY <1>1, <1>2

\* The new leg is answered, or refused.
LEMMA BlindDialledStep ==
    ASSUME StepInv, NEW t \in Legs, BlindDialled(t)
    PROVE  StepInv'
<1> USE BridgeConstants DEF StepInv, BlindDialled, At, pbx
<1> DEFINE n == move[t].nl
<1>0. /\ n \in Legs /\ n # 0 /\ move[t].consult = 0 /\ n \in 1..made /\ t \in 1..made
      /\ end[n] = "early" /\ Pending(n) /\ t \in move[t].br
    BY Mentioned, MoveFacts DEF MoveInv, NumberInv, Legs, TypesOK, PendingInv, Pending
<1>1. /\ \A l \in Legs \ {n} : end'[l] = end[l]
      /\ end' \in [Legs -> {"none", "early", "up", "down"}]
      /\ \/ refer'[t] = "reinvite" /\ move'[t] = move[t] /\ end'[n] = "up"
         \/ refer'[t] = "done" /\ move'[t] = NoLocals /\ end'[n] = "down"
      /\ \A s \in Legs \ {t} : refer'[s] = refer[s] /\ move'[s] = move[s]
      /\ move' \in [Legs -> Locals]
      /\ refer' \in [Legs -> {"none", "blind", "dial", "reinvite", "drop", "attended",
                              "keep", "target", "move", "link", "consult", "done"}]
    BY <1>0, DoneFacts DEF TypesOK, Goto
<1>2. TypesOK'
    BY <1>0, <1>1 DEF TypesOK
<1>3. /\ \A s \in Legs \ {t} : move[s].nl # n
      /\ \A a \in Legs : invite[a] = "dial" => n \notin {a, Callee(a)}
    BY <1>0, InviteAlone DEF NumberInv
<1> HIDE DEF n
<1>4. \A l \in Legs : Pending(l)' <=> Pending(l) /\ l # n
    <2> SUFFICES ASSUME NEW l \in Legs
                 PROVE  Pending(l)' <=> Pending(l) /\ l # n
        OBVIOUS
    <2>1. Pending(l)' => Pending(l) /\ l # n
        BY <1>1, <1>3 DEF Pending
    <2>2. Pending(l) /\ l # n => Pending(l)'
        BY <1>1 DEF Pending, n
    <2> QED BY <2>1, <2>2
<1>5. \A l \in Legs : Settled(l) => Settled(l)'
    BY <1>4 DEF Settled
<1>6. NumberInv'
    <2>1. move'[t].nl \in {0, n}
        BY <1>1, NoLocalsType DEF n
    <2>2. \A l \in Legs : l > made =>
             end'[l] = "none" /\ invite'[l] = "none" /\ bye'[l] = "none" /\ refer'[l] = "none"
        BY <1>0, <1>1 DEF NumberInv, TypesOK, Legs
    <2> QED BY <1>0, <1>1, <2>1, <2>2 DEF NumberInv, TypesOK, Legs, n
<1>7. PendingInv'
    BY <1>1, <1>4 DEF PendingInv
<1>8. DownInv'
    BY <1>0, <1>1 DEF DownInv, TypesOK
<1>9. MentionInv'
    BY <1>1, <1>5, Mentioned, NoLocalsType DEF MentionInv, None
<1>10. MoveInv'
    BY <1>0, <1>1 DEF MoveInv, n
<1>11. OwnedInv'
    <2>1. \A l \in Legs : Owned(l) => Owned(l)'
        BY <1>1 DEF Owned
    <2>2. \A l \in Legs : l = n /\ end'[l] \in {"early", "up"} => Owned(l)'
        BY <1>1 DEF Owned, n
    <2>3. \A l \in Legs : Found(l)' <=> Found(l)
        BY DEF Found
    <2>4. \A l \in Legs \ lost : l # n /\ l \in acked' /\ end'[l] \in {"early", "up"} /\ ~Pending(l)' =>
             Found(l) \/ Owned(l)
        <3>1. acked' \subseteq acked \cup {n}
            BY DEF n
        <3> QED BY <1>1, <1>4, <3>1 DEF OwnedInv
    <2> QED BY <2>1, <2>2, <2>3, <2>4 DEF OwnedInv
<1> QED BY <1>2, <1>6, <1>7, <1>8, <1>9, <1>10, <1>11

\* What leaves the map is an orphan, or the transfer's to drop.
LEMMA MovesStep ==
    ASSUME StepInv, NEW t \in Legs, Moves(t)
    PROVE  StepInv'
<1> USE DEF StepInv, Moves, At
<1> DEFINE c == move[t].consult
<1>0. refer'[t] = "link" /\ \A r \in Legs \ {t} : refer'[r] = refer[r]
    BY DEF TypesOK, Goto
<1>1. TypesOK'
    BY BridgeFacts DEF TypesOK, Goto
<1>2. /\ \A l \in Legs : Pending(l)' <=> Pending(l)
      /\ \A l \in Legs : Settled(l)' <=> Settled(l)
      /\ NumberInv'
    BY <1>0, ReferMoves
<1>3. PendingInv' /\ DownInv'
    BY <1>2 DEF PendingInv, DownInv
<1>4. MentionInv'
    BY <1>2, Mentioned DEF MentionInv, None
<1>5. MoveInv'
    BY <1>0 DEF MoveInv
<1>6. OwnedInv'
    <2>1. \A l \in Legs : Owned(l) => Owned(l)'
        BY <1>0 DEF Owned
    <2>2. \A l \in Legs \ {c} : Found(l) => Found(l)'
        BY DEF Found, TypesOK
    <2>3. c \in Legs => Owned(c)'
        BY <1>0 DEF Owned
    <2> QED BY <1>2, <2>1, <2>2, <2>3 DEF OwnedInv
<1> QED BY <1>1, <1>2, <1>3, <1>4, <1>5, <1>6

\* The new bridge is in the map, and the transferor's leg is an orphan.
LEMMA LinksStep ==
    ASSUME StepInv, NEW t \in Legs, Links(t)
    PROVE  StepInv'
<1> USE DEF StepInv, Links, At
<1>0. PICK y \in Legs : /\ Link({Keep(t), y}) /\ Settled(y)
                        /\ \/ move[t].consult = 0 /\ y = move[t].nl /\ Done(t)
                           \/ /\ move[t].consult # 0 /\ move[t].nl = 0
                              /\ move[t].consult \in move[t].cb
                              /\ Goto(t, "consult") /\ UNCHANGED move
    <2>1. CASE move[t].consult = 0 /\ Link({Keep(t), move[t].nl}) /\ Done(t)
        <3>1. move[t].nl \in Legs /\ move[t].nl # 0
            BY <2>1, Mentioned DEF MoveInv, TypesOK, Legs
        <3>2. ~Pending(move[t].nl)
            BY <3>1, InviteAlone DEF NumberInv, Pending
        <3>3. Settled(move[t].nl)
            BY <3>1, <3>2 DEF Settled, NumberInv, Legs, TypesOK
        <3> QED BY <2>1, <3>1, <3>3
    <2>2. CASE move[t].consult # 0 /\ Link({Keep(t), Target(t)}) /\ Goto(t, "consult") /\ UNCHANGED move
        BY <2>2, MoveFacts DEF MoveInv
    <2> QED BY <2>1, <2>2
<1>1. /\ \A r \in Legs \ {t} : refer'[r] = refer[r] /\ move'[r] = move[r]
      /\ move' \in [Legs -> Locals]
      /\ refer' \in [Legs -> {"none", "blind", "dial", "reinvite", "drop", "attended",
                              "keep", "target", "move", "link", "consult", "done"}]
      /\ \/ refer'[t] = "done" /\ move'[t] = NoLocals /\ move[t].consult = 0 /\ y = move[t].nl
         \/ /\ refer'[t] = "consult" /\ move'[t] = move[t] /\ move[t].nl = 0
            /\ move[t].consult \in move[t].cb
    <2>1. CASE move[t].consult = 0 /\ y = move[t].nl /\ Done(t)
        BY <2>1, DoneFacts
    <2>2. CASE /\ move[t].consult # 0 /\ move[t].nl = 0 /\ move[t].consult \in move[t].cb
               /\ Goto(t, "consult") /\ UNCHANGED move
        BY <2>2 DEF TypesOK, Goto
    <2> QED BY <1>0, <2>1, <2>2
<1>2. Keep(t) \in Legs /\ Settled(Keep(t)) /\ {Keep(t), y} \in Bridges /\ t \in 1..made
    BY MoveFacts, BridgeFacts
<1>3. /\ \A l \in Legs \ {Keep(t), y} : legs'[l] = legs[l]
      /\ \A l \in {Keep(t), y} : legs'[l] = {Keep(t), y}
      /\ legs' \in [Legs -> Bridges]
    BY <1>0, <1>2 DEF Link, TypesOK
<1>4. TypesOK'
    BY <1>1, <1>3 DEF TypesOK
<1>5. /\ \A l \in Legs : Pending(l)' <=> Pending(l)
      /\ \A l \in Legs : Settled(l)' <=> Settled(l)
      /\ NumberInv'
    BY <1>1, <1>2, ReferMoves, NoLocalsType
<1>6. PendingInv' /\ DownInv'
    BY <1>5 DEF PendingInv, DownInv
<1>7. MentionInv'
    <2>1. \A l \in Legs : \A m \in legs'[l] : Settled(m)
        BY <1>0, <1>2, <1>3 DEF MentionInv
    <2> QED BY <1>1, <1>4, <1>5, <2>1, Mentioned, NoLocalsType, BridgeFacts DEF MentionInv, None, TypesOK
<1>8. MoveInv'
    <2>1. t \in move[t].br
        BY MoveFacts
    <2> QED BY <1>1, <2>1 DEF MoveInv
<1>9. OwnedInv'
    <2>1. \A l \in Legs \ {y} : Owned(l) => Owned(l)'
        BY <1>1 DEF Owned, Legs
    <2>2. Found(y)' /\ \A l \in Legs : Found(l) => Found(l)'
        BY <1>2, <1>3, BridgeFacts DEF Found
    <2> QED BY <1>5, <2>1, <2>2 DEF OwnedInv
<1> QED BY <1>4, <1>5, <1>6, <1>7, <1>8, <1>9
-----------------------------------------------------------------------------
\* Handlers have legs of the PBX.
LEMMA OverlapLegs ==
    ASSUME StepInv, NEW h \in Running
    PROVE  LegsOf(h[1], h[2]) \subseteq Legs
<1>1. CASE h \in {"invite"} \X Inviting
    BY <1>1, InviteAlone DEF LegsOf, Inviting, StepInv
<1>2. CASE h \in {"bye"} \X Hanging
    BY <1>2, Mentioned DEF LegsOf, Hanging, StepInv
<1>3. CASE h \in {"refer"} \X Referring
    BY <1>3, Mentioned DEF LegsOf, Referring, StepInv
<1> QED BY <1>1, <1>2, <1>3 DEF Running

\* So what overlaps are legs.
LEMMA OverlapType ==
    ASSUME StepInv
    PROVE  Overlap \subseteq Legs
BY OverlapLegs DEF Overlap

\* One step, whichever handler or endpoint takes it.
LEMMA LegStep ==
    ASSUME StepInv, Step
    PROVE  StepInv'
<1>1. ASSUME NEW a \in Legs, \/ DialFails(a) \/ Dialled(a) \/ CallerAnswered(a)
                             \/ OnAck(a) \/ AnswerFails(a) \/ CalleeDropped(a)
      PROVE  StepInv'
    BY <1>1, DialFailsStep, DialledStep, CallerAnsweredStep, OnAckStep, AnswerFailsStep,
       CalleeDroppedStep
<1>2. ASSUME NEW l \in Legs, HangUp(l) \/ OnBye(l) \/ ByeUnlinks(l) \/ ByeRelayed(l)
      PROVE  StepInv'
    BY <1>2, HangUpStep, OnByeStep, ByeUnlinksStep, ByeRelayedStep
<1>3. ASSUME NEW t \in Legs,
             \/ OnRefer(t) \/ BlindDials(t) \/ BlindDialled(t) \/ BlindReinvites(t)
             \/ BlindDrops(t) \/ AttendedFinds(t) \/ AttendedReinvites(t)
             \/ Moves(t) \/ Links(t) \/ ConsultDropped(t)
      PROVE  StepInv'
    BY <1>3, OnReferStep, BlindDialsStep, BlindDialledStep, BlindReinvitesStep, BlindDropsStep,
       AttendedFindsStep, AttendedReinvitesStep, MovesStep, LinksStep, ConsultDroppedStep
<1> QED BY <1>1, <1>2, <1>3, OnInviteStep DEF Step

\* The same with the history variable.
LEMMA LegNext == LegInv /\ [Next]_vars => LegInv'
<1> SUFFICES ASSUME LegInv, [Next]_vars PROVE LegInv'
    OBVIOUS
<1>1. CASE Next
    BY <1>1, LegStep, OverlapType, InvParts DEF Next, LegInv, StepInv, TypeOK, TypesOK
<1>2. CASE UNCHANGED vars
    BY <1>2 DEF vars, pbx, LegInv, TypeOK, NumberInv, PendingInv, Pending, MentionInv, Settled,
                MoveInv, DownInv, OwnedInv, Owned, Found
<1> QED BY <1>1, <1>2

\* The invariant holds throughout.
LEMMA LegInvariance == Spec => []LegInv
BY LegInit, LegNext, PTL DEF Spec

\* Type correctness of the test PBX for any number of legs: every entry of
\* PBX.legs is a bridge that has the leg, whichever handlers overlap.
THEOREM BridgeTypeCorrect == Spec => []TypeOK
<1>1. LegInv => TypeOK
    BY DEF LegInv
<1> QED BY <1>1, LegInvariance, PTL

\* At rest nothing is dialled and no handler has a leg in its hands: what the
\* PBX holds confirmed is found.
LEMMA NothingOwned ==
    ASSUME LegInv, AtRest
    PROVE  \A l \in acked \ lost : end[l] = "up" => Found(l)
<1>1. \A l \in Legs : ~Pending(l) /\ ~Owned(l)
    BY DEF AtRest, Inviting, Hanging, Referring, Pending, Owned
<1> QED BY <1>1 DEF LegInv, OwnedInv, TypeOK

-----------------------------------------------------------------------------
(* BridgeWhole: what holds of the legs that no two handlers met on. *)

\* The legs of a handler, by its kind
InviteLegs(a) == {a, Callee(a)}
ByeLegs(x) == {x} \cup byeBr[x]
ReferLegs(t) == ({l \in {t, move[t].consult, move[t].nl} : l # 0} \cup move[t].br \cup move[t].cb)

Clean == Legs \ (raced \cup lost \cup Overlap)

\* The leg is in no bridge of the map.
Apart(l) == legs[l] = None /\ \A z \in Legs : l \notin legs[z]
Out(l) == Apart(l) /\ l \notin orphans

\* Both legs of the bridge, and no others, are mapped to it.
Whole(b) ==
    /\ \E x, y \in Legs : x # y /\ b = {x, y}
    /\ \A x \in b : legs[x] = b /\ x \notin orphans
    /\ \A z \in Legs : legs[z] \cap b # {} => z \in b

\* A transfer has taken the leg's bridge apart and not yet linked the new one.
Linking(l) == \E t \in Legs : refer[t] = "link" /\ l \in ReferLegs(t)

MapAt(l) == Linking(l) \/ Apart(l) \/ (l \in legs[l] /\ Whole(legs[l]))

\* Only a leg on its way in or out is found and not up.
LiveAt(l) ==
    Found(l) => end[l] = "up" \/ bye[l] \in {"sent", "found"} \/ invite[l] = "answer"

\* A handler that has a leg of l's bridge has l, or will find it.
TouchAt(l) ==
    /\ \A a \in Inviting : InviteLegs(a) \cap legs[l] # {} => l \in InviteLegs(a)
    /\ \A x \in Hanging : ByeLegs(x) \cap legs[l] # {} => l \in ByeLegs(x) \/ bye[x] = "sent"
    /\ \A t \in Referring : ReferLegs(t) \cap legs[l] # {} =>
         l \in ReferLegs(t) \/ (refer[t] = "attended" /\ move[t].br \cap legs[l] = {})

\* What a handler that met no other knows of its legs
InviteAt(a) ==
    /\ invite[a] = "answer" => legs[a] = InviteLegs(a) /\ end[a] \in {"early", "up"}
    /\ invite[a] = "drop" => Out(Callee(a))

ByeAt(x) ==
    /\ bye[x] = "found" => byeBr[x] = legs[x]
    /\ bye[x] = "unlinked" => \A l \in byeBr[x] : Out(l)

LinkPhase(t) ==
    /\ legs[t] = None /\ Keep(t) # t
    /\ legs[Keep(t)] = move[t].br /\ Keep(t) \notin orphans
    /\ move[t].consult # 0 =>
         /\ legs[move[t].consult] = None /\ move[t].consult \notin orphans
         /\ Target(t) # move[t].consult /\ move[t].br \cap move[t].cb = {}
         /\ legs[Target(t)] = move[t].cb /\ Target(t) \notin orphans
    /\ \A z \in Legs : legs[z] \cap (move[t].br \cup move[t].cb) # {} =>
         z = Keep(t) \/ z \in move[t].cb \ {move[t].consult}

ReferAt(t) ==
    /\ refer[t] \notin {"none", "link", "consult", "done"} => move[t].br = legs[t]
    /\ refer[t] \in {"keep", "target", "move"} /\ move[t].consult # 0 =>
         move[t].cb = legs[move[t].consult] /\ move[t].cb # move[t].br
    /\ refer[t] \in {"reinvite", "drop", "move", "link"} /\ move[t].nl # 0 =>
         Out(move[t].nl) /\ end[move[t].nl] = "up"
    /\ refer[t] = "link" => LinkPhase(t)
    /\ refer[t] = "consult" => Out(move[t].consult)

WholeInv ==
    \A l \in Clean :
        MapAt(l) /\ LiveAt(l) /\ TouchAt(l) /\ InviteAt(l) /\ ByeAt(l) /\ ReferAt(l)

\* An orphan has been up, and a handler forgets a bridge when it is done with it.
HoldInv ==
    /\ \A l \in orphans : Settled(l)
    /\ \A x \in Legs : byeBr[x] # None => bye[x] \in {"found", "unlinked"}
    /\ \A t \in Legs : move[t].cb # None =>
         move[t].consult \in move[t].cb /\ refer[t] \in {"keep", "target", "move", "link", "consult"}
    /\ \A t, a \in Legs : move[t].consult = a => invite[a] # "none"
-----------------------------------------------------------------------------
\* A handler with one clean leg has only clean ones, and meets no other handler.
LEMMA CleanAlone ==
    ASSUME StepInv, NEW h \in Running, NEW l \in Clean, l \in LegsOf(h[1], h[2])
    PROVE  /\ LegsOf(h[1], h[2]) \subseteq Clean
           /\ \A k \in Running \ {h} : LegsOf(k[1], k[2]) \cap LegsOf(h[1], h[2]) = {}
<1> DEFINE Of(k) == LegsOf(k[1], k[2])
           Bad == {g \in Running : \/ Of(g) \cap (raced \cup lost) # {}
                                   \/ \E k \in Running \ {g} : Of(g) \cap Of(k) # {}}
<1>1. Overlap = UNION {Of(g) : g \in Bad}
    BY DEF Overlap
<1>2. h \notin Bad
    BY <1>1 DEF Clean
<1>3. \A k \in Running \ {h} : Of(k) \cap Of(h) = {}
    BY <1>2
<1>4. Of(h) \cap (raced \cup lost) = {}
    BY <1>2
<1>5. Of(h) \subseteq Legs
    BY OverlapLegs
<1>6. Of(h) \cap Overlap = {}
    <2> SUFFICES ASSUME NEW m \in Of(h), NEW g \in Bad, m \in Of(g) PROVE FALSE
        BY <1>1
    <2>1. g # h /\ g \in Running
        BY <1>2
    <2> HIDE DEF Bad
    <2> QED BY <1>3, <2>1
<1> QED BY <1>3, <1>4, <1>5, <1>6 DEF Clean

\* The handlers of Running are those of the three kinds.
LEMMA RunningKinds ==
    /\ \A a \in Inviting : <<"invite", a>> \in Running /\ LegsOf("invite", a) = InviteLegs(a)
    /\ \A x \in Hanging : <<"bye", x>> \in Running /\ LegsOf("bye", x) = ByeLegs(x)
    /\ \A t \in Referring : <<"refer", t>> \in Running /\ LegsOf("refer", t) = ReferLegs(t)
BY DEF Running, LegsOf, InviteLegs, ByeLegs, ReferLegs

\* S is a union of handlers' legs, as far as the clean ones go.
Separate(S) ==
    \A p \in Clean :
        /\ p \in Inviting => InviteLegs(p) \cap S = {} \/ InviteLegs(p) \subseteq S
        /\ p \in Hanging => ByeLegs(p) \cap S = {} \/ ByeLegs(p) \subseteq S
        /\ p \in Referring => ReferLegs(p) \cap S = {} \/ ReferLegs(p) \subseteq S

\* No other handler has a leg of S.
Only(S, kind, p) ==
    /\ \A a \in Inviting : (kind = "invite" /\ a = p) \/ InviteLegs(a) \cap S = {}
    /\ \A x \in Hanging : (kind = "bye" /\ x = p) \/ ByeLegs(x) \cap S = {}
    /\ \A t \in Referring : (kind = "refer" /\ t = p) \/ ReferLegs(t) \cap S = {}

\* The same for a handler of a given kind, with what it needs to know of others.
LEMMA HandlerAlone ==
    ASSUME StepInv, NEW kind, NEW p, <<kind, p>> \in Running
    PROVE  /\ Separate(LegsOf(kind, p))
           /\ \A l \in Clean : l \in LegsOf(kind, p) =>
                LegsOf(kind, p) \subseteq Clean /\ Only(LegsOf(kind, p), kind, p)
<1> DEFINE S == LegsOf(kind, p)
           h == <<kind, p>>
<1>0. h[1] = kind /\ h[2] = p /\ h \in Running
    OBVIOUS
<1>1. ASSUME NEW k \in Running, NEW l \in Clean, l \in LegsOf(k[1], k[2]), k # h
      PROVE  LegsOf(k[1], k[2]) \cap S = {}
    BY <1>0, <1>1, CleanAlone
<1>2. ASSUME NEW l \in Clean, l \in S
      PROVE  /\ S \subseteq Clean
             /\ \A k \in Running : k # h => LegsOf(k[1], k[2]) \cap S = {}
    BY <1>0, <1>2, CleanAlone
<1> HIDE DEF S
<1>3. Separate(S)
    <2> SUFFICES ASSUME NEW q \in Clean
                 PROVE  /\ q \in Inviting => InviteLegs(q) \cap S = {} \/ InviteLegs(q) \subseteq S
                        /\ q \in Hanging => ByeLegs(q) \cap S = {} \/ ByeLegs(q) \subseteq S
                        /\ q \in Referring => ReferLegs(q) \cap S = {} \/ ReferLegs(q) \subseteq S
        BY DEF Separate
    <2>1. ASSUME q \in Inviting PROVE InviteLegs(q) \cap S = {} \/ InviteLegs(q) \subseteq S
        <3>1. q \in InviteLegs(q)
            BY DEF InviteLegs
        <3> QED BY <1>1, <2>1, <3>1, RunningKinds DEF S
    <2>2. ASSUME q \in Hanging PROVE ByeLegs(q) \cap S = {} \/ ByeLegs(q) \subseteq S
        <3>1. q \in ByeLegs(q)
            BY DEF ByeLegs
        <3> QED BY <1>1, <2>2, <3>1, RunningKinds DEF S
    <2>3. ASSUME q \in Referring PROVE ReferLegs(q) \cap S = {} \/ ReferLegs(q) \subseteq S
        <3>1. q \in ReferLegs(q)
            BY DEF ReferLegs, Clean, Legs
        <3> QED BY <1>1, <2>3, <3>1, RunningKinds DEF S
    <2> QED BY <2>1, <2>2, <2>3
<1>4. ASSUME NEW l \in Clean, l \in S
      PROVE  Only(S, kind, p)
    BY <1>2, <1>4, RunningKinds DEF Only
<1> QED BY <1>2, <1>3, <1>4 DEF S
-----------------------------------------------------------------------------
(* What a step leaves alone *)

\* The maps and the endpoints change only on S, and new bridges stay within it.
Confined(S) ==
    /\ \A l \in Legs : legs'[l] = legs[l] \/ (l \in S /\ legs'[l] \subseteq S)
    /\ \A l \in Legs \ S : (l \in orphans' <=> l \in orphans) /\ end'[l] = end[l]

\* Only the handlers of p go on.
Acts(p) ==
    \A q \in Legs \ {p} :
        /\ invite'[q] = invite[q] /\ bye'[q] = bye[q] /\ byeBr'[q] = byeBr[q]
        /\ refer'[q] = refer[q] /\ move'[q] = move[q]

\* Legs outside S stay out of the maps,
LEMMA OutFrame ==
    ASSUME NEW S, Confined(S), NEW l \in Legs, l \notin S, Out(l)
    PROVE  Out(l)'
BY DEF Confined, Out, Apart

\* in no bridge,
LEMMA ApartFrame ==
    ASSUME NEW S, Confined(S), NEW l \in Legs, l \notin S, Apart(l)
    PROVE  Apart(l)'
BY DEF Confined, Apart

\* and a bridge outside S whole.
LEMMA WholeFrame ==
    ASSUME NEW S, Confined(S), NEW b, b \subseteq Legs, b \cap S = {}, Whole(b)
    PROVE  Whole(b)'
<1>1. \A x \in b : legs'[x] = b /\ x \notin orphans'
    BY DEF Confined, Whole
<1>2. \A z \in Legs : legs'[z] \cap b # {} => z \in b
    BY DEF Confined, Whole
<1> QED BY <1>1, <1>2 DEF Whole

\* The legs of a transfer, and those of the bridges it works on
LEMMA ReferLegsFacts ==
    ASSUME StepInv, NEW t \in Referring
    PROVE  /\ ReferLegs(t) \subseteq Legs /\ t \in ReferLegs(t) /\ Keep(t) \in ReferLegs(t)
           /\ move[t].br \subseteq ReferLegs(t) /\ move[t].cb \subseteq ReferLegs(t)
           /\ move[t].consult # 0 => move[t].consult \in ReferLegs(t)
           /\ move[t].nl # 0 => move[t].nl \in ReferLegs(t)
           /\ move[t].consult \in move[t].cb => Target(t) \in ReferLegs(t)
<1>0. t \in Legs /\ refer[t] \notin {"none", "done"}
    BY DEF Referring
<1>1. Keep(t) \in move[t].br
    BY <1>0, MoveFacts
<1>2. ASSUME move[t].consult \in move[t].cb
      PROVE  Target(t) \in move[t].cb
    BY <1>0, <1>2, OtherFacts, Mentioned DEF Target, StepInv
<1>3. ReferLegs(t) \subseteq Legs
    BY <1>0, Mentioned DEF ReferLegs, StepInv
<1> QED BY <1>0, <1>1, <1>2, <1>3 DEF ReferLegs, Legs

\* A transfer between its two writes is not disturbed.
LEMMA LinkFrame ==
    ASSUME StepInv, HoldInv, NEW S, Confined(S), NEW t \in Legs, refer[t] = "link",
           ReferLegs(t) \cap S = {}, move'[t] = move[t], LinkPhase(t)
    PROVE  LinkPhase(t)'
<1> DEFINE k == Keep(t)  c == move[t].consult  g == Target(t)
           br == move[t].br  cb == move[t].cb
<1>0. t \in Referring
    BY DEF Referring
<1>1. /\ t \in Legs \ S /\ k \in Legs \ S /\ br \cap S = {} /\ cb \cap S = {}
      /\ c # 0 => c \in Legs \ S
      /\ c \in cb => g \in Legs \ S
    BY <1>0, ReferLegsFacts
<1>2. c # 0 => c \in cb
    BY DEF StepInv, MoveInv
<1>3. Keep(t)' = k /\ Target(t)' = g
    BY DEF Keep, Target
<1>4. /\ legs[t] = None /\ k # t
      /\ legs[k] = br /\ k \notin orphans
      /\ c # 0 => /\ legs[c] = None /\ c \notin orphans
                  /\ g # c /\ br \cap cb = {}
                  /\ legs[g] = cb /\ g \notin orphans
      /\ \A z \in Legs : legs[z] \cap (br \cup cb) # {} => z = k \/ z \in cb \ {c}
    BY DEF LinkPhase
<1>5. LinkPhase(t)' <=>
        /\ legs'[t] = None /\ k # t
        /\ legs'[k] = br /\ k \notin orphans'
        /\ c # 0 => /\ legs'[c] = None /\ c \notin orphans'
                    /\ g # c /\ br \cap cb = {}
                    /\ legs'[g] = cb /\ g \notin orphans'
        /\ \A z \in Legs : legs'[z] \cap (br \cup cb) # {} => z = k \/ z \in cb \ {c}
    BY <1>3 DEF LinkPhase
<1> HIDE DEF k, c, g, br, cb
<1>6. \A z \in Legs : legs'[z] \cap (br \cup cb) # {} => z = k \/ z \in cb \ {c}
    BY <1>1, <1>4 DEF Confined
<1> QED BY <1>1, <1>2, <1>4, <1>5, <1>6 DEF Confined

\* The legs that a step leaves alone
Rest(l) == MapAt(l) /\ LiveAt(l) /\ InviteAt(l) /\ ByeAt(l) /\ ReferAt(l)

\* A step that changes the maps only at S, the legs of one handler p, leaves
\* everything about the clean legs outside S as it was.
LEMMA Frame ==
    ASSUME StepInv, HoldInv, WholeInv, Clean' \subseteq Clean,
           NEW S, Confined(S), Separate(S),
           NEW p, Acts(p),
           refer[p] = "link" => p \notin Legs \/ ReferLegs(p) \subseteq S
                                \/ (refer'[p] = "link" /\ move'[p] = move[p]),
           \A l \in Clean \ S : (legs' = legs /\ orphans' = orphans) \/ legs[l] \cap S = {}
    PROVE  \A l \in Clean' \ (S \cup {p}) : Rest(l)'
<1> SUFFICES ASSUME NEW l \in Clean', l \notin S, l # p
             PROVE  Rest(l)'
    OBVIOUS
<1>0. l \in Clean /\ l \in Legs
    BY DEF Clean
<1>1. Rest(l)
    BY <1>0 DEF WholeInv, Rest
<1>2. MapAt(l)'
    <2>1. CASE Linking(l)
        <3>1. PICK t \in Legs : refer[t] = "link" /\ l \in ReferLegs(t)
            BY <2>1 DEF Linking
        <3>2. refer'[t] = "link" /\ move'[t] = move[t]
            BY <1>0, <3>1 DEF Acts
        <3>3. ReferLegs(t)' = ReferLegs(t)
            BY <3>2 DEF ReferLegs
        <3> QED BY <3>1, <3>2, <3>3 DEF MapAt, Linking
    <2>2. CASE Apart(l)
        BY <1>0, <2>2, ApartFrame DEF MapAt
    <2>3. CASE l \in legs[l] /\ Whole(legs[l])
        <3>1. legs'[l] = legs[l]
            BY <1>0 DEF Confined
        <3>2. legs[l] \subseteq Legs
            BY <1>0, Mentioned DEF StepInv
        <3>3. CASE legs[l] \cap S = {}
            <4> DEFINE b == legs[l]
            <4>1. \A c : c = b => (Whole(c)' <=> Whole(legs[l])')
                BY <3>1
            <4> QED BY <2>3, <3>1, <3>2, <3>3, <4>1, WholeFrame DEF MapAt
        <3>4. CASE legs' = legs /\ orphans' = orphans
            BY <2>3, <3>4 DEF MapAt, Whole
        <3> QED BY <1>0, <3>3, <3>4
    <2> QED BY <1>1, <2>1, <2>2, <2>3 DEF Rest, MapAt
<1>3. /\ legs'[l] = legs[l] /\ (l \in orphans' <=> l \in orphans) /\ end'[l] = end[l]
      /\ invite'[l] = invite[l] /\ bye'[l] = bye[l] /\ byeBr'[l] = byeBr[l]
      /\ refer'[l] = refer[l] /\ move'[l] = move[l]
    BY <1>0 DEF Confined, Acts
<1>4. LiveAt(l)'
    BY <1>1, <1>3 DEF Rest, LiveAt, Found
<1>5. InviteAt(l)'
    <2>1. CASE invite[l] \in {"answer", "drop"}
        <3>1. l \in Inviting /\ l \in InviteLegs(l) /\ Callee(l) \in Legs
            BY <1>0, <2>1, InviteAlone DEF Inviting, InviteLegs, StepInv
        <3>2. Callee(l) \notin S
            BY <1>0, <3>1 DEF Separate, InviteLegs
        <3>3. Out(Callee(l)) => Out(Callee(l))'
            BY <3>1, <3>2, OutFrame
        <3> QED BY <1>1, <1>3, <3>3 DEF Rest, InviteAt, InviteLegs
    <2>2. CASE invite[l] \notin {"answer", "drop"}
        BY <1>3, <2>2 DEF InviteAt
    <2> QED BY <2>1, <2>2
<1>6. ByeAt(l)'
    <2>1. CASE bye[l] = "unlinked"
        <3>1. l \in Hanging /\ l \in ByeLegs(l) /\ byeBr[l] \subseteq Legs
            BY <1>0, <2>1, Mentioned DEF Hanging, ByeLegs, StepInv
        <3>2. byeBr[l] \cap S = {}
            BY <1>0, <3>1 DEF Separate, ByeLegs
        <3>3. \A m \in byeBr[l] : Out(m) => Out(m)'
            BY <3>1, <3>2, OutFrame
        <3> QED BY <1>1, <1>3, <2>1, <3>3 DEF Rest, ByeAt
    <2>2. CASE bye[l] # "unlinked"
        BY <1>1, <1>3, <2>2 DEF Rest, ByeAt
    <2> QED BY <2>1, <2>2
<1>7. ReferAt(l)'
    <2>1. CASE l \in Referring
        <3>1. ReferLegs(l) \cap S = {}
            BY <1>0, <2>1, ReferLegsFacts DEF Separate
        <3>2. /\ move[l].consult # 0 => move[l].consult \in Legs \ S
              /\ move[l].nl # 0 => move[l].nl \in Legs \ S
            BY <2>1, <3>1, ReferLegsFacts
        <3>3. \A m \in Legs \ S : (Out(m) => Out(m)') /\ legs'[m] = legs[m] /\ end'[m] = end[m]
            BY OutFrame DEF Confined
        <3>4. refer[l] = "link" /\ LinkPhase(l) => LinkPhase(l)'
            BY <1>0, <1>3, <3>1, LinkFrame
        <3>5. refer[l] = "consult" => move[l].consult \in Legs \ S
            BY <1>0, <3>2, Mentioned DEF StepInv, MoveInv, Legs
        <3>6. (refer[l] \in {"reinvite", "drop", "move", "link"} /\ move[l].nl # 0 =>
                 Out(move[l].nl)' /\ end'[move[l].nl] = "up")
            <4> DEFINE n == move[l].nl
            <4>1. ASSUME refer[l] \in {"reinvite", "drop", "move", "link"}, n # 0
                  PROVE  Out(n) /\ end[n] = "up"
                BY <1>1, <4>1 DEF Rest, ReferAt
            <4> QED BY <1>3, <3>2, <3>3, <4>1
        <3>7. refer[l] = "consult" => Out(move[l].consult)'
            <4>1. refer[l] = "consult" => Out(move[l].consult)
                BY <1>1 DEF Rest, ReferAt
            <4> QED BY <1>3, <3>3, <3>5, <4>1
        <3> QED BY <1>1, <1>3, <3>2, <3>3, <3>4, <3>6, <3>7 DEF Rest, ReferAt
    <2>2. CASE l \notin Referring
        <3>1. refer'[l] \in {"none", "done"}
            BY <1>0, <1>3, <2>2 DEF Referring
        <3> QED BY <3>1 DEF ReferAt
    <2> QED BY <2>1, <2>2
<1> QED BY <1>2, <1>4, <1>5, <1>6, <1>7 DEF Rest

\* No handler starts, or learns of a leg.
NoGrowth ==
    /\ Inviting' \subseteq Inviting
    /\ \A x \in Hanging' : x \in Hanging /\ byeBr'[x] = byeBr[x] /\ (bye[x] = "sent" => bye'[x] = "sent")
    /\ \A t \in Referring' :
         t \in Referring /\ move'[t] = move[t] /\ (refer[t] = "attended" => refer'[t] = "attended")

\* No handler gains a leg, and no leg a bridge.
LEMMA TouchSame ==
    ASSUME NoGrowth, NEW l, TouchAt(l), legs'[l] \in {legs[l], None}
    PROVE  TouchAt(l)'
<1>1. CASE legs'[l] = None
    BY <1>1 DEF TouchAt, None
<1>2. CASE legs'[l] = legs[l]
    <2>1. \A x \in Hanging' : ByeLegs(x)' = ByeLegs(x)
        BY DEF NoGrowth, ByeLegs
    <2>2. \A t \in Referring' : ReferLegs(t)' = ReferLegs(t)
        BY DEF NoGrowth, ReferLegs
    <2>3. \A a \in Inviting' : InviteLegs(a)' = InviteLegs(a)
        BY DEF InviteLegs, Callee
    <2> QED BY <1>2, <2>1, <2>2, <2>3 DEF TouchAt, NoGrowth
<1> QED BY <1>1, <1>2

\* A new bridge is known to the handler that linked it only.
LEMMA TouchNew ==
    ASSUME NoGrowth, NEW kind, NEW p, NEW S, Only(S, kind, p), NEW l \in S, legs'[l] \subseteq S,
           kind = "invite" => S = InviteLegs(p),
           kind = "bye" => S = ByeLegs(p),
           kind = "refer" => S = ReferLegs(p)
    PROVE  TouchAt(l)'
<1>1. \A x \in Hanging' : ByeLegs(x)' = ByeLegs(x)
    BY DEF NoGrowth, ByeLegs
<1>2. \A t \in Referring' : ReferLegs(t)' = ReferLegs(t)
    BY DEF NoGrowth, ReferLegs
<1>3. \A a \in Inviting' : InviteLegs(a)' = InviteLegs(a)
    BY DEF InviteLegs, Callee
<1> QED BY <1>1, <1>2, <1>3 DEF TouchAt, NoGrowth, Only

\* A handler that is the only one on its legs
LEMMA OnlyFacts ==
    ASSUME TypesOK, NEW kind, NEW p, NEW S, Only(S, kind, p), NEW l \in Legs, l \in S
    PROVE  /\ l \in Inviting => kind = "invite" /\ l = p
           /\ l \in Hanging => kind = "bye" /\ l = p
           /\ l \in Referring => kind = "refer" /\ l = p
           /\ Linking(l) => kind = "refer" /\ refer[p] = "link"
<1>1. l \in InviteLegs(l) /\ l \in ByeLegs(l) /\ l \in ReferLegs(l)
    BY DEF InviteLegs, ByeLegs, ReferLegs, Legs
<1>2. Linking(l) => kind = "refer" /\ refer[p] = "link"
    BY DEF Linking, Only, Referring
<1> QED BY <1>1, <1>2 DEF Only

\* onInvite, when it met no other handler
LEMMA InviteBase ==
    ASSUME StepInv, NEW a \in Legs, invite[a] \in {"dial", "answer", "drop"}
    PROVE  /\ InviteLegs(a) \subseteq Legs /\ a \in InviteLegs(a) /\ Callee(a) \in InviteLegs(a)
           /\ Callee(a) # a
           /\ Separate(InviteLegs(a))
           /\ \A l \in Clean : l \in InviteLegs(a) =>
                /\ InviteLegs(a) \subseteq Clean /\ Only(InviteLegs(a), "invite", a)
                /\ bye[l] \in {"none", "done"} /\ refer[l] \in {"none", "done"} /\ ~Linking(l)
                /\ l # a => invite[l] = "none"
           /\ \A l \in Clean : TouchAt(l) /\ l \notin InviteLegs(a) => legs[l] \cap InviteLegs(a) = {}
<1>1. a \in Inviting
    BY DEF Inviting
<1>2. /\ InviteLegs(a) \subseteq Legs /\ a \in InviteLegs(a) /\ Callee(a) \in InviteLegs(a)
      /\ Callee(a) # a
    BY InviteAlone DEF StepInv, InviteLegs
<1>3. /\ Separate(InviteLegs(a))
      /\ \A l \in Clean : l \in InviteLegs(a) =>
           InviteLegs(a) \subseteq Clean /\ Only(InviteLegs(a), "invite", a)
    <2>1. <<"invite", a>> \in Running /\ LegsOf("invite", a) = InviteLegs(a)
        BY <1>1, RunningKinds
    <2>2. /\ Separate(LegsOf("invite", a))
          /\ \A l \in Clean : l \in LegsOf("invite", a) =>
               LegsOf("invite", a) \subseteq Clean /\ Only(LegsOf("invite", a), "invite", a)
        BY <2>1, HandlerAlone
    <2> QED BY <2>1, <2>2
<1>4. ASSUME NEW l \in Clean, l \in InviteLegs(a)
      PROVE  /\ bye[l] \in {"none", "done"} /\ refer[l] \in {"none", "done"} /\ ~Linking(l)
             /\ l # a => invite[l] = "none"
    <2>1. l \in Legs /\ TypesOK
        BY <1>2, <1>4 DEF StepInv
    <2>2. l \notin Hanging /\ l \notin Referring /\ ~Linking(l)
        BY <1>3, <1>4, <2>1, OnlyFacts
    <2>3. l # a => invite[l] = "none"
        BY <1>4 DEF InviteLegs, StepInv, NumberInv
    <2> QED BY <2>1, <2>2, <2>3 DEF Hanging, Referring, TypesOK
<1>5. \A l \in Clean : TouchAt(l) /\ l \notin InviteLegs(a) => legs[l] \cap InviteLegs(a) = {}
    BY <1>1 DEF TouchAt
<1> QED BY <1>2, <1>3, <1>4, <1>5

\* A step of onInvite: what is left to show is the legs of the handler itself.
LEMMA InviteFrame ==
    ASSUME StepInv, HoldInv, WholeInv, Clean' \subseteq Clean,
           NEW a \in Legs, invite[a] \in {"dial", "answer", "drop"},
           NEW s \in {"dial", "answer", "drop", "done"}, invite' = [invite EXCEPT ![a] = s],
           UNCHANGED <<bye, byeBr, refer, move>>, Confined(InviteLegs(a)),
           \A l \in Clean' : l \in InviteLegs(a) =>
               /\ legs'[l] \in {legs[l], None} \/ legs'[l] \subseteq InviteLegs(a)
               /\ MapAt(l)' /\ LiveAt(l)'
               /\ l = a => InviteAt(l)'
    PROVE  WholeInv'
<1> DEFINE S == InviteLegs(a)
<1>1. Acts(a)
    BY DEF Acts, StepInv, TypesOK
<1>2. NoGrowth
    BY DEF NoGrowth, Inviting, Hanging, Referring, StepInv, TypesOK
<1>3. \A l \in Clean' \ (S \cup {a}) : Rest(l)'
    <2>1. \A l \in Clean \ S : legs[l] \cap S = {}
        BY InviteBase DEF WholeInv
    <2>2. Separate(S)
        BY InviteBase
    <2> QED BY <1>1, <2>1, <2>2, Frame
<1>4. ASSUME NEW l \in Clean', l \in S
      PROVE  Rest(l)' /\ TouchAt(l)'
    <2>0. l \in Clean /\ l \in Legs
        BY DEF Clean
    <2>1. /\ Only(S, "invite", a)
          /\ bye[l] \in {"none", "done"} /\ refer[l] \in {"none", "done"}
          /\ l # a => invite[l] = "none"
        BY <1>4, <2>0, InviteBase
    <2>2. InviteAt(l)'
        <3>1. CASE l = a
            BY <1>4, <3>1
        <3>2. CASE l # a
            BY <2>0, <2>1, <3>2 DEF InviteAt, StepInv, TypesOK
        <3> QED BY <3>1, <3>2
    <2>3. ByeAt(l)' /\ ReferAt(l)'
        BY <2>1 DEF ByeAt, ReferAt
    <2>4. TouchAt(l)'
        <3>1. TouchAt(l)
            BY <2>0 DEF WholeInv
        <3>2. CASE legs'[l] \in {legs[l], None}
            BY <1>2, <3>1, <3>2, TouchSame
        <3>3. CASE legs'[l] \subseteq S
            BY <1>2, <1>4, <2>1, <3>3, TouchNew
        <3> QED BY <1>4, <3>2, <3>3
    <2> QED BY <1>4, <2>2, <2>3, <2>4 DEF Rest
<1>5. ASSUME NEW l \in Clean', l \notin S
      PROVE  TouchAt(l)'
    <2>1. l \in Clean /\ l \in Legs
        BY DEF Clean
    <2>2. legs'[l] = legs[l] /\ TouchAt(l)
        BY <1>5, <2>1 DEF Confined, WholeInv
    <2> QED BY <1>2, <2>2, TouchSame
<1>6. a \in S
    BY InviteBase
<1> QED BY <1>3, <1>4, <1>5, <1>6 DEF WholeInv, Rest

\* Nothing is mapped, or an orphan, before it has been dialled.
LEMMA PendingOut ==
    ASSUME StepInv, HoldInv, NEW l \in Legs, Pending(l)
    PROVE  Out(l)
<1>1. \A z \in Legs : l \notin legs[z]
    BY DEF StepInv, MentionInv, Settled
<1>2. legs[l] = None /\ l \notin orphans
    BY <1>1 DEF StepInv, TypesOK, HoldInv, Settled
<1> QED BY <1>1, <1>2 DEF Out, Apart

\* onInvite after a refusal: its legs were never in the maps.
LEMMA DialFailsWhole ==
    ASSUME StepInv, HoldInv, WholeInv, Clean' \subseteq Clean, NEW a \in Legs, DialFails(a)
    PROVE  WholeInv'
<1> DEFINE S == InviteLegs(a)
<1> USE DEF DialFails, pbx
<1>1. Confined(S)
    BY DEF Confined, InviteLegs, StepInv, TypesOK
<1>2. ASSUME NEW l \in Clean', l \in S
      PROVE  MapAt(l)' /\ LiveAt(l)' /\ (l = a => InviteAt(l)')
    <2>1. l \in Legs /\ l \in Clean
        BY DEF Clean
    <2>2. Pending(l)
        BY <1>2 DEF Pending, InviteLegs
    <2>3. Out(l)
        BY <2>1, <2>2, PendingOut
    <2>4. MapAt(l)' /\ LiveAt(l)'
        BY <2>3 DEF MapAt, LiveAt, Out, Apart, Found
    <2>5. l = a => InviteAt(l)'
        BY DEF InviteAt, StepInv, TypesOK
    <2> QED BY <2>4, <2>5
<1> QED BY <1>1, <1>2, InviteFrame

\* The new bridge is whole, for neither of its legs was known to anyone.
LEMMA DialledWhole ==
    ASSUME StepInv, HoldInv, WholeInv, Clean' \subseteq Clean, NEW a \in Legs, Dialled(a)
    PROVE  WholeInv'
<1> DEFINE S == InviteLegs(a)
<1> USE DEF Dialled, Link
<1>0. S \subseteq Legs /\ Callee(a) # a /\ S = {a, Callee(a)}
    BY InviteBase DEF InviteLegs
<1>1. /\ \A l \in S : legs'[l] = S
      /\ \A l \in Legs \ S : legs'[l] = legs[l]
    BY <1>0 DEF InviteLegs
<1>2. Confined(S)
    BY <1>1 DEF Confined, InviteLegs, StepInv, TypesOK
<1>3. \A l \in S : Out(l)
    <2>1. \A l \in S : Pending(l)
        BY <1>0 DEF Pending
    <2> QED BY <1>0, <2>1, PendingOut
<1>4. Whole(S)'
    <2>1. \A z \in Legs : legs'[z] \cap S # {} => z \in S
        BY <1>1, <1>3 DEF Out, Apart
    <2>2. \A l \in S : legs'[l] = S /\ l \notin orphans'
        BY <1>1, <1>3 DEF Out
    <2>3. \E x, y \in Legs : x # y /\ S = {x, y}
        BY <1>0
    <2>4. S' = S
        BY DEF InviteLegs, Callee
    <2> QED BY <2>1, <2>2, <2>3, <2>4 DEF Whole
<1>5. end[a] = "early" /\ end'[a] = "early" /\ end'[Callee(a)] = "up" /\ invite'[a] = "answer"
    <2>1. Pending(a)
        BY DEF Pending
    <2> QED BY <1>0, <2>1 DEF StepInv, PendingInv, TypesOK
<1>6. ASSUME NEW l \in Clean', l \in S
      PROVE  MapAt(l)' /\ LiveAt(l)' /\ (l = a => InviteAt(l)')
    <2>1. MapAt(l)'
        <3>1. legs'[l] = S /\ S' = S
            BY <1>1, <1>6 DEF InviteLegs, Callee
        <3> QED BY <1>4, <1>6, <3>1 DEF MapAt
    <2>2. LiveAt(l)'
        BY <1>0, <1>5, <1>6 DEF LiveAt
    <2>3. l = a => InviteAt(l)'
        BY <1>1, <1>5, <1>6 DEF InviteAt, InviteLegs, Callee
    <2> QED BY <2>1, <2>2, <2>3
<1> QED BY <1>1, <1>2, <1>6, InviteFrame

\* The caller is up now.
LEMMA CallerAnsweredWhole ==
    ASSUME StepInv, HoldInv, WholeInv, Clean' \subseteq Clean, NEW a \in Legs, CallerAnswered(a)
    PROVE  WholeInv'
<1> DEFINE S == InviteLegs(a)
<1> USE DEF CallerAnswered, pbx
<1>1. Confined(S)
    BY DEF Confined, InviteLegs, StepInv, TypesOK
<1>2. invite' = [invite EXCEPT ![a] = "answer"]
    BY DEF StepInv, TypesOK
<1>3. ASSUME NEW l \in Clean', l \in S
      PROVE  MapAt(l)' /\ LiveAt(l)' /\ (l = a => InviteAt(l)')
    <2>1. l \in Legs /\ l \in Clean /\ MapAt(l) /\ LiveAt(l) /\ InviteAt(l)
        BY DEF Clean, WholeInv
    <2>2. MapAt(l)'
        BY <2>1 DEF MapAt, Linking, Apart, Whole, ReferLegs
    <2>3. LiveAt(l)'
        BY <2>1 DEF LiveAt, Found, StepInv, TypesOK
    <2>4. l = a => InviteAt(l)'
        BY <2>1 DEF InviteAt, StepInv, TypesOK, InviteLegs, Callee
    <2> QED BY <2>2, <2>3, <2>4
<1> QED BY <1>1, <1>2, <1>3, InviteFrame

\* onInvite is done; both legs are up.
LEMMA OnAckWhole ==
    ASSUME StepInv, HoldInv, WholeInv, Clean' \subseteq Clean, NEW a \in Legs, OnAck(a)
    PROVE  WholeInv'
<1> DEFINE S == InviteLegs(a)
<1> USE DEF OnAck, AwaitsAck, pbx
<1>1. Confined(S)
    BY DEF Confined
<1>2. ASSUME NEW l \in Clean', l \in S
      PROVE  MapAt(l)' /\ LiveAt(l)' /\ (l = a => InviteAt(l)')
    <2>1. l \in Legs /\ l \in Clean /\ MapAt(l) /\ LiveAt(l) /\ InviteAt(l)
        BY DEF Clean, WholeInv
    <2>2. MapAt(l)'
        BY <2>1 DEF MapAt, Linking, Apart, Whole, ReferLegs
    <2>3. LiveAt(l)'
        BY <2>1 DEF LiveAt, Found, InviteAt, StepInv, TypesOK
    <2>4. l = a => InviteAt(l)'
        BY <2>1 DEF InviteAt, StepInv, TypesOK
    <2> QED BY <2>2, <2>3, <2>4
<1> QED BY <1>1, <1>2, InviteFrame

\* The bridge that onInvite linked is gone as a whole.
LEMMA AnswerFailsWhole ==
    ASSUME StepInv, HoldInv, WholeInv, Clean' \subseteq Clean, NEW a \in Legs, AnswerFails(a)
    PROVE  WholeInv'
<1> DEFINE S == InviteLegs(a)
<1> USE DEF AnswerFails, Unlink
<1>0. S \subseteq Legs /\ a \in S /\ Callee(a) \in S /\ S = {a, Callee(a)}
    BY InviteBase DEF InviteLegs
<1>1. /\ \A l \in S : legs'[l] = None /\ l \notin orphans'
      /\ \A l \in Legs \ S : legs'[l] = legs[l] /\ (l \in orphans' <=> l \in orphans)
    BY <1>0
<1>2. \A l \in Legs \ S : end'[l] = end[l]
    BY <1>0 DEF StepInv, TypesOK
<1>3. Confined(S)
    BY <1>1, <1>2 DEF Confined, None
<1>4. ASSUME NEW l \in Clean', l \in S
      PROVE  MapAt(l)' /\ LiveAt(l)' /\ (l = a => InviteAt(l)')
    <2>1. l \in Legs /\ l \in Clean
        BY DEF Clean
    <2>2. a \in Clean /\ ~Linking(a)
        BY <1>0, <1>4, <2>1, InviteBase
    <2>3. legs[a] = S /\ MapAt(a)
        BY <2>2 DEF WholeInv, InviteAt
    <2>4. Whole(S)
        BY <1>0, <2>2, <2>3 DEF MapAt, Apart, None
    <2>5. \A m \in S : Out(m)'
        <3>1. \A z \in Legs : legs'[z] \cap S = {}
            BY <1>1, <2>4 DEF Whole, None
        <3> QED BY <1>1, <3>1 DEF Out, Apart
    <2>6. MapAt(l)' /\ LiveAt(l)'
        BY <1>4, <2>5 DEF MapAt, LiveAt, Out, Apart, Found
    <2>7. InviteAt(a)'
        <3>1. Callee(a)' = Callee(a) /\ Out(Callee(a))'
            BY <1>0, <2>5 DEF Callee
        <3> QED BY <3>1 DEF InviteAt, StepInv, TypesOK
    <2> QED BY <2>6, <2>7
<1> QED BY <1>1, <1>3, <1>4, InviteFrame

\* The callee's leg, already out of the maps, goes down.
LEMMA CalleeDroppedWhole ==
    ASSUME StepInv, HoldInv, WholeInv, Clean' \subseteq Clean, NEW a \in Legs, CalleeDropped(a)
    PROVE  WholeInv'
<1> DEFINE S == InviteLegs(a)
<1> USE DEF CalleeDropped, pbx
<1>0. S \subseteq Legs /\ a \in S /\ Callee(a) \in S /\ S = {a, Callee(a)} /\ Callee(a) # a
    BY InviteBase DEF InviteLegs
<1>1. Confined(S)
    BY <1>0 DEF Confined, Bye, StepInv, TypesOK
<1>2. ASSUME NEW l \in Clean', l \in S
      PROVE  MapAt(l)' /\ LiveAt(l)' /\ (l = a => InviteAt(l)')
    <2>1. l \in Legs /\ l \in Clean /\ MapAt(l) /\ LiveAt(l)
        BY DEF Clean, WholeInv
    <2>2. a \in Clean
        BY <1>0, <1>2, <2>1, InviteBase
    <2>3. Out(Callee(a))
        BY <2>2 DEF WholeInv, InviteAt
    <2>4. MapAt(l)'
        BY <2>1 DEF MapAt, Linking, Apart, Whole, ReferLegs
    <2>5. LiveAt(l)'
        <3>1. CASE l = a
            BY <1>0, <2>1, <3>1 DEF LiveAt, Found, Bye, StepInv, TypesOK
        <3>2. CASE l = Callee(a)
            BY <2>3, <3>2 DEF LiveAt, Found, Out, Apart
        <3> QED BY <1>0, <1>2, <3>1, <3>2
    <2>6. l = a => InviteAt(l)'
        BY <2>1 DEF InviteAt, StepInv, TypesOK
    <2> QED BY <2>4, <2>5, <2>6
<1> QED BY <1>1, <1>2, InviteFrame
-----------------------------------------------------------------------------
\* A transfer, when it met no other handler
LEMMA ReferBase ==
    ASSUME StepInv, NEW t \in Legs, t \in Referring
    PROVE  /\ Separate(ReferLegs(t))
           /\ \A l \in Clean : l \in ReferLegs(t) =>
                /\ ReferLegs(t) \subseteq Clean /\ Only(ReferLegs(t), "refer", t)
                /\ invite[l] \in {"none", "done"} /\ bye[l] \in {"none", "done"}
                /\ Linking(l) => refer[t] = "link"
                /\ l # t => refer[l] \in {"none", "done"}
           /\ \A l \in Clean : TouchAt(l) /\ l \notin ReferLegs(t) /\ refer[t] # "attended" =>
                legs[l] \cap ReferLegs(t) = {}
<1>1. ReferLegs(t) \subseteq Legs
    BY ReferLegsFacts
<1>2. /\ Separate(ReferLegs(t))
      /\ \A l \in Clean : l \in ReferLegs(t) =>
           ReferLegs(t) \subseteq Clean /\ Only(ReferLegs(t), "refer", t)
    <2>1. <<"refer", t>> \in Running /\ LegsOf("refer", t) = ReferLegs(t)
        BY RunningKinds
    <2>2. /\ Separate(LegsOf("refer", t))
          /\ \A l \in Clean : l \in LegsOf("refer", t) =>
               LegsOf("refer", t) \subseteq Clean /\ Only(LegsOf("refer", t), "refer", t)
        BY <2>1, HandlerAlone
    <2> QED BY <2>1, <2>2
<1>3. ASSUME NEW l \in Clean, l \in ReferLegs(t)
      PROVE  /\ invite[l] \in {"none", "done"} /\ bye[l] \in {"none", "done"}
             /\ Linking(l) => refer[t] = "link"
             /\ l # t => refer[l] \in {"none", "done"}
    <2>1. l \in Legs /\ TypesOK
        BY <1>1, <1>3 DEF StepInv
    <2>2. /\ l \notin Inviting /\ l \notin Hanging /\ (l # t => l \notin Referring)
          /\ Linking(l) => refer[t] = "link"
        BY <1>2, <1>3, <2>1, OnlyFacts
    <2> QED BY <2>1, <2>2 DEF Inviting, Hanging, Referring, TypesOK
<1>4. \A l \in Clean : TouchAt(l) /\ l \notin ReferLegs(t) /\ refer[t] # "attended" =>
          legs[l] \cap ReferLegs(t) = {}
    BY DEF TouchAt
<1> QED BY <1>2, <1>3, <1>4

\* While a transfer links, nobody but itself knows of the bridges it took apart.
LEMMA LinkKnown ==
    ASSUME StepInv, HoldInv, WholeInv, NEW l \in Clean, NEW t \in Legs, refer[t] = "link",
           l \in ReferLegs(t), NEW x \in Legs, x \notin ReferLegs(t)
    PROVE  ({x} \cup legs[x]) \cap legs[l] = {}
<1>1. refer[t] = "link" /\ l \in ReferLegs(t)
    OBVIOUS
<1>2. t \in Referring /\ t \in ReferLegs(t) /\ l \in Legs
    BY <1>1, ReferLegsFacts DEF Referring, Clean
<1>3. t \in Clean
    BY <1>1, <1>2, ReferBase
<1>4. x \notin ReferLegs(t)
    OBVIOUS
<1>5. LinkPhase(t) /\ (move[t].nl # 0 => Out(move[t].nl))
    BY <1>1, <1>3 DEF WholeInv, ReferAt
<1>6. /\ move[t].br \subseteq ReferLegs(t) /\ move[t].cb \subseteq ReferLegs(t)
      /\ Keep(t) \in ReferLegs(t) /\ move[t].br = {t, Keep(t)}
    BY <1>1, <1>2, ReferLegsFacts, MoveFacts
<1>7. legs[x] \cap (move[t].br \cup move[t].cb) = {}
    BY <1>4, <1>5, <1>6 DEF LinkPhase
<1>8. move[t].consult \in move[t].cb => move[t].cb = {move[t].consult, Target(t)}
    BY OtherFacts, Mentioned DEF Target, StepInv
<1>9. legs[l] \subseteq move[t].br \cup move[t].cb
    <2>1. CASE l \in {t, Keep(t)}
        BY <1>5, <2>1 DEF LinkPhase, None
    <2>2. CASE move[t].nl # 0 /\ l = move[t].nl
        BY <1>5, <2>2 DEF Out, Apart, None
    <2>3. CASE move[t].consult # 0 /\ l \in {move[t].consult, Target(t)}
        BY <1>5, <2>3 DEF LinkPhase, None
    <2>4. \/ l \in {t, Keep(t)}
          \/ move[t].nl # 0 /\ l = move[t].nl
          \/ move[t].consult # 0 /\ l = move[t].consult
          \/ l \in move[t].cb
        BY <1>1, <1>6 DEF ReferLegs
    <2>5. l \in move[t].cb => legs[l] \subseteq move[t].br \cup move[t].cb
        <3>1. CASE move[t].consult \in move[t].cb
            <4>1. move[t].consult # 0
                BY <1>6, <3>1, ReferLegsFacts, <1>2 DEF Legs
            <4> QED BY <1>8, <2>3, <3>1, <4>1
        <3>2. CASE move[t].consult \notin move[t].cb
            BY <3>2 DEF HoldInv, None
        <3> QED BY <3>1, <3>2
    <2> QED BY <2>1, <2>2, <2>3, <2>4, <2>5
<1> QED BY <1>4, <1>6, <1>7, <1>9

\* A transfer that links meets no handler on the legs it takes from the map.
LEMMA LinkApart ==
    ASSUME StepInv, HoldInv, WholeInv, NEW l \in Clean, Linking(l), NEW x \in Legs,
           x \in Hanging \/ (x \in Referring /\ refer[x] # "link")
    PROVE  ({x} \cup legs[x]) \cap legs[l] = {}
<1>1. PICK t \in Legs : refer[t] = "link" /\ l \in ReferLegs(t)
    BY DEF Linking
<1>2. t \in Referring /\ t \in ReferLegs(t) /\ l \in Legs
    BY <1>1, ReferLegsFacts DEF Referring, Clean
<1>3. t \in Clean /\ Only(ReferLegs(t), "refer", t)
    BY <1>1, <1>2, ReferBase
<1>4. x \notin ReferLegs(t)
    <2>1. x \in ByeLegs(x) /\ x \in ReferLegs(x)
        BY DEF ByeLegs, ReferLegs, Legs
    <2> QED BY <1>1, <1>3, <2>1 DEF Only
<1> QED BY <1>1, <1>4, LinkKnown
-----------------------------------------------------------------------------
\* onBye, when it met no other handler
LEMMA ByeBase ==
    ASSUME StepInv, NEW x \in Legs, x \in Hanging
    PROVE  /\ ByeLegs(x) \subseteq Legs /\ x \in ByeLegs(x)
           /\ Separate(ByeLegs(x))
           /\ \A l \in Clean : l \in ByeLegs(x) =>
                /\ ByeLegs(x) \subseteq Clean /\ Only(ByeLegs(x), "bye", x)
                /\ invite[l] \in {"none", "done"} /\ refer[l] \in {"none", "done"} /\ ~Linking(l)
                /\ l # x => bye[l] \in {"none", "done"}
           /\ \A l \in Clean : TouchAt(l) /\ l \notin ByeLegs(x) /\ bye[x] # "sent" =>
                legs[l] \cap ByeLegs(x) = {}
<1>1. ByeLegs(x) \subseteq Legs /\ x \in ByeLegs(x)
    BY Mentioned DEF StepInv, ByeLegs
<1>2. /\ Separate(ByeLegs(x))
      /\ \A l \in Clean : l \in ByeLegs(x) =>
           ByeLegs(x) \subseteq Clean /\ Only(ByeLegs(x), "bye", x)
    <2>1. <<"bye", x>> \in Running /\ LegsOf("bye", x) = ByeLegs(x)
        BY RunningKinds
    <2>2. /\ Separate(LegsOf("bye", x))
          /\ \A l \in Clean : l \in LegsOf("bye", x) =>
               LegsOf("bye", x) \subseteq Clean /\ Only(LegsOf("bye", x), "bye", x)
        BY <2>1, HandlerAlone
    <2> QED BY <2>1, <2>2
<1>3. ASSUME NEW l \in Clean, l \in ByeLegs(x)
      PROVE  /\ invite[l] \in {"none", "done"} /\ refer[l] \in {"none", "done"} /\ ~Linking(l)
             /\ l # x => bye[l] \in {"none", "done"}
    <2>1. l \in Legs /\ TypesOK
        BY <1>1, <1>3 DEF StepInv
    <2>2. l \notin Inviting /\ l \notin Referring /\ ~Linking(l) /\ (l # x => l \notin Hanging)
        BY <1>2, <1>3, <2>1, OnlyFacts
    <2> QED BY <2>1, <2>2 DEF Inviting, Hanging, Referring, TypesOK
<1>4. \A l \in Clean : TouchAt(l) /\ l \notin ByeLegs(x) /\ bye[x] # "sent" =>
          legs[l] \cap ByeLegs(x) = {}
    BY DEF TouchAt
<1> QED BY <1>1, <1>2, <1>3, <1>4

\* A step of onBye after find: what is left to show is the legs of the handler itself.
LEMMA HangFrame ==
    ASSUME StepInv, HoldInv, WholeInv, Clean' \subseteq Clean,
           NEW x \in Legs, bye[x] \in {"found", "unlinked"},
           NEW s \in {"unlinked", "done"}, bye' = [bye EXCEPT ![x] = s],
           \A y \in Legs \ {x} : byeBr'[y] = byeBr[y],
           s = "done" \/ byeBr'[x] = byeBr[x],
           UNCHANGED <<invite, refer, move>>, Confined(ByeLegs(x)),
           \A l \in Clean' : l \in ByeLegs(x) =>
               legs'[l] \in {legs[l], None} /\ MapAt(l)' /\ LiveAt(l)' /\ (l = x => ByeAt(l)')
    PROVE  WholeInv'
<1> DEFINE S == ByeLegs(x)
<1>0. x \in Hanging
    BY DEF Hanging
<1>1. Acts(x)
    BY DEF Acts, StepInv, TypesOK
<1>2. NoGrowth
    BY <1>0 DEF NoGrowth, Inviting, Hanging, Referring, StepInv, TypesOK
<1>3. \A l \in Clean' \ (S \cup {x}) : Rest(l)'
    <2>1. \A l \in Clean \ S : legs[l] \cap S = {}
        BY <1>0, ByeBase DEF WholeInv
    <2>2. Separate(S)
        BY <1>0, ByeBase
    <2> QED BY <1>1, <2>1, <2>2, Frame
<1>4. ASSUME NEW l \in Clean', l \in S
      PROVE  Rest(l)'
    <2>0. l \in Clean /\ l \in Legs
        BY DEF Clean
    <2>1. /\ invite[l] \in {"none", "done"} /\ refer[l] \in {"none", "done"}
          /\ l # x => bye[l] \in {"none", "done"}
        BY <1>0, <1>4, <2>0, ByeBase
    <2>2. InviteAt(l)' /\ ReferAt(l)'
        BY <2>1 DEF InviteAt, ReferAt
    <2>3. ByeAt(l)'
        <3>1. CASE l = x
            BY <1>4, <3>1
        <3>2. CASE l # x
            BY <2>0, <2>1, <3>2 DEF ByeAt, StepInv, TypesOK
        <3> QED BY <3>1, <3>2
    <2> QED BY <1>4, <2>2, <2>3 DEF Rest
<1>5. ASSUME NEW l \in Clean'
      PROVE  TouchAt(l)'
    <2>1. l \in Clean /\ l \in Legs /\ TouchAt(l)
        BY DEF Clean, WholeInv
    <2>2. legs'[l] \in {legs[l], None}
        BY <1>5, <2>1 DEF Confined
    <2> QED BY <1>2, <2>1, <2>2, TouchSame
<1>6. x \in S
    BY <1>0, ByeBase
<1> QED BY <1>3, <1>4, <1>5, <1>6 DEF WholeInv, Rest

\* What find found is still so, and goes as a whole.
LEMMA ByeUnlinksWhole ==
    ASSUME StepInv, HoldInv, WholeInv, Clean' \subseteq Clean, NEW x \in Legs, ByeUnlinks(x)
    PROVE  WholeInv'
<1> DEFINE S == ByeLegs(x)
<1> USE DEF ByeUnlinks, Unlink
<1>0. S \subseteq Legs /\ x \in S /\ x \in Hanging /\ S = {x} \cup byeBr[x]
    BY ByeBase DEF Hanging, ByeLegs
<1>1. /\ \A l \in S : legs'[l] = None /\ l \notin orphans'
      /\ \A l \in Legs \ S : legs'[l] = legs[l] /\ (l \in orphans' <=> l \in orphans)
    BY <1>0
<1>2. Confined(S)
    BY <1>1 DEF Confined, None
<1>3. ASSUME NEW l \in Clean', l \in S
      PROVE  MapAt(l)' /\ LiveAt(l)' /\ (l = x => ByeAt(l)')
    <2>1. l \in Legs /\ l \in Clean
        BY DEF Clean
    <2>2. x \in Clean /\ ~Linking(x)
        BY <1>0, <1>3, <2>1, ByeBase
    <2>3. byeBr[x] = legs[x] /\ MapAt(x)
        BY <2>2 DEF WholeInv, ByeAt
    <2>4. \A z \in Legs : legs[z] \cap S # {} => z \in S
        <3>1. CASE Apart(x)
            BY <1>0, <2>3, <3>1 DEF Apart, None
        <3>2. CASE x \in legs[x] /\ Whole(legs[x])
            BY <1>0, <2>3, <3>2 DEF Whole
        <3> QED BY <2>2, <2>3, <3>1, <3>2 DEF MapAt
    <2>5. \A m \in S : Out(m)'
        <3>1. \A z \in Legs : legs'[z] \cap S = {}
            BY <1>1, <2>4 DEF None
        <3> QED BY <1>1, <3>1 DEF Out, Apart
    <2>6. MapAt(l)' /\ LiveAt(l)'
        BY <1>3, <2>5 DEF MapAt, LiveAt, Out, Apart, Found
    <2>7. ByeAt(x)'
        <3>1. \A m \in byeBr'[x] : Out(m)'
            BY <1>0, <2>5
        <3> QED BY <3>1 DEF ByeAt, StepInv, TypesOK
    <2> QED BY <2>6, <2>7
<1>4. PICK s \in {"unlinked", "done"} : bye' = [bye EXCEPT ![x] = s]
    OBVIOUS
<1> QED BY <1>1, <1>2, <1>3, <1>4, HangFrame

\* onBye hangs up a leg that is out of the maps.
LEMMA ByeRelayedWhole ==
    ASSUME StepInv, HoldInv, WholeInv, Clean' \subseteq Clean, NEW x \in Legs, ByeRelayed(x)
    PROVE  WholeInv'
<1> DEFINE S == ByeLegs(x)
           o == Other(byeBr[x], x)
<1> USE DEF ByeRelayed, pbx
<1>0. S \subseteq Legs /\ x \in S /\ x \in Hanging
    BY ByeBase DEF Hanging
<1>1. x \in byeBr[x] /\ o \in byeBr[x] /\ o \in Legs /\ S = byeBr[x]
    BY OtherFacts DEF StepInv, DownInv, TypesOK, ByeLegs
<1>2. \A l \in Legs \ S : end'[l] = end[l]
    BY <1>1 DEF Bye, StepInv, TypesOK
<1>3. Confined(S)
    BY <1>2 DEF Confined
<1>4. ASSUME NEW l \in Clean', l \in S
      PROVE  MapAt(l)' /\ LiveAt(l)' /\ (l = x => ByeAt(l)')
    <2>1. l \in Legs /\ l \in Clean
        BY DEF Clean
    <2>2. x \in Clean
        BY <1>0, <1>4, <2>1, ByeBase
    <2>3. Out(l)
        BY <1>1, <1>4, <2>2 DEF WholeInv, ByeAt
    <2>4. MapAt(l)' /\ LiveAt(l)'
        BY <2>3 DEF MapAt, LiveAt, Out, Apart, Found
    <2>5. l = x => ByeAt(l)'
        BY DEF ByeAt, StepInv, TypesOK
    <2> QED BY <2>4, <2>5
<1>5. \A y \in Legs \ {x} : byeBr'[y] = byeBr[y]
    BY DEF StepInv, TypesOK
<1> QED BY <1>3, <1>4, <1>5, HangFrame

\* onBye learns of the other leg.
LEMMA OnByeWhole ==
    ASSUME StepInv, HoldInv, WholeInv, Clean' \subseteq Clean, NEW x \in Legs, OnBye(x)
    PROVE  WholeInv'
<1> USE DEF OnBye, pbx
<1>0. x \in Hanging /\ x \in ByeLegs(x)
    BY DEF Hanging, ByeLegs
<1>1. Acts(x) /\ Confined({}) /\ Separate({})
    BY DEF Acts, Confined, Separate, StepInv, TypesOK
<1>2. \A l \in Clean' \ {x} : Rest(l)'
    BY <1>1, Frame
<1>3. byeBr'[x] = legs[x] /\ bye'[x] = IF Found(x) THEN "found" ELSE "done"
    BY DEF StepInv, TypesOK
<1>4. x \in Clean' => Rest(x)'
    <2> SUFFICES ASSUME x \in Clean' PROVE Rest(x)'
        OBVIOUS
    <2>1. x \in Clean /\ MapAt(x) /\ LiveAt(x)
        BY DEF WholeInv
    <2>2. invite[x] \in {"none", "done"} /\ refer[x] \in {"none", "done"}
        BY <1>0, <2>1, ByeBase
    <2>3. MapAt(x)'
        BY <2>1 DEF MapAt, Linking, Apart, Whole, ReferLegs
    <2>4. LiveAt(x)' /\ ByeAt(x)'
        BY <1>3 DEF LiveAt, ByeAt, Found
    <2> QED BY <2>2, <2>3, <2>4 DEF Rest, InviteAt, ReferAt
<1>5. ASSUME NEW l \in Clean'
      PROVE  TouchAt(l)'
    <2>1. l \in Clean /\ l \in Legs /\ TouchAt(l) /\ MapAt(l)
        BY DEF Clean, WholeInv
    <2>2. \A a \in Inviting' : InviteLegs(a)' \cap legs'[l] # {} => l \in InviteLegs(a)'
        BY <2>1 DEF TouchAt, Inviting, InviteLegs, Callee
    <2>3. \A t \in Referring' : ReferLegs(t)' \cap legs'[l] # {} =>
              l \in ReferLegs(t)' \/ (refer'[t] = "attended" /\ move'[t].br \cap legs'[l] = {})
        BY <2>1 DEF TouchAt, Referring, ReferLegs
    <2>4. \A y \in Hanging' : y # x /\ ByeLegs(y)' \cap legs'[l] # {} =>
              l \in ByeLegs(y)' \/ bye'[y] = "sent"
        BY <2>1 DEF TouchAt, Hanging, ByeLegs, StepInv, TypesOK
    <2>5. ({x} \cup legs[x]) \cap legs[l] # {} => l \in {x} \cup legs[x]
        <3>1. CASE Apart(l)
            BY <3>1 DEF Apart, None
        <3>2. CASE l \in legs[l] /\ Whole(legs[l])
            <4>1. ({x} \cup legs[x]) \cap legs[l] # {} => x \in legs[l]
                BY <3>2 DEF Whole
            <4> QED BY <3>2, <4>1 DEF Whole
        <3>3. CASE Linking(l)
            BY <1>0, <2>1, <3>3, LinkApart
        <3> QED BY <2>1, <3>1, <3>2, <3>3 DEF MapAt
    <2>6. x \in Hanging' => (ByeLegs(x)' \cap legs'[l] # {} => l \in ByeLegs(x)')
        BY <1>3, <2>5 DEF ByeLegs
    <2> QED BY <2>2, <2>3, <2>4, <2>6 DEF TouchAt
<1> QED BY <1>2, <1>4, <1>5 DEF WholeInv, Rest

\* Handlers that share a leg, or have one that is lost, are not clean.
LEMMA Races ==
    ASSUME NEW l \in Clean'
    PROVE  /\ \A a \in Inviting', x \in Hanging' :
                l \in InviteLegs(a)' => InviteLegs(a)' \cap ByeLegs(x)' = {}
           /\ \A t \in Referring', x \in Hanging' :
                l \in ReferLegs(t)' => ReferLegs(t)' \cap ByeLegs(x)' = {}
           /\ \A s \in Referring', t \in Referring' :
                l \in ReferLegs(s)' /\ s # t => ReferLegs(s)' \cap ReferLegs(t)' = {}
           /\ \A t \in Referring' : l \in ReferLegs(t)' => ReferLegs(t)' \cap lost' = {}
<1> DEFINE Of(k) == LegsOf(k[1], k[2])'
           Bad == {g \in Running' : \/ Of(g) \cap (raced' \cup lost') # {}
                                    \/ \E k \in Running' \ {g} : Of(g) \cap Of(k) # {}}
<1>1. Overlap' = UNION {Of(g) : g \in Bad}
    BY DEF Overlap
<1>2. \A g \in Bad : l \notin Of(g)
    BY <1>1 DEF Clean
<1>3. /\ \A a \in Inviting' : <<"invite", a>> \in Running' /\ Of(<<"invite", a>>) = InviteLegs(a)'
      /\ \A x \in Hanging' : <<"bye", x>> \in Running' /\ Of(<<"bye", x>>) = ByeLegs(x)'
      /\ \A t \in Referring' : <<"refer", t>> \in Running' /\ Of(<<"refer", t>>) = ReferLegs(t)'
    BY DEF Running, LegsOf, InviteLegs, ByeLegs, ReferLegs
<1>4. \A g \in Running' : l \in Of(g) =>
        Of(g) \cap lost' = {} /\ \A k \in Running' : k # g => Of(g) \cap Of(k) = {}
    BY <1>2
<1> HIDE DEF Of, Bad
<1>5. ASSUME NEW a \in Inviting', NEW x \in Hanging', l \in InviteLegs(a)'
      PROVE  InviteLegs(a)' \cap ByeLegs(x)' = {}
    <2>1. <<"invite", a>> # <<"bye", x>>
        OBVIOUS
    <2> QED BY <1>3, <1>4, <1>5, <2>1
<1>6. ASSUME NEW t \in Referring', NEW x \in Hanging', l \in ReferLegs(t)'
      PROVE  ReferLegs(t)' \cap ByeLegs(x)' = {}
    <2>1. <<"refer", t>> # <<"bye", x>>
        OBVIOUS
    <2> QED BY <1>3, <1>4, <1>6, <2>1
<1>7. ASSUME NEW s \in Referring', NEW t \in Referring', l \in ReferLegs(s)', s # t
      PROVE  ReferLegs(s)' \cap ReferLegs(t)' = {}
    <2>1. <<"refer", s>> # <<"refer", t>>
        BY <1>7
    <2> QED BY <1>3, <1>4, <1>7, <2>1
<1>8. \A t \in Referring' : l \in ReferLegs(t)' => ReferLegs(t)' \cap lost' = {}
    BY <1>3, <1>4
<1> QED BY <1>5, <1>6, <1>7, <1>8

\* The endpoint hangs up: a handler that works on the leg is not clean any more.
LEMMA HangUpWhole ==
    ASSUME StepInv, HoldInv, WholeInv, Clean' \subseteq Clean, NEW x \in Legs, HangUp(x)
    PROVE  WholeInv'
<1> USE DEF HangUp, pbx
<1>0. /\ \A y \in Legs \ {x} : end'[y] = end[y] /\ bye'[y] = bye[y]
      /\ bye'[x] \in {"sent", "done"} /\ (bye'[x] = "done" => x \in lost')
    BY DEF Lose, StepInv, TypesOK
<1>1. x \in Clean' => bye'[x] = "sent"
    BY <1>0 DEF Clean
<1> SUFFICES ASSUME NEW l \in Clean'
             PROVE  MapAt(l)' /\ LiveAt(l)' /\ TouchAt(l)' /\ InviteAt(l)' /\ ByeAt(l)' /\ ReferAt(l)'
    BY DEF WholeInv
<1>2. /\ l \in Clean /\ l \in Legs
      /\ MapAt(l) /\ LiveAt(l) /\ TouchAt(l) /\ InviteAt(l) /\ ByeAt(l) /\ ReferAt(l)
    BY DEF WholeInv, Clean
<1>3. MapAt(l)'
    BY <1>2 DEF MapAt, Linking, Apart, Whole, ReferLegs
<1>4. LiveAt(l)'
    BY <1>0, <1>1, <1>2 DEF LiveAt, Found
<1>5. TouchAt(l)'
    <2>1. /\ Inviting' = Inviting /\ Referring' = Referring
          /\ \A y \in Hanging' : y # x => y \in Hanging
          /\ x \in Hanging' => bye'[x] = "sent"
        BY <1>0 DEF Inviting, Referring, Hanging
    <2>2. \A y : ByeLegs(y)' = ByeLegs(y) /\ InviteLegs(y)' = InviteLegs(y) /\ ReferLegs(y)' = ReferLegs(y)
        BY DEF ByeLegs, InviteLegs, ReferLegs, Callee
    <2>3. \A y \in Hanging' : y # x => bye'[y] = bye[y]
        BY <1>0 DEF Hanging
    <2> QED BY <1>2, <2>1, <2>2, <2>3 DEF TouchAt
<1>6. InviteAt(l)'
    <2>1. ~(l = x /\ invite[l] = "answer")
        <3> SUFFICES ASSUME l = x, invite[l] = "answer" PROVE FALSE
            OBVIOUS
        <3>1. x \in Inviting' /\ x \in Hanging'
            BY <1>1 DEF Inviting, Hanging
        <3>2. x \in InviteLegs(x)' /\ x \in ByeLegs(x)'
            BY DEF InviteLegs, ByeLegs
        <3> QED BY <3>1, <3>2, Races
    <2> QED BY <1>0, <1>2, <2>1 DEF InviteAt, Out, Apart, InviteLegs, Callee
<1>7. ByeAt(l)'
    BY <1>0, <1>2 DEF ByeAt, Out, Apart
<1>8. ReferAt(l)'
    <2>1. ASSUME refer[l] \in {"reinvite", "drop", "move", "link"}, move[l].nl # 0
          PROVE  move[l].nl # x
        <3> SUFFICES ASSUME move[l].nl = x PROVE FALSE
            OBVIOUS
        <3>1. l \in Referring' /\ l \in ReferLegs(l)' /\ x \in ReferLegs(l)'
            BY <1>2, <2>1 DEF Referring, ReferLegs, Legs
        <3>2. x \notin lost'
            BY <3>1, Races
        <3>3. x \in Hanging' /\ x \in ByeLegs(x)'
            BY <1>0, <3>2 DEF Hanging, ByeLegs
        <3> QED BY <3>1, <3>3, Races
    <2>2. ASSUME refer[l] \in {"reinvite", "drop", "move", "link"}, move[l].nl # 0
          PROVE  end'[move[l].nl] = "up"
        <3>1. move[l].nl \in Legs
            BY <1>2, <2>2, Mentioned DEF StepInv
        <3> QED BY <1>0, <1>2, <2>1, <2>2, <3>1 DEF ReferAt
    <2>3. LinkPhase(l) => LinkPhase(l)'
        BY DEF LinkPhase, Keep, Target
    <2> QED BY <1>2, <2>2, <2>3 DEF ReferAt, Out, Apart
<1> QED BY <1>3, <1>4, <1>5, <1>6, <1>7, <1>8

\* No handler knows of a leg that is not there yet.
LEMMA Unknown ==
    ASSUME StepInv, HoldInv, NEW n \in Legs, n > made
    PROVE  /\ \A a \in Inviting : n \notin InviteLegs(a)
           /\ \A x \in Hanging : n \notin ByeLegs(x)
           /\ \A t \in Referring : n \notin ReferLegs(t)
           /\ Out(n) /\ invite[n] = "none" /\ bye[n] = "none" /\ refer[n] = "none"
<1>0. \A m : Settled(m) => m # n
    BY DEF Settled, StepInv, TypesOK, Legs
<1>1. invite[n] = "none" /\ bye[n] = "none" /\ refer[n] = "none"
    BY DEF StepInv, NumberInv
<1>2. \A a \in Inviting : n \notin InviteLegs(a)
    <2>1. \A a \in Inviting : a \in Legs /\ invite[a] # "none"
        BY DEF Inviting
    <2>2. \A a \in Inviting : a # n /\ Callee(a) <= made
        BY <1>1, <2>1 DEF StepInv, NumberInv
    <2> QED BY <2>1, <2>2 DEF InviteLegs, Legs, Callee, StepInv, TypesOK
<1>3. \A x \in Hanging : n \notin ByeLegs(x)
    BY <1>0, <1>1 DEF Hanging, ByeLegs, StepInv, MentionInv
<1>4. \A t \in Referring : n \notin ReferLegs(t)
    <2> SUFFICES ASSUME NEW t \in Referring PROVE n \notin ReferLegs(t)
        OBVIOUS
    <2>1. t \in Legs /\ t # n
        BY <1>1 DEF Referring
    <2>2. move[t].consult # n /\ move[t].nl # n
        BY <1>1, <2>1 DEF HoldInv, StepInv, NumberInv, TypesOK, Legs
    <2>3. n \notin move[t].br /\ n \notin move[t].cb
        BY <1>0, <2>1 DEF StepInv, MentionInv
    <2> QED BY <2>1, <2>2, <2>3 DEF ReferLegs
<1>5. Out(n)
    <2>1. \A z \in Legs : n \notin legs[z]
        BY <1>0 DEF StepInv, MentionInv
    <2> QED BY <1>0, <2>1 DEF Out, Apart, StepInv, TypesOK, HoldInv
<1> QED BY <1>1, <1>2, <1>3, <1>4, <1>5

\* onInvite's two legs are new.
LEMMA OnInviteWhole ==
    ASSUME StepInv, HoldInv, WholeInv, Clean' \subseteq Clean, OnInvite
    PROVE  WholeInv'
<1> USE DEF OnInvite, pbx
<1> DEFINE a == made + 1
           S == {a, a + 1}
<1>0. a \in Legs /\ a + 1 \in Legs /\ a > made /\ a + 1 > made
    BY BridgeConstants DEF StepInv, TypesOK, Legs
<1> HIDE DEF a
<1>1. \A n \in S : /\ n \in Legs
                   /\ \A b \in Inviting : n \notin InviteLegs(b)
                   /\ \A x \in Hanging : n \notin ByeLegs(x)
                   /\ \A t \in Referring : n \notin ReferLegs(t)
                   /\ Out(n) /\ invite[n] = "none" /\ bye[n] = "none" /\ refer[n] = "none"
    BY <1>0, Unknown
<1>2. Acts(a) /\ Confined(S) /\ Separate(S)
    <2>1. Acts(a)
        BY DEF Acts, StepInv, TypesOK, a
    <2>2. Confined(S)
        BY DEF Confined, StepInv, TypesOK, a
    <2>3. Separate(S)
        BY <1>1 DEF Separate
    <2> QED BY <2>1, <2>2, <2>3
<1>3. \A l \in Clean' \ S : Rest(l)'
    <2>1. refer[a] # "link"
        BY <1>1
    <2> QED BY <1>2, <2>1, Frame
<1>4. ASSUME NEW l \in S
      PROVE  Rest(l)'
    <2>1. invite'[l] \in {"none", "dial"} /\ bye'[l] = "none" /\ refer'[l] = "none"
        BY <1>0, <1>1, <1>4 DEF StepInv, TypesOK, a
    <2>2. Out(l)'
        BY <1>1, <1>4 DEF Out, Apart
    <2> QED BY <2>1, <2>2 DEF Rest, MapAt, LiveAt, InviteAt, ByeAt, ReferAt, Out, Apart, Found
<1>5. ASSUME NEW l \in Clean'
      PROVE  TouchAt(l)'
    <2>1. l \in Clean /\ l \in Legs /\ TouchAt(l)
        BY DEF Clean, WholeInv
    <2>2. Inviting' \subseteq Inviting \cup {a} /\ Hanging' = Hanging /\ Referring' = Referring
        BY DEF Inviting, Hanging, Referring, StepInv, TypesOK, a
    <2>3. \A y : ByeLegs(y)' = ByeLegs(y) /\ InviteLegs(y)' = InviteLegs(y) /\ ReferLegs(y)' = ReferLegs(y)
        BY DEF ByeLegs, InviteLegs, ReferLegs, Callee
    <2>4. InviteLegs(a) \cap legs[l] = {}
        <3>1. InviteLegs(a) = S
            BY DEF InviteLegs, Callee
        <3> QED BY <1>1, <2>1, <3>1 DEF Out, Apart
    <2> QED BY <2>1, <2>2, <2>3, <2>4 DEF TouchAt
<1> QED BY <1>3, <1>4, <1>5 DEF WholeInv, Rest

\* A step of a transfer that learns of no leg
LEMMA ReferFrame ==
    ASSUME StepInv, HoldInv, WholeInv, Clean' \subseteq Clean,
           NEW t \in Legs, refer[t] \notin {"none", "done"},
           \A r \in Legs \ {t} : refer'[r] = refer[r] /\ move'[r] = move[r],
           \/ refer'[t] = "done"
           \/ move'[t] = move[t] /\ refer[t] # "attended",
           UNCHANGED <<invite, bye, byeBr>>, Confined(ReferLegs(t)),
           refer[t] # "attended" \/ (legs' = legs /\ orphans' = orphans),
           \A l \in Clean' : l \in ReferLegs(t) =>
               /\ legs'[l] \in {legs[l], None} \/ legs'[l] \subseteq ReferLegs(t)
               /\ MapAt(l)' /\ LiveAt(l)'
               /\ l = t => ReferAt(l)'
    PROVE  WholeInv'
<1> DEFINE S == ReferLegs(t)
<1>0. t \in Referring /\ t \in S
    BY ReferLegsFacts DEF Referring
<1>1. Acts(t)
    BY DEF Acts
<1>2. NoGrowth
    BY <1>0 DEF NoGrowth, Inviting, Hanging, Referring
<1>3. \A l \in Clean' \ (S \cup {t}) : Rest(l)'
    <2>1. \A l \in Clean \ S : (legs' = legs /\ orphans' = orphans) \/ legs[l] \cap S = {}
        BY <1>0, ReferBase DEF WholeInv
    <2>2. Separate(S)
        BY <1>0, ReferBase
    <2> QED BY <1>1, <2>1, <2>2, Frame
<1>4. ASSUME NEW l \in Clean', l \in S
      PROVE  Rest(l)' /\ TouchAt(l)'
    <2>0. l \in Clean /\ l \in Legs
        BY DEF Clean
    <2>1. /\ Only(S, "refer", t)
          /\ invite[l] \in {"none", "done"} /\ bye[l] \in {"none", "done"}
          /\ l # t => refer[l] \in {"none", "done"}
        BY <1>0, <1>4, <2>0, ReferBase
    <2>2. InviteAt(l)' /\ ByeAt(l)'
        BY <2>1 DEF InviteAt, ByeAt
    <2>3. ReferAt(l)'
        <3>1. CASE l = t
            BY <1>4, <3>1
        <3>2. CASE l # t
            <4>1. refer'[l] \in {"none", "done"}
                BY <2>0, <2>1, <3>2
            <4> QED BY <4>1 DEF ReferAt
        <3> QED BY <3>1, <3>2
    <2>4. TouchAt(l)'
        <3>1. TouchAt(l)
            BY <2>0 DEF WholeInv
        <3>2. CASE legs'[l] \in {legs[l], None}
            BY <1>2, <3>1, <3>2, TouchSame
        <3>3. CASE legs'[l] \subseteq S
            BY <1>2, <1>4, <2>1, <3>3, TouchNew
        <3> QED BY <1>4, <3>2, <3>3
    <2> QED BY <1>4, <2>2, <2>3, <2>4 DEF Rest
<1>5. ASSUME NEW l \in Clean', l \notin S
      PROVE  TouchAt(l)'
    <2>1. l \in Clean /\ l \in Legs
        BY DEF Clean
    <2>2. legs'[l] = legs[l] /\ TouchAt(l)
        BY <1>5, <2>1 DEF Confined, WholeInv
    <2> QED BY <1>2, <2>2, TouchSame
<1> QED BY <1>0, <1>3, <1>4, <1>5 DEF WholeInv, Rest

\* A step of a transfer that leaves the maps alone
LEMMA QuietRefer ==
    ASSUME StepInv, HoldInv, WholeInv, Clean' \subseteq Clean,
           NEW t \in Legs, refer[t] \notin {"none", "link", "done"},
           \A r \in Legs \ {t} : refer'[r] = refer[r] /\ move'[r] = move[r],
           \/ refer'[t] = "done"
           \/ move'[t] = move[t] /\ refer[t] # "attended",
           UNCHANGED <<invite, bye, byeBr, legs, orphans>>,
           \A l \in Legs : end'[l] = end[l] \/ (l \in ReferLegs(t) /\ (t \in Clean => Out(l))),
           t \in Clean' => ReferAt(t)'
    PROVE  WholeInv'
<1>0. t \in Referring /\ t \in ReferLegs(t)
    BY ReferLegsFacts DEF Referring
<1>1. Confined(ReferLegs(t))
    BY DEF Confined
<1>2. ASSUME NEW l \in Clean', l \in ReferLegs(t)
      PROVE  MapAt(l)' /\ LiveAt(l)'
    <2>1. l \in Clean /\ l \in Legs /\ MapAt(l) /\ LiveAt(l)
        BY DEF Clean, WholeInv
    <2>2. ~Linking(l) /\ t \in Clean
        BY <1>0, <1>2, <2>1, ReferBase
    <2>3. MapAt(l)'
        BY <2>1, <2>2 DEF MapAt, Apart, Whole
    <2>4. LiveAt(l)'
        BY <2>1, <2>2 DEF LiveAt, Found, Out, Apart
    <2> QED BY <2>3, <2>4
<1> QED BY <1>1, <1>2, ReferFrame

\* Nothing is required of a transfer that is done.
LEMMA DoneAt ==
    ASSUME TypesOK, NEW t \in Legs, Done(t)
    PROVE  refer'[t] = "done" /\ ReferAt(t)'
BY DoneFacts DEF ReferAt

\* blind: the leg it dials is in no bridge.
LEMMA BlindDialsWhole ==
    ASSUME StepInv, HoldInv, WholeInv, Clean' \subseteq Clean, NEW t \in Legs, BlindDials(t)
    PROVE  WholeInv'
<1> USE DEF BlindDials, At, pbx
<1>0. t \in Referring /\ TypesOK
    BY DEF Referring, StepInv
<1>1. CASE Done(t) /\ UNCHANGED <<made, end>>
    BY <1>0, <1>1, DoneFacts, DoneAt, QuietRefer
<1>2. CASE /\ made < MaxLegs /\ made' = made + 1
           /\ end' = [end EXCEPT ![made'] = "early"]
           /\ move' = [move EXCEPT ![t].nl = made']
           /\ Goto(t, "dial")
    <2> DEFINE n == made + 1
               S == {n}
    <2>0. n \in Legs /\ n > made /\ end' = [end EXCEPT ![n] = "early"]
        BY <1>2, BridgeConstants DEF StepInv, TypesOK, Legs
    <2>1. move' = [move EXCEPT ![t].nl = n] /\ refer' = [refer EXCEPT ![t] = "dial"]
        BY <1>2 DEF Goto
    <2> HIDE DEF n
    <2>2. /\ \A b \in Inviting : n \notin InviteLegs(b)
          /\ \A x \in Hanging : n \notin ByeLegs(x)
          /\ \A r \in Referring : n \notin ReferLegs(r)
          /\ Out(n) /\ invite[n] = "none" /\ bye[n] = "none" /\ refer[n] = "none"
        BY <2>0, Unknown
    <2>3. /\ refer'[t] = "dial" /\ \A r \in Legs \ {t} : refer'[r] = refer[r] /\ move'[r] = move[r]
          /\ move'[t].br = move[t].br /\ move'[t].cb = move[t].cb
          /\ move'[t].consult = move[t].consult /\ move'[t].nl = n
        BY <2>1 DEF StepInv, TypesOK, Locals
    <2>4. Acts(t) /\ Confined(S) /\ Separate(S)
        <3>1. Confined(S)
            BY <2>0 DEF Confined, StepInv, TypesOK
        <3> QED BY <2>2, <2>3, <3>1 DEF Acts, Separate
    <2>5. \A l \in Clean' \ {n, t} : Rest(l)'
        BY <2>4, Frame
    <2>6. n # t /\ \A m \in Legs : m = n => Rest(m)'
        <3>1. n # t
            BY <2>2
        <3> SUFFICES ASSUME NEW m \in Legs, m = n PROVE Rest(m)'
            BY <3>1
        <3>2. invite'[m] = "none" /\ bye'[m] = "none" /\ refer'[m] = "none" /\ Out(m)'
            BY <2>2, <2>3, <3>1 DEF Out, Apart
        <3> QED BY <3>2 DEF Rest, MapAt, LiveAt, InviteAt, ByeAt, ReferAt, Out, Apart, Found
    <2>7. t \in Clean' => Rest(t)'
        <3> SUFFICES ASSUME t \in Clean' PROVE Rest(t)'
            OBVIOUS
        <3>1. t \in Clean /\ MapAt(t) /\ LiveAt(t) /\ InviteAt(t) /\ ByeAt(t) /\ ReferAt(t)
            BY DEF WholeInv
        <3>2. ~Linking(t)
            BY <1>0, <3>1, ReferBase, ReferLegsFacts
        <3>3. MapAt(t)'
            BY <3>1, <3>2 DEF MapAt, Apart, Whole
        <3>4. end'[t] = end[t]
            BY <2>0, <2>6 DEF StepInv, TypesOK
        <3>5. LiveAt(t)' /\ InviteAt(t)' /\ ByeAt(t)'
            BY <3>1, <3>4 DEF LiveAt, Found, InviteAt, ByeAt, Out, Apart, InviteLegs, Callee
        <3>6. ReferAt(t)'
            BY <2>3, <3>1 DEF ReferAt
        <3> QED BY <3>3, <3>5, <3>6 DEF Rest
    <2>8. ASSUME NEW l \in Clean'
          PROVE  TouchAt(l)'
        <3>1. l \in Clean /\ l \in Legs /\ TouchAt(l)
            BY DEF Clean, WholeInv
        <3>2. Inviting' = Inviting /\ Hanging' = Hanging /\ Referring' = Referring
            BY <1>0, <2>3 DEF Inviting, Hanging, Referring
        <3>3. /\ \A y : ByeLegs(y)' = ByeLegs(y) /\ InviteLegs(y)' = InviteLegs(y)
              /\ \A r \in Referring : r # t => ReferLegs(r)' = ReferLegs(r)
              /\ \A r \in Referring : r # t => refer'[r] = refer[r] /\ move'[r] = move[r]
            BY <2>3 DEF ByeLegs, InviteLegs, ReferLegs, Callee, Referring
        <3>4. ReferLegs(t) \subseteq ReferLegs(t)' /\ ReferLegs(t)' \subseteq ReferLegs(t) \cup {n}
            <4>1. move[t].nl = 0
                BY DEF StepInv, MoveInv
            <4> QED BY <2>3, <4>1 DEF ReferLegs
        <3>5. n \notin legs[l]
            BY <2>2, <3>1 DEF Out, Apart
        <3>6. ReferLegs(t)' \cap legs'[l] # {} => l \in ReferLegs(t)'
            BY <1>0, <3>1, <3>4, <3>5 DEF TouchAt
        <3> QED BY <3>1, <3>2, <3>3, <3>6 DEF TouchAt
    <2>9. \A l \in Clean' : l \in Legs
        BY DEF Clean
    <2> QED BY <2>5, <2>6, <2>7, <2>8, <2>9 DEF WholeInv, Rest
<1> QED BY <1>1, <1>2

\* The new leg is up, or down and forgotten.
LEMMA BlindDialledWhole ==
    ASSUME StepInv, HoldInv, WholeInv, Clean' \subseteq Clean, NEW t \in Legs, BlindDialled(t)
    PROVE  WholeInv'
<1> USE DEF BlindDialled, At, pbx
<1> DEFINE n == move[t].nl
<1>0. t \in Referring /\ TypesOK /\ n \in Legs /\ n # 0 /\ n \in ReferLegs(t)
    BY Mentioned, ReferLegsFacts DEF Referring, StepInv, MoveInv
<1>1. Out(n)
    <2>1. Pending(n)
        BY <1>0 DEF Pending
    <2> QED BY <1>0, <2>1, PendingOut
<1>2. \A l \in Legs : end'[l] = end[l] \/ (l \in ReferLegs(t) /\ Out(l))
    BY <1>0, <1>1 DEF TypesOK
<1>3. CASE Done(t)
    BY <1>0, <1>2, <1>3, DoneFacts, DoneAt, QuietRefer
<1>4. CASE end' = [end EXCEPT ![n] = "up"] /\ Goto(t, "reinvite") /\ UNCHANGED move
    <2>1. refer'[t] = "reinvite" /\ end'[n] = "up" /\ \A r \in Legs \ {t} : refer'[r] = refer[r]
        BY <1>0, <1>4 DEF Goto, TypesOK
    <2>2. t \in Clean' => ReferAt(t)'
        <3> SUFFICES ASSUME t \in Clean' PROVE ReferAt(t)'
            OBVIOUS
        <3>1. ReferAt(t)
            BY DEF WholeInv
        <3>2. Out(move[t].nl)'
            BY <1>1, <1>4 DEF Out, Apart
        <3> QED BY <1>4, <2>1, <3>1, <3>2 DEF ReferAt
    <2> QED BY <1>2, <1>4, <2>1, <2>2, QuietRefer
<1> QED BY <1>3, <1>4

\* The bridge is still the one onRefer found.
LEMMA BlindReinvitesWhole ==
    ASSUME StepInv, HoldInv, WholeInv, Clean' \subseteq Clean, NEW t \in Legs, BlindReinvites(t)
    PROVE  WholeInv'
<1> USE DEF BlindReinvites, At, pbx
<1>0. PICK s \in {"move", "drop"} : Goto(t, s)
    OBVIOUS
<1>1. refer'[t] = s /\ \A r \in Legs \ {t} : refer'[r] = refer[r]
    BY <1>0 DEF Goto, StepInv, TypesOK
<1>2. t \in Clean' => ReferAt(t)'
    <2> SUFFICES ASSUME t \in Clean' PROVE ReferAt(t)'
        OBVIOUS
    <2>1. ReferAt(t) /\ move[t].consult = 0
        BY DEF WholeInv, StepInv, MoveInv
    <2>2. move[t].nl # 0 => Out(move[t].nl)'
        BY <2>1 DEF ReferAt, Out, Apart
    <2> QED BY <1>1, <2>1, <2>2 DEF ReferAt
<1> QED BY <1>1, <1>2, QuietRefer

\* The new leg goes down outside the maps.
LEMMA BlindDropsWhole ==
    ASSUME StepInv, HoldInv, WholeInv, Clean' \subseteq Clean, NEW t \in Legs, BlindDrops(t)
    PROVE  WholeInv'
<1> USE DEF BlindDrops, At, pbx
<1> DEFINE n == move[t].nl
<1>0. t \in Referring /\ TypesOK /\ n \in Legs /\ n # 0 /\ n \in ReferLegs(t)
    BY Mentioned, ReferLegsFacts DEF Referring, StepInv, MoveInv
<1>1. t \in Clean => Out(n)
    BY <1>0 DEF WholeInv, ReferAt
<1>2. \A l \in Legs : end'[l] = end[l] \/ (l \in ReferLegs(t) /\ (t \in Clean => Out(l)))
    BY <1>0, <1>1 DEF TypesOK, Bye
<1> QED BY <1>0, <1>2, DoneFacts, DoneAt, QuietRefer

\* The consultation's leg goes down outside the maps.
LEMMA ConsultDroppedWhole ==
    ASSUME StepInv, HoldInv, WholeInv, Clean' \subseteq Clean, NEW t \in Legs, ConsultDropped(t)
    PROVE  WholeInv'
<1> USE DEF ConsultDropped, At, pbx
<1> DEFINE c == move[t].consult
<1>0. t \in Referring /\ TypesOK /\ c \in Legs /\ c \in ReferLegs(t)
    <2>1. t \in Referring /\ c \in move[t].cb
        BY DEF Referring, StepInv, MoveInv
    <2> QED BY <2>1, ReferLegsFacts DEF StepInv
<1>1. t \in Clean => Out(c)
    BY <1>0 DEF WholeInv, ReferAt
<1>2. \A l \in Legs : end'[l] = end[l] \/ (l \in ReferLegs(t) /\ (t \in Clean => Out(l)))
    BY <1>0, <1>1 DEF TypesOK, Bye
<1> QED BY <1>0, <1>2, DoneFacts, DoneAt, QuietRefer

\* Both bridges are still the ones attended found.
LEMMA AttendedReinvitesWhole ==
    ASSUME StepInv, HoldInv, WholeInv, Clean' \subseteq Clean, NEW t \in Legs, AttendedReinvites(t)
    PROVE  WholeInv'
<1> USE DEF AttendedReinvites, At, pbx
<1>0. refer[t] \in {"keep", "target"} /\ TypesOK
    BY DEF StepInv
<1>1. CASE Done(t)
    BY <1>0, <1>1, DoneFacts, DoneAt, QuietRefer
<1>2. CASE \E s \in {"target", "move"} : Goto(t, s) /\ UNCHANGED move
    <2>0. PICK s \in {"target", "move"} : Goto(t, s) /\ UNCHANGED move
        BY <1>2
    <2>1. refer'[t] = s /\ \A r \in Legs \ {t} : refer'[r] = refer[r]
        BY <1>0, <2>0 DEF Goto, TypesOK
    <2>2. t \in Clean' => ReferAt(t)'
        <3> SUFFICES ASSUME t \in Clean' PROVE ReferAt(t)'
            OBVIOUS
        <3>1. ReferAt(t) /\ move[t].nl = 0
            BY <1>0 DEF WholeInv, StepInv, MoveInv
        <3> QED BY <1>0, <2>0, <2>1, <3>1 DEF ReferAt
    <2> QED BY <1>0, <2>0, <2>1, <2>2, QuietRefer
<1> QED BY <1>1, <1>2

\* The consultation call, and with it its other leg
LEMMA AttendedFindsWhole ==
    ASSUME StepInv, HoldInv, WholeInv, Clean' \subseteq Clean, NEW t \in Legs, AttendedFinds(t)
    PROVE  WholeInv'
<1> USE DEF AttendedFinds, At, pbx
<1> DEFINE c == move[t].consult
<1>0. t \in Referring /\ TypesOK /\ c \in Legs /\ c # 0 /\ move[t].nl = 0
    BY Mentioned DEF Referring, StepInv, MoveInv
<1>1. CASE Done(t)
    BY <1>0, <1>1, DoneFacts, DoneAt, QuietRefer
<1>2. CASE /\ Goto(t, "keep") /\ move' = [move EXCEPT ![t].cb = legs[c]]
           /\ legs[c] \notin {None, move[t].br}
    <2>1. /\ refer'[t] = "keep" /\ \A r \in Legs \ {t} : refer'[r] = refer[r] /\ move'[r] = move[r]
          /\ move'[t].br = move[t].br /\ move'[t].cb = legs[c]
          /\ move'[t].consult = c /\ move'[t].nl = 0
        BY <1>0, <1>2 DEF TypesOK, Locals, Goto
    <2>2. Acts(t) /\ Confined({}) /\ Separate({})
        BY <2>1 DEF Acts, Confined, Separate
    <2>3. \A l \in Clean' \ {t} : Rest(l)'
        BY <2>2, Frame
    <2>4. t \in Clean' => Rest(t)'
        <3> SUFFICES ASSUME t \in Clean' PROVE Rest(t)'
            OBVIOUS
        <3>1. t \in Clean /\ MapAt(t) /\ LiveAt(t) /\ InviteAt(t) /\ ByeAt(t) /\ ReferAt(t)
            BY DEF WholeInv
        <3>2. ~Linking(t)
            BY <1>0, <3>1, ReferBase, ReferLegsFacts
        <3>3. MapAt(t)'
            BY <3>1, <3>2 DEF MapAt, Apart, Whole
        <3>4. LiveAt(t)' /\ InviteAt(t)' /\ ByeAt(t)'
            BY <3>1 DEF LiveAt, Found, InviteAt, ByeAt, Out, Apart, InviteLegs, Callee
        <3>5. ReferAt(t)'
            BY <1>2, <2>1, <3>1 DEF ReferAt
        <3> QED BY <3>3, <3>4, <3>5 DEF Rest
    <2>5. ReferLegs(t)' = ReferLegs(t) \cup legs[c]
        <3>1. move[t].cb = {}
            BY DEF HoldInv, None
        <3> QED BY <1>0, <2>1, <3>1 DEF ReferLegs
    <2>6. ASSUME NEW l \in Clean'
          PROVE  TouchAt(l)'
        <3>1. l \in Clean /\ l \in Legs /\ TouchAt(l) /\ MapAt(l)
            BY DEF Clean, WholeInv
        <3>2. Inviting' = Inviting /\ Hanging' = Hanging /\ Referring' = Referring
            BY <1>0, <2>1 DEF Inviting, Hanging, Referring
        <3>3. /\ \A y : ByeLegs(y)' = ByeLegs(y) /\ InviteLegs(y)' = InviteLegs(y)
              /\ \A r \in Referring : r # t => ReferLegs(r)' = ReferLegs(r)
              /\ \A r \in Referring : r # t => refer'[r] = refer[r] /\ move'[r] = move[r]
            BY <2>1 DEF ByeLegs, InviteLegs, ReferLegs, Callee, Referring
        <3>4. ReferLegs(t)' \cap legs'[l] # {} => l \in ReferLegs(t)'
            <4> SUFFICES ASSUME ReferLegs(t)' \cap legs[l] # {}, l \notin ReferLegs(t)
                         PROVE  l \in legs[c]
                BY <2>5
            <4>1. t \in move[t].br /\ move[t].br \subseteq ReferLegs(t)
                BY <1>0, ReferLegsFacts DEF StepInv, MoveInv
            <4>2. move[t].br \cap legs[l] = {}
                BY <1>0, <3>1, <4>1 DEF TouchAt
            <4>3. ReferLegs(t)' \subseteq {c} \cup move[t].br \cup legs[c]
                BY <2>1, <4>1 DEF ReferLegs
            <4>4. ({c} \cup legs[c]) \cap legs[l] # {}
                BY <4>2, <4>3
            <4>5. CASE Apart(l)
                BY <4>4, <4>5 DEF Apart, None
            <4>6. CASE l \in legs[l] /\ Whole(legs[l])
                <5>1. c \in legs[l]
                    BY <1>0, <4>4, <4>6 DEF Whole
                <5> QED BY <4>6, <5>1 DEF Whole
            <4>7. CASE Linking(l)
                <5>1. PICK r \in Legs : refer[r] = "link" /\ l \in ReferLegs(r)
                    BY <4>7 DEF Linking
                <5>2. r \in Referring /\ r # t
                    BY <5>1 DEF Referring
                <5>3. Only(ReferLegs(r), "refer", r)
                    BY <3>1, <5>1, <5>2, ReferBase
                <5>4. c \in ReferLegs(t)
                    BY <1>0, ReferLegsFacts
                <5>5. c \notin ReferLegs(r)
                    BY <1>0, <5>2, <5>3, <5>4 DEF Only
                <5> QED BY <1>0, <3>1, <4>4, <5>1, <5>5, LinkKnown
            <4> QED BY <3>1, <4>5, <4>6, <4>7 DEF MapAt
        <3> QED BY <3>1, <3>2, <3>3, <3>4 DEF TouchAt
    <2> QED BY <2>3, <2>4, <2>6 DEF WholeInv, Rest
<1> QED BY <1>1, <1>2

\* Both bridges were whole and are apart now, the transfer being the only one to know.
LEMMA MovesWhole ==
    ASSUME StepInv, HoldInv, WholeInv, Clean' \subseteq Clean, NEW t \in Legs, Moves(t)
    PROVE  WholeInv'
<1> USE DEF Moves, At
<1> DEFINE S == ReferLegs(t)
           c == move[t].consult
           n == move[t].nl
           k == Keep(t)
           g == Target(t)
           br == move[t].br
           cb == move[t].cb
<1>0. /\ t \in Referring /\ TypesOK /\ t \in S /\ S \subseteq Legs
      /\ br = {t, k} /\ k \in Legs /\ k \in S
      /\ br \subseteq Legs /\ cb \subseteq Legs
    BY MoveFacts, ReferLegsFacts, Mentioned DEF Referring, StepInv
<1>1. /\ c # 0 => c \in cb /\ c \in Legs /\ c \in S /\ cb = {c, g} /\ g \in Legs
      /\ c = 0 => cb = {} /\ n # 0
    <2>1. c # 0 => c \in cb
        BY DEF StepInv, MoveInv
    <2>2. c \in cb => cb = {c, g} /\ c \in Legs /\ g \in Legs
        BY OtherFacts, Mentioned DEF Target, StepInv
    <2>3. c = 0 => cb = {}
        BY <1>0 DEF HoldInv, None, Legs
    <2>4. c = 0 => n # 0
        BY <2>3 DEF StepInv, MoveInv
    <2> QED BY <1>0, <2>1, <2>2, <2>3, <2>4, ReferLegsFacts
<1>2. /\ refer'[t] = "link" /\ \A r \in Legs \ {t} : refer'[r] = refer[r]
      /\ ReferLegs(t)' = S
    BY <1>0 DEF Goto, TypesOK, ReferLegs
<1>3. /\ \A z \in Legs : legs'[z] = IF z \in {t, c} THEN None ELSE legs[z]
      /\ \A z \in Legs : z \in orphans' <=> z \in orphans \/ z = t
    OBVIOUS
<1>4. Confined(S)
    BY <1>0, <1>1, <1>3 DEF Confined, None, Legs
<1>5. ASSUME NEW l \in Clean', l \in S
      PROVE  MapAt(l)' /\ LiveAt(l)' /\ ReferAt(t)'
    <2>0. l \in Clean /\ l \in Legs
        BY DEF Clean
    <2>1. S \subseteq Clean
        BY <1>0, <1>5, <2>0, ReferBase
    <2>2. \A m \in S : ~Linking(m) /\ MapAt(m) /\ LiveAt(m)
        BY <1>0, <2>1, ReferBase DEF WholeInv
    <2>3. /\ br = legs[t]
          /\ c # 0 => cb = legs[c] /\ cb # br
          /\ n # 0 => Out(n) /\ end[n] = "up"
        BY <1>0, <2>1 DEF WholeInv, ReferAt
    <2>4. Whole(br)
        BY <1>0, <2>2, <2>3 DEF MapAt, Apart, None
    <2>5. c # 0 => Whole(cb) /\ br \cap cb = {}
        <3>1. c # 0 => Whole(cb)
            BY <1>1, <2>2, <2>3 DEF MapAt, Apart, None
        <3> QED BY <2>3, <2>4, <3>1 DEF Whole
    <2>6. k # t /\ (c # 0 => g # c)
        <3>1. k # t
            BY <1>0, <2>4 DEF Whole
        <3>2. c # 0 => g # c
            BY <1>1, <2>5 DEF Whole
        <3> QED BY <3>1, <3>2
    <2>7. MapAt(l)'
        BY <1>2, <1>5 DEF MapAt, Linking
    <2>8. \A m \in S : Found(m) => end[m] = "up"
        <3>1. \A m \in S : invite[m] \in {"none", "done"} /\ bye[m] \in {"none", "done"}
            BY <1>0, <2>1, ReferBase
        <3> QED BY <2>2, <3>1 DEF LiveAt
    <2>9. LiveAt(l)'
        <3>1. Found(t)
            BY <1>0, <2>3 DEF Found, None
        <3>2. Found(l)' => Found(l)
            BY <1>3, <2>0, <3>1 DEF Found
        <3> QED BY <1>5, <2>8, <3>2 DEF LiveAt
    <2>10. LinkPhase(t)'
        <3>1. k \notin {t, c} /\ legs'[k] = br /\ k \notin orphans' /\ legs'[t] = None
            BY <1>0, <1>1, <1>3, <2>4, <2>5, <2>6 DEF Whole, Legs
        <3>2. c # 0 => /\ legs'[c] = None /\ c \notin orphans'
                       /\ legs'[g] = cb /\ g \notin orphans'
            BY <1>0, <1>1, <1>3, <2>4, <2>5, <2>6 DEF Whole
        <3>3. \A z \in Legs : legs'[z] \cap (br \cup cb) # {} => z = k \/ z \in cb \ {c}
            <4> SUFFICES ASSUME NEW z \in Legs, legs'[z] \cap (br \cup cb) # {}
                         PROVE  z = k \/ z \in cb \ {c}
                OBVIOUS
            <4>1. z \notin {t, c} /\ legs'[z] = legs[z]
                BY <1>3 DEF None
            <4>2. CASE legs[z] \cap br # {}
                BY <1>0, <2>4, <4>1, <4>2 DEF Whole
            <4>3. CASE legs[z] \cap cb # {}
                BY <1>1, <2>5, <4>1, <4>3 DEF Whole
            <4> QED BY <4>1, <4>2, <4>3
        <3>4. Keep(t)' = k /\ Target(t)' = g
            BY DEF Keep, Target
        <3> QED BY <2>5, <2>6, <3>1, <3>2, <3>3, <3>4 DEF LinkPhase
    <2>11. n # 0 => Out(n)'
        <3> SUFFICES ASSUME n # 0 PROVE Out(n)'
            OBVIOUS
        <3>1. n \in Legs /\ Out(n)
            BY <1>0, <2>3, Mentioned
        <3>2. n # t
            BY <1>0, <2>3, <3>1 DEF Out, Apart, None
        <3> QED BY <1>3, <3>1, <3>2 DEF Out, Apart, None
    <2>12. ReferAt(t)'
        BY <1>2, <2>3, <2>10, <2>11 DEF ReferAt
    <2> QED BY <2>7, <2>9, <2>12
<1>6. \A l \in Clean' : l \in S => legs'[l] \in {legs[l], None}
    BY <1>0, <1>3
<1> QED BY <1>2, <1>4, <1>5, <1>6, ReferFrame

\* The new bridge is whole; what the transfer took out is in none.
LEMMA LinksWhole ==
    ASSUME StepInv, HoldInv, WholeInv, Clean' \subseteq Clean, NEW t \in Legs, Links(t)
    PROVE  WholeInv'
<1> USE DEF Links, At
<1> DEFINE S == ReferLegs(t)
           c == move[t].consult
           n == move[t].nl
           k == Keep(t)
           g == Target(t)
           br == move[t].br
           cb == move[t].cb
           y == IF c = 0 THEN n ELSE g
           B == {k, y}
<1>0. /\ t \in Referring /\ TypesOK /\ t \in S /\ S \subseteq Legs
      /\ br = {t, k} /\ k \in Legs /\ k \in S
      /\ br \subseteq S /\ cb \subseteq S
    BY MoveFacts, ReferLegsFacts, Mentioned DEF Referring, StepInv
<1>1. /\ c # 0 => c \in cb /\ c \in Legs /\ c \in S /\ cb = {c, g} /\ g \in S /\ n = 0
      /\ c = 0 => cb = {} /\ n # 0 /\ n \in S
    <2>1. c # 0 => c \in cb /\ n = 0
        BY <1>0 DEF StepInv, MoveInv, Legs
    <2>2. c \in cb => cb = {c, g} /\ c \in Legs /\ g \in S
        BY <1>0, OtherFacts, Mentioned DEF Target, StepInv
    <2>3. c = 0 => cb = {}
        BY <1>0 DEF HoldInv, None, Legs
    <2>4. c = 0 => n # 0
        BY <2>3 DEF StepInv, MoveInv
    <2> QED BY <1>0, <2>1, <2>2, <2>3, <2>4, ReferLegsFacts
<1>2. S = {t, k, y} \cup cb
    BY <1>0, <1>1 DEF ReferLegs, Legs
<1>3. Link(B) /\ y \in S
    BY <1>1
<1>4. /\ \A z \in Legs : legs'[z] = IF z \in B THEN B ELSE legs[z]
      /\ B \subseteq S
    BY <1>0, <1>3 DEF Link
<1>5. /\ \A r \in Legs \ {t} : refer'[r] = refer[r] /\ move'[r] = move[r]
      /\ \/ refer'[t] = "done"
         \/ refer'[t] = "consult" /\ c # 0 /\ move'[t] = move[t]
    <2>1. CASE Done(t)
        BY <1>0, <2>1, DoneFacts
    <2>2. CASE c # 0 /\ Goto(t, "consult") /\ UNCHANGED move
        BY <1>0, <2>2 DEF Goto, TypesOK
    <2> QED BY <2>1, <2>2
<1>6. Confined(S)
    BY <1>4 DEF Confined
<1> HIDE DEF S, c, n, k, g, br, cb, y, B
<1>7. ASSUME NEW l \in Clean', l \in S
      PROVE  MapAt(l)' /\ LiveAt(l)' /\ ReferAt(t)'
    <2>0. l \in Clean /\ l \in Legs
        BY DEF Clean
    <2>1. S \subseteq Clean
        BY <1>0, <1>7, <2>0, ReferBase DEF S
    <2>2. /\ legs[t] = None /\ k # t
          /\ legs[k] = br /\ k \notin orphans
          /\ c # 0 => /\ legs[c] = None /\ c \notin orphans
                      /\ g # c /\ br \cap cb = {}
                      /\ legs[g] = cb /\ g \notin orphans
          /\ \A z \in Legs : legs[z] \cap (br \cup cb) # {} => z = k \/ z \in cb \ {c}
          /\ n # 0 => Out(n) /\ end[n] = "up"
        BY <1>0, <2>1 DEF WholeInv, ReferAt, LinkPhase, c, n, k, g, br, cb
    <2>3. c = 0 => n \notin br
        BY <1>0, <1>1, <2>2 DEF Out, Apart
    <2>4. y # k /\ y # t /\ t \notin B /\ (c # 0 => c \notin B)
        BY <1>0, <1>1, <2>2, <2>3 DEF y, B
    <2>5. \A z \in Legs : z \notin B => legs[z] \cap ({t, k, y} \cup cb) = {}
        <3> SUFFICES ASSUME NEW z \in Legs, z \notin B
                     PROVE  legs[z] \cap ({t, k, y} \cup cb) = {}
            OBVIOUS
        <3>1. z # k /\ (c # 0 => z # g)
            BY DEF B, y
        <3>2. z \notin cb \ {c}
            BY <1>1, <3>1
        <3>3. legs[z] \cap (br \cup cb) = {}
            BY <2>2, <3>1, <3>2
        <3>4. c = 0 => n \notin legs[z]
            BY <1>1, <2>2 DEF Out, Apart
        <3> QED BY <1>0, <1>1, <3>3, <3>4 DEF y
    <2>6. B \subseteq Legs /\ B = {k, y} /\ y \notin orphans
        BY <1>0, <1>1, <1>4, <2>2 DEF B, y, Out
    <2>7. \A b : b = B => Whole(b)'
        <3>1. \A z \in Legs : legs'[z] \cap B # {} => z \in B
            BY <1>4, <2>5, <2>6
        <3>2. \A m \in B : legs'[m] = B /\ m \notin orphans'
            BY <1>4, <2>2, <2>6
        <3>3. \E m1, m2 \in Legs : m1 # m2 /\ B = {m1, m2}
            BY <2>4, <2>6
        <3> QED BY <3>1, <3>2, <3>3 DEF Whole
    <2>8. \A m \in S : m \notin B => Apart(m)'
        <3>1. \A m \in S : m \notin B => legs[m] = None
            BY <1>1, <1>2, <2>2 DEF B, y
        <3>2. \A m \in S : m \notin B => \A z \in Legs : m \notin legs'[z]
            BY <1>2, <1>4, <2>5
        <3> QED BY <1>0, <1>4, <3>1, <3>2 DEF Apart
    <2>9. MapAt(l)'
        <3>1. CASE l \in B
            BY <1>4, <2>0, <2>7, <3>1 DEF MapAt
        <3>2. CASE l \notin B
            BY <1>7, <2>8, <3>2 DEF MapAt
        <3> QED BY <3>1, <3>2
    <2>10. \A m \in S : Found(m) => end[m] = "up"
        <3>1. \A m \in S : invite[m] \in {"none", "done"} /\ bye[m] \in {"none", "done"}
            BY <1>0, <2>1, ReferBase DEF S
        <3>2. \A m \in S : LiveAt(m)
            BY <2>1 DEF WholeInv
        <3> QED BY <3>1, <3>2 DEF LiveAt
    <2>11. LiveAt(l)'
        <3>1. CASE l \notin B
            <4>1. Found(l)' => Found(l)
                BY <1>4, <2>0, <3>1 DEF Found
            <4> QED BY <1>7, <2>10, <4>1 DEF LiveAt
        <3>2. CASE l \in B /\ c = 0 /\ l = n
            BY <1>1, <2>2, <3>2 DEF LiveAt
        <3>3. CASE l \in B /\ ~(c = 0 /\ l = n)
            <4>1. l = k \/ (c # 0 /\ l = g)
                BY <3>3 DEF B, y
            <4>2. Found(l)
                BY <1>0, <1>1, <2>2, <4>1 DEF Found, None
            <4> QED BY <1>7, <2>10, <4>2 DEF LiveAt
        <3> QED BY <3>1, <3>2, <3>3
    <2>12. ReferAt(t)'
        <3>1. CASE refer'[t] = "done"
            BY <3>1 DEF ReferAt
        <3>2. CASE refer'[t] = "consult" /\ c # 0 /\ move'[t] = move[t]
            <4>1. \A m : m = c => Out(m)'
                BY <1>1, <2>2, <2>4, <2>8, <3>2 DEF Out
            <4>2. Out(move[t].consult)'
                BY <3>2, <4>1 DEF c
            <4> QED BY <3>2, <4>2 DEF ReferAt
        <3> QED BY <1>5, <3>1, <3>2
    <2> QED BY <2>9, <2>11, <2>12
<1>8. \A l \in Clean' : l \in S => legs'[l] \in {legs[l], None} \/ legs'[l] \subseteq S
    BY <1>0, <1>4
<1>9. /\ refer[t] = "link" /\ UNCHANGED <<invite, bye, byeBr>>
    OBVIOUS
<1>10. refer'[t] = "done" \/ (move'[t] = move[t] /\ refer[t] # "attended")
    BY <1>5, <1>9
<1> HIDE DEF Links
<1> QED BY <1>5, <1>6, <1>7, <1>8, <1>9, <1>10, ReferFrame DEF S

\* A new transfer shares its legs with no handler, or they are clean no longer.
LEMMA OnReferWhole ==
    ASSUME StepInv, HoldInv, WholeInv, Clean' \subseteq Clean, NEW t \in Legs, OnRefer(t)
    PROVE  WholeInv'
<1> USE DEF OnRefer, At, Goto, pbx
<1>0. move[t] = NoLocals /\ t \in legs[t] /\ legs[t] \in Bridges /\ TypesOK
    BY DEF StepInv, MoveInv, TypesOK
<1>1. /\ refer'[t] \in {"blind", "attended"}
      /\ \A r \in Legs \ {t} : refer'[r] = refer[r] /\ move'[r] = move[r]
      /\ move'[t].br = legs[t] /\ move'[t].cb = {} /\ move'[t].nl = 0
      /\ refer'[t] = "blind" => move'[t].consult = 0
    BY <1>0, NoLocalsType DEF TypesOK, Locals, None
<1>2. Acts(t) /\ Confined({}) /\ Separate({})
    BY <1>1 DEF Acts, Confined, Separate
<1>3. \A l \in Clean' \ {t} : Rest(l)'
    BY <1>2, Frame
<1>4. t \in Clean' => Rest(t)'
    <2> SUFFICES ASSUME t \in Clean' PROVE Rest(t)'
        OBVIOUS
    <2>1. t \in Clean /\ MapAt(t) /\ LiveAt(t) /\ InviteAt(t) /\ ByeAt(t)
        BY DEF WholeInv
    <2>2. MapAt(t)'
        <3>1. Linking(t) => Linking(t)'
            BY <1>1 DEF Linking, ReferLegs
        <3> QED BY <2>1, <3>1 DEF MapAt, Apart, Whole
    <2>3. LiveAt(t)' /\ InviteAt(t)' /\ ByeAt(t)'
        BY <2>1 DEF LiveAt, Found, InviteAt, ByeAt, Out, Apart, InviteLegs, Callee
    <2>4. ReferAt(t)'
        BY <1>1 DEF ReferAt
    <2> QED BY <2>2, <2>3, <2>4 DEF Rest
<1>5. t \in Referring' /\ t \in ReferLegs(t)' /\ legs[t] \subseteq ReferLegs(t)'
    BY <1>0, <1>1 DEF Referring, ReferLegs
<1>6. ASSUME NEW l \in Clean'
      PROVE  TouchAt(l)'
    <2>1. l \in Clean /\ l \in Legs /\ TouchAt(l) /\ MapAt(l)
        BY DEF Clean, WholeInv
    <2>2. Inviting' = Inviting /\ Hanging' = Hanging /\ \A r \in Referring' : r # t => r \in Referring
        BY <1>1 DEF Inviting, Hanging, Referring
    <2>3. /\ \A z : ByeLegs(z)' = ByeLegs(z) /\ InviteLegs(z)' = InviteLegs(z)
          /\ \A r \in Referring' : r # t => ReferLegs(r)' = ReferLegs(r)
          /\ \A r \in Referring' : r # t => refer'[r] = refer[r] /\ move'[r] = move[r]
        BY <1>1 DEF ByeLegs, InviteLegs, ReferLegs, Callee, Referring
    <2>4. ({t} \cup legs[t]) \cap legs[l] # {} => l \in legs[t]
        <3>1. CASE Apart(l)
            BY <3>1 DEF Apart, None
        <3>2. CASE l \in legs[l] /\ Whole(legs[l])
            <4>1. ({t} \cup legs[t]) \cap legs[l] # {} => t \in legs[l]
                BY <3>2 DEF Whole
            <4> QED BY <3>2, <4>1 DEF Whole
        <3>3. CASE Linking(l)
            <4>1. PICK r \in Legs : refer[r] = "link" /\ l \in ReferLegs(r)
                BY <3>3 DEF Linking
            <4>2. r # t /\ r \in Referring' /\ l \in ReferLegs(r)'
                <5>1. r # t
                    BY <4>1
                <5>2. r \in Referring'
                    BY <1>1, <4>1, <5>1 DEF Referring
                <5> QED BY <2>3, <4>1, <5>1, <5>2
            <4>3. t \notin ReferLegs(r)'
                BY <1>5, <4>2, Races
            <4>4. t \notin ReferLegs(r)
                BY <2>3, <4>2, <4>3
            <4> QED BY <2>1, <4>1, <4>4, LinkKnown
        <3> QED BY <2>1, <3>1, <3>2, <3>3 DEF MapAt
    <2>5. ReferLegs(t)' \cap legs'[l] # {} =>
             l \in ReferLegs(t)' \/ (refer'[t] = "attended" /\ move'[t].br \cap legs'[l] = {})
        <3>1. CASE ({t} \cup legs[t]) \cap legs[l] # {}
            BY <1>5, <2>4, <3>1
        <3>2. CASE ({t} \cup legs[t]) \cap legs[l] = {} /\ refer'[t] = "blind"
            BY <1>1, <3>2 DEF ReferLegs
        <3>3. CASE ({t} \cup legs[t]) \cap legs[l] = {} /\ refer'[t] = "attended"
            BY <1>1, <3>3
        <3> QED BY <1>1, <3>1, <3>2, <3>3
    <2> QED BY <2>1, <2>2, <2>3, <2>5 DEF TouchAt
<1> QED BY <1>3, <1>4, <1>6 DEF WholeInv, Rest
-----------------------------------------------------------------------------
\* What is dialled is new; what a transfer makes an orphan is its own leg.
LEMMA DialsNew ==
    ASSUME StepInv, Step
    PROVE  /\ made' >= made /\ made' \in Nat
           /\ \A a \in Legs : invite'[a] = "dial" => invite[a] = "dial" \/ a > made
           /\ \A a \in Legs : invite[a] # "none" => invite'[a] # "none"
           /\ \A t \in Legs : refer'[t] = "dial" =>
                (refer[t] = "dial" /\ move'[t].nl = move[t].nl) \/ move'[t].nl > made
           /\ \A l \in orphans' : l \in orphans \/ (l \in Legs /\ refer[l] = "move")
<1> USE DEF StepInv, TypesOK, pbx
<1>0. made \in Nat
    BY BridgeConstants
<1>1. CASE OnInvite
    BY <1>0, <1>1, BridgeConstants DEF OnInvite, Legs
<1>2. ASSUME NEW a \in Legs, \/ DialFails(a) \/ Dialled(a) \/ CallerAnswered(a)
                             \/ OnAck(a) \/ AnswerFails(a) \/ CalleeDropped(a)
      PROVE  /\ made' = made /\ UNCHANGED <<refer, move>> /\ orphans' \subseteq orphans
             /\ \A b \in Legs : invite'[b] = "dial" => invite[b] = "dial"
             /\ \A b \in Legs : invite[b] # "none" => invite'[b] # "none"
    BY <1>2 DEF DialFails, Dialled, CallerAnswered, OnAck, AnswerFails, CalleeDropped, Unlink
<1>3. ASSUME NEW l \in Legs, HangUp(l) \/ OnBye(l) \/ ByeUnlinks(l) \/ ByeRelayed(l)
      PROVE  made' = made /\ UNCHANGED <<invite, refer, move>> /\ orphans' \subseteq orphans
    BY <1>3 DEF HangUp, OnBye, ByeUnlinks, ByeRelayed, Unlink
<1>4. ASSUME NEW t \in Legs, BlindDials(t)
      PROVE  /\ made' >= made /\ made' \in Nat /\ UNCHANGED <<invite, orphans>>
             /\ \A s \in Legs : refer'[s] = "dial" =>
                  (refer[s] = "dial" /\ move'[s].nl = move[s].nl) \/ move'[s].nl > made
    BY <1>0, <1>4, DoneFacts DEF BlindDials, Goto, Locals
<1>5. ASSUME NEW t \in Legs,
             \/ OnRefer(t) \/ BlindDialled(t) \/ BlindReinvites(t)
             \/ BlindDrops(t) \/ AttendedFinds(t) \/ AttendedReinvites(t)
             \/ Moves(t) \/ Links(t) \/ ConsultDropped(t)
      PROVE  /\ made' = made /\ UNCHANGED invite
             /\ \A l \in orphans' : l \in orphans \/ (l \in Legs /\ refer[l] = "move")
             /\ \A s \in Legs : refer'[s] = "dial" => refer[s] = "dial" /\ move'[s].nl = move[s].nl
    <2>1. /\ made' = made /\ UNCHANGED invite
          /\ \A l \in orphans' : l \in orphans \/ (l \in Legs /\ refer[l] = "move")
        BY <1>5 DEF OnRefer, BlindDialled, BlindReinvites, BlindDrops, AttendedFinds,
                    AttendedReinvites, Moves, Links, ConsultDropped, At
    <2>2. /\ refer'[t] # "dial"
          /\ \A s \in Legs \ {t} : refer'[s] = refer[s] /\ move'[s] = move[s]
        <3>1. CASE Done(t)
            BY <3>1, DoneFacts
        <3>2. CASE ~Done(t)
            BY <1>5, <3>2 DEF OnRefer, BlindDialled, BlindReinvites, BlindDrops, AttendedFinds,
                    AttendedReinvites, Moves, Links, ConsultDropped, At, Goto
        <3> QED BY <3>1, <3>2
    <2> QED BY <2>1, <2>2
<1> QED BY <1>0, <1>1, <1>2, <1>3, <1>4, <1>5 DEF Step

\* One step preserves what handlers hold.
LEMMA HoldStep ==
    ASSUME StepInv, HoldInv, Step
    PROVE  HoldInv'
<1> USE DEF pbx
<1>0. TypesOK
    BY DEF StepInv
<1>1. \A l \in Legs : Settled(l) => Settled(l)'
    <2> SUFFICES ASSUME NEW l \in Legs, Settled(l) PROVE Settled(l)'
        OBVIOUS
    <2>1. l \in Nat /\ l <= made /\ made \in Nat
        BY <1>0 DEF Legs, Settled, TypesOK
    <2>2. ~Pending(l)'
        <3>1. ASSUME NEW a \in Legs, invite'[a] = "dial"
              PROVE  l \notin {a, Callee(a)}
            <4>1. CASE invite[a] = "dial"
                BY <4>1 DEF Settled, Pending
            <4>2. CASE a > made
                BY <2>1, <4>2 DEF Callee, Legs
            <4> QED BY <3>1, <4>1, <4>2, DialsNew
        <3>2. ASSUME NEW t \in Legs, refer'[t] = "dial"
              PROVE  move'[t].nl # l
            <4>1. CASE refer[t] = "dial" /\ move'[t].nl = move[t].nl
                BY <4>1 DEF Settled, Pending
            <4>2. CASE move'[t].nl > made
                BY <2>1, <4>2
            <4> QED BY <3>2, <4>1, <4>2, DialsNew
        <3> QED BY <3>1, <3>2 DEF Pending, Callee
    <2> QED BY <2>1, <2>2, DialsNew DEF Settled
<1>2. \A l \in orphans' : Settled(l)'
    <2>1. \A l \in Legs : refer[l] = "move" => Settled(l)
        BY MoveFacts
    <2>2. orphans \subseteq Legs /\ \A l \in orphans : Settled(l)
        BY <1>0 DEF HoldInv, TypesOK
    <2> QED BY <1>1, <2>1, <2>2, DialsNew
<1>3. \A x \in Legs : byeBr'[x] # None => bye'[x] \in {"found", "unlinked"}
    <2>1. CASE UNCHANGED <<bye, byeBr>>
        BY <2>1 DEF HoldInv
    <2>2. ASSUME NEW l \in Legs, HangUp(l) \/ OnBye(l) \/ ByeUnlinks(l) \/ ByeRelayed(l)
          PROVE  \A x \in Legs : byeBr'[x] # None => bye'[x] \in {"found", "unlinked"}
        <3>1. CASE HangUp(l)
            <4>1. byeBr[l] = None
                BY <3>1 DEF HangUp, HoldInv, StepInv, DownInv
            <4> QED BY <1>0, <3>1, <4>1 DEF HangUp, HoldInv, TypesOK
        <3>2. CASE OnBye(l)
            BY <1>0, <3>2 DEF OnBye, HoldInv, TypesOK, Found
        <3>3. CASE ByeUnlinks(l)
            BY <1>0, <3>3 DEF ByeUnlinks, HoldInv, TypesOK
        <3>4. CASE ByeRelayed(l)
            BY <1>0, <3>4 DEF ByeRelayed, HoldInv, TypesOK
        <3> QED BY <2>2, <3>1, <3>2, <3>3, <3>4
    <2>3. UNCHANGED <<bye, byeBr>> \/ \E l \in Legs : HangUp(l) \/ OnBye(l) \/ ByeUnlinks(l) \/ ByeRelayed(l)
        BY DEF Step, OnInvite, DialFails, Dialled, CallerAnswered, OnAck, AnswerFails, CalleeDropped,
               OnRefer, BlindDials, BlindDialled, BlindReinvites, BlindDrops, AttendedFinds,
               AttendedReinvites, Moves, Links, ConsultDropped
    <2> QED BY <2>1, <2>2, <2>3
<1>4. \A t \in Legs : /\ move'[t].cb # None => /\ move'[t].consult \in move'[t].cb
                                               /\ refer'[t] \in {"keep", "target", "move", "link", "consult"}
                      /\ \A a \in Legs : move'[t].consult = a => invite[a] # "none"
    <2>0. \A t \in Legs : /\ move[t].cb # None => /\ move[t].consult \in move[t].cb
                                                  /\ refer[t] \in {"keep", "target", "move", "link", "consult"}
                          /\ \A a \in Legs : move[t].consult = a => invite[a] # "none"
        BY DEF HoldInv
    <2>1. CASE UNCHANGED <<refer, move>>
        BY <2>0, <2>1
    <2>2. ASSUME NEW t \in Legs, Done(t)
          PROVE  \A s \in Legs : /\ move'[s].cb # None =>
                                      /\ move'[s].consult \in move'[s].cb
                                      /\ refer'[s] \in {"keep", "target", "move", "link", "consult"}
                                 /\ \A a \in Legs : move'[s].consult = a => invite[a] # "none"
        BY <1>0, <2>0, <2>2, DoneFacts, NoLocalsType DEF Legs
    <2>3. ASSUME NEW t \in Legs, OnRefer(t)
          PROVE  \A s \in Legs : /\ move'[s].cb # None =>
                                      /\ move'[s].consult \in move'[s].cb
                                      /\ refer'[s] \in {"keep", "target", "move", "link", "consult"}
                                 /\ \A a \in Legs : move'[s].consult = a => invite[a] # "none"
        <3>1. move[t] = NoLocals
            BY <2>3 DEF OnRefer, At, StepInv, MoveInv
        <3>2. /\ \A s \in Legs \ {t} : move'[s] = move[s] /\ refer'[s] = refer[s]
              /\ move'[t].cb = None
              /\ move'[t].consult = 0 \/ invite[move'[t].consult] # "none"
            BY <1>0, <2>3, <3>1, NoLocalsType DEF OnRefer, Goto, Callers, TypesOK, Locals
        <3> QED BY <2>0, <3>2 DEF Legs
    <2>4. ASSUME NEW t \in Legs, BlindDials(t), ~Done(t)
          PROVE  \A s \in Legs : /\ move'[s].cb # None =>
                                      /\ move'[s].consult \in move'[s].cb
                                      /\ refer'[s] \in {"keep", "target", "move", "link", "consult"}
                                 /\ \A a \in Legs : move'[s].consult = a => invite[a] # "none"
        <3>1. /\ \A s \in Legs \ {t} : move'[s] = move[s] /\ refer'[s] = refer[s]
              /\ move'[t].cb = move[t].cb /\ move'[t].consult = move[t].consult
              /\ refer[t] = "blind"
            BY <1>0, <2>4 DEF BlindDials, Goto, At, TypesOK, Locals
        <3> QED BY <2>0, <3>1
    <2>5. ASSUME NEW t \in Legs, AttendedFinds(t), ~Done(t)
          PROVE  \A s \in Legs : /\ move'[s].cb # None =>
                                      /\ move'[s].consult \in move'[s].cb
                                      /\ refer'[s] \in {"keep", "target", "move", "link", "consult"}
                                 /\ \A a \in Legs : move'[s].consult = a => invite[a] # "none"
        <3>0. move[t].consult \in Legs
            BY <2>5, Mentioned DEF AttendedFinds, At, StepInv, MoveInv
        <3>1. /\ \A s \in Legs \ {t} : move'[s] = move[s] /\ refer'[s] = refer[s]
              /\ move'[t].cb = legs[move[t].consult] /\ move'[t].consult = move[t].consult
              /\ refer'[t] = "keep"
            BY <1>0, <2>5 DEF AttendedFinds, Goto, At, TypesOK, Locals
        <3> QED BY <1>0, <2>0, <3>0, <3>1 DEF TypesOK
    <2>6. ASSUME NEW t \in Legs, ~Done(t),
                 \/ BlindDialled(t) \/ BlindReinvites(t) \/ AttendedReinvites(t)
                 \/ Moves(t) \/ Links(t)
          PROVE  \A s \in Legs : /\ move'[s].cb # None =>
                                      /\ move'[s].consult \in move'[s].cb
                                      /\ refer'[s] \in {"keep", "target", "move", "link", "consult"}
                                 /\ \A a \in Legs : move'[s].consult = a => invite[a] # "none"
        <3>1. /\ \A s \in Legs \ {t} : refer'[s] = refer[s]
              /\ move' = move
              /\ \/ refer[t] \in {"dial", "reinvite"}
                 \/ refer'[t] \in {"target", "move", "link", "consult"}
            BY <1>0, <2>6 DEF BlindDialled, BlindReinvites, AttendedReinvites, Moves, Links, Goto, At,
                              TypesOK
        <3> QED BY <2>0, <3>1
    <2>7. \/ UNCHANGED <<refer, move>>
          \/ \E t \in Legs : \/ Done(t) \/ OnRefer(t) \/ BlindDials(t) \/ AttendedFinds(t)
                             \/ BlindDialled(t) \/ BlindReinvites(t) \/ AttendedReinvites(t)
                             \/ Moves(t) \/ Links(t)
        BY DEF Step, OnInvite, DialFails, Dialled, CallerAnswered, OnAck, AnswerFails, CalleeDropped,
               HangUp, OnBye, ByeUnlinks, ByeRelayed, BlindDrops, ConsultDropped
    <2> HIDE DEF Done
    <2> QED BY <2>1, <2>2, <2>3, <2>4, <2>5, <2>6, <2>7
<1> QED BY <1>2, <1>3, <1>4, DialsNew DEF HoldInv

\* One step preserves what is known of clean legs.
LEMMA WholeStep ==
    ASSUME StepInv, HoldInv, WholeInv, Clean' \subseteq Clean, Step
    PROVE  WholeInv'
<1>1. ASSUME NEW a \in Legs, \/ DialFails(a) \/ Dialled(a) \/ CallerAnswered(a)
                             \/ OnAck(a) \/ AnswerFails(a) \/ CalleeDropped(a)
      PROVE  WholeInv'
    BY <1>1, DialFailsWhole, DialledWhole, CallerAnsweredWhole, OnAckWhole, AnswerFailsWhole,
       CalleeDroppedWhole
<1>2. ASSUME NEW l \in Legs, HangUp(l) \/ OnBye(l) \/ ByeUnlinks(l) \/ ByeRelayed(l)
      PROVE  WholeInv'
    BY <1>2, HangUpWhole, OnByeWhole, ByeUnlinksWhole, ByeRelayedWhole
<1>3. ASSUME NEW t \in Legs,
             \/ OnRefer(t) \/ BlindDials(t) \/ BlindDialled(t) \/ BlindReinvites(t)
             \/ BlindDrops(t) \/ AttendedFinds(t) \/ AttendedReinvites(t)
             \/ Moves(t) \/ Links(t) \/ ConsultDropped(t)
      PROVE  WholeInv'
    BY <1>3, OnReferWhole, BlindDialsWhole, BlindDialledWhole, BlindReinvitesWhole, BlindDropsWhole,
       AttendedFindsWhole, AttendedReinvitesWhole, MovesWhole, LinksWhole, ConsultDroppedWhole
<1> QED BY <1>1, <1>2, <1>3, OnInviteWhole DEF Step

\* A leg that was raced stays so.
LEMMA CleanShrinks ==
    ASSUME Next
    PROVE  Clean' \subseteq Clean
<1>1. lost \subseteq lost'
    BY DEF Next, Step, OnInvite, DialFails, Dialled, CallerAnswered, OnAck, AnswerFails,
           CalleeDropped, HangUp, OnBye, ByeUnlinks, ByeRelayed, OnRefer, BlindDials, BlindDialled,
           BlindReinvites, BlindDrops, AttendedFinds, AttendedReinvites, Moves, Links,
           ConsultDropped, Bye, Lose
<1>2. raced' = raced \cup Overlap
    BY DEF Next
<1> QED BY <1>1, <1>2 DEF Clean

\* Where handlers do not overlap, only the leg of a caller whose answer onInvite
\* is still delivering is up and not confirmed.
AckInv == \A l \in Clean : end[l] = "up" /\ l \notin acked => invite[l] = "answer"

\* WriteResponse cannot fail for want of an ACK that onAck discarded: the leg
\* is in the map that onInvite put it in.
LEMMA AckStep ==
    ASSUME StepInv, WholeInv, AckInv, Clean' \subseteq Clean, Step
    PROVE  AckInv'
<1> SUFFICES ASSUME NEW l \in Clean', end'[l] = "up", l \notin acked'
             PROVE  invite'[l] = "answer"
    BY DEF AckInv
<1>0. l \in Clean /\ l \in Legs /\ l \notin lost' /\ TypesOK
    BY DEF Clean, StepInv
<1>1. ASSUME NEW a \in Legs, \/ DialFails(a) \/ Dialled(a) \/ CallerAnswered(a)
                             \/ OnAck(a) \/ AnswerFails(a) \/ CalleeDropped(a)
      PROVE  invite'[l] = "answer"
    <2>0. Callee(a) \in Legs /\ Callee(a) # a
        BY <1>1, InviteAlone DEF StepInv, DialFails, Dialled, CallerAnswered, OnAck, AwaitsAck,
                                 AnswerFails, CalleeDropped
    <2>1. CASE DialFails(a) \/ Dialled(a) \/ CallerAnswered(a) \/ OnAck(a)
        BY <1>0, <2>0, <2>1 DEF AckInv, TypesOK, DialFails, Dialled, CallerAnswered, OnAck, AwaitsAck
    <2>2. CASE AnswerFails(a)
        <3>1. l = a => Found(a)
            <4>1. l = a => InviteAt(a)
                BY <1>0 DEF WholeInv
            <4> QED BY <2>2, <4>1 DEF AnswerFails, InviteAt, InviteLegs, Found, None
        <3>2. l # a
            BY <1>0, <2>2, <3>1 DEF AnswerFails, Lose, TypesOK
        <3> QED BY <1>0, <2>2, <3>2 DEF AckInv, AnswerFails, TypesOK
    <2>3. CASE CalleeDropped(a)
        BY <1>0, <2>3 DEF AckInv, CalleeDropped, Bye, TypesOK
    <2> QED BY <1>1, <2>1, <2>2, <2>3
<1>2. ASSUME NEW x \in Legs, HangUp(x) \/ OnBye(x) \/ ByeUnlinks(x) \/ ByeRelayed(x)
      PROVE  invite'[l] = "answer"
    BY <1>0, <1>2 DEF AckInv, TypesOK, HangUp, OnBye, ByeUnlinks, ByeRelayed, Bye
<1>3. ASSUME NEW t \in Legs,
             \/ OnRefer(t) \/ BlindDials(t) \/ BlindDialled(t) \/ BlindReinvites(t)
             \/ BlindDrops(t) \/ AttendedFinds(t) \/ AttendedReinvites(t)
             \/ Moves(t) \/ Links(t) \/ ConsultDropped(t)
      PROVE  invite'[l] = "answer"
    <2>1. CASE BlindDials(t) \/ BlindDialled(t)
        BY <1>0, <2>1 DEF AckInv, TypesOK, BlindDials, BlindDialled
    <2>2. CASE BlindDrops(t) \/ ConsultDropped(t)
        BY <1>0, <2>2 DEF AckInv, TypesOK, BlindDrops, ConsultDropped, Bye
    <2>3. CASE \/ OnRefer(t) \/ BlindReinvites(t) \/ AttendedFinds(t) \/ AttendedReinvites(t)
               \/ Moves(t) \/ Links(t)
        BY <1>0, <2>3 DEF AckInv, OnRefer, BlindReinvites, AttendedFinds, AttendedReinvites, Moves, Links
    <2> QED BY <1>3, <2>1, <2>2, <2>3
<1>4. CASE OnInvite
    <2>1. invite[made + 1] = "none"
        BY <1>4, BridgeConstants DEF OnInvite, StepInv, NumberInv, TypesOK, Legs
    <2> QED BY <1>0, <1>4, <2>1 DEF AckInv, OnInvite, TypesOK
<1> QED BY <1>1, <1>2, <1>3, <1>4 DEF Step

BridgeInv == LegInv /\ HoldInv /\ WholeInv /\ AckInv

\* No legs, nothing to be whole.
LEMMA BridgeInit == Init => BridgeInv
<1> SUFFICES ASSUME Init PROVE BridgeInv
    OBVIOUS
<1>1. LegInv
    BY LegInit
<1>2. HoldInv
    BY NoLocalsType DEF Init, HoldInv, Legs
<1>3. WholeInv
    <2>1. /\ Inviting = {} /\ Hanging = {} /\ Referring = {}
          /\ \A l \in Legs : Apart(l) /\ l \notin orphans
        BY DEF Init, Inviting, Hanging, Referring, Apart, None
    <2>2. \A l \in Clean : l \in Legs
        BY DEF Clean
    <2> QED BY <2>1, <2>2 DEF Init, WholeInv, MapAt, LiveAt, TouchAt, InviteAt, ByeAt, ReferAt, Found, Apart
<1>4. AckInv
    BY DEF Init, AckInv, Clean
<1> QED BY <1>1, <1>2, <1>3, <1>4 DEF BridgeInv

\* One step with its history variable.
LEMMA BridgeNext == BridgeInv /\ [Next]_vars => BridgeInv'
<1> SUFFICES ASSUME BridgeInv, [Next]_vars PROVE BridgeInv'
    OBVIOUS
<1>1. LegInv'
    BY LegNext DEF BridgeInv
<1>2. CASE Next
    <2>1. StepInv /\ HoldInv /\ WholeInv /\ Step
        BY <1>2, InvParts DEF BridgeInv, Next
    <2>2. HoldInv' /\ WholeInv'
        BY <1>2, <2>1, HoldStep, WholeStep, CleanShrinks
    <2>3. AckInv'
        BY <1>2, <2>1, AckStep, CleanShrinks DEF BridgeInv
    <2> QED BY <1>1, <2>2, <2>3 DEF BridgeInv
<1>3. CASE UNCHANGED vars
    <2>1. HoldInv'
        BY <1>3 DEF vars, pbx, BridgeInv, HoldInv, Settled, Pending
    <2>2. WholeInv'
        <3>1. /\ Inviting' = Inviting /\ Hanging' = Hanging /\ Referring' = Referring
              /\ \A l : ByeLegs(l)' = ByeLegs(l) /\ ReferLegs(l)' = ReferLegs(l) /\ InviteLegs(l)' = InviteLegs(l)
            BY <1>3 DEF vars, Inviting, Hanging, Referring, ByeLegs, ReferLegs, InviteLegs, Callee
        <3>2. Clean' = Clean
            BY <1>3 DEF vars, Clean, Overlap, Running, Inviting, Hanging, Referring, LegsOf, Callee
        <3>3. \A l : /\ MapAt(l)' <=> MapAt(l)
                     /\ LiveAt(l)' <=> LiveAt(l)
                     /\ InviteAt(l)' <=> InviteAt(l)
                     /\ ByeAt(l)' <=> ByeAt(l)
                     /\ ReferAt(l)' <=> ReferAt(l)
            BY <1>3 DEF vars, pbx, MapAt, Linking, ReferLegs, Apart, Whole, LiveAt, Found, InviteAt,
                        InviteLegs, Callee, ByeAt, Out, ReferAt, LinkPhase, Keep, Target
        <3>4. \A l : TouchAt(l) => TouchAt(l)'
            BY <1>3, <3>1 DEF vars, pbx, TouchAt
        <3> QED BY <3>2, <3>3, <3>4 DEF WholeInv, BridgeInv
    <2>3. AckInv'
        <3>1. Clean' = Clean
            BY <1>3 DEF vars, Clean, Overlap, Running, Inviting, Hanging, Referring, LegsOf, Callee
        <3> QED BY <1>3, <3>1 DEF vars, AckInv, BridgeInv
    <2> QED BY <1>1, <2>1, <2>2, <2>3 DEF BridgeInv
<1> QED BY <1>2, <1>3

\* The invariant holds throughout.
LEMMA BridgeInvariance == Spec => []BridgeInv
BY BridgeInit, BridgeNext, PTL DEF Spec

\* onInvite, onBye and the goroutines of onRefer may overlap in any way: once
\* they are done, find knows every leg whose endpoint is still in the dialog,
\* but for legs whose own BYE or ACK was lost and for callers' legs that
\* another handler took out of the maps before their ACK was handled, so that
\* the PBX never had the dialog confirmed.
THEOREM BridgeNoLegForgotten == Spec => []NoLegForgotten
<1>1. BridgeInv => NoLegForgotten
    <2> SUFFICES ASSUME BridgeInv, AtRest, NEW l \in Legs \ lost, end[l] = "up", ~Found(l)
                 PROVE  l \notin acked /\ l \in raced
        BY DEF NoLegForgotten
    <2>1. l \notin acked
        BY NothingOwned DEF BridgeInv
    <2>2. Overlap = {}
        BY DEF AtRest, Running, Overlap
    <2>3. invite[l] # "answer"
        BY DEF AtRest, Inviting
    <2>4. l \notin Clean
        BY <2>1, <2>3 DEF BridgeInv, AckInv
    <2> QED BY <2>1, <2>2, <2>4 DEF Clean
<1> QED BY <1>1, BridgeInvariance, PTL

\* Where hang-ups, answers and transfers did not overlap, and no BYE or ACK was
\* lost, the maps of the PBX are what the endpoints see once the handlers are
\* done: link and unlink leave no half of a bridge, and no leg that is over.
THEOREM BridgeWholeHolds == Spec => []BridgeWhole
<1>1. BridgeInv => BridgeWhole
    <2> SUFFICES ASSUME BridgeInv, AtRest, NEW l \in Legs \ (raced \cup lost), Found(l)
                 PROVE  /\ end[l] = "up"
                        /\ \A m \in legs[l] : legs[m] = legs[l] /\ m \notin orphans
        BY DEF BridgeWhole
    <2>1. Overlap = {}
        BY DEF AtRest, Running, Overlap
    <2>2. l \in Clean
        BY <2>1 DEF Clean
    <2>3. MapAt(l) /\ LiveAt(l)
        BY <2>2 DEF BridgeInv, WholeInv
    <2>4. ~Linking(l) /\ bye[l] \notin {"sent", "found"} /\ invite[l] # "answer"
        BY DEF AtRest, Linking, Inviting, Hanging, Referring
    <2>5. end[l] = "up"
        BY <2>3, <2>4 DEF LiveAt
    <2>6. CASE Apart(l)
        BY <2>5, <2>6 DEF Apart, None
    <2>7. CASE l \in legs[l] /\ Whole(legs[l])
        BY <2>5, <2>7 DEF Whole
    <2> QED BY <2>3, <2>4, <2>6, <2>7 DEF MapAt
<1> QED BY <1>1, BridgeInvariance, PTL
=============================================================================
