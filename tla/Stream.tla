------------------------------- MODULE Stream --------------------------------
(***************************************************************************)
(* RTP from one media.Stream to another (media/stream.go): the scheduler's *)
(* tick of the sender with its queue of DTMF events, a network that loses  *)
(* and reorders packets, and the receiver's count of sequence numbers and  *)
(* events.  A packet carries its sequence number, its timestamp and, for a *)
(* telephone-event, which dialled digit it belongs to.  Audio samples,     *)
(* jitter, latching and recordings are left out.  A packet may be          *)
(* overtaken by packets its source sent up to MaxLate ticks after it; of   *)
(* two sources the network keeps no order at all.                          *)
(***************************************************************************)
EXTENDS Integers, Sequences, SequencesExt

CONSTANTS
    Dial,         \* the digits the script sends, in order
    Packets,      \* dtmfJob.packets: 20 ms packets per event
    Seq16,        \* sequence numbers wrap here (2^16)
    CountMod,     \* width of the statistics' counters (2^64)
    StartSeqs,    \* where the random initial sequence number may lie
    MaxLate,      \* how far a packet may be overtaken within its source
    MaxLoss,      \* bound: packets lost
    MaxFlight,    \* bound: packets on the way
    MaxTurns,     \* bound: changes of direction
    MaxEarly,     \* bound: ticks of the first source, if there are two
    MaxTicks      \* bound: ticks of the sender

EndPackets == 3   \* RFC 4733: the end of an event is sent three times
Gap == 3          \* SendDTMF: packets of audio after an event

ASSUME StreamConstants ==
    /\ Dial \in Seq(0..15)
    /\ Packets \in Nat \ {0}
    /\ Seq16 \in Nat \ {0} /\ Seq16 % 2 = 0
    /\ CountMod \in Nat \ {0}
    /\ StartSeqs \subseteq 0..Seq16-1
    /\ MaxLate \in 0..Gap
    /\ MaxLoss \in Nat /\ MaxFlight \in Nat /\ MaxTurns \in Nat
    /\ MaxEarly \in Nat /\ MaxTicks \in Nat
    \* 64 bits count more than any call sends
    /\ MaxTicks < CountMod
    \* what is missing is less than half the numbers, or countSeq goes backwards
    /\ MaxLoss + MaxFlight < Seq16 \div 2 /\ MaxLate <= Seq16 \div 2

VARIABLES
    sends,        \* Stream.dir of the sender lets it send
    ssrc,         \* Stream.ssrc of the sender: the source that is connected
    seq,          \* Stream.seq of either source
    ts,           \* Stream.ts, in frames
    dtmfQ,        \* Stream.dtmfQ
    turns,        \* changes of direction
    queued,       \* how many digits of Dial SendDTMF has queued
    net,          \* packets of either source on the way, in the order they were sent
    gone,         \* packets the network has lost
    rx,           \* Stream.rx of the receiver
    lastEvTS,     \* Stream.lastEvTS; -1 until haveEv
    digits,       \* Stream.digits
    arrived       \* digits of Dial of which a packet has reached the receiver

\* For a property only
VARIABLE
    strayed       \* a packet of a source came after one of the source that replaced it

sender == <<sends, ssrc, seq, ts, dtmfQ, turns, queued>>
receiver == <<rx, lastEvTS, digits, arrived>>
streamVars == <<sender, net, gone, receiver, strayed>>

Sources == {1, 2}
OnTheWay == Len(net[1]) + Len(net[2])

Job == [digit : 1..Len(Dial), sent : 0..Packets, ended : 0..EndPackets,
        gap : 0..Gap, ts : 0..MaxTicks]

\* digit 0 is audio
Packet == [ssrc : Sources, seq : 0..Seq16-1, ts : 0..MaxTicks, digit : 0..Len(Dial)]

RxStats == [init : BOOLEAN, ssrc : Sources, baseSeq : 0..Seq16-1, maxSeq : 0..Seq16-1,
            cycles : 0..CountMod-1, received : 0..CountMod-1,
            prevExp : 0..CountMod-1, prevRecv : 0..CountMod-1]

StreamTypeOK ==
    /\ sends \in BOOLEAN
    /\ ssrc \in Sources
    /\ seq \in [Sources -> 0..Seq16-1]
    /\ ts \in 0..MaxTicks
    /\ dtmfQ \in Seq(Job)
    /\ turns \in 0..MaxTurns
    /\ queued \in 0..Len(Dial)
    /\ net \in [Sources -> Seq(Packet)] /\ OnTheWay <= MaxFlight
    /\ gone \in 0..MaxLoss
    /\ rx \in RxStats
    /\ lastEvTS \in -1..MaxTicks
    /\ digits \in Seq(0..15)
    /\ arrived \subseteq 1..Len(Dial)
    /\ strayed \in BOOLEAN

NoStats == [init |-> FALSE, ssrc |-> 1, baseSeq |-> 0, maxSeq |-> 0, cycles |-> 0,
            received |-> 0, prevExp |-> 0, prevRecv |-> 0]

StreamInit ==
    /\ sends = TRUE
    /\ ssrc = 1
    /\ seq \in [Sources -> StartSeqs]
    /\ ts = 0
    /\ dtmfQ = <<>>
    /\ turns = 0
    /\ queued = 0
    /\ net = [s \in Sources |-> <<>>]
    /\ gone = 0
    /\ rx = NoStats
    /\ lastEvTS = -1
    /\ digits = <<>>
    /\ arrived = {}
    /\ strayed = FALSE
-----------------------------------------------------------------------------
(* Sending *)

NewJob(d) == [digit |-> d, sent |-> 0, ended |-> 0, gap |-> Gap, ts |-> 0]

\* SendDTMF with the next digits of Dial
SendDTMF ==
    /\ \E k \in queued + 1 .. Len(Dial) :
        /\ dtmfQ' = dtmfQ \o [i \in 1 .. k - queued |-> NewJob(queued + i)]
        /\ queued' = k
    /\ UNCHANGED <<sends, ssrc, seq, ts, turns, net, gone>>
    /\ UNCHANGED <<receiver, strayed>>

EventPending(j) == j.sent < Packets \/ j.ended < EndPackets

\* nextDTMF drops the job at the head when its pause is over
Trim(q) ==
    IF q # <<>> /\ ~EventPending(Head(q)) /\ Head(q).gap = 0 THEN Tail(q) ELSE q

InEvent(q) == q # <<>> /\ EventPending(Head(q))

\* One more packet of an event, the first one fixing its timestamp
EventSent(j) ==
    IF j.sent >= Packets THEN [j EXCEPT !.ended = @ + 1]
    ELSE [j EXCEPT !.sent = @ + 1, !.ts = IF j.sent = 0 THEN ts ELSE @]

\* header and WriteToUDP.  A packet the network will lose may as well be
\* lost at once.
WriteRTP(t, d) ==
    /\ seq' = [seq EXCEPT ![ssrc] = (@ + 1) % Seq16]
    /\ \/ /\ OnTheWay < MaxFlight
          /\ net' = [net EXCEPT ![ssrc] =
                       Append(@, [ssrc |-> ssrc, seq |-> seq[ssrc], ts |-> t, digit |-> d])]
          /\ UNCHANGED gone
       \/ /\ gone < MaxLoss
          /\ gone' = gone + 1
          /\ UNCHANGED net

TickEvent ==
    LET q == Trim(dtmfQ)
        j == EventSent(Head(q))
    IN  /\ InEvent(q)
        /\ dtmfQ' = [q EXCEPT ![1] = j]
        /\ WriteRTP(j.ts, j.digit)

\* Audio, also in the pause after an event
TickAudio ==
    LET q == Trim(dtmfQ)
    IN  /\ ~InEvent(q)
        /\ dtmfQ' = IF q = <<>> THEN q ELSE [q EXCEPT ![1].gap = @ - 1]
        /\ WriteRTP(ts, 0)

\* tick: the time advances also when nothing is sent.  A closed stream is
\* one that ticks no more.
Tick ==
    /\ ts < MaxTicks
    /\ ts' = ts + 1
    /\ \/ /\ sends
          /\ TickEvent \/ TickAudio
       \/ /\ ~sends
          /\ UNCHANGED <<dtmfQ, net, seq, gone>>
    /\ UNCHANGED <<sends, ssrc, turns, queued>>
    /\ UNCHANGED <<receiver, strayed>>

\* Offer, ApplyAnswer or Update with the other direction (hold, resume)
SetDirection ==
    /\ turns < MaxTurns
    /\ turns' = turns + 1
    /\ sends' = ~sends
    /\ UNCHANGED <<ssrc, seq, ts, dtmfQ, queued, net, gone>>
    /\ UNCHANGED <<receiver, strayed>>

\* The receiver is connected to another stream before anything was dialled
\* (early media of the PBX, then the called party).  Packets of the first one
\* may still be on the way, and arrive before or after the first of the second.
\* A change in the middle of an event is left out.
NewSource ==
    /\ ssrc = 1
    /\ queued = 0
    /\ ts <= MaxEarly
    /\ ssrc' = 2
    /\ UNCHANGED <<sends, seq, ts, dtmfQ, turns, queued, net, gone>>
    /\ UNCHANGED <<receiver, strayed>>
-----------------------------------------------------------------------------
(* Receiving *)

\* No packet of the source before its i-th one was sent more than MaxLate earlier
MayOvertake(s, i) ==
    \A k \in 1 .. i - 1 : (net[s][i].seq - net[s][k].seq) % Seq16 <= MaxLate

\* What statsLocked and countSeq take for the packets expected of a source
Expected(r) == (r.cycles + r.maxSeq - r.baseSeq + 1) % CountMod

\* countSeq begins with a source: the counts of the one before are kept
Restart(r, p) ==
    [init |-> TRUE, ssrc |-> p.ssrc, baseSeq |-> p.seq, maxSeq |-> p.seq, cycles |-> 0,
     received |-> 1,
     prevExp |-> IF r.init THEN (r.prevExp + Expected(r)) % CountMod ELSE r.prevExp,
     prevRecv |-> IF r.init THEN r.prevRecv + r.received ELSE r.prevRecv]

\* A plausible slip: every other number than the highest is a later one.
AdvanceAlways(r, s) ==
    [r EXCEPT !.received = @ + 1,
              !.cycles = IF s < r.maxSeq THEN (@ + Seq16) % CountMod ELSE @,
              !.maxSeq = s]

\* countSeq within a source
Advance(r, s) ==
    LET delta == (s - r.maxSeq) % Seq16
        later == delta # 0 /\ delta < Seq16 \div 2
    IN  [r EXCEPT !.received = @ + 1,
                  !.cycles = IF later /\ s < r.maxSeq THEN (@ + Seq16) % CountMod ELSE @,
                  !.maxSeq = IF later THEN s ELSE @]

CountSeq(r, p) == IF r.init /\ p.ssrc = r.ssrc THEN Advance(r, p.seq) ELSE Restart(r, p)

\* A plausible slip: an event is told from the one before by its digit.
SameEventByDigit(p) == digits # <<>> /\ Last(digits) = Dial[p.digit]

\* receiveDTMF: a continuation or a repeated end
SameEvent(p) == lastEvTS = p.ts

ReceiveDTMF(p) ==
    /\ arrived' = arrived \cup {p.digit}
    /\ \/ /\ SameEvent(p)
          /\ UNCHANGED <<digits, lastEvTS>>
       \/ /\ ~SameEvent(p)
          /\ digits' = Append(digits, Dial[p.digit])
          /\ lastEvTS' = p.ts

\* receive; a packet for a stream that has been closed is as good as lost
ReceivePacket(s, i) ==
    LET p == net[s][i] IN
    /\ MayOvertake(s, i)
    /\ net' = [net EXCEPT ![s] = RemoveAt(@, i)]
    /\ rx' = CountSeq(rx, p)
    /\ strayed' = (strayed \/ (rx.init /\ s < rx.ssrc))
    /\ \/ /\ p.digit # 0
          /\ ReceiveDTMF(p)
       \/ /\ p.digit = 0
          /\ UNCHANGED <<digits, lastEvTS, arrived>>
    /\ UNCHANGED gone
    /\ UNCHANGED sender
-----------------------------------------------------------------------------
StreamNext ==
    \/ SendDTMF \/ Tick \/ SetDirection \/ NewSource
    \/ \E s \in Sources : \E i \in DOMAIN net[s] : ReceivePacket(s, i)

StreamSpec == StreamInit /\ [][StreamNext]_streamVars
-----------------------------------------------------------------------------
(* Properties *)

\* Every digit of which any packet arrives is received exactly once and in
\* the order of dialling, equal digits in a row included, whatever packets are
\* lost or repeated, however often the sender was on hold, and however packets
\* overtake each other by no more than the pause between two events (MaxLate
\* is at most Gap: an end that comes after the next event has begun is not
\* covered).
DigitsOnceInOrder ==
    \E order \in [DOMAIN digits -> arrived] :
        /\ \A i, j \in DOMAIN digits : i < j => order[i] < order[j]
        /\ \A d \in arrived : \E i \in DOMAIN digits : order[i] = d
        /\ \A i \in DOMAIN digits : digits[i] = Dial[order[i]]

\* statsLocked
PacketsExpected == (rx.prevExp + (IF rx.init THEN Expected(rx) ELSE 0)) % CountMod
PacketsReceived == rx.prevRecv + (IF rx.init THEN rx.received ELSE 0)
PacketsLost == IF PacketsExpected > PacketsReceived THEN PacketsExpected - PacketsReceived ELSE 0

\* The statistics blame the network for no more than it lost or still has on
\* the way, across wraps of the sequence number, late packets on either side
\* of a wrap, and a change of the source.  Excepted is a receiver to which a
\* packet of the former source came after one of the new: countSeq begins
\* anew with it, and expects a second time what it has expected before.
LossNotOverstated == ~strayed => PacketsLost <= gone + OnTheWay
=============================================================================
