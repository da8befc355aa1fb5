----------------------------- MODULE MediaProofs -----------------------------
(***************************************************************************)
(* Proofs about media.                                                     *)
(*                                                                         *)
(* The stream of a call and its recording (CallMedia), for any number of   *)
(* other streams and any number of frames and digits.  StatsAreFinal is    *)
(* inductive with the types; the others are not.  SchedulerHolds needs     *)
(* that only started streams are in the list, NoLostDigit that nobody      *)
(* sleeps on a signal that does not exist yet.  SavedIfWanted needs the    *)
(* most: that a recording is claimed once and written once for each claim, *)
(* that whoever decides not to save leaves the decision to somebody who    *)
(* has still to come, and that the reason to save does not go away.        *)
(*                                                                         *)
(* RTP from one stream to another (Stream), for any number to dial, any    *)
(* width of the sequence number and of the counters, and any number of     *)
(* packets on the way of either source.  All of it rests on the age of a   *)
(* packet, the distance of its number to the next one its source will use. *)
(* Ages are small although numbers wrap: a packet can only be as old as    *)
(* what its source sent after it, and that is on the way, lost, or has     *)
(* overtaken it, which MaxLate bounds (NetInv).  LateInv says how old the  *)
(* highest number received is and, beside it, every packet of that source  *)
(* still on the way, so that countSeq tells late from later on the right   *)
(* side of half the numbers.  CountInv keeps what it expects below what    *)
(* was sent, and not only now: Owed is how much more it may expect when    *)
(* the next packet of a source arrives, and the bound holds with what is   *)
(* owed to both.  LateInv and that bound need that no packet has strayed.  *)
(* For the events, only the source that is connected has sent any          *)
(* (AudioInv); packets of different ones are more than Gap apart (SentInv, *)
(* ApartInv), hence no packet is overtaken by one of a later event, and    *)
(* the timestamp in lastEvTS tells a new event from one already heard      *)
(* (HeardInv).  That part does not need strayed.                           *)
(***************************************************************************)
EXTENDS CallMedia, Stream, SequenceTheorems, TLAPS
-----------------------------------------------------------------------------
(* Lists *)

\* RemoveAt closes the gap: the entries before it stay, those behind it move up.
LEMMA RemoveAtEntries ==
    ASSUME NEW T, NEW l \in Seq(T), NEW i \in 1..Len(l)
    PROVE  /\ RemoveAt(l, i) \in Seq(T)
           /\ Len(RemoveAt(l, i)) = Len(l) - 1
           /\ \A k \in 1..(Len(l) - 1) : RemoveAt(l, i)[k] = IF k < i THEN l[k] ELSE l[k + 1]
<1> DEFINE a == SubSeq(l, 1, i - 1)
           b == SubSeq(l, i + 1, Len(l))
<1>1. a \in Seq(T) /\ Len(a) = i - 1 /\ \A k \in 1..(i - 1) : a[k] = l[k]
    OBVIOUS
<1>2. b \in Seq(T) /\ Len(b) = Len(l) - i /\ \A k \in 1..(Len(l) - i) : b[k] = l[k + i]
    OBVIOUS
<1>3. RemoveAt(l, i) = a \o b
    BY DEF RemoveAt
<1>0. Len(l) \in Nat /\ i \in Nat /\ 1 <= i /\ i <= Len(l)
    OBVIOUS
<1> HIDE DEF a, b
<1>4. a \o b \in Seq(T) /\ Len(a \o b) = Len(l) - 1
    <2>1. a \o b \in Seq(T) /\ Len(a \o b) = Len(a) + Len(b)
        BY <1>1, <1>2, ConcatProperties
    <2> QED BY <2>1, <1>0, <1>1, <1>2
<1>5. ASSUME NEW k \in 1..(Len(l) - 1) PROVE (a \o b)[k] = IF k < i THEN l[k] ELSE l[k + 1]
    <2>1. CASE k < i
        BY <1>0, <1>1, <1>2, <2>1
    <2>2. CASE ~(k < i)
        <3>1. /\ k - Len(a) \in 1..(Len(l) - i) /\ b[k - Len(a)] = l[k + 1]
            BY <1>0, <1>1, <1>2, <2>2
        <3>2. (a \o b)[k] = b[k - Len(a)]
            BY <1>0, <1>1, <1>2, <2>2
        <3> QED BY <2>2, <3>1, <3>2
    <2> QED BY <2>1, <2>2
<1> QED BY <1>3, <1>4, <1>5
-----------------------------------------------------------------------------
(* The stream of a call and its recording (CallMedia) *)

\* The list has the streams that were started and not removed, each once.
ShardInv ==
    /\ IsInjective(list)
    /\ \A s \in Streams :
        /\ started[s] /\ closing[s] = "no" => Contains(list, s)
        /\ closing[s] \in {"removed", "shut"} => ~Contains(list, s)
        /\ Contains(list, s) => started[s]

\* The counters of the stream and the signals they go with
CounterInv ==
    /\ digitSig = numDigits
    /\ heardCloses = IF heard >= heardFrames THEN 1 ELSE 0
    /\ closing[Call] # "no" => final = [sent |-> sent, heard |-> heard, digits |-> numDigits]

DigitInv ==
    script = "sleep" =>
        /\ waitSig <= digitSig
        /\ waitSig = digitSig => numDigits < Want

\* The end of the call, and the reason finish and autoSave read
EndInv ==
    /\ fin = "none" <=> state # "ended"
    /\ state = "ended" /\ ~rewritten => (dropped <=> byError /\ answered)

One(b) == IF b THEN 1 ELSE 0

\* A claimed recording is written once, a recording is claimed only when it is
\* wanted, and a wanted one is claimed once nobody is about to decide.
SaveInv ==
    /\ saves + One(fin = "write") + One(script = "write") = One(saved)
    /\ saved => state = "ended"
    /\ saved /\ ~rewritten => Wanted(dropped)
    /\ script \in {"save", "write"} => state = "ended" /\ failed
    /\ script = "check" => failed
    /\ fin \in {"write", "done"} /\ script \notin {"check", "save"} /\ ~rewritten /\ Wanted(dropped)
         => saved

\* The types, by the parts of the state that steps change together
ShardOK ==
    /\ started \in [Streams -> BOOLEAN]
    /\ closing \in [Streams -> {"no", "closed", "removed", "shut"}]
    /\ list \in Seq(Streams) /\ batch \in Seq(Streams)

RtpOK ==
    /\ sent \in 0..MaxSent /\ heard \in 0..MaxHeard /\ heardCloses \in 0..1
    /\ numDigits \in 0..MaxDigits /\ digitSig \in 0..MaxDigits
    /\ reader \in {"read", "audio", "digit", "exit"}
    /\ final \in Stats

RecordOK ==
    mode \in RecordModes /\ failed \in BOOLEAN /\ saved \in BOOLEAN /\ saves \in Nat

EndingOK ==
    /\ state \in {"early", "connected", "ended"}
    /\ answered \in BOOLEAN /\ byError \in BOOLEAN
    /\ dropped \in BOOLEAN /\ rewritten \in BOOLEAN

PcOK ==
    /\ invite \in {"before", "start", "done"}
    /\ fin \in {"none", "close", "save", "write", "done"}
    /\ script \in {"idle", "cancel", "scan", "sleep", "check", "save", "write"}
    /\ waitSig \in 0..MaxDigits

MediaInv ==
    /\ ShardOK /\ RtpOK /\ RecordOK /\ EndingOK /\ PcOK
    /\ ShardInv /\ CounterInv /\ DigitInv /\ EndInv /\ SaveInv
-----------------------------------------------------------------------------
(* The list of a shard *)

\* Scheduler.add puts a stream that is not in the list at its end.
LEMMA AppendFacts ==
    ASSUME NEW l \in Seq(Streams), NEW s \in Streams
    PROVE  /\ Append(l, s) \in Seq(Streams)
           /\ \A x \in Streams : Contains(Append(l, s), x) <=> Contains(l, x) \/ x = s
           /\ IsInjective(l) /\ ~Contains(l, s) => IsInjective(Append(l, s))
<1>1. Append(l, s) \in Seq(Streams)
    OBVIOUS
<1>2. ASSUME NEW x \in Streams PROVE Contains(Append(l, s), x) <=> Contains(l, x) \/ x = s
    BY DEF Contains
<1>3. ASSUME IsInjective(l), ~Contains(l, s) PROVE IsInjective(Append(l, s))
    BY <1>3 DEF Contains, IsInjective
<1> QED BY <1>1, <1>2, <1>3

\* shard.remove leaves a list that has each stream once without this one.
LEMMA RemoveAtFacts ==
    ASSUME NEW l \in Seq(Streams), NEW i \in 1..Len(l), IsInjective(l)
    PROVE  /\ RemoveAt(l, i) \in Seq(Streams)
           /\ \A x \in Streams : Contains(RemoveAt(l, i), x) <=> Contains(l, x) /\ x # l[i]
           /\ IsInjective(RemoveAt(l, i))
<1> DEFINE m == RemoveAt(l, i)
<1>1. /\ m \in Seq(Streams) /\ Len(m) = Len(l) - 1
      /\ \A k \in 1..(Len(l) - 1) : m[k] = IF k < i THEN l[k] ELSE l[k + 1]
    BY RemoveAtEntries
<1> HIDE DEF m
<1>2. \A j, k \in 1..Len(l) : l[j] = l[k] => j = k
    BY DEF IsInjective
<1>3. ASSUME NEW x \in Streams, Contains(m, x) PROVE Contains(l, x) /\ x # l[i]
    <2>1. PICK k \in 1..(Len(l) - 1) : m[k] = x
        BY <1>1, <1>3 DEF Contains
    <2> QED BY <1>1, <1>2, <2>1 DEF Contains
<1>4. ASSUME NEW x \in Streams, Contains(l, x), x # l[i] PROVE Contains(m, x)
    <2>1. PICK k \in 1..Len(l) : l[k] = x
        BY <1>4 DEF Contains
    <2>2. CASE k < i
        <3>1. k \in 1..Len(m) /\ m[k] = x
            BY <1>1, <2>1, <2>2
        <3> QED BY <3>1 DEF Contains
    <2>3. CASE k > i
        <3>1. k - 1 \in 1..Len(m) /\ m[k - 1] = x
            BY <1>1, <2>1, <2>3
        <3> QED BY <3>1 DEF Contains
    <2> QED BY <1>4, <2>1, <2>2, <2>3
<1>5. IsInjective(m)
    <2> SUFFICES ASSUME NEW j \in 1..(Len(l) - 1), NEW k \in 1..(Len(l) - 1), m[j] = m[k]
                 PROVE  j = k
        BY <1>1 DEF IsInjective
    <2> QED BY <1>1, <1>2
<1> QED BY <1>1, <1>3, <1>4, <1>5 DEF m
-----------------------------------------------------------------------------
\* newCall and a new stream
LEMMA MediaInit == Init => MediaInv
<1> SUFFICES ASSUME Init PROVE MediaInv
    OBVIOUS
<1> USE MediaConstants DEF Init
<1>1. ShardOK /\ PcOK
    BY DEF ShardOK, PcOK
<1>2. RtpOK
    BY DEF RtpOK, Stats, Zero
<1>3. RecordOK /\ EndingOK
    BY DEF RecordOK, EndingOK, RecordModes
<1>4. ShardInv
    BY DEF ShardInv, IsInjective, Contains
<1>5. CounterInv
    <2>1. Call \in Streams
        BY DEF Streams
    <2> QED BY <2>1 DEF CounterInv
<1>6. DigitInv /\ EndInv /\ SaveInv
    BY DEF DigitInv, EndInv, SaveInv, One
<1> QED BY <1>1, <1>2, <1>3, <1>4, <1>5, <1>6 DEF MediaInv

\* Start, Close and the removal of a stream keep the list right, and touch no
\* other stream.
LEMMA ShardOps ==
    ASSUME ShardOK, ShardInv, NEW s \in Streams, Start(s) \/ Close(s) \/ Leave(s) \/ Shut(s)
    PROVE  /\ ShardOK' /\ ShardInv'
           /\ \A x \in Streams : x # s => closing'[x] = closing[x]
<1> USE DEF ShardOK
<1>1. CASE Start(s)
    <2>1. CASE ~started[s] /\ closing[s] = "no"
        <3>1. /\ started' = [started EXCEPT ![s] = TRUE] /\ list' = Append(list, s)
              /\ closing' = closing /\ batch' = batch
            BY <1>1, <2>1 DEF Start, Add
        <3>2. ~Contains(list, s)
            BY <2>1 DEF ShardInv
        <3>3. /\ list' \in Seq(Streams) /\ IsInjective(list')
              /\ \A x \in Streams : Contains(list', x) <=> Contains(list, x) \/ x = s
            BY <3>1, <3>2, AppendFacts DEF ShardInv
        <3> QED BY <2>1, <3>1, <3>3 DEF ShardInv
    <2>2. CASE ~(~started[s] /\ closing[s] = "no")
        BY <1>1, <2>2 DEF Start, shard, ShardInv
    <2> QED BY <2>1, <2>2
<1>2. CASE Close(s)
    BY <1>2 DEF Close, ShardInv
<1>3. CASE Leave(s)
    <2>1. /\ list' \in Seq(Streams) /\ IsInjective(list')
          /\ \A x \in Streams : Contains(list', x) <=> Contains(list, x) /\ x # s
        <3>1. CASE ~Contains(list, s)
            <4>1. list' = list
                BY <1>3, <3>1 DEF Leave, RemoveStream
            <4> QED BY <3>1, <4>1 DEF ShardInv
        <3>2. CASE Contains(list, s)
            <4>1. PICK i \in 1..Len(list) : list[i] = s /\ list' = RemoveAt(list, i)
                BY <1>3, <3>2 DEF Leave, RemoveStream, ShardInv
            <4> QED BY <4>1, RemoveAtFacts DEF ShardInv
        <3> QED BY <3>1, <3>2
    <2>2. /\ closing' = [closing EXCEPT ![s] = "removed"] /\ closing[s] = "closed"
          /\ started' = started /\ batch' = batch
        BY <1>3 DEF Leave
    <2> QED BY <2>1, <2>2 DEF ShardInv
<1>4. CASE Shut(s)
    BY <1>4 DEF Shut, ShardInv
<1> QED BY <1>1, <1>2, <1>3, <1>4

\* A step of the call leaves the stream alone.
LEMMA StreamKept ==
    ASSUME MediaInv, UNCHANGED <<shard, rtp>>
    PROVE  ShardOK' /\ RtpOK' /\ ShardInv' /\ CounterInv'
BY DEF MediaInv, ShardOK, RtpOK, ShardInv, CounterInv, shard, rtp

\* A step of the stream leaves the call alone.
LEMMA CallKept ==
    ASSUME MediaInv, UNCHANGED <<record, ending, pcs>>
    PROVE  RecordOK' /\ EndingOK' /\ PcOK' /\ EndInv' /\ SaveInv'
BY DEF MediaInv, RecordOK, EndingOK, PcOK, EndInv, SaveInv, One, Wanted, record, ending, pcs

\* What WaitDigits relies on changes only with the digits and the script.
LEMMA DigitKept ==
    ASSUME MediaInv, UNCHANGED <<numDigits, digitSig, script, waitSig>>
    PROVE  DigitInv'
BY DEF MediaInv, DigitInv
-----------------------------------------------------------------------------
(* The stream *)

\* Other streams start and close: the call's own stream is not theirs.
LEMMA OtherStreamStep ==
    ASSUME MediaInv, NEW s \in Others, OtherStream(s)
    PROVE  MediaInv'
<1>1. s \in Streams /\ Call \in Streams /\ s # Call
    BY MediaConstants DEF Streams
<1>2. ShardOK' /\ ShardInv' /\ closing'[Call] = closing[Call]
    BY <1>1, ShardOps DEF MediaInv, OtherStream
<1>3. UNCHANGED rtp /\ UNCHANGED <<record, ending, pcs>>
    BY DEF OtherStream
<1>4. RtpOK' /\ CounterInv'
    BY <1>2, <1>3 DEF MediaInv, RtpOK, CounterInv, rtp
<1>5. DigitInv'
    BY <1>3, DigitKept DEF rtp, pcs
<1> QED BY <1>2, <1>3, <1>4, <1>5, CallKept DEF MediaInv

\* The ticker loads the list and ticks one stream after the other; a stream that
\* is closed sends nothing.
LEMMA TickerStep ==
    ASSUME MediaInv, TickerFires \/ TickNext
    PROVE  MediaInv'
<1>1. UNCHANGED <<started, closing, list, record, ending, pcs, numDigits, digitSig>>
    BY DEF TickerFires, TickNext, rtp
<1>2. batch' \in Seq(Streams)
    <2>1. CASE TickerFires
        BY <2>1 DEF TickerFires, MediaInv, ShardOK
    <2>2. CASE TickNext
        <3>1. batch \in Seq(Streams) /\ batch # <<>> /\ batch' = Tail(batch)
            BY <2>2 DEF TickNext, MediaInv, ShardOK
        <3> QED BY <3>1
    <2> QED BY <2>1, <2>2
<1>3. ShardOK' /\ ShardInv'
    BY <1>1, <1>2 DEF MediaInv, ShardOK, ShardInv
<1>4. UNCHANGED <<heard, heardCloses, numDigits, digitSig, reader, final>>
    BY DEF TickerFires, TickNext, rtp
<1>5. sent' = sent \/ (closing[Call] = "no" /\ sent < MaxSent /\ sent' = sent + 1)
    BY DEF TickerFires, TickNext, rtp
<1>6. RtpOK'
    BY <1>4, <1>5, MediaConstants DEF MediaInv, RtpOK
<1>7. CounterInv'
    BY <1>1, <1>4, <1>5 DEF MediaInv, CounterInv
<1>8. DigitInv'
    BY <1>1, DigitKept DEF pcs
<1> QED BY <1>1, <1>3, <1>6, <1>7, <1>8, CallKept DEF MediaInv

\* readLoop waits for a packet or ends.
LEMMA ReadStep ==
    ASSUME MediaInv, Read
    PROVE  MediaInv'
<1>1. /\ UNCHANGED <<sent, heard, heardCloses, numDigits, digitSig, final>>
      /\ UNCHANGED <<shard, record, ending, pcs>>
      /\ reader' \in {"audio", "digit", "exit"}
    BY DEF Read
<1>2. ShardOK' /\ ShardInv'
    BY <1>1 DEF MediaInv, ShardOK, ShardInv, shard
<1>3. RtpOK' /\ CounterInv'
    BY <1>1 DEF MediaInv, RtpOK, CounterInv, shard
<1>4. DigitInv'
    BY <1>1, DigitKept DEF pcs
<1> QED BY <1>1, <1>2, <1>3, <1>4, CallKept DEF MediaInv

\* receive: a frame or a digit counts only while the stream is open, heardCh is
\* closed by one frame only, and each digit replaces the signal.
LEMMA ReceiveStep ==
    ASSUME MediaInv, Receive
    PROVE  MediaInv'
<1>1. /\ UNCHANGED <<sent, final>> /\ UNCHANGED <<shard, record, ending, pcs>>
      /\ reader' = "read"
    BY DEF Receive
<1>2. ShardOK' /\ ShardInv'
    BY <1>1 DEF MediaInv, ShardOK, ShardInv, shard
<1>3. RtpOK' /\ CounterInv' /\ DigitInv'
    <2> USE MediaConstants, <1>1 DEF MediaInv, RtpOK, CounterInv, DigitInv, shard, pcs
    <2>1. PcOK
        OBVIOUS
    <2>2. CASE Counted /\ AudioFrame
        BY <2>2 DEF Counted, AudioFrame
    <2>3. CASE Counted /\ NewDigit
        BY <2>1, <2>3 DEF Counted, NewDigit, PcOK
    <2>4. CASE UNCHANGED <<heard, heardCloses, numDigits, digitSig>>
        BY <2>4
    <2> QED BY <2>2, <2>3, <2>4 DEF Receive
<1> QED BY <1>1, <1>2, <1>3, CallKept DEF MediaInv
-----------------------------------------------------------------------------
(* The call and the script *)

\* markConnected: a call that has ended meanwhile stays ended.
LEMMA ConnectStep ==
    ASSUME MediaInv, Connect
    PROVE  MediaInv'
<1> USE DEF MediaInv, Connect, record, ending, pcs
<1>1. UNCHANGED <<shard, rtp>>
    OBVIOUS
<1>2. RecordOK' /\ EndingOK' /\ PcOK'
    <2>1. RecordOK'
        BY DEF RecordOK
    <2>2. EndingOK'
        BY DEF EndingOK
    <2>3. PcOK'
        BY MediaConstants DEF PcOK
    <2> QED BY <2>1, <2>2, <2>3
<1>3. DigitInv'
    BY <1>1 DEF DigitInv, RtpOK, rtp
<1>4. EndInv'
    BY DEF EndInv, EndingOK
<1>5. SaveInv'
    BY DEF SaveInv, EndInv, One, Wanted, RecordOK, EndingOK, PcOK
<1> QED BY <1>1, <1>2, <1>3, <1>4, <1>5, StreamKept DEF MediaInv

\* finish passes its guard and notes whether the call was dropped.
LEMMA FinishStep ==
    ASSUME MediaInv, Finish
    PROVE  MediaInv'
<1> USE DEF MediaInv, Finish, record, ending, pcs
<1>1. UNCHANGED <<shard, rtp>>
    OBVIOUS
<1>2. RecordOK' /\ EndingOK' /\ PcOK'
    <2>1. RecordOK'
        BY DEF RecordOK
    <2>2. EndingOK'
        BY DEF EndingOK
    <2>3. PcOK'
        BY MediaConstants DEF PcOK
    <2> QED BY <2>1, <2>2, <2>3
<1>3. DigitInv'
    BY <1>1 DEF DigitInv, RtpOK, rtp
<1>4. EndInv'
    BY DEF EndInv, EndingOK
<1>5. SaveInv'
    BY DEF SaveInv, EndInv, One, Wanted, RecordOK, EndingOK, PcOK
<1> QED BY <1>1, <1>2, <1>3, <1>4, <1>5, StreamKept DEF MediaInv

\* autoSave by the goroutine that ends the call.
LEMMA FinishSavesStep ==
    ASSUME MediaInv, FinishSaves
    PROVE  MediaInv'
<1> USE DEF MediaInv, FinishSaves, DecideToSave, record, ending, pcs
<1>1. UNCHANGED <<shard, rtp>>
    OBVIOUS
<1>2. RecordOK' /\ EndingOK' /\ PcOK'
    <2>1. RecordOK'
        BY DEF RecordOK
    <2>2. EndingOK'
        BY DEF EndingOK
    <2>3. PcOK'
        BY MediaConstants DEF PcOK
    <2> QED BY <2>1, <2>2, <2>3
<1>3. DigitInv'
    BY <1>1 DEF DigitInv, RtpOK, rtp
<1>4. EndInv'
    BY DEF EndInv, EndingOK
<1>5. SaveInv'
    BY DEF SaveInv, EndInv, One, Wanted, RecordOK, EndingOK, PcOK
<1> QED BY <1>1, <1>2, <1>3, <1>4, <1>5, StreamKept DEF MediaInv

\* ... which writes what it claimed.
LEMMA FinishWritesStep ==
    ASSUME MediaInv, FinishWrites
    PROVE  MediaInv'
<1> USE DEF MediaInv, FinishWrites, Write, record, ending, pcs
<1>1. UNCHANGED <<shard, rtp>>
    OBVIOUS
<1>2. RecordOK' /\ EndingOK' /\ PcOK'
    <2>1. RecordOK'
        BY DEF RecordOK
    <2>2. EndingOK'
        BY DEF EndingOK
    <2>3. PcOK'
        BY MediaConstants DEF PcOK
    <2> QED BY <2>1, <2>2, <2>3
<1>3. DigitInv'
    BY <1>1 DEF DigitInv, RtpOK, rtp
<1>4. EndInv'
    BY DEF EndInv, EndingOK
<1>5. SaveInv'
    BY DEF SaveInv, EndInv, One, Wanted, RecordOK, EndingOK, PcOK
<1> QED BY <1>1, <1>2, <1>3, <1>4, <1>5, StreamKept DEF MediaInv

\* Hangup reads the state.
LEMMA HangupStartStep ==
    ASSUME MediaInv, HangupStart
    PROVE  MediaInv'
<1> USE DEF MediaInv, HangupStart, record, ending, pcs
<1>1. UNCHANGED <<shard, rtp>>
    OBVIOUS
<1>2. RecordOK' /\ EndingOK' /\ PcOK'
    BY MediaConstants DEF RecordOK, EndingOK, PcOK, RtpOK
<1>3. DigitInv'
    BY <1>1 DEF DigitInv, RtpOK, rtp
<1>4. EndInv'
    BY DEF EndInv, EndingOK
<1>5. SaveInv'
    BY DEF SaveInv, EndInv, One, Wanted, RecordOK, EndingOK, PcOK
<1> QED BY <1>1, <1>2, <1>3, <1>4, <1>5, StreamKept DEF MediaInv

\* requestCancel changes the reason, also of a call that has ended.
LEMMA RequestCancelStep ==
    ASSUME MediaInv, RequestCancel
    PROVE  MediaInv'
<1> USE DEF MediaInv, RequestCancel, record, ending, pcs
<1>1. UNCHANGED <<shard, rtp>>
    OBVIOUS
<1>2. RecordOK' /\ EndingOK' /\ PcOK'
    BY MediaConstants DEF RecordOK, EndingOK, PcOK, RtpOK
<1>3. DigitInv'
    BY <1>1 DEF DigitInv, RtpOK, rtp
<1>4. EndInv'
    BY DEF EndInv, EndingOK
<1>5. SaveInv'
    BY DEF SaveInv, EndInv, One, Wanted, RecordOK, EndingOK, PcOK
<1> QED BY <1>1, <1>2, <1>3, <1>4, <1>5, StreamKept DEF MediaInv

\* expectDTMF starts.
LEMMA ExpectDTMFStep ==
    ASSUME MediaInv, ExpectDTMF
    PROVE  MediaInv'
<1> USE DEF MediaInv, ExpectDTMF, record, ending, pcs
<1>1. UNCHANGED <<shard, rtp>>
    OBVIOUS
<1>2. RecordOK' /\ EndingOK' /\ PcOK'
    BY MediaConstants DEF RecordOK, EndingOK, PcOK, RtpOK
<1>3. DigitInv'
    BY <1>1 DEF DigitInv, RtpOK, rtp
<1>4. EndInv'
    BY DEF EndInv, EndingOK
<1>5. SaveInv'
    BY DEF SaveInv, EndInv, One, Wanted, RecordOK, EndingOK, PcOK
<1> QED BY <1>1, <1>2, <1>3, <1>4, <1>5, StreamKept DEF MediaInv

\* WaitDigits looks at the digits and takes the signal that goes with them.
LEMMA ScanStep ==
    ASSUME MediaInv, Scan
    PROVE  MediaInv'
<1> USE DEF MediaInv, Scan, record, ending, pcs
<1>1. UNCHANGED <<shard, rtp>>
    OBVIOUS
<1>2. RecordOK' /\ EndingOK' /\ PcOK'
    BY MediaConstants DEF RecordOK, EndingOK, PcOK, RtpOK
<1>3. DigitInv'
    BY <1>1 DEF DigitInv, RtpOK, rtp
<1>4. EndInv'
    BY DEF EndInv, EndingOK
<1>5. SaveInv'
    BY DEF SaveInv, EndInv, One, Wanted, RecordOK, EndingOK, PcOK
<1> QED BY <1>1, <1>2, <1>3, <1>4, <1>5, StreamKept DEF MediaInv

\* WaitDigits wakes.
LEMMA WakeStep ==
    ASSUME MediaInv, Wake
    PROVE  MediaInv'
<1> USE DEF MediaInv, Wake, record, ending, pcs
<1>1. UNCHANGED <<shard, rtp>>
    OBVIOUS
<1>2. RecordOK' /\ EndingOK' /\ PcOK'
    BY MediaConstants DEF RecordOK, EndingOK, PcOK, RtpOK
<1>3. DigitInv'
    BY <1>1 DEF DigitInv, RtpOK, rtp
<1>4. EndInv'
    BY DEF EndInv, EndingOK
<1>5. SaveInv'
    BY DEF SaveInv, EndInv, One, Wanted, RecordOK, EndingOK, PcOK
<1> QED BY <1>1, <1>2, <1>3, <1>4, <1>5, StreamKept DEF MediaInv

\* An expectation fails.
LEMMA MarkFailedStep ==
    ASSUME MediaInv, MarkFailed
    PROVE  MediaInv'
<1> USE DEF MediaInv, MarkFailed, record, ending, pcs
<1>1. UNCHANGED <<shard, rtp>>
    OBVIOUS
<1>2. RecordOK' /\ EndingOK' /\ PcOK'
    BY MediaConstants DEF RecordOK, EndingOK, PcOK, RtpOK
<1>3. DigitInv'
    BY <1>1 DEF DigitInv, RtpOK, rtp
<1>4. EndInv'
    BY DEF EndInv, EndingOK
<1>5. SaveInv'
    BY DEF SaveInv, EndInv, One, Wanted, RecordOK, EndingOK, PcOK
<1> QED BY <1>1, <1>2, <1>3, <1>4, <1>5, StreamKept DEF MediaInv

\* MarkFailed looks whether the call has ended.
LEMMA MarkChecksStep ==
    ASSUME MediaInv, MarkChecks
    PROVE  MediaInv'
<1> USE DEF MediaInv, MarkChecks, record, ending, pcs
<1>1. UNCHANGED <<shard, rtp>>
    OBVIOUS
<1>2. RecordOK' /\ EndingOK' /\ PcOK'
    BY MediaConstants DEF RecordOK, EndingOK, PcOK, RtpOK
<1>3. DigitInv'
    BY <1>1 DEF DigitInv, RtpOK, rtp
<1>4. EndInv'
    BY DEF EndInv, EndingOK
<1>5. SaveInv'
    BY DEF SaveInv, EndInv, One, Wanted, RecordOK, EndingOK, PcOK
<1> QED BY <1>1, <1>2, <1>3, <1>4, <1>5, StreamKept DEF MediaInv

\* autoSave by MarkFailed.
LEMMA MarkSavesStep ==
    ASSUME MediaInv, MarkSaves
    PROVE  MediaInv'
<1> USE DEF MediaInv, MarkSaves, DecideToSave, record, ending, pcs
<1>1. UNCHANGED <<shard, rtp>>
    OBVIOUS
<1>2. RecordOK' /\ EndingOK' /\ PcOK'
    <2>1. RecordOK'
        BY DEF RecordOK
    <2>2. EndingOK'
        BY DEF EndingOK
    <2>3. PcOK'
        BY MediaConstants DEF PcOK
    <2> QED BY <2>1, <2>2, <2>3
<1>3. DigitInv'
    BY <1>1 DEF DigitInv, RtpOK, rtp
<1>4. EndInv'
    BY DEF EndInv, EndingOK
<1>5. SaveInv'
    BY DEF SaveInv, EndInv, One, Wanted, RecordOK, EndingOK, PcOK
<1> QED BY <1>1, <1>2, <1>3, <1>4, <1>5, StreamKept DEF MediaInv

\* ... which writes what it claimed.
LEMMA MarkWritesStep ==
    ASSUME MediaInv, MarkWrites
    PROVE  MediaInv'
<1> USE DEF MediaInv, MarkWrites, Write, record, ending, pcs
<1>1. UNCHANGED <<shard, rtp>>
    OBVIOUS
<1>2. RecordOK' /\ EndingOK' /\ PcOK'
    <2>1. RecordOK'
        BY DEF RecordOK
    <2>2. EndingOK'
        BY DEF EndingOK
    <2>3. PcOK'
        BY MediaConstants DEF PcOK
    <2> QED BY <2>1, <2>2, <2>3
<1>3. DigitInv'
    BY <1>1 DEF DigitInv, RtpOK, rtp
<1>4. EndInv'
    BY DEF EndInv, EndingOK
<1>5. SaveInv'
    BY DEF SaveInv, EndInv, One, Wanted, RecordOK, EndingOK, PcOK
<1> QED BY <1>1, <1>2, <1>3, <1>4, <1>5, StreamKept DEF MediaInv

\* startMedia, also of a call that has ended meanwhile
LEMMA StartMediaStep ==
    ASSUME MediaInv, StartMedia
    PROVE  MediaInv'
<1>1. Start(Call) /\ UNCHANGED <<fin, script, waitSig, rtp, record, ending>> /\ invite' = "done"
    BY DEF StartMedia
<1>2. Call \in Streams
    BY DEF Streams
<1>3. ShardOK' /\ ShardInv'
    BY <1>1, <1>2, ShardOps DEF MediaInv
<1>4. closing' = closing
    BY <1>1 DEF Start, shard
<1>5. RtpOK' /\ CounterInv'
    BY <1>1, <1>4 DEF MediaInv, RtpOK, CounterInv, rtp
<1>6. RecordOK' /\ EndingOK' /\ PcOK'
    BY <1>1 DEF MediaInv, RecordOK, EndingOK, PcOK, record, ending
<1>7. DigitInv'
    BY <1>1, DigitKept DEF rtp
<1>8. EndInv' /\ SaveInv'
    BY <1>1 DEF MediaInv, EndInv, SaveInv, One, Wanted, record, ending
<1> QED BY <1>3, <1>5, <1>6, <1>7, <1>8 DEF MediaInv

\* closeMedia: the statistics are taken in the critical section that closes the
\* stream, then the stream leaves the shard and its socket is closed.
LEMMA CloseMediaStep ==
    ASSUME MediaInv, CloseMedia
    PROVE  MediaInv'
<1>1. /\ UNCHANGED <<sent, heard, heardCloses, numDigits, digitSig, reader, invite, script, waitSig>>
      /\ UNCHANGED <<record, ending>>
      /\ fin = "close" /\ fin' \in {"close", "save"}
    BY DEF CloseMedia
<1>2. Call \in Streams
    BY DEF Streams
<1>3. Close(Call) \/ Leave(Call) \/ Shut(Call)
    BY DEF CloseMedia
<1>4. ShardOK' /\ ShardInv'
    BY <1>2, <1>3, ShardOps DEF MediaInv
<1>5. final' = IF closing[Call] = "no" THEN [sent |-> sent, heard |-> heard, digits |-> numDigits] ELSE final
    BY DEF CloseMedia, Close, Leave, Shut
<1>6. RtpOK'
    BY <1>1, <1>5 DEF MediaInv, RtpOK, Stats
<1>7. CounterInv'
    BY <1>1, <1>5 DEF MediaInv, CounterInv
<1>8. RecordOK' /\ EndingOK' /\ PcOK'
    BY <1>1 DEF MediaInv, RecordOK, EndingOK, PcOK, record, ending
<1>9. DigitInv'
    BY <1>1, DigitKept
<1>10. EndInv' /\ SaveInv'
    BY <1>1 DEF MediaInv, EndInv, SaveInv, One, Wanted, record, ending
<1> QED BY <1>4, <1>6, <1>7, <1>8, <1>9, <1>10 DEF MediaInv
-----------------------------------------------------------------------------
\* Every step keeps the invariant.
LEMMA MediaStep == MediaInv /\ [Next]_vars => MediaInv'
<1> SUFFICES ASSUME MediaInv, [Next]_vars PROVE MediaInv'
    OBVIOUS
<1>1. CASE UNCHANGED vars
    <2>1. DigitInv'
        BY <1>1, DigitKept DEF vars, rtp, pcs
    <2> QED BY <1>1, <2>1, StreamKept, CallKept DEF vars, MediaInv
<1>2. CASE \E s \in Others : OtherStream(s)
    BY <1>2, OtherStreamStep
<1>3. CASE TickerFires \/ TickNext \/ Read \/ Receive
    BY <1>3, TickerStep, ReadStep, ReceiveStep
<1>4. CASE Connect \/ StartMedia \/ Finish \/ CloseMedia \/ FinishSaves \/ FinishWrites
    BY <1>4, ConnectStep, StartMediaStep, FinishStep, CloseMediaStep, FinishSavesStep,
       FinishWritesStep
<1>5. CASE \/ HangupStart \/ RequestCancel \/ ExpectDTMF \/ Scan \/ Wake
           \/ MarkFailed \/ MarkChecks \/ MarkSaves \/ MarkWrites
    BY <1>5, HangupStartStep, RequestCancelStep, ExpectDTMFStep, ScanStep, WakeStep,
       MarkFailedStep, MarkChecksStep, MarkSavesStep, MarkWritesStep
<1> QED BY <1>1, <1>2, <1>3, <1>4, <1>5 DEF Next

\* The inductive invariant holds in every reachable state.
LEMMA MediaInvariant == Spec => []MediaInv
BY MediaInit, MediaStep, PTL DEF Spec

\* Type correctness, which includes that heardCh is closed at most once: a second
\* close would panic.
THEOREM MediaTypeCorrect == Spec => []TypeOK
<1>1. MediaInv => TypeOK
    BY DEF MediaInv, TypeOK, ShardOK, RtpOK, RecordOK, EndingOK, PcOK
<1> QED BY <1>1, MediaInvariant, PTL

\* autoSave, MarkFailed and finish: the recording is saved exactly once if it is
\* wanted and not at all otherwise, in whatever order the expectation fails and
\* the call ends.
THEOREM MediaSavedIfWanted == Spec => []SavedIfWanted
<1>1. ASSUME MediaInv PROVE SavedIfWanted
    <2> SUFFICES ASSUME fin = "done", script \in {"idle", "cancel", "scan", "sleep"}, ~rewritten
                 PROVE  saves = IF Wanted(dropped) THEN 1 ELSE 0
        BY DEF SavedIfWanted
    <2>1. saved <=> Wanted(dropped)
        BY <1>1 DEF MediaInv, SaveInv
    <2>2. saves = One(saved)
        BY <1>1 DEF MediaInv, SaveInv, RecordOK, One
    <2> QED BY <2>1, <2>2 DEF One
<1> QED BY <1>1, MediaInvariant, PTL

\* Close: the statistics it returned are the last ones.
THEOREM MediaStatsAreFinal == Spec => []StatsAreFinal
<1>1. MediaInv => StatsAreFinal
    BY DEF MediaInv, CounterInv, StatsAreFinal
<1> QED BY <1>1, MediaInvariant, PTL

\* Scheduler.add and shard.remove: each stream that sends is ticked once a frame,
\* and none that was closed.
THEOREM MediaSchedulerHolds == Spec => []SchedulerHolds
<1>1. MediaInv => SchedulerHolds
    BY DEF MediaInv, ShardInv, SchedulerHolds
<1> QED BY <1>1, MediaInvariant, PTL

\* WaitDigits: no digit is missed between the look at the digits and the wait.
THEOREM MediaNoLostDigit == Spec => []NoLostDigit
<1>1. MediaInv => NoLostDigit
    BY DEF MediaInv, DigitInv, NoLostDigit
<1> QED BY <1>1, MediaInvariant, PTL
-----------------------------------------------------------------------------
(* RTP from one stream to another (Stream) *)

\* How far a number lies behind another
Behind(a, b) == (a - b) % Seq16

\* How many packets of a source were sent since the i-th one of it on the way,
\* itself included
Age(s, i) == Behind(seq[s], net[s][i].seq)

\* The same for the highest number received, where it is one of that source
MaxAge(s) == Behind(seq[s], rx.maxSeq)

\* What was sent since the i-th packet and is on the way or may be lost
Room(s, i) == Len(net[s]) - i + 1 + gone

\* The source the receiver counts, and one it has heard nothing of (while no
\* packet has strayed)
Current(s) == rx.init /\ rx.ssrc = s
Fresh(s) == ~rx.init \/ rx.ssrc < s

\* Packets are on the way in the order they were sent; those sent more than
\* MaxLate after one of them have not been received.
NetInv(s) ==
    /\ \A i \in DOMAIN net[s] : net[s][i].ssrc = s /\ Age(s, i) >= 1
    /\ \A i, j \in DOMAIN net[s] : i < j => Age(s, i) > Age(s, j)
    /\ \A i, j \in DOMAIN net[s] : Age(s, i) <= Room(s, i) \/ Age(s, j) - MaxLate <= Room(s, i)

\* No packet younger than the highest has been received, an older one is not
\* much older.
LateInv(s) ==
    /\ Current(s) =>
         /\ MaxAge(s) >= 1 /\ MaxAge(s) <= 1 + Len(net[s]) + gone
         /\ \A i \in DOMAIN net[s] :
              /\ Age(s, i) # MaxAge(s)
              /\ Age(s, i) < MaxAge(s) => Age(s, i) <= Room(s, i)
              /\ Age(s, i) > MaxAge(s) =>
                   Age(s, i) - MaxAge(s) <= MaxLate /\ MaxAge(s) <= Room(s, i)
    /\ Fresh(s) => \A i \in DOMAIN net[s] : Age(s, i) <= Room(s, i)

\* What was expected so far, and what was sent
Base == rx.prevExp + (IF rx.init THEN Expected(rx) ELSE 0)
Total == PacketsReceived + OnTheWay + gone

\* How much more the receiver can come to expect of a source by what that has
\* sent: after the highest number received, or, of a source it has not heard
\* of, from whichever packet arrives first
Owed(s, x) ==
    \/ x = 0
    \/ Current(s) /\ x = MaxAge(s) - 1
    \/ Fresh(s) /\ \E i \in DOMAIN net[s] : x = Age(s, i)

\* What it expects never gets beyond what was sent, whatever arrives of either
\* source.
CountInv ==
    /\ Total <= ts
    /\ ~strayed => \A x, y \in Int : Owed(1, x) /\ Owed(2, y) => Base + x + y <= Total

TrafficInv ==
    /\ \A s \in Sources : NetInv(s) /\ (~strayed => LateInv(s))
    /\ CountInv

\* How many events are over for the queue
Past(q) == queued - Len(q)

Begun(q) == q # <<>> /\ q[1].sent > 0

\* The queue has the digits that are not over, and all but the first have not
\* begun.
QueueInv(q) ==
    /\ q \in Seq(Job)
    /\ Len(q) <= queued
    /\ \A i \in DOMAIN q :
         /\ q[i].digit = Past(q) + i
         /\ i > 1 => q[i].sent = 0
         /\ EventPending(q[i]) => q[i].gap = Gap
         /\ q[i].sent > 0 => q[i].ts < ts

\* An event's packets have its timestamp, and were sent before the pause.
SentInv(q, s) ==
    \A i \in DOMAIN net[s] : net[s][i].digit # 0 =>
        /\ net[s][i].ts < ts
        /\ \/ net[s][i].digit <= Past(q) /\ Age(s, i) > Gap
           \/ /\ Begun(q) /\ net[s][i].digit = Past(q) + 1
              /\ ~EventPending(q[1]) => Age(s, i) > Gap - q[1].gap
        /\ Begun(q) => (net[s][i].digit = Past(q) + 1 <=> net[s][i].ts = q[1].ts)

\* Packets of different events are further apart than one may be late.
ApartInv(s) ==
    \A i, j \in DOMAIN net[s] : i < j /\ net[s][i].digit # 0 /\ net[s][j].digit # 0 =>
        /\ net[s][i].digit <= net[s][j].digit
        /\ net[s][i].digit = net[s][j].digit <=> net[s][i].ts = net[s][j].ts
        /\ net[s][i].digit # net[s][j].digit => Age(s, i) - Age(s, j) > Gap

\* No event before the last one that arrived is on the way, and that one is
\* known by its timestamp.
HeardInv(q, s) ==
    /\ lastEvTS < ts
    /\ \A a \in arrived : a <= Past(q) \/ (Begun(q) /\ a = Past(q) + 1)
    /\ Begun(q) => (Past(q) + 1 \in arrived <=> q[1].ts = lastEvTS)
    /\ \A i \in DOMAIN net[s] : net[s][i].digit # 0 =>
         /\ \A a \in arrived : a <= net[s][i].digit
         /\ net[s][i].digit \in arrived <=> net[s][i].ts = lastEvTS

EventInv(q, s) == QueueInv(q) /\ SentInv(q, s) /\ ApartInv(s) /\ HeardInv(q, s)

\* Events come from the source that is connected; the other one has sent audio
\* or nothing.
AudioInv == \A s \in Sources : s # ssrc => \A i \in DOMAIN net[s] : net[s][i].digit = 0
DialInv == AudioInv /\ \A s \in Sources : s = ssrc => EventInv(dtmfQ, s)

StreamInv ==
    /\ StreamTypeOK
    /\ TrafficInv
    /\ DialInv
    /\ DigitsOnceInOrder
-----------------------------------------------------------------------------
(* Remainders *)

\* What the remainder of a division is.
LEMMA Division ==
    ASSUME NEW n \in Int, n > 0, NEW x \in Int
    PROVE  /\ x \div n \in Int /\ x % n \in 0..n-1
           /\ x = n * (x \div n) + (x % n)
BY Z3T(30)

\* ... and that it is the only one.
LEMMA Remainder ==
    ASSUME NEW n \in Int, n > 0, NEW q \in Int, NEW r \in 0..n-1
    PROVE  (n * q + r) % n = r
<1>1. PICK x \in Int : x = n * q + r
    OBVIOUS
<1> QED BY <1>1

\* Adding a multiple of the modulus changes no remainder.
LEMMA Multiple ==
    ASSUME NEW n \in Int, n > 0, NEW x \in Int, NEW q \in Int
    PROVE  (n * q + x) % n = x % n
<1>1. PICK d \in Int, r \in 0..n-1 : d = x \div n /\ r = x % n /\ x = n * d + r
    BY Division
<1>2. n * q + x = n * (q + d) + r
    BY <1>1
<1>3. (n * (q + d) + r) % n = r
    BY Remainder
<1> QED BY <1>1, <1>2, <1>3

\* A remainder taken early does not change the remainder of a sum: a counter
\* that wraps in between ends up where one that wraps once does.
LEMMA SumRemainder ==
    ASSUME NEW n \in Int, n > 0, NEW x \in Int, NEW y \in Int
    PROVE  ((x % n) + y) % n = (x + y) % n
<1>1. PICK d \in Int, r \in 0..n-1 : d = x \div n /\ r = x % n /\ x = n * d + r
    BY Division
<1>2. x + y = n * d + (r + y)
    BY <1>1
<1>3. PICK z \in Int : z = r + y
    BY <1>1
<1>4. (n * d + z) % n = z % n
    BY Multiple
<1> QED BY <1>1, <1>2, <1>3, <1>4

\* A remainder grows by no more than its argument does.
LEMMA GrowingRemainder ==
    ASSUME NEW n \in Int, n > 0, NEW x \in Int, NEW d \in Nat
    PROVE  (x + d) % n <= (x % n) + d
OBVIOUS

\* A remainder is no greater than its argument.
LEMMA SmallRemainder ==
    ASSUME NEW n \in Int, n > 0
    PROVE  /\ \A x \in Nat : x % n <= x /\ x % n \in Nat
           /\ \A x \in 0..n-1 : x % n = x
           /\ n % n = 0
OBVIOUS

\* Sequence numbers
Number == 0..Seq16-1

\* Half of the sequence numbers, which decide what countSeq takes for later
LEMMA HalfFacts ==
    /\ Seq16 \in Int /\ Seq16 > 1
    /\ Seq16 \div 2 \in Nat /\ Seq16 = 2 * (Seq16 \div 2) /\ Seq16 \div 2 > 0
BY StreamConstants

\* The distance of two sequence numbers, without remainders
LEMMA BehindIs ==
    ASSUME NEW a \in Number, NEW b \in Number
    PROVE  /\ Behind(a, b) = IF a >= b THEN a - b ELSE a - b + Seq16
           /\ Behind(a, b) \in Number
<1>1. Seq16 \in Nat \ {0}
    BY HalfFacts
<1>2. (a - b) % Seq16 = IF a >= b THEN a - b ELSE a - b + Seq16
    BY <1>1 DEF Number
<1> QED BY <1>1, <1>2 DEF Behind, Number

\* After one more packet every number lies one further behind.
LEMMA NextNumber ==
    ASSUME NEW a \in Number
    PROVE  /\ (a + 1) % Seq16 \in Number
           /\ Behind((a + 1) % Seq16, a) = 1
           /\ \A b \in Number : Behind(a, b) < Seq16 - 1 =>
                Behind((a + 1) % Seq16, b) = Behind(a, b) + 1
<1>1. (a + 1) % Seq16 = IF a + 1 = Seq16 THEN 0 ELSE a + 1
    BY HalfFacts, SmallRemainder DEF Number
<1>2. PICK c \in Number : c = (a + 1) % Seq16
    BY <1>1, HalfFacts DEF Number
<1>3. Behind(c, a) = 1
    <2>1. Behind(c, a) = IF c >= a THEN c - a ELSE c - a + Seq16
        BY BehindIs
    <2> QED BY <1>1, <1>2, <2>1, HalfFacts DEF Number
<1>4. ASSUME NEW b \in Number, Behind(a, b) < Seq16 - 1 PROVE Behind(c, b) = Behind(a, b) + 1
    <2>1. /\ Behind(c, b) = IF c >= b THEN c - b ELSE c - b + Seq16
          /\ Behind(a, b) = IF a >= b THEN a - b ELSE a - b + Seq16
        BY BehindIs
    <2> QED BY <1>1, <1>2, <1>4, <2>1, HalfFacts DEF Number
<1> QED BY <1>2, <1>3, <1>4

\* How far two numbers lie behind a third tells how far they are apart: what
\* countSeq computes from two numbers is a difference of ages.
LEMMA BehindChain ==
    ASSUME NEW a \in Number, NEW b \in Number, NEW c \in Number
    PROVE  Behind(c, b) = IF Behind(a, b) >= Behind(a, c)
                          THEN Behind(a, b) - Behind(a, c)
                          ELSE Seq16 - (Behind(a, c) - Behind(a, b))
<1>1. /\ Behind(c, b) = IF c >= b THEN c - b ELSE c - b + Seq16
      /\ Behind(a, b) = IF a >= b THEN a - b ELSE a - b + Seq16
      /\ Behind(a, c) = IF a >= c THEN a - c ELSE a - c + Seq16
    BY BehindIs
<1> QED BY <1>1, HalfFacts DEF Number
-----------------------------------------------------------------------------
(* The two sources *)

\* Lengths of two sequences, for the provers
LEMMA TwoLengths ==
    ASSUME NEW S, NEW u \in Seq(S), NEW v \in Seq(S)
    PROVE  /\ Len(u) \in Nat /\ Len(v) \in Nat /\ Len(u) + Len(v) \in Nat
           /\ Len(u) <= Len(u) + Len(v) /\ Len(v) <= Len(u) + Len(v)
           /\ Len(u) + Len(v) = Len(v) + Len(u)
OBVIOUS

\* One source and the other
LEMMA TheOther ==
    ASSUME NEW s \in Sources, NEW o \in Sources \ {s}
    PROVE  /\ (s = 1 /\ o = 2) \/ (s = 2 /\ o = 1)
           /\ Sources = {s, o}
<1>1. (s = 1 /\ o = 2) \/ (s = 2 /\ o = 1)
    BY DEF Sources
<1>2. CASE s = 1 /\ o = 2
    BY <1>2 DEF Sources
<1>3. CASE s = 2 /\ o = 1
    BY <1>3 DEF Sources
<1> QED BY <1>1, <1>2, <1>3

\* What is on the way of either is on the way.
LEMMA WayFacts ==
    ASSUME NEW n, n[1] \in Seq(Packet), n[2] \in Seq(Packet)
    PROVE  /\ Len(n[1]) + Len(n[2]) \in Nat
           /\ \A s \in Sources : Len(n[s]) \in Nat /\ Len(n[s]) <= Len(n[1]) + Len(n[2])
           /\ \A s \in Sources : \A o \in Sources \ {s} :
                Len(n[1]) + Len(n[2]) = Len(n[s]) + Len(n[o])
<1>1. /\ Len(n[1]) \in Nat /\ Len(n[2]) \in Nat /\ Len(n[1]) + Len(n[2]) \in Nat
      /\ Len(n[1]) <= Len(n[1]) + Len(n[2]) /\ Len(n[2]) <= Len(n[1]) + Len(n[2])
    BY TwoLengths
<1>2. \A s \in Sources : s = 1 \/ s = 2
    BY DEF Sources
<1>3. ASSUME NEW s \in Sources, NEW o \in Sources \ {s}
      PROVE  Len(n[1]) + Len(n[2]) = Len(n[s]) + Len(n[o])
    <2>1. CASE s = 1 /\ o = 2
        BY <2>1, Zenon
    <2>2. CASE s = 2 /\ o = 1
        <3>1. Len(n[1]) + Len(n[2]) = Len(n[2]) + Len(n[1])
            BY TwoLengths
        <3> QED BY <2>2, <3>1, Zenon
    <2> QED BY <2>1, <2>2, TheOther
<1>4. \A s \in Sources : Len(n[s]) \in Nat /\ Len(n[s]) <= Len(n[1]) + Len(n[2])
    BY <1>1, <1>2, Zenon
<1> QED BY <1>1, <1>3, <1>4
-----------------------------------------------------------------------------
(* Packets on the way *)

\* The types of what the network has
LEMMA AgeFacts ==
    ASSUME StreamTypeOK, NEW s \in Sources
    PROVE  /\ Len(net[s]) \in Nat /\ DOMAIN net[s] = 1..Len(net[s]) /\ gone \in Nat /\ seq[s] \in Number
           /\ net[s] \in Seq(Packet) /\ Len(net[s]) <= OnTheWay
           /\ \A i \in DOMAIN net[s] : net[s][i] \in Packet /\ net[s][i].seq \in Number /\ Age(s, i) \in Number
           /\ rx.maxSeq \in Number /\ MaxAge(s) \in Number
           /\ Len(net[s]) + gone <= MaxFlight + MaxLoss
           /\ MaxFlight + MaxLoss < Seq16 \div 2 /\ MaxFlight \in Nat /\ MaxLoss \in Nat
           /\ MaxLate \in Nat /\ MaxLate <= Gap /\ MaxLate <= Seq16 \div 2
<1>0. /\ net[1] \in Seq(Packet) /\ net[2] \in Seq(Packet) /\ net[s] \in Seq(Packet) /\ s \in {1, 2}
      /\ OnTheWay <= MaxFlight /\ seq[s] \in Number
    BY DEF StreamTypeOK, Number, Sources
<1>1. Len(net[s]) \in Nat /\ DOMAIN net[s] = 1..Len(net[s]) /\ gone \in Nat /\ seq[s] \in Number
    BY <1>0, StreamConstants DEF StreamTypeOK
<1>2. \A i \in DOMAIN net[s] : net[s][i] \in Packet /\ net[s][i].seq \in Number
    <2>1. \A i \in DOMAIN net[s] : net[s][i] \in Packet
        BY <1>0
    <2> QED BY <2>1 DEF Packet, Number
<1>3. rx.maxSeq \in Number
    BY DEF StreamTypeOK, RxStats, Number
<1>4. MaxAge(s) \in Number /\ \A i \in DOMAIN net[s] : Age(s, i) \in Number
    BY <1>1, <1>2, <1>3, BehindIs DEF Age, MaxAge
<1>5. Len(net[s]) <= OnTheWay /\ Len(net[s]) <= MaxFlight
    <2>1. Len(net[s]) <= OnTheWay /\ OnTheWay \in Nat
        BY <1>0, WayFacts, Zenon DEF OnTheWay
    <2> QED BY SMTT(30), <1>0, <1>1, <2>1, StreamConstants
<1>6. /\ Len(net[s]) + gone <= MaxFlight + MaxLoss
      /\ MaxFlight + MaxLoss < Seq16 \div 2 /\ MaxFlight \in Nat /\ MaxLoss \in Nat
      /\ MaxLate \in Nat /\ MaxLate <= Gap /\ MaxLate <= Seq16 \div 2
    BY <1>1, <1>5, StreamConstants DEF StreamTypeOK, Gap
<1> QED BY <1>0, <1>1, <1>2, <1>3, <1>4, <1>5, <1>6

\* The room of a packet is at least its own, and less than that of an older one.
LEMMA RoomFacts ==
    ASSUME StreamTypeOK, NEW s \in Sources
    PROVE  /\ \A i \in DOMAIN net[s] : Room(s, i) \in Int /\ Room(s, i) >= 1 /\ Room(s, i) <= Len(net[s]) + gone
           /\ \A i, j \in DOMAIN net[s] : i < j => Room(s, j) <= Room(s, i) - 1
<1>1. PICK n \in Nat, g \in Nat : n = Len(net[s]) /\ g = gone /\ DOMAIN net[s] = 1..n
    BY AgeFacts
<1>2. \A i : Room(s, i) = n - i + 1 + g
    BY <1>1 DEF Room
<1>3. \A i \in 1..n : n - i + 1 + g \in Int /\ n - i + 1 + g >= 1 /\ n - i + 1 + g <= n + g
    OBVIOUS
<1>4. \A i, j \in 1..n : i < j => n - j + 1 + g <= n - i + 1 + g - 1
    OBVIOUS
<1>5. ASSUME NEW i \in 1..n PROVE Room(s, i) \in Int /\ Room(s, i) >= 1 /\ Room(s, i) <= Len(net[s]) + gone
    <2>1. Room(s, i) = n - i + 1 + g
        BY <1>2
    <2> QED BY <1>1, <1>3, <2>1
<1>6. ASSUME NEW i \in 1..n, NEW j \in 1..n, i < j PROVE Room(s, j) <= Room(s, i) - 1
    <2>1. Room(s, i) = n - i + 1 + g /\ Room(s, j) = n - j + 1 + g
        BY <1>2
    <2> QED BY <1>4, <1>6, <2>1
<1> QED BY <1>1, <1>5, <1>6

\* No age is so high that one more packet makes it wrap.
LEMMA Aging ==
    ASSUME StreamTypeOK, NEW s \in Sources, NetInv(s), Len(net[s]) + gone < MaxFlight + MaxLoss,
           NEW b, b = (seq[s] + 1) % Seq16
    PROVE  /\ b \in Number /\ Behind(b, seq[s]) = 1
           /\ \A i \in DOMAIN net[s] : Behind(b, net[s][i].seq) = Age(s, i) + 1
           /\ Current(s) /\ LateInv(s) => Behind(b, rx.maxSeq) = MaxAge(s) + 1
<1>1. \A i \in DOMAIN net[s] : Age(s, i) < Seq16 - 1
    <2> SUFFICES ASSUME NEW i \in DOMAIN net[s] PROVE Age(s, i) < Seq16 - 1
        OBVIOUS
    <2>1. Age(s, i) <= Room(s, i) \/ Age(s, i) - MaxLate <= Room(s, i)
        BY DEF NetInv
    <2>2. Age(s, i) \in Int /\ Room(s, i) \in Int /\ Room(s, i) <= Len(net[s]) + gone
        <3>1. Age(s, i) \in Int
            BY AgeFacts DEF Number
        <3> QED BY <3>1, RoomFacts
    <2>3. /\ MaxFlight \in Nat /\ MaxLoss \in Nat /\ MaxLate \in Nat /\ Len(net[s]) \in Nat /\ gone \in Nat
          /\ MaxFlight + MaxLoss < Seq16 \div 2 /\ MaxLate <= Seq16 \div 2
        BY AgeFacts
    <2>4. PICK h \in Nat : h = Seq16 \div 2 /\ Seq16 = 2 * h
        BY HalfFacts
    <2>5. PICK k \in Nat : k = MaxFlight + MaxLoss /\ k < h
        BY <2>3, <2>4
    <2>6. Room(s, i) < k /\ MaxLate <= h
        BY <2>2, <2>3, <2>4, <2>5
    <2>7. \A x, r, m \in Int : (x <= r \/ x - m <= r) /\ r < k /\ m <= h /\ m >= 0 => x < 2 * h - 1
        BY <2>5
    <2> QED BY SMTT(30), <2>1, <2>2, <2>3, <2>4, <2>6, <2>7
<1>2. Current(s) /\ LateInv(s) => MaxAge(s) < Seq16 - 1
    <2> SUFFICES ASSUME Current(s), LateInv(s) PROVE MaxAge(s) < Seq16 - 1
        OBVIOUS
    <2>1. MaxAge(s) <= 1 + Len(net[s]) + gone
        BY DEF LateInv
    <2>2. MaxAge(s) \in Int
        BY AgeFacts DEF Number
    <2> QED BY <2>1, <2>2, AgeFacts, HalfFacts
<1> QED BY <1>1, <1>2, AgeFacts, NextNumber DEF Age, MaxAge

\* header and WriteToUDP: the new packet is the youngest of its source; the
\* others age.
LEMMA WriteFacts ==
    ASSUME StreamTypeOK, NEW s \in Sources, s = ssrc, NetInv(s),
           NEW t \in 0..MaxTicks, NEW d \in 0..Len(Dial), WriteRTP(t, d), UNCHANGED <<ssrc, rx>>
    PROVE  /\ seq'[s] \in Number
           /\ net'[s] \in Seq(Packet) /\ gone' \in 0..MaxLoss
           /\ Len(net'[s]) + gone' = Len(net[s]) + gone + 1
           /\ gone' \in {gone, gone + 1}
           /\ \A i \in DOMAIN net[s] : i \in DOMAIN net'[s] /\ net'[s][i] = net[s][i] /\ Age(s, i)' = Age(s, i) + 1
           /\ \A i \in DOMAIN net'[s] \ DOMAIN net[s] :
                /\ i = Len(net[s]) + 1 /\ i = Len(net'[s]) /\ gone' = gone
                /\ net'[s][i] = [ssrc |-> s, seq |-> seq[s], ts |-> t, digit |-> d]
                /\ Age(s, i)' = 1
           /\ Current(s) /\ LateInv(s) => MaxAge(s)' = MaxAge(s) + 1
           /\ Current(s)' <=> Current(s)
           /\ Fresh(s)' <=> Fresh(s)
<1>0. s \in DOMAIN net /\ s \in DOMAIN seq
    BY DEF StreamTypeOK
<1>1. Len(net[s]) + gone < MaxFlight + MaxLoss /\ seq'[s] = (seq[s] + 1) % Seq16
    <2>1. /\ Len(net[s]) <= MaxFlight /\ gone <= MaxLoss /\ Len(net[s]) \in Nat /\ gone \in Nat
          /\ Len(net[s]) <= OnTheWay /\ OnTheWay \in Int /\ MaxFlight \in Nat /\ MaxLoss \in Nat
        <3>1. net[1] \in Seq(Packet) /\ net[2] \in Seq(Packet)
            BY AgeFacts DEF Sources
        <3>2. OnTheWay \in Nat
            BY <3>1, WayFacts, Zenon DEF OnTheWay
        <3>3. OnTheWay <= MaxFlight /\ gone <= MaxLoss
            BY StreamConstants DEF StreamTypeOK
        <3> QED BY <3>2, <3>3, AgeFacts
    <2>2. OnTheWay < MaxFlight \/ gone < MaxLoss
        BY DEF WriteRTP
    <2>3. Len(net[s]) + gone < MaxFlight + MaxLoss
        BY <2>1, <2>2
    <2>4. seq'[s] = (seq[s] + 1) % Seq16
        BY <1>0 DEF WriteRTP
    <2> QED BY <2>3, <2>4
<1>2. /\ seq'[s] \in Number /\ Behind(seq'[s], seq[s]) = 1
      /\ \A i \in DOMAIN net[s] : Behind(seq'[s], net[s][i].seq) = Age(s, i) + 1
      /\ Current(s) /\ LateInv(s) => Behind(seq'[s], rx.maxSeq) = MaxAge(s) + 1
    BY <1>1, Aging
<1>3. Current(s) /\ LateInv(s) => MaxAge(s)' = MaxAge(s) + 1
    BY <1>2 DEF MaxAge
<1>4. (Current(s)' <=> Current(s)) /\ (Fresh(s)' <=> Fresh(s))
    BY DEF Current, Fresh
<1>5. CASE UNCHANGED net /\ gone < MaxLoss /\ gone' = gone + 1
    <2>1. \A i \in DOMAIN net[s] : Age(s, i)' = Age(s, i) + 1
        BY <1>2, <1>5 DEF Age
    <2>2. net'[s] \in Seq(Packet) /\ gone' \in 0..MaxLoss
        <3>1. gone \in Nat /\ MaxLoss \in Nat /\ net[s] \in Seq(Packet)
            BY AgeFacts
        <3> QED BY <1>5, <3>1
    <2>3. Len(net'[s]) + gone' = Len(net[s]) + gone + 1 /\ DOMAIN net'[s] = DOMAIN net[s]
        <3>1. net'[s] = net[s] /\ gone' = gone + 1
            BY <1>5
        <3>2. PICK n \in Nat, g \in Nat : n = Len(net[s]) /\ g = gone
            BY AgeFacts
        <3>3. n + (g + 1) = n + g + 1
            OBVIOUS
        <3> QED BY <3>1, <3>2, <3>3
    <2> QED BY <1>2, <1>3, <1>4, <1>5, <2>1, <2>2, <2>3
<1>6. CASE /\ UNCHANGED gone
           /\ net' = [net EXCEPT ![s] =
                        Append(@, [ssrc |-> s, seq |-> seq[s], ts |-> t, digit |-> d])]
    <2> DEFINE p == [ssrc |-> s, seq |-> seq[s], ts |-> t, digit |-> d]
    <2>1. p \in Packet
        <3>1. seq[s] \in 0..Seq16-1
            BY DEF StreamTypeOK
        <3> QED BY <3>1 DEF Packet
    <2>2. net[s] \in Seq(Packet)
        BY AgeFacts
    <2>3. p.seq = seq[s]
        OBVIOUS
    <2>10. net'[s] = Append(net[s], p)
        BY <1>0, <1>6
    <2> HIDE DEF p
    <2>0. PICK n \in Nat : n = Len(net[s]) + 1
        BY AgeFacts
    <2>4. /\ net'[s] \in Seq(Packet) /\ Len(net'[s]) = n /\ DOMAIN net'[s] = 1..n
          /\ net'[s][n] = p
          /\ \A i \in DOMAIN net[s] : i \in DOMAIN net'[s] /\ net'[s][i] = net[s][i]
        BY <2>0, <2>1, <2>2, <2>10
    <2>5. \A i \in DOMAIN net[s] : Age(s, i)' = Age(s, i) + 1
        BY <1>2, <2>4 DEF Age
    <2>6. Age(s, n)' = 1
        BY <1>2, <2>3, <2>4 DEF Age
    <2>7. gone' \in 0..MaxLoss /\ Len(net'[s]) + gone' = Len(net[s]) + gone + 1
        <3>1. /\ gone \in 0..MaxLoss /\ gone \in Nat /\ Len(net[s]) \in Nat
              /\ n = Len(net[s]) + 1 /\ Len(net'[s]) = n /\ gone' = gone
            BY <1>6, <2>0, <2>4, AgeFacts DEF StreamTypeOK
        <3> QED BY <3>1
    <2>8. \A i \in DOMAIN net'[s] \ DOMAIN net[s] : i = n
        BY SMTT(30), <2>0, <2>4, AgeFacts
    <2>9. ASSUME NEW i \in DOMAIN net'[s] \ DOMAIN net[s]
          PROVE  /\ i = Len(net[s]) + 1 /\ i = Len(net'[s]) /\ gone' = gone
                 /\ net'[s][i] = [ssrc |-> s, seq |-> seq[s], ts |-> t, digit |-> d]
                 /\ Age(s, i)' = 1
        BY <1>6, <2>0, <2>4, <2>6, <2>8 DEF p
    <2> QED BY <1>2, <1>3, <1>4, <1>6, <2>4, <2>5, <2>7, <2>9
<1> QED BY <1>5, <1>6 DEF WriteRTP


\* The receiver's counters
LEMMA ExpectedType ==
    ASSUME NEW r \in RxStats
    PROVE  Expected(r) \in 0..CountMod-1
<1>1. PICK x \in Int : x = r.cycles + r.maxSeq - r.baseSeq + 1
    BY DEF RxStats
<1>2. CountMod \in Int /\ CountMod > 0
    BY StreamConstants
<1>3. x % CountMod \in 0..CountMod-1
    BY <1>1, <1>2, Division
<1> QED BY <1>1, <1>3 DEF Expected

\* The types of the counters
LEMMA CountFacts ==
    ASSUME StreamTypeOK
    PROVE  /\ rx \in RxStats /\ rx.init \in BOOLEAN /\ rx.ssrc \in Sources
           /\ rx.prevExp \in Nat /\ rx.prevRecv \in Nat /\ rx.received \in Nat
           /\ Expected(rx) \in Nat
           /\ Base \in Nat /\ PacketsReceived \in Nat /\ ts \in Nat
           /\ OnTheWay \in Nat /\ Total \in Nat
<1>1. rx \in RxStats /\ ts \in Nat
    BY StreamConstants DEF StreamTypeOK
<1>2. /\ rx.prevExp \in Nat /\ rx.prevRecv \in Nat /\ rx.received \in Nat
      /\ rx.init \in BOOLEAN /\ rx.ssrc \in Sources
    BY <1>1, StreamConstants DEF RxStats
<1>3. Expected(rx) \in Nat
    BY <1>1, ExpectedType, StreamConstants
<1>4. OnTheWay \in Nat /\ gone \in Nat
    <2>1. net[1] \in Seq(Packet) /\ net[2] \in Seq(Packet) /\ gone \in Nat
        BY AgeFacts DEF Sources
    <2> QED BY <2>1, WayFacts, Zenon DEF OnTheWay
<1>5. Base \in Nat /\ PacketsReceived \in Nat
    BY <1>1, <1>2, <1>3 DEF Base, PacketsReceived
<1> QED BY <1>1, <1>2, <1>3, <1>4, <1>5 DEF Total

\* A source that does not send and of which nothing is heard: the room of its
\* packets does not shrink.
LEMMA Bystander ==
    ASSUME StreamTypeOK, NEW o \in Sources, net'[o] = net[o], seq'[o] = seq[o],
           gone' \in {gone, gone + 1}, rx' = rx \/ ~Current(o)', Fresh(o)' => Fresh(o)
    PROVE  /\ NetInv(o) => NetInv(o)'
           /\ LateInv(o) => LateInv(o)'
           /\ \A x : Owed(o, x)' => Owed(o, x)
<1>1. DOMAIN net[o] = 1..Len(net[o]) /\ Len(net[o]) \in Nat /\ gone \in Nat /\ MaxLate \in Nat
    BY AgeFacts
<1>2. \A i \in DOMAIN net[o] : Age(o, i)' = Age(o, i) /\ Age(o, i) \in Int
    <2>1. \A i \in DOMAIN net[o] : Age(o, i) \in Int
        BY AgeFacts DEF Number
    <2> QED BY <2>1 DEF Age
<1>3. ASSUME NEW i \in DOMAIN net[o]
      PROVE  Room(o, i) \in Int /\ Room(o, i)' \in Int /\ Room(o, i)' >= Room(o, i)
    <2>1. PICK n \in Nat, g \in Nat : n = Len(net[o]) /\ g = gone /\ i \in 1..n
        BY <1>1
    <2>2. Room(o, i) = n - i + 1 + g /\ Room(o, i)' = n - i + 1 + gone'
        BY <2>1 DEF Room
    <2> QED BY SMTT(30), <2>1, <2>2
<1>4. /\ Current(o)' => Current(o) /\ MaxAge(o)' = MaxAge(o)
      /\ MaxAge(o) \in Int
    <2>1. MaxAge(o) \in Int
        BY AgeFacts DEF Number
    <2> QED BY <2>1 DEF Current, MaxAge
<1>5. ASSUME NetInv(o) PROVE NetInv(o)'
    <2>1. \A i \in DOMAIN net[o] : net[o][i].ssrc = o /\ Age(o, i)' >= 1
        BY <1>2, <1>5 DEF NetInv
    <2>2. \A i, j \in DOMAIN net[o] : i < j => Age(o, i)' > Age(o, j)'
        BY <1>2, <1>5 DEF NetInv
    <2>3. ASSUME NEW i \in DOMAIN net[o], NEW j \in DOMAIN net[o]
          PROVE  Age(o, i)' <= Room(o, i)' \/ Age(o, j)' - MaxLate <= Room(o, i)'
        <3>1. Age(o, i) <= Room(o, i) \/ Age(o, j) - MaxLate <= Room(o, i)
            BY <1>5 DEF NetInv
        <3> QED BY <1>1, <1>2, <1>3, <3>1
    <2> QED BY <2>1, <2>2, <2>3 DEF NetInv
<1>6. ASSUME LateInv(o) PROVE LateInv(o)'
    <2>1. ASSUME Current(o)' PROVE MaxAge(o)' >= 1 /\ MaxAge(o)' <= 1 + Len(net'[o]) + gone'
        BY <1>1, <1>4, <1>6, <2>1 DEF LateInv
    <2>2. ASSUME Current(o)', NEW i \in DOMAIN net[o]
          PROVE  /\ Age(o, i)' # MaxAge(o)'
                 /\ Age(o, i)' < MaxAge(o)' => Age(o, i)' <= Room(o, i)'
                 /\ Age(o, i)' > MaxAge(o)' =>
                      Age(o, i)' - MaxAge(o)' <= MaxLate /\ MaxAge(o)' <= Room(o, i)'
        <3>1. /\ Age(o, i) # MaxAge(o)
              /\ Age(o, i) < MaxAge(o) => Age(o, i) <= Room(o, i)
              /\ Age(o, i) > MaxAge(o) => Age(o, i) - MaxAge(o) <= MaxLate /\ MaxAge(o) <= Room(o, i)
            BY <1>4, <1>6, <2>2 DEF LateInv
        <3>2. PICK a \in Int, m \in Int, r \in Int, z \in Int :
                /\ a = Age(o, i) /\ m = MaxAge(o) /\ r = Room(o, i) /\ z = Room(o, i)' /\ z >= r
                /\ Age(o, i)' = a /\ MaxAge(o)' = m
            BY <1>2, <1>3, <1>4, <2>2
        <3>3. a # m /\ (a < m => a <= r) /\ (a > m => a - m <= MaxLate /\ m <= r)
            BY <3>1, <3>2
        <3>4. (a < m => a <= z) /\ (a > m => a - m <= MaxLate /\ m <= z)
            BY <3>2, <3>3
        <3> QED BY <3>2, <3>3, <3>4
    <2>3. ASSUME Fresh(o)', NEW i \in DOMAIN net[o] PROVE Age(o, i)' <= Room(o, i)'
        <3>1. Age(o, i) <= Room(o, i)
            BY <1>6, <2>3 DEF LateInv
        <3> QED BY <1>2, <1>3, <3>1
    <2> QED BY <2>1, <2>2, <2>3 DEF LateInv
<1>7. ASSUME NEW x, Owed(o, x)' PROVE Owed(o, x)
    BY <1>2, <1>4, <1>7 DEF Owed
<1> QED BY <1>5, <1>6, <1>7

\* What the sources owe is in balance again when one of them has made a step.
LEMMA Balance ==
    ASSUME StreamTypeOK, CountInv, ~strayed, NEW s \in Sources, NEW o \in Sources \ {s},
           Base' \in Int, Total' \in Int,
           \A y : Owed(o, y)' => Owed(o, y),
           \A x \in Int : Owed(s, x)' =>
               \E z \in Int : Owed(s, z) /\ (Base' + x) - Total' <= (Base + z) - Total
    PROVE  \A x, y \in Int : Owed(1, x)' /\ Owed(2, y)' => Base' + x + y <= Total'
<1>1. Base \in Int /\ Total \in Int
    BY CountFacts
<1>2. \A z, y \in Int : Owed(s, z) /\ Owed(o, y) => Base + z + y <= Total
    <2>1. CASE s = 1 /\ o = 2
        BY <2>1 DEF CountInv
    <2>2. CASE s = 2 /\ o = 1
        <3>1. \A z, y \in Int : Owed(1, y) /\ Owed(2, z) => Base + y + z <= Total
            BY DEF CountInv
        <3>2. \A z, y \in Int : Base + y + z = Base + z + y
            BY <1>1
        <3> QED BY <2>2, <3>1, <3>2
    <2> QED BY <2>1, <2>2 DEF Sources
<1>3. ASSUME NEW x \in Int, NEW y \in Int, Owed(s, x)', Owed(o, y)' PROVE Base' + x + y <= Total'
    <2>1. PICK z \in Int : Owed(s, z) /\ (Base' + x) - Total' <= (Base + z) - Total
        BY <1>3
    <2>2. Base + z + y <= Total
        BY <1>2, <1>3, <2>1
    <2>3. PICK b \in Int, c \in Int, u \in Int, v \in Int : b = Base /\ c = Base' /\ u = Total /\ v = Total'
        BY <1>1
    <2>4. (c + x) - v <= (b + z) - u /\ b + z + y <= u
        BY <2>1, <2>2, <2>3
    <2>5. c + x + y <= v
        BY <2>4
    <2> QED BY <2>3, <2>5
<1>4. CASE s = 1 /\ o = 2
    BY <1>3, <1>4
<1>5. CASE s = 2 /\ o = 1
    <2>1. \A x, y \in Int : Base' + x + y = Base' + y + x
        OBVIOUS
    <2>2. ASSUME NEW x \in Int, NEW y \in Int, Owed(1, x)', Owed(2, y)' PROVE Base' + x + y <= Total'
        <3>1. Base' + y + x <= Total'
            BY <1>3, <1>5, <2>2
        <3> QED BY <2>1, <3>1
    <2> QED BY <2>2
<1> QED BY <1>4, <1>5, TheOther

\* header and WriteToUDP keep the packets of the source in order.
LEMMA WriteSource ==
    ASSUME StreamTypeOK, NEW s \in Sources, s = ssrc, NetInv(s),
           NEW t \in 0..MaxTicks, NEW d \in 0..Len(Dial), WriteRTP(t, d), UNCHANGED <<ssrc, rx>>
    PROVE  /\ NetInv(s)'
           /\ LateInv(s) => LateInv(s)'
<1>0. /\ net'[s] \in Seq(Packet) /\ gone' \in 0..MaxLoss
      /\ Len(net'[s]) + gone' = Len(net[s]) + gone + 1
      /\ \A i \in DOMAIN net[s] : i \in DOMAIN net'[s] /\ net'[s][i] = net[s][i] /\ Age(s, i)' = Age(s, i) + 1
      /\ \A i \in DOMAIN net'[s] \ DOMAIN net[s] :
           /\ i = Len(net[s]) + 1 /\ i = Len(net'[s]) /\ gone' = gone
           /\ net'[s][i] = [ssrc |-> s, seq |-> seq[s], ts |-> t, digit |-> d]
           /\ Age(s, i)' = 1
      /\ Current(s) /\ LateInv(s) => MaxAge(s)' = MaxAge(s) + 1
      /\ Current(s)' <=> Current(s)
      /\ Fresh(s)' <=> Fresh(s)
    BY WriteFacts
<1>1. /\ Len(net'[s]) + gone' = Len(net[s]) + gone + 1
      /\ gone' \in Nat /\ Len(net'[s]) \in Nat /\ DOMAIN net'[s] = 1..Len(net'[s])
      /\ \A i \in DOMAIN net[s] : i \in DOMAIN net'[s] /\ net'[s][i] = net[s][i] /\ Age(s, i)' = Age(s, i) + 1
      /\ \A i \in DOMAIN net'[s] \ DOMAIN net[s] :
           i = Len(net[s]) + 1 /\ i = Len(net'[s]) /\ gone' = gone /\ net'[s][i].ssrc = s /\ Age(s, i)' = 1
      /\ Current(s) /\ LateInv(s) => MaxAge(s)' = MaxAge(s) + 1
      /\ Current(s)' <=> Current(s)
      /\ Fresh(s)' <=> Fresh(s)
    <2>1. gone' \in Nat /\ Len(net'[s]) \in Nat /\ DOMAIN net'[s] = 1..Len(net'[s])
        BY <1>0, StreamConstants
    <2> QED BY <1>0, <2>1
<1>2. /\ Len(net[s]) \in Nat /\ DOMAIN net[s] = 1..Len(net[s]) /\ gone \in Nat
      /\ \A i \in DOMAIN net[s] : Age(s, i) \in Int
      /\ MaxAge(s) \in Int /\ MaxLate \in Nat
    BY AgeFacts DEF Number
<1>3. /\ \A i \in DOMAIN net[s] : Room(s, i) \in Int /\ Room(s, i)' = Room(s, i) + 1
      /\ \A i \in DOMAIN net'[s] \ DOMAIN net[s] : Room(s, i)' \in Int /\ Room(s, i)' >= 1
    <2>0. /\ Len(net[s]) \in Int /\ gone \in Int /\ Len(net'[s]) \in Int /\ gone' \in Int
          /\ Len(net'[s]) + gone' = Len(net[s]) + gone + 1
        BY <1>1, <1>2
    <2>3. PICK n \in Int, m \in Int, g \in Int, h \in Int :
            n = Len(net[s]) /\ m = Len(net'[s]) /\ g = gone /\ h = gone' /\ m + h = n + g + 1
        BY <2>0
    <2>4. \A k \in Int : n - k + 1 + g \in Int /\ m - k + 1 + h = (n - k + 1 + g) + 1
        BY SMTT(30), <2>3
    <2>1. ASSUME NEW i \in DOMAIN net[s] PROVE Room(s, i) \in Int /\ Room(s, i)' = Room(s, i) + 1
        <3>1. i \in Int
            BY <1>2
        <3>2. Room(s, i) = n - i + 1 + g /\ Room(s, i)' = m - i + 1 + h
            BY <2>3 DEF Room
        <3> QED BY <2>4, <3>1, <3>2
    <2>2. ASSUME NEW i \in DOMAIN net'[s] \ DOMAIN net[s] PROVE Room(s, i)' \in Int /\ Room(s, i)' >= 1
        BY SMTT(30), <1>1, <1>2 DEF Room
    <2> QED BY <2>1, <2>2
<1>4. NetInv(s)'
    <2>1. \A i \in DOMAIN net'[s] : net'[s][i].ssrc = s /\ Age(s, i)' >= 1
        <3> SUFFICES ASSUME NEW i \in DOMAIN net'[s] PROVE net'[s][i].ssrc = s /\ Age(s, i)' >= 1
            OBVIOUS
        <3>1. CASE i \in DOMAIN net[s]
            <4>1. net[s][i].ssrc = s /\ Age(s, i) >= 1
                BY <3>1 DEF NetInv
            <4> QED BY SMTT(30), <1>1, <1>2, <3>1, <4>1
        <3>2. CASE i \notin DOMAIN net[s]
            BY SMTT(30), <1>1, <3>2
        <3> QED BY <3>1, <3>2
    <2>2. ASSUME NEW i \in DOMAIN net'[s], NEW j \in DOMAIN net'[s], i < j PROVE Age(s, i)' > Age(s, j)'
        <3>1. i \in DOMAIN net[s]
            BY <1>1, <1>2, <2>2
        <3>2. CASE j \in DOMAIN net[s]
            BY <1>1, <1>2, <2>2, <3>1, <3>2 DEF NetInv
        <3>3. CASE j \notin DOMAIN net[s]
            <4>1. Age(s, j)' = 1 /\ Age(s, i)' = Age(s, i) + 1
                BY <1>1, <3>1, <3>3
            <4>2. Age(s, i) \in Int /\ Age(s, i) >= 1
                BY <1>2, <3>1 DEF NetInv
            <4> QED BY <4>1, <4>2
        <3> QED BY <3>2, <3>3
    <2>3. ASSUME NEW i \in DOMAIN net'[s], NEW j \in DOMAIN net'[s]
          PROVE  Age(s, i)' <= Room(s, i)' \/ Age(s, j)' - MaxLate <= Room(s, i)'
        <3>1. CASE i \in DOMAIN net[s] /\ j \in DOMAIN net[s]
            <4>2. Age(s, i) <= Room(s, i) \/ Age(s, j) - MaxLate <= Room(s, i)
                BY <3>1 DEF NetInv
            <4>3. /\ Age(s, i) \in Int /\ Age(s, j) \in Int /\ Room(s, i) \in Int /\ MaxLate \in Int
                  /\ Age(s, i)' = Age(s, i) + 1 /\ Age(s, j)' = Age(s, j) + 1 /\ Room(s, i)' = Room(s, i) + 1
                BY <1>1, <1>2, <1>3, <3>1
            <4> QED BY <4>2, <4>3
        <3>2. CASE i \notin DOMAIN net[s]
            BY <1>1, <1>3, <3>2
        <3>3. CASE i \in DOMAIN net[s] /\ j \notin DOMAIN net[s]
            <4>1. Age(s, j)' = 1 /\ MaxLate \in Int /\ MaxLate >= 0
                BY <1>1, <1>2, <3>3
            <4>2. Room(s, i)' \in Int /\ Room(s, i)' >= 1
                <5>1. Room(s, i) \in Int /\ Room(s, i) >= 1
                    BY <3>3, RoomFacts
                <5> QED BY <1>3, <3>3, <5>1
            <4> QED BY <4>1, <4>2
        <3> QED BY <3>1, <3>2, <3>3
    <2> QED BY <2>1, <2>2, <2>3 DEF NetInv
<1>5. ASSUME LateInv(s) PROVE LateInv(s)'
    <2>2. ASSUME Current(s)' PROVE MaxAge(s)' >= 1 /\ MaxAge(s)' <= 1 + Len(net'[s]) + gone'
        BY SMTT(30), <1>1, <1>2, <1>5, <2>2 DEF LateInv
    <2>3. ASSUME Current(s)', NEW i \in DOMAIN net'[s]
          PROVE  /\ Age(s, i)' # MaxAge(s)'
                 /\ Age(s, i)' < MaxAge(s)' => Age(s, i)' <= Room(s, i)'
                 /\ Age(s, i)' > MaxAge(s)' => Age(s, i)' - MaxAge(s)' <= MaxLate /\ MaxAge(s)' <= Room(s, i)'
        <3>1. CASE i \in DOMAIN net[s]
            <4>1. /\ Age(s, i) # MaxAge(s)
                  /\ Age(s, i) < MaxAge(s) => Age(s, i) <= Room(s, i)
                  /\ Age(s, i) > MaxAge(s) => Age(s, i) - MaxAge(s) <= MaxLate /\ MaxAge(s) <= Room(s, i)
                BY <1>1, <1>5, <2>3, <3>1 DEF LateInv
            <4>2. Age(s, i)' = Age(s, i) + 1 /\ MaxAge(s)' = MaxAge(s) + 1 /\ Room(s, i)' = Room(s, i) + 1
                BY <1>1, <1>3, <1>5, <2>3, <3>1
            <4>3. PICK a \in Int, b \in Int, c \in Int, e \in Int :
                    a = Age(s, i) /\ b = MaxAge(s) /\ c = Room(s, i) /\ e = MaxLate
                BY <1>2, <1>3, <3>1
            <4>4. /\ a # b /\ (a < b => a <= c) /\ (a > b => a - b <= e /\ b <= c)
                  /\ Age(s, i)' = a + 1 /\ MaxAge(s)' = b + 1 /\ Room(s, i)' = c + 1
                BY <4>1, <4>2, <4>3
            <4>5. /\ a + 1 # b + 1 /\ (a + 1 < b + 1 => a + 1 <= c + 1)
                  /\ a + 1 > b + 1 => (a + 1) - (b + 1) <= e /\ b + 1 <= c + 1
                BY <4>4
            <4> QED BY <4>3, <4>4, <4>5
        <3>2. CASE i \notin DOMAIN net[s]
            BY <1>1, <1>2, <1>3, <1>5, <2>3, <3>2 DEF LateInv
        <3> QED BY <3>1, <3>2
    <2>4. ASSUME Fresh(s)', NEW i \in DOMAIN net'[s] PROVE Age(s, i)' <= Room(s, i)'
        <3>1. CASE i \in DOMAIN net[s]
            BY <1>1, <1>2, <1>3, <1>5, <2>4, <3>1 DEF LateInv
        <3>2. CASE i \notin DOMAIN net[s]
            BY <1>1, <1>3, <3>2
        <3> QED BY <3>1, <3>2
    <2> QED BY <2>2, <2>3, <2>4 DEF LateInv
<1> QED BY <1>4, <1>5

\* What is written, for the types
LEMMA WriteTypes ==
    ASSUME StreamTypeOK, TrafficInv, NEW t \in 0..MaxTicks, NEW d \in 0..Len(Dial),
           WriteRTP(t, d), UNCHANGED <<ssrc, rx>>
    PROVE  /\ seq' \in [Sources -> Number] /\ gone' \in 0..MaxLoss
           /\ net' \in [Sources -> Seq(Packet)] /\ OnTheWay' <= MaxFlight
           /\ OnTheWay' + gone' = OnTheWay + gone + 1
<1>1. PICK s \in Sources, o \in Sources : s = ssrc /\ o \in Sources \ {s}
    BY DEF StreamTypeOK, Sources
<1>2. NetInv(s)
    BY DEF TrafficInv
<1>3. /\ seq'[s] \in Number /\ net'[s] \in Seq(Packet) /\ gone' \in 0..MaxLoss
      /\ Len(net'[s]) + gone' = Len(net[s]) + gone + 1 /\ gone' \in {gone, gone + 1}
    BY <1>1, <1>2, WriteFacts
<1>4. /\ net'[o] = net[o] /\ seq'[o] = seq[o] /\ DOMAIN net' = Sources /\ DOMAIN seq' = Sources
      /\ net' = [x \in Sources |-> net'[x]] /\ seq' = [x \in Sources |-> seq'[x]]
    BY <1>1 DEF WriteRTP, StreamTypeOK
<1>5. net[o] \in Seq(Packet) /\ net[s] \in Seq(Packet) /\ seq[o] \in Number /\ gone \in Nat
    BY AgeFacts
<1>6. Sources = {s, o}
    BY <1>1, TheOther
<1>7. net' \in [Sources -> Seq(Packet)]
    BY <1>3, <1>4, <1>5, <1>6
<1>8. seq' \in [Sources -> Number]
    BY <1>3, <1>4, <1>5, <1>6
<1>9. OnTheWay = Len(net[s]) + Len(net[o]) /\ OnTheWay' = Len(net'[s]) + Len(net'[o])
    <2>1. net'[1] \in Seq(Packet) /\ net'[2] \in Seq(Packet) /\ net[1] \in Seq(Packet) /\ net[2] \in Seq(Packet)
        BY <1>7, AgeFacts DEF Sources
    <2>2. \A n : n[1] \in Seq(Packet) /\ n[2] \in Seq(Packet) =>
                Len(n[1]) + Len(n[2]) = Len(n[s]) + Len(n[o])
        BY <1>1, WayFacts
    <2> QED BY <2>1, <2>2, Zenon DEF OnTheWay
<1>10. OnTheWay' + gone' = OnTheWay + gone + 1
    <2>1. Len(net[s]) \in Nat /\ Len(net[o]) \in Nat /\ Len(net'[s]) \in Nat /\ gone' \in Nat
        BY <1>3, <1>5, StreamConstants
    <2>2. PICK a \in Nat, b \in Nat, c \in Nat, g \in Nat, h \in Nat :
            /\ a = Len(net[s]) /\ b = Len(net[o]) /\ c = Len(net'[s]) /\ g = gone /\ h = gone'
            /\ c + h = a + g + 1
        BY <1>3, <1>5, <2>1
    <2>3. OnTheWay = a + b /\ OnTheWay' = c + b
        BY <1>4, <1>9, <2>2
    <2>4. \A u, v, w, x, y \in Int : w + y = u + x + 1 => (w + v) + y = (u + v) + x + 1
        OBVIOUS
    <2>5. a \in Int /\ b \in Int /\ c \in Int /\ g \in Int /\ h \in Int /\ c + h = a + g + 1
        BY <2>2
    <2>6. (c + b) + h = (a + b) + g + 1
        BY <2>4, <2>5
    <2> QED BY <2>2, <2>3, <2>6
<1>11. OnTheWay' <= MaxFlight
    <2>1. OnTheWay \in Nat /\ OnTheWay' \in Nat /\ OnTheWay <= MaxFlight /\ MaxFlight \in Nat
        <3>1. net'[1] \in Seq(Packet) /\ net'[2] \in Seq(Packet)
            BY <1>7 DEF Sources
        <3>3. OnTheWay' \in Nat
            BY <3>1, WayFacts, Zenon DEF OnTheWay
        <3>2. OnTheWay \in Nat /\ OnTheWay <= MaxFlight /\ MaxFlight \in Nat
            BY CountFacts, StreamConstants DEF StreamTypeOK
        <3> QED BY <3>2, <3>3
    <2>2. (gone' = gone /\ OnTheWay < MaxFlight) \/ gone' = gone + 1
        BY DEF WriteRTP
    <2> QED BY <1>5, <1>10, <2>1, <2>2
<1> QED BY <1>3, <1>7, <1>8, <1>10, <1>11

\* header and WriteToUDP keep what is on the way in order and the counts in
\* balance.
LEMMA WriteNet ==
    ASSUME StreamTypeOK, TrafficInv, NEW t \in 0..MaxTicks, NEW d \in 0..Len(Dial),
           WriteRTP(t, d), UNCHANGED <<ssrc, rx, strayed>>, ts' = ts + 1
    PROVE  TrafficInv'
<1>1. PICK s \in Sources, o \in Sources : s = ssrc /\ o \in Sources \ {s}
    BY DEF StreamTypeOK, Sources
<1>2. NetInv(s) /\ NetInv(o) /\ (~strayed => LateInv(s) /\ LateInv(o)) /\ CountInv
    BY DEF TrafficInv
<1>3. NetInv(s)' /\ (LateInv(s) => LateInv(s)')
    BY <1>1, <1>2, WriteSource
<1>4. /\ gone' \in {gone, gone + 1}
      /\ \A i \in DOMAIN net[s] : Age(s, i)' = Age(s, i) + 1
      /\ \A i \in DOMAIN net'[s] \ DOMAIN net[s] : Age(s, i)' = 1
      /\ Current(s) /\ LateInv(s) => MaxAge(s)' = MaxAge(s) + 1
      /\ (Current(s)' <=> Current(s)) /\ (Fresh(s)' <=> Fresh(s))
    BY <1>1, <1>2, WriteFacts
<1>5. NetInv(o)' /\ (LateInv(o) => LateInv(o)') /\ \A y : Owed(o, y)' => Owed(o, y)
    <2>1. net'[o] = net[o] /\ seq'[o] = seq[o] /\ rx' = rx /\ (Fresh(o)' => Fresh(o))
        BY <1>1 DEF WriteRTP, StreamTypeOK, Fresh
    <2> QED BY <1>2, <1>4, <2>1, Bystander
<1>6. /\ Base' = Base /\ Base \in Int /\ Total \in Int /\ ts \in Int
      /\ Total' = Total + 1
    <2>1. Base' = Base /\ PacketsReceived' = PacketsReceived
        BY DEF Base, PacketsReceived, Expected
    <2>2. /\ Base \in Int /\ Total \in Int /\ ts \in Int
          /\ PacketsReceived \in Int /\ OnTheWay \in Int /\ gone \in Int
        BY CountFacts, AgeFacts, <1>1
    <2>3. OnTheWay' + gone' = OnTheWay + gone + 1 /\ OnTheWay' \in Int /\ gone' \in Int
        <3>1. /\ OnTheWay' + gone' = OnTheWay + gone + 1 /\ gone' \in Int
              /\ net' \in [Sources -> Seq(Packet)]
            BY WriteTypes
        <3>2. net'[1] \in Seq(Packet) /\ net'[2] \in Seq(Packet)
            BY <3>1 DEF Sources
        <3>3. OnTheWay' \in Nat
            BY <3>2, WayFacts, Zenon DEF OnTheWay
        <3> QED BY <3>1, <3>3
    <2>4. Total = PacketsReceived + OnTheWay + gone /\ Total' = PacketsReceived + OnTheWay' + gone'
        BY <2>1 DEF Total
    <2>6. PICK p \in Int, a \in Int, b \in Int, g \in Int, h \in Int :
            /\ p = PacketsReceived /\ a = OnTheWay /\ b = OnTheWay' /\ g = gone /\ h = gone'
            /\ b + h = a + g + 1
        BY <2>2, <2>3
    <2>5. Total' = Total + 1
        <3>1. \A u, v, w, x, y \in Int : w + y = v + x + 1 => u + w + y = (u + v + x) + 1
            OBVIOUS
        <3>2. p \in Int /\ a \in Int /\ b \in Int /\ g \in Int /\ h \in Int /\ b + h = a + g + 1
            BY <2>6
        <3>3. p + b + h = (p + a + g) + 1
            BY <3>1, <3>2
        <3> QED BY <2>4, <2>6, <3>3
    <2> QED BY <2>1, <2>2, <2>5
<1>7. Total' <= ts'
    BY <1>2, <1>6 DEF CountInv
<1>8. ASSUME ~strayed PROVE \A x, y \in Int : Owed(1, x)' /\ Owed(2, y)' => Base' + x + y <= Total'
    <2>1. /\ \A i \in DOMAIN net[s] : Age(s, i) \in Int
          /\ MaxAge(s) \in Int
        BY AgeFacts DEF Number
    <2>2. Owed(s, 0)
        BY DEF Owed
    <2>3. ASSUME NEW x \in Int, Owed(s, x)'
          PROVE  \E z \in Int : Owed(s, z) /\ x <= z + 1
        <3>1. CASE x = 0
            BY <2>2, <3>1
        <3>2. CASE Current(s)' /\ x = MaxAge(s)' - 1
            <4>1. Current(s) /\ MaxAge(s)' = MaxAge(s) + 1
                BY <1>2, <1>4, <1>8, <3>2
            <4>2. Owed(s, MaxAge(s) - 1)
                BY <4>1 DEF Owed
            <4>3. MaxAge(s) - 1 \in Int /\ x <= (MaxAge(s) - 1) + 1
                BY <2>1, <3>2, <4>1
            <4> QED BY <4>2, <4>3
        <3>3. ASSUME Fresh(s)', NEW i \in DOMAIN net'[s], x = Age(s, i)'
              PROVE  \E z \in Int : Owed(s, z) /\ x <= z + 1
            <4>1. CASE i \in DOMAIN net[s]
                <5>1. Owed(s, Age(s, i))
                    BY <1>4, <3>3, <4>1 DEF Owed
                <5>2. Age(s, i) \in Int /\ x <= Age(s, i) + 1
                    BY <1>4, <2>1, <3>3, <4>1
                <5> QED BY <5>1, <5>2
            <4>2. CASE i \notin DOMAIN net[s]
                <5>1. x <= 0 + 1
                    BY <1>4, <3>3, <4>2
                <5> QED BY <2>2, <5>1
            <4> QED BY <4>1, <4>2
        <3> QED BY <2>3, <3>1, <3>2, <3>3 DEF Owed
    <2>4. ASSUME NEW x \in Int, NEW z \in Int, x <= z + 1
          PROVE  (Base' + x) - Total' <= (Base + z) - Total
        BY <1>6, <2>4
    <2>5. \A x \in Int : Owed(s, x)' =>
            \E z \in Int : Owed(s, z) /\ (Base' + x) - Total' <= (Base + z) - Total
        BY <2>3, <2>4
    <2>6. Base' \in Int /\ Total' \in Int
        BY <1>6
    <2> QED BY <1>1, <1>2, <1>5, <1>8, <2>5, <2>6, Balance
<1>9. CountInv'
    BY <1>7, <1>8 DEF CountInv
<1>10. Sources = {s, o}
    BY <1>1, TheOther
<1>11. \A x \in Sources : NetInv(x)' /\ (~strayed' => LateInv(x)')
    BY <1>2, <1>3, <1>5, <1>10
<1> QED BY <1>9, <1>11 DEF TrafficInv
-----------------------------------------------------------------------------
(* countSeq *)

\* A later number: what is expected grows by no more than the distance, also
\* across a wrap of the number and of the counter.
LEMMA LaterNumber ==
    ASSUME NEW r \in RxStats, NEW s \in Number, NEW delta, delta = Behind(s, r.maxSeq),
           delta # 0, delta < Seq16 \div 2
    PROVE  /\ Advance(r, s).maxSeq = s /\ Advance(r, s).baseSeq = r.baseSeq
           /\ Advance(r, s).cycles \in 0..CountMod-1
           /\ Expected(Advance(r, s)) <= Expected(r) + delta
<1>1. PICK c \in 0..CountMod-1, m \in Number, b \in Number :
        c = r.cycles /\ m = r.maxSeq /\ b = r.baseSeq
    BY DEF RxStats, Number
<1>2. CountMod \in Int /\ CountMod > 0 /\ Seq16 \in Nat
    BY StreamConstants
<1>3. PICK d \in Nat : d = delta /\ d = IF s >= m THEN s - m ELSE s - m + Seq16
    <2>1. Behind(s, m) = (IF s >= m THEN s - m ELSE s - m + Seq16) /\ Behind(s, m) \in Number
        BY BehindIs
    <2> QED BY <1>1, <1>2, <2>1 DEF Number
<1>4. /\ Advance(r, s).maxSeq = s /\ Advance(r, s).baseSeq = b
      /\ Advance(r, s).cycles = IF s < m THEN (c + Seq16) % CountMod ELSE c
    BY <1>1 DEF Advance, RxStats, Behind
<1>5. Advance(r, s).cycles \in 0..CountMod-1
    <2>1. c + Seq16 \in Int
        BY <1>2
    <2>2. (c + Seq16) % CountMod \in 0..CountMod-1
        BY <1>2, <2>1, Division
    <2> QED BY <1>4, <2>2
<1>6. PICK x \in Int : x = c + m - b + 1
    BY <1>1, <1>2 DEF Number
<1>7. Expected(r) = x % CountMod
    BY <1>1, <1>6 DEF Expected
<1>8. Expected(Advance(r, s)) = (x + d) % CountMod
    <2>1. CASE s >= m
        <3>1. Advance(r, s).cycles + s - b + 1 = x + d
            BY <1>1, <1>3, <1>4, <1>6, <2>1 DEF Number
        <3> QED BY <1>4, <3>1 DEF Expected
    <2>2. CASE s < m
        <3>1. PICK y \in Int, z \in Int : y = s - b + 1 /\ z = c + Seq16
            BY <1>1, <1>2 DEF Number
        <3>2. ((z % CountMod) + y) % CountMod = (z + y) % CountMod
            BY <1>2, SumRemainder
        <3>3. z + y = x + d
            BY <1>1, <1>2, <1>3, <1>6, <2>2, <3>1 DEF Number
        <3>4. PICK w \in Int : w = z % CountMod
            BY <1>2, Division
        <3>5. Advance(r, s).cycles + s - b + 1 = w + y
            BY <1>1, <1>4, <2>2, <3>1, <3>4 DEF Number
        <3>6. Expected(Advance(r, s)) = (w + y) % CountMod
            BY <1>4, <3>5 DEF Expected
        <3> QED BY <3>2, <3>3, <3>4, <3>6
    <2> QED BY <2>1, <2>2 DEF Number
<1>9. (x + d) % CountMod <= (x % CountMod) + d
    BY <1>2, GrowingRemainder
<1> QED BY <1>1, <1>3, <1>4, <1>5, <1>7, <1>8, <1>9

\* Any other number changes nothing but the count.
LEMMA OtherNumber ==
    ASSUME NEW r \in RxStats, NEW s, Behind(s, r.maxSeq) = 0 \/ ~(Behind(s, r.maxSeq) < Seq16 \div 2)
    PROVE  /\ Advance(r, s).maxSeq = r.maxSeq /\ Advance(r, s).baseSeq = r.baseSeq
           /\ Advance(r, s).cycles = r.cycles
           /\ Expected(Advance(r, s)) = Expected(r)
<1>1. /\ Advance(r, s).maxSeq = r.maxSeq /\ Advance(r, s).baseSeq = r.baseSeq
      /\ Advance(r, s).cycles = r.cycles
    BY DEF Advance, Behind, RxStats
<1> QED BY <1>1 DEF Expected

\* What countSeq changes of a source whatever the number is
LEMMA AdvanceRest ==
    ASSUME NEW r \in RxStats, NEW s
    PROVE  /\ Advance(r, s).init = r.init /\ Advance(r, s).ssrc = r.ssrc
           /\ Advance(r, s).received = r.received + 1
           /\ Advance(r, s).prevExp = r.prevExp /\ Advance(r, s).prevRecv = r.prevRecv
           /\ DOMAIN Advance(r, s) = DOMAIN r
BY DEF Advance, RxStats

-----------------------------------------------------------------------------
(* receive, as the network and the statistics see it *)

\* Where the k-th packet was before the i-th one left
Was(i, k) == IF k < i THEN k ELSE k + 1

\* The packets that remain keep their age; those sent before the one that left
\* have one less behind them.
LEMMA Removal ==
    ASSUME StreamTypeOK, NEW s \in Sources, NEW i \in DOMAIN net[s],
           net' = [net EXCEPT ![s] = RemoveAt(@, i)], UNCHANGED <<seq, gone>>
    PROVE  /\ net'[s] \in Seq(Packet) /\ Len(net'[s]) = Len(net[s]) - 1 /\ Len(net'[s]) \in Nat
           /\ DOMAIN net'[s] = 1..Len(net'[s])
           /\ \A k \in DOMAIN net'[s] :
                /\ Was(i, k) \in DOMAIN net[s] /\ Was(i, k) # i
                /\ net'[s][k] = net[s][Was(i, k)] /\ Age(s, k)' = Age(s, Was(i, k))
                /\ Was(i, k) < i => Room(s, k)' = Room(s, Was(i, k)) - 1
                /\ Was(i, k) > i => Room(s, k)' = Room(s, Was(i, k))
           /\ \A k, l \in DOMAIN net'[s] : k < l => Was(i, k) < Was(i, l)
<1>0. net'[s] = RemoveAt(net[s], i)
    BY DEF StreamTypeOK
<1>1. /\ net[s] \in Seq(Packet) /\ i \in 1..Len(net[s]) /\ Len(net[s]) \in Nat /\ gone \in Nat
    BY AgeFacts
<1>2. /\ net'[s] \in Seq(Packet) /\ Len(net'[s]) = Len(net[s]) - 1
      /\ \A k \in 1..(Len(net[s]) - 1) : net'[s][k] = IF k < i THEN net[s][k] ELSE net[s][k + 1]
    BY <1>0, <1>1, RemoveAtEntries
<1>3. Len(net'[s]) \in Nat /\ DOMAIN net'[s] = 1..Len(net'[s]) /\ DOMAIN net[s] = 1..Len(net[s])
    BY <1>1, <1>2
<1>4. ASSUME NEW k \in 1..Len(net'[s])
      PROVE  /\ Was(i, k) \in DOMAIN net[s] /\ Was(i, k) # i
             /\ net'[s][k] = net[s][Was(i, k)] /\ Age(s, k)' = Age(s, Was(i, k))
             /\ Was(i, k) < i => Room(s, k)' = Room(s, Was(i, k)) - 1
             /\ Was(i, k) > i => Room(s, k)' = Room(s, Was(i, k))
    <2>1. /\ Was(i, k) \in DOMAIN net[s] /\ Was(i, k) # i /\ net'[s][k] = net[s][Was(i, k)]
        BY <1>1, <1>2, <1>3 DEF Was
    <2>2. Age(s, k)' = Age(s, Was(i, k))
        BY <2>1 DEF Age
    <2>3. PICK n \in Int, m \in Int, g \in Int, j \in Int :
            n = Len(net[s]) /\ m = Len(net'[s]) /\ g = gone /\ j = i /\ m = n - 1
        BY <1>1, <1>2
    <2>4. Room(s, k)' = m - k + 1 + g /\ Room(s, Was(i, k)) = n - Was(i, k) + 1 + g
        BY <2>3 DEF Room
    <2>6. \A x, y, z, q \in Int : z = x - 1 =>
            /\ z - q + 1 + y = (x - q + 1 + y) - 1
            /\ z - q + 1 + y = x - (q + 1) + 1 + y
        OBVIOUS
    <2>7. (k \in Int /\ i \in Int) /\ (Was(i, k) < i => Was(i, k) = k) /\ (Was(i, k) > i => Was(i, k) = k + 1)
        BY <1>1 DEF Was
    <2>5. /\ Was(i, k) < i => m - k + 1 + g = (n - Was(i, k) + 1 + g) - 1
          /\ Was(i, k) > i => m - k + 1 + g = n - Was(i, k) + 1 + g
        BY SMTT(30), <2>3, <2>6, <2>7
    <2> QED BY <2>1, <2>2, <2>4, <2>5
<1>5. \A k, l \in DOMAIN net'[s] : k < l => Was(i, k) < Was(i, l)
    BY <1>1, <1>3 DEF Was
<1> QED BY <1>2, <1>3, <1>4, <1>5

\* A packet that overtakes others is not much younger.
LEMMA Overtaking ==
    ASSUME StreamTypeOK, NEW s \in Sources, NetInv(s), NEW i \in DOMAIN net[s], MayOvertake(s, i)
    PROVE  \A k \in DOMAIN net[s] : k < i => Age(s, k) - Age(s, i) <= MaxLate
<1> SUFFICES ASSUME NEW k \in DOMAIN net[s], k < i PROVE Age(s, k) - Age(s, i) <= MaxLate
    OBVIOUS
<1>1. Age(s, k) > Age(s, i) /\ Age(s, k) \in Int /\ Age(s, i) \in Int
    BY AgeFacts DEF NetInv, Number
<1>2. net[s][k].seq \in Number /\ net[s][i].seq \in Number /\ seq[s] \in Number
    BY AgeFacts
<1>3. Behind(net[s][i].seq, net[s][k].seq) = Age(s, k) - Age(s, i)
    BY <1>1, <1>2, BehindChain DEF Age
<1>4. k \in 1 .. i - 1
    BY AgeFacts
<1> QED BY <1>3, <1>4 DEF MayOvertake, Behind

\* What remains on the way is still in order.
LEMMA RemovalNet ==
    ASSUME StreamTypeOK, NEW s \in Sources, NetInv(s), NEW i \in DOMAIN net[s], MayOvertake(s, i),
           net' = [net EXCEPT ![s] = RemoveAt(@, i)], UNCHANGED <<seq, gone>>
    PROVE  NetInv(s)'
<1>1. /\ DOMAIN net'[s] = 1..Len(net'[s])
      /\ \A k \in DOMAIN net'[s] :
           /\ Was(i, k) \in DOMAIN net[s] /\ Was(i, k) # i
           /\ net'[s][k] = net[s][Was(i, k)] /\ Age(s, k)' = Age(s, Was(i, k))
           /\ Was(i, k) < i => Room(s, k)' = Room(s, Was(i, k)) - 1
           /\ Was(i, k) > i => Room(s, k)' = Room(s, Was(i, k))
      /\ \A k, l \in DOMAIN net'[s] : k < l => Was(i, k) < Was(i, l)
    BY ZenonT(40), Removal
<1>2. \A k \in DOMAIN net'[s] : net'[s][k].ssrc = s /\ Age(s, k)' >= 1
    BY <1>1 DEF NetInv
<1>3. \A k, l \in DOMAIN net'[s] : k < l => Age(s, k)' > Age(s, l)'
    BY <1>1 DEF NetInv
<1>4. ASSUME NEW k \in DOMAIN net'[s], NEW l \in DOMAIN net'[s]
      PROVE  Age(s, k)' <= Room(s, k)' \/ Age(s, l)' - MaxLate <= Room(s, k)'
    <2>1. PICK a \in DOMAIN net[s], b \in DOMAIN net[s] :
            /\ a = Was(i, k) /\ b = Was(i, l) /\ a # i /\ b # i
            /\ Age(s, k)' = Age(s, a) /\ Age(s, l)' = Age(s, b)
            /\ a < i => Room(s, k)' = Room(s, a) - 1
            /\ a > i => Room(s, k)' = Room(s, a)
        BY <1>1
    <2>2. /\ Age(s, a) \in Int /\ Age(s, b) \in Int /\ Age(s, i) \in Int /\ MaxLate \in Int /\ MaxLate >= 0
          /\ a \in Int /\ b \in Int /\ i \in Int
        <3>1. \A x \in DOMAIN net[s] : Age(s, x) \in Number /\ x \in Int
            BY AgeFacts
        <3>2. MaxLate \in Nat
            BY AgeFacts
        <3> QED BY <3>1, <3>2 DEF Number
    <2>3. /\ Room(s, a) \in Int /\ Room(s, i) \in Int /\ (a < i => Room(s, i) <= Room(s, a) - 1)
        BY RoomFacts
    <2>4. CASE a > i
        BY <2>1, <2>4 DEF NetInv
    <2>5. CASE a < i
        <3>1. Age(s, i) <= Room(s, i) \/ Age(s, b) - MaxLate <= Room(s, i)
            BY DEF NetInv
        <3>2. b < i => Age(s, b) - Age(s, i) <= MaxLate
            BY Overtaking
        <3>3. b > i => Age(s, b) < Age(s, i)
            BY DEF NetInv
        <3>4. b < i \/ b > i
            BY <2>1, <2>2
        <3>5. Age(s, b) - MaxLate <= Room(s, i)
            BY <2>2, <2>3, <3>1, <3>2, <3>3, <3>4
        <3>6. Age(s, l)' - MaxLate <= Room(s, k)'
            BY <2>1, <2>2, <2>3, <2>5, <3>5
        <3> QED BY <3>6
    <2>6. a < i \/ a > i
        BY <2>1, <2>2
    <2> QED BY <2>4, <2>5, <2>6
<1> QED BY <1>2, <1>3, <1>4 DEF NetInv

\* The highest number is now that of the packet received: LateInv' as a fact
\* about the packets that remain.
LEMMA HighestReceived ==
    ASSUME StreamTypeOK, NEW s \in Sources, NetInv(s), NEW i \in DOMAIN net[s], MayOvertake(s, i),
           net' = [net EXCEPT ![s] = RemoveAt(@, i)], UNCHANGED <<seq, gone>>,
           Current(s)', ~Fresh(s)', MaxAge(s)' = Age(s, i), Age(s, i) <= Room(s, i),
           \A k \in DOMAIN net[s] : k > i => Age(s, k) <= Room(s, k)
    PROVE  LateInv(s)' /\ MaxAge(s)' >= 1
<1>1. /\ Len(net'[s]) = Len(net[s]) - 1
      /\ \A k \in DOMAIN net'[s] :
           /\ Was(i, k) \in DOMAIN net[s] /\ Was(i, k) # i /\ Age(s, k)' = Age(s, Was(i, k))
           /\ Was(i, k) < i => Room(s, k)' = Room(s, Was(i, k)) - 1
           /\ Was(i, k) > i => Room(s, k)' = Room(s, Was(i, k))
    BY ZenonT(40), Removal
<1>2. /\ Age(s, i) \in Int /\ i \in Int /\ Room(s, i) \in Int /\ Room(s, i) <= Len(net[s]) + gone
      /\ Len(net[s]) \in Int /\ gone \in Int
    BY AgeFacts, RoomFacts DEF Number
<1>3. MaxAge(s)' >= 1 /\ MaxAge(s)' <= 1 + Len(net'[s]) + gone'
    BY <1>1, <1>2 DEF NetInv
<1>4. ASSUME NEW k \in DOMAIN net'[s]
      PROVE  /\ Age(s, k)' # MaxAge(s)'
             /\ Age(s, k)' < MaxAge(s)' => Age(s, k)' <= Room(s, k)'
             /\ Age(s, k)' > MaxAge(s)' => Age(s, k)' - MaxAge(s)' <= MaxLate /\ MaxAge(s)' <= Room(s, k)'
    <2>1. PICK a \in DOMAIN net[s] :
            /\ a = Was(i, k) /\ a # i /\ Age(s, k)' = Age(s, a)
            /\ a < i => Room(s, k)' = Room(s, a) - 1
            /\ a > i => Room(s, k)' = Room(s, a)
        BY <1>1
    <2>2. Age(s, a) \in Int /\ a \in Int /\ Room(s, a) \in Int
        BY AgeFacts, RoomFacts DEF Number
    <2>3. CASE a > i
        <3>1. Age(s, a) < Age(s, i) /\ Age(s, a) <= Room(s, a)
            BY <2>3 DEF NetInv
        <3> QED BY <1>2, <2>1, <2>2, <2>3, <3>1
    <2>4. CASE a < i
        <3>1. Age(s, a) > Age(s, i) /\ Room(s, i) <= Room(s, a) - 1 /\ Age(s, a) - Age(s, i) <= MaxLate
            BY <2>4, RoomFacts, Overtaking DEF NetInv
        <3>2. Room(s, k)' = Room(s, a) - 1
            BY <2>1, <2>4
        <3> QED BY <1>2, <2>1, <2>2, <3>1, <3>2
    <2>5. a < i \/ a > i
        BY <1>2, <2>1, <2>2
    <2> QED BY <2>3, <2>4, <2>5
<1> QED BY <1>3, <1>4 DEF LateInv

\* The number is not higher: it was late.
LEMMA LateReceived ==
    ASSUME StreamTypeOK, NEW s \in Sources, NetInv(s), LateInv(s), Current(s), NEW i \in DOMAIN net[s], MayOvertake(s, i),
           net' = [net EXCEPT ![s] = RemoveAt(@, i)], UNCHANGED <<seq, gone>>,
           Current(s)', ~Fresh(s)', MaxAge(s)' = MaxAge(s), Age(s, i) > MaxAge(s)
    PROVE  LateInv(s)'
<1>1. /\ Len(net'[s]) = Len(net[s]) - 1
      /\ \A k \in DOMAIN net'[s] :
           /\ Was(i, k) \in DOMAIN net[s] /\ Was(i, k) # i /\ Age(s, k)' = Age(s, Was(i, k))
           /\ Was(i, k) < i => Room(s, k)' = Room(s, Was(i, k)) - 1
           /\ Was(i, k) > i => Room(s, k)' = Room(s, Was(i, k))
    BY ZenonT(40), Removal
<1>2. /\ Age(s, i) \in Int /\ MaxAge(s) \in Int /\ i \in Int /\ Room(s, i) \in Int /\ Room(s, i) <= Len(net[s]) + gone
      /\ Len(net[s]) \in Int /\ gone \in Int
    BY AgeFacts, RoomFacts DEF Number
<1>3. MaxAge(s) <= Room(s, i) /\ MaxAge(s) >= 1
    BY DEF LateInv
<1>4. MaxAge(s)' >= 1 /\ MaxAge(s)' <= 1 + Len(net'[s]) + gone'
    BY <1>1, <1>2, <1>3
<1>5. ASSUME NEW k \in DOMAIN net'[s]
      PROVE  /\ Age(s, k)' # MaxAge(s)'
             /\ Age(s, k)' < MaxAge(s)' => Age(s, k)' <= Room(s, k)'
             /\ Age(s, k)' > MaxAge(s)' => Age(s, k)' - MaxAge(s)' <= MaxLate /\ MaxAge(s)' <= Room(s, k)'
    <2>1. PICK a \in DOMAIN net[s] :
            /\ a = Was(i, k) /\ a # i /\ Age(s, k)' = Age(s, a)
            /\ a < i => Room(s, k)' = Room(s, a) - 1
            /\ a > i => Room(s, k)' = Room(s, a)
        BY <1>1
    <2>2. Age(s, a) \in Int /\ a \in Int /\ Room(s, a) \in Int
        BY AgeFacts, RoomFacts DEF Number
    <2>3. /\ Age(s, a) # MaxAge(s)
          /\ Age(s, a) < MaxAge(s) => Age(s, a) <= Room(s, a)
          /\ Age(s, a) > MaxAge(s) => Age(s, a) - MaxAge(s) <= MaxLate /\ MaxAge(s) <= Room(s, a)
        BY DEF LateInv
    <2>4. CASE a > i
        BY <2>1, <2>3, <2>4
    <2>5. CASE a < i
        <3>1. Age(s, a) > Age(s, i) /\ Room(s, i) <= Room(s, a) - 1
            BY <2>5, RoomFacts DEF NetInv
        <3>2. Room(s, k)' = Room(s, a) - 1
            BY <2>1, <2>5
        <3> QED BY <1>2, <1>3, <2>1, <2>2, <2>3, <3>1, <3>2
    <2>6. a < i \/ a > i
        BY <1>2, <2>1, <2>2
    <2> QED BY <2>4, <2>5, <2>6
<1> QED BY <1>4, <1>5 DEF LateInv

\* A record of counters that are within what was sent is one of RxStats.
\* A record of counters that are within what was sent is one of RxStats.
LEMMA StatsInRange ==
    ASSUME StreamTypeOK, NEW r,
           DOMAIN r = {"init", "ssrc", "baseSeq", "maxSeq", "cycles", "received", "prevExp", "prevRecv"},
           r = [f \in DOMAIN r |-> r[f]],
           r.init \in BOOLEAN, r.ssrc \in Sources, r.baseSeq \in Number, r.maxSeq \in Number,
           r.cycles \in 0..CountMod-1, r.prevExp \in 0..CountMod-1,
           r.received \in Nat, r.prevRecv \in Nat, r.prevRecv + r.received <= ts
    PROVE  r \in RxStats
<1>1. ts \in Nat /\ ts < CountMod /\ CountMod \in Nat
    <2>1. ts \in 0..MaxTicks
        BY DEF StreamTypeOK
    <2>2. MaxTicks \in Nat /\ CountMod \in Nat /\ MaxTicks < CountMod
        BY StreamConstants
    <2> QED BY <2>1, <2>2
<1>2. r.received \in 0..CountMod-1 /\ r.prevRecv \in 0..CountMod-1
    BY <1>1
<1> QED BY <1>2 DEF RxStats, Number

\* Whatever the number is, the counters keep their width.
LEMMA AdvanceTypes ==
    ASSUME NEW r \in RxStats, NEW n \in Number
    PROVE  /\ Advance(r, n).maxSeq \in Number /\ Advance(r, n).baseSeq = r.baseSeq
           /\ Advance(r, n).cycles \in 0..CountMod-1
<1>1. r.maxSeq \in Number /\ r.cycles \in 0..CountMod-1
    BY DEF RxStats, Number
<1>2. CASE Behind(n, r.maxSeq) = 0 \/ ~(Behind(n, r.maxSeq) < Seq16 \div 2)
    BY <1>1, <1>2, OtherNumber
<1>3. CASE Behind(n, r.maxSeq) # 0 /\ Behind(n, r.maxSeq) < Seq16 \div 2
    BY <1>3, LaterNumber
<1> QED BY <1>2, <1>3

\* One packet less is on the way, one more is counted.
LEMMA ReceiveTotal ==
    ASSUME StreamTypeOK, TrafficInv, NEW s \in Sources, NEW i \in DOMAIN net[s],
           net' = [net EXCEPT ![s] = RemoveAt(@, i)], rx' = CountSeq(rx, net[s][i]),
           UNCHANGED <<seq, gone, ts>>
    PROVE  /\ net' \in [Sources -> Seq(Packet)] /\ OnTheWay' <= MaxFlight
           /\ Total' = Total /\ rx' \in RxStats
<1>1. PICK o \in Sources : o \in Sources \ {s}
    BY DEF Sources
<1>2. net'[s] \in Seq(Packet) /\ Len(net'[s]) = Len(net[s]) - 1 /\ Len(net'[s]) \in Nat
    BY ZenonT(40), Removal
<1>3. net'[o] = net[o] /\ DOMAIN net' = Sources /\ net' = [x \in Sources |-> net'[x]]
    BY <1>1 DEF StreamTypeOK
<1>4. net[o] \in Seq(Packet) /\ Len(net[o]) \in Nat /\ Len(net[s]) \in Nat /\ gone \in Nat
    BY AgeFacts
<1>5. net' \in [Sources -> Seq(Packet)]
    <2>1. Sources = {s, o}
        BY <1>1, TheOther
    <2> QED BY <1>2, <1>3, <1>4, <2>1
<1>6. OnTheWay = Len(net[s]) + Len(net[o]) /\ OnTheWay' = Len(net'[s]) + Len(net'[o])
    <2>1. net'[1] \in Seq(Packet) /\ net'[2] \in Seq(Packet) /\ net[1] \in Seq(Packet) /\ net[2] \in Seq(Packet)
        BY <1>5, AgeFacts DEF Sources
    <2>2. \A n : n[1] \in Seq(Packet) /\ n[2] \in Seq(Packet) =>
                Len(n[1]) + Len(n[2]) = Len(n[s]) + Len(n[o])
        BY <1>1, WayFacts
    <2> QED BY <2>1, <2>2, Zenon DEF OnTheWay
<1>7. PICK w \in Nat, v \in Nat : w = OnTheWay /\ v = OnTheWay' /\ w = v + 1
    <2>1. \A a, b \in Nat : a - 1 \in Nat => a + b = (a - 1) + b + 1 /\ a + b \in Nat /\ (a - 1) + b \in Nat
        OBVIOUS
    <2>2. Len(net[s]) - 1 \in Nat
        BY <1>2
    <2>3. /\ Len(net[s]) + Len(net[o]) = (Len(net[s]) - 1) + Len(net[o]) + 1
          /\ Len(net[s]) + Len(net[o]) \in Nat /\ (Len(net[s]) - 1) + Len(net[o]) \in Nat
        BY <1>4, <2>1, <2>2
    <2>4. OnTheWay' = (Len(net[s]) - 1) + Len(net[o])
        BY <1>2, <1>3, <1>6
    <2> QED BY <1>6, <2>3, <2>4
<1>8. OnTheWay' <= MaxFlight
    <2>1. OnTheWay <= MaxFlight /\ MaxFlight \in Nat
        BY StreamConstants DEF StreamTypeOK
    <2>2. \A a, b, c \in Nat : a = b + 1 /\ a <= c => b <= c
        OBVIOUS
    <2> QED BY <1>7, <2>1, <2>2
<1>9. /\ rx \in RxStats /\ rx.init \in BOOLEAN /\ rx.ssrc \in Sources
      /\ rx.prevExp \in Nat /\ rx.prevRecv \in Nat /\ rx.received \in Nat
      /\ Expected(rx) \in Nat /\ PacketsReceived \in Nat /\ ts \in Nat
    BY CountFacts
<1>10. PICK p \in Packet, n \in Number : p = net[s][i] /\ n = p.seq /\ p.ssrc = s
    <2>1. net[s][i].ssrc = s
        BY DEF TrafficInv, NetInv
    <2> QED BY <2>1, AgeFacts
<1>11. PacketsReceived + 1 <= ts
    <2>1. PICK r \in Nat, g \in Nat, now \in Nat :
            r = PacketsReceived /\ g = gone /\ now = ts /\ r + w + g <= now
        BY <1>4, <1>7, <1>9 DEF TrafficInv, CountInv, Total
    <2>3. \A a, b, c, d, x \in Nat : b = c + 1 /\ a + b + d <= x => a + 1 <= x
        OBVIOUS
    <2>2. r + 1 <= now
        BY <1>7, <2>1, <2>3
    <2> QED BY <2>1, <2>2
<1>12. CountMod \in Nat /\ CountMod > 0
    BY StreamConstants
<1>13. ASSUME Current(s) PROVE PacketsReceived' = PacketsReceived + 1 /\ rx' \in RxStats
    <2>1. rx' = Advance(rx, n) /\ rx.init
        BY <1>10, <1>13 DEF CountSeq, Current
    <2>2. /\ rx'.init = rx.init /\ rx'.ssrc = rx.ssrc /\ rx'.received = rx.received + 1
          /\ rx'.prevExp = rx.prevExp /\ rx'.prevRecv = rx.prevRecv /\ DOMAIN rx' = DOMAIN rx
        <3>1. /\ Advance(rx, n).init = rx.init /\ Advance(rx, n).ssrc = rx.ssrc
              /\ Advance(rx, n).received = rx.received + 1
              /\ Advance(rx, n).prevExp = rx.prevExp /\ Advance(rx, n).prevRecv = rx.prevRecv
              /\ DOMAIN Advance(rx, n) = DOMAIN rx
            BY <1>9, AdvanceRest
        <3> QED BY <2>1, <3>1
    <2>3. PacketsReceived = rx.prevRecv + rx.received /\ PacketsReceived' = PacketsReceived + 1
        <3>1. PacketsReceived = rx.prevRecv + rx.received /\ PacketsReceived' = rx.prevRecv + (rx.received + 1)
            BY <2>1, <2>2 DEF PacketsReceived
        <3> QED BY <1>9, <3>1
    <2>4. rx'.maxSeq \in Number /\ rx'.baseSeq \in Number /\ rx'.cycles \in 0..CountMod-1
        <3>1. /\ Advance(rx, n).maxSeq \in Number /\ Advance(rx, n).baseSeq = rx.baseSeq
              /\ Advance(rx, n).cycles \in 0..CountMod-1
            BY <1>9, AdvanceTypes
        <3>2. rx.baseSeq \in Number
            BY <1>9 DEF RxStats, Number
        <3> QED BY <2>1, <3>1, <3>2
    <2>5. rx'.received \in Nat /\ rx'.prevRecv \in Nat /\ rx'.prevRecv + rx'.received <= ts
        <3>1. rx.prevRecv + (rx.received + 1) <= ts
            BY <1>9, <1>11, <2>3
        <3> QED BY <1>9, <2>2, <3>1
    <2>6. rx'.prevExp \in 0..CountMod-1 /\ rx'.init \in BOOLEAN /\ rx'.ssrc \in Sources
        BY <1>9, <2>2 DEF RxStats
    <2>7. DOMAIN rx' = {"init", "ssrc", "baseSeq", "maxSeq", "cycles", "received", "prevExp", "prevRecv"}
        BY <1>9, <2>2 DEF RxStats
    <2>8. rx' = [f \in DOMAIN rx' |-> rx'[f]]
        BY <1>9, <2>1 DEF Advance, RxStats
    <2>9. rx' \in RxStats
        BY <2>4, <2>5, <2>6, <2>7, <2>8, StatsInRange
    <2> QED BY <2>3, <2>9
<1>14. ASSUME ~Current(s) PROVE PacketsReceived' = PacketsReceived + 1 /\ rx' \in RxStats
    <2>1. rx' = Restart(rx, p)
        BY <1>10, <1>14 DEF CountSeq, Current
    <2>2. PICK e \in 0..CountMod-1, v2 \in Nat :
            /\ v2 = PacketsReceived
            /\ rx' = [init |-> TRUE, ssrc |-> s, baseSeq |-> n, maxSeq |-> n, cycles |-> 0,
                      received |-> 1, prevExp |-> e, prevRecv |-> v2]
        <3>1. rx.prevExp \in 0..CountMod-1 /\ (rx.prevExp + Expected(rx)) % CountMod \in 0..CountMod-1
            <4>1. rx.prevExp + Expected(rx) \in Int
                BY <1>9
            <4>2. rx.prevExp \in 0..CountMod-1
                BY <1>9 DEF RxStats
            <4> QED BY <1>12, <4>1, <4>2, Division
        <3>2. PICK e \in 0..CountMod-1, v2 \in Nat :
                /\ e = IF rx.init THEN (rx.prevExp + Expected(rx)) % CountMod ELSE rx.prevExp
                /\ v2 = IF rx.init THEN rx.prevRecv + rx.received ELSE rx.prevRecv
            BY <1>9, <3>1
        <3>3. v2 = PacketsReceived
            BY <1>9, <3>2 DEF PacketsReceived
        <3>4. rx' = [init |-> TRUE, ssrc |-> s, baseSeq |-> n, maxSeq |-> n, cycles |-> 0,
                     received |-> 1, prevExp |-> e, prevRecv |-> v2]
            BY <1>10, <2>1, <3>2 DEF Restart
        <3> QED BY <3>3, <3>4
    <2>3. PacketsReceived' = PacketsReceived + 1
        BY <2>2 DEF PacketsReceived
    <2>4. 0 \in 0..CountMod-1 /\ v2 + 1 <= ts
        BY <1>11, <1>12, <2>2
    <2>5. /\ rx'.init \in BOOLEAN /\ rx'.ssrc \in Sources /\ rx'.baseSeq \in Number /\ rx'.maxSeq \in Number
          /\ rx'.cycles \in 0..CountMod-1 /\ rx'.prevExp \in 0..CountMod-1
          /\ rx'.received \in Nat /\ rx'.prevRecv \in Nat /\ rx'.prevRecv + rx'.received <= ts
          /\ DOMAIN rx' = {"init", "ssrc", "baseSeq", "maxSeq", "cycles", "received", "prevExp", "prevRecv"}
          /\ rx' = [f \in DOMAIN rx' |-> rx'[f]]
        BY <2>2, <2>4
    <2>6. rx' \in RxStats
        BY <2>5, StatsInRange
    <2> QED BY <2>3, <2>6
<1>15. PacketsReceived' = PacketsReceived + 1 /\ rx' \in RxStats
    BY <1>13, <1>14
<1>16. Total' = Total
    <2>1. \A r, g \in Nat : (r + 1) + v + g = r + (v + 1) + g
        BY <1>7
    <2>2. Total = PacketsReceived + (v + 1) + gone /\ Total' = (PacketsReceived + 1) + v + gone
        BY <1>7, <1>15 DEF Total
    <2> QED BY <1>4, <1>9, <2>1, <2>2
<1> QED BY <1>5, <1>8, <1>15, <1>16

\* A packet of the source that is counted: a late one leaves the highest number
\* alone, a later one moves it, and what is expected grows by no more than the
\* highest age shrinks.
LEMMA ReceiveCurrent ==
    ASSUME StreamTypeOK, NEW s \in Sources, NetInv(s), LateInv(s), Current(s),
           NEW i \in DOMAIN net[s], MayOvertake(s, i),
           net' = [net EXCEPT ![s] = RemoveAt(@, i)], rx' = Advance(rx, net[s][i].seq),
           rx' \in RxStats, UNCHANGED <<seq, gone>>
    PROVE  /\ LateInv(s)' /\ Current(s)' /\ Base' \in Int /\ MaxAge(s)' \in Int
           /\ Base' + MaxAge(s)' <= Base + MaxAge(s)
<1>0. PICK n \in Number : n = net[s][i].seq
    BY AgeFacts
<1>1. /\ Age(s, i) \in Int /\ MaxAge(s) \in Int /\ i \in Int /\ Len(net[s]) \in Nat /\ gone \in Nat
      /\ seq[s] \in Number /\ rx.maxSeq \in Number /\ Age(s, i) >= 1
    BY AgeFacts DEF Number, NetInv
<1>2. /\ rx \in RxStats /\ rx.init /\ rx.ssrc = s /\ rx.prevExp \in Nat
      /\ Expected(rx) \in Nat /\ Base \in Nat
    BY CountFacts DEF Current
<1>3. /\ rx'.init = rx.init /\ rx'.ssrc = rx.ssrc /\ rx'.prevExp = rx.prevExp
    BY <1>2, AdvanceRest
<1>4. Current(s)' /\ ~Fresh(s)'
    BY <1>2, <1>3 DEF Current, Fresh, Sources
<1>5. Base = rx.prevExp + Expected(rx) /\ Base' = rx.prevExp + Expected(rx') /\ Expected(rx') \in Int
    <2>1. Base = rx.prevExp + Expected(rx) /\ Base' = rx.prevExp + Expected(rx')
        BY <1>2, <1>3 DEF Base, Expected
    <2>2. Expected(rx') \in 0..CountMod-1
        BY ExpectedType
    <2> QED BY <2>1, <2>2
<1>6. PICK A \in Int, M \in Int, h \in Nat, k \in Nat, late \in Nat :
        /\ A = Age(s, i) /\ M = MaxAge(s) /\ h = Seq16 \div 2 /\ Seq16 = h + h
        /\ late = MaxLate /\ late <= h /\ k = Len(net[s]) + gone /\ k < h /\ A >= 1
    <2>1. /\ Len(net[s]) + gone <= MaxFlight + MaxLoss
          /\ MaxFlight + MaxLoss < Seq16 \div 2 /\ MaxFlight \in Nat /\ MaxLoss \in Nat
          /\ MaxLate \in Nat /\ MaxLate <= Seq16 \div 2
        BY AgeFacts
    <2>2. PICK h \in Nat : h = Seq16 \div 2 /\ Seq16 = h + h
        BY HalfFacts
    <2>3. PICK k \in Nat, m \in Nat : k = Len(net[s]) + gone /\ m = MaxFlight + MaxLoss
        BY <1>1, <2>1
    <2>4. k < h /\ MaxLate <= h
        BY <2>1, <2>2, <2>3
    <2> QED BY <1>1, <2>1, <2>2, <2>3, <2>4
<1>7. /\ A # M /\ M >= 1 /\ M <= 1 + k
      /\ A < M => Age(s, i) <= Room(s, i)
      /\ A > M => A - M <= late
    <2>1. /\ Age(s, i) # MaxAge(s) /\ MaxAge(s) >= 1 /\ MaxAge(s) <= 1 + Len(net[s]) + gone
          /\ Age(s, i) < MaxAge(s) => Age(s, i) <= Room(s, i)
          /\ Age(s, i) > MaxAge(s) => Age(s, i) - MaxAge(s) <= MaxLate
        BY DEF LateInv
    <2>2. 1 + Len(net[s]) + gone = 1 + k
        <3>1. \A x, y \in Nat : 1 + x + y = 1 + (x + y)
            OBVIOUS
        <3> QED BY <1>1, <1>6, <3>1
    <2> QED BY <1>6, <2>1, <2>2
<1>8. Behind(n, rx.maxSeq) = IF M >= A THEN M - A ELSE Seq16 - (A - M)
    BY <1>0, <1>1, <1>6, BehindChain DEF Age, MaxAge
<1>9. ASSUME A < M PROVE LateInv(s)' /\ MaxAge(s)' = A /\ Expected(rx') <= Expected(rx) + (M - A)
    <2>1. PICK delta \in Int : delta = Behind(n, rx.maxSeq) /\ delta = M - A
        BY <1>6, <1>8, <1>9
    <2>2. delta # 0 /\ delta < Seq16 \div 2
        <3>1. \A a, m, x, y \in Int : a < m /\ a >= 1 /\ m <= 1 + x /\ x < y => m - a # 0 /\ m - a < y
            OBVIOUS
        <3> QED BY <1>6, <1>7, <1>9, <2>1, <3>1
    <2>3. rx'.maxSeq = n /\ Expected(rx') <= Expected(rx) + delta
        <3>1. /\ Advance(rx, n).maxSeq = n
              /\ Expected(Advance(rx, n)) <= Expected(rx) + delta
            BY <1>2, <2>1, <2>2, LaterNumber
        <3> QED BY <1>0, <3>1
    <2>4. MaxAge(s)' = Age(s, i)
        BY <1>0, <2>3 DEF MaxAge, Age
    <2>5. \A k2 \in DOMAIN net[s] : k2 > i => Age(s, k2) <= Room(s, k2)
        <3> SUFFICES ASSUME NEW k2 \in DOMAIN net[s], k2 > i PROVE Age(s, k2) <= Room(s, k2)
            OBVIOUS
        <3>1. Age(s, k2) < Age(s, i) /\ Age(s, k2) \in Int
            BY AgeFacts DEF NetInv, Number
        <3>2. Age(s, k2) < MaxAge(s)
            BY <1>6, <1>9, <3>1
        <3> QED BY <3>2 DEF LateInv
    <2>6. LateInv(s)'
        BY <1>4, <1>7, <1>9, <2>4, <2>5, HighestReceived
    <2> QED BY <1>6, <2>1, <2>3, <2>4, <2>6
<1>10. ASSUME A > M PROVE LateInv(s)' /\ MaxAge(s)' = M /\ Expected(rx') = Expected(rx)
    <2>1. ~(Behind(n, rx.maxSeq) < Seq16 \div 2)
        <3>1. Behind(n, rx.maxSeq) = Seq16 - (A - M)
            BY <1>6, <1>8, <1>10
        <3>2. \A a, m, l, y \in Int : a > m /\ a - m <= l /\ l <= y => ~((y + y) - (a - m) < y)
            OBVIOUS
        <3> QED BY <1>6, <1>7, <1>10, <3>1, <3>2
    <2>2. rx'.maxSeq = rx.maxSeq /\ Expected(rx') = Expected(rx)
        BY <1>0, <1>2, <2>1, OtherNumber
    <2>3. MaxAge(s)' = MaxAge(s)
        BY <2>2 DEF MaxAge
    <2>4. LateInv(s)'
        BY <1>4, <1>6, <1>10, <2>3, LateReceived
    <2> QED BY <1>6, <2>2, <2>3, <2>4
<1>11. A < M \/ A > M
    BY <1>6, <1>7
<1>12. CASE A < M
    <2>1. PICK x \in Int, y \in Int, z \in Int :
            x = Expected(rx) /\ y = Expected(rx') /\ z = rx.prevExp /\ y <= x + (M - A)
        BY <1>2, <1>5, <1>9, <1>12
    <2>2. (z + y) + A <= (z + x) + M
        BY SMTT(30), <1>6, <2>1
    <2> QED BY <1>4, <1>5, <1>6, <1>9, <1>12, <2>1, <2>2
<1>13. CASE A > M
    BY <1>2, <1>4, <1>5, <1>6, <1>10, <1>13
<1> QED BY <1>11, <1>12, <1>13

\* The first packet of a source: one more is expected, and its age is the
\* highest.
LEMMA ReceiveFirst ==
    ASSUME StreamTypeOK, NEW s \in Sources, NetInv(s), LateInv(s), Fresh(s),
           NEW i \in DOMAIN net[s], MayOvertake(s, i),
           net' = [net EXCEPT ![s] = RemoveAt(@, i)], rx' = Restart(rx, net[s][i]),
           rx' \in RxStats, UNCHANGED <<seq, gone>>
    PROVE  /\ LateInv(s)' /\ Current(s)' /\ Base' \in Int /\ MaxAge(s)' = Age(s, i)
           /\ Base' <= Base + 1
<1>1. /\ rx.init \in BOOLEAN /\ rx.prevExp \in Nat /\ Expected(rx) \in Nat /\ Base \in Nat
      /\ CountMod \in Nat /\ CountMod > 0
    BY CountFacts, StreamConstants
<1>2. PICK p \in Packet, n \in Number : p = net[s][i] /\ n = p.seq /\ p.ssrc = s
    BY AgeFacts DEF NetInv
<1>3. PICK e \in Nat :
        /\ e <= Base
        /\ e = IF rx.init THEN (rx.prevExp + Expected(rx)) % CountMod ELSE rx.prevExp
    <2>1. rx.init => Base = rx.prevExp + Expected(rx)
        BY DEF Base
    <2>2. ~rx.init => Base = rx.prevExp
        BY <1>1 DEF Base
    <2>3. rx.prevExp + Expected(rx) \in Nat
        BY <1>1
    <2>4. /\ (rx.prevExp + Expected(rx)) % CountMod \in Nat
          /\ (rx.prevExp + Expected(rx)) % CountMod <= rx.prevExp + Expected(rx)
        BY <1>1, <2>3, SmallRemainder
    <2> QED BY <1>1, <2>1, <2>2, <2>4
<1>4. /\ rx'.init /\ rx'.ssrc = s /\ rx'.maxSeq = n /\ rx'.baseSeq = n /\ rx'.cycles = 0
      /\ rx'.prevExp = e
    BY <1>2, <1>3 DEF Restart
<1>5. Expected(rx') \in Int /\ Expected(rx') <= 1
    <2>1. 0 + n - n + 1 = 1
        BY <1>2 DEF Number
    <2>2. 1 % CountMod <= 1 /\ 1 % CountMod \in Nat
        BY <1>1, SmallRemainder
    <2> QED BY <1>4, <2>1, <2>2 DEF Expected
<1>6. Base' = e + Expected(rx')
    BY <1>4 DEF Base, Expected
<1>7. Base' \in Int /\ Base' <= Base + 1
    BY <1>1, <1>3, <1>5, <1>6
<1>8. MaxAge(s)' = Age(s, i)
    BY <1>2, <1>4 DEF MaxAge, Age
<1>9. Current(s)' /\ ~Fresh(s)'
    BY <1>4 DEF Current, Fresh, Sources
<1>10. \A k \in DOMAIN net[s] : Age(s, k) <= Room(s, k)
    BY DEF LateInv
<1>11. LateInv(s)'
    BY <1>8, <1>9, <1>10, HighestReceived
<1> QED BY <1>7, <1>8, <1>9, <1>11

\* receive and countSeq: unless a packet has strayed, what is owed shrinks by
\* what is expected anew.
LEMMA ReceiveCounts ==
    ASSUME StreamTypeOK, TrafficInv, NEW s \in Sources, NEW i \in DOMAIN net[s], MayOvertake(s, i),
           net' = [net EXCEPT ![s] = RemoveAt(@, i)], rx' = CountSeq(rx, net[s][i]),
           strayed' = (strayed \/ (rx.init /\ s < rx.ssrc)), UNCHANGED <<seq, gone, ts>>
    PROVE  TrafficInv'
<1>1. PICK o \in Sources : o \in Sources \ {s}
    BY DEF Sources
<1>2. NetInv(s) /\ NetInv(o) /\ (~strayed => LateInv(s) /\ LateInv(o)) /\ CountInv
    BY DEF TrafficInv
<1>3. Total' = Total /\ rx' \in RxStats /\ Total \in Int /\ Base \in Int /\ Total <= ts
    <2>1. Total' = Total /\ rx' \in RxStats
        BY ReceiveTotal
    <2>2. Total \in Nat /\ Base \in Nat
        BY CountFacts
    <2> QED BY <1>2, <2>1, <2>2 DEF CountInv
<1>4. NetInv(s)'
    BY <1>2, RemovalNet
<1>5. net[s][i].ssrc = s
    BY <1>2 DEF NetInv
<1>6. rx'.init /\ rx'.ssrc = s
    <2>1. CASE Current(s)
        <3>1. rx' = Advance(rx, net[s][i].seq)
            BY <1>5, <2>1 DEF CountSeq, Current
        <3>2. rx'.init = rx.init /\ rx'.ssrc = rx.ssrc
            BY <3>1, CountFacts, AdvanceRest
        <3> QED BY <2>1, <3>2 DEF Current
    <2>2. CASE ~Current(s)
        BY <1>5, <2>2 DEF CountSeq, Current, Restart
    <2> QED BY <2>1, <2>2
<1>7. net'[o] = net[o] /\ ~Current(o)' /\ gone' = gone /\ seq'[o] = seq[o]
    <2>1. net'[o] = net[o]
        BY <1>1 DEF StreamTypeOK
    <2>2. s # o
        BY <1>1
    <2> QED BY <1>6, <2>1, <2>2 DEF Current
<1>8. NetInv(o)'
    <2>1. \A k \in DOMAIN net[o] : Age(o, k)' = Age(o, k) /\ Room(o, k)' = Room(o, k)
        BY <1>7 DEF Age, Room
    <2> QED BY <1>2, <1>7, <2>1 DEF NetInv
<1>9. ASSUME ~strayed'
      PROVE  /\ LateInv(s)' /\ LateInv(o)'
             /\ \A x, y \in Int : Owed(1, x)' /\ Owed(2, y)' => Base' + x + y <= Total'
    <2>1. ~strayed /\ ~(rx.init /\ s < rx.ssrc)
        BY <1>9
    <2>2. Current(s) \/ (Fresh(s) /\ ~Current(s))
        <3>1. rx.ssrc \in Sources /\ rx.init \in BOOLEAN
            BY CountFacts
        <3>2. rx.init => rx.ssrc = s \/ rx.ssrc < s
            BY <2>1, <3>1 DEF Sources
        <3> QED BY <3>2 DEF Current, Fresh
    <2>3. Fresh(o)' => Fresh(o)
        <3>1. ASSUME Fresh(o)' PROVE ~rx.init \/ rx.ssrc < o
            <4>1. s < o
                BY <1>6, <3>1 DEF Fresh
            <4>2. ~rx.init \/ rx.ssrc = s \/ rx.ssrc < s
                BY <2>2 DEF Current, Fresh
            <4>3. rx.ssrc \in {1, 2} /\ s \in {1, 2} /\ o \in {1, 2}
                BY CountFacts DEF Sources
            <4> QED BY <4>1, <4>2, <4>3
        <3> QED BY <3>1 DEF Fresh
    <2>4. LateInv(o)' /\ \A y : Owed(o, y)' => Owed(o, y)
        BY <1>2, <1>7, <2>1, <2>3, Bystander
    <2>5. /\ LateInv(s)' /\ Base' \in Int /\ MaxAge(s)' \in Int /\ MaxAge(s)' >= 1
          /\ \E z \in Int : Owed(s, z) /\ Base' + MaxAge(s)' - 1 <= Base + z
        <3>1. CASE Current(s)
            <4>1. rx' = Advance(rx, net[s][i].seq)
                BY <1>5, <3>1 DEF CountSeq, Current
            <4>2. /\ LateInv(s)' /\ Current(s)' /\ Base' \in Int /\ MaxAge(s)' \in Int
                  /\ Base' + MaxAge(s)' <= Base + MaxAge(s)
                BY <1>2, <1>3, <2>1, <3>1, <4>1, ReceiveCurrent
            <4>3. MaxAge(s)' >= 1
                BY <4>2 DEF LateInv
            <4>4. MaxAge(s) \in Int
                BY AgeFacts DEF Number
            <4>5. Owed(s, MaxAge(s) - 1) /\ MaxAge(s) - 1 \in Int
                BY <3>1, <4>4 DEF Owed
            <4>6. Base' + MaxAge(s)' - 1 <= Base + (MaxAge(s) - 1)
                BY <1>3, <4>2, <4>4
            <4> QED BY <4>2, <4>3, <4>5, <4>6
        <3>2. CASE Fresh(s) /\ ~Current(s)
            <4>1. rx' = Restart(rx, net[s][i])
                BY <1>5, <3>2 DEF CountSeq, Current
            <4>2. /\ LateInv(s)' /\ Current(s)' /\ Base' \in Int /\ MaxAge(s)' = Age(s, i)
                  /\ Base' <= Base + 1
                BY <1>2, <1>3, <2>1, <3>2, <4>1, ReceiveFirst
            <4>3. Age(s, i) \in Int /\ Age(s, i) >= 1
                BY <1>2, AgeFacts DEF Number, NetInv
            <4>4. Owed(s, Age(s, i))
                BY <3>2 DEF Owed
            <4>5. Base' + MaxAge(s)' - 1 <= Base + Age(s, i)
                BY <1>3, <4>2, <4>3
            <4> QED BY <4>2, <4>3, <4>4, <4>5
        <3> QED BY <2>2, <3>1, <3>2
    <2>6. PICK z \in Int : Owed(s, z) /\ Base' + MaxAge(s)' - 1 <= Base + z
        BY <2>5
    <2>7. ASSUME NEW x \in Int, Owed(s, x)' PROVE (Base' + x) - Total' <= (Base + z) - Total
        <3>1. x = 0 \/ x = MaxAge(s)' - 1
            <4>1. ~Fresh(s)'
                BY <1>6 DEF Fresh, Sources
            <4> QED BY <2>7, <4>1 DEF Owed
        <3>2. PICK c \in Int, b \in Int, m \in Int, u \in Int :
                c = Base' /\ b = Base /\ m = MaxAge(s)' /\ u = Total /\ m >= 1
            BY <1>3, <2>5
        <3>3. c + m - 1 <= b + z
            BY <2>6, <3>2
        <3>4. (c + 0) - u <= (b + z) - u /\ (c + (m - 1)) - u <= (b + z) - u
            <4>1. \A a, d, e, f, g \in Int : e >= 1 /\ a + e - 1 <= d + f =>
                    (a + 0) - g <= (d + f) - g /\ (a + (e - 1)) - g <= (d + f) - g
                OBVIOUS
            <4>2. c \in Int /\ b \in Int /\ m \in Int /\ u \in Int /\ m >= 1
                BY <3>2
            <4> QED BY <3>3, <4>1, <4>2
        <3> QED BY <1>3, <3>1, <3>2, <3>4
    <2>8. \A x \in Int : Owed(s, x)' =>
            \E y \in Int : Owed(s, y) /\ (Base' + x) - Total' <= (Base + y) - Total
        BY <2>6, <2>7
    <2>9. \A x, y \in Int : Owed(1, x)' /\ Owed(2, y)' => Base' + x + y <= Total'
        BY <1>1, <1>2, <1>3, <2>1, <2>4, <2>5, <2>8, Balance
    <2> QED BY <2>4, <2>5, <2>9
<1>10. CountInv'
    BY <1>3, <1>9 DEF CountInv
<1>11. Sources = {s, o}
    BY <1>1, TheOther
<1>12. \A x \in Sources : NetInv(x)' /\ (~strayed' => LateInv(x)')
    BY <1>4, <1>8, <1>9, <1>11
<1> QED BY <1>10, <1>12 DEF TrafficInv
-----------------------------------------------------------------------------
(* The queue of events *)

\* The types of the queue and of the events on the way
LEMMA EventFacts ==
    ASSUME StreamTypeOK, NEW s \in Sources, NEW q, QueueInv(q)
    PROVE  /\ Len(q) \in Nat /\ DOMAIN q = 1..Len(q) /\ queued \in Nat /\ Past(q) \in Nat
           /\ \A i \in DOMAIN q : /\ q[i] \in Job /\ q[i].sent \in Nat /\ q[i].ended \in Nat
                                  /\ q[i].gap \in 0..Gap /\ q[i].ts \in 0..MaxTicks
                                  /\ q[i].digit \in 1..Len(Dial)
           /\ ts \in Nat /\ lastEvTS \in Int /\ Len(Dial) \in Nat
           /\ \A a \in arrived : a \in Nat
           /\ \A i \in DOMAIN net[s] :
                net[s][i].digit \in 0..Len(Dial) /\ net[s][i].digit \in Nat /\ net[s][i].ts \in Nat
<1>1. q \in Seq(Job) /\ Len(q) <= queued
    BY DEF QueueInv
<1>2. queued \in Nat /\ ts \in Nat /\ lastEvTS \in Int /\ Len(Dial) \in Nat /\ \A a \in arrived : a \in Nat
    BY StreamConstants DEF StreamTypeOK
<1>3. Len(q) \in Nat /\ DOMAIN q = 1..Len(q)
    BY <1>1
<1>4. Past(q) \in Nat
    BY <1>1, <1>2, <1>3 DEF Past
<1>5. \A i \in DOMAIN q : q[i] \in Job
    BY <1>1
<1>6. \A x \in Job : /\ x.sent \in Nat /\ x.ended \in Nat /\ x.gap \in 0..Gap
                     /\ x.ts \in 0..MaxTicks /\ x.digit \in 1..Len(Dial)
    BY StreamConstants DEF Job
<1>7. \A i \in DOMAIN net[s] : net[s][i] \in Packet
    BY AgeFacts
<1>8. \A p \in Packet : p.digit \in 0..Len(Dial) /\ p.digit \in Nat /\ p.ts \in Nat
    BY <1>2, StreamConstants DEF Packet
<1> QED BY <1>2, <1>3, <1>4, <1>5, <1>6, <1>7, <1>8

\* A packet is sent: d = 0 is audio, and r is the queue after it.
LEMMA EventWritten ==
    ASSUME StreamTypeOK, NEW s \in Sources, s = ssrc, NetInv(s),
           NEW q, EventInv(q, s), NEW r, QueueInv(r)',
           dtmfQ' = r, Len(r) = Len(q), NEW t \in 0..MaxTicks, NEW d \in 0..Len(Dial),
           WriteRTP(t, d), UNCHANGED <<ssrc, rx, queued, lastEvTS, arrived>>, ts' = ts + 1, t <= ts,
           Begun(q) => Begun(r) /\ r[1].ts = q[1].ts,
           Begun(r) /\ ~Begun(q) => r[1].ts = ts,
           Begun(r) /\ ~EventPending(r[1]) =>
               \/ r[1].gap = Gap
               \/ Begun(q) /\ ~EventPending(q[1]) /\ r[1].gap = q[1].gap - 1,
           d # 0 => /\ d = Past(q) + 1 /\ Begun(r) /\ t = r[1].ts
                    /\ ~EventPending(r[1]) => r[1].gap = Gap
    PROVE  SentInv(r, s)' /\ ApartInv(s)' /\ HeardInv(r, s)'
<1>1. /\ \A i \in DOMAIN net[s] : i \in DOMAIN net'[s] /\ net'[s][i] = net[s][i] /\ Age(s, i)' = Age(s, i) + 1
      /\ \A i \in DOMAIN net'[s] \ DOMAIN net[s] :
           /\ i = Len(net[s]) + 1 /\ i = Len(net'[s])
           /\ net'[s][i] = [ssrc |-> s, seq |-> seq[s], ts |-> t, digit |-> d]
           /\ Age(s, i)' = 1
    BY WriteFacts
<1>2. /\ \A i \in DOMAIN net'[s] \ DOMAIN net[s] :
           i = Len(net[s]) + 1 /\ i = Len(net'[s]) /\ net'[s][i].ts = t /\ net'[s][i].digit = d /\ Age(s, i)' = 1
    BY <1>1
<1>3. QueueInv(q) /\ SentInv(q, s) /\ ApartInv(s) /\ HeardInv(q, s)
    BY DEF EventInv
<1>4. PICK P \in Nat, now \in Nat, last \in Int :
        P = Past(q) /\ now = ts /\ last = lastEvTS /\ ts' = now + 1 /\ P = Past(r)'
    BY <1>3, EventFacts DEF Past
<1>5. ASSUME NEW i \in DOMAIN net[s] 
      PROVE  Age(s, i) \in Int /\ Age(s, i) >= 1 /\ net[s][i].digit \in Nat /\ net[s][i].ts \in Nat
    <2>1. net[s][i].digit \in Nat /\ net[s][i].ts \in Nat
        BY <1>3, EventFacts
    <2>2. Age(s, i) \in Int /\ Age(s, i) >= 1
        BY AgeFacts DEF Number, NetInv
    <2> QED BY <2>1, <2>2
<1>6. Begun(r)' <=> Begun(r)
    BY DEF Begun
<1>7. /\ Begun(q) => q # <<>> /\ q[1].gap \in 0..Gap
      /\ Begun(r) => r[1].gap \in 0..Gap /\ r[1].ts \in Nat
    <2>1. Begun(q) => q[1].gap \in 0..Gap
        <3>1. ASSUME Begun(q) PROVE 1 \in DOMAIN q
            BY <1>3, <3>1, EventFacts DEF Begun, QueueInv
        <3> QED BY <1>3, <3>1, EventFacts
    <2>2. ASSUME Begun(r) PROVE r[1].gap \in 0..Gap /\ r[1].ts \in Nat
        <3>1. r \in Seq(Job) /\ r # <<>>
            BY <2>2 DEF Begun, QueueInv
        <3>2. r[1] \in Job
            BY <3>1
        <3> QED BY <3>2, StreamConstants DEF Job
    <2> QED BY <2>1, <2>2 DEF Begun
<1>8. ASSUME NEW i \in DOMAIN net'[s], net'[s][i].digit # 0
      PROVE  /\ net'[s][i].ts < ts'
             /\ \/ net'[s][i].digit <= P /\ Age(s, i)' > Gap
                \/ /\ Begun(r) /\ net'[s][i].digit = P + 1
                   /\ ~EventPending(r[1]) => Age(s, i)' > Gap - r[1].gap
             /\ Begun(r) => (net'[s][i].digit = P + 1 <=> net'[s][i].ts = r[1].ts)
    <2>1. CASE i \in DOMAIN net[s]
        <3>1. PICK a \in Int, x \in Nat, y \in Nat :
                /\ a = Age(s, i) /\ x = net[s][i].digit /\ y = net[s][i].ts
                /\ a >= 1 /\ Age(s, i)' = a + 1 /\ net'[s][i].digit = x /\ net'[s][i].ts = y
            BY <1>1, <1>5, <2>1
        <3>2. /\ y < now
              /\ \/ x <= P /\ a > Gap
                 \/ /\ Begun(q) /\ x = P + 1
                    /\ ~EventPending(q[1]) => a > Gap - q[1].gap
              /\ Begun(q) => (x = P + 1 <=> y = q[1].ts)
            BY <1>3, <1>4, <1>8, <2>1, <3>1 DEF SentInv
        <3>3. y < now + 1
            BY <3>2
        <3>4. \/ x <= P /\ a + 1 > Gap
              \/ /\ Begun(r) /\ x = P + 1
                 /\ ~EventPending(r[1]) => a + 1 > Gap - r[1].gap
            <4>1. CASE x <= P /\ a > Gap
                BY <4>1 DEF Gap
            <4>2. CASE /\ Begun(q) /\ x = P + 1
                       /\ ~EventPending(q[1]) => a > Gap - q[1].gap
                <5>1. Begun(r) /\ r[1].gap \in 0..Gap /\ q[1].gap \in 0..Gap
                    BY <1>7, <4>2
                <5>2. ASSUME ~EventPending(r[1]) PROVE a + 1 > Gap - r[1].gap
                    <6>1. CASE r[1].gap = Gap
                        BY <3>1, <6>1 DEF Gap
                    <6>2. CASE ~EventPending(q[1]) /\ r[1].gap = q[1].gap - 1
                        BY <4>2, <5>1, <6>2 DEF Gap
                    <6> QED BY <5>1, <5>2, <6>1, <6>2
                <5> QED BY <4>2, <5>1, <5>2
            <4> QED BY <3>2, <4>1, <4>2
        <3>5. Begun(r) => (x = P + 1 <=> y = r[1].ts)
            <4>1. CASE Begun(q)
                BY <3>2, <4>1
            <4>2. CASE ~Begun(q)
                <5>1. x <= P
                    BY <3>2, <4>2
                <5>2. Begun(r) => y # r[1].ts
                    BY <1>4, <3>2, <4>2
                <5> QED BY <5>1, <5>2
            <4> QED BY <4>1, <4>2
        <3> QED BY <1>4, <3>1, <3>3, <3>4, <3>5
    <2>2. CASE i \notin DOMAIN net[s]
        <3>1. net'[s][i].ts = t /\ net'[s][i].digit = d /\ Age(s, i)' = 1 /\ t \in Int /\ t < ts'
            <4>1. t \in Int /\ t < ts'
                BY <1>4, StreamConstants
            <4> QED BY <1>2, <2>2, <4>1
        <3>2. d = P + 1 /\ Begun(r) /\ t = r[1].ts /\ (~EventPending(r[1]) => r[1].gap = Gap)
            BY <1>4, <1>8, <3>1
        <3>3. ~EventPending(r[1]) => 1 > Gap - r[1].gap
            BY <3>2 DEF Gap
        <3> QED BY <3>1, <3>2, <3>3
    <2> QED BY <2>1, <2>2
<1>9. SentInv(r, s)'
    BY <1>4, <1>6, <1>8 DEF SentInv, EventPending
<1>10. ApartInv(s)'
    <2> SUFFICES ASSUME NEW i \in DOMAIN net'[s], NEW j \in DOMAIN net'[s], i < j,
                        net'[s][i].digit # 0, net'[s][j].digit # 0
                 PROVE  /\ net'[s][i].digit <= net'[s][j].digit
                        /\ net'[s][i].digit = net'[s][j].digit <=> net'[s][i].ts = net'[s][j].ts
                        /\ net'[s][i].digit # net'[s][j].digit => Age(s, i)' - Age(s, j)' > Gap
        BY DEF ApartInv
    <2>1. i \in DOMAIN net[s]
        <3>1. Len(net[s]) \in Nat /\ DOMAIN net[s] = 1..Len(net[s]) /\ net'[s] \in Seq(Packet)
            BY AgeFacts, WriteFacts
        <3>2. Len(net'[s]) \in Nat /\ DOMAIN net'[s] = 1..Len(net'[s])
            BY <3>1
        <3>3. j <= Len(net'[s]) /\ i \in Int /\ j \in Int
            BY <3>2
        <3>4. i # Len(net'[s])
            BY <3>2, <3>3
        <3> QED BY <1>2, <3>4
    <2>2. PICK a \in Int, x \in Nat, y \in Nat :
            /\ a = Age(s, i) /\ x = net[s][i].digit /\ y = net[s][i].ts
            /\ a >= 1 /\ Age(s, i)' = a + 1 /\ net'[s][i].digit = x /\ net'[s][i].ts = y
        BY <1>1, <1>5, <2>1
    <2>3. CASE j \in DOMAIN net[s]
        <3>1. PICK b \in Int, z \in Nat, u \in Nat :
                /\ b = Age(s, j) /\ z = net[s][j].digit /\ u = net[s][j].ts
                /\ b >= 1 /\ Age(s, j)' = b + 1 /\ net'[s][j].digit = z /\ net'[s][j].ts = u
            BY <1>1, <1>5, <2>3
        <3>2. x <= z /\ (x = z <=> y = u) /\ (x # z => a - b > Gap)
            <4>1. i < j /\ net[s][i].digit # 0 /\ net[s][j].digit # 0
                BY <2>2, <3>1
            <4>2. /\ net[s][i].digit <= net[s][j].digit
                  /\ net[s][i].digit = net[s][j].digit <=> net[s][i].ts = net[s][j].ts
                  /\ net[s][i].digit # net[s][j].digit => Age(s, i) - Age(s, j) > Gap
                BY <1>3, <2>1, <2>3, <4>1 DEF ApartInv
            <4> QED BY <2>2, <3>1, <4>2
        <3>3. x # z => (a + 1) - (b + 1) > Gap
            BY <3>2 DEF Gap
        <3> QED BY <2>2, <3>1, <3>2, <3>3
    <2>4. CASE j \notin DOMAIN net[s]
        <3>1. net'[s][j].ts = t /\ net'[s][j].digit = d /\ Age(s, j)' = 1
            BY <1>2, <2>4
        <3>2. d = P + 1 /\ Begun(r) /\ t = r[1].ts
            BY <1>4, <3>1
        <3>3. (x <= P \/ x = P + 1) /\ (x = P + 1 <=> y = r[1].ts)
            BY <1>8, <2>2, <3>2
        <3>4. /\ \/ x <= P /\ a > Gap
                 \/ Begun(q) /\ x = P + 1
            BY <1>3, <1>4, <2>1, <2>2 DEF SentInv
        <3>5. x # P + 1 => (a + 1) - 1 > Gap
            BY <3>4 DEF Gap
        <3> QED BY <2>2, <3>1, <3>2, <3>3, <3>5
    <2> QED BY <2>3, <2>4
<1>11. ASSUME NEW a \in arrived PROVE a \in Nat /\ (a <= P \/ (Begun(q) /\ a = P + 1))
    BY <1>3, <1>4, EventFacts DEF HeardInv
<1>12. last < now /\ (Begun(q) => (P + 1 \in arrived <=> q[1].ts = last))
    BY <1>3, <1>4 DEF HeardInv
<1>13. Begun(r) => (P + 1 \in arrived <=> r[1].ts = last)
    <2>1. CASE Begun(q)
        BY <1>12, <2>1
    <2>2. CASE ~Begun(q)
        <3>1. P + 1 \notin arrived
            BY <1>11, <2>2
        <3>2. Begun(r) => r[1].ts # last
            BY <1>4, <1>12, <2>2
        <3> QED BY <3>1, <3>2
    <2> QED BY <2>1, <2>2
<1>14. ASSUME NEW i \in DOMAIN net'[s], net'[s][i].digit # 0
       PROVE  /\ \A a \in arrived : a <= net'[s][i].digit
              /\ net'[s][i].digit \in arrived <=> net'[s][i].ts = last
    <2>1. CASE i \in DOMAIN net[s]
        <3>1. net'[s][i] = net[s][i]
            BY <1>1, <2>1
        <3> QED BY <1>3, <1>4, <1>14, <2>1, <3>1 DEF HeardInv
    <2>2. CASE i \notin DOMAIN net[s]
        <3>1. net'[s][i].ts = t /\ net'[s][i].digit = d
            BY <1>2, <2>2
        <3>2. d = P + 1 /\ Begun(r) /\ t = r[1].ts
            BY <1>4, <1>14, <3>1
        <3>3. \A a \in arrived : a <= P + 1
            BY <1>11
        <3> QED BY <1>13, <3>1, <3>2, <3>3
    <2> QED BY <2>1, <2>2
<1>15. HeardInv(r, s)'
    <2>1. lastEvTS' < ts'
        BY <1>4, <1>12
    <2>2. \A a \in arrived' : a <= Past(r)' \/ (Begun(r)' /\ a = Past(r)' + 1)
        BY <1>4, <1>6, <1>11
    <2>3. Begun(r)' => (Past(r)' + 1 \in arrived' <=> r[1].ts = lastEvTS')
        BY <1>4, <1>6, <1>13
    <2>4. \A i \in DOMAIN net'[s] : net'[s][i].digit # 0 =>
            /\ \A a \in arrived' : a <= net'[s][i].digit
            /\ net'[s][i].digit \in arrived' <=> net'[s][i].ts = lastEvTS'
        BY <1>4, <1>14
    <2> QED BY <2>1, <2>2, <2>3, <2>4 DEF HeardInv
<1> QED BY <1>9, <1>10, <1>15

\* The head is dropped when its pause is over: its packets are old by then.
LEMMA TrimStep ==
    ASSUME StreamTypeOK, NEW s \in Sources, NEW q, EventInv(q, s), NEW r, r = Trim(q)
    PROVE  /\ EventInv(r, s)
           /\ r # <<>> /\ ~EventPending(r[1]) => r[1].gap > 0
<1>1. QueueInv(q) /\ SentInv(q, s) /\ ApartInv(s) /\ HeardInv(q, s)
    BY DEF EventInv
<1>2. /\ q \in Seq(Job) /\ Len(q) \in Nat /\ DOMAIN q = 1..Len(q) /\ Len(q) <= queued
      /\ queued \in Nat /\ Past(q) \in Nat /\ Past(q) = queued - Len(q)
      /\ \A i \in DOMAIN q : q[i].sent \in Nat /\ q[i].gap \in 0..Gap
    BY <1>1, EventFacts DEF QueueInv, Past
<1>0. q # <<>> => Head(q) = q[1]
    BY <1>2
<1>3. CASE ~(q # <<>> /\ ~EventPending(q[1]) /\ q[1].gap = 0)
    <2>1. r = q
        BY <1>0, <1>3 DEF Trim
    <2>2. q # <<>> => 1 \in DOMAIN q
        BY <1>2
    <2> QED BY <1>2, <1>3, <2>1, <2>2 DEF Gap
<1>4. CASE q # <<>> /\ ~EventPending(q[1]) /\ q[1].gap = 0
    <2>0. r = Tail(q)
        BY <1>0, <1>4 DEF Trim
    <2>1. /\ r = Tail(q) /\ r \in Seq(Job) /\ Len(r) = Len(q) - 1 /\ Len(r) \in Nat
          /\ DOMAIN r = 1..Len(r) /\ \A i \in DOMAIN r : i + 1 \in DOMAIN q /\ r[i] = q[i + 1] /\ i \in Nat /\ i >= 1
        BY <1>2, <1>4, <2>0
    <2>2. PICK P \in Nat : P = Past(q) /\ Past(r) = P + 1
        <3>1. PICK u \in Nat, n \in Nat : u = queued /\ n = Len(q) /\ n <= u /\ Len(r) = n - 1
            BY <1>2, <2>1
        <3>2. Past(q) = u - n /\ Past(r) = u - (n - 1)
            BY <3>1 DEF Past
        <3>3. u - n \in Nat /\ u - (n - 1) = (u - n) + 1
            BY <3>1
        <3> QED BY <3>2, <3>3
    <2>3. Begun(q)
        <3>1. ~(q[1].sent < Packets) /\ 1 \in DOMAIN q
            BY <1>2, <1>4 DEF EventPending
        <3>2. q[1].sent \in Nat /\ Packets \in Nat /\ Packets > 0
            BY <1>2, <3>1, StreamConstants
        <3> QED BY <1>4, <3>1, <3>2 DEF Begun
    <2>4. ASSUME NEW i \in DOMAIN r
          PROVE  /\ r[i].digit = Past(r) + i /\ r[i].sent = 0
                 /\ EventPending(r[i]) /\ r[i].gap = Gap
        <3>1. q[i + 1].digit = P + (i + 1) /\ q[i + 1].sent = 0 /\ (EventPending(q[i + 1]) => q[i + 1].gap = Gap)
            BY <1>1, <2>1, <2>2 DEF QueueInv
        <3>2. EventPending(q[i + 1])
            BY <3>1, StreamConstants DEF EventPending
        <3>3. P + (i + 1) = (P + 1) + i
            BY <2>1
        <3> QED BY <2>1, <2>2, <3>1, <3>2, <3>3
    <2>5. ~Begun(r)
        <3>1. ASSUME r # <<>> PROVE 1 \in DOMAIN r
            BY <2>1, <3>1
        <3> QED BY <2>4, <3>1 DEF Begun
    <2>6. QueueInv(r)
        BY <1>2, <2>1, <2>4 DEF QueueInv
    <2>7. SentInv(r, s)
        <3> SUFFICES ASSUME NEW i \in DOMAIN net[s], net[s][i].digit # 0
                     PROVE  net[s][i].ts < ts /\ net[s][i].digit <= Past(r) /\ Age(s, i) > Gap
            BY <2>5 DEF SentInv
        <3>1. /\ net[s][i].ts < ts
              /\ \/ net[s][i].digit <= P /\ Age(s, i) > Gap
                 \/ net[s][i].digit = P + 1 /\ Age(s, i) > Gap - q[1].gap
            BY <1>1, <1>4, <2>2 DEF SentInv
        <3>2. net[s][i].digit \in Nat /\ Age(s, i) \in Int
            <4>1. net[s][i].digit \in Nat
                BY <1>1, EventFacts
            <4> QED BY <4>1, AgeFacts DEF Number
        <3> QED BY <1>4, <2>2, <3>1, <3>2 DEF Gap
    <2>8. HeardInv(r, s)
        <3>1. \A a \in arrived : a \in Nat /\ (a <= P \/ a = P + 1)
            BY <1>1, <2>2, EventFacts DEF HeardInv
        <3>2. \A a \in arrived : a <= P + 1
            BY <3>1
        <3> QED BY <1>1, <2>2, <2>5, <3>2 DEF HeardInv
    <2>9. r # <<>> => EventPending(r[1])
        <3>1. ASSUME r # <<>> PROVE 1 \in DOMAIN r
            BY <2>1, <3>1
        <3> QED BY <2>4, <3>1
    <2> QED BY <1>1, <2>6, <2>7, <2>8, <2>9 DEF EventInv
<1> QED BY <1>3, <1>4

LEMMA TickEventStep ==
    ASSUME StreamTypeOK, TrafficInv, DialInv, ts < MaxTicks, TickEvent, ts' = ts + 1,
           UNCHANGED <<sends, ssrc, turns, queued, rx, lastEvTS, digits, arrived, strayed>>
    PROVE  TrafficInv' /\ DialInv' /\ StreamTypeOK'
<1>0. PICK s \in Sources : s = ssrc /\ NetInv(s) /\ EventInv(dtmfQ, s) /\ AudioInv
    BY DEF StreamTypeOK, TrafficInv, DialInv
<1>1. PICK q : q = Trim(dtmfQ)
    OBVIOUS
<1>2. EventInv(q, s)
    BY <1>0, <1>1, TrimStep
<1>3. QueueInv(q)
    BY <1>2 DEF EventInv
<1>4. PICK h, j : /\ h = Head(q) /\ j = EventSent(h)
                  /\ InEvent(q) /\ dtmfQ' = [q EXCEPT ![1] = j] /\ WriteRTP(j.ts, j.digit)
    BY <1>1 DEF TickEvent
<1>5. PICK r : r = [q EXCEPT ![1] = j] /\ r = dtmfQ'
    BY <1>4
<1>6. /\ q \in Seq(Job) /\ q # <<>> /\ 1 \in DOMAIN q /\ h = q[1] /\ EventPending(h)
      /\ Len(q) \in Nat /\ DOMAIN q = 1..Len(q) /\ Past(q) \in Nat /\ queued \in Nat
    BY <1>3, <1>4, EventFacts DEF QueueInv, InEvent
<1>7. h \in Job /\ h.digit = Past(q) + 1 /\ h.gap = Gap /\ (h.sent > 0 => h.ts < ts)
    <2>1. /\ q[1] \in Job /\ q[1].digit = Past(q) + 1 /\ (EventPending(q[1]) => q[1].gap = Gap)
          /\ (q[1].sent > 0 => q[1].ts < ts)
        BY <1>3, <1>6 DEF QueueInv
    <2> QED BY <1>6, <2>1
<1>8. /\ j \in Job /\ j.digit = h.digit /\ j.gap = Gap /\ j.sent > 0 /\ j.ts <= ts /\ j.ts \in 0..MaxTicks
      /\ h.sent > 0 => j.ts = h.ts
      /\ h.sent = 0 => j.ts = ts
    <2>1. PICK se \in 0..Packets, en \in 0..EndPackets, ht \in 0..MaxTicks, dg \in 1..Len(Dial), now \in 0..MaxTicks :
            /\ h = [digit |-> dg, sent |-> se, ended |-> en, gap |-> Gap, ts |-> ht]
            /\ now = ts /\ (se > 0 => ht < now)
        BY <1>7 DEF Job, StreamTypeOK
    <2>2. Packets \in Nat /\ Packets > 0 /\ MaxTicks \in Nat /\ EndPackets \in Nat
        BY StreamConstants DEF EndPackets
    <2>3. CASE se >= Packets
        <3>1. j = [digit |-> dg, sent |-> se, ended |-> en + 1, gap |-> Gap, ts |-> ht]
            BY <1>4, <2>1, <2>3 DEF EventSent
        <3>2. en < EndPackets
            BY <1>6, <2>1, <2>2, <2>3 DEF EventPending
        <3>3. en + 1 \in 0..EndPackets /\ se > 0 /\ ht <= now
            BY <2>1, <2>2, <2>3, <3>2
        <3>4. j \in Job
            BY <3>1, <3>3 DEF Job, Gap
        <3> QED BY <2>1, <3>1, <3>3, <3>4
    <2>4. CASE se < Packets
        <3>1. j = [digit |-> dg, sent |-> se + 1, ended |-> en, gap |-> Gap, ts |-> IF se = 0 THEN now ELSE ht]
            <4>1. ~(h.sent >= Packets) /\ (h.sent = 0 <=> se = 0)
                BY <2>1, <2>2, <2>4
            <4>2. j = [h EXCEPT !.sent = @ + 1, !.ts = IF h.sent = 0 THEN ts ELSE @]
                BY <1>4, <4>1 DEF EventSent
            <4> QED BY <2>1, <4>1, <4>2
        <3>2. se + 1 \in 0..Packets /\ se + 1 > 0 /\ (se > 0 => ht <= now)
            BY <2>1, <2>2, <2>4
        <3>3. j \in Job
            BY <3>1, <3>2 DEF Job, Gap
        <3> QED BY <2>1, <2>2, <3>1, <3>2, <3>3
    <2> QED BY <2>2, <2>3, <2>4
<1>9. /\ r \in Seq(Job) /\ Len(r) = Len(q) /\ DOMAIN r = DOMAIN q /\ r # <<>>
      /\ r[1] = j /\ \A i \in DOMAIN q : i # 1 => r[i] = q[i]
    BY <1>5, <1>6, <1>8
<1>10. Past(r)' = Past(q) /\ Begun(r)
    BY <1>8, <1>9 DEF Past, Begun
<1>11. QueueInv(r)'
    <2>1. Len(r) <= queued'
        BY <1>3, <1>9 DEF QueueInv
    <2>2. ASSUME NEW i \in DOMAIN r
          PROVE  /\ r[i].digit = Past(r)' + i
                 /\ i > 1 => r[i].sent = 0
                 /\ EventPending(r[i]) => r[i].gap = Gap
                 /\ r[i].sent > 0 => r[i].ts < ts'
        <3>0. ts \in Nat /\ j.ts \in Int
            BY <1>3, <1>8, EventFacts, StreamConstants
        <3>1. CASE i = 1
            BY <1>7, <1>8, <1>9, <1>10, <3>0, <3>1
        <3>2. CASE i # 1
            <4>1. /\ q[i].digit = Past(q) + i /\ i > 1 /\ q[i].sent = 0
                  /\ EventPending(q[i]) => q[i].gap = Gap
                BY <1>3, <1>6, <1>9, <3>2 DEF QueueInv
            <4> QED BY <1>9, <1>10, <3>2, <4>1
        <3> QED BY <3>1, <3>2
    <2> QED BY <1>9, <2>1, <2>2 DEF QueueInv, EventPending
<1>12. j.digit \in 0..Len(Dial) /\ j.digit = Past(q) + 1
    <2>1. j.digit \in 1..Len(Dial)
        BY <1>8 DEF Job
    <2> QED BY <1>7, <1>8, <2>1
<1>13. TrafficInv'
    BY <1>4, <1>8, <1>12, WriteNet
<1>14. SentInv(r, s)' /\ ApartInv(s)' /\ HeardInv(r, s)'
    <2>1. Begun(q) => Begun(r) /\ r[1].ts = q[1].ts
        BY <1>6, <1>8, <1>9, <1>10 DEF Begun
    <2>2. Begun(r) /\ ~Begun(q) => r[1].ts = ts
        <3>1. h.sent \in Nat
            BY <1>7, StreamConstants DEF Job
        <3> QED BY <1>6, <1>8, <1>9, <3>1 DEF Begun
    <2> QED BY <1>0, <1>2, <1>4, <1>5, <1>8, <1>9, <1>10, <1>11, <1>12, <2>1, <2>2, EventWritten
<1>15. EventInv(dtmfQ, s)'
    <2>1. EventInv(r, s)'
        BY <1>11, <1>14 DEF EventInv
    <2> QED BY <1>5, <2>1 DEF EventInv, QueueInv, SentInv, HeardInv, Past, Begun, EventPending
<1>16. StreamTypeOK'
    <2>1. /\ seq' \in [Sources -> Number] /\ net' \in [Sources -> Seq(Packet)]
          /\ OnTheWay' <= MaxFlight /\ gone' \in 0..MaxLoss
        BY <1>4, <1>8, <1>12, WriteTypes
    <2>2. ts' \in 0..MaxTicks
        BY StreamConstants DEF StreamTypeOK
    <2> QED BY <1>5, <1>9, <2>1, <2>2 DEF StreamTypeOK, Number
<1>17. DialInv'
    <2>1. AudioInv'
        <3>1. \A o \in Sources : o # ssrc => net'[o] = net[o]
            BY <1>4 DEF WriteRTP, StreamTypeOK
        <3> QED BY <1>0, <3>1 DEF AudioInv
    <2> QED BY <1>0, <1>15, <2>1 DEF DialInv
<1> QED BY <1>13, <1>16, <1>17

\* tick in the pause after an event, or with no event queued
LEMMA TickAudioStep ==
    ASSUME StreamTypeOK, TrafficInv, DialInv, ts < MaxTicks, TickAudio, ts' = ts + 1,
           UNCHANGED <<sends, ssrc, turns, queued, rx, lastEvTS, digits, arrived, strayed>>
    PROVE  TrafficInv' /\ DialInv' /\ StreamTypeOK'
<1>0. PICK s \in Sources : s = ssrc /\ NetInv(s) /\ EventInv(dtmfQ, s) /\ AudioInv
    BY DEF StreamTypeOK, TrafficInv, DialInv
<1>1. PICK q : q = Trim(dtmfQ)
    OBVIOUS
<1>2. EventInv(q, s) /\ (q # <<>> /\ ~EventPending(q[1]) => q[1].gap > 0)
    BY <1>0, <1>1, TrimStep
<1>3. QueueInv(q)
    BY <1>2 DEF EventInv
<1>4. ~InEvent(q) /\ dtmfQ' = (IF q = <<>> THEN q ELSE [q EXCEPT ![1].gap = @ - 1]) /\ WriteRTP(ts, 0)
    BY <1>1 DEF TickAudio
<1>5. PICK r : r = (IF q = <<>> THEN q ELSE [q EXCEPT ![1].gap = @ - 1]) /\ r = dtmfQ'
    BY <1>4
<1>6. /\ q \in Seq(Job) /\ Len(q) \in Nat /\ DOMAIN q = 1..Len(q) /\ Past(q) \in Nat /\ queued \in Nat
      /\ ts \in 0..MaxTicks /\ ts \in Nat /\ Len(Dial) \in Nat
    BY <1>3, EventFacts DEF QueueInv, StreamTypeOK
<1>7. /\ r \in Seq(Job) /\ Len(r) = Len(q) /\ DOMAIN r = DOMAIN q
      /\ q # <<>> =>
           /\ 1 \in DOMAIN q /\ ~EventPending(q[1]) /\ ~EventPending(r[1])
           /\ r[1].gap = q[1].gap - 1 /\ r[1].digit = q[1].digit /\ r[1].sent = q[1].sent /\ r[1].ts = q[1].ts
           /\ \A i \in DOMAIN q : i # 1 => r[i] = q[i]
    <2>1. CASE q = <<>>
        BY <1>5, <1>6, <2>1
    <2>2. CASE q # <<>>
        <3>1. 1 \in DOMAIN q /\ q[1] \in Job /\ Head(q) = q[1]
            BY <1>6, <2>2
        <3>2. ~EventPending(q[1]) /\ q[1].gap > 0
            BY <1>2, <1>4, <2>2, <3>1 DEF InEvent
        <3>3. PICK j : j = [q[1] EXCEPT !.gap = @ - 1]
            OBVIOUS
        <3>4. /\ j \in Job /\ j.gap = q[1].gap - 1 /\ j.digit = q[1].digit /\ j.sent = q[1].sent
              /\ j.ts = q[1].ts /\ j.ended = q[1].ended
            BY <3>1, <3>2, <3>3 DEF Job, Gap
        <3>5. r = [q EXCEPT ![1] = j]
            BY <1>5, <2>2, <3>1, <3>3
        <3>6. /\ r \in Seq(Job) /\ Len(r) = Len(q) /\ DOMAIN r = DOMAIN q /\ r[1] = j
              /\ \A i \in DOMAIN q : i # 1 => r[i] = q[i]
            BY <1>6, <3>1, <3>4, <3>5
        <3>7. ~EventPending(r[1])
            BY <3>2, <3>4, <3>6 DEF EventPending
        <3> QED BY <3>1, <3>2, <3>4, <3>6, <3>7
    <2> QED BY <2>1, <2>2
<1>8. Past(r)' = Past(q) /\ (r = <<>> <=> q = <<>>) /\ (Begun(r) <=> Begun(q))
    <2>1. r = <<>> <=> q = <<>>
        BY <1>6, <1>7
    <2> QED BY <1>7, <2>1 DEF Past, Begun
<1>9. QueueInv(r)'
    <2>1. Len(r) <= queued'
        BY <1>3, <1>7 DEF QueueInv
    <2>2. ASSUME NEW i \in DOMAIN r
          PROVE  /\ r[i].digit = Past(r)' + i
                 /\ i > 1 => r[i].sent = 0
                 /\ EventPending(r[i]) => r[i].gap = Gap
                 /\ r[i].sent > 0 => r[i].ts < ts'
        <3>0. q # <<>> /\ i \in DOMAIN q
            BY <1>6, <1>7
        <3>1. /\ q[i].digit = Past(q) + i
              /\ i > 1 => q[i].sent = 0
              /\ EventPending(q[i]) => q[i].gap = Gap
              /\ q[i].sent > 0 => q[i].ts < ts
            BY <1>3, <3>0 DEF QueueInv
        <3>2. q[i].ts < ts => q[i].ts < ts'
            <4>1. q[i].ts \in 0..MaxTicks
                BY <1>3, <3>0, EventFacts
            <4> QED BY <1>6, <4>1, StreamConstants
        <3>3. CASE i = 1
            BY <1>7, <1>8, <3>0, <3>1, <3>2, <3>3
        <3>4. CASE i # 1
            BY <1>7, <1>8, <3>0, <3>1, <3>2, <3>4
        <3> QED BY <3>3, <3>4
    <2> QED BY <1>7, <2>1, <2>2 DEF QueueInv, EventPending
<1>10. 0 \in 0..Len(Dial)
    BY <1>6
<1>11. TrafficInv'
    BY <1>4, <1>6, <1>10, WriteNet
<1>12. SentInv(r, s)' /\ ApartInv(s)' /\ HeardInv(r, s)'
    <2>1. Begun(q) => Begun(r) /\ r[1].ts = q[1].ts
        BY <1>7, <1>8 DEF Begun
    <2>2. Begun(r) /\ ~EventPending(r[1]) => Begun(q) /\ ~EventPending(q[1]) /\ r[1].gap = q[1].gap - 1
        BY <1>7, <1>8 DEF Begun
    <2>3. PICK t \in 0..MaxTicks : t = ts /\ t <= ts /\ WriteRTP(t, 0)
        BY <1>4, <1>6
    <2>4. dtmfQ' = r /\ Len(r) = Len(q) /\ (Begun(r) => Begun(q)) /\ EventInv(q, s)
        BY <1>2, <1>5, <1>7, <1>8
    <2> QED BY <1>0, <1>9, <1>10, <2>1, <2>2, <2>3, <2>4, EventWritten
<1>13. EventInv(dtmfQ, s)'
    <2>1. EventInv(r, s)'
        BY <1>9, <1>12 DEF EventInv
    <2>2. dtmfQ' = r
        BY <1>5
    <2> QED BY <2>1, <2>2 DEF EventInv, QueueInv, SentInv, HeardInv, Past, Begun, EventPending
<1>14. StreamTypeOK'
    <2>1. /\ seq' \in [Sources -> Number] /\ net' \in [Sources -> Seq(Packet)]
          /\ OnTheWay' <= MaxFlight /\ gone' \in 0..MaxLoss
        BY <1>4, <1>6, <1>10, WriteTypes
    <2>2. ts' \in 0..MaxTicks
        BY StreamConstants DEF StreamTypeOK
    <2> QED BY <1>5, <1>7, <2>1, <2>2 DEF StreamTypeOK, Number
<1>15. DialInv'
    <2>1. AudioInv'
        <3>1. \A o \in Sources : o # ssrc => net'[o] = net[o]
            BY <1>4 DEF WriteRTP, StreamTypeOK
        <3> QED BY <1>0, <3>1 DEF AudioInv
    <2> QED BY <1>0, <1>13, <2>1 DEF DialInv
<1> QED BY <1>11, <1>14, <1>15

\* What is on the way and the counts do not change: time may pass.
LEMMA NetUnchanged ==
    ASSUME StreamTypeOK, TrafficInv, ts' \in {ts, ts + 1}, UNCHANGED <<seq, net, gone, rx, strayed>>
    PROVE  TrafficInv'
<1>1. \A s \in Sources : \A i : Age(s, i)' = Age(s, i) /\ Room(s, i)' = Room(s, i)
    BY DEF Age, Room
<1>2. /\ \A s \in Sources : MaxAge(s)' = MaxAge(s) /\ (Current(s)' <=> Current(s)) /\ (Fresh(s)' <=> Fresh(s))
      /\ Base' = Base /\ Total' = Total
    BY DEF MaxAge, Current, Fresh, Base, Total, OnTheWay, PacketsReceived, Expected
<1>3. \A s \in Sources : NetInv(s)' /\ (~strayed' => LateInv(s)')
    <2> SUFFICES ASSUME NEW s \in Sources PROVE NetInv(s)' /\ (~strayed' => LateInv(s)')
        OBVIOUS
    <2>1. NetInv(s) /\ (~strayed => LateInv(s))
        BY DEF TrafficInv
    <2> QED BY <1>1, <1>2, <2>1 DEF NetInv, LateInv
<1>4. \A x, y \in Int : Owed(1, x)' /\ Owed(2, y)' => Owed(1, x) /\ Owed(2, y)
    BY <1>1, <1>2 DEF Owed, Sources
<1>5. Total' <= ts'
    <2>1. Total \in Int /\ ts \in Int /\ Total <= ts
        BY CountFacts DEF TrafficInv, CountInv
    <2> QED BY <1>2, <2>1
<1>6. CountInv'
    BY <1>2, <1>4, <1>5 DEF TrafficInv, CountInv
<1> QED BY <1>3, <1>6 DEF TrafficInv

\* No packet is sent or received: time may pass.
LEMMA EventsUnchanged ==
    ASSUME StreamTypeOK, NEW s \in Sources, EventInv(dtmfQ, s), ts' \in {ts, ts + 1},
           UNCHANGED <<seq, net[s], lastEvTS, arrived>>
    PROVE  /\ ApartInv(s)'
           /\ UNCHANGED <<queued, dtmfQ>> => EventInv(dtmfQ, s)'
<1>1. \A i : Age(s, i)' = Age(s, i)
    BY DEF Age
<1>3. ApartInv(s)'
    BY <1>1 DEF ApartInv, EventInv
<1>5. ts \in Nat /\ \A x \in Int : x < ts => x < ts'
    BY CountFacts
<1>7. ASSUME UNCHANGED <<queued, dtmfQ>> PROVE EventInv(dtmfQ, s)'
    <2>0. QueueInv(dtmfQ) /\ SentInv(dtmfQ, s) /\ HeardInv(dtmfQ, s)
        BY DEF EventInv
    <2>1. Past(dtmfQ)' = Past(dtmfQ) /\ (Begun(dtmfQ)' <=> Begun(dtmfQ))
        BY <1>7 DEF Past, Begun
    <2>2. /\ \A i \in DOMAIN dtmfQ : dtmfQ[i].ts \in Int
          /\ \A i \in DOMAIN net[s] : net[s][i].ts \in Int
          /\ lastEvTS \in Int
        <3>1. /\ \A i \in DOMAIN dtmfQ : dtmfQ[i].ts \in 0..MaxTicks
              /\ \A i \in DOMAIN net[s] : net[s][i].ts \in Nat
              /\ lastEvTS \in Int
            BY <2>0, EventFacts
        <3> QED BY <3>1
    <2>3. QueueInv(dtmfQ)'
        BY <1>5, <1>7, <2>0, <2>1, <2>2 DEF QueueInv, EventPending
    <2>4. SentInv(dtmfQ, s)'
        BY <1>1, <1>5, <1>7, <2>0, <2>1, <2>2 DEF SentInv, EventPending
    <2>5. HeardInv(dtmfQ, s)'
        BY <1>5, <1>7, <2>0, <2>1, <2>2 DEF HeardInv
    <2> QED BY <1>3, <2>3, <2>4, <2>5 DEF EventInv
<1> QED BY <1>3, <1>7

LEMMA DialUnchanged ==
    ASSUME StreamTypeOK, DialInv, ts' \in {ts, ts + 1},
           UNCHANGED <<ssrc, seq, net, lastEvTS, arrived, queued, dtmfQ>>
    PROVE  DialInv'
<1>1. AudioInv'
    BY DEF DialInv, AudioInv
<1>2. ASSUME NEW s \in Sources, s = ssrc' PROVE EventInv(dtmfQ, s)'
    <2>1. EventInv(dtmfQ, s)
        BY <1>2 DEF DialInv
    <2> QED BY <2>1, EventsUnchanged
<1> QED BY <1>1, <1>2 DEF DialInv

\* SendDTMF: the new events come after those in the queue.
LEMMA SendDTMFStep ==
    ASSUME StreamTypeOK, TrafficInv, DialInv, SendDTMF
    PROVE  TrafficInv' /\ DialInv' /\ StreamTypeOK'
<1>a. PICK s \in Sources : s = ssrc /\ EventInv(dtmfQ, s) /\ AudioInv
    BY DEF StreamTypeOK, DialInv
<1>0. UNCHANGED <<sends, ssrc, seq, ts, turns, net, gone, rx, lastEvTS, digits, arrived, strayed>>
    BY DEF SendDTMF, receiver
<1>1. PICK k \in queued + 1 .. Len(Dial) :
        dtmfQ' = dtmfQ \o [i \in 1 .. k - queued |-> NewJob(queued + i)] /\ queued' = k
    BY DEF SendDTMF
<1>2. QueueInv(dtmfQ) /\ SentInv(dtmfQ, s) /\ HeardInv(dtmfQ, s)
    BY <1>a DEF EventInv
<1>3a. PICK q : q = dtmfQ
    OBVIOUS
<1>3b. PICK r : r = dtmfQ'
    OBVIOUS
<1>3c. PICK u \in Nat, n \in Nat : u = queued /\ n = Len(q)
    BY <1>2, <1>3a, EventFacts
<1>3d. PICK new : new = [i \in 1 .. k - u |-> NewJob(u + i)]
    OBVIOUS
<1>3. /\ q = dtmfQ /\ r = dtmfQ' /\ u = queued /\ n = Len(q) /\ n <= u /\ q \in Seq(Job)
      /\ new = [i \in 1 .. k - u |-> NewJob(u + i)] /\ r = q \o new
      /\ DOMAIN q = 1..n
    <2>1. /\ Len(dtmfQ) <= queued /\ dtmfQ \in Seq(Job)
          /\ DOMAIN dtmfQ = 1..Len(dtmfQ)
        BY <1>2, EventFacts DEF QueueInv
    <2>2. r = q \o new
        BY <1>1, <1>3a, <1>3b, <1>3c, <1>3d
    <2> QED BY <1>3a, <1>3b, <1>3c, <1>3d, <2>1, <2>2
<1>4. k \in Nat /\ k > u /\ k <= Len(Dial) /\ Len(Dial) \in Nat
    BY <1>3, StreamConstants
<1>5. ASSUME NEW i \in 1 .. k - u PROVE NewJob(u + i) \in Job
    <2>1. u + i \in 1..Len(Dial) /\ MaxTicks \in Nat /\ Packets \in Nat
        BY <1>4, StreamConstants
    <2> QED BY <2>1 DEF NewJob, Job, Gap, EndPackets
<1>6. new \in Seq(Job) /\ Len(new) = k - u /\ \A i \in 1 .. k - u : new[i] = NewJob(u + i)
    <2>1. PICK w \in Nat : w = k - u
        BY <1>4
    <2>2. new = [i \in 1..w |-> NewJob(u + i)]
        BY <1>3, <2>1
    <2>3. \A i \in 1..w : NewJob(u + i) \in Job
        BY <1>5, <2>1
    <2>4. new \in Seq(Job) /\ Len(new) = w
        BY <2>2, <2>3
    <2> QED BY <2>1, <2>2, <2>4
<1>7. /\ r \in Seq(Job) /\ Len(r) = n + (k - u) /\ DOMAIN r = 1 .. n + (k - u)
      /\ \A i \in 1..n : r[i] = q[i]
      /\ \A i \in 1 .. n + (k - u) : i > n => r[i] = NewJob(u + (i - n))
    <2>1. r \in Seq(Job) /\ Len(r) = n + (k - u) /\ DOMAIN r = 1 .. n + (k - u)
        BY <1>3, <1>4, <1>6
    <2>2. \A i \in 1..n : r[i] = q[i]
        BY <1>3, <1>4, <1>6
    <2>3. ASSUME NEW i \in 1 .. n + (k - u), i > n PROVE r[i] = NewJob(u + (i - n))
        <3>1. i - n \in 1 .. k - u
            BY <1>4, <2>3
        <3>2. r[i] = new[i - n]
            BY <1>3, <1>4, <1>6, <2>3
        <3> QED BY <1>6, <3>1, <3>2
    <2> QED BY <2>1, <2>2, <2>3
<1>8. Past(dtmfQ) = u - n /\ Past(dtmfQ)' = u - n
    <2>1. k - (n + (k - u)) = u - n
        BY <1>4
    <2> QED BY <1>1, <1>3, <1>7, <2>1 DEF Past
<1>9. ASSUME NEW i \in DOMAIN r, i > n
      PROVE  /\ r[i].digit = u - n + i /\ r[i].sent = 0 /\ r[i].gap = Gap
    <2>1. r[i] = NewJob(u + (i - n)) /\ i \in Int
        BY <1>7, <1>9
    <2>2. u + (i - n) = u - n + i
        BY <2>1
    <2> QED BY <2>1, <2>2 DEF NewJob
<1>10. QueueInv(dtmfQ)'
    <2>1. Len(r) <= k
        BY <1>3, <1>4, <1>7
    <2>2. ASSUME NEW i \in DOMAIN r
          PROVE  /\ r[i].digit = (u - n) + i
                 /\ i > 1 => r[i].sent = 0
                 /\ EventPending(r[i]) => r[i].gap = Gap
                 /\ r[i].sent > 0 => r[i].ts < ts
        <3>1. CASE i > n
            BY <1>9, <3>1
        <3>2. CASE i <= n
            <4>1. i \in DOMAIN q /\ r[i] = q[i]
                BY <1>3, <1>7, <3>2
            <4> QED BY <1>2, <1>3, <1>8, <4>1 DEF QueueInv
        <3> QED BY <1>7, <3>1, <3>2
    <2>3. QueueInv(r)'
        <3>1. Past(r)' = u - n /\ queued' = k /\ ts' = ts
            BY <1>0, <1>1, <1>3, <1>8 DEF Past
        <3>2. r \in Seq(Job) /\ Len(r) <= queued'
            BY <1>7, <2>1, <3>1
        <3>3. \A i \in DOMAIN r :
                /\ r[i].digit = Past(r)' + i
                /\ i > 1 => r[i].sent = 0
                /\ EventPending(r[i]) => r[i].gap = Gap
                /\ r[i].sent > 0 => r[i].ts < ts'
            BY <2>2, <3>1
        <3> QED BY <3>2, <3>3 DEF QueueInv, EventPending
    <2> QED BY <1>3, <2>3 DEF QueueInv, Past, EventPending
<1>11. /\ Begun(dtmfQ)' <=> Begun(dtmfQ)
       /\ Begun(dtmfQ) => dtmfQ'[1] = dtmfQ[1]
    <2>1. CASE n = 0
        <3>0. q = <<>> /\ 1 \in DOMAIN r /\ 1 > n
            BY <1>3, <1>4, <1>7, <2>1
        <3>1. q = <<>> /\ r[1].sent = 0
            BY <1>9, <3>0
        <3> QED BY <1>3, <3>1 DEF Begun
    <2>2. CASE n > 0
        <3>1. q # <<>> /\ r # <<>> /\ r[1] = q[1]
            BY <1>3, <1>4, <1>7, <2>2
        <3> QED BY <1>3, <3>1 DEF Begun
    <2> QED BY <2>1, <2>2
<1>12. \A i \in DOMAIN net[s] : Age(s, i)' = Age(s, i)
    BY <1>0 DEF Age
<1>13. TrafficInv' /\ ApartInv(s)'
    BY <1>0, <1>a, NetUnchanged, EventsUnchanged
<1>14. SentInv(dtmfQ, s)'
    BY <1>0, <1>2, <1>8, <1>11, <1>12 DEF SentInv, EventPending
<1>15. HeardInv(dtmfQ, s)'
    BY <1>0, <1>2, <1>8, <1>11 DEF HeardInv
<1>16. StreamTypeOK'
    <2>1. queued' \in 0..Len(Dial)
        BY <1>1, <1>4
    <2> QED BY <1>0, <1>3, <1>7, <2>1 DEF StreamTypeOK, OnTheWay
<1>17. DialInv'
    <2>1. EventInv(dtmfQ, s)'
        BY <1>10, <1>13, <1>14, <1>15 DEF EventInv
    <2>2. AudioInv'
        BY <1>0, <1>a DEF AudioInv
    <2> QED BY <1>0, <1>a, <2>1, <2>2 DEF DialInv
<1> QED BY <1>13, <1>16, <1>17

\* Another stream sends: nothing was dialled, so all that is on the way is
\* audio.
LEMMA NewSourceStep ==
    ASSUME StreamTypeOK, TrafficInv, DialInv, NewSource
    PROVE  TrafficInv' /\ DialInv' /\ StreamTypeOK'
<1>1. /\ ssrc = 1 /\ ssrc' = 2 /\ queued = 0
      /\ UNCHANGED <<sends, seq, ts, dtmfQ, turns, queued, net, gone, rx, lastEvTS, digits, arrived, strayed>>
    BY DEF NewSource, receiver
<1>2. TrafficInv'
    BY <1>1, NetUnchanged
<1>3. EventInv(dtmfQ, 1) /\ AudioInv /\ 1 \in Sources /\ 2 \in Sources
    BY <1>1 DEF DialInv, Sources
<1>4. dtmfQ = <<>> /\ Past(dtmfQ) = 0 /\ ~Begun(dtmfQ)
    <2>1. Len(dtmfQ) <= 0 /\ Len(dtmfQ) \in Nat /\ dtmfQ \in Seq(Job)
        BY <1>1, <1>3, EventFacts DEF EventInv, QueueInv
    <2>2. dtmfQ = <<>> /\ Len(dtmfQ) = 0
        BY <2>1
    <2>3. Past(dtmfQ) = 0
        <3>1. queued = 0 /\ Len(dtmfQ) = 0 /\ 0 - 0 = 0
            BY <1>1, <2>2
        <3> QED BY <3>1, Zenon DEF Past
    <2>4. ~Begun(dtmfQ)
        BY <2>2, Zenon DEF Begun
    <2> QED BY <2>2, <2>3, <2>4
<1>5. ASSUME NEW s \in Sources, NEW i \in DOMAIN net[s] PROVE net[s][i].digit = 0
    <2>1. CASE s = 1
        <3>1. net[s][i].digit # 0 => net[s][i].digit <= 0
            BY <1>3, <1>4, <2>1 DEF EventInv, SentInv
        <3>2. net[s][i].digit \in Nat
            BY <1>3, EventFacts DEF EventInv
        <3> QED BY <3>1, <3>2
    <2>2. CASE s # 1
        BY <1>1, <1>3, <2>2 DEF AudioInv
    <2> QED BY <2>1, <2>2
<1>6. AudioInv'
    BY <1>1, <1>5 DEF AudioInv
<1>7. EventInv(dtmfQ, 2)'
    <2>1. QueueInv(dtmfQ) /\ HeardInv(dtmfQ, 1)
        BY <1>3 DEF EventInv
    <2>2. Past(dtmfQ)' = Past(dtmfQ) /\ (Begun(dtmfQ)' <=> Begun(dtmfQ))
        BY <1>1 DEF Past, Begun
    <2>3. QueueInv(dtmfQ)'
        BY <1>1, <2>1, <2>2 DEF QueueInv, EventPending
    <2>4. \A i \in DOMAIN net'[2] : net'[2][i].digit = 0
        BY <1>1, <1>3, <1>5
    <2>5. SentInv(dtmfQ, 2)' /\ ApartInv(2)'
        BY <2>4 DEF SentInv, ApartInv
    <2>6. HeardInv(dtmfQ, 2)'
        BY <1>1, <2>1, <2>2, <2>4 DEF HeardInv
    <2> QED BY <2>3, <2>5, <2>6 DEF EventInv
<1>8. DialInv'
    BY <1>1, <1>6, <1>7 DEF DialInv
<1>9. StreamTypeOK'
    BY <1>1, <1>3 DEF StreamTypeOK, OnTheWay
<1> QED BY <1>2, <1>8, <1>9

\* receive: the packet's event is the last one heard or a later one.
LEMMA ReceiveEvents ==
    ASSUME StreamTypeOK, NEW s \in Sources, NetInv(s), EventInv(dtmfQ, s), NEW i \in DOMAIN net[s], MayOvertake(s, i),
           net' = [net EXCEPT ![s] = RemoveAt(@, i)], UNCHANGED <<seq, gone, ssrc, ts, dtmfQ, queued>>,
           \/ net[s][i].digit # 0 /\ ReceiveDTMF(net[s][i])
           \/ net[s][i].digit = 0 /\ UNCHANGED <<digits, lastEvTS, arrived>>
    PROVE  EventInv(dtmfQ, s)'
<1>1. QueueInv(dtmfQ) /\ SentInv(dtmfQ, s) /\ ApartInv(s) /\ HeardInv(dtmfQ, s)
    BY DEF EventInv
<1>2. /\ Past(dtmfQ)' = Past(dtmfQ) /\ (Begun(dtmfQ)' <=> Begun(dtmfQ))
    BY DEF Past, Begun
<1>3. QueueInv(dtmfQ)'
    BY <1>1, <1>2 DEF QueueInv, EventPending
<1>0. /\ DOMAIN net'[s] = 1..Len(net'[s])
      /\ \A k \in DOMAIN net'[s] :
           /\ Was(i, k) \in DOMAIN net[s] /\ Was(i, k) # i
           /\ net'[s][k] = net[s][Was(i, k)] /\ Age(s, k)' = Age(s, Was(i, k))
           /\ Was(i, k) < i => Room(s, k)' = Room(s, Was(i, k)) - 1
           /\ Was(i, k) > i => Room(s, k)' = Room(s, Was(i, k))
      /\ \A k, l \in DOMAIN net'[s] : k < l => Was(i, k) < Was(i, l)
    BY ZenonT(40), Removal
<1>4. \A k \in DOMAIN net'[s] :
        /\ Was(i, k) \in DOMAIN net[s] /\ Was(i, k) # i
        /\ net'[s][k] = net[s][Was(i, k)] /\ Age(s, k)' = Age(s, Was(i, k))
    BY <1>0
<1>5. \A k, l \in DOMAIN net'[s] : k < l => Was(i, k) < Was(i, l)
    BY <1>0
<1>6. SentInv(dtmfQ, s)'
    BY <1>1, <1>2, <1>4 DEF SentInv, EventPending
<1>7. ApartInv(s)'
    <2> SUFFICES ASSUME NEW k \in DOMAIN net'[s], NEW l \in DOMAIN net'[s], k < l,
                        net'[s][k].digit # 0, net'[s][l].digit # 0
                 PROVE  /\ net'[s][k].digit <= net'[s][l].digit
                        /\ net'[s][k].digit = net'[s][l].digit <=> net'[s][k].ts = net'[s][l].ts
                        /\ net'[s][k].digit # net'[s][l].digit => Age(s, k)' - Age(s, l)' > Gap
        BY DEF ApartInv
    <2>1. PICK a \in DOMAIN net[s], b \in DOMAIN net[s] :
            a < b /\ net'[s][k] = net[s][a] /\ net'[s][l] = net[s][b] /\ Age(s, k)' = Age(s, a) /\ Age(s, l)' = Age(s, b)
        BY <1>4, <1>5
    <2> QED BY <1>1, <2>1 DEF ApartInv
<1>8. PICK P \in Nat, now \in Nat, last \in Int, d \in Nat, t \in Nat :
        P = Past(dtmfQ) /\ now = ts /\ last = lastEvTS /\ d = net[s][i].digit /\ t = net[s][i].ts
    <2>1. Past(dtmfQ) \in Nat /\ ts \in Nat /\ lastEvTS \in Int /\ net[s][i].digit \in Nat /\ net[s][i].ts \in Nat
        BY <1>1, EventFacts
    <2> QED BY <2>1
<1>9. CASE UNCHANGED <<lastEvTS, arrived>>
    <2>1. HeardInv(dtmfQ, s)'
        BY <1>1, <1>2, <1>4, <1>9 DEF HeardInv
    <2> QED BY <1>3, <1>6, <1>7, <2>1 DEF EventInv
<1>10. CASE d # 0 /\ ~SameEvent(net[s][i]) /\ arrived' = arrived \cup {d} /\ lastEvTS' = t
    <2>1. d \notin arrived /\ \A a \in arrived : a \in Nat /\ a < d
        <3>1. (\A a \in arrived : a <= d) /\ (d \in arrived <=> t = last) /\ last # t
            BY <1>1, <1>8, <1>10 DEF HeardInv, SameEvent
        <3>2. \A a \in arrived : a \in Nat
            BY <1>1, EventFacts
        <3> QED BY <3>1, <3>2
    <2>2. /\ t < now
          /\ d <= P \/ (Begun(dtmfQ) /\ d = P + 1)
          /\ Begun(dtmfQ) => (d = P + 1 <=> t = dtmfQ[1].ts)
        BY <1>1, <1>8, <1>10 DEF SentInv
    <2>3. \A a \in arrived' : a <= P \/ (Begun(dtmfQ) /\ a = P + 1)
        BY <1>1, <1>8, <1>10, <2>2 DEF HeardInv
    <2>4. Begun(dtmfQ) => (P + 1 \in arrived' <=> dtmfQ[1].ts = t)
        <3>1. P + 1 \in arrived => FALSE
            BY <1>8, <2>1, <2>2
        <3> QED BY <1>10, <2>2, <3>1
    <2>5. ASSUME NEW k \in DOMAIN net'[s], net'[s][k].digit # 0
          PROVE  /\ \A a \in arrived' : a <= net'[s][k].digit
                 /\ net'[s][k].digit \in arrived' <=> net'[s][k].ts = t
        <3>1. PICK a \in DOMAIN net[s] : a # i /\ net'[s][k] = net[s][a]
            BY <1>4
        <3>2. PICK x \in Nat, y \in Nat : x = net[s][a].digit /\ y = net[s][a].ts /\ x # 0
            <4>1. net[s][a].digit \in Nat /\ net[s][a].ts \in Nat
                BY <1>1, EventFacts
            <4> QED BY <2>5, <3>1, <4>1
        <3>3. d <= x /\ (x = d <=> y = t)
            <4>0. a \in Int /\ i \in Int
                BY AgeFacts
            <4>1. CASE a > i
                BY <1>1, <1>8, <1>10, <3>2, <4>1 DEF ApartInv
            <4>2. CASE a < i
                <5>1. x <= d /\ (x = d <=> y = t) /\ (x # d => Age(s, a) - Age(s, i) > Gap)
                    BY <1>1, <1>8, <1>10, <3>2, <4>2 DEF ApartInv
                <5>2. Age(s, a) - Age(s, i) <= MaxLate
                    BY <4>2, Overtaking
                <5>3. Age(s, a) \in Int /\ Age(s, i) \in Int /\ MaxLate \in Int /\ MaxLate <= Gap /\ Gap \in Int
                    BY AgeFacts DEF Number, Gap
                <5>4. ~(Age(s, a) - Age(s, i) > Gap)
                    BY <5>2, <5>3
                <5> QED BY <1>8, <3>2, <5>1, <5>4
            <4> QED BY <3>1, <4>0, <4>1, <4>2
        <3>4. x \notin arrived
            BY <1>8, <2>1, <3>2, <3>3
        <3>5. \A b \in arrived' : b <= x
            BY <1>8, <1>10, <2>1, <3>2, <3>3
        <3> QED BY <1>10, <3>1, <3>2, <3>3, <3>4, <3>5
    <2>6. HeardInv(dtmfQ, s)'
        BY <1>2, <1>8, <1>10, <2>2, <2>3, <2>4, <2>5 DEF HeardInv
    <2> QED BY <1>3, <1>6, <1>7, <2>6 DEF EventInv
<1>11. CASE d # 0 /\ SameEvent(net[s][i]) /\ arrived' = arrived \cup {d} /\ UNCHANGED lastEvTS
    <2>1. d \in arrived
        BY <1>1, <1>8, <1>11 DEF HeardInv, SameEvent
    <2>2. arrived' = arrived
        BY <1>11, <2>1
    <2> QED BY <1>9, <1>11, <2>2
<1> QED BY <1>8, <1>9, <1>10, <1>11 DEF ReceiveDTMF

\* receiveDTMF: the digits heard are those that arrived, in their order.

\* A packet of the other source is audio.
LEMMA ReceiveDial ==
    ASSUME StreamTypeOK, TrafficInv, DialInv, NEW s \in Sources, NEW i \in DOMAIN net[s], MayOvertake(s, i),
           net' = [net EXCEPT ![s] = RemoveAt(@, i)], UNCHANGED <<seq, gone, ssrc, ts, dtmfQ, queued>>,
           \/ net[s][i].digit # 0 /\ ReceiveDTMF(net[s][i])
           \/ net[s][i].digit = 0 /\ UNCHANGED <<digits, lastEvTS, arrived>>
    PROVE  DialInv'
<1>1. AudioInv /\ NetInv(s)
    BY DEF DialInv, TrafficInv
<1>2. \A o \in Sources : o # s => net'[o] = net[o]
    BY DEF StreamTypeOK
<1>3. AudioInv'
    <2> SUFFICES ASSUME NEW o \in Sources, o # ssrc, NEW k \in DOMAIN net'[o] PROVE net'[o][k].digit = 0
        BY DEF AudioInv
    <2>1. CASE o # s
        BY <1>1, <1>2, <2>1 DEF AudioInv
    <2>2. CASE o = s
        <3>1. Was(i, k) \in DOMAIN net[s] /\ net'[s][k] = net[s][Was(i, k)]
            <4>1. \A l \in DOMAIN net'[s] : Was(i, l) \in DOMAIN net[s] /\ net'[s][l] = net[s][Was(i, l)]
                BY ZenonT(40), Removal
            <4> QED BY <2>2, <4>1
        <3> QED BY <1>1, <2>2, <3>1 DEF AudioInv
    <2> QED BY <2>1, <2>2
<1>4. ASSUME NEW o \in Sources, o = ssrc PROVE EventInv(dtmfQ, o)'
    <2>1. EventInv(dtmfQ, o)
        BY <1>4 DEF DialInv
    <2>2. CASE o = s
        BY <1>1, <2>1, <2>2, ReceiveEvents
    <2>3. CASE o # s
        <3>1. UNCHANGED <<digits, lastEvTS, arrived>>
            BY <1>1, <1>4, <2>3 DEF AudioInv
        <3> QED BY <1>2, <2>1, <2>3, <3>1, EventsUnchanged
    <2> QED BY <2>2, <2>3
<1> QED BY <1>3, <1>4 DEF DialInv

\* receiveDTMF: the digits heard are those that arrived, in their order.
LEMMA ReceiveDigits ==
    ASSUME StreamTypeOK, DialInv, DigitsOnceInOrder, NEW s \in Sources, NEW i \in DOMAIN net[s],
           \/ net[s][i].digit # 0 /\ ReceiveDTMF(net[s][i])
           \/ net[s][i].digit = 0 /\ UNCHANGED <<digits, lastEvTS, arrived>>
    PROVE  /\ DigitsOnceInOrder'
           /\ digits' \in Seq(0..15) /\ lastEvTS' \in -1..MaxTicks /\ arrived' \subseteq 1..Len(Dial)
<1>1. net[s][i].digit # 0 => EventInv(dtmfQ, s) /\ QueueInv(dtmfQ) /\ HeardInv(dtmfQ, s)
    BY DEF DialInv, AudioInv, EventInv
<1>2. digits \in Seq(0..15) /\ lastEvTS \in -1..MaxTicks /\ arrived \subseteq 1..Len(Dial)
    BY DEF StreamTypeOK
<1>3. CASE UNCHANGED <<digits, lastEvTS, arrived>>
    BY <1>2, <1>3 DEF DigitsOnceInOrder
<1>4. PICK d \in 0..Len(Dial), t \in 0..MaxTicks : d = net[s][i].digit /\ t = net[s][i].ts
    <2>1. net[s][i] \in Packet
        BY AgeFacts
    <2> QED BY <2>1 DEF Packet
<1>5. CASE d # 0 /\ SameEvent(net[s][i]) /\ arrived' = arrived \cup {d} /\ UNCHANGED <<digits, lastEvTS>>
    <2>1. d \in arrived
        BY <1>1, <1>4, <1>5 DEF HeardInv, SameEvent
    <2>2. arrived' = arrived
        BY <1>5, <2>1
    <2> QED BY <1>3, <1>5, <2>2
<1>6. CASE /\ d # 0 /\ ~SameEvent(net[s][i]) /\ arrived' = arrived \cup {d} /\ lastEvTS' = t
           /\ digits' = Append(digits, Dial[d])
    <2>0. Len(Dial) \in Nat /\ d \in 1..Len(Dial)
        BY <1>6, StreamConstants
    <2>1. \A a \in arrived : a \in Nat /\ a < d
        <3>1. (\A a \in arrived : a <= d) /\ (d \in arrived <=> t = lastEvTS) /\ lastEvTS # t
            BY <1>1, <1>4, <1>6 DEF HeardInv, SameEvent
        <3>2. \A a \in arrived : a \in Nat
            BY <1>1, <1>4, <1>6, EventFacts
        <3> QED BY <2>0, <3>1, <3>2
    <2>2. Dial[d] \in 0..15 /\ d \in arrived' /\ arrived \subseteq arrived'
        <3>1. Dial[d] \in 0..15
            <4>1. Dial \in Seq(0..15)
                BY StreamConstants
            <4> QED BY <2>0, <4>1
        <3>2. d \in arrived' /\ arrived \subseteq arrived'
            BY <1>6
        <3> QED BY <3>1, <3>2
    <2>3. PICK n \in Nat : n = Len(digits) /\ DOMAIN digits = 1..n
        BY <1>2
    <2>4. /\ digits' \in Seq(0..15) /\ DOMAIN digits' = 1..(n + 1) /\ digits'[n + 1] = Dial[d]
          /\ \A k \in 1..n : digits'[k] = digits[k]
        BY <1>2, <1>6, <2>2, <2>3
    <2>5. PICK order \in [1..n -> arrived] :
            /\ \A k, l \in 1..n : k < l => order[k] < order[l]
            /\ \A a \in arrived : \E k \in 1..n : order[k] = a
            /\ \A k \in 1..n : digits[k] = Dial[order[k]]
        <3>1. PICK order \in [DOMAIN digits -> arrived] :
                /\ \A k, l \in DOMAIN digits : k < l => order[k] < order[l]
                /\ \A a \in arrived : \E k \in DOMAIN digits : order[k] = a
                /\ \A k \in DOMAIN digits : digits[k] = Dial[order[k]]
            BY Zenon DEF DigitsOnceInOrder
        <3>2. order \in [1..n -> arrived]
            BY <2>3
        <3>3. /\ \A k, l \in 1..n : k < l => order[k] < order[l]
              /\ \A a \in arrived : \E k \in 1..n : order[k] = a
              /\ \A k \in 1..n : digits[k] = Dial[order[k]]
            BY <2>3, <3>1
        <3> QED BY <3>2, <3>3
    <2>6. PICK o : o = [k \in 1..(n + 1) |-> IF k <= n THEN order[k] ELSE d]
        OBVIOUS
    <2>7. /\ \A k \in 1..n : o[k] = order[k] /\ o[k] \in arrived /\ k \in 1..(n + 1)
          /\ o[n + 1] = d
          /\ \A k \in 1..(n + 1) : k \in 1..n \/ k = n + 1
        BY <2>5, <2>6
    <2>8. o \in [1..(n + 1) -> arrived']
        BY <2>2, <2>6, <2>7
    <2>9. ASSUME NEW k \in 1..(n + 1), NEW l \in 1..(n + 1), k < l PROVE o[k] < o[l]
        <3>1. k \in 1..n
            BY <2>9
        <3>2. CASE l \in 1..n
            BY <2>5, <2>7, <2>9, <3>1, <3>2
        <3>3. CASE l = n + 1
            BY <2>1, <2>7, <3>1, <3>3
        <3> QED BY <2>7, <3>2, <3>3
    <2>10. ASSUME NEW a \in arrived' PROVE \E k \in 1..(n + 1) : o[k] = a
        <3>1. CASE a \in arrived
            BY <2>5, <2>7, <3>1
        <3>2. CASE a = d
            <4>1. n + 1 \in 1..(n + 1)
                BY <2>3
            <4> QED BY <2>7, <3>2, <4>1
        <3> QED BY <1>6, <3>1, <3>2
    <2>11. ASSUME NEW k \in 1..(n + 1) PROVE digits'[k] = Dial[o[k]]
        <3>1. CASE k \in 1..n
            BY <2>4, <2>5, <2>7, <3>1
        <3>2. CASE k = n + 1
            BY <2>4, <2>7, <3>2
        <3> QED BY <2>7, <3>1, <3>2
    <2>12. DigitsOnceInOrder'
        <3>1. o \in [DOMAIN digits' -> arrived']
            BY <2>4, <2>8
        <3>2. \A k, l \in DOMAIN digits' : k < l => o[k] < o[l]
            BY <2>4, <2>9
        <3>3. \A a \in arrived' : \E k \in DOMAIN digits' : o[k] = a
            BY <2>4, <2>10
        <3>4. \A k \in DOMAIN digits' : digits'[k] = Dial[o[k]]
            BY <2>4, <2>11
        <3> QED BY <3>1, <3>2, <3>3, <3>4, Zenon DEF DigitsOnceInOrder
    <2>13. lastEvTS' \in -1..MaxTicks /\ arrived' \subseteq 1..Len(Dial)
        BY <1>2, <1>6, <2>0, StreamConstants
    <2> QED BY <2>4, <2>12, <2>13
<1> QED BY <1>3, <1>4, <1>5, <1>6 DEF ReceiveDTMF
-----------------------------------------------------------------------------
(* The invariant *)

\* The invariant holds of a new stream.
-----------------------------------------------------------------------------
(* The invariant *)

\* The invariant holds of a new stream.
LEMMA StreamStart == StreamInit => StreamInv
<1> SUFFICES ASSUME StreamInit PROVE StreamInv
    OBVIOUS
<1>1. /\ net[1] = <<>> /\ net[2] = <<>> /\ \A s \in Sources : net[s] = <<>> /\ DOMAIN net[s] = {}
      /\ DOMAIN dtmfQ = {} /\ DOMAIN digits = {}
    <2>1. \A s \in Sources : net[s] = <<>>
        BY DEF StreamInit
    <2> QED BY <2>1 DEF StreamInit, Sources
<1>2. StreamTypeOK
    <2>1. rx \in RxStats
        BY HalfFacts, StreamConstants DEF StreamInit, NoStats, RxStats, Sources
    <2>2. OnTheWay <= MaxFlight
        <3>1. Len(<<>>) + Len(<<>>) <= MaxFlight
            BY StreamConstants
        <3> QED BY <1>1, <3>1, Zenon DEF OnTheWay
    <2>3. net \in [Sources -> Seq(Packet)]
        BY <1>1 DEF StreamInit
    <2>4. seq \in [Sources -> 0..Seq16-1]
        BY StreamConstants DEF StreamInit
    <2>5. /\ sends \in BOOLEAN /\ ssrc \in Sources /\ ts \in 0..MaxTicks /\ dtmfQ \in Seq(Job)
          /\ turns \in 0..MaxTurns /\ queued \in 0..Len(Dial) /\ gone \in 0..MaxLoss
          /\ lastEvTS \in -1..MaxTicks /\ digits \in Seq(0..15) /\ arrived \subseteq 1..Len(Dial)
          /\ strayed \in BOOLEAN
        <3>1. /\ MaxTicks \in Nat /\ MaxTurns \in Nat /\ MaxLoss \in Nat /\ Len(Dial) \in Nat
              /\ -1 \in -1..MaxTicks
            BY StreamConstants
        <3>2. ts = 0 /\ turns = 0 /\ queued = 0 /\ gone = 0 /\ lastEvTS = -1 /\ ssrc = 1
            BY DEF StreamInit
        <3>3. <<>> \in Seq(Job) /\ <<>> \in Seq(0..15)
            OBVIOUS
        <3>4. dtmfQ = <<>> /\ digits = <<>> /\ arrived = {} /\ sends = TRUE /\ strayed = FALSE
            BY DEF StreamInit
        <3>5. /\ sends \in BOOLEAN /\ dtmfQ \in Seq(Job) /\ digits \in Seq(0..15)
              /\ arrived \subseteq 1..Len(Dial) /\ strayed \in BOOLEAN
            BY <3>3, <3>4
        <3> QED BY <3>1, <3>2, <3>5 DEF Sources
    <2> QED BY <2>1, <2>2, <2>3, <2>4, <2>5 DEF StreamTypeOK
<1>3. ~rx.init /\ rx.prevExp = 0 /\ rx.prevRecv = 0 /\ ts = 0 /\ gone = 0
    BY DEF StreamInit, NoStats
<1>4. \A s \in Sources : NetInv(s) /\ LateInv(s)
    BY <1>1, <1>3 DEF NetInv, LateInv, Current
<1>5. CountInv
    <2>1. Base = 0 /\ Total = 0
        <3>1. 0 + 0 = 0 /\ Len(<<>>) = 0
            OBVIOUS
        <3>2. OnTheWay = 0
            BY <1>1, <3>1, Zenon DEF OnTheWay
        <3>3. Base = 0 + 0 /\ PacketsReceived = 0 + 0
            BY <1>3 DEF Base, PacketsReceived
        <3> QED BY <1>3, <3>1, <3>2, <3>3 DEF Total
    <2>2. \A s \in Sources : \A x : Owed(s, x) => x = 0
        BY <1>1, <1>3 DEF Owed, Current
    <2>3. 1 \in Sources /\ 2 \in Sources
        BY DEF Sources
    <2>4. ASSUME NEW x \in Int, NEW y \in Int, Owed(1, x), Owed(2, y) PROVE Base + x + y <= Total
        <3>1. x = 0 /\ y = 0
            BY <2>2, <2>3, <2>4
        <3> QED BY <2>1, <3>1
    <2> QED BY <1>3, <2>1, <2>4 DEF CountInv
<1>6. DialInv
    <2>1. Past(dtmfQ) = 0 /\ ~Begun(dtmfQ)
        <3>1. dtmfQ = <<>> /\ queued = 0 /\ Len(dtmfQ) = 0
            BY DEF StreamInit
        <3>2. Past(dtmfQ) = 0
            <4>1. queued = 0 /\ Len(dtmfQ) = 0 /\ 0 - 0 = 0
                BY <3>1
            <4> QED BY <4>1, Zenon DEF Past
        <3>3. ~Begun(dtmfQ)
            BY <3>1, Zenon DEF Begun
        <3> QED BY <3>2, <3>3
    <2>2. QueueInv(dtmfQ)
        BY <1>1, <1>2 DEF StreamInit, StreamTypeOK, QueueInv
    <2>3. \A s \in Sources : SentInv(dtmfQ, s) /\ ApartInv(s) /\ HeardInv(dtmfQ, s)
        BY <1>1, <2>1 DEF StreamInit, SentInv, ApartInv, HeardInv
    <2>4. AudioInv
        BY <1>1 DEF AudioInv
    <2> QED BY <2>2, <2>3, <2>4 DEF DialInv, EventInv
<1>7. DigitsOnceInOrder
    <2>1. PICK o : o = [k \in {} |-> k]
        OBVIOUS
    <2>3. o \in [{} -> {}]
        BY <2>1
    <2>2. arrived = {}
        BY DEF StreamInit
    <2> QED BY <1>1, <2>2, <2>3, Zenon DEF DigitsOnceInOrder
<1>8. TrafficInv
    BY <1>4, <1>5 DEF TrafficInv
<1> QED BY <1>2, <1>6, <1>7, <1>8 DEF StreamInv

\* Every step of the sender, of the network and of the receiver keeps it.
LEMMA StreamStep == StreamInv /\ [StreamNext]_streamVars => StreamInv'
<1> SUFFICES ASSUME StreamInv, [StreamNext]_streamVars PROVE StreamInv'
    OBVIOUS
<1>0. StreamTypeOK /\ TrafficInv /\ DialInv /\ DigitsOnceInOrder
    BY DEF StreamInv
<1>1. CASE SendDTMF
    <2>1. DigitsOnceInOrder'
        BY <1>0, <1>1 DEF SendDTMF, receiver, DigitsOnceInOrder
    <2> QED BY <1>0, <1>1, <2>1, SendDTMFStep DEF StreamInv
<1>2. CASE Tick
    <2>1. /\ ts < MaxTicks /\ ts' = ts + 1
          /\ UNCHANGED <<sends, ssrc, turns, queued, rx, lastEvTS, digits, arrived, strayed>>
        BY <1>2 DEF Tick, receiver
    <2>2. DigitsOnceInOrder'
        BY <1>0, <2>1 DEF DigitsOnceInOrder
    <2>3. CASE TickEvent
        BY <1>0, <2>1, <2>2, <2>3, TickEventStep DEF StreamInv
    <2>4. CASE TickAudio
        BY <1>0, <2>1, <2>2, <2>4, TickAudioStep DEF StreamInv
    <2>5. CASE UNCHANGED <<dtmfQ, net, seq, gone>>
        <3>1. TrafficInv' /\ DialInv'
            BY <1>0, <2>1, <2>5, NetUnchanged, DialUnchanged
        <3>2. ts' \in 0..MaxTicks
            BY <1>0, <2>1, StreamConstants DEF StreamTypeOK
        <3>3. StreamTypeOK'
            BY <1>0, <2>1, <2>5, <3>2 DEF StreamTypeOK, OnTheWay
        <3> QED BY <2>2, <3>1, <3>3 DEF StreamInv
    <2> QED BY <1>2, <2>3, <2>4, <2>5 DEF Tick
<1>3. CASE SetDirection
    <2>1. UNCHANGED <<ssrc, seq, ts, dtmfQ, queued, net, gone, rx, lastEvTS, digits, arrived, strayed>>
        BY <1>3 DEF SetDirection, receiver
    <2>2. TrafficInv' /\ DialInv'
        BY <1>0, <2>1, NetUnchanged, DialUnchanged
    <2>3. sends' \in BOOLEAN /\ turns' \in 0..MaxTurns
        BY <1>0, <1>3, StreamConstants DEF SetDirection, StreamTypeOK
    <2>4. StreamTypeOK'
        BY <1>0, <2>1, <2>3 DEF StreamTypeOK, OnTheWay
    <2>5. DigitsOnceInOrder'
        BY <1>0, <2>1 DEF DigitsOnceInOrder
    <2> QED BY <2>2, <2>4, <2>5 DEF StreamInv
<1>4. CASE NewSource
    <2>1. DigitsOnceInOrder'
        BY <1>0, <1>4 DEF NewSource, receiver, DigitsOnceInOrder
    <2> QED BY <1>0, <1>4, <2>1, NewSourceStep DEF StreamInv
<1>5. ASSUME NEW s \in Sources, NEW i \in DOMAIN net[s], ReceivePacket(s, i) PROVE StreamInv'
    <2>1. /\ MayOvertake(s, i) /\ net' = [net EXCEPT ![s] = RemoveAt(@, i)] /\ rx' = CountSeq(rx, net[s][i])
          /\ strayed' = (strayed \/ (rx.init /\ s < rx.ssrc))
          /\ UNCHANGED <<gone, sends, ssrc, seq, ts, dtmfQ, turns, queued>>
          /\ \/ net[s][i].digit # 0 /\ ReceiveDTMF(net[s][i])
             \/ net[s][i].digit = 0 /\ UNCHANGED <<digits, lastEvTS, arrived>>
        BY <1>5 DEF ReceivePacket, sender
    <2>2. TrafficInv'
        BY <1>0, <2>1, ReceiveCounts
    <2>3. DialInv'
        BY <1>0, <2>1, ReceiveDial
    <2>4. /\ DigitsOnceInOrder'
          /\ digits' \in Seq(0..15) /\ lastEvTS' \in -1..MaxTicks /\ arrived' \subseteq 1..Len(Dial)
        BY <1>0, <2>1, ReceiveDigits
    <2>5. net' \in [Sources -> Seq(Packet)] /\ OnTheWay' <= MaxFlight /\ rx' \in RxStats
        BY <1>0, <2>1, ReceiveTotal
    <2>6. strayed' \in BOOLEAN
        BY <1>0, <2>1 DEF StreamTypeOK
    <2>7. StreamTypeOK'
        BY <1>0, <2>1, <2>4, <2>5, <2>6 DEF StreamTypeOK
    <2> QED BY <2>2, <2>3, <2>4, <2>7 DEF StreamInv
<1>6. CASE UNCHANGED streamVars
    <2>1. /\ UNCHANGED <<ssrc, seq, ts, dtmfQ, queued, net, gone, rx, lastEvTS, digits, arrived, strayed>>
          /\ UNCHANGED <<sends, turns>>
        BY <1>6 DEF streamVars, sender, receiver
    <2>2. TrafficInv' /\ DialInv'
        BY <1>0, <2>1, NetUnchanged, DialUnchanged
    <2>3. StreamTypeOK'
        BY <1>0, <2>1 DEF StreamTypeOK, OnTheWay
    <2>4. DigitsOnceInOrder'
        BY <1>0, <2>1 DEF DigitsOnceInOrder
    <2> QED BY <2>2, <2>3, <2>4 DEF StreamInv
<1> QED BY <1>1, <1>2, <1>3, <1>4, <1>5, <1>6 DEF StreamNext

\* So it is an invariant of the stream.
LEMMA StreamInvariance == StreamSpec => []StreamInv
BY StreamStart, StreamStep, PTL DEF StreamSpec

\* Type correctness of the stream: none of the receiver's counters leaves its
\* width, for every number of digits, packets on the way and ticks.
THEOREM StreamTypeCorrect == StreamSpec => []StreamTypeOK
<1>1. StreamInv => StreamTypeOK
    BY DEF StreamInv
<1> QED BY <1>1, StreamInvariance, PTL

\* countSeq and statsLocked: the statistics blame the network for no more
\* packets than it lost or still has on the way, with packets of both sources
\* on the way when the receiver is connected to the second one, for every width
\* of the sequence number that is more than twice what can be missing at once.
\* The exception is the one the property states: a receiver to which a packet
\* of the former source came after one of the new.
THEOREM StreamLossNotOverstated == StreamSpec => []LossNotOverstated
<1>1. ASSUME StreamInv, ~strayed PROVE PacketsLost <= gone + OnTheWay
    <2>1. StreamTypeOK /\ CountInv
        BY <1>1 DEF StreamInv, TrafficInv
    <2>2. /\ Base \in Nat /\ PacketsReceived \in Nat /\ OnTheWay \in Nat /\ Total \in Nat
          /\ gone \in Nat /\ CountMod \in Nat /\ CountMod > 0
        BY <2>1, CountFacts, StreamConstants DEF StreamTypeOK
    <2>3. PacketsExpected = Base % CountMod
        BY DEF PacketsExpected, Base
    <2>4. PacketsExpected \in Nat /\ PacketsExpected <= Base
        BY <2>2, <2>3, SmallRemainder
    <2>5. Base <= PacketsReceived + OnTheWay + gone
        <3>1. Owed(1, 0) /\ Owed(2, 0)
            BY DEF Owed
        <3>2. Base + 0 + 0 <= Total
            BY <1>1, <2>1, <3>1 DEF CountInv
        <3>3. Base <= Total
            BY <2>2, <3>2
        <3> QED BY <3>3 DEF Total
    <2>6. PICK e \in Nat, b \in Nat, w \in Nat, n \in Nat, g \in Nat :
            /\ e = PacketsExpected /\ b = Base /\ w = PacketsReceived /\ n = OnTheWay /\ g = gone
            /\ e <= b /\ b <= w + n + g
        BY <2>2, <2>4, <2>5
    <2>7. (IF e > w THEN e - w ELSE 0) <= g + n
        BY <2>6
    <2> QED BY <2>6, <2>7 DEF PacketsLost
<1>2. StreamInv => LossNotOverstated
    BY <1>1 DEF LossNotOverstated
<1> QED BY <1>2, StreamInvariance, PTL

\* receiveDTMF: every digit of which a packet arrives is heard once and in the
\* order of dialling, for every number to dial and every length of an event.
THEOREM StreamDigitsOnceInOrder == StreamSpec => []DigitsOnceInOrder
<1>1. StreamInv => DigitsOnceInOrder
    BY DEF StreamInv
<1> QED BY <1>1, StreamInvariance, PTL
=============================================================================
