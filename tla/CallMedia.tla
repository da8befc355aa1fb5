------------------------------ MODULE CallMedia ------------------------------
(***************************************************************************)
(* The life of a call's RTP stream and of its recording: the stream in a   *)
(* shard of the scheduler, startMedia by the INVITE's goroutine, the       *)
(* ticker and readLoop, Close by the goroutine that ends the call, the     *)
(* script's waits on the stream, and the recording saved when the call     *)
(* ends or when an expectation fails.  Other streams of the shard only     *)
(* start and close.  What packets carry is in Stream.                      *)
(***************************************************************************)
EXTENDS Integers, Sequences, SequencesExt

CONSTANTS
    Call,         \* the stream of the call
    Others,       \* other streams in its shard
    heardFrames,  \* loud frames that make WaitHeard true
    Want,         \* expectDTMF's digits have come once this many have
    MaxSent,      \* bound: packets sent
    MaxHeard,     \* bound: loud frames received
    MaxDigits     \* bound: digits received

ASSUME MediaConstants ==
    /\ Call \notin Others
    /\ heardFrames \in Nat \ {0}
    /\ Want \in Nat \ {0}
    /\ MaxSent \in Nat /\ MaxHeard \in Nat /\ MaxDigits \in Nat

Streams == Others \cup {Call}

VARIABLES
    \* the streams and their shard
    started,      \* Stream.started; Stream.shard is set with it
    closing,      \* how far Close has come: "no", "closed" (the flag), "removed", "shut"
    list,         \* shard.streams and its copy shard.list
    batch,        \* what the ticker has still to tick of the list it loaded
    \* the call's stream
    sent,         \* Stream.sent
    heard,        \* Stream.heard
    heardCloses,  \* how often heardCh was closed
    numDigits,    \* how many digits have come
    digitSig,     \* the number of the current Stream.digitSig; earlier ones are closed
    reader,       \* readLoop: "read", a packet "audio" or "digit" in hand, "exit"
    final,        \* the statistics that Close returned
    \* the call
    mode,         \* Call.recMode and recDir
    state,        \* Call.state: "early", "connected", "ended"
    answered,     \* tAnswer is set
    byError,      \* endedBy is EndedByError
    failed,       \* Call.failed
    saved,        \* Call.saved
    saves,        \* how often autoSave wrote the recording
    invite,       \* the INVITE's goroutine: "before", "start", "done"
    fin,          \* the goroutine in finish
    script,       \* the script's goroutine
    waitSig,      \* the digitSig that WaitDigits holds
    dropped,      \* the call was answered and ended by an error
    rewritten     \* requestCancel changed endedBy of an ended call

shard == <<started, closing, list, batch>>
rtp == <<sent, heard, heardCloses, numDigits, digitSig, reader, final>>
record == <<mode, failed, saved, saves>>
ending == <<state, answered, byError, dropped, rewritten>>
pcs == <<invite, fin, script, waitSig>>
vars == <<shard, rtp, record, ending, pcs>>

\* useMedia; "off" also if nothing is to be saved automatically
RecordModes == {"off", "always", "onFailure"}

Stats == [sent : 0..MaxSent, heard : 0..MaxHeard, digits : 0..MaxDigits]

TypeOK ==
    /\ started \in [Streams -> BOOLEAN]
    /\ closing \in [Streams -> {"no", "closed", "removed", "shut"}]
    /\ list \in Seq(Streams) /\ batch \in Seq(Streams)
    /\ sent \in 0..MaxSent /\ heard \in 0..MaxHeard /\ heardCloses \in 0..1
    /\ numDigits \in 0..MaxDigits /\ digitSig \in 0..MaxDigits
    /\ reader \in {"read", "audio", "digit", "exit"}
    /\ final \in Stats
    /\ mode \in RecordModes
    /\ failed \in BOOLEAN /\ saved \in BOOLEAN /\ saves \in Nat
    /\ state \in {"early", "connected", "ended"}
    /\ answered \in BOOLEAN /\ byError \in BOOLEAN
    /\ dropped \in BOOLEAN /\ rewritten \in BOOLEAN
    /\ invite \in {"before", "start", "done"}
    /\ fin \in {"none", "close", "save", "write", "done"}
    /\ script \in {"idle", "cancel", "scan", "sleep", "check", "save", "write"}
    /\ waitSig \in 0..MaxDigits

Zero == [sent |-> 0, heard |-> 0, digits |-> 0]

Init ==
    /\ started = [s \in Streams |-> FALSE]
    /\ closing = [s \in Streams |-> "no"]
    /\ list = <<>> /\ batch = <<>>
    /\ sent = 0 /\ heard = 0 /\ heardCloses = 0
    /\ numDigits = 0 /\ digitSig = 0
    /\ reader = "read"
    /\ final = Zero
    /\ mode \in RecordModes
    /\ failed = FALSE /\ saved = FALSE /\ saves = 0
    /\ state = "early" /\ answered = FALSE /\ byError = FALSE
    /\ dropped = FALSE /\ rewritten = FALSE
    /\ invite = "before" /\ fin = "none" /\ script = "idle"
    /\ waitSig = 0
-----------------------------------------------------------------------------
(* Start and Close of a stream, and the shard it is in *)

\* Scheduler.add makes a new copy of the list
Add(s) == list' = Append(list, s)

\* A plausible slip: Start does not look whether the stream was closed.
StartEvenIfClosed(s) ==
    /\ started' = [started EXCEPT ![s] = TRUE]
    /\ list' = IF started[s] THEN list ELSE Append(list, s)
    /\ UNCHANGED <<closing, batch>>

\* Stream.Start, which adds the stream to the shard under its lock
Start(s) ==
    \/ /\ ~started[s] /\ closing[s] = "no"
       /\ started' = [started EXCEPT ![s] = TRUE]
       /\ Add(s)
       /\ UNCHANGED <<closing, batch>>
    \/ /\ started[s] \/ closing[s] # "no"
       /\ UNCHANGED shard

\* The critical section of Stream.Close
Close(s) ==
    /\ closing[s] = "no"
    /\ closing' = [closing EXCEPT ![s] = "closed"]
    /\ UNCHANGED <<started, list, batch>>

\* shard.remove takes out the first entry of the stream, if there is one
RemoveStream(s) ==
    IF Contains(list, s)
      THEN \E i \in 1..Len(list) :
              /\ list[i] = s
              /\ \A j \in 1..(i - 1) : list[j] # s
              /\ list' = RemoveAt(list, i)
      ELSE UNCHANGED list

\* ... called for a stream that was added to a shard
Leave(s) ==
    /\ closing[s] = "closed"
    /\ closing' = [closing EXCEPT ![s] = "removed"]
    /\ IF started[s] THEN RemoveStream(s) ELSE UNCHANGED list
    /\ UNCHANGED <<started, batch>>

\* conn.Close
Shut(s) ==
    /\ closing[s] = "removed"
    /\ closing' = [closing EXCEPT ![s] = "shut"]
    /\ UNCHANGED <<started, list, batch>>

OtherStream(s) ==
    /\ Start(s) \/ Close(s) \/ Leave(s) \/ Shut(s)
    /\ UNCHANGED <<rtp, record, ending, pcs>>

\* shard.run: the ticker loads the list and goes through it, whatever is
\* added or removed meanwhile
TickerFires ==
    /\ batch = <<>>
    /\ list # <<>>
    /\ batch' = list
    /\ UNCHANGED <<started, closing, list, rtp, record, ending, pcs>>

\* Stream.tick of the next stream: a closed one sends nothing, nor does one
\* whose direction or peer does not allow it
TickNext ==
    /\ batch # <<>>
    /\ batch' = Tail(batch)
    /\ \/ /\ Head(batch) = Call
          /\ closing[Call] = "no"
          /\ sent < MaxSent
          /\ sent' = sent + 1
       \/ UNCHANGED sent
    /\ UNCHANGED <<started, closing, list, heard, heardCloses, numDigits, digitSig, reader, final>>
    /\ UNCHANGED <<record, ending, pcs>>
-----------------------------------------------------------------------------
(* readLoop *)

\* ReadFromUDP returns a packet, or an error once the socket is closed
Read ==
    /\ reader = "read"
    /\ \/ /\ closing[Call] # "shut"
          /\ reader' \in {"audio", "digit"}
       \/ /\ closing[Call] = "shut"
          /\ reader' = "exit"
    /\ UNCHANGED <<sent, heard, heardCloses, numDigits, digitSig, final>>
    /\ UNCHANGED <<shard, record, ending, pcs>>

\* audioFrame of a loud frame
AudioFrame ==
    /\ heard < MaxHeard
    /\ heard' = heard + 1
    /\ heardCloses' = IF heard' = heardFrames THEN heardCloses + 1 ELSE heardCloses
    /\ UNCHANGED <<numDigits, digitSig>>

\* A plausible slip: only the first digit wakes the waiters.
NewDigitWakesOnce ==
    /\ numDigits < MaxDigits
    /\ numDigits' = numDigits + 1
    /\ digitSig' = IF numDigits = 0 THEN digitSig + 1 ELSE digitSig
    /\ UNCHANGED <<heard, heardCloses>>

\* The end of receiveDTMF: digitSig is closed and replaced
NewDigit ==
    /\ numDigits < MaxDigits
    /\ numDigits' = numDigits + 1
    /\ digitSig' = digitSig + 1
    /\ UNCHANGED <<heard, heardCloses>>

\* A plausible slip: a packet that was read before the end is still counted.
Countable == TRUE

\* receive drops what it gets after Close
Counted == closing[Call] = "no"

\* receive; a packet without audio above the level or without a new digit
\* changes nothing here
Receive ==
    /\ reader \in {"audio", "digit"}
    /\ \/ Counted /\ reader = "audio" /\ AudioFrame
       \/ Counted /\ reader = "digit" /\ NewDigit
       \/ UNCHANGED <<heard, heardCloses, numDigits, digitSig>>
    /\ reader' = "read"
    /\ UNCHANGED <<sent, final>>
    /\ UNCHANGED <<shard, record, ending, pcs>>
-----------------------------------------------------------------------------
(* autoSave, by the goroutine that ends the call and by MarkFailed *)

Wanted(error) == mode = "always" \/ (mode = "onFailure" /\ (failed \/ error))

\* A plausible slip: whether to save is not decided once.
DecideToSaveAgain(yes, no) ==
    \/ Wanted(byError /\ answered) /\ saved' = TRUE /\ yes
    \/ ~Wanted(byError /\ answered) /\ UNCHANGED saved /\ no

\* The critical section: claim the recording, or leave it
DecideToSave(yes, no) ==
    LET save == Wanted(byError /\ answered) /\ ~saved /\ state = "ended" IN
    \/ save /\ saved' = TRUE /\ yes
    \/ ~save /\ UNCHANGED saved /\ no

\* SaveRecording; an error is logged and not tried again
Write ==
    /\ saves' = saves + 1
    /\ UNCHANGED <<mode, failed, saved>>
-----------------------------------------------------------------------------
(* The call: markConnected, startMedia, finish *)

Connect ==
    /\ invite = "before"
    /\ invite' = "start"
    /\ \/ /\ state = "early"
          /\ state' = "connected" /\ answered' = TRUE
       \/ /\ state = "ended"
          /\ UNCHANGED <<state, answered>>
    /\ UNCHANGED <<byError, dropped, rewritten, fin, script, waitSig>>
    /\ UNCHANGED <<shard, rtp, record>>

StartMedia ==
    /\ invite = "start"
    /\ invite' = "done"
    /\ Start(Call)
    /\ UNCHANGED <<fin, script, waitSig>>
    /\ UNCHANGED <<rtp, record, ending>>

\* finish passes its guard (CallCore)
Finish ==
    /\ state # "ended"
    /\ state' = "ended"
    /\ byError' \in BOOLEAN
    /\ dropped' = (byError' /\ answered)
    /\ fin' = "close"
    /\ UNCHANGED <<answered, rewritten, invite, script, waitSig>>
    /\ UNCHANGED <<shard, rtp, record>>

\* closeMedia calls Close, in three steps, and takes the statistics, which the
\* Media event of an answered call reports
CloseMedia ==
    /\ fin = "close"
    /\ \/ /\ Close(Call)
          /\ final' = [sent |-> sent, heard |-> heard, digits |-> numDigits]
          /\ UNCHANGED fin
       \/ /\ Leave(Call)
          /\ UNCHANGED <<final, fin>>
       \/ /\ Shut(Call)
          /\ fin' = "save"
          /\ UNCHANGED final
    /\ UNCHANGED <<sent, heard, heardCloses, numDigits, digitSig, reader, invite, script, waitSig>>
    /\ UNCHANGED <<record, ending>>

FinishSaves ==
    /\ fin = "save"
    /\ DecideToSave(fin' = "write", fin' = "done")
    /\ UNCHANGED <<mode, failed, saves, invite, script, waitSig>>
    /\ UNCHANGED <<shard, rtp, ending>>

FinishWrites ==
    /\ fin = "write"
    /\ Write
    /\ fin' = "done"
    /\ UNCHANGED <<invite, script, waitSig>>
    /\ UNCHANGED <<shard, rtp, ending>>
-----------------------------------------------------------------------------
(* The script: one call at a time *)

\* Hangup of an outgoing call reads its state
HangupStart ==
    /\ script = "idle"
    /\ state = "early"
    /\ script' = "cancel"
    /\ UNCHANGED <<invite, fin, waitSig>>
    /\ UNCHANGED <<shard, rtp, record, ending>>

\* ... and requestCancel sets endedBy, whatever the call has become.  That
\* Hangup then waits for the end is in CallCore.
RequestCancel ==
    /\ script = "cancel"
    /\ script' = "idle"
    /\ byError' = FALSE
    /\ rewritten' = (rewritten \/ state = "ended")
    /\ UNCHANGED <<state, answered, dropped, invite, fin, waitSig>>
    /\ UNCHANGED <<shard, rtp, record>>

ExpectDTMF ==
    /\ script = "idle"
    /\ script' = "scan"
    /\ UNCHANGED <<invite, fin, waitSig>>
    /\ UNCHANGED <<shard, rtp, record, ending>>

\* WaitDigits takes the digits and the signal together
Scan ==
    /\ script = "scan"
    /\ \/ /\ numDigits >= Want
          /\ script' = "idle"
          /\ UNCHANGED waitSig
       \/ /\ numDigits < Want
          /\ script' = "sleep"
          /\ waitSig' = digitSig
    /\ UNCHANGED <<invite, fin>>
    /\ UNCHANGED <<shard, rtp, record, ending>>

\* The signal it holds was closed
Wake ==
    /\ script = "sleep"
    /\ waitSig < digitSig
    /\ script' = "scan"
    /\ waitSig' = 0
    /\ UNCHANGED <<invite, fin>>
    /\ UNCHANGED <<shard, rtp, record, ending>>

\* The deadline of WaitDigits, or another expectation that fails: MarkFailed
MarkFailed ==
    /\ script \in {"idle", "sleep"}
    /\ script' = "check"
    /\ failed' = TRUE
    /\ waitSig' = 0
    /\ UNCHANGED <<mode, saved, saves, invite, fin>>
    /\ UNCHANGED <<shard, rtp, ending>>

\* if c.State() == StateEnded
MarkChecks ==
    /\ script = "check"
    /\ script' = IF state = "ended" THEN "save" ELSE "idle"
    /\ UNCHANGED <<invite, fin, waitSig>>
    /\ UNCHANGED <<shard, rtp, record, ending>>

MarkSaves ==
    /\ script = "save"
    /\ DecideToSave(script' = "write", script' = "idle")
    /\ UNCHANGED <<mode, failed, saves, invite, fin, waitSig>>
    /\ UNCHANGED <<shard, rtp, ending>>

MarkWrites ==
    /\ script = "write"
    /\ Write
    /\ script' = "idle"
    /\ UNCHANGED <<invite, fin, waitSig>>
    /\ UNCHANGED <<shard, rtp, ending>>
-----------------------------------------------------------------------------
Next ==
    \/ \E s \in Others : OtherStream(s)
    \/ TickerFires \/ TickNext
    \/ Read \/ Receive
    \/ Connect \/ StartMedia
    \/ Finish \/ CloseMedia \/ FinishSaves \/ FinishWrites
    \/ HangupStart \/ RequestCancel
    \/ ExpectDTMF \/ Scan \/ Wake
    \/ MarkFailed \/ MarkChecks \/ MarkSaves \/ MarkWrites

Spec == Init /\ [][Next]_vars
-----------------------------------------------------------------------------
(* Properties *)

\* When the call has ended and neither finish nor MarkFailed is under way, its
\* recording has been saved exactly once if the mode asks for it (always, or
\* an expectation failed or the answered call was dropped by an error) and not
\* at all otherwise, whether the expectation failed before, while or after
\* the call ended.  A Hangup that rewrites endedBy too late is excepted.
SavedIfWanted ==
    fin = "done" /\ script \in {"idle", "cancel", "scan", "sleep"} /\ ~rewritten =>
        saves = IF Wanted(dropped) THEN 1 ELSE 0

\* The statistics that Close returned, and the Media event reports, are the
\* final ones: neither a tick of a list loaded before the end nor a packet
\* read before it changes a counter afterwards.
StatsAreFinal ==
    closing[Call] # "no" => final = [sent |-> sent, heard |-> heard, digits |-> numDigits]

\* The shard has each stream that is sending once, whatever other streams do,
\* and no stream any more whose Close is past the removal, even if startMedia
\* came after it.
SchedulerHolds ==
    /\ IsInjective(list)
    /\ \A s \in Streams :
        /\ started[s] /\ closing[s] = "no" => Contains(list, s)
        /\ closing[s] \in {"removed", "shut"} => ~Contains(list, s)

\* No expectDTMF sleeps on an open signal although its digits have come.
NoLostDigit == script = "sleep" /\ waitSig = digitSig => numDigits < Want
=============================================================================
