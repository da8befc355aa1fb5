# xk6-sip: a TLA+ model of the SIP engine

xk6-sip lets k6 scripts act as SIP subscribers: a script registers devices, places and
answers calls, transfers them and sends media. The engine behind it is a concurrent Go program:
every call is driven by several goroutines (INVITE handler, BYE handler, timers, the script,
`Destroy`) that meet in a handful of short critical sections and Go channels. These modules model
that concurrency; paths are relative to the repository's root (`engine/call.go` and so on).

## Inventory

| Part | State | Operations | Interacts with | What is hard | What makes it correct |
|---|---|---|---|---|---|
| `engine.Call` (`engine/call.go`) | state, status, endedBy, times, channels ringing/connected/done | markRinging, markConnected, finish, Hangup, bye, decide, Expect* | all goroutines of the call, `Device.calls`, media, observer | five kinds of goroutine race to end a call; Hangup acts on a state it read earlier | ended once, cleaned up, reported once, waiters woken last |
| Outgoing INVITE (`engine/uac.go`, `runOutgoing`) | locals of `run`, u.invite/u.tx, CANCEL goroutine | send, select loop, auth and 422 retries, CANCEL, ACK | peer, Call | 200 against CANCEL, CANCEL before a 1xx, retry while cancelling, silent peer | CANCEL names the pending INVITE; no orphan dialog; the call settles |
| Incoming INVITE (`Device.onInvite`, `Call.answer`) | decision channel, server transaction | ring, deliver, select, answer | caller, script, Destroy | several cases of one select ready at once; BYE before markConnected | always a final response; connected means confirmed |
| Inbox (`deliver`, `ExpectCall`) | inbox, inSignal | deliver, scan, wait | onInvite, many script goroutines | lost wake-ups, double claims | each call claimed at most once, no waiter sleeps on a match |
| Device (`engine/device.go`) | started, ctx, startMu, regTimer, registered, calls | Start, Register, refresh, Destroy | registrar, calls, limiter, followRefer | refreshes of an earlier life of the device; a start by followRefer; Destroy against everything | the refresh chain never breaks; one socket; Destroy closes; silence afterwards |
| Session timer (`engine/timers.go`) | sess, timer | start, refresh, expire, stop | Call, re-INVITE | refresh that completes after the end | no timer on a dead call |
| Re-INVITE, hold, UPDATE (`engine/dialog.go`, `onReInvite`) | reinviteMu, localHold, direction | hold, reinvite, onReInvite, onUpdate | peer, session timer | glare | one exchange at a time; refresh restarts the timer |
| Transfer (`engine/transfer.go`) | transferProgress, replaces | refer, onNotify, onRefer, followRefer | two calls, peer | NOTIFY order, a destroyed device | the final status stays |
| PRACK (`engine/prack.go`) | lastRSeq, u.res, prack channel | maybePRACK, ringReliably, onPrack | INVITE transactions | retransmissions against answer, end and lost PRACKs; a forked INVITE | a 180 acknowledged once; the repetition ends |
| Media (`media/`, `engine/callmedia.go`, `jsmedia.go`) | stream, DTMF queue, counters | tick, receive, SendDTMF, Close | scheduler, Call | close against tick and receive, 16-bit wrap | digits once and in order |
| Test PBX (`testpbx/`) | bindings, nonces, legs, orphans | onRegister, onInvite, onBye, blind, attended | everything, as the peer | transfer against hang-up and against another transfer | no leg is forgotten; the maps match the dialogs |
| Adapters (`module.go`, `js*.go`, `metrics.go`, `exporter.go`) | VU state, metrics | argument conversion, metrics | k6 | glue | counters match calls |

The hazards that follow from this table are listed one by one, with their source lines and the
properties that would notice them, in `PROJECT.json`.

## Modules

```
CallState      the call behind its mutex: one operator per critical section
  CallCore     goroutines common to both directions: finish, bye, Hangup, onBye,
               session timer, Replaces          (refines CallLifecycle)
    OutgoingCall   uacDialog.run, runOutgoing, CANCEL
    IncomingCall   onInvite, decision channel, answer
CallLifecycle  the abstract promise of a call
Inbox          deliver and ExpectCall
Device         Start (script and followRefer), register, refresh timer, Destroy
Reinvite       hold, unhold, session refresh and glare between two ends
Transfer       REFER, NOTIFY and followRefer between two ends
Prack          reliable 180s and their PRACKs, with a forked INVITE
Bridge         the bridges of the test PBX: answer, hang-up, transfers
Stream         RTP and DTMF from one stream to another over a lossy network
CallMedia      the life of a call's stream in the scheduler, and its recording
MCInbox, MCStream   constant definitions for TLC
CallCoreProofs      lemmas about the steps both kinds of call share
OutgoingCallProofs, IncomingCallProofs, DeviceProofs, BridgeProofs
                    the theorems about these modules
InboxTransferProofs, PrackReinviteProofs, MediaProofs
                    the theorems about two modules each (MediaProofs: CallMedia and Stream)
```

Where two modules share a file of proofs, one of them has its own prefix (`InboxInit`, `PrackSpec`,
`StreamTypeOK`); they share no state.

**CallState.** A call is a record with the fields behind `Call.mu`. `MarkRinging`,
`MarkConnected` and `FinishLocked` map a call to the call after the function's critical section.
Channels are `open`, `closed` or `panic`: the last is the second `close`, so that a Go panic is a
state an invariant can exclude.

**CallCore.** `pc[t]` says where goroutine `t` stands between two critical sections. `finish` is
four steps: the guarded critical section (`Finish`), `stopSession` and `removeCall`
(`FinishDetach`), `closeMedia` and the CallEnd event (`FinishReport`), `close(done)`
(`FinishWake`). `Hangup` is: read the state (`HangupStart`), ask for CANCEL or rejection (in the two
extending modules), wait (`HangupWait`), perhaps `bye`. `dialog` is the peer's view of the dialog.

**OutgoingCall.** One action per case of the `select` in `uacDialog.run` and per case of its `switch`
on a response; 401 stands for 401 and 407, 486 for every other refusal, 180 for every 1xx above
100. `cancelGo` is the goroutine of `uacDialog.cancel`, which reads `u.invite` when it gets to run.
`resps` is the queue of responses, `peer` the peer's server transaction. `TxDone` may happen at any time
(transport error, context, timer B).

**IncomingCall.** `InviteUnreadable`, `InviteRefused` and `InviteArrives` are the ways `onInvite`
begins; `Ring` and `Deliver` lead to the select, whose four cases are `TakeDecision`, `Cancelled`,
`RingTimeout` and `DeviceGone`. `Answer` writes the 200; `WriteResponse` returns when
the ACK arrives (`AckArrives`) or fails (`AckTimeout`); `Mark` and `StartMedia` are what follows.
`final` is the final response of the INVITE's server transaction, which the SIP library fills with
487 when a CANCEL arrives.

**Inbox.** `delivered` is the sequence of the calls that came in, `inbox` the positions in it that
`Device.inbox` still holds, in that order. Signal channels are numbered; all but the current one are closed. `Scan`
is one critical section of `inMu`: it drops the ended calls and takes the first that matches. Number matching is the
constant `Wanted`.

**Device.** Contexts, and the sockets opened with them, are numbered by `gen`, so that a timer callback holding
the context of an earlier life can be told from one of the current life; `live` are the contexts that are not
cancelled. `register` is a procedure (`Limit`, `Send`, registrar, `Reply`) run by the script, by followRefer and by
refresh goroutines at once; `startMu` is held from `Start` to `StartDone` and from `Destroy` to `DestroyDone`, but not
by a refresh or the script's `register()`. A start of a device that is started already changes nothing
and is no step. `sip.shutdown()` calls the same `Destroy` for every device. The un-REGISTER of `Destroy` has a
deadline of 5 s, which is why the limiter may refuse it. Whether there is a limiter and whether `Start` registers are
chosen in `Init`. `bound` is the registrar's binding. A request that its sender has given up does not arrive
later. Calls are left out: that every Hangup returns, on which `Destroy` relies, is part of
`CallSettles`, checked for outgoing and for incoming calls.

**Reinvite.** The two ends A and B of a call both run this code. `mu` is `reinviteMu`, held by the
script's goroutine or the refresh from `Lock` to the end of the exchange, back-off included;
`OnReInvite` is the handler of the other end, which tries that end's lock. The SDP is its direction:
`Offer`, `ApplyAnswer` and `Update` are what the stream makes of it. `Timeout` loses whatever is
on the way; `lost` remembers that this was a 200, and that a later exchange has completed since. A refresh that
is still waiting for its response when the next one would fire is the only one at its end.

**Transfer.** Both ends run `engine/transfer.go`. REFERs of a call are numbered; `xfer` is the one whose
`transferProgress` the transferor follows. `OnRefer` starts `followRefer`, whose steps are `TryingDone`,
`Call`, `Dialled` and `Report`. `onNotify` answers before it looks at the request, so `notify[k][i]`
may be handled at any time after it was sent, later than the next one, or never. The new call is reduced to its
outcome.

**Prack.** One INVITE reaches several endpoints, each of which runs `ringReliably`; `ringer` is its goroutine. A goroutine
blocked in a `select` is moved by whoever makes a case ready (`Wake`), one that is in the middle of a retransmission
looks at the cases when it is back. `Ringing` is the provisional case of `uacDialog.run` with `maybePRACK`; `acking`
are the goroutines it started, which use the dialog `res` of the moment they run. `net` is a set: what is in it may
arrive again, later than anything sent after it, or be lost.

**Bridge.** Legs are numbered as they are made, a bridge is the pair of its legs. `onInvite`, `onBye` and the goroutine of
`onRefer` are split at every call to an endpoint and at every critical section of `PBX.mu`, and keep in their
variables (`byeBr`, `move`) the bridge they found. `end` is the dialog as the endpoint sees it. An
attended transfer may name any call of the PBX, also the one it came from. `acked` are the legs whose dialog the PBX holds
confirmed. The caller's leg becomes so in `OnAck`, which needs to find it in the maps: once another handler has
unlinked it, `onAck` discards the ACK, `WriteResponse` fails, and a `leg.bye` to the caller, which waits for the ACK, gives up
after 10 s. That needs no lost message and marks nothing as lost. `lost` and `raced` only serve the
properties: legs of which a BYE or ACK did not get through, and legs that two handlers had in their hands at once.

**Stream.** `Tick` is `Stream.tick` with the queue of DTMF events, `ReceivePacket` is `receive` with `countSeq` and
`receiveDTMF`. The network loses packets (at the time they are sent, which is the same as later; a packet to a
closed stream is a lost one) and lets one overtake packets sent up to `MaxLate` before it.
`arrived` remembers which digits the receiver could know of. The source changes at most once, before
dialling, and packets of the first one may then still be on the way: `net` has a sequence for each source, and between the
two the network keeps no order. A packet of the former source that comes after one of the new makes `countSeq`
begin anew with the former, and again with the next packet of the new. `strayed` remembers, for the property, that this
has happened.

**CallMedia.** The stream of one call, in a shard with others that only start and close. `closing` is how far
`Close` has come (flag, removal from the shard, socket), `batch` what the ticker has left of the list it loaded.
`fin` is the goroutine in `finish`, `script` the script, which hangs up, waits in `expectDTMF` and
marks the call as failed; both run `autoSave`, whose critical section is `DecideToSave`.
Received digits are counted: that the digits contain the wanted ones, once true, stays true.

Definitions whose name is followed by a remark beginning "A plausible slip" are deliberate
distortions of the definition after them; a run with the distortion in place violates the property
it is paired with in `PROJECT.json`, which shows that the property can fail.

## Runs

| Run | Question | Instance |
|---|---|---|
| `outgoing` | Is an outgoing call ended once, cleaned up, reported, without orphan dialog or stray CANCEL; does it refine CallLifecycle; does it settle with a silent peer, does every Hangup return, and every BYE end the call, also one that fails? | 1 Hangup, credentials, 2 responses in flight |
| `incoming` | Is every INVITE answered, connected only when confirmed, without orphan dialog; does a ringing call end when the script never decides; does every Hangup return, and every BYE end the call? | 1 Hangup, 2 decisions |
| `inbox` | Lost calls, double claims, lost wake-ups | 3 calls, 3 waiters with overlapping wishes |
| `device` | Do the refresh chain and the binding survive failures, overlapping registers and restarts; is there never a second socket, also when followRefer starts the device; does Destroy finish, and is there silence afterwards? | 3 lives, 2 refresh goroutines, script and followRefer, with and without limiter and automatic registration |
| `reinvite` | Do both ends agree on the direction after glare, refusals, retries and, once another exchange completes, a lost 200; is a hold reported as one; does every hold() return? | 3 hold or unhold calls at either end, any number of refreshes |
| `transfer` | Is success only reported for an answered call, and is every accepted REFER reported on? | 2 REFERs |
| `stream` | Is each digit received once and in order, and is loss never overstated, with loss, reordering, hold, a wrap of the sequence number, and another source while packets of the first are on the way? | 2 equal digits, 11 ticks, 2 losses, 3 packets on the way |
| `media` | Is the recording saved exactly once if it should be; are the statistics of Close final; does the shard hold just the live streams; is no expectDTMF left asleep? | 2 streams, 2 digits, each recording mode |
| `prack` | Is a 180 acknowledged once and within a dialog, is there at most one 180 too many, does the repetition end, and is Call.prack closed once? | 2 forked endpoints |
| `bridge` | Does the PBX forget no leg it held confirmed however handlers overlap, and do its maps match the dialogs where they do not? | 5 legs, 2 BYEs or REFERs, 1 lost BYE or ACK |

Two more runs show where documentation or a comment and the code disagree. Each checks one
property and finds it violated:

| Run | The text | The code |
|---|---|---|
| `outgoing_AnsweredMinusEnded` | metrics.md: "`answered − ended` is the number of calls in progress" | a BYE handled between the CallSetup event and markConnected: answered without ended |
| `transfer_SuccessIsReported` | transfer.go: ExpectTransferred waits for the final NOTIFY and reports success | the handler of the provisional NOTIFY updates after that of the final one: `false` for a transfer that succeeded |

More things follow from the order of the code's steps and are worth knowing:

* a `Hangup` that finds `StateEnded` returns true while the goroutine that ended the call may still have
  its CallEnd to report (`engine/call.go:284` against `:223`);
* `hangup()` returns false for a call that has ended when both sides hang up and our BYE gets 481
  (`engine/call.go:338`; hangup.md: "`true` if the call is ended");
* `accept()` may return true without a 200 being sent, when another case of the select wins or the
  decision is a second one (`engine/call.go:272`; accept.md: "`true` if the answer was sent");
* an incoming call whose BYE is handled between ACK and `markConnected` ends with status 0
  (`engine/call.go:243`);
* a Hangup that read the state earlier rewrites `endedBy` of an ended call to `local`
  (`engine/call.go:443`); with `record: 'onFailure'` a call dropped by an error is then not saved, which is
  why `SavedIfWanted` excepts it;
* a call accepted through Replaces after `Destroy` took its list of calls is not hung up
  (`engine/device.go:313`);
* the limiter may refuse the un-REGISTER of `Destroy`, and the binding stays (`engine/device.go:345`;
  destroy.md: "unregisters it");
* a side that the other one holds and that refreshes the session reports a hold of its own afterwards:
  `localHold` follows the direction of any accepted re-INVITE (`engine/dialog.go:132`; isonhold.md: "Reports
  whether this side put the call on hold with `hold()`"). The other direction holds and is `HoldIsReported`;
* `lastRSeq` belongs to the call, not to a dialog, and stays when the INVITE is sent again: the reliable 180 of a
  second forked endpoint, or of the second INVITE, which is also numbered 1, gets no PRACK
  (`engine/prack.go:42`; `device/_index.md`: "Reliable 18x responses from the PBX are always acknowledged
  with PRACK"), and its sender repeats it until its deadline;
* a reliable 180 may follow the 200 until the ACK has arrived (`engine/prack.go:103` looks for
  `StateConnected`);
* in the test PBX, a callee that hangs up before the caller's ACK is handled leaves the caller in a dialog the PBX does not
  know, with no message lost: `onBye` unlinks both legs (`testpbx/calls.go:312`), `onAck` finds no leg and discards the ACK
  (`:293`), `leg.bye` waits for it and gives up after 10 s, and the caller's own BYE gets 481. A transfer that takes
  the caller's leg out before its ACK has the same effect. It is the exception `NoLegForgotten` names: the leg
  is raced and was never confirmed;
* `rtp_packets_lost` counts packets that arrived, when a packet of the source of early media comes after the first of
  the source that replaced it: `countSeq` begins anew with each change of the SSRC and keeps what it expected before
  (`media/stream.go:537`; metrics.md: "RTP packets lost, from sequence numbers (RFC 3550)"). It is the exception
  `LossNotOverstated` names (`strayed`);
* in the test PBX, a BYE that looked up its bridge before a transfer moved the leg unlinks the new bridge and hangs up
  the leg the transfer had removed (`testpbx/calls.go:312`); then, and when two transfers meet, a leg can outlive
  the one it talks to. That is why `BridgeWhole` excepts `raced`. An attended transfer whose second re-INVITE
  fails does not take back the first (`testpbx/calls.go:403`);
* overlapping REGISTERs (a refresh and `register()`) may repeat a CSeq (`engine/device.go:371`);
* a session refresh that crosses the peer's re-INVITE gets 491 and hangs up (`engine/timers.go:95`), while
  `hold()` tries again.

**Bounds.** A call has one INVITE goroutine, one BYE handler, one session timer and at most one
Replaces in the code as in the model; only the number of Hangups, of decisions and of unread
responses is bounded. The theorems below hold for
any values of these bounds, and of those of all other modules. Two unread responses suffice for a provisional and a final one to wait together. Two decisions
cover a second accept or reject after the first was taken. Three lives of a device and two refresh
goroutines let refreshes of two earlier lives run in the third, and followRefer start the device between two starts
of the script. Three holds let
both ends hold, one of them twice, around each other's refreshes. Two REFERs let a NOTIFY of the first
arrive during the second. In Prack every endpoint has one reliable response, as in the code; the second endpoint is the
fork. Five legs in Bridge are two calls and the new leg of a transfer, and two requests let a BYE meet a transfer, or
two transfers or two BYEs each other. In Stream, sequence numbers wrap at 16 and start at 14, so that they wrap within the
11 ticks that two equal digits of one packet each, with their three ends and the pauses between them,
need; the source changes within the first three ticks, so that packets of both meet; a packet may be overtaken by those of 3 ticks, as many as the pause of an
event has (`MaxLate <= Gap` is assumed: with 4, TLC finds that the late end of a digit is taken for a new
one). `MaxLoss + MaxFlight < Seq16 / 2` says that the receiver is never half a cycle behind, which 2^16 numbers
guarantee in practice. In CallMedia the second loud frame is the one after `heardCh` was closed, and the second
digit the one `expectDTMF` waits for.

**Types.** Every module has its `TypeOK`. All of them are proved; those of Transfer and Prack are also part of their
runs, since a channel closed twice shows there.

**Deadlock** is not checked: a call that has ended, a peer that is silent and a script
that does nothing more are legitimate ends.

**Fairness.** Weak fairness for the goroutines' own steps (the Go scheduler runs them), for timers
(no-answer, CANCEL wait, ring timeout, BYE timeout, refresh) and for timer B while no response came.
The two timer cases of `run`'s select have fairness of their own, since Go's select
chooses at random among ready cases and a peer cannot send provisional responses so densely that a
ready timer loses for ever. `reinviteMu` is a Go mutex, which hands itself over to a waiter after
1 ms, hence strong fairness of `Lock`; Transfer has weak fairness for the steps of `followRefer`, each of
which the code bounds by a timeout; `HoldReturns` does without fairness of the timeout; Prack has it for the
retransmitting goroutine and its deadline. Nothing is assumed of the peer, of the network or of the script.

## Proofs

Each theorem holds for every value of the constants: any number of Hangups, decisions, waiters, refresh goroutines, lives,
holds, REFERs, forked endpoints, legs, lost messages, other streams, frames, digits and packets on the way, and any
width of sequence numbers and counters.

| Module | Theorems |
|---|---|
| `OutgoingCallProofs` | `TypeCorrect`, `NeverPanics` (NoDoubleClose), `EndsOnce` (OneFinisher), `CleansUp` (DoneMeansCleanedUp), `CancelDiscipline` (CancelNamesPendingInvite), `RefinesLifecycle` (KeepsLifecycle), `LeavesNoDialog` (NoOrphanDialog), `TrueHangupIsEnd` (HangupTrueMeansOver), `CancelledCallEnds` (CancelEndsCall), `EveryInviteReported` (InvitesReported) |
| `IncomingCallProofs` | `TypeCorrect`, `NeverPanics`, `EndsOnce`, `CleansUp`, `RefinesLifecycle`, `AlwaysAnswered` (InviteAnswered), `AnsweredIsConfirmed` (ConnectedMeansConfirmed), `LeavesNoDialog`, `TrueHangupIsEnd` |
| `InboxTransferProofs` | `InboxTypeCorrect`, `InboxExactlyOnce`, `InboxNoLostWakeup`; `TransferTypeCorrect`, `TransferTrueMeansConnected` |
| `DeviceProofs` | `DeviceTypeCorrect`, `DeviceOneSocket`, `DeviceRefreshChain`, `DeviceStartedIsBound` |
| `PrackReinviteProofs` | `PrackTypeCorrect`, `PrackAcksOnce`, `PrackLateRinging`; `ReinviteTypeCorrect`, `ReinviteAgreement`, `ReinviteHoldIsReported` |
| `MediaProofs` | `MediaTypeCorrect`, `MediaSavedIfWanted`, `MediaStatsAreFinal`, `MediaSchedulerHolds`, `MediaNoLostDigit`; `StreamTypeCorrect`, `StreamLossNotOverstated`, `StreamDigitsOnceInOrder` |
| `BridgeProofs` | `BridgeTypeCorrect`, `BridgeNoLegForgotten`, `BridgeWholeHolds` |

Hardly any of these properties is inductive. Every module proves one invariant by `Init => Inv` and one step per
action of `Next`, and derives its theorems from it. The invariants were checked with TLC on the instances of the
runs before they were proved. The run `incoming` does not repeat the properties that are proved for incoming calls and
that `outgoing` checks on the same definitions of CallCore.

**Calls: ended once, cleaned up.** The invariant `CoreInv` (`CallCoreProofs`) has four parts:

* `ChannelInv`: which channels are open follows from the state, so no step can close one
  twice;
* `StatusInv`: when the status is 200, and that only an answered call has it, which the abstract
  `End` needs;
* `OwnerInv`: while the call has ended and `done` is open, exactly one goroutine is in the
  clean-up. It is what makes the parts of `finish` outside the mutex sequential;
* `CleanupInv`: how far the clean-up has come, by the position of that goroutine, and that
  nothing it undid comes back.

`StepKeeps`, `FinishKeeps` and `MoveKeeps` say that any step of a given shape keeps `CoreInv`; each
action of either module is brought into one of these shapes. The outgoing invariant adds `IdleInv`
(nothing has happened before Call), `CancelInv` (what `cancelSent`, the CANCEL goroutine and `u.seq`
say about the pending INVITE) and `ResultInv`; the incoming one adds `IdleInv` and `AnswerInv` (which
final response the handler's position implies). Refinement uses the same invariants: every
action is `Ring`, `Answer`, `End`, `Report`, `Wake` or a stutter of CallLifecycle.

**Calls: no dialog left behind.** `CoreInv` says nothing of the peer, so a second invariant, `DialogInv`, is
kept on top of it:

* `ByeInv`: a BYE is sent and answered only where there is a dialog, and only a BYE that got through, ours or the
  peer's, lets a goroutine take the dialog for ended;
* `OverInv`, the heart of it: a call that has ended here is over at the peer, or its BYE was lost, or the INVITE's own
  goroutine ended it before the ACK and has nothing left to do but `finish`. The last case needs that no ACK comes
  afterwards, hence the clause on where `acked` can still become true;
* `PeerInv` (outgoing): the peer's final response is the last in the queue, and from the 2xx on there is a dialog, so
  that a challenge can no longer be the answer; `OfferedInv` (incoming) is its counterpart for our 200;
* `ReportInv`: the INVITE that `run` waits for is the one not yet reported;
* `CancelledInv`: that a CANCEL is out is remembered in `result.cancelled` until the call is ended for it, also when
  the 200 crosses it.

`NoOrphanDialog` and `CancelEndsCall` speak of rest states only; the invariants speak of all, and at rest the
exceptions for goroutines under way disappear.

**Inbox.** `ArrivalInv` (a call is delivered once, only delivered calls are claimed: else a later delivery would put a
claimed call into the inbox again) and `WaiterInv` (no waiter remembers a signal that does not exist yet).

**Device.** `SocketInv` (the only live context is the current one, and it is owned: the device is started or somebody
holds `startMu`), `StarterInv` and `RefresherInv` (what a goroutine at each point may rely on), `ChainInv` (the refresh
chain exists before `started` is set: a start that has its 200 and has not returned is part of it) and `BoundInv` (the
same for the binding). The chain is handed from the timer to a refresh goroutine and back; the proof follows each
hand-over, and the steps of goroutines of an earlier life, whose context is dead, are seen not to take part.

**Reinvite.** The argument is about the direction an end is *committed* to: that of its stream, or, while it waits, the
one it would restore, or, once a 200 is on its way, the accepted one. `CommitInv` says that the two are each other's
reverse until a 200 is lost; `LockInv` (an end that has something under way holds its lock, and so answers 491),
`OfferInv` and `AcceptInv` (at most one offer is accepted at a time) make it inductive. With both locks free committed
and real direction are the same.

**Transfer.** `FutureInv` (a REFER that was not sent has left no trace, so that a new one starts afresh), `FollowInv`
(`followRefer` has 200 to report only for a call that was answered) and `ProgressInv`: whatever the transferor takes for
success, now or in an earlier REFER, some REFER it sent has its call answered. The last is about all REFERs and not
only the current one, since a late NOTIFY of an earlier one is applied to the progress of the next.

**Prack.** `CallerInv`: no PRACK before an RSeq was seen; `RingerInv`: a late 180 is the last its goroutine writes,
and only the first 180 starts a goroutine.

**CallMedia.** `ShardInv` (the list has no repetitions, and only streams that were started: a removal of the first
occurrence then removes the stream), `CounterInv`, `DigitInv`, `EndInv` and `SaveInv`. The last is the one that
matters: a claimed recording has been written, or exactly one of `finish` and the script is about to; and when `finish`
decides against saving, either nothing asks for it or the script is between setting `failed` and its own decision.
Lemmas say what appending to a list and removing an element from it do to its members.

**Stream.** All of it rests on the *age* of a packet: how far its number lies behind the next one the sender will use.

* `NetInv`: packets on the way are in the order of their ages, and an age is bounded by what was sent since and is on the
  way or lost, or else by how far a packet may be overtaken. So ages never reach half of the numbers, although the
  numbers wrap, and the remainder that `countSeq` computes is the difference of two ages (`BehindChain`);
* `LateInv` does the same for the highest number received: what is on the way and younger has not been overtaken by
  anything, what is older is at most `MaxLate` older. `countSeq` then always takes a late packet for late and a
  later one for later. It is needed only until a packet has strayed;
* `CountInv`: what is expected is no more than what was sent, whichever source is heard next. `Owed` is how much more
  the receiver can come to expect of a source by what that has sent: the numbers after the highest one received, or, of
  a source it has not heard of, those from whichever packet arrives first. The clause is about both sources at once
  and stands under `~strayed`: after a packet of the former source the count has begun anew, and the bound is
  false. `GrowingRemainder` carries it over the wrap of the counters;
* `AudioInv`: the source that is not connected has sent no events, so that those of `DialInv` come from one source and
  are in order whatever the other's packets do. `DigitsOnceInOrder` needs no exception for a change of source;
* `QueueInv`, `SentInv`, `ApartInv`, `HeardInv`: the queue holds the digits that are not over and only the first
  has begun; packets of different events differ in their timestamps and are more than `Gap` apart in age, which
  is what the pause after an event is for; hence, as `MaxLate <= Gap`, no packet is overtaken by one of a later event, and
  `lastEvTS` tells whether an event was heard. `DigitsOnceInOrder` states the order as a function from the digits
  heard to those that arrived; a new digit extends it by one.

**Bridge.** For `NoLegForgotten`, `OwnedInv`: a leg that no map has is in the hands of a handler that will link it or hang it
up. It needs that a leg being dialled is known to nobody else (`NumberInv`, `PendingInv`, `MentionInv`) and what the local
variables of a transfer say at each of its steps (`MoveInv`). `BridgeWhole` is about *clean* legs, those that are
not raced, not lost and in no overlap now. A handler that has one clean leg has only clean ones and is alone on them, so
what it found in the maps is still there (`InviteAt`, `ByeAt`, `ReferAt`), and a step changes nothing about the legs of
other handlers (`Frame`). Between the two writes of a transfer neither bridge is whole, which `LinkPhase` describes.
Since clean legs only become fewer, nothing has to be shown about a leg that was raced once.
`AckInv` says which clean legs may be up and not confirmed: only that of a caller whose answer `onInvite` is still
delivering, since no other handler has touched its place in the maps. At rest there is none, so that a
leg that is up and not found is lost, or raced and never confirmed, as the exception of `NoLegForgotten` says.

**Assumptions.** `HangersAreThreads`, `OutgoingConstants`, `IncomingConstants`, `InboxConstants`, `DeviceConstants`,
`ReinviteConstants`, `PrackConstants`, `TransferConstants`, `BridgeConstants` and `MediaConstants`: the types of the constants, and
that goroutines, ends and streams are different from each other. Only `StreamConstants` assumes something about numbers: that a
packet is late by no more than the pause after an event (`MaxLate <= Gap`) and by no more than half of the sequence
numbers, that the packets lost and on the way stay below half of them (`MaxLoss + MaxFlight < Seq16 / 2`, 2^15 in the code: beyond
it `countSeq` cannot tell late from later), and that there are fewer ticks than the 64-bit counters
can count.

**Only model-checked.**

* Liveness (`CallSettles`, `Claimed`, `DestroyedFallsSilent`, `HoldReturns`, `ReferIsFollowedUp`,
  `RingerStops`): it rests on fairness and ENABLED, which are outside the prover's reach.
* That the runs' instances reach the interesting cases: every mutant in `PROJECT.json` is a violation that TLC finds.

Every safety property that a run expects to hold is proved.

## Not modelled

Header contents, digest computation, SDP text, codecs, audio files, jitter,
the content of recordings, traces, argument conversion, metric registration, HTTP export, the command-line
tools. They are data transformations without interleavings, or glue. The quality estimate (`media/quality.go`) is
signal processing in floating point, of which a model would keep nothing. The registrar and the peer are
modelled by what they may answer, not by how.

Left out although they have state:

* the negotiation and the lengths of session timers (`engine/timers.go:108`): when a timer fires is left open,
  so that the relation of half and two thirds of the interval plays no part;
* symmetric RTP (`media/stream.go:503`): after a re-INVITE has moved the peer, a late packet of the old
  one is taken for the new address until the next re-INVITE;
* the relay of re-INVITEs and SDP in the test PBX, its nonces and statistics;
* CSeq numbers of REGISTER, and datagrams that arrive after their sender has given up;
* the composition of Destroy with the calls: IncomingCall has the end of the device's context, Device the steps of
  `Destroy`, and the list of calls between them is in neither;
* `Engine.Counts`, which only reads.

## Plan

1. *Session timers with a clock*: negotiation of interval and refresher, a refresh in time against the expiry at the
   other end.
2. *Abstract specifications* for Inbox (a set of calls claimed by number) and Transfer (one outcome per REFER).
