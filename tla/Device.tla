-------------------------------- MODULE Device -------------------------------
(***************************************************************************)
(* The life of a device: Start opens a socket and registers, a timer keeps *)
(* the registration alive, Destroy hangs up, unregisters and closes, and   *)
(* the device may be started again.  Start, Register and Destroy run on    *)
(* the script's goroutine; followRefer, on a goroutine of its own, also    *)
(* starts the device to place its call, whatever the script does.  startMu *)
(* keeps Start and Destroy apart.  Refreshes run on goroutines of the      *)
(* timer (Refreshers).  register is a procedure they all call.  Every open *)
(* makes a new context and a new socket: they are numbered by gen.         *)
(* Calls are in OutgoingCall and IncomingCall, where every Hangup returns. *)
(* The registrar is the one in testpbx.                                    *)
(***************************************************************************)
EXTENDS Integers, FiniteSets

CONSTANTS
    Refreshers,   \* goroutines of the refresh timer
    Script,       \* the script's goroutine
    Follower,     \* the goroutine of followRefer
    None,         \* nobody
    MaxGen        \* bound: how often the device is opened

ASSUME DeviceConstants ==
    /\ {Script, Follower} \cap Refreshers = {}
    /\ Script # Follower
    /\ None \notin Refreshers \cup {Script, Follower}
    /\ MaxGen \in Nat

Starters == {Script, Follower}
Tasks == Refreshers \cup Starters

VARIABLES
    noRegister,   \* cfg.NoRegister: Start does not register
    limiter,      \* opts.RegisterRate > 0: the engine has a limiter
    started,      \* Device.started
    gen,          \* the number of the current Device.ctx
    live,         \* the contexts that are not cancelled: their sockets are open
    startMu,      \* who holds Device.startMu
    regTimer,     \* Device.regTimer: the context its callback captured, 0 = none armed
    registered,   \* Device.registered
    pc,           \* where each goroutine stands
    ctx,          \* the context each goroutine holds (captured or passed)
    expires,      \* register's argument: 0 or 1
    ok,           \* register's err == nil
    op,           \* what a starter runs: "none", "start", "register", "destroy"
    bound         \* the registrar has a binding for the device

config == <<noRegister, limiter>>

vars == <<config, started, gen, live, startMu, regTimer, registered, pc, ctx, expires, ok, op, bound>>

regVars == <<config, regTimer, registered, bound>>

TypeOK ==
    /\ noRegister \in BOOLEAN
    /\ limiter \in BOOLEAN
    /\ started \in BOOLEAN
    /\ gen \in 0..MaxGen
    /\ live \subseteq 1..MaxGen
    /\ startMu \in Starters \cup {None}
    /\ regTimer \in 0..MaxGen
    /\ registered \in BOOLEAN
    /\ pc \in [Tasks -> {"idle", "check", "call", "limit", "send", "sent", "reply", "return", "hangup", "unreg"}]
    /\ ctx \in [Tasks -> 0..MaxGen]
    /\ expires \in [Tasks -> {0, 1}]
    /\ ok \in [Tasks -> BOOLEAN]
    /\ op \in [Starters -> {"none", "start", "register", "destroy"}]
    /\ bound \in BOOLEAN

Init ==
    /\ noRegister \in BOOLEAN
    /\ limiter \in BOOLEAN
    /\ started = FALSE
    /\ gen = 0
    /\ live = {}
    /\ startMu = None
    /\ regTimer = 0
    /\ registered = FALSE
    /\ pc = [t \in Tasks |-> "idle"]
    /\ ctx = [t \in Tasks |-> 0]
    /\ expires = [t \in Tasks |-> 0]
    /\ ok = [t \in Tasks |-> FALSE]
    /\ op = [t \in Starters |-> "none"]
    /\ bound = FALSE

Goto(t, l) == pc' = [pc EXCEPT ![t] = l]

\* The goroutine is done with its call; its locals are gone
Idle(t) ==
    /\ Goto(t, "idle")
    /\ ctx' = [ctx EXCEPT ![t] = 0]
    /\ expires' = [expires EXCEPT ![t] = 0]
    /\ ok' = [ok EXCEPT ![t] = FALSE]

Live(g) == g \in live
-----------------------------------------------------------------------------
(* register(ctx, expires) *)

Register(t, g, exp) ==
    /\ Goto(t, "limit")
    /\ ctx' = [ctx EXCEPT ![t] = g]
    /\ expires' = [expires EXCEPT ![t] = exp]

\* lim.Wait fails when the context ends first, and at once when its deadline
\* (Destroy gives the un-REGISTER 5 s) is nearer than the limiter's next
\* free slot: register returns without a request and without rescheduling.
Limit(t) ==
    /\ pc[t] = "limit"
    /\ \/ /\ Live(ctx[t]) \/ ~limiter
          /\ Goto(t, "send")
          /\ UNCHANGED ok
       \/ /\ limiter
          /\ ~Live(ctx[t]) \/ expires[t] = 0
          /\ Goto(t, "return")
          /\ ok' = [ok EXCEPT ![t] = FALSE]
    /\ UNCHANGED <<started, gen, live, startMu, ctx, expires, op>>
    /\ UNCHANGED regVars

\* The request goes out, or cannot because the socket is closed
Send(t) ==
    /\ pc[t] = "send"
    /\ \/ /\ Live(ctx[t])
          /\ Goto(t, "sent")
          /\ UNCHANGED ok
       \/ /\ ~Live(ctx[t])
          /\ Goto(t, "reply")
          /\ ok' = [ok EXCEPT ![t] = FALSE]
    /\ UNCHANGED <<started, gen, live, startMu, ctx, expires, op>>
    /\ UNCHANGED regVars

\* The registrar (testpbx onRegister, a challenge and its answer included)
\* takes the request, and the device may or may not see its 200.
RegistrarAccepts(t) ==
    /\ pc[t] = "sent"
    /\ bound' = (expires[t] = 1)
    /\ ok' \in {[ok EXCEPT ![t] = r] : r \in BOOLEAN}
    /\ Goto(t, "reply")
    /\ UNCHANGED <<started, gen, live, startMu, ctx, expires, op>>
    /\ UNCHANGED <<config, regTimer, registered>>

\* The request is lost, refused, or given up with the context or the timeout
RegistrarRefuses(t) ==
    /\ pc[t] = "sent"
    /\ ok' = [ok EXCEPT ![t] = FALSE]
    /\ Goto(t, "reply")
    /\ UNCHANGED <<started, gen, live, startMu, ctx, expires, op>>
    /\ UNCHANGED <<config, regTimer, registered, bound>>

\* A plausible slip: a failed refresh does not schedule the next attempt.
ReplyGivesUp(t) ==
    /\ pc[t] = "reply"
    /\ registered' = (expires[t] = 1 /\ ok[t])
    /\ regTimer' = IF expires[t] = 1 /\ ok[t] THEN gen ELSE regTimer
    /\ Goto(t, "return")
    /\ UNCHANGED <<config, started, gen, live, startMu, ctx, expires, ok, op, bound>>

\* The outcome under regMu: scheduleRefresh stops the timer there is and
\* arms a new one, whose callback captures the context of now
Reply(t) ==
    /\ pc[t] = "reply"
    /\ registered' = (expires[t] = 1 /\ ok[t])
    /\ regTimer' = IF expires[t] = 1 THEN gen ELSE regTimer
    /\ Goto(t, "return")
    /\ UNCHANGED <<config, started, gen, live, startMu, ctx, expires, ok, op, bound>>
-----------------------------------------------------------------------------
(* The refresh timer *)

TimerFires(r) ==
    /\ pc[r] = "idle"
    /\ regTimer # 0
    /\ Goto(r, "check")
    /\ ctx' = [ctx EXCEPT ![r] = regTimer]
    /\ regTimer' = 0
    /\ UNCHANGED <<config, started, gen, live, startMu, registered, expires, ok, op, bound>>

\* A plausible slip: the callback does not look at its context.
RefreshUnchecked(r) ==
    /\ pc[r] = "check"
    /\ Goto(r, "call")
    /\ UNCHANGED <<started, gen, live, startMu, ctx, expires, ok, op>>
    /\ UNCHANGED regVars

\* if ctx.Err() != nil return
Refresh(r) ==
    /\ pc[r] = "check"
    /\ \/ /\ Live(ctx[r])
          /\ Goto(r, "call")
          /\ UNCHANGED <<ctx, expires, ok>>
       \/ /\ ~Live(ctx[r])
          /\ Idle(r)
    /\ UNCHANGED <<started, gen, live, startMu, op>>
    /\ UNCHANGED regVars

\* d.Register() reads d.ctx, which Destroy and Start may have replaced since
RefreshCalls(r) ==
    /\ pc[r] = "call"
    /\ Register(r, gen, 1)
    /\ UNCHANGED <<started, gen, live, startMu, ok, op>>
    /\ UNCHANGED regVars

RefreshDone(r) ==
    /\ pc[r] = "return"
    /\ Idle(r)
    /\ UNCHANGED <<started, gen, live, startMu, op>>
    /\ UNCHANGED regVars
-----------------------------------------------------------------------------
(* Start, Register and Destroy *)

Run(t, o) == op' = [op EXCEPT ![t] = o]

\* A plausible slip: Start does not take startMu.
StartUnlocked(t) ==
    /\ pc[t] = "idle"
    /\ ~started
    /\ gen < MaxGen
    /\ gen' = gen + 1
    /\ live' = live \cup {gen'}
    /\ \/ /\ ~noRegister
          /\ Run(t, "start")
          /\ Register(t, gen', 1)
          /\ UNCHANGED started
       \/ /\ noRegister
          /\ started' = TRUE
          /\ UNCHANGED <<op, pc, ctx, expires>>
    /\ UNCHANGED <<startMu, ok>>
    /\ UNCHANGED regVars

\* open, then Register unless the device does not register.  A device that is
\* started already is left alone.
Start(t) ==
    /\ pc[t] = "idle"
    /\ startMu = None
    /\ ~started
    /\ gen < MaxGen
    /\ gen' = gen + 1
    /\ live' = live \cup {gen'}
    /\ \/ /\ ~noRegister
          /\ startMu' = t
          /\ Run(t, "start")
          /\ Register(t, gen', 1)
          /\ UNCHANGED started
       \/ /\ noRegister
          /\ started' = TRUE
          /\ UNCHANGED <<startMu, op, pc, ctx, expires>>
    /\ UNCHANGED ok
    /\ UNCHANGED regVars

\* open made a context, but the listener did not come up
StartFails(t) ==
    /\ pc[t] = "idle"
    /\ startMu = None
    /\ ~started
    /\ gen < MaxGen
    /\ gen' = gen + 1
    /\ UNCHANGED <<started, live, startMu, pc, ctx, expires, ok, op>>
    /\ UNCHANGED regVars

\* A plausible slip: Start does not look at what Register returned.
StartDoneAnyway(t) ==
    /\ pc[t] = "return"
    /\ op[t] = "start"
    /\ started' = TRUE
    /\ startMu' = None
    /\ Run(t, "none")
    /\ Idle(t)
    /\ UNCHANGED <<gen, live>>
    /\ UNCHANGED regVars

\* Start after its Register, which closes the device if that failed
StartDone(t) ==
    /\ pc[t] = "return"
    /\ op[t] = "start"
    /\ started' = ok[t]
    /\ live' = IF ok[t] THEN live ELSE live \ {gen}
    /\ startMu' = None
    /\ Run(t, "none")
    /\ Idle(t)
    /\ UNCHANGED gen
    /\ UNCHANGED regVars

ScriptRegisters ==
    /\ pc[Script] = "idle"
    /\ started
    /\ Run(Script, "register")
    /\ Register(Script, gen, 1)
    /\ UNCHANGED <<started, gen, live, startMu, ok>>
    /\ UNCHANGED regVars

ScriptRegistered ==
    /\ pc[Script] = "return"
    /\ op[Script] = "register"
    /\ Run(Script, "none")
    /\ Idle(Script)
    /\ UNCHANGED <<started, gen, live, startMu>>
    /\ UNCHANGED regVars

Destroy ==
    /\ pc[Script] = "idle"
    /\ startMu = None
    /\ started
    /\ started' = FALSE
    /\ startMu' = Script
    /\ Run(Script, "destroy")
    /\ Goto(Script, "hangup")
    /\ UNCHANGED <<gen, live, ctx, expires, ok>>
    /\ UNCHANGED regVars

\* c.Hangup() for every call there was, one after the other: however they
\* end, each returns (CallSettles of CallCore)
DestroyHangsUp ==
    /\ pc[Script] = "hangup"
    /\ Goto(Script, "unreg")
    /\ UNCHANGED <<started, gen, live, startMu, ctx, expires, ok, op>>
    /\ UNCHANGED regVars

\* The timer is stopped; a registered device sends REGISTER with Expires: 0
DestroyUnregisters ==
    /\ pc[Script] = "unreg"
    /\ regTimer' = 0
    /\ \/ /\ registered
          /\ Register(Script, gen, 0)
       \/ /\ ~registered
          /\ Goto(Script, "return")
          /\ UNCHANGED <<ctx, expires>>
    /\ UNCHANGED <<config, started, gen, live, startMu, registered, ok, op, bound>>

\* close
DestroyDone ==
    /\ pc[Script] = "return"
    /\ op[Script] = "destroy"
    /\ live' = live \ {gen}
    /\ startMu' = None
    /\ Run(Script, "none")
    /\ Idle(Script)
    /\ UNCHANGED <<started, gen>>
    /\ UNCHANGED regVars
-----------------------------------------------------------------------------
RegisterStep(t) ==
    Limit(t) \/ Send(t) \/ RegistrarAccepts(t) \/ RegistrarRefuses(t) \/ Reply(t)

ScriptStep ==
    \/ StartDone(Script) \/ ScriptRegistered
    \/ DestroyHangsUp \/ DestroyUnregisters \/ DestroyDone

Next ==
    \/ \E t \in Tasks : RegisterStep(t)
    \/ \E r \in Refreshers : TimerFires(r) \/ Refresh(r) \/ RefreshCalls(r) \/ RefreshDone(r)
    \/ \E t \in Starters : Start(t) \/ StartFails(t)
    \/ ScriptRegisters \/ Destroy
    \/ ScriptStep \/ StartDone(Follower)

Spec == Init /\ [][Next]_vars

\* Goroutines run, timers fire, and a REGISTER is answered or times out.
Fairness ==
    /\ \A t \in Tasks : WF_vars(RegisterStep(t))
    /\ \A r \in Refreshers : WF_vars(TimerFires(r)) /\ WF_vars(Refresh(r) \/ RefreshCalls(r) \/ RefreshDone(r))
    /\ WF_vars(ScriptStep) /\ WF_vars(StartDone(Follower))

FairSpec == Spec /\ Fairness
-----------------------------------------------------------------------------
(* Properties *)

\* The refresh chain never breaks: a started device has a timer armed for its
\* current context, or a goroutine on its way to arm one, whatever refreshes
\* failed before, whatever the script registered meanwhile, and whatever a
\* refresh of an earlier life of the device still does.
RefreshChain ==
    started /\ ~noRegister =>
        \/ regTimer = gen
        \/ \E r \in Refreshers : pc[r] = "check" /\ Live(ctx[r])
        \/ \E r \in Refreshers : pc[r] = "call"
        \/ \E t \in Tasks :
             /\ expires[t] = 1
             /\ pc[t] \in {"send", "sent", "reply"} \/ (pc[t] = "limit" /\ Live(ctx[t]))

\* A device whose Start registered it has a binding at the registrar until it
\* is destroyed, whatever refreshes fail and whatever the refreshes and the
\* un-REGISTER of an earlier life still did.  (Bindings of testpbx do not
\* expire.)
StartedIsBound == started /\ ~noRegister => bound

\* The device has one socket, or none: neither the script and followRefer
\* starting it at the same time, nor a start that fails, nor one that waits for
\* Destroy to end leaves a socket behind that nobody will close.
OneSocket ==
    /\ Cardinality(live) <= 1
    /\ live # {} => started \/ startMu # None

\* Destroy gets to its end whatever becomes of the un-REGISTER, and a device
\* that stays destroyed falls silent: the timer that a late refresh arms again
\* fires once more, finds its context dead and arms no other.
DestroyedFallsSilent ==
    <>[]~started => <>[](live = {} /\ regTimer = 0 /\ \A r \in Refreshers : pc[r] = "idle")
=============================================================================
