---------------------------- MODULE DeviceProofs -----------------------------
(***************************************************************************)
(* Proofs about the life of a device, for any number of refreshes under    *)
(* way and any number of lives.  None of the three invariants is inductive *)
(* alone.  They hold because startMu makes Start and Destroy exclusive:    *)
(* while a Start registers, nobody else opens, closes or unregisters the   *)
(* device, so what its REGISTER achieved still stands when it returns.     *)
(***************************************************************************)
EXTENDS Device, TLAPS, FiniteSetTheorems

\* Where a call of register is, from its start until its caller goes on
Active == {"limit", "send", "sent", "reply", "return"}

\* Only the current context is alive, and only while the device is started or
\* somebody who holds startMu is responsible for it.
SocketInv ==
    /\ live \subseteq {gen}
    /\ live # {} => started \/ startMu # None
    /\ started => gen \in live

\* What a goroutine that runs Start, Register or Destroy may rely on
StarterInv ==
    \A t \in Starters :
        /\ op[t] \in {"start", "destroy"} <=> startMu = t
        /\ op[t] = "none" => pc[t] = "idle"
        /\ pc[t] = "idle" => expires[t] = 0
        /\ op[t] = "start" =>
             pc[t] \in Active /\ expires[t] = 1 /\ ~started /\ ~noRegister /\ gen \in live
        /\ op[t] = "register" =>
             t = Script /\ pc[t] \in Active /\ expires[t] = 1 /\ started
        /\ op[t] = "destroy" =>
             /\ t = Script /\ pc[t] \in Active \cup {"hangup", "unreg"} /\ expires[t] = 0
             /\ ~started /\ gen \in live

\* A refresh always asks for a registration.
RefresherInv ==
    \A r \in Refreshers :
        /\ pc[r] \in Active \cup {"idle", "check", "call"}
        /\ pc[r] \in Active => expires[r] = 1

\* A timer is armed for this life of the device, or a goroutine will arm one.
Chain ==
    \/ regTimer = gen
    \/ \E r \in Refreshers : pc[r] = "check" /\ Live(ctx[r])
    \/ \E r \in Refreshers : pc[r] = "call"
    \/ \E t \in Tasks :
         /\ expires[t] = 1
         /\ pc[t] \in {"send", "sent", "reply"} \/ (pc[t] = "limit" /\ Live(ctx[t]))

\* Start is about to return with success.
Starting(t) == op[t] = "start" /\ pc[t] = "return" /\ ok[t]

ChainInv ==
    ~noRegister /\ (started \/ \E t \in Starters : Starting(t)) => Chain

BoundInv ==
    /\ started /\ ~noRegister => bound
    /\ \A t \in Starters : op[t] = "start" /\ pc[t] \in {"reply", "return"} /\ ok[t] => bound

DeviceInv ==
    TypeOK /\ SocketInv /\ StarterInv /\ RefresherInv /\ ChainInv /\ BoundInv
-----------------------------------------------------------------------------
\* Who the goroutines are.
LEMMA TaskNames ==
    /\ Starters \subseteq Tasks /\ Refreshers \subseteq Tasks
    /\ Tasks = Refreshers \cup Starters /\ Starters \cap Refreshers = {}
    /\ Script \in Starters /\ Follower \in Starters /\ Script # Follower
    /\ \A t \in Starters : t = Script \/ t = Follower
    /\ None \notin Starters
BY DeviceConstants DEF Tasks, Starters

\* newDevice: nothing is open and nobody runs.
LEMMA DeviceInit == Init => DeviceInv
<1> SUFFICES ASSUME Init PROVE DeviceInv
    OBVIOUS
<1> USE TaskNames, DeviceConstants DEF Init
<1>1. TypeOK
    <2>1. /\ gen \in 0..MaxGen /\ live \subseteq 1..MaxGen /\ regTimer \in 0..MaxGen
          /\ ctx \in [Tasks -> 0..MaxGen] /\ expires \in [Tasks -> {0, 1}]
          /\ ok \in [Tasks -> BOOLEAN]
        OBVIOUS
    <2> QED BY <2>1 DEF TypeOK
<1>2. SocketInv /\ StarterInv /\ RefresherInv
    BY DEF SocketInv, StarterInv, RefresherInv, Active
<1>3. ChainInv /\ BoundInv
    BY DEF ChainInv, BoundInv, Starting
<1> QED BY <1>1, <1>2, <1>3 DEF DeviceInv

\* Every step keeps the types.
LEMMA TypeStep == TypeOK /\ [Next]_vars => TypeOK'
<1> SUFFICES ASSUME TypeOK, [Next]_vars PROVE TypeOK'
    OBVIOUS
<1> USE TaskNames, DeviceConstants DEF TypeOK
<1>1. ASSUME NEW t \in Tasks, Limit(t) PROVE TypeOK'
    BY <1>1 DEF Limit, Goto, regVars, config
<1>2. ASSUME NEW t \in Tasks, Send(t) PROVE TypeOK'
    BY <1>2 DEF Send, Goto, regVars, config
<1>3. ASSUME NEW t \in Tasks, RegistrarAccepts(t) PROVE TypeOK'
    BY <1>3 DEF RegistrarAccepts, Goto, config
<1>4. ASSUME NEW t \in Tasks, RegistrarRefuses(t) PROVE TypeOK'
    BY <1>4 DEF RegistrarRefuses, Goto, config
<1>5. ASSUME NEW t \in Tasks, Reply(t) PROVE TypeOK'
    BY <1>5 DEF Reply, Goto, config
<1>6. ASSUME NEW r \in Refreshers, TimerFires(r) PROVE TypeOK'
    BY <1>6 DEF TimerFires, Goto, config
<1>7. ASSUME NEW r \in Refreshers, Refresh(r) PROVE TypeOK'
    <2>1. CASE Live(ctx[r])
        BY <1>7, <2>1 DEF Refresh, Goto, regVars, config
    <2>2. CASE ~Live(ctx[r])
        <3>1. Idle(r) /\ UNCHANGED <<started, gen, live, startMu, op>> /\ UNCHANGED regVars
            BY <1>7, <2>2 DEF Refresh
        <3> QED BY <3>1 DEF Goto, Idle, regVars, config
    <2> QED BY <2>1, <2>2
<1>8. ASSUME NEW r \in Refreshers, RefreshCalls(r) PROVE TypeOK'
    BY <1>8 DEF RefreshCalls, Goto, Register, regVars, config
<1>9. ASSUME NEW r \in Refreshers, RefreshDone(r) PROVE TypeOK'
    BY <1>9 DEF RefreshDone, Goto, Idle, regVars, config
<1>10. ASSUME NEW t \in Starters, Start(t) PROVE TypeOK'
    <2>1. gen' \in 0..MaxGen /\ live' \subseteq 1..MaxGen
        BY <1>10 DEF Start
    <2>2. CASE noRegister
        BY <1>10, <2>1, <2>2 DEF Start, regVars, config
    <2>3. CASE ~noRegister
        BY <1>10, <2>1, <2>3 DEF Start, Run, Goto, Register, regVars, config
    <2> QED BY <2>2, <2>3
<1>11. ASSUME NEW t \in Starters, StartFails(t) PROVE TypeOK'
    BY <1>11 DEF StartFails, regVars, config
<1>12. ASSUME NEW t \in Starters, StartDone(t) PROVE TypeOK'
    BY <1>12 DEF StartDone, Run, Goto, Idle, regVars, config
<1>13. CASE ScriptRegisters
    BY <1>13 DEF ScriptRegisters, Run, Goto, Register, regVars, config
<1>14. CASE ScriptRegistered
    BY <1>14 DEF ScriptRegistered, Run, Goto, Idle, regVars, config
<1>15. CASE Destroy
    BY <1>15 DEF Destroy, Run, Goto, regVars, config
<1>16. CASE DestroyHangsUp
    BY <1>16 DEF DestroyHangsUp, Goto, regVars, config
<1>17. CASE DestroyUnregisters
    BY <1>17 DEF DestroyUnregisters, Goto, Register, config
<1>18. CASE DestroyDone
    BY <1>18 DEF DestroyDone, Run, Goto, Idle, regVars, config
<1>19. CASE UNCHANGED vars
    BY <1>19 DEF vars, config
<1> QED
    BY <1>1, <1>2, <1>3, <1>4, <1>5, <1>6, <1>7, <1>8, <1>9, <1>10, <1>11, <1>12, <1>13, <1>14, <1>15, <1>16, <1>17, <1>18, <1>19
    DEF Next, RegisterStep, ScriptStep
-----------------------------------------------------------------------------
(* What each step leaves of the invariant *)

\* register waits for the limiter: only a context that is still alive, or none at
\* all, lets a refresh pass, and only a refresh of a dead one breaks off.
LEMMA LimitStep ==
    ASSUME DeviceInv, NEW t \in Tasks, Limit(t)
    PROVE  SocketInv' /\ StarterInv' /\ RefresherInv' /\ ChainInv' /\ BoundInv'
<1> USE TaskNames DEF DeviceInv, TypeOK, Limit, Goto, regVars, config
<1>1. SocketInv'
    BY DEF SocketInv, StarterInv
<1>2. StarterInv'
    BY DEF SocketInv, StarterInv, Active
<1>3. RefresherInv'
    BY DEF RefresherInv, Active
<1>4. ChainInv'
    BY DEF SocketInv, StarterInv, RefresherInv, ChainInv, Chain, Starting, Live, Active
<1>5. BoundInv'
    BY DEF StarterInv, RefresherInv, BoundInv, Active
<1> QED BY <1>1, <1>2, <1>3, <1>4, <1>5

\* register sends its request.
LEMMA SendStep ==
    ASSUME DeviceInv, NEW t \in Tasks, Send(t)
    PROVE  SocketInv' /\ StarterInv' /\ RefresherInv' /\ ChainInv' /\ BoundInv'
<1> USE TaskNames DEF DeviceInv, TypeOK, Send, Goto, regVars, config
<1>1. SocketInv'
    BY DEF SocketInv, StarterInv
<1>2. StarterInv'
    BY DEF SocketInv, StarterInv, Active
<1>3. RefresherInv'
    BY DEF RefresherInv, Active
<1>4. ChainInv'
    BY DEF SocketInv, StarterInv, RefresherInv, ChainInv, Chain, Starting, Live, Active
<1>5. BoundInv'
    BY DEF StarterInv, RefresherInv, BoundInv, Active
<1> QED BY <1>1, <1>2, <1>3, <1>4, <1>5

\* The registrar takes a REGISTER: the only one that removes the binding is
\* Destroy's, and no Start is under way then.
LEMMA RegistrarAcceptsStep ==
    ASSUME DeviceInv, NEW t \in Tasks, RegistrarAccepts(t)
    PROVE  SocketInv' /\ StarterInv' /\ RefresherInv' /\ ChainInv' /\ BoundInv'
<1> USE TaskNames DEF DeviceInv, TypeOK, RegistrarAccepts, Goto, config
<1>1. SocketInv'
    BY DEF SocketInv, StarterInv
<1>2. StarterInv'
    BY DEF SocketInv, StarterInv, Active
<1>3. RefresherInv'
    BY DEF RefresherInv, Active
<1>4. ChainInv'
    BY DEF SocketInv, StarterInv, RefresherInv, ChainInv, Chain, Starting, Live, Active
<1>5. BoundInv'
    BY DEF StarterInv, RefresherInv, BoundInv, Active
<1> QED BY <1>1, <1>2, <1>3, <1>4, <1>5

\* A REGISTER is lost or refused.
LEMMA RegistrarRefusesStep ==
    ASSUME DeviceInv, NEW t \in Tasks, RegistrarRefuses(t)
    PROVE  SocketInv' /\ StarterInv' /\ RefresherInv' /\ ChainInv' /\ BoundInv'
<1> USE TaskNames DEF DeviceInv, TypeOK, RegistrarRefuses, Goto, config
<1>1. SocketInv'
    BY DEF SocketInv, StarterInv
<1>2. StarterInv'
    BY DEF SocketInv, StarterInv, Active
<1>3. RefresherInv'
    BY DEF RefresherInv, Active
<1>4. ChainInv'
    BY DEF SocketInv, StarterInv, RefresherInv, ChainInv, Chain, Starting, Live, Active
<1>5. BoundInv'
    BY DEF StarterInv, RefresherInv, BoundInv, Active
<1> QED BY <1>1, <1>2, <1>3, <1>4, <1>5

\* The outcome of a REGISTER: every refresh, failed or not, arms the next timer.
LEMMA ReplyStep ==
    ASSUME DeviceInv, NEW t \in Tasks, Reply(t)
    PROVE  SocketInv' /\ StarterInv' /\ RefresherInv' /\ ChainInv' /\ BoundInv'
<1> USE TaskNames DEF DeviceInv, TypeOK, Reply, Goto, config
<1>1. SocketInv'
    BY DEF SocketInv, StarterInv
<1>2. StarterInv'
    BY DEF SocketInv, StarterInv, Active
<1>3. RefresherInv'
    BY DEF RefresherInv, Active
<1>4. ChainInv'
    BY DEF SocketInv, StarterInv, RefresherInv, ChainInv, Chain, Starting, Live, Active
<1>5. BoundInv'
    BY DEF StarterInv, RefresherInv, BoundInv, Active
<1> QED BY <1>1, <1>2, <1>3, <1>4, <1>5

\* The timer's callback starts.
LEMMA TimerFiresStep ==
    ASSUME DeviceInv, NEW r \in Refreshers, TimerFires(r)
    PROVE  SocketInv' /\ StarterInv' /\ RefresherInv' /\ ChainInv' /\ BoundInv'
<1> USE TaskNames DEF DeviceInv, TypeOK, TimerFires, Goto, config
<1>1. SocketInv'
    BY DEF SocketInv, StarterInv
<1>2. StarterInv'
    BY DEF SocketInv, StarterInv, Active
<1>3. RefresherInv'
    BY DEF RefresherInv, Active
<1>4. ChainInv'
    BY DEF SocketInv, StarterInv, RefresherInv, ChainInv, Chain, Starting, Live, Active
<1>5. BoundInv'
    BY DEF StarterInv, RefresherInv, BoundInv, Active
<1> QED BY <1>1, <1>2, <1>3, <1>4, <1>5

\* The callback looks at the context it captured.
LEMMA RefreshStep ==
    ASSUME DeviceInv, NEW r \in Refreshers, Refresh(r)
    PROVE  SocketInv' /\ StarterInv' /\ RefresherInv' /\ ChainInv' /\ BoundInv'
<1> USE TaskNames DEF DeviceInv, TypeOK, Refresh, Goto, Idle, regVars, config
<1>1. SocketInv'
    BY DEF SocketInv, StarterInv
<1>2. StarterInv'
    BY DEF SocketInv, StarterInv, Active
<1>3. RefresherInv'
    BY DEF RefresherInv, Active
<1>4. ChainInv'
    BY DEF SocketInv, StarterInv, RefresherInv, ChainInv, Chain, Starting, Live, Active
<1>5. BoundInv'
    BY DEF StarterInv, RefresherInv, BoundInv, Active
<1> QED BY <1>1, <1>2, <1>3, <1>4, <1>5

\* The callback calls Register, with the context of now.
LEMMA RefreshCallsStep ==
    ASSUME DeviceInv, NEW r \in Refreshers, RefreshCalls(r)
    PROVE  SocketInv' /\ StarterInv' /\ RefresherInv' /\ ChainInv' /\ BoundInv'
<1> USE TaskNames DEF DeviceInv, TypeOK, RefreshCalls, Goto, Register, regVars, config
<1>1. SocketInv'
    BY DEF SocketInv, StarterInv
<1>2. StarterInv'
    BY DEF SocketInv, StarterInv, Active
<1>3. RefresherInv'
    BY DEF RefresherInv, Active
<1>4. ChainInv'
    BY DEF SocketInv, StarterInv, RefresherInv, ChainInv, Chain, Starting, Live, Active
<1>5. BoundInv'
    BY DEF StarterInv, RefresherInv, BoundInv, Active
<1> QED BY <1>1, <1>2, <1>3, <1>4, <1>5

\* The callback returns.
LEMMA RefreshDoneStep ==
    ASSUME DeviceInv, NEW r \in Refreshers, RefreshDone(r)
    PROVE  SocketInv' /\ StarterInv' /\ RefresherInv' /\ ChainInv' /\ BoundInv'
<1> USE TaskNames DEF DeviceInv, TypeOK, RefreshDone, Goto, Idle, regVars, config
<1>1. SocketInv'
    BY DEF SocketInv, StarterInv
<1>2. StarterInv'
    BY DEF SocketInv, StarterInv, Active
<1>3. RefresherInv'
    BY DEF RefresherInv, Active
<1>4. ChainInv'
    BY DEF SocketInv, StarterInv, RefresherInv, ChainInv, Chain, Starting, Live, Active
<1>5. BoundInv'
    BY DEF StarterInv, RefresherInv, BoundInv, Active
<1> QED BY <1>1, <1>2, <1>3, <1>4, <1>5

\* open and the REGISTER of Start: with startMu free and the device stopped there
\* is no other socket.
LEMMA StartStep ==
    ASSUME DeviceInv, NEW t \in Starters, Start(t)
    PROVE  SocketInv' /\ StarterInv' /\ RefresherInv' /\ ChainInv' /\ BoundInv'
<1> USE TaskNames DEF DeviceInv, TypeOK, Start, Run, Goto, Register, regVars, config
<1>1. SocketInv'
    BY DEF SocketInv, StarterInv
<1>2. StarterInv'
    BY DEF SocketInv, StarterInv, Active
<1>3. RefresherInv'
    BY DEF RefresherInv, Active
<1>4. ChainInv'
    BY DEF SocketInv, StarterInv, RefresherInv, ChainInv, Chain, Starting, Live, Active
<1>5. BoundInv'
    BY DEF StarterInv, RefresherInv, BoundInv, Active
<1> QED BY <1>1, <1>2, <1>3, <1>4, <1>5

\* open fails before there is a socket.
LEMMA StartFailsStep ==
    ASSUME DeviceInv, NEW t \in Starters, StartFails(t)
    PROVE  SocketInv' /\ StarterInv' /\ RefresherInv' /\ ChainInv' /\ BoundInv'
<1> USE TaskNames DEF DeviceInv, TypeOK, StartFails, regVars, config
<1>1. SocketInv'
    BY DEF SocketInv, StarterInv
<1>2. StarterInv'
    BY DEF SocketInv, StarterInv, Active
<1>3. RefresherInv'
    BY DEF RefresherInv, Active
<1>4. ChainInv'
    BY DEF SocketInv, StarterInv, RefresherInv, ChainInv, Chain, Starting, Live, Active
<1>5. BoundInv'
    BY DEF StarterInv, RefresherInv, BoundInv, Active
<1> QED BY <1>1, <1>2, <1>3, <1>4, <1>5

\* Start returns: with success it leaves a device that is bound and will be
\* refreshed, without it the socket is closed.
LEMMA StartDoneStep ==
    ASSUME DeviceInv, NEW t \in Starters, StartDone(t)
    PROVE  SocketInv' /\ StarterInv' /\ RefresherInv' /\ ChainInv' /\ BoundInv'
<1> USE TaskNames DEF DeviceInv, TypeOK, StartDone, Run, Goto, Idle, regVars, config
<1>1. SocketInv'
    BY DEF SocketInv, StarterInv
<1>2. StarterInv'
    BY DEF SocketInv, StarterInv, Active
<1>3. RefresherInv'
    BY DEF RefresherInv, Active
<1>4. ChainInv'
    BY DEF SocketInv, StarterInv, RefresherInv, ChainInv, Chain, Starting, Live, Active
<1>5. BoundInv'
    BY DEF StarterInv, RefresherInv, BoundInv, Active
<1> QED BY <1>1, <1>2, <1>3, <1>4, <1>5

\* The script's register().
LEMMA ScriptRegistersStep ==
    ASSUME DeviceInv, ScriptRegisters
    PROVE  SocketInv' /\ StarterInv' /\ RefresherInv' /\ ChainInv' /\ BoundInv'
<1> USE TaskNames DEF DeviceInv, TypeOK, ScriptRegisters, Run, Goto, Register, regVars, config
<1>1. SocketInv'
    BY DEF SocketInv, StarterInv
<1>2. StarterInv'
    BY DEF SocketInv, StarterInv, Active
<1>3. RefresherInv'
    BY DEF RefresherInv, Active
<1>4. ChainInv'
    BY DEF SocketInv, StarterInv, RefresherInv, ChainInv, Chain, Starting, Live, Active
<1>5. BoundInv'
    BY DEF StarterInv, RefresherInv, BoundInv, Active
<1> QED BY <1>1, <1>2, <1>3, <1>4, <1>5

\* The script's register() returns.
LEMMA ScriptRegisteredStep ==
    ASSUME DeviceInv, ScriptRegistered
    PROVE  SocketInv' /\ StarterInv' /\ RefresherInv' /\ ChainInv' /\ BoundInv'
<1> USE TaskNames DEF DeviceInv, TypeOK, ScriptRegistered, Run, Goto, Idle, regVars, config
<1>1. SocketInv'
    BY DEF SocketInv, StarterInv
<1>2. StarterInv'
    BY DEF SocketInv, StarterInv, Active
<1>3. RefresherInv'
    BY DEF RefresherInv, Active
<1>4. ChainInv'
    BY DEF SocketInv, StarterInv, RefresherInv, ChainInv, Chain, Starting, Live, Active
<1>5. BoundInv'
    BY DEF StarterInv, RefresherInv, BoundInv, Active
<1> QED BY <1>1, <1>2, <1>3, <1>4, <1>5

\* Destroy takes startMu and marks the device stopped.
LEMMA DestroyStep ==
    ASSUME DeviceInv, Destroy
    PROVE  SocketInv' /\ StarterInv' /\ RefresherInv' /\ ChainInv' /\ BoundInv'
<1> USE TaskNames DEF DeviceInv, TypeOK, Destroy, Run, Goto, regVars, config
<1>1. SocketInv'
    BY DEF SocketInv, StarterInv
<1>2. StarterInv'
    BY DEF SocketInv, StarterInv, Active
<1>3. RefresherInv'
    BY DEF RefresherInv, Active
<1>4. ChainInv'
    BY DEF SocketInv, StarterInv, RefresherInv, ChainInv, Chain, Starting, Live, Active
<1>5. BoundInv'
    BY DEF StarterInv, RefresherInv, BoundInv, Active
<1> QED BY <1>1, <1>2, <1>3, <1>4, <1>5

\* Destroy has hung up the calls.
LEMMA DestroyHangsUpStep ==
    ASSUME DeviceInv, DestroyHangsUp
    PROVE  SocketInv' /\ StarterInv' /\ RefresherInv' /\ ChainInv' /\ BoundInv'
<1> USE TaskNames DEF DeviceInv, TypeOK, DestroyHangsUp, Goto, regVars, config
<1>1. SocketInv'
    BY DEF SocketInv, StarterInv
<1>2. StarterInv'
    BY DEF SocketInv, StarterInv, Active
<1>3. RefresherInv'
    BY DEF RefresherInv, Active
<1>4. ChainInv'
    BY DEF SocketInv, StarterInv, RefresherInv, ChainInv, Chain, Starting, Live, Active
<1>5. BoundInv'
    BY DEF StarterInv, RefresherInv, BoundInv, Active
<1> QED BY <1>1, <1>2, <1>3, <1>4, <1>5

\* Destroy stops the timer and sends REGISTER with Expires: 0.
LEMMA DestroyUnregistersStep ==
    ASSUME DeviceInv, DestroyUnregisters
    PROVE  SocketInv' /\ StarterInv' /\ RefresherInv' /\ ChainInv' /\ BoundInv'
<1> USE TaskNames DEF DeviceInv, TypeOK, DestroyUnregisters, Goto, Register, config
<1>1. SocketInv'
    BY DEF SocketInv, StarterInv
<1>2. StarterInv'
    BY DEF SocketInv, StarterInv, Active
<1>3. RefresherInv'
    BY DEF RefresherInv, Active
<1>4. ChainInv'
    BY DEF SocketInv, StarterInv, RefresherInv, ChainInv, Chain, Starting, Live, Active
<1>5. BoundInv'
    BY DEF StarterInv, RefresherInv, BoundInv, Active
<1> QED BY <1>1, <1>2, <1>3, <1>4, <1>5

\* close: Destroy cancels the context it found.
LEMMA DestroyDoneStep ==
    ASSUME DeviceInv, DestroyDone
    PROVE  SocketInv' /\ StarterInv' /\ RefresherInv' /\ ChainInv' /\ BoundInv'
<1> USE TaskNames DEF DeviceInv, TypeOK, DestroyDone, Run, Goto, Idle, regVars, config
<1>1. SocketInv'
    BY DEF SocketInv, StarterInv
<1>2. StarterInv'
    BY DEF SocketInv, StarterInv, Active
<1>3. RefresherInv'
    BY DEF RefresherInv, Active
<1>4. ChainInv'
    BY DEF SocketInv, StarterInv, RefresherInv, ChainInv, Chain, Starting, Live, Active
<1>5. BoundInv'
    BY DEF StarterInv, RefresherInv, BoundInv, Active
<1> QED BY <1>1, <1>2, <1>3, <1>4, <1>5
-----------------------------------------------------------------------------
\* Every step keeps the invariant.
LEMMA DeviceStep == DeviceInv /\ [Next]_vars => DeviceInv'
<1> SUFFICES ASSUME DeviceInv, [Next]_vars PROVE DeviceInv'
    OBVIOUS
<1> DEFINE Rest == SocketInv /\ StarterInv /\ RefresherInv /\ ChainInv /\ BoundInv
<1>1. TypeOK'
    BY TypeStep DEF DeviceInv
<1>2. ASSUME NEW t \in Tasks, RegisterStep(t) PROVE Rest'
    BY <1>2, LimitStep, SendStep, RegistrarAcceptsStep, RegistrarRefusesStep, ReplyStep
    DEF RegisterStep
<1>3. ASSUME NEW r \in Refreshers,
             TimerFires(r) \/ Refresh(r) \/ RefreshCalls(r) \/ RefreshDone(r)
      PROVE  Rest'
    BY <1>3, TimerFiresStep, RefreshStep, RefreshCallsStep, RefreshDoneStep
<1>4. ASSUME NEW t \in Starters, Start(t) \/ StartFails(t) \/ StartDone(t) PROVE Rest'
    BY <1>4, StartStep, StartFailsStep, StartDoneStep
<1>5. ASSUME ScriptRegisters \/ Destroy PROVE Rest'
    BY <1>5, ScriptRegistersStep, DestroyStep
<1>6. ASSUME ScriptStep PROVE Rest'
    BY <1>6, <1>4, TaskNames, ScriptRegisteredStep, DestroyHangsUpStep, DestroyUnregistersStep,
       DestroyDoneStep
    DEF ScriptStep
<1>7. ASSUME UNCHANGED vars PROVE Rest'
    BY <1>7
    DEF DeviceInv, SocketInv, StarterInv, RefresherInv, ChainInv, Chain, Starting, Live, BoundInv,
        vars, config
<1>8. Rest'
    BY <1>2, <1>3, <1>4, <1>5, <1>6, <1>7, TaskNames DEF Next
<1> QED BY <1>1, <1>8 DEF DeviceInv

\* The inductive invariant holds in every reachable state.
LEMMA DeviceInvariant == Spec => []DeviceInv
BY DeviceInit, DeviceStep, PTL DEF Spec

\* Type correctness of the device and its goroutines.
THEOREM DeviceTypeCorrect == Spec => []TypeOK
<1>1. DeviceInv => TypeOK
    BY DEF DeviceInv
<1> QED BY <1>1, DeviceInvariant, PTL

\* scheduleRefresh: a started device that registers always has a refresh armed
\* or on its way, however many refreshes are under way or left from earlier
\* lives of the device.
THEOREM DeviceRefreshChain == Spec => []RefreshChain
<1>1. DeviceInv => RefreshChain
    BY DEF DeviceInv, ChainInv, Chain, RefreshChain
<1> QED BY <1>1, DeviceInvariant, PTL

\* Start, register and Destroy: a started device that registers is bound at the
\* registrar.
THEOREM DeviceStartedIsBound == Spec => []StartedIsBound
<1>1. DeviceInv => StartedIsBound
    BY DEF DeviceInv, BoundInv, StartedIsBound
<1> QED BY <1>1, DeviceInvariant, PTL

\* open and close: the device has at most one socket, and somebody who will
\* close it.
THEOREM DeviceOneSocket == Spec => []OneSocket
<1>1. ASSUME DeviceInv PROVE OneSocket
    <2>1. live = {} \/ live = {gen}
        BY <1>1 DEF DeviceInv, SocketInv
    <2>2. Cardinality({}) = 0 /\ Cardinality({gen}) = 1
        BY FS_EmptySet, FS_Singleton
    <2>3. Cardinality(live) <= 1
        BY <2>1, <2>2
    <2> QED BY <1>1, <2>3 DEF DeviceInv, SocketInv, OneSocket
<1> QED BY <1>1, DeviceInvariant, PTL
=============================================================================
