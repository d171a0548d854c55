--------------------------- MODULE ServiceOperations ---------------------------
(***************************************************************************)
(* The systemd service operations of nexus-core (application/services.rs)  *)
(* on top of the session life cycle: list, plan, discard and execute, the  *)
(* four revalidators, and RemoteOperations::execute with its admission.    *)
(* The four operations have the same control and differ in their           *)
(* preconditions and operation type, so each is an instance of one set of  *)
(* actions.                                                                *)
(*                                                                         *)
(* A user-facing lock is tried and never queued for.  What a remote        *)
(* observation reports is chosen where the code looks at it.  A host has   *)
(* one service unit.                                                       *)
(***************************************************************************)
EXTENDS HostSessions

CONSTANTS
    Observable,   \* the states of the unit the remote host may report
    ServiceLimit  \* permits of Application::service_limit

VARIABLES
    sgate,        \* service_gates: the call holding the host's service gate
    permit,       \* ExecutionAdmission::global: the call holding the permit
    dispatches    \* how often each plan has been dispatched to the remote host

serviceLocks == <<sgate, permit>>

Unit == [phase : {"failed", "running", "dead", "other"}, can_reload : BOOLEAN,
         can_start : BOOLEAN]

ASSUME ServiceAssumption ==
    /\ ServiceLimit \in Nat \ {0}
    /\ Observable \subseteq Unit
    /\ Keys = Ops
    /\ Ops \subseteq {"reset_failed", "try_restart", "reload", "start"}

ServiceInit ==
    /\ HostInit
    /\ sgate = [h \in Hosts |-> Free]
    /\ permit = Free
    /\ dispatches = [p \in Plans |-> 0]

-----------------------------------------------------------------------------
\* matches of the four precondition types.
ResetFailedMatches(u) == u.phase = "failed"
TryRestartMatches(u) == u.phase = "running"
ReloadMatches(u) == u.phase = "running" /\ u.can_reload
StartMatches(u) == u.phase = "dead" /\ u.can_start

\* The operations whose preconditions an observed unit meets.
Actionable(u) ==
    {op \in Ops : \/ op = "reset_failed" /\ ResetFailedMatches(u)
                  \/ op = "try_restart" /\ TryRestartMatches(u)
                  \/ op = "reload" /\ ReloadMatches(u)
                  \/ op = "start" /\ StartMatches(u)}

BoundTo(c) == [host |-> call[c].host, session |-> call[c].conn, generation |-> call[c].gen]

CurrentBinding(h) ==
    [host |-> h, session |-> slot[h].connection, generation |-> slot[h].generation]

\* The session every service command asks for first.
HasSession(h) == slot[h].state = "Connected" /\ slot[h].connection # 0 /\ slot[h].transport # 0

\* The local state of a command that has captured the host's session.
Captured(h) == [Idle EXCEPT !.host = h, !.gen = slot[h].generation, !.conn = slot[h].connection]

Observing == {c \in Calls : call[c].pc \in {"listing", "planning", "revalidating"}}

\* try_lock of the host's service gate and try_acquire of service_limit.
MayObserve(h) == sgate[h] = Free /\ Cardinality(Observing) < ServiceLimit

TakeServiceGate(c, h) == sgate' = [sgate EXCEPT ![h] = c]
FreeServiceGate(h) == sgate' = [sgate EXCEPT ![h] = Free]

KeepSessions == UNCHANGED <<saved, slot, cancelled, closed, rotation, startup, sftp, shutdown>>

-----------------------------------------------------------------------------
(***************************************************************************)
(* list_host_services up to its observation.  The request number is taken  *)
(* before the service gate is tried, so a busy listing has already made    *)
(* older ones stale.  Executions end with a listing of the same session.   *)
(***************************************************************************)
ListBegin(c, h) ==
    /\ \/ MayStart(c) /\ RequestRoom(h)
       \/ call[c].pc = "post_list" /\ call[c].host = h /\ call[c].conn = slot[h].connection
    /\ h \in saved /\ HasSession(h)
    /\ BeginRequest(h)
    /\ IF MayObserve(h)
       THEN /\ TakeServiceGate(c, h)
            /\ Goto(c, [Captured(h) EXCEPT !.pc = "listing", !.seq = newest_request'[h]])
       ELSE Done(c) /\ UNCHANGED sgate
    /\ KeepSessions
    /\ UNCHANGED <<storeVars, gate, permit, dispatches>>

\* The listing after an execution may be refused: another session, a sealed
\* store, or the metadata lock is taken.
ListRefused(c) ==
    /\ call[c].pc = "post_list"
    /\ Done(c)
    /\ KeepSessions /\ KeepAuthority
    /\ UNCHANGED <<gate, serviceLocks, dispatches>>

\* The observation has answered: both permits are dropped, and only then is
\* the lifecycle gate tried.
ListObserved(c) ==
    /\ call[c].pc = "listing"
    /\ FreeServiceGate(call[c].host)
    /\ Done(c) \/ Goto(c, [call[c] EXCEPT !.pc = "publishing"])
    /\ KeepSessions /\ KeepAuthority
    /\ UNCHANGED <<gate, permit, dispatches>>

\* The set is published under the lifecycle gate if the session is still
\* the captured one.
ListPublish(c) ==
    /\ call[c].pc = "publishing"
    /\ gate[call[c].host] = Free
    /\ StillCurrent(c)
    /\ \E u \in Observable, out \in SUBSET Hosts, t \in ReadInstants :
          Publish(BoundTo(c), call[c].seq, Actionable(u), out, t)
    /\ Done(c)
    /\ KeepSessions
    /\ UNCHANGED <<storeVars, gate, serviceLocks, dispatches>>

ListFails(c) ==
    /\ call[c].pc = "publishing"
    /\ \/ gate[call[c].host] # Free
       \/ ~StillCurrent(c)
       \/ obs_sealed \/ newest_request[call[c].host] # call[c].seq
    /\ Done(c)
    /\ KeepSessions /\ KeepAuthority
    /\ UNCHANGED <<gate, serviceLocks, dispatches>>

-----------------------------------------------------------------------------
(***************************************************************************)
(* plan_service_*: resolve the observation, observe the unit again, then   *)
(* publish the authority under the lifecycle gate if session, preconditions*)
(* and observation all still hold.                                         *)
(***************************************************************************)
PlanBegin(c, h, op) ==
    /\ MayStart(c) /\ RequestRoom(h)
    /\ h \in saved /\ HasSession(h)
    /\ obs_sets[h] # NoSet
    /\ \E t \in ReadInstants :
          /\ Resolve(t)
          /\ IF Resolves(obs_sets[h].sequence, op, CurrentBinding(h), t) /\ MayObserve(h)
             THEN /\ TakeServiceGate(c, h)
                  /\ Goto(c, [Captured(h) EXCEPT !.pc = "planning", !.op = op,
                                                 !.seq = obs_sets[h].sequence])
             ELSE UNCHANGED <<sgate, call>>
    /\ KeepSessions
    /\ UNCHANGED <<storeVars, gate, permit, dispatches>>

PlanObserved(c) ==
    /\ call[c].pc = "planning"
    /\ FreeServiceGate(call[c].host)
    /\ \/ Done(c)
       \/ /\ \E u \in Observable : call[c].op \in Actionable(u)
          /\ Goto(c, [call[c] EXCEPT !.pc = "plan_publishing"])
    /\ KeepSessions /\ KeepAuthority
    /\ UNCHANGED <<gate, permit, dispatches>>

PlanPublish(c) ==
    /\ call[c].pc = "plan_publishing"
    /\ gate[call[c].host] = Free
    /\ StillCurrent(c)
    /\ \E t \in ReadInstants :
          Resolves(call[c].seq, call[c].op, BoundTo(c), t) /\ Resolve(t)
    /\ \E p \in Plans, t \in ReadInstants : Insert(p, BoundTo(c), BoundTo(c), call[c].op, t)
    /\ Done(c)
    /\ KeepSessions
    /\ UNCHANGED <<gate, serviceLocks, dispatches>>

\* A recheck refuses (or the pool of plan ids is used up).
PlanFails(c) ==
    /\ call[c].pc = "plan_publishing"
    /\ \/ /\ gate[call[c].host] # Free \/ ~StillCurrent(c)
          /\ UNCHANGED obsVars
       \/ /\ gate[call[c].host] = Free /\ StillCurrent(c)
          /\ \E t \in ReadInstants :
                /\ \/ ~Resolves(call[c].seq, call[c].op, BoundTo(c), t)
                   \/ sealed \/ minted = Plans
                /\ Resolve(t)
    /\ Done(c)
    /\ KeepSessions
    /\ UNCHANGED <<storeVars, gate, serviceLocks, dispatches>>

\* discard_service_*
DiscardPlan(h, op) ==
    /\ shutdown = "running"
    /\ gate[h] = Free
    /\ slot[h].state = "Connected"
    /\ \E p \in Plans, t \in ReadInstants : Discard(p, CurrentBinding(h), op, t)
    /\ KeepSessions
    /\ UNCHANGED <<obsVars, gate, call, serviceLocks, dispatches>>

-----------------------------------------------------------------------------
\* execute_service_*: the session is captured, and the slot unlocked, before
\* the plan is looked at.
ExecuteBegin(c, h, p, op) ==
    /\ MayStart(c) /\ RequestRoom(h)
    /\ p \in minted
    /\ HasSession(h)
    /\ Goto(c, [Captured(h) EXCEPT !.pc = "admitting", !.op = op, !.plan = p])
    /\ KeepSessions /\ KeepAuthority
    /\ UNCHANGED <<gate, serviceLocks, dispatches>>

\* Fault variant of Admits: the lifecycle gate is not tried.
AdmitsIgnoringGate(h) == permit = Free

\* ExecutionAdmission::try_execute
Admits(h) == gate[h] = Free /\ permit = Free

(***************************************************************************)
(* RemoteOperations::execute: the gate and the permit are tried before the *)
(* authority is consumed.                                                  *)
(***************************************************************************)
ExecuteAdmit(c) ==
    /\ call[c].pc = "admitting"
    /\ ~sealed
    /\ Admits(call[c].host)
    /\ \/ /\ \E t \in ReadInstants : Consume(call[c].plan, BoundTo(c), call[c].op, t)
          /\ gate' = [gate EXCEPT ![call[c].host] = c]
          /\ permit' = c
          /\ Goto(c, [call[c] EXCEPT !.pc = "consumed"])
       \/ /\ \E t \in ReadInstants : ConsumeExpired(call[c].plan, t)
          /\ Done(c)
          /\ UNCHANGED <<gate, permit>>
    /\ KeepSessions
    /\ UNCHANGED <<obsVars, sgate, dispatches>>

\* Shutting down, busy, or no such authority: the call fails and the plan
\* stays as it is.
ExecuteRefused(c) ==
    /\ call[c].pc = "admitting"
    /\ LET p == call[c].plan
       IN  \/ sealed \/ ~Admits(call[c].host)
           \/ ~IsPending(p)
           \/ /\ IsPending(p)
              /\ \E t \in ReadInstants : pending[p].expires_at > t
              /\ ~Matches(p, BoundTo(c), call[c].op)
    /\ Done(c)
    /\ KeepSessions /\ KeepAuthority
    /\ UNCHANGED <<gate, serviceLocks, dispatches>>

\* An execution that has consumed its authority ends: every guard is
\* released, the result is recorded, and one more listing is tried.
EndExecution(c) ==
    /\ gate' = [gate EXCEPT ![call[c].host] = Free]
    /\ permit' = Free
    /\ sgate' = [sgate EXCEPT ![call[c].host] = IF @ = c THEN Free ELSE @]
    /\ Goto(c, [Idle EXCEPT !.pc = "post_list", !.host = call[c].host, !.conn = call[c].conn])

\* revalidate, up to its observation.
ExecuteRevalidate(c) ==
    /\ call[c].pc = "consumed"
    /\ IF call[c].conn \notin cancelled[call[c].host] /\ MayObserve(call[c].host)
       THEN /\ TakeServiceGate(c, call[c].host)
            /\ Goto(c, [call[c] EXCEPT !.pc = "revalidating"])
            /\ UNCHANGED <<gate, permit>>
       ELSE EndExecution(c)
    /\ KeepSessions /\ KeepAuthority
    /\ UNCHANGED dispatches

\* revalidate after its observation; the service gate stays with the call.
ExecuteObserved(c) ==
    /\ call[c].pc = "revalidating"
    /\ \/ /\ \E u \in Observable : call[c].op \in Actionable(u)
          /\ StillCurrent(c)
          /\ Goto(c, [call[c] EXCEPT !.pc = "ready"])
          /\ UNCHANGED <<gate, serviceLocks>>
       \/ EndExecution(c)
    /\ KeepSessions /\ KeepAuthority
    /\ UNCHANGED dispatches

ExecuteDispatch(c) ==
    /\ call[c].pc = "ready"
    /\ IF sealed \/ call[c].conn \in cancelled[call[c].host]
       THEN EndExecution(c) /\ UNCHANGED dispatches
       ELSE /\ dispatches' = [dispatches EXCEPT ![call[c].plan] = @ + 1]
            /\ Goto(c, [call[c] EXCEPT !.pc = "dispatching"])
            /\ UNCHANGED <<gate, serviceLocks>>
    /\ KeepSessions /\ KeepAuthority

\* The transport has answered, whatever the outcome.
ExecuteFinish(c) ==
    /\ call[c].pc = "dispatching"
    /\ EndExecution(c)
    /\ KeepSessions /\ KeepAuthority
    /\ UNCHANGED dispatches

-----------------------------------------------------------------------------
ServiceStep(c) ==
    \/ \E h \in Hosts : call[c].pc = "post_list" /\ ListBegin(c, h)
    \/ ListRefused(c)
    \/ ListObserved(c)
    \/ ListPublish(c)
    \/ ListFails(c)
    \/ PlanObserved(c)
    \/ PlanPublish(c)
    \/ PlanFails(c)
    \/ ExecuteAdmit(c)
    \/ ExecuteRefused(c)
    \/ ExecuteRevalidate(c)
    \/ ExecuteObserved(c)
    \/ ExecuteDispatch(c)
    \/ ExecuteFinish(c)

\* One operation's commands.
Plan(op) ==
    /\ op \in Ops
    /\ \/ \E c \in Calls, h \in Hosts : PlanBegin(c, h, op)
       \/ \E h \in Hosts : DiscardPlan(h, op)

Execute(op) == op \in Ops /\ \E c \in Calls, h \in Hosts, p \in Plans : ExecuteBegin(c, h, p, op)

PlanResetFailed == Plan("reset_failed")
ExecuteResetFailed == Execute("reset_failed")
PlanTryRestart == Plan("try_restart")
ExecuteTryRestart == Execute("try_restart")
PlanReload == Plan("reload")
ExecuteReload == Execute("reload")
PlanStart == Plan("start")
ExecuteStart == Execute("start")

\* Time passes, and the expiry timers of the store run.
Timers ==
    /\ StoreTick \/ \E p \in Plans : ExpiryTimer(p)
    /\ UNCHANGED <<obsVars, sessionVars, serviceLocks, dispatches>>

serviceVars == <<hostVars, serviceLocks, dispatches>>

Advance(c) ==
    \/ SessionStep(c) /\ UNCHANGED <<serviceLocks, dispatches>>
    \/ ServiceStep(c)

\* The service commands the interface may invoke at any time, with any plan;
\* planning stands next to discarding.
ServiceCommands ==
    \/ \E c \in Calls, h \in Hosts : ListBegin(c, h)
    \/ PlanResetFailed \/ PlanTryRestart \/ PlanReload \/ PlanStart
    \/ ExecuteResetFailed \/ ExecuteTryRestart \/ ExecuteReload \/ ExecuteStart

ServiceNext ==
    \/ SessionStart /\ UNCHANGED <<serviceLocks, dispatches>>
    \/ ServiceCommands
    \/ Timers
    \/ \E c \in Calls : Advance(c)

\* As HostSpec: a command that has begun runs on.
ServiceSpec ==
    ServiceInit /\ [][ServiceNext]_serviceVars /\ \A c \in Calls : WF_serviceVars(Advance(c))

-----------------------------------------------------------------------------
ExecutionPc == {"consumed", "revalidating", "ready", "dispatching"}

Executing == {c \in Calls : call[c].pc \in ExecutionPc}

(***************************************************************************)
(* A pending service plan is always bound to the session its host has now: *)
(* no order of connects, disconnects, edits, deletions, lost transports    *)
(* and late plan_service_* results leaves authority behind for a session   *)
(* that is gone.  (While a command holds the lifecycle gate it may be in   *)
(* the middle of revoking; nothing is consumed without that gate.)         *)
(***************************************************************************)
AuthorityIsCurrent ==
    \A p \in Plans : IsPending(p) =>
        LET h == pending[p].binding.host
        IN  gate[h] = Free =>
               slot[h].state = "Connected" /\ pending[p].binding = CurrentBinding(h)

(***************************************************************************)
(* The same of service observations, which are published by listings that  *)
(* hold no lock while they wait for the remote host.                       *)
(***************************************************************************)
ObservationIsCurrent ==
    \A h \in Hosts : obs_sets[h] # NoSet /\ gate[h] = Free =>
        slot[h].state = "Connected" /\ obs_sets[h].binding = CurrentBinding(h)

(***************************************************************************)
(* From the moment execute consumes an authority until the transport has   *)
(* answered, the host's session is the one the plan was bound to: the      *)
(* session was captured before the gate was taken, and the life cycle may  *)
(* not overtake a running execution.                                       *)
(***************************************************************************)
ExecutesOnBoundSession ==
    \A c \in Executing :
        /\ slot[call[c].host].state = "Connected"
        /\ BoundTo(c) = CurrentBinding(call[c].host)
        /\ call[c].plan \in granted

(***************************************************************************)
(* A plan reaches the remote host at most once, however often and from     *)
(* however many commands it is executed.                                   *)
(***************************************************************************)
DispatchedAtMostOnce == \A p \in Plans : dispatches[p] <= 1

=============================================================================
