---------------------------- MODULE HostSessions ----------------------------
(***************************************************************************)
(* The life cycle of a host's SSH session in nexus-core (application/      *)
(* connection.rs, lifecycle.rs, hosts.rs, identity.rs, rotation.rs, the    *)
(* SFTP session of files.rs, and Application::shutdown).                   *)
(*                                                                         *)
(* A call is one asynchronous command.  Two locks matter: the host's       *)
(* lifecycle gate, held by a command for as long as the code holds the     *)
(* guard, and the host's SFTP startup gate.  A section that awaits nothing *)
(* but local mutexes is one action; a wait for the network, for secure     *)
(* storage or for another subsystem ends an action.                        *)
(*                                                                         *)
(* A connection attempt is named by the generation it begins with.  Its    *)
(* CancellationToken, its transport and its HostSessionId are created by   *)
(* that attempt and by no other, so all three carry the attempt's number;  *)
(* 0 is the token of a fresh slot and stands for an absent transport or    *)
(* session id.                                                             *)
(***************************************************************************)
EXTENDS AuthorityStore, ServiceObservations

CONSTANTS
    Calls,      \* commands that may be in flight at the same time
    MaxGen,     \* bound on generations
    Free, NoHost, NoOp

ASSUME SessionAssumption ==
    /\ MaxGen \in Nat
    /\ 0..MaxGen \subseteq Generations
    /\ 0..MaxGen \subseteq Sessions
    /\ IsFiniteSet(Calls) /\ Free \notin Calls
    /\ NoHost \notin Hosts
    /\ NoOp \notin Ops

VARIABLES
    saved,      \* hosts in the repository
    slot,       \* SessionSlot.data of each host
    cancelled,  \* tokens that have been cancelled
    closed,     \* transports the remote host has closed
    rotation,   \* rotation_plans: the generation of the host's plan
    gate,       \* the lifecycle gate of each host: the call holding it
    startup,    \* the SFTP startup gate of each host
    sftp,       \* sftp_sessions: the connection the open session belongs to
    call,       \* the local state of each call
    shutdown    \* how far Application::shutdown has come

sessionVars == <<saved, slot, cancelled, closed, rotation, gate, startup, sftp, call, shutdown>>

NoRotation == 0

Idle == [pc |-> "idle", host |-> NoHost, gen |-> 0, conn |-> 0, seq |-> 0,
         op |-> NoOp, plan |-> NoPlan]

SessionInit ==
    /\ saved = Hosts
    /\ slot = [h \in Hosts |->
                 [state |-> "Disconnected", error |-> "none", generation |-> 0, token |-> 0,
                  transport |-> 0, connection |-> 0, refreshing |-> FALSE]]
    /\ cancelled = [h \in Hosts |-> {}]
    /\ closed = [h \in Hosts |-> {}]
    /\ rotation = [h \in Hosts |-> NoRotation]
    /\ gate = [h \in Hosts |-> Free]
    /\ startup = [h \in Hosts |-> Free]
    /\ sftp = [h \in Hosts |-> 0]
    /\ call = [c \in Calls |-> Idle]
    /\ shutdown = "running"

-----------------------------------------------------------------------------
\* ConnectionState::transition; a call that it refuses publishes nothing, and
\* one that is never let through would never return.
CanTransition(from, to) ==
    \/ from = to
    \/ from \in {"Disconnected", "Failed", "AwaitingTrust"} /\ to = "Connecting"
    \/ from = "Connecting" /\ to \in {"Connected", "AwaitingTrust", "Failed", "Disconnecting"}
    \/ from = "Connected" /\ to \in {"Disconnecting", "Failed"}
    \/ from = "Disconnecting" /\ to \in {"Disconnected", "Failed"}
    \/ from \in {"AwaitingTrust", "Failed"} /\ to = "Disconnected"

InUse(h) == slot[h].state \in {"Connecting", "Connected", "Disconnecting"}

\* HostSession::disconnected together with a cleared connection id.
DisconnectedSlot(s) ==
    [s EXCEPT !.state = "Disconnected", !.error = "none", !.connection = 0]

\* Bounds: room for the request numbers and the generations that the calls
\* in flight and one more call may still use.
RequestRoom(h) ==
    newest_request[h] + Cardinality({c \in Calls : call[c].host = h}) + 2 <= MaxRequests

Room(h) ==
    /\ RequestRoom(h)
    /\ slot[h].generation + Cardinality({c \in Calls : call[c].host = h}) + 2 <= MaxGen

\* Commands are admitted until shutdown begins.
MayStart(c) == call[c] = Idle /\ shutdown = "running"

Goto(c, local) == call' = [call EXCEPT ![c] = local]
Done(c) == Goto(c, Idle)
Cancel(h) == cancelled' = [cancelled EXCEPT ![h] = @ \cup {slot[h].token}]

\* Fault variants of RevokeHostAuthority: one of the two stores is forgotten.
RevokePlansOnly(h) == RevokeHost(h) /\ UNCHANGED obsVars
RevokeObservationsOnly(h) == ObsRevokeHost(h) /\ UNCHANGED storeVars

RevokeHostAuthority(h) == RevokeHost(h) /\ ObsRevokeHost(h)

KeepAuthority == UNCHANGED <<storeVars, obsVars>>

\* The session a call captured is still the host's current one: the recheck
\* every session-bound command makes after it has waited for the network.
\* Token and transport are the captured ones.
StillCurrent(c) ==
    LET h == call[c].host
    IN  /\ call[c].conn \notin cancelled[h]
        /\ call[c].conn \notin closed[h]
        /\ slot[h].generation = call[c].gen
        /\ slot[h].state = "Connected"
        /\ slot[h].connection = call[c].conn
        /\ slot[h].transport = call[c].conn

-----------------------------------------------------------------------------
(***************************************************************************)
(* connect_host, up to the release of the gate.  Pending plans and         *)
(* observations of the host are revoked before anything is checked, so a   *)
(* refused call revokes them too.                                          *)
(***************************************************************************)
ConnectEntry(c, h) ==
    /\ \/ MayStart(c) /\ Room(h)
       \/ call[c].pc = "reconnect" /\ call[c].host = h
    /\ gate[h] = Free
    /\ RevokeHostAuthority(h)

ConnectBegin(c, h) ==
    /\ ConnectEntry(c, h)
    /\ h \in saved /\ ~InUse(h)
    /\ CanTransition(slot[h].state, "Connecting")
    /\ LET g == slot[h].generation + 1
       IN  /\ slot' = [slot EXCEPT ![h] =
                         [state |-> "Connecting", error |-> "none", generation |-> g,
                          token |-> g, transport |-> 0, connection |-> 0,
                          refreshing |-> FALSE]]
           /\ Goto(c, [Idle EXCEPT !.pc = "establishing", !.host = h, !.gen = g, !.conn = g])
    /\ Cancel(h)
    /\ rotation' = [rotation EXCEPT ![h] = NoRotation]
    /\ UNCHANGED <<saved, closed, gate, startup, sftp, shutdown>>

ConnectRefused(c, h) ==
    /\ ConnectEntry(c, h)
    /\ h \notin saved \/ InUse(h)
    /\ rotation' = [rotation EXCEPT ![h] = IF h \in saved THEN NoRotation ELSE @]
    /\ Done(c)
    /\ UNCHANGED <<saved, slot, cancelled, closed, gate, startup, sftp, shutdown>>

\* Fault variant of Overtaken: results are published without a recheck.
NeverOvertaken(c) == FALSE

\* The attempt of call c has been overtaken: its result may not be published.
Overtaken(c) ==
    \/ slot[call[c].host].generation # call[c].gen
    \/ call[c].conn \in cancelled[call[c].host]

\* What the establish step of connect_host may report for an attempt that
\* has not been overtaken.
EstablishOutcome ==
    {[state |-> "Connected", error |-> "none"], [state |-> "AwaitingTrust", error |-> "host_key"],
     [state |-> "Failed", error |-> "host_key"], [state |-> "Failed", error |-> "other"]}

(***************************************************************************)
(* connect_host after establish: publish the outcome unless the attempt    *)
(* has been overtaken meanwhile.                                           *)
(***************************************************************************)
ConnectFinish(c) ==
    /\ call[c].pc = "establishing"
    /\ LET h == call[c].host
           g == call[c].conn
       IN  \/ Overtaken(c) /\ UNCHANGED slot
           \/ /\ ~Overtaken(c)
              /\ \E o \in EstablishOutcome :
                    /\ CanTransition(slot[h].state, o.state)
                    /\ slot' = [slot EXCEPT
                        ![h].state = o.state,
                        ![h].error = o.error,
                        ![h].transport = IF o.state = "Connected" THEN g ELSE 0,
                        ![h].connection = IF o.state = "Connected" THEN g ELSE @]
    /\ Done(c)
    /\ KeepAuthority
    /\ UNCHANGED <<saved, cancelled, closed, rotation, gate, startup, sftp, shutdown>>

-----------------------------------------------------------------------------
(***************************************************************************)
(* disconnect_host, delete_host and the first half of reconnect_host:      *)
(* take the gate and prepare_disconnect.                                   *)
(***************************************************************************)
DisconnectBegin(c, h, pc) ==
    /\ MayStart(c) /\ Room(h)
    /\ gate[h] = Free
    /\ h \in saved
    /\ RevokeHostAuthority(h)
    /\ rotation' = [rotation EXCEPT ![h] = NoRotation]
    /\ slot' = [slot EXCEPT ![h].generation = @ + 1,
                            ![h].refreshing = FALSE,
                            ![h].state = IF @ \in {"Connecting", "Connected"}
                                         THEN "Disconnecting" ELSE @]
    /\ IF slot[h].state = "Connecting" THEN Cancel(h) ELSE UNCHANGED cancelled
    /\ gate' = [gate EXCEPT ![h] = c]
    /\ Goto(c, [Idle EXCEPT !.pc = pc, !.host = h, !.conn = slot[h].connection])
    /\ UNCHANGED <<saved, closed, startup, sftp, shutdown>>

ClosingPc == {"closing", "closing_delete", "closing_reconnect"}

\* Fault variant of CloseSftp: the closed session stays registered.
CloseSftpForgets(h, s) == startup[h] = Free /\ UNCHANGED sftp

\* close_sftp: removes the host's SFTP session if it belongs to connection s.
CloseSftp(h, s) ==
    /\ startup[h] = Free
    /\ sftp' = [sftp EXCEPT ![h] = IF @ = s THEN 0 ELSE @]

(***************************************************************************)
(* finish_disconnect: close the SFTP session of the connection, then drop  *)
(* the session.  delete_host still holds the gate afterwards;              *)
(* reconnect_host gives it up and queues for it again.                     *)
(***************************************************************************)
DisconnectFinish(c) ==
    /\ call[c].pc \in ClosingPc
    /\ LET h == call[c].host
       IN  /\ IF call[c].conn # 0 THEN CloseSftp(h, call[c].conn) ELSE UNCHANGED sftp
           /\ Cancel(h)
           /\ slot' = [slot EXCEPT ![h] = [DisconnectedSlot(@) EXCEPT !.transport = 0]]
           /\ \/ /\ call[c].pc = "closing_delete"
                 /\ Goto(c, [call[c] EXCEPT !.pc = "deleting"])
                 /\ UNCHANGED gate
              \/ /\ call[c].pc = "closing_reconnect"
                 /\ Goto(c, [Idle EXCEPT !.pc = "reconnect", !.host = h])
                 /\ gate' = [gate EXCEPT ![h] = Free]
              \/ /\ call[c].pc = "closing"
                 /\ Done(c)
                 /\ gate' = [gate EXCEPT ![h] = Free]
    /\ KeepAuthority
    /\ UNCHANGED <<saved, closed, rotation, startup, shutdown>>

\* finish_disconnect when close_sftp fails (transfers do not quiesce): the
\* session stays as it is, with the error on its view, and the call returns.
DisconnectFails(c) ==
    /\ call[c].pc \in ClosingPc /\ call[c].conn # 0
    /\ LET h == call[c].host
       IN  /\ startup[h] = Free
           /\ slot' = [slot EXCEPT ![h].error = "other"]
           /\ gate' = [gate EXCEPT ![h] = Free]
    /\ Done(c)
    /\ KeepAuthority
    /\ UNCHANGED <<saved, cancelled, closed, rotation, startup, sftp, shutdown>>

\* delete_host: the metadata goes last, under the same gate, or stays if the
\* repository refuses.
DeleteCommit(c) ==
    /\ call[c].pc = "deleting"
    /\ LET h == call[c].host
       IN  /\ saved' \in {saved, saved \ {h}}
           /\ rotation' = [rotation EXCEPT ![h] = IF h \in saved' THEN @ ELSE NoRotation]
           /\ gate' = [gate EXCEPT ![h] = Free]
    /\ Done(c)
    /\ KeepAuthority
    /\ UNCHANGED <<slot, cancelled, closed, startup, sftp, shutdown>>

-----------------------------------------------------------------------------
RemotelyClosed(h) == slot[h].state = "Connected" /\ slot[h].transport \in closed[h]

\* get_session that finds the transport closed queues for the gate; one that
\* does not only reads the view.
SessionPoll(c, h) ==
    /\ MayStart(c) /\ Room(h)
    /\ h \in saved
    /\ RemotelyClosed(h)
    /\ Goto(c, [Idle EXCEPT !.pc = "session_close", !.host = h])
    /\ KeepAuthority
    /\ UNCHANGED <<saved, slot, cancelled, closed, rotation, gate, startup, sftp, shutdown>>

\* get_session with the gate: look again, and fail the session if it is
\* still the closed one.  The connection id leaves the slot here.
SessionClose(c) ==
    /\ call[c].pc = "session_close"
    /\ LET h == call[c].host
       IN  /\ gate[h] = Free
           /\ IF RemotelyClosed(h)
              THEN /\ slot' = [slot EXCEPT ![h] =
                         [@ EXCEPT !.state = "Failed", !.error = "other", !.transport = 0,
                                   !.generation = slot[h].generation + 1, !.connection = 0,
                                   !.refreshing = FALSE]]
                   /\ Cancel(h)
                   /\ gate' = [gate EXCEPT ![h] = c]
                   /\ Goto(c, [call[c] EXCEPT !.pc = "session_revoke",
                                              !.conn = slot[h].connection])
              ELSE Done(c) /\ UNCHANGED <<slot, cancelled, gate>>
    /\ KeepAuthority
    /\ UNCHANGED <<saved, closed, rotation, startup, sftp, shutdown>>

SessionRevoke(c) ==
    /\ call[c].pc = "session_revoke"
    /\ RevokeSession(call[c].host, call[c].conn)
    /\ ObsRevokeSession(call[c].host, call[c].conn)
    /\ Goto(c, [call[c] EXCEPT !.pc = "session_sftp"])
    /\ UNCHANGED <<saved, slot, cancelled, closed, rotation, gate, startup, sftp, shutdown>>

\* The last step of get_session; close_sftp may fail and leave its session.
SessionSftp(c) ==
    /\ call[c].pc = "session_sftp"
    /\ LET h == call[c].host
       IN  /\ \/ CloseSftp(h, call[c].conn)
              \/ startup[h] = Free /\ UNCHANGED sftp
           /\ gate' = [gate EXCEPT ![h] = Free]
    /\ Done(c)
    /\ KeepAuthority
    /\ UNCHANGED <<saved, slot, cancelled, closed, rotation, startup, shutdown>>

-----------------------------------------------------------------------------
\* refresh_host takes no gate: it marks the slot, discovers, and publishes
\* only if the session has not changed meanwhile.
RefreshBegin(c, h) ==
    /\ MayStart(c) /\ Room(h)
    /\ h \in saved
    /\ slot[h].state = "Connected" /\ ~slot[h].refreshing /\ slot[h].transport # 0
    /\ slot' = [slot EXCEPT ![h].refreshing = TRUE]
    /\ Goto(c, [Idle EXCEPT !.pc = "refreshing", !.host = h,
                            !.gen = slot[h].generation, !.conn = slot[h].token])
    /\ KeepAuthority
    /\ UNCHANGED <<saved, cancelled, closed, rotation, gate, startup, sftp, shutdown>>

\* Fault variant of RefreshFinish: a failed discovery returns at once.
RefreshFinishKeepsFlag(c) ==
    /\ call[c].pc = "refreshing"
    /\ Done(c)
    /\ KeepAuthority
    /\ UNCHANGED <<saved, slot, cancelled, closed, rotation, gate, startup, sftp, shutdown>>

RefreshFinish(c) ==
    /\ call[c].pc = "refreshing"
    /\ slot' = IF Overtaken(c) THEN slot
               ELSE [slot EXCEPT ![call[c].host].refreshing = FALSE]
    /\ Done(c)
    /\ KeepAuthority
    /\ UNCHANGED <<saved, cancelled, closed, rotation, gate, startup, sftp, shutdown>>

-----------------------------------------------------------------------------
\* save_host on an existing host: refused while the session is in use.  It
\* leaves transport and refreshing alone.
SaveHost(h) ==
    /\ shutdown = "running" /\ Room(h)
    /\ gate[h] = Free
    /\ h \in saved /\ ~InUse(h)
    /\ RevokeHostAuthority(h)
    /\ rotation' = [rotation EXCEPT ![h] = NoRotation]
    /\ slot' = [slot EXCEPT ![h] =
                  [DisconnectedSlot(@) EXCEPT !.generation = slot[h].generation + 1]]
    /\ Cancel(h)
    /\ UNCHANGED <<saved, closed, gate, startup, sftp, call, shutdown>>

\* trust_host_key: the challenge on the view is accepted.
TrustHostKey(h) ==
    /\ shutdown = "running"
    /\ gate[h] = Free
    /\ h \in saved
    /\ slot[h].state = "AwaitingTrust" /\ slot[h].error = "host_key"
    /\ rotation' = [rotation EXCEPT ![h] = NoRotation]
    /\ slot' = [slot EXCEPT ![h].state = "Disconnected", ![h].error = "none"]
    /\ KeepAuthority
    /\ UNCHANGED <<saved, cancelled, closed, gate, startup, sftp, call, shutdown>>

\* changed_challenge: the session failed because the host key has changed.
ChangedKey(h) ==
    /\ slot[h].state = "Failed" /\ slot[h].error = "host_key"
    /\ slot[h].connection = 0 /\ slot[h].transport = 0

\* plan_host_key_rotation retires the previous plan even when it refuses.
PlanRotation(h) ==
    /\ shutdown = "running"
    /\ gate[h] = Free
    /\ rotation' = [rotation EXCEPT ![h] = IF h \in saved /\ ChangedKey(h)
                                           THEN slot[h].generation ELSE NoRotation]
    /\ KeepAuthority
    /\ UNCHANGED <<saved, slot, cancelled, closed, gate, startup, sftp, call, shutdown>>

\* execute_host_key_rotation consumes the plan before it checks it.
ExecuteRotation(h) ==
    /\ shutdown = "running" /\ Room(h)
    /\ gate[h] = Free
    /\ rotation[h] # NoRotation
    /\ rotation' = [rotation EXCEPT ![h] = NoRotation]
    /\ IF h \in saved /\ slot[h].generation = rotation[h] /\ ChangedKey(h)
       THEN /\ slot' = [slot EXCEPT ![h] =
                          [DisconnectedSlot(@) EXCEPT !.generation = slot[h].generation + 1,
                                                      !.transport = 0, !.refreshing = FALSE]]
            /\ Cancel(h)
       ELSE UNCHANGED <<slot, cancelled>>
    /\ KeepAuthority
    /\ UNCHANGED <<saved, closed, gate, startup, sftp, call, shutdown>>

-----------------------------------------------------------------------------
\* open_sftp holds the startup gate while it opens the subsystem.  The guard
\* leaves out the call that finds the session already open.
OpenSftpBegin(c, h) ==
    /\ MayStart(c) /\ Room(h)
    /\ h \in saved
    /\ startup[h] = Free
    /\ slot[h].state = "Connected" /\ slot[h].transport # 0 /\ slot[h].connection # 0
    /\ sftp[h] # slot[h].connection
    /\ startup' = [startup EXCEPT ![h] = c]
    /\ Goto(c, [Idle EXCEPT !.pc = "opening_sftp", !.host = h,
                            !.gen = slot[h].generation, !.conn = slot[h].connection])
    /\ KeepAuthority
    /\ UNCHANGED <<saved, slot, cancelled, closed, rotation, gate, sftp, shutdown>>

\* Fault variant of OpenSftpFinish: it waits for the lifecycle gate while it
\* holds the startup gate.
OpenSftpFinishUnderGate(c) ==
    /\ call[c].pc = "opening_sftp"
    /\ gate[call[c].host] = Free
    /\ sftp' = [sftp EXCEPT ![call[c].host] = call[c].conn]
    /\ startup' = [startup EXCEPT ![call[c].host] = Free]
    /\ Done(c)
    /\ KeepAuthority
    /\ UNCHANGED <<saved, slot, cancelled, closed, rotation, gate, shutdown>>

\* SshSession::open_sftp: a closed transport, a refused channel or subsystem,
\* no reply in time, or a session over before the reply.
SftpUnavailable == UNCHANGED sftp

OpenSftpFinish(c) ==
    /\ call[c].pc = "opening_sftp"
    /\ LET h == call[c].host
       IN  /\ \/ SftpUnavailable
              \/ /\ slot[h].generation = call[c].gen
                 /\ slot[h].connection = call[c].conn
                 /\ slot[h].state = "Connected"
                 /\ sftp' = [sftp EXCEPT ![h] = call[c].conn]
           /\ startup' = [startup EXCEPT ![h] = Free]
    /\ Done(c)
    /\ KeepAuthority
    /\ UNCHANGED <<saved, slot, cancelled, closed, rotation, gate, shutdown>>

\* The remote host closes a published transport.
TransportCloses(h) ==
    /\ slot[h].transport # 0
    /\ closed' = [closed EXCEPT ![h] = @ \cup {slot[h].transport}]
    /\ KeepAuthority
    /\ UNCHANGED <<saved, slot, cancelled, rotation, gate, startup, sftp, call, shutdown>>

-----------------------------------------------------------------------------
(***************************************************************************)
(* Application::shutdown.  The desktop drains commands before it calls     *)
(* shutdown; here the seal may land earlier, while commands are still in   *)
(* flight, and only the teardown waits for the drain.  A teardown whose    *)
(* close_sftp fails may be repeated from the start.                        *)
(***************************************************************************)
ShutdownSeal ==
    /\ shutdown = "running"
    /\ shutdown' = "sealed"
    /\ SealAndRevokeAll
    /\ ObsSealAndRevokeAll
    /\ UNCHANGED <<saved, slot, cancelled, closed, rotation, gate, startup, sftp, call>>

ShutdownMark ==
    /\ shutdown = "sealed"
    /\ \A c \in Calls : call[c] = Idle
    /\ \A h \in Hosts : slot[h].generation < MaxGen
    /\ shutdown' = "marked"
    /\ rotation' = [h \in Hosts |-> NoRotation]
    /\ slot' = [h \in Hosts |->
                  [slot[h] EXCEPT !.generation = @ + 1, !.refreshing = FALSE,
                                  !.state = IF @ = "Connected" THEN "Disconnecting" ELSE @]]
    /\ cancelled' = [h \in Hosts |->
                       IF slot[h].state = "Connecting" THEN cancelled[h] \cup {slot[h].token}
                       ELSE cancelled[h]]
    /\ KeepAuthority
    /\ UNCHANGED <<saved, closed, gate, startup, sftp, call>>

ShutdownSftp(h) ==
    /\ shutdown = "marked"
    /\ sftp[h] # 0
    /\ \/ CloseSftp(h, sftp[h]) /\ UNCHANGED shutdown
       \/ shutdown' = "sealed" /\ UNCHANGED sftp
    /\ KeepAuthority
    /\ UNCHANGED <<saved, slot, cancelled, closed, rotation, gate, startup, call>>

ShutdownFinish ==
    /\ shutdown = "marked"
    /\ \A h \in Hosts : sftp[h] = 0
    /\ shutdown' = "done"
    /\ cancelled' = [h \in Hosts |-> cancelled[h] \cup {slot[h].token}]
    /\ slot' = [h \in Hosts |->
                  [DisconnectedSlot(slot[h]) EXCEPT !.refreshing = FALSE, !.transport = 0]]
    /\ KeepAuthority
    /\ UNCHANGED <<saved, closed, rotation, gate, startup, sftp, call>>

-----------------------------------------------------------------------------
\* Steps of a call that has begun: they happen without a new user action.
SessionStep(c) ==
    \/ \E h \in Hosts : call[c].pc = "reconnect" /\ (ConnectBegin(c, h) \/ ConnectRefused(c, h))
    \/ ConnectFinish(c)
    \/ DisconnectFinish(c)
    \/ DisconnectFails(c)
    \/ DeleteCommit(c)
    \/ SessionClose(c)
    \/ SessionRevoke(c)
    \/ SessionSftp(c)
    \/ RefreshFinish(c)
    \/ OpenSftpFinish(c)

\* The commands the interface may invoke at any time.  Those without a call
\* are single sections.
SessionCommands ==
    \/ \E c \in Calls, h \in Hosts :
          \/ ConnectBegin(c, h)
          \/ ConnectRefused(c, h)
          \/ \E pc \in ClosingPc : DisconnectBegin(c, h, pc)
          \/ SessionPoll(c, h)
          \/ RefreshBegin(c, h)
          \/ OpenSftpBegin(c, h)
    \/ \E h \in Hosts :
          \/ SaveHost(h)
          \/ TrustHostKey(h)
          \/ PlanRotation(h)
          \/ ExecuteRotation(h)

\* Commands, the remote host and shutdown.
SessionStart ==
    \/ SessionCommands
    \/ \E h \in Hosts : TransportCloses(h) \/ ShutdownSftp(h)
    \/ ShutdownSeal
    \/ ShutdownMark
    \/ ShutdownFinish

hostVars == <<storeVars, obsVars, sessionVars>>

HostInit == StoreInit /\ ObsInit /\ SessionInit

HostNext == SessionStart \/ \E c \in Calls : SessionStep(c)

\* A command that has begun runs on: the runtime polls it, network waits end
\* by timeout, and tokio mutexes are granted in order.
HostSpec == HostInit /\ [][HostNext]_hostVars /\ \A c \in Calls : WF_hostVars(SessionStep(c))

-----------------------------------------------------------------------------

(***************************************************************************)
(* A session shown as Connected is the one the last connection attempt     *)
(* published: transport, session id and token belong to the attempt of the *)
(* current generation and that attempt has not been cancelled.  A late     *)
(* result of connect_host can therefore never be published over a          *)
(* disconnect, an edit or a newer attempt.                                 *)
(***************************************************************************)
ConnectedIsCurrent ==
    \A h \in Hosts : slot[h].state = "Connected" =>
        /\ slot[h].connection = slot[h].generation
        /\ slot[h].transport = slot[h].generation
        /\ slot[h].token = slot[h].generation
        /\ slot[h].token \notin cancelled[h]

(***************************************************************************)
(* The refreshing flag cannot get stuck: while it is set, a refresh is in  *)
(* flight that will clear it.  refresh_host returns without clearing the   *)
(* flag when it has been overtaken, so whoever overtakes it must clear it. *)
(***************************************************************************)
RefreshingIsOwned ==
    \A h \in Hosts : slot[h].refreshing =>
        \E c \in Calls : call[c].pc = "refreshing" /\ call[c].host = h /\ ~Overtaken(c)

(***************************************************************************)
(* Once no command is working on a host, an SFTP session is left open only *)
(* for the host's current connection, or for one whose transport the       *)
(* remote host has closed (get_session gives up its id before close_sftp,  *)
(* which may fail).                                                        *)
(***************************************************************************)
SftpBelongsToSession ==
    \A h \in Hosts :
        /\ gate[h] = Free /\ startup[h] = Free /\ sftp[h] # 0
        => sftp[h] = slot[h].connection \/ sftp[h] \in closed[h]

(***************************************************************************)
(* No command waits for ever on a gate, whoever holds it and however the   *)
(* commands of a host interleave: every command returns.                   *)
(***************************************************************************)
CommandsReturn == \A c \in Calls : call[c] # Idle ~> call[c] = Idle
=============================================================================
