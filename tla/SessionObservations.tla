------------------------- MODULE SessionObservations -------------------------
(***************************************************************************)
(* The session-bound reads of a host that need no plan: the monitor sample *)
(* (application/monitoring.rs) and the network, log and container listings *)
(* (network.rs, logs.rs, containers.rs), composed with the life cycle of   *)
(* the session they read through.  Only the monitor keeps anything: the    *)
(* baseline the next sample's rates are computed from.                     *)
(*                                                                         *)
(* A read is a call whose pc names what it reads.  It holds its own gate   *)
(* of the host, which no other command asks for, so the gate is not a      *)
(* variable: it is held while a call has that pc.                          *)
(***************************************************************************)
EXTENDS HostSessions

CONSTANTS
    Listings,   \* the listings of this model; all three run the same steps
    ReadLimit   \* network_limit, log_limit and container_limit

ASSUME ReadAssumption ==
    /\ Listings \subseteq {"network", "logs", "containers"}
    /\ ReadLimit \in Nat

VARIABLE baseline   \* monitor_baselines: the connection of the host's baseline

observedVars == <<hostVars, baseline>>

ObservedInit == HostInit /\ baseline = [h \in Hosts |-> 0]

-----------------------------------------------------------------------------
\* clear_monitor and remove_monitor
ClearMonitor(h) == baseline' = [baseline EXCEPT ![h] = 0]
KeepMonitor == UNCHANGED baseline

Reading(what) == {c \in Calls : call[c].pc = what}

\* The per-host gate; a listing does not queue for it, and it also needs one
\* of the permits all hosts share.
Admitted(h, what) ==
    /\ \A c \in Reading(what) : call[c].host # h
    /\ what # "monitor" => Cardinality(Reading(what)) < ReadLimit

\* A read begins on the connection the caller named, which must be the
\* current one.  A call that is refused changes nothing.
ReadBegin(c, h, what) ==
    /\ MayStart(c)
    /\ h \in saved
    /\ slot[h].state = "Connected" /\ slot[h].connection # 0 /\ slot[h].transport # 0
    /\ Admitted(h, what)
    /\ Goto(c, [Idle EXCEPT !.pc = what, !.host = h,
                            !.gen = slot[h].generation, !.conn = slot[h].connection])
    /\ KeepAuthority /\ KeepMonitor
    /\ UNCHANGED <<saved, slot, cancelled, closed, rotation, gate, startup, sftp, shutdown>>

SampleHostMonitor(c, h) == ReadBegin(c, h, "monitor")

\* Four commands (interfaces, routes, listening ports, DNS) are "network".
ListHost(c, h) == \E what \in Listings : ReadBegin(c, h, what)

\* Fault variant of SampleIsCurrent: the read is taken for current.
SampleAlwaysCurrent(c) == TRUE

\* The recheck of sample_host_monitor, made with the slot locked until the
\* baseline is in.  Unlike StillCurrent it does not ask the transport.
SampleIsCurrent(c) ==
    LET h == call[c].host
    IN  /\ call[c].conn \notin cancelled[h]
        /\ slot[h].generation = call[c].gen
        /\ slot[h].state = "Connected"
        /\ slot[h].connection = call[c].conn

\* The sample replaces the baseline.
SampleFinish(c) ==
    /\ call[c].pc = "monitor"
    /\ SampleIsCurrent(c)
    /\ baseline' = [baseline EXCEPT ![call[c].host] = call[c].conn]
    /\ Done(c)
    /\ KeepAuthority
    /\ UNCHANGED <<saved, slot, cancelled, closed, rotation, gate, startup, sftp, shutdown>>

\* A listing is answered, and nothing of it retained; or a read fails, or is
\* refused because its session is over.
ReadFinish(c) ==
    /\ call[c].pc \in Listings \cup {"monitor"}
    /\ Done(c)
    /\ KeepAuthority /\ KeepMonitor
    /\ UNCHANGED <<saved, slot, cancelled, closed, rotation, gate, startup, sftp, shutdown>>

-----------------------------------------------------------------------------
(***************************************************************************)
(* The life cycle and what it does to the baseline.                        *)
(***************************************************************************)
ObservedConnect(c, h) == ConnectBegin(c, h) /\ ClearMonitor(h)

ObservedDisconnect(c, h, pc) == DisconnectBegin(c, h, pc) /\ ClearMonitor(h)

ObservedRevoke(c) == SessionRevoke(c) /\ ClearMonitor(call[c].host)

ObservedSave(h) == SaveHost(h) /\ ClearMonitor(h)

ObservedDelete(c) ==
    /\ DeleteCommit(c)
    /\ IF call[c].host \in saved' THEN KeepMonitor ELSE ClearMonitor(call[c].host)

ObservedShutdown == ShutdownFinish /\ baseline' = [h \in Hosts |-> 0]

\* Steps of a call that has begun.
ObservedStep(c) ==
    \/ \E h \in Hosts :
          /\ call[c].pc = "reconnect"
          /\ ObservedConnect(c, h) \/ (ConnectRefused(c, h) /\ KeepMonitor)
    \/ ObservedRevoke(c)
    \/ ObservedDelete(c)
    \/ SampleFinish(c)
    \/ ReadFinish(c)
    \/ /\ \/ ConnectFinish(c)
          \/ DisconnectFinish(c)
          \/ DisconnectFails(c)
          \/ SessionClose(c)
          \/ SessionSftp(c)
          \/ RefreshFinish(c)
          \/ OpenSftpFinish(c)
       /\ KeepMonitor

\* The reads the interface may ask for at any time.
ReadCommands(c, h) == SampleHostMonitor(c, h) \/ ListHost(c, h)

\* Commands, the remote host and shutdown.
ObservedStart ==
    \/ \E c \in Calls, h \in Hosts :
          \/ ObservedConnect(c, h)
          \/ \E pc \in ClosingPc : ObservedDisconnect(c, h, pc)
          \/ ReadCommands(c, h)
          \/ /\ \/ ConnectRefused(c, h)
                \/ SessionPoll(c, h)
                \/ RefreshBegin(c, h)
                \/ OpenSftpBegin(c, h)
             /\ KeepMonitor
    \/ \E h \in Hosts :
          \/ ObservedSave(h)
          \/ /\ \/ TrustHostKey(h)
                \/ PlanRotation(h)
                \/ ExecuteRotation(h)
                \/ TransportCloses(h)
                \/ ShutdownSftp(h)
             /\ KeepMonitor
    \/ (ShutdownSeal \/ ShutdownMark) /\ KeepMonitor
    \/ ObservedShutdown

ObservedNext == ObservedStart \/ \E c \in Calls : ObservedStep(c)

\* As in HostSpec, a command that has begun runs on; a read's remote commands
\* are under a timeout.
ObservedSpec ==
    /\ ObservedInit
    /\ [][ObservedNext]_observedVars
    /\ \A c \in Calls : WF_observedVars(ObservedStep(c))

-----------------------------------------------------------------------------
(***************************************************************************)
(* A baseline is never left behind by a session: it belongs to the         *)
(* connection the host has now, which is still usable, except for the      *)
(* moment in which get_session is cleaning up after a closed transport,    *)
(* and while shutdown is closing the sessions: when it is done, none is    *)
(* left.                                                                   *)
(* sample_host_monitor holds no lifecycle gate, so a sample may be under   *)
(* way while its host is disconnected, edited, deleted or connected again. *)
(***************************************************************************)
BaselineIsCurrent ==
    \A h \in Hosts : baseline[h] # 0 /\ shutdown \in {"running", "done"} =>
        \/ slot[h].state = "Connected" /\ slot[h].connection = baseline[h]
        \/ \E c \in Calls : call[c].pc = "session_revoke" /\ call[c].host = h
=============================================================================
