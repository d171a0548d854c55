# NexusOps: models, checks and proofs

NexusOps is a desktop application (Tauri, Rust core, React interface) for
operating Linux hosts over SSH. This directory models the parts of it whose
correctness depends on the order in which things happen: who may still act on a
host once its session has changed, what can be said about a remote command or a
file after a reply was lost, what survives a crash, and how the process stops.
The models are TLA+; small instances are checked with TLC, and the results that
matter most are proved for all instances with TLAPS.

Paths below are relative to the repository. `PROJECT.json` holds the machine
readable side: every definition with the lines it stands for, the runs, a seeded
fault for every checked property, the hazards and the theorems.

## 1. Inventory

| Component | Where | State | Operations | Modelled in |
|---|---|---|---|---|
| Authority store | `crates/nexus-remote-operations/src/store.rs`, `authority.rs` | pending plans by id, index by host, sealed flag | insert, consume, discard, revoke host/session/all, seal, expiry timer | `AuthorityStore`, `OneShotAuthority`, `AuthorityStoreProofs` |
| Service observations | `crates/nexus-core/src/service_observations.rs` | newest request and observation set per host, sealed flag | begin_request, publish (evicts), resolve, revoke, seal | `ServiceObservations`, `ServiceObservationsProofs` |
| Host sessions | `crates/nexus-core/src/application.rs`, `application/connection.rs`, `lifecycle.rs`, `hosts.rs`, `identity.rs`, `rotation.rs`, SFTP start of `files.rs` | slot per host (state, generation, token, transport, session id, refreshing), rotation plans, SFTP sessions, gates | connect, disconnect, reconnect, get_session, refresh, save, delete, trust, rotate, open_sftp, shutdown | `HostSessions`, `SessionProofs` |
| Session-bound observations | `application/monitoring.rs`, `network.rs`, `logs.rs`, `containers.rs`, `security.rs` | gates, previous monitor sample | sample, list | `SessionObservations`, `SessionProofs` |
| Service operations | `application/services.rs`, `nexus-remote-operations/src/lib.rs`, `admission.rs` | service gate per host, execution permit | list, plan, discard, execute of reset-failed, try-restart, reload, start | `ServiceOperations`, `SessionProofs` |
| Mutation dispatch | `crates/nexus-ssh/src/systemd_*.rs`, `nexus-remote-operations/src/outcome.rs` | channel, `accepted`, `evidence`, output counter | open, exec, message loop, timeouts | `SystemdDispatch`, `SystemdDispatchProofs` |
| Terminals | `crates/nexus-terminal/src/manager.rs`, `application/terminal.rs`, PTY channel of `nexus-ssh/src/session.rs` | entries, channel slots, output queues and carry-over | open, pump, poll, close, disconnect, remove host, shutdown | `Terminals`, `ManagerProofs` |
| File plans, editor documents | `crates/nexus-sftp/src/policy.rs`, `editor.rs`, `application/files.rs` | one-shot plans, documents with their reservation, expiry tasks | open text, plan, execute, discard, revoke, expire | `FilePlans`, `FileProofs` |
| Transfers | `crates/nexus-sftp/src/transfer.rs` | jobs, permits, destination locks, history, cleanup tasks | enqueue, run, cancel, quiesce, shut down | `Transfers`, `TransferRun`, `ManagerProofs`, `FileProofs` |
| SFTP client | `crates/nexus-sftp/src/client.rs` | protocol I/O | create, write, link, rename, remove, read | requests of jobs in `TransferRun` |
| Local grants | `apps/desktop/src-tauri/src/local_access.rs` | one-shot grants with scope and deadline | pick, insert, consume, discard, revoke, expiry | `LocalGrants`, `HostStateProofs` |
| Host trust store | `crates/nexus-ssh/src/known_hosts.rs`, `handler.rs` | pin per endpoint (SQLite) | verify, trust, rotate | `HostTrust`, `HostStateProofs` |
| Vault and repository | `crates/nexus-secrets/src/vault.rs`, `crates/nexus-core/src/repository.rs` | secrets, vault key, host records (two databases and a keychain) | put, get, delete, save | `HostRecords`, `HostStateProofs` |
| Update service | `apps/desktop/src-tauri/src/updates.rs`, `update_download.rs` | generation, state machine, download task and its completion | check, download, validate, consume, shutdown | `UpdateService`, `ProcessProofs` |
| Process lifecycle | `apps/desktop/src-tauri/src/lifecycle.rs`, `update_install.rs`, `main.rs`, `commands.rs` | phase, permit count, exit state | admit, seal and drain (two variants), exit attempt, installation | `ProcessLifecycle`, `ProcessProofs` |
| Audit log | `crates/nexus-audit/src/storage.rs` | one append-only file and its backup | record, rotate | not modelled |
| Operations engine, discovery parsers | `crates/nexus-operations`, `crates/nexus-discovery` | none | text in, records out | not modelled |
| Desktop interface, shared types | `apps/desktop/src`, `crates/nexus-model`, `packages/protocol` | React state, data types | – | not modelled |

**How they interact.** A Tauri command takes a lifecycle permit
(`ProcessLifecycle`) and calls `Application`. Commands run concurrently.
Session commands take the host's lifecycle gate, then short critical sections on
the slot; network waits happen without the slot lock, so whatever was read before
one may be stale after it. Every session change revokes the host's service plans
and observations, quiesces its transfers, revokes its file plans and closes its
terminals. A service command captures the session, observes it under the host's
service gate, and publishes an observation; planning turns an observation into a
one-shot authority; execution takes the lifecycle gate and the process-wide
permit, consumes the authority, revalidates on the host and dispatches over SSH.
A file command plans under the SFTP lifecycle gate; an executed plan becomes a
transfer job, which outlives the command and is stopped by `quiesce_session`.
Exit seals admission, drains, then shuts down the update service, the
application and the grants.

**What is hard.** Results that arrive after the state they were meant for is
gone; removal paths that must agree on two maps; locks of five kinds taken in
different nestings; timers that fire late; a remote host that may run a command,
or rename a file, whose answer is lost; other programs that write the same files;
two databases and a keychain without a common transaction; a bounded queue
between a pump and a reader; two parties draining the same permits; notifications
between a check and a sleep. The list, with lines, is `hazards` in
`PROJECT.json`.

## 2. Modules

```
SessionBindings ─ AuthorityStore ──┐                      OneShotAuthority (abstract)
                  ServiceObservations ─ HostSessions ─┬─ ServiceOperations
                                                      └─ SessionObservations
SystemdDispatch      Terminals      FilePlans      Transfers      TransferRun
HostIds ─┬─ HostRecords ─ HostTrust
         └─ LocalGrants
UpdateService ─ ProcessLifecycle
theorems: AuthorityStoreProofs, ServiceObservationsProofs, SystemdDispatchProofs,
          SessionProofs (HostSessions, SessionObservations, ServiceOperations),
          HostStateProofs (HostRecords, HostTrust, LocalGrants),
          FileProofs (FilePlans, TransferRun), ManagerProofs (Transfers, Terminals),
          ProcessProofs (UpdateService, ProcessLifecycle)
MC*: instances for TLC
```

`A ─ B` means that B extends A. Operators named in a "Fault variant of X"
comment are deliberate mistakes in X, plausible bugs of the code; no
specification uses them. Each shows that a property notices that mistake.

**AuthorityStore.** `plans` and `byHost` are the two maps of `StoreState`. Every
method is one action, because it is one critical section of the store's mutex.
Two readings of the clock in one method may differ by `LockLag`, since `insert`
reads it before it has the lock. `OneShotAuthority` says what a user of the store
relies on: at most one pending authority per host, which is consumed at most once
and may vanish at any time; the store implements it (`ImplementsOneShot`), with
the per-host index as the refinement mapping.

**ServiceObservations.** Observation sets per host with the request number that
produced them. `Publish` contains the eviction loop: other hosts' sets go, oldest
first, until the new one fits. `SnapshotAssumption` is the size limit of a
snapshot: 512 entries with four actions each are below the global limit.

**HostSessions.** One action per section of a command between two awaits on
anything but local mutexes. A connection attempt is named by the generation it
starts with; its cancellation token, transport and session id are made by it
alone and carry its number. `gate` and `startup` record which call holds the
lifecycle and the SFTP startup gate. The global `mutation` mutex is held only
inside sections that are single actions and so needs no variable; a failing
`try_lock` of it is a refusal. The whole of `Application::shutdown` is modelled,
with its failing and repeatable SFTP step; the model lets the seal land while
commands are in flight, which is more than the desktop does (`DrainedIsQuiet`),
and makes the late results of those commands meet sealed stores.

**SessionObservations.** Adds the reads that keep nothing but the monitor's
baseline. A read is a call whose pc names what it reads; its gate, which nobody
else asks for, is held while a call has that pc. `connect_host` clears the
monitor as part of its first step. The network, log and container listings run
the same steps with limits of their own, so one of them is in the instance.

**ServiceOperations.** Extends HostSessions with the service gate, the execution
permit, and the steps of list, plan and execute for each of the four mutations.
There is one service unit per host, and what an observation sees of it is chosen
when it is used. `Matches` predicates are translated operation by operation.

**SystemdDispatch.** One dispatch of one operation. The client follows
`dispatch` and `handle_message`; the remote host (external) takes the request or
not, runs the command, talks, ends or disappears, also after dispatch has
returned. One assumption is made of it: a host that runs the command does not
answer CHANNEL_FAILURE before it has sent either CHANNEL_SUCCESS or output, as
RFC 4254 requires.

**Terminals.** One terminal, since terminals share only the map and its limit
(`OpenRefused`). Output bytes are numbered as the remote host sends them, so
that order, loss and repetition are visible. The opener reads the connection
first and is overtaken by anything; the pump waits for room in the queue; a poll
takes the carry-over, receives chunk by chunk, looks at `is_closed` and looks at
`is_empty` in steps of their own, because the pump runs between them; the
commands that end a host's session are one process, `life`, as they hold its
gate. A startup that fails by itself closes the channel it has got (`OpenFails`),
one whose future is dropped, by the select, by `startup_timeout` or with the
command, closes nothing (`OpenAbandoned`, `OpenDropped`): `stray` says that the
server may then have a channel that nobody here holds. A channel whose close was
called counts as closed, also when the call ran into `CLOSE_TIMEOUT`. The reading
ends at the first exit status, exit signal, EOF, close or failure; the remote
host may go on sending after any of them but EOF and close (`remote.at` is where
the reading ended, `remote.sent` all that was sent).

**FilePlans.** The plan map and the document map of `FilePlanStore` with the
commands around them. A method that needs both maps holds both locks and is one
step; `revoke_all`, which takes them one after the other, is two. Commands await
the server between their steps under the SFTP lifecycle gate; discarding needs
no gate, and expiry tasks, which name the plan and the document they were
started for, fire at any time after they are due.

**Transfers.** The job table, the host and the global permits, the destination
locks with their reference counts, history and cleanup tasks. A job's work
between its permits is three steps here and a module of its own:

**TransferRun.** One upload, download, editor save or mutation from its plan to
its final state, request by request. Every request is answered, refused, or done
or not done with its reply lost; others write source and destination in between.
A version is what the code can tell apart, which is kind, size and modification
time: "touched" is a change that leaves these as they were, of the destination or
of the source, and only an edited text is also compared by its digest. An editor
save looks at the text three
times (metadata, open, content) each time it checks, and somebody may write
between any two.

**HostRecords.** `save_host` and `delete_host`, write by write: the vault key in
the keychain, the secret, the record, the old secret. A crash may come between
any two writes and any statement may fail.

**HostTrust.** Extends HostRecords with endpoints, pins and connection attempts.
A generation is only ever compared with the current one, so an attempt carries a
flag that says whether it still is the current one. Two hosts may have the same
endpoint, and so one pin. `establish` reads the pin again after the connect, so the
identity it shows is the pin at that time, as `docs/architecture/security.md`
says; the model keeps the key the server presented.

**LocalGrants.** A picker is open as long as its user likes; what it returns is
inserted, and the session checked again afterwards. Expiry is a flag set by the
passing of the lifetime and acted on by whoever looks next or by the timer.

**UpdateService.** The state machine of `updates.rs`, the download task with its
size limit, verification and abort, and `TaskCompletion` in the detail in which
a wake-up could be missed: `done` is stored and the waiter notified in two steps,
and the waiter checks, subscribes and checks again. The release server may
announce one version with the signature of another, and serve any bytes.

**ProcessLifecycle.** Extends UpdateService with the permit count (of bounded
width: `ActiveMax` stands for `u64::MAX`), the phases, both drains with their
subscribe/check/sleep loop, the exit attempt with failing steps, and
`install_verified_update`. An admitted command that does no update work stands
for all other commands. A started installer ends the process, as
`tauri_plugin_updater` does (external).

## 3. Runs

| Run | Instance | States | Shows |
|---|---|---|---|
| `host_sessions` | 1 host, 3 concurrent calls, generations 0..5 | 92,000 | a Connected slot is the current attempt's; the refreshing flag is owned; SFTP and monitor baseline belong to the session; every command returns |
| `service_operations` | 1 host, 2 calls, 2 operations, generations 0..5 | 555,000 | the store's two maps agree and implement `OneShotAuthority`; pending plans and observations are the current session's; a mutation runs on the session it was planned on; at most one dispatch per plan |
| `systemd_dispatch` | 4 operations, 3 messages on the wire | 306,000 | the reported outcome is true and stays true; dispatch returns |
| `terminals` | 3 bytes in messages of up to 3, chunks and batches of 2, a queue of 2 | 1,337,000 | what is read is delivered in order, and all of it before it is called drained; a channel is owned or closed unless its startup was dropped; a cancelled or dead terminal ends |
| `file_plans` | 2 calls, 2 documents of one file, 2 plans in a store for one, 2 sessions | 1,618,000 | one save per document; a reservation can always end; a revoked session leaves nothing executable |
| `transfers` | 3 jobs on one destination, 2 permits, a history of one, one dropped task | 654,000 | jobs of one destination exclude each other; a quiesced session is quiet and clean |
| `transfer_liveness` | 2 hosts, 2 jobs behind one permit | 238,000 | every admitted job ends |
| `transfer_run` | every kind of operation, 3 writes of others | 25,000 | final states are truthful; an accepted cancellation wins; nothing unreviewed is destroyed; staging is accounted for |
| `host_state` | 2 hosts, 2 endpoints, 3 server keys, 2 vault keys, 2 credentials; 2 pickers and one grant | 280,000 | records and secrets stay in step and under one key; pins change as shown; a connected session is trusted; an interrupted picker leaves no grant |
| `grants_after_disconnect` | 2 hosts, 2 pickers, 3 grants | until violated | **violated**: see the finding below |
| `update_service` | 2 callers, 2 releases, 2 generations | 15,000 | only the announced version is handed out, once; a finished shutdown is final; no missed wake-up; never busy for ever |
| `process_lifecycle` | 3 invocations of which 2 may hold permits, 1 release | 107,000 | a drained process is quiet, cleanup runs alone, drains miss no wake-up, exit attempts end |

**Finding.** `docs/architecture/sftp.md` says that Rust "revokes pending plans and
local grants for a disconnected session". Grants are revoked by the commands
`disconnect_host` and `reconnect_host` only, and before they wait for the session
to close; `delete_host` and a connection found lost by `get_session` revoke none.
`DisconnectedHasNoGrant` states the sentence and is violated. Such a grant cannot
be used, as planning validates the session; it keeps its files open until its
lifetime is over.

**Why the bounds are enough.** Races in the session code are between one command
and what overtakes it: two calls on a host show every such pair, and three add a
gate holder between them. Generations grow only by attempts and overtaking steps;
the bounds leave room for an attempt, its cancellation, a second attempt and a
shutdown. The `Room` guards keep a call that has begun from running into the
bound, so a bound never looks like a deadlock or hides one. Two generations of
updates allow an artifact to be replaced between validation and consumption; two
permits allow an installation, another command and an exit attempt at once, and
an admission that hits the limit of the count. In `terminals` a message may be
longer than a chunk, a batch may end inside a chunk, and the queue fills before
the output ends; one byte after the end of the reading stands for any number,
since none is read. In `file_plans` the store has room for one plan, so the limit,
`retain` and a second session's plan meet; the clock outlives a plan and then a
document. In `transfers` three jobs allow one to run, one to wait and one to come
after the lock was forgotten; a history of one is trimmed while others run. In
`transfer_run` three foreign writes allow the destination to change, change back
in metadata, and change after the last look. In `host_state` three server keys
are needed for a plan whose `from` or `to` is stale, two vault keys for a second
key to be seen, and two hosts to share an endpoint. HostTrust and LocalGrants
have no variable in common: a behaviour of that run is a behaviour of one of them
(`part` says which), so that each invariant is checked on all states of its
component and the states add up instead of multiplying. Symmetry is used in runs
without liveness properties only. Deadlock is not checked where the system really
stops (after shutdown, exit, the end of a dispatch or of a job) or where users
need not act.

The authority store and the observation store have no runs of their own: all
their actions are steps of `service_operations`, and what needs more hosts or
larger limits than that instance has is proved (section 4).

**Fairness.** Weak fairness of each command's own steps: the runtime polls every
task, network waits end by the timeouts in the code, and tokio mutexes are
granted in order. No fairness is assumed for users, for the remote host or for
outcomes: nothing has to succeed. In `SystemdDispatch` the timeouts are fair, the
server is not. In `Transfers` the steps of a job's task are fair; that its work
ends is due to the request timeouts of the SFTP client. In `Terminals` commands
that have begun run on (each of their waits has a timeout), the pump runs, and
the renderer polls as long as the terminal is listed, as its polling consumer
does. In `ProcessLifecycle` each command ends, since each one's waits are bounded
in the code; the drain timeout may strike before that.

**What was learnt.** Some behaviour is worth knowing:

- A busy `list_host_services` takes its request number before it tries the
  service gate, so two overlapping listings can both fail.
- `get_session` gives up the session id before `close_sftp`, so a failing close
  leaves an SFTP session of a closed transport behind (`SftpBelongsToSession`
  states the exception).
- After a seal the shutdown flag of the update service, the recheck of `open_sftp`
  and the binding of a resolved observation are second lines of defence: no
  reachable state of the composed model gets past the first. A drain of the exit
  never finds a download to wait for.
- A transfer task dropped in the middle of its commit is reported Failed although
  the destination may have changed; this is an exception of `FinalStateTruthful`.
- The other one: an upload or download compares its source before and after the
  stream by kind, size and modification time. A source that is rewritten behind
  the same metadata while it is streamed is not noticed, and the job is Completed
  with content that nobody approved. `docs/architecture/sftp.md` says that
  revalidation is no compare-and-swap against other writers; an editor save
  compares the content itself and has no such exception.
- A terminal that is closed or disconnected while it is Creating, or whose startup
  times out, may leave its channel open on the server until the transport ends:
  `open_with_timeout` drops the future of `SshSession::open_terminal`, which holds
  a plain channel where `execute` of the same file uses a `ChannelGuard`.
  `ChannelHasOwner` states this exception, and that it is the only one: it is never
  the channel of a terminal that was accepted.
- The output pump stops at an exit status. SSH lets a server send output after it,
  and that output is never read, although `outputDrained` is then reported. The
  documentation promises queued bytes only, and these were never queued;
  `DrainedIsComplete` says exactly what is complete.
- A transport that is lost makes a terminal Failed. A disconnect that races
  `open_terminal` may leave a terminal Failed where `docs/architecture/terminal.md`
  speaks of disconnected: its entry was reserved after the disconnect had gone
  through the list. It ends all the same (`TerminalEnds`).
- An upload or download knows the file it replaces by its metadata only
  (`DestroysOnlyReviewed` says so); a change that keeps size and modification
  time is noticed by an editor save alone.
- The plan of a document can be dropped by `insert_with_id` to make room while the
  document is still reserved for it; its expiry task then ends the reservation
  (`ReservationHasOwner`).

## 4. Proofs

| Theorem | Statement |
|---|---|
| `StoreInvariant` | `StoreSpec => []StoreInv` |
| `StoreIndexConsistent` | `StoreSpec => []IndexConsistent` |
| `StoreSealedIsEmpty` | `StoreSpec => []SealedIsEmpty` |
| `StoreConsumedNeverPending` | `StoreSpec => []ConsumedNeverPending` |
| `StoreImplementsOneShot` | `StoreSpec => ImplementsOneShot` |
| `ObsBounded` | `ObsSpec => []ObservationsBounded` |
| `ObsSealed` | `ObsSpec => []SealedHasNoObservations` |
| `ObsEvictsOldestFirst` | `ObsSpec => EvictsOldestFirst` |
| `DispatchOutcomeTruthful` | `Spec => []OutcomeTruthful` |
| `ConnectedAlwaysCurrent`, `RefreshingAlwaysOwned`, `SftpAlwaysBelongs`, `BaselineAlwaysCurrent` | `ObservedSpec =>` always `ConnectedIsCurrent`, `RefreshingIsOwned`, `SftpBelongsToSession`, `BaselineIsCurrent` |
| `AuthorityAlwaysCurrent`, `ObservationAlwaysCurrent`, `ExecutionsOnBoundSession`, `PlansDispatchedAtMostOnce` | `ServiceSpec =>` always `AuthorityIsCurrent`, `ObservationIsCurrent`, `ExecutesOnBoundSession`, `DispatchedAtMostOnce` |
| `ServicesImplementOneShot` | `ServiceSpec => ImplementsOneShot` |
| `RecordsStayInStep` | `RecordsSpec => [](RecordsMatchSecrets /\ OneVaultKey)` |
| `TrustConnectedIsTrusted`, `TrustRecordsMatchSecrets`, `TrustOneVaultKey` | `TrustSpec =>` always `ConnectedIsTrusted`, `RecordsMatchSecrets`, `OneVaultKey` |
| `TrustPinChangesAsShown` | `TrustSpec => PinChangesAsShown` |
| `GrantsAccountedFor` | `GrantsSpec => []GrantAccountedFor` |
| `FinalStateAlwaysTruthful`, `AcceptedCancelAlwaysWins`, `DestroysReviewedAlways`, `StagingAlwaysAccountedFor` | `RunSpec =>` always `FinalStateTruthful`, `AcceptedCancelWins`, `DestroysOnlyReviewed`, `StagingAccountedFor` |
| `DocumentsSavedOnce`, `ReservationsAlwaysOwned`, `RevokedForEver` | `FilePlansSpec =>` always `OneSavePerDocument`, `ReservationHasOwner`, `RevokedStaysRevoked` |
| `DestinationAlwaysExclusive`, `QuiescedAlwaysQuiet` | `TransfersSpec =>` always `DestinationExclusive`, `QuiescedIsQuiet` |
| `ChannelAlwaysOwned`, `OutputAlwaysInOrder`, `DrainedAlwaysComplete` | `TerminalsSpec =>` always `ChannelHasOwner`, `OutputInOrder`, `DrainedIsComplete` |
| `InstallsOnlyAnnounced`, `ClosedStaysClosed`, `CloserAlwaysWoken` | `UpdateSpec =>` always `InstallsAnnouncedVersion`, `ClosedForGood`, `CloserIsWoken` |
| `DrainedAlwaysQuiet`, `CleanupAlwaysAlone`, `DrainsAlwaysWoken`, `PermitsAlwaysCounted` | `ProcessSpec =>` always `DrainedIsQuiet`, `CleanupRunsAlone`, `DrainsAreWoken`, `Counted` |
| `ProcessInstallsAnnounced`, `ProcessClosedForGood` | `ProcessSpec =>` always `InstallsAnnouncedVersion`, `ClosedForGood` |
| `ProcessUsesService` | `ProcessSpec => UpdateInit /\ [][UpdateNext]_uvars` |

The invariants named below were checked with TLC on the instances of section 3
before they were proved. The proofs have one lemma per action, or per group of
actions that change the same things, and lemmas for what all of them leave alone.

**Authority store.** For every set of hosts, plans, sessions and operations,
under the named assumptions of the module. None of the invariants is inductive
alone: a revocation that removes by host keeps the index right only if every
indexed plan exists and belongs to its host, and a consumed plan stays away only
if ids are not reused, which the store knows through its history of issued ids.
The inductive invariant is their conjunction with the type invariant. All
removals go through one operator (`RemoveIds`), and one lemma about it carries
the proof of each action. The refinement proof maps every action to a step of
`OneShotAuthority` or to a stutter, using index consistency.

**Observation store.** For every finite set of hosts and keys and every limit
that a single snapshot fits in (`SnapshotAssumption`). The invariant is the type
invariant with the bounds and the seal. Every operation but `Publish` only
removes sets (`ShrinkingKeepsBounds`, by cardinalities of subsets); for `Publish`,
`NewSetFits` shows that the sets the eviction loop keeps and the new one are
within both limits, also when it has to evict everything. Eviction order is an
action property that follows from the same definition of what is kept.

**Dispatch.** For every output limit and wire bound. `OutcomeTruthful` speaks of
all later states, in which the remote host is still acting, so its invariant has
to say what the host may still do: `AskedInv` (a request not sent is not taken,
and one not taken leaves the host untouched), `SpokenInv` (a Failure on the wire
of a host that runs the command comes after Success or output, which the client
sees first), and `ExitInv` (an exit status on the wire means the command has
ended so). `DispatchInv` is their conjunction with types; the proof has one step
per action, and lemmas about appending to and taking from the wire.

**Sessions.** For any hosts, any finite number of calls (`IsFiniteSet(Calls)`: a
process has finitely many commands in flight) and any bound on generations.
`SessionInv` says for each host what the gates protect: an attempt that has not
been overtaken finds the slot as it left it, no two attempts have one number
(`AttemptsOwn`), a call in a gated step still holds the gate and closes the
session that is in the slot (`ClosersHold`), and the refreshing flag has the call
that will clear it. `ConnectedIsCurrent` needs all of that, since what a returning
attempt writes is right only if nobody wrote in between. `RoomLeft` belongs to the
bound: calls that will raise the generation have room for it. `Elsewhere` splits
each step by host, so every action is proved for the host it is about.
`ObservedInv` adds the owner of the monitor baseline. `ServiceInv` adds the
authority store's own invariant, cited from its module, and that every pending
plan and every observation is bound to the session in the slot or to one that
`get_session` is just revoking (`PlansLive`, `ObservationsLive`). That exception is
why the checked properties speak of a host whose gate is free. An execution holds
gate and permit (`ExecutionsBound`), so nobody changes the session under it. The
refinement of `OneShotAuthority` is proved again for the composed system, in which
session changes and not their caller revoke.

**Host records, trust and grants.** `RecordsInv` says what a command has in hand
between two writes (`CredentialsInHand`, `KeyInHand`), which is what a crash or a
failing statement leaves behind: `RecordsMatchSecrets` alone says nothing about a
secret already written for a record that is not. `LocksHeld` keeps two commands
from one host's record. `TrustInv` adds that an attempt that is still current
works from the record the host has now (`AttemptsBound`) and that every pin was
accepted (`PinsApproved`); a trust step is shown to be a step of the records or
none of theirs, so their proof is reused. `PinChangesAsShown` is an action property
that follows from it. For grants, a picker's grant is of the picker's scope, so a
revocation of the scope finds it.

**File plans.** For any commands, sessions, documents and plans. `GateHeld` says
that every command in the middle of an await has the gate, so a revocation meets
none, and `GivenUpForGood` that a session id is not drawn again; `RevokedStaysRevoked`
is inductive with these two. A document is saved once because a saved one is gone
and its id, being drawn, does not come back (`SpentForGood`). `Reserved` is
stronger than the checked `ReservationHasOwner`: a document that waits for its
review has the expiry task of its plan whether or not the store still has the plan.

**One transfer.** `RunInv` follows the operation from request to request: the way
of each kind (`OnItsWay`), what each point has changed already (`Changes`), what
the staged content may be (`Content`), who owns the staging file (`Owning`), and
that what the last look saw is still there unless somebody wrote since (`Seen`).
`Vouched` ties the staged content to the look at the source after the stream: it is
the approved one unless that look let a rewritten source pass.
The four properties are about final states only and are kept by the last of some
twenty steps; the invariant carries the evidence there.

**The transfer manager.** For any jobs, sessions, destinations and limits.
Exclusion needs `LocksMapped`: a clone of a lock is the one the map holds for the
destination, so that the strong count of two, by which the map forgets a lock, can
only be the map and the job that leaves; two jobs that work on one destination
then have the same lock, of which there is one holder. Quiescence needs
`ForgottenIsOver` (the history drops only what is over and left nothing behind:
`quiesce_session` looks at the records alone), `TerminalEnded` and `QuietIsSealed`
(nothing is admitted to a session that was quiesced). `TransfersAssumption` says
that the placeholder "none" is no session.

**Terminals.** For any limits and any number of connections. `open_terminal` reads
the connection first and puts the channel into its entry last. The connection it read
is the host's current one or dead (`ReadIsCurrentOrDead`); its entry is listed as
long as nobody has cancelled it and that connection is alive (`OpenerListed`), which
also `remove_host` respects, since it works on a host without a connection
(`RemovedHasNoConnection`); and whoever closes cancels before it takes the channel
(`CloserCancels`), so an opener that comes later sees it and closes its channel
itself. That is `ChannelInv`; `StartupInv` is about a startup that is dropped: what
it leaves behind is left before a pump was started (`StrayFromStartup`), whoever
drops it cancels the entry, and a cancelled entry is Closing or ended but for the
moment before `fail_entry` (`CancelledEnds`). The output needs `OutputInv`: `Ordered`
places what was delivered before the carry-over, that before the chunks of the queue,
and those before what the pump has in hand, and `Complete` says that each begins
where the one before it ends. Both are stated from chunk to chunk, so no induction
over the queue is needed; a step of a poll or of the pump splits one chunk
(`ChunkIsSplit`) or adds one (`PumpSendKeeps`). `Complete` holds until somebody
cancels, `Ordered` always. `DrainSeen` carries what a poll has seen of the sender to
the moment it finds the queue empty, and `ClosedAtEnd` says that without a
cancellation only the message that ends the reading makes a terminal Closed, with
every byte sent before it read.

**Updates and the process.** `UpdateInv` ties the task to the state it serves
(`TaskServes`), the bytes of a verified artifact to the announced version
(`VerifiedIsAnnounced`) and excludes a second consumption (`HandedOnce`). In
`ProcessInv`, `Counted` says that the permit count is the number of invocations
that hold one, also for an installation that keeps its permit across the drain it
asks for; `DrainsSealed` and `TornDownAlone` make a drain that saw the count it
waits for final. `DrainsAreWoken` and `CloserIsWoken` are the safety side of the
notifications: whoever sleeps has its condition still false or a wake-up on its
way. `ProcessUsesService` shows that the process calls the update service only as
`UpdateService` allows, so what is proved there holds in it.

**Only model-checked:** liveness (`CommandsReturn`, `DispatchReturns`,
`NotBusyForEver`, `ExitAttemptEnds`, `JobsEnd`, `TerminalEnds`), which rests on
fairness and ENABLED, outside the prover's reach. Every invariant and action
property that a run checks is proved.

## 5. Not modelled, and the plan

**Not modelled.**

- *Audit log*: one append-only file behind a mutex, so there is nothing to
  interleave. In the callers' modules a record that fails is one of the ways a
  command may be refused. Its rotation has a hazard of its own, listed in
  `PROJECT.json`.
- *Operations engine and discovery parsers*: a fixed list of read-only commands
  under a deadline, and stateless parsing of their output.
- *SSH session*: authentication and bounded reads are protocol I/O; opening and
  closing channels, the lifetime token and the loss of the transport are modelled
  where they matter.
- *SFTP client*: directory listing, the handshake and path syntax.
- *Terminals*: input, resize and rename, which leave the modelled state alone, and
  the limits on the number of terminals, which are a possible refusal.
- *Desktop interface*: it is the environment, a user who may do anything at any
  time and a renderer that polls.

**Proving, next.** The safety side of the liveness properties, as `DrainsAreWoken`
and `CloserIsWoken` are that of the drains: that a command which waits for a gate or
a permit waits for somebody who holds it.

## 6. Running

```
tlc -workers 2 -config MCHostSessions.cfg MCHostSessions
tlapm SessionProofs.tla
```

The longest runs are `terminals`, `service_operations`, `host_state`,
`file_plans` and `transfer_liveness`, one to three minutes each; the others take
less than a minute. The proofs of a module take one to three minutes
from nothing, those of `SessionProofs` about five.
