------------------------------ MODULE Transfers ------------------------------
(***************************************************************************)
(* TransferManager (nexus-sftp, transfer.rs): admission of batches, the    *)
(* task of each job with its permits and its destination lock, history,    *)
(* cancellation, quiesce_session and shutdown.  What a job does between    *)
(* taking and releasing its destination is TransferRun; here it is three   *)
(* steps, streaming, finalising and ending with an outcome.                *)
(*                                                                         *)
(* Jobs are numbered in the order they are admitted, which is the order of *)
(* ManagerState::order.  A destination lock is named by the job that       *)
(* created it; its strong count is its entry in the map plus the jobs that *)
(* hold a clone.  Steps of a task that follow each other without an await  *)
(* and touch nothing another task decides on are one step; to the manager  *)
(* OutcomeUnknown is one more Failed.                                      *)
(***************************************************************************)
EXTENDS Naturals, FiniteSets

CONSTANTS
    Sessions,      \* (HostId, HostSessionId) pairs
    HostOf(_),     \* the host of a session
    Dests,         \* destination_key values
    GlobalActive,  \* GLOBAL_ACTIVE
    HostActive,    \* HOST_ACTIVE
    JobCap,        \* JOB_CAP
    HistoryCap,    \* HISTORY_CAP
    MaxJob,        \* bound on the jobs admitted
    MaxDrops       \* bound on the tasks that are dropped (panics)

ASSUME TransfersAssumption ==
    /\ GlobalActive \in Nat \ {0} /\ HostActive \in Nat \ {0}
    /\ JobCap \in Nat \ {0} /\ HistoryCap \in Nat
    /\ MaxJob \in Nat /\ MaxDrops \in Nat
    /\ "none" \notin Sessions

VARIABLES
    job,            \* every job ever admitted, with its task
    kept,           \* ManagerState::jobs and order: the jobs still on record
    admitted,       \* jobs admitted so far
    disconnecting,  \* ManagerState::disconnecting
    cleanup,        \* ManagerState::cleanup_tasks: "none", "running" or "done"
    closing,        \* ManagerState::shutting_down
    locks,          \* the destinations map
    quiesce,        \* the quiesce_session of each session
    quiet,          \* sessions a quiesce_session has returned Ok for
    drops           \* tasks dropped so far

transferVars == <<job, kept, admitted, disconnecting, cleanup, closing, locks, quiesce, quiet, drops>>

JobIds == 1..MaxJob
Terminal == {"Completed", "Failed", "Cancelled"}
Cancellable == {"Queued", "Preparing", "Transferring"}

NoJob == [session |-> "none", dest |-> "none", state |-> "none", cancel |-> FALSE, pc |-> "none",
          host |-> FALSE, global |-> FALSE, lock |-> 0, out |-> "none", unconfirmed |-> FALSE,
          done |-> FALSE]
NoQuiesce == [pc |-> "idle", wait |-> {}]

TransfersInit ==
    /\ job = [j \in JobIds |-> NoJob]
    /\ kept = {} /\ admitted = 0
    /\ disconnecting = {}
    /\ cleanup = [j \in JobIds |-> "none"]
    /\ closing = FALSE
    /\ locks = [d \in Dests |-> 0]
    /\ quiesce = [s \in Sessions |-> NoQuiesce]
    /\ quiet = {}
    /\ drops = 0

-----------------------------------------------------------------------------
(***************************************************************************)
(* History                                                                 *)
(***************************************************************************)
IsTerminal(jobs, j) == jobs[j].state \in Terminal

\* Fault variant of Trimmable: a record goes although its cleanup is open.
TrimmableTerminal(jobs, j) == IsTerminal(jobs, j)

\* What trim_history_locked may drop.
Trimmable(jobs, j) == IsTerminal(jobs, j) /\ ~jobs[j].unconfirmed /\ cleanup[j] = "none"

\* trim_history_locked: the oldest droppable records go while there are more
\* than HistoryCap terminal ones.
Trimmed(jobs, records) ==
    LET over == Cardinality({j \in records : IsTerminal(jobs, j)})
        droppable == {j \in records : Trimmable(jobs, j)}
        older(j) == Cardinality({i \in droppable : i < j})
    IN  {j \in records : j \notin droppable \/ older(j) + HistoryCap >= over}

-----------------------------------------------------------------------------
(***************************************************************************)
(* Admission                                                               *)
(***************************************************************************)
NonTerminal(records) == {j \in records : ~IsTerminal(job, j)}

\* enqueue_batch: the whole batch is admitted or refused, after a trim that
\* happens either way; a closing manager or session refuses it first.
EnqueueBatch(s, batch) ==
    LET n == Cardinality(DOMAIN batch)
        records == Trimmed(job, kept)
    IN  /\ ~closing /\ s \notin disconnecting
        /\ admitted + n <= MaxJob
        /\ IF n <= JobCap - Cardinality(NonTerminal(records))
           THEN /\ job' = [j \in JobIds |->
                      IF j \in admitted + 1 .. admitted + n
                      THEN [NoJob EXCEPT !.session = s, !.dest = batch[j - admitted],
                                         !.state = "Queued", !.pc = "inserted"]
                      ELSE job[j]]
                /\ kept' = records \cup (admitted + 1 .. admitted + n)
                /\ admitted' = admitted + n
           ELSE kept' = records /\ UNCHANGED <<job, admitted>>
        /\ UNCHANGED <<disconnecting, cleanup, closing, locks, quiesce, quiet, drops>>

\* The jobs of a batch are spawned one by one, outside the lock.
SpawnJob(j) ==
    /\ job[j].pc = "inserted"
    /\ job' = [job EXCEPT ![j].pc = "host"]
    /\ UNCHANGED <<kept, admitted, disconnecting, cleanup, closing, locks, quiesce, quiet, drops>>

-----------------------------------------------------------------------------
(***************************************************************************)
(* The task of a job                                                       *)
(***************************************************************************)
HostPermits(h) == Cardinality({j \in JobIds : job[j].host /\ HostOf(job[j].session) = h})
GlobalPermits == Cardinality({j \in JobIds : job[j].global})

AcquireHost(j) ==
    /\ job[j].pc = "host" /\ ~job[j].cancel
    /\ HostPermits(HostOf(job[j].session)) < HostActive
    /\ job' = [job EXCEPT ![j].pc = "global", ![j].host = TRUE]
    /\ UNCHANGED <<kept, admitted, disconnecting, cleanup, closing, locks, quiesce, quiet, drops>>

\* The host permit stays held meanwhile.  With both permits comes
\* set_state(Preparing) and a clone of the lock the destinations map holds for
\* the key.
AcquireGlobal(j) ==
    LET d == job[j].dest
        lock == IF locks[d] = 0 THEN j ELSE locks[d]
    IN  /\ job[j].pc = "global" /\ ~job[j].cancel
        /\ GlobalPermits < GlobalActive
        /\ locks' = [locks EXCEPT ![d] = lock]
        /\ job' = [job EXCEPT ![j].pc = "locking", ![j].global = TRUE, ![j].lock = lock,
                              ![j].state = "Preparing"]
        /\ UNCHANGED <<kept, admitted, disconnecting, cleanup, closing, quiesce, quiet, drops>>

Working == {"running", "streaming", "finalizing"}
Held(lock) == \E i \in JobIds : job[i].lock = lock /\ job[i].pc \in Working

LockDestination(j) ==
    /\ job[j].pc = "locking" /\ ~job[j].cancel
    /\ ~Held(job[j].lock)
    /\ job' = [job EXCEPT ![j].pc = "running"]
    /\ UNCHANGED <<kept, admitted, disconnecting, cleanup, closing, locks, quiesce, quiet, drops>>

\* Fault variant of CancelledWaiting: the permits are not given back.
CancelledWaitingKeeps(j) ==
    /\ job[j].pc \in {"host", "global", "locking"} /\ job[j].cancel
    /\ job' = [job EXCEPT ![j].pc = "leaving", ![j].out = "Cancelled"]
    /\ UNCHANGED <<kept, admitted, disconnecting, cleanup, closing, locks, quiesce, quiet, drops>>

\* The biased selects: cancelled while it waits for a permit or the lock.
CancelledWaiting(j) ==
    /\ job[j].pc \in {"host", "global", "locking"} /\ job[j].cancel
    /\ job' = [job EXCEPT ![j].pc = "leaving", ![j].out = "Cancelled",
                          ![j].host = FALSE, ![j].global = FALSE]
    /\ UNCHANGED <<kept, admitted, disconnecting, cleanup, closing, locks, quiesce, quiet, drops>>

\* run_transfer: checks, then the staged copy.  set_state(Transferring) also
\* overwrites a CancelRequested; the token remembers it.
Stream(j) ==
    /\ job[j].pc = "running"
    /\ job' = [job EXCEPT ![j].pc = "streaming", ![j].state = "Transferring"]
    /\ UNCHANGED <<kept, admitted, disconnecting, cleanup, closing, locks, quiesce, quiet, drops>>

\* enter_finalizing.
Finalize(j) ==
    /\ job[j].pc = "streaming"
    /\ j \in kept /\ ~job[j].cancel /\ job[j].state # "CancelRequested"
    /\ job' = [job EXCEPT ![j].pc = "finalizing", ![j].state = "Finalizing"]
    /\ UNCHANGED <<kept, admitted, disconnecting, cleanup, closing, locks, quiesce, quiet, drops>>

\* The outcomes run_transfer may return: a skipped or refused start, a failed
\* or cancelled copy, any end of a finalisation.
Outcomes(j) ==
    CASE job[j].pc = "running" -> {"Completed", "Failed"}
      [] job[j].pc = "streaming" -> {"Failed"} \cup (IF job[j].cancel THEN {"Cancelled"} ELSE {})
      [] job[j].pc = "finalizing" -> {"Completed", "Failed"}

\* run_transfer returns; the destination guard and the permits are dropped.
\* Owned staging may have been left behind unconfirmed.
RunEnds(j) ==
    /\ job[j].pc \in Working
    /\ \E out \in Outcomes(j), unconfirmed \in BOOLEAN :
          /\ unconfirmed => job[j].pc # "running" /\ out = "Failed"
          /\ job' = [job EXCEPT ![j].pc = "leaving", ![j].out = out, ![j].unconfirmed = unconfirmed,
                                ![j].host = FALSE, ![j].global = FALSE]
    /\ UNCHANGED <<kept, admitted, disconnecting, cleanup, closing, locks, quiesce, quiet, drops>>

StrongCount(lock) ==
    Cardinality({i \in JobIds : job[i].lock = lock}) + Cardinality({d \in Dests : locks[d] = lock})

\* Fault variant of ForgetLock: the entry goes although others wait on it.
ForgetLockAlways(j) == locks' = [locks EXCEPT ![job[j].dest] = 0]

\* The map forgets a lock that only it and this job know.
ForgetLock(j) ==
    locks' = IF StrongCount(job[j].lock) = 2 THEN [locks EXCEPT ![job[j].dest] = 0] ELSE locks

\* The lock is given up, the final state is set and trims the history, and the
\* CompletionGuard, the first local, is dropped last.
Leave(j) ==
    /\ job[j].pc = "leaving"
    /\ IF job[j].lock = 0 THEN UNCHANGED locks ELSE ForgetLock(j)
    /\ LET jobs == [job EXCEPT ![j] = [@ EXCEPT !.pc = "ended", !.lock = 0, !.done = TRUE,
                                                !.state = job[j].out]]
       IN  job' = jobs /\ kept' = Trimmed(jobs, kept)
    /\ UNCHANGED <<admitted, disconnecting, cleanup, closing, quiesce, quiet, drops>>

-----------------------------------------------------------------------------
(***************************************************************************)
(* A dropped task (it panicked inside run_transfer)                        *)
(***************************************************************************)
\* RemoteStagingGuard::drop registers the removal of owned staging before the
\* completion is signalled; nothing else sets the state of the job any more.
TaskDropped(j, owned) ==
    /\ drops < MaxDrops
    /\ job[j].pc \in Working
    /\ owned => job[j].pc # "running"
    /\ drops' = drops + 1
    /\ cleanup' = [cleanup EXCEPT ![j] = IF owned THEN "running" ELSE @]
    /\ job' = [job EXCEPT ![j].pc = "ended", ![j].host = FALSE, ![j].global = FALSE,
                          ![j].lock = 0, ![j].done = TRUE]
    /\ UNCHANGED <<kept, admitted, disconnecting, closing, locks, quiesce, quiet>>

\* The guard's task: removal, then finish_error, then its completion.
CleanupEnds(j) ==
    /\ cleanup[j] = "running"
    /\ \E unconfirmed \in BOOLEAN :
          LET jobs == [job EXCEPT ![j].state = "Failed", ![j].unconfirmed = unconfirmed]
          IN  /\ job' = jobs
              /\ kept' = Trimmed(jobs, kept)
    /\ cleanup' = [cleanup EXCEPT ![j] = "done"]
    /\ UNCHANGED <<admitted, disconnecting, closing, locks, quiesce, quiet, drops>>

\* It leaves cleanup_tasks after that.
CleanupForgotten(j) ==
    /\ cleanup[j] = "done"
    /\ cleanup' = [cleanup EXCEPT ![j] = "none"]
    /\ UNCHANGED <<job, kept, admitted, disconnecting, closing, locks, quiesce, quiet, drops>>

-----------------------------------------------------------------------------
(***************************************************************************)
(* Cancellation, quiescence and shutdown                                   *)
(***************************************************************************)
CancelAll(which) ==
    job' = [j \in JobIds |->
               IF j \in which \cap kept /\ job[j].state \in Cancellable
               THEN [job[j] EXCEPT !.state = "CancelRequested", !.cancel = TRUE] ELSE job[j]]

CancelJob(j) ==
    /\ j \in kept /\ job[j].state \in Cancellable
    /\ CancelAll({j})
    /\ UNCHANGED <<kept, admitted, disconnecting, cleanup, closing, locks, quiesce, quiet, drops>>

OfSession(s) == {j \in JobIds : job[j].session = s}

\* quiesce_session: disconnect seals the session and cancels its jobs.
QuiesceSession(s) ==
    /\ quiesce[s].pc = "idle"
    /\ disconnecting' = disconnecting \cup {s}
    /\ CancelAll(OfSession(s))
    /\ quiesce' = [quiesce EXCEPT ![s].pc = "sealed"]
    /\ UNCHANGED <<kept, admitted, cleanup, closing, locks, quiet, drops>>

\* The jobs to wait for, under the lock once more.
QuiesceJobs(s) ==
    /\ quiesce[s].pc = "sealed"
    /\ quiesce' = [quiesce EXCEPT ![s] =
           [pc |-> "jobs", wait |-> NonTerminal(kept) \cap OfSession(s)]]
    /\ UNCHANGED <<job, kept, admitted, disconnecting, cleanup, closing, locks, quiet, drops>>

\* All have completed: the cleanup tasks to wait for.
QuiesceCleanup(s) ==
    /\ quiesce[s].pc = "jobs"
    /\ \A j \in quiesce[s].wait : job[j].done
    /\ quiesce' = [quiesce EXCEPT ![s] =
           [pc |-> "cleanup", wait |-> {j \in kept \cap OfSession(s) : cleanup[j] # "none"}]]
    /\ UNCHANGED <<job, kept, admitted, disconnecting, cleanup, closing, locks, quiet, drops>>

\* Nothing of the session is unconfirmed or unfinished.
Confirmed(s) ==
    \A j \in kept \cap OfSession(s) : ~job[j].unconfirmed /\ IsTerminal(job, j)

QuiesceReturns(s) ==
    /\ quiesce[s].pc = "cleanup"
    /\ \A j \in quiesce[s].wait : cleanup[j] # "running"
    /\ quiesce' = [quiesce EXCEPT ![s] = NoQuiesce]
    /\ quiet' = IF Confirmed(s) THEN quiet \cup {s} ELSE quiet
    /\ UNCHANGED <<job, kept, admitted, disconnecting, cleanup, closing, locks, drops>>

\* The deadline passes first: the session stays sealed and open.
QuiesceTimesOut(s) ==
    /\ \/ quiesce[s].pc = "jobs" /\ \E j \in quiesce[s].wait : ~job[j].done
       \/ quiesce[s].pc = "cleanup" /\ \E j \in quiesce[s].wait : cleanup[j] = "running"
    /\ quiesce' = [quiesce EXCEPT ![s] = NoQuiesce]
    /\ UNCHANGED <<job, kept, admitted, disconnecting, cleanup, closing, locks, quiet, drops>>

\* TransferManager::shutdown; quiesce_all is a quiesce_session per session.
Shutdown ==
    /\ ~closing
    /\ closing' = TRUE
    /\ disconnecting' = disconnecting \cup {job[j].session : j \in NonTerminal(kept)}
    /\ CancelAll(JobIds)
    /\ UNCHANGED <<kept, admitted, cleanup, locks, quiesce, quiet, drops>>

Batches == [1..1 -> Dests] \cup [1..2 -> Dests]

JobStep(j) ==
    \/ SpawnJob(j) \/ AcquireHost(j) \/ AcquireGlobal(j) \/ LockDestination(j)
    \/ CancelledWaiting(j) \/ Stream(j) \/ Finalize(j) \/ RunEnds(j) \/ Leave(j)
    \/ CleanupEnds(j) \/ CleanupForgotten(j)

TransfersNext ==
    \/ \E s \in Sessions :
          \/ \E batch \in Batches : EnqueueBatch(s, batch)
          \/ QuiesceSession(s) \/ QuiesceJobs(s) \/ QuiesceCleanup(s)
          \/ QuiesceReturns(s) \/ QuiesceTimesOut(s)
    \/ \E j \in JobIds :
          \/ JobStep(j) \/ CancelJob(j)
          \/ \E owned \in BOOLEAN : TaskDropped(j, owned)
    \/ Shutdown

\* The server answers or the connection times its requests out, so every task
\* goes on; a free permit or lock is handed on.
TransfersSpec ==
    TransfersInit /\ [][TransfersNext]_transferVars /\ \A j \in JobIds : WF_transferVars(JobStep(j))

-----------------------------------------------------------------------------
(***************************************************************************)
(* Properties                                                              *)
(***************************************************************************)
\* Jobs with the same destination key never run at the same time, although the
\* map forgets and recreates locks while jobs wait, are cancelled or dropped.
DestinationExclusive ==
    \A i, j \in JobIds :
        i # j /\ job[i].pc \in Working /\ job[j].pc \in Working => job[i].dest # job[j].dest

\* Once quiesce_session has returned Ok the caller closes the client: from then
\* on no job of the session, admitted before or after, and no cleanup task uses
\* it, and no staging file of the session was left behind unconfirmed, whatever
\* the history has forgotten.
QuiescedIsQuiet ==
    \A s \in quiet : \A j \in OfSession(s) :
        /\ job[j].pc = "ended"
        /\ cleanup[j] # "running"
        /\ ~job[j].unconfirmed

\* Every admitted job leaves the queue: permits and locks, taken in the order
\* host, global, destination, are always handed on, also by cancelled jobs.
JobsEnd == \A j \in JobIds : job[j].pc = "inserted" ~> job[j].pc = "ended"
=============================================================================
