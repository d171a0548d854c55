---------------------------- MODULE ManagerProofs ----------------------------
(***************************************************************************)
(* Proofs about the TransferManager (Transfers) and the TerminalManager    *)
(* (Terminals).  The destination locks of transfers exclude, although the  *)
(* map forgets and recreates them; a session that quiesce_session has      *)
(* returned Ok for is not used again; a terminal channel always has an     *)
(* owner; and the output of a terminal reaches the reader in order and     *)
(* complete.                                                               *)
(***************************************************************************)
EXTENDS Transfers, Terminals, FiniteSetTheorems, TLAPS

-----------------------------------------------------------------------------
(***************************************************************************)
(* Transfers                                                               *)
(***************************************************************************)
\* Where the task of a job may be.
JobPcs ==
    {"none", "inserted", "host", "global", "locking", "running", "streaming", "finalizing",
     "leaving", "ended"}

JobStates == {"none", "Queued", "Preparing", "Transferring", "Finalizing", "CancelRequested"}
                 \cup Terminal

\* A job on record in the manager, or the place for one to come.
Jobs ==
    [session : Sessions \cup {"none"}, dest : Dests \cup {"none"}, state : JobStates,
     cancel : BOOLEAN, pc : JobPcs, host : BOOLEAN, global : BOOLEAN, lock : JobIds \cup {0},
     out : Terminal \cup {"none"}, unconfirmed : BOOLEAN, done : BOOLEAN]

\* The types of the manager's state that the proofs need.
TransfersTypeOK ==
    /\ job \in [JobIds -> Jobs]
    /\ kept \subseteq JobIds /\ admitted \in Nat
    /\ disconnecting \subseteq Sessions \cup {"none"}
    /\ cleanup \in [JobIds -> {"none", "running", "done"}]
    /\ locks \in [Dests -> JobIds \cup {0}]
    /\ quiesce \in [Sessions -> [pc : {"idle", "sealed", "jobs", "cleanup"}, wait : SUBSET JobIds]]
    /\ quiet \subseteq Sessions

\* A place is taken by admission, for good, and an admitted job has a destination.
Admission ==
    \A j \in JobIds :
        /\ j > admitted => job[j] = NoJob
        /\ job[j].pc # "none" => job[j].dest \in Dests
        /\ job[j].session # "none" => j <= admitted

\* A clone of a destination lock is the map's, which is named by the job that
\* created it for its own destination; and a job that works on a destination, or is
\* about to, has a clone.
LocksMapped ==
    /\ \A j \in JobIds : job[j].lock # 0 => job[j].pc # "none" /\ locks[job[j].dest] = job[j].lock
    /\ \A j \in JobIds : job[j].pc \in Working \cup {"locking"} => job[j].lock # 0
    /\ \A d \in Dests : locks[d] # 0 => job[locks[d]].pc # "none" /\ job[locks[d]].dest = d

\* A job with a final state has ended, and so has its cleanup task.
TerminalEnded ==
    \A j \in JobIds :
        /\ job[j].state \in Terminal => job[j].pc = "ended" /\ cleanup[j] # "running"
        /\ cleanup[j] = "running" => job[j].pc = "ended"

\* The history forgets only what is over and left nothing behind.
ForgottenIsOver ==
    \A j \in JobIds : j <= admitted /\ j \notin kept =>
        job[j].state \in Terminal /\ ~job[j].unconfirmed

\* A session that is being quiesced, or has been, is sealed; and one that has been
\* has only jobs that are over and left nothing behind.
QuietIsSealed ==
    /\ \A s \in Sessions : quiesce[s].pc # "idle" => s \in disconnecting
    /\ \A s \in quiet :
          /\ s \in disconnecting
          /\ \A j \in JobIds : job[j].session = s =>
                job[j].state \in Terminal /\ ~job[j].unconfirmed

\* The invariant of the transfer manager.
TransfersInv ==
    /\ TransfersTypeOK
    /\ Admission
    /\ LocksMapped
    /\ TerminalEnded
    /\ ForgottenIsOver
    /\ QuietIsSealed
    /\ DestinationExclusive

-----------------------------------------------------------------------------
\* What a step may do to a job: nothing, or, to an admitted one, what leaves its
\* session and destination alone and a final state final.
Evolves(i) ==
    \/ job'[i] = job[i]
    \/ /\ job[i] # NoJob
       /\ job'[i].session = job[i].session /\ job'[i].dest = job[i].dest
       /\ job'[i].pc = "none" <=> job[i].pc = "none"
       /\ job[i].state \in Terminal =>
             job'[i].state \in Terminal /\ job'[i].unconfirmed = job[i].unconfirmed

\* The manager starts in its invariant.
LEMMA TransfersInitInv ==
    ASSUME TransfersInit PROVE TransfersInv
<1>1. NoJob \in Jobs
  BY DEF NoJob, Jobs, JobStates, JobPcs, Terminal
<1>2. TransfersTypeOK
  BY <1>1 DEF TransfersInit, TransfersTypeOK, NoQuiesce
<1>3. Admission /\ TerminalEnded /\ ForgottenIsOver /\ QuietIsSealed
  BY DEF TransfersInit, Admission, TerminalEnded, ForgottenIsOver, QuietIsSealed, NoJob,
         NoQuiesce, Terminal, JobIds
<1>4. LocksMapped /\ DestinationExclusive
  BY DEF TransfersInit, LocksMapped, DestinationExclusive, NoJob, Working
<1> QED BY <1>2, <1>3, <1>4 DEF TransfersInv

\* trim_history_locked drops only records that are over and left nothing behind.
LEMMA TrimmedDrops ==
    ASSUME NEW jobs, NEW records, NEW j \in records, j \notin Trimmed(jobs, records)
    PROVE  jobs[j].state \in Terminal /\ ~jobs[j].unconfirmed
BY DEF Trimmed, Trimmable, IsTerminal

\* ... and adds none.
LEMMA TrimmedIsPart ==
    ASSUME NEW jobs, NEW records PROVE Trimmed(jobs, records) \subseteq records
BY DEF Trimmed

\* Admission is kept, what was forgotten and what is quiet stay over.
LEMMA EvolutionKeeps ==
    ASSUME TransfersInv, \A i \in JobIds : Evolves(i), UNCHANGED <<admitted, quiet>>,
           \A i \in kept \ kept' : job'[i].state \in Terminal /\ ~job'[i].unconfirmed,
           disconnecting \subseteq disconnecting',
           \A s \in Sessions : quiesce'[s].pc # "idle" => s \in disconnecting'
    PROVE  Admission' /\ ForgottenIsOver' /\ QuietIsSealed'
<1> USE DEF TransfersInv
<1>1. Admission'
  BY DEF Admission, Evolves
<1>2. ForgottenIsOver'
  BY DEF ForgottenIsOver, Evolves
<1>3. QuietIsSealed'
  <2>1. ASSUME NEW s \in quiet, NEW j \in JobIds, job'[j].session = s
        PROVE  job'[j].state \in Terminal /\ ~job'[j].unconfirmed
    <3>1. job[j].session = s
      BY <2>1 DEF Evolves
    <3>2. job[j].state \in Terminal /\ ~job[j].unconfirmed
      BY <3>1 DEF QuietIsSealed
    <3> QED BY <3>2 DEF Evolves
  <2> QED BY <2>1 DEF QuietIsSealed
<1> QED BY <1>1, <1>2, <1>3

\* Clones of destination locks may be given up, and a job that still has or wants the
\* destination keeps its own.
LEMMA LocksKeep ==
    ASSUME TransfersInv, \A i \in JobIds : Evolves(i), UNCHANGED locks,
           \A i \in JobIds : job'[i].lock \in {0, job[i].lock},
           \A i \in JobIds : job'[i].pc \in Working \cup {"locking"} =>
              job'[i].lock = job[i].lock /\ job[i].pc \in Working \cup {"locking"}
    PROVE  LocksMapped'
<1> USE DEF TransfersInv, TransfersTypeOK
<1>1. \A i \in JobIds : job'[i].dest = job[i].dest /\ (job'[i].pc = "none" <=> job[i].pc = "none")
  BY DEF Evolves
<1>2. \A j \in JobIds :
         job'[j].lock # 0 => job'[j].pc # "none" /\ locks[job'[j].dest] = job'[j].lock
  BY <1>1 DEF LocksMapped
<1>3. \A j \in JobIds : job'[j].pc \in Working \cup {"locking"} => job'[j].lock # 0
  BY DEF LocksMapped
<1>4. \A d \in Dests : locks[d] # 0 => job'[locks[d]].pc # "none" /\ job'[locks[d]].dest = d
  <2> SUFFICES ASSUME NEW d \in Dests, locks[d] # 0
               PROVE  job'[locks[d]].pc # "none" /\ job'[locks[d]].dest = d
    OBVIOUS
  <2>1. PICK l \in JobIds : l = locks[d]
    OBVIOUS
  <2> QED BY <1>1, <2>1 DEF LocksMapped
<1> QED BY <1>2, <1>3, <1>4 DEF LocksMapped, Working

\* Jobs stop working on their destinations.
LEMMA ExclusionKept ==
    ASSUME TransfersInv, \A i \in JobIds : Evolves(i),
           \A i \in JobIds : job'[i].pc \in Working => job[i].pc \in Working
    PROVE  DestinationExclusive'
BY DEF TransfersInv, DestinationExclusive, Evolves, Working

\* A step of one job's task that touches no register of the manager.
LEMMA TaskKeeps ==
    ASSUME TransfersInv, NEW j \in JobIds, NEW r \in Jobs, job' = [job EXCEPT ![j] = r],
           job[j].pc \notin {"none", "ended"}, r.pc \notin {"none", "ended"},
           r.session = job[j].session, r.dest = job[j].dest, r.lock = job[j].lock,
           r.state \notin Terminal,
           r.pc \in Working \cup {"locking"} => job[j].pc \in Working \cup {"locking"},
           DestinationExclusive',
           UNCHANGED <<kept, admitted, disconnecting, cleanup, locks, quiesce, quiet>>
    PROVE  TransfersInv'
<1>1. /\ job' \in [JobIds -> Jobs] /\ job'[j] = r
      /\ \A i \in JobIds : i # j => job'[i] = job[i]
  BY DEF TransfersInv, TransfersTypeOK
<1>2. job[j] # NoJob /\ job[j].state \notin Terminal
  BY DEF NoJob, TransfersInv, TerminalEnded
<1>3. \A i \in JobIds : Evolves(i)
  BY <1>1, <1>2 DEF Evolves
<1>4. Admission' /\ ForgottenIsOver' /\ QuietIsSealed'
  BY <1>3, EvolutionKeeps DEF TransfersInv, QuietIsSealed
<1>5. LocksMapped'
  BY <1>1, <1>3, LocksKeep
<1>6. TerminalEnded'
  BY <1>1 DEF TransfersInv, TerminalEnded
<1>7. TransfersTypeOK'
  BY <1>1 DEF TransfersInv, TransfersTypeOK
<1> QED BY <1>4, <1>5, <1>6, <1>7 DEF TransfersInv

\* A task that does not come to work on its destination keeps the exclusion.
LEMMA TaskExclusion ==
    ASSUME TransfersInv, NEW j \in JobIds, NEW r, job' = [job EXCEPT ![j] = r],
           r.dest = job[j].dest, r.pc \in Working => job[j].pc \in Working
    PROVE  DestinationExclusive'
<1>1. job'[j] = r /\ \A i \in JobIds : i # j => job'[i] = job[i]
  BY DEF TransfersInv, TransfersTypeOK
<1>2. \A i \in JobIds :
         job'[i].dest = job[i].dest /\ (job'[i].pc \in Working => job[i].pc \in Working)
  BY <1>1
<1> QED BY <1>2 DEF TransfersInv, DestinationExclusive, Working

\* The steps of a task from its spawn to the return of run_transfer, but for the two
\* that take a lock.
LEMMA QuietTaskSteps ==
    ASSUME TransfersInv, NEW j \in JobIds,
           \/ SpawnJob(j) \/ AcquireHost(j) \/ CancelledWaiting(j)
           \/ Stream(j) \/ Finalize(j) \/ RunEnds(j)
    PROVE  TransfersInv'
<1>0. job \in [JobIds -> Jobs] /\ job[j] \in Jobs
  BY DEF TransfersInv, TransfersTypeOK
<1>s. job[j].pc # "ended" => job[j].state \notin Terminal
  BY DEF TransfersInv, TerminalEnded
<1>1. ASSUME SpawnJob(j) PROVE TransfersInv'
  <2> DEFINE r == [job[j] EXCEPT !.pc = "host"]
  <2>1. job' = [job EXCEPT ![j] = r]
    BY <1>0, <1>1 DEF SpawnJob
  <2>2. /\ r \in Jobs /\ r.pc = "host" /\ job[j].pc = "inserted" /\ r.session = job[j].session
        /\ r.dest = job[j].dest /\ r.lock = job[j].lock /\ r.state = job[j].state
    BY <1>0, <1>1 DEF SpawnJob, Jobs, JobPcs
  <2>3. UNCHANGED <<kept, admitted, disconnecting, cleanup, locks, quiesce, quiet>>
    BY <1>1 DEF SpawnJob
  <2> HIDE DEF r
  <2>4. DestinationExclusive'
    BY <2>1, <2>2, TaskExclusion DEF Working
  <2> QED BY <1>s, <2>1, <2>2, <2>3, <2>4, TaskKeeps DEF Working
<1>2. ASSUME AcquireHost(j) PROVE TransfersInv'
  <2> DEFINE r == [job[j] EXCEPT !.pc = "global", !.host = TRUE]
  <2>1. job' = [job EXCEPT ![j] = r]
    BY <1>0, <1>2 DEF AcquireHost
  <2>2. /\ r \in Jobs /\ r.pc = "global" /\ job[j].pc = "host" /\ r.session = job[j].session
        /\ r.dest = job[j].dest /\ r.lock = job[j].lock /\ r.state = job[j].state
    BY <1>0, <1>2 DEF AcquireHost, Jobs, JobPcs
  <2>3. UNCHANGED <<kept, admitted, disconnecting, cleanup, locks, quiesce, quiet>>
    BY <1>2 DEF AcquireHost
  <2> HIDE DEF r
  <2>4. DestinationExclusive'
    BY <2>1, <2>2, TaskExclusion DEF Working
  <2> QED BY <1>s, <2>1, <2>2, <2>3, <2>4, TaskKeeps DEF Working
<1>3. ASSUME CancelledWaiting(j) PROVE TransfersInv'
  <2> DEFINE r == [job[j] EXCEPT !.pc = "leaving", !.out = "Cancelled", !.host = FALSE,
                                 !.global = FALSE]
  <2>1. job' = [job EXCEPT ![j] = r]
    BY <1>0, <1>3 DEF CancelledWaiting
  <2>2. /\ r \in Jobs /\ r.pc = "leaving" /\ job[j].pc \in {"host", "global", "locking"}
        /\ r.session = job[j].session
        /\ r.dest = job[j].dest /\ r.lock = job[j].lock /\ r.state = job[j].state
    BY <1>0, <1>3 DEF CancelledWaiting, Jobs, JobPcs, Terminal
  <2>3. UNCHANGED <<kept, admitted, disconnecting, cleanup, locks, quiesce, quiet>>
    BY <1>3 DEF CancelledWaiting
  <2> HIDE DEF r
  <2>4. DestinationExclusive'
    BY <2>1, <2>2, TaskExclusion DEF Working
  <2> QED BY <1>s, <2>1, <2>2, <2>3, <2>4, TaskKeeps DEF Working
<1>4. ASSUME Stream(j) PROVE TransfersInv'
  <2> DEFINE r == [job[j] EXCEPT !.pc = "streaming", !.state = "Transferring"]
  <2>1. job' = [job EXCEPT ![j] = r]
    BY <1>0, <1>4 DEF Stream
  <2>2. /\ r \in Jobs /\ r.pc = "streaming" /\ job[j].pc = "running" /\ r.session = job[j].session
        /\ r.dest = job[j].dest /\ r.lock = job[j].lock /\ r.state = "Transferring"
    BY <1>0, <1>4 DEF Stream, Jobs, JobPcs, JobStates
  <2>3. UNCHANGED <<kept, admitted, disconnecting, cleanup, locks, quiesce, quiet>>
    BY <1>4 DEF Stream
  <2> HIDE DEF r
  <2>4. DestinationExclusive'
    BY <2>1, <2>2, TaskExclusion DEF Working
  <2> QED BY <2>1, <2>2, <2>3, <2>4, TaskKeeps DEF Working, Terminal
<1>5. ASSUME Finalize(j) PROVE TransfersInv'
  <2> DEFINE r == [job[j] EXCEPT !.pc = "finalizing", !.state = "Finalizing"]
  <2>1. job' = [job EXCEPT ![j] = r]
    BY <1>0, <1>5 DEF Finalize
  <2>2. /\ r \in Jobs /\ r.pc = "finalizing" /\ job[j].pc = "streaming"
        /\ r.session = job[j].session
        /\ r.dest = job[j].dest /\ r.lock = job[j].lock /\ r.state = "Finalizing"
    BY <1>0, <1>5 DEF Finalize, Jobs, JobPcs, JobStates
  <2>3. UNCHANGED <<kept, admitted, disconnecting, cleanup, locks, quiesce, quiet>>
    BY <1>5 DEF Finalize
  <2> HIDE DEF r
  <2>4. DestinationExclusive'
    BY <2>1, <2>2, TaskExclusion DEF Working
  <2> QED BY <2>1, <2>2, <2>3, <2>4, TaskKeeps DEF Working, Terminal
<1>6. ASSUME RunEnds(j) PROVE TransfersInv'
  <2>0. PICK out \in Outcomes(j), unconfirmed \in BOOLEAN :
          job' = [job EXCEPT ![j].pc = "leaving", ![j].out = out, ![j].unconfirmed = unconfirmed,
                             ![j].host = FALSE, ![j].global = FALSE]
    BY <1>6 DEF RunEnds
  <2> DEFINE r == [job[j] EXCEPT !.pc = "leaving", !.out = out, !.unconfirmed = unconfirmed,
                                 !.host = FALSE, !.global = FALSE]
  <2>1. job' = [job EXCEPT ![j] = r]
    BY <1>0, <2>0
  <2>a. out \in Terminal /\ job[j].pc \in Working
    BY <1>6 DEF RunEnds, Outcomes, Terminal, Working
  <2>2. /\ r \in Jobs /\ r.pc = "leaving" /\ r.session = job[j].session
        /\ r.dest = job[j].dest /\ r.lock = job[j].lock /\ r.state = job[j].state
    BY <1>0, <2>a DEF Jobs, JobPcs
  <2>3. UNCHANGED <<kept, admitted, disconnecting, cleanup, locks, quiesce, quiet>>
    BY <1>6 DEF RunEnds
  <2> HIDE DEF r
  <2>4. DestinationExclusive'
    BY <2>1, <2>2, TaskExclusion DEF Working
  <2> QED BY <1>s, <2>a, <2>1, <2>2, <2>3, <2>4, TaskKeeps DEF Working
<1> QED BY <1>1, <1>2, <1>3, <1>4, <1>5, <1>6

\* A job gets the lock the map has for its destination, or makes one.
LEMMA AcquireGlobalInv ==
    ASSUME TransfersInv, NEW j \in JobIds, AcquireGlobal(j) PROVE TransfersInv'
<1>0. job \in [JobIds -> Jobs] /\ job[j] \in Jobs /\ locks \in [Dests -> JobIds \cup {0}]
  BY DEF TransfersInv, TransfersTypeOK
<1>1. job[j].pc = "global" /\ UNCHANGED <<kept, admitted, disconnecting, cleanup, quiesce, quiet>>
  BY DEF AcquireGlobal
<1>2. PICK d \in Dests : d = job[j].dest
  BY <1>1 DEF TransfersInv, Admission
<1>3. PICK l \in JobIds : /\ l = IF locks[d] = 0 THEN j ELSE locks[d]
                          /\ locks' = [locks EXCEPT ![d] = l]
                          /\ job' = [job EXCEPT ![j].pc = "locking", ![j].global = TRUE,
                                                ![j].lock = l, ![j].state = "Preparing"]
  BY <1>0, <1>2 DEF AcquireGlobal
<1> DEFINE r == [job[j] EXCEPT !.pc = "locking", !.global = TRUE, !.lock = l, !.state = "Preparing"]
<1>4. job' = [job EXCEPT ![j] = r]
  BY <1>0, <1>3
<1>5. /\ r \in Jobs /\ r.pc = "locking" /\ r.lock = l /\ r.state = "Preparing"
      /\ r.session = job[j].session /\ r.dest = d
  BY <1>0, <1>2 DEF Jobs, JobPcs, JobStates
<1> HIDE DEF r
<1>6. job'[j] = r /\ \A i \in JobIds : i # j => job'[i] = job[i]
  BY <1>0, <1>4
<1>7. /\ l # 0 /\ (locks[d] # 0 => l = locks[d]) /\ (locks[d] = 0 => l = j)
      /\ \A e \in Dests : e # d => locks'[e] = locks[e]
      /\ locks'[d] = l
  BY <1>0, <1>3 DEF JobIds
<1>8. job[j] # NoJob /\ job[j].state \notin Terminal
  BY <1>1 DEF NoJob, TransfersInv, TerminalEnded
<1>9. \A i \in JobIds : Evolves(i)
  BY <1>1, <1>2, <1>5, <1>6, <1>8 DEF Evolves
<1>10. Admission' /\ ForgottenIsOver' /\ QuietIsSealed'
  BY <1>1, <1>9, EvolutionKeeps DEF TransfersInv, QuietIsSealed
<1>11. LocksMapped'
  <2>1. ASSUME NEW i \in JobIds, job'[i].lock # 0
        PROVE  job'[i].pc # "none" /\ locks'[job'[i].dest] = job'[i].lock
    <3>1. CASE i = j
      BY <1>5, <1>6, <1>7, <3>1
    <3>2. CASE i # j
      <4>1. /\ job[i].lock # 0 /\ job[i].pc # "none" /\ locks[job[i].dest] = job[i].lock
            /\ job[i].dest \in Dests
        BY <1>6, <2>1, <3>2 DEF TransfersInv, LocksMapped, Admission
      <4> QED BY <1>6, <1>7, <3>2, <4>1
    <3> QED BY <3>1, <3>2
  <2>2. \A i \in JobIds : job'[i].pc \in Working \cup {"locking"} => job'[i].lock # 0
    BY <1>5, <1>6, <1>7 DEF TransfersInv, LocksMapped
  <2>3. ASSUME NEW e \in Dests, locks'[e] # 0
        PROVE  job'[locks'[e]].pc # "none" /\ job'[locks'[e]].dest = e
    <3>1. CASE e = d /\ locks[d] = 0
      BY <1>5, <1>6, <1>7, <3>1
    <3>2. CASE ~(e = d /\ locks[d] = 0)
      <4>1. PICK k \in JobIds : k = locks[e] /\ k = locks'[e] /\ k # 0
        BY <1>0, <1>7, <2>3, <3>2
      <4>2. job[k].pc # "none" /\ job[k].dest = e
        BY <4>1 DEF TransfersInv, LocksMapped
      <4> QED BY <1>2, <1>5, <1>6, <4>1, <4>2
    <3> QED BY <3>1, <3>2
  <2> QED BY <2>1, <2>2, <2>3 DEF LocksMapped, Working
<1>12. TerminalEnded'
  BY <1>1, <1>5, <1>6 DEF TransfersInv, TerminalEnded, Terminal
<1>13. DestinationExclusive'
  BY <1>2, <1>4, <1>5, TaskExclusion DEF Working
<1>14. TransfersTypeOK'
  <2>1. job' \in [JobIds -> Jobs]
    BY <1>0, <1>4, <1>5
  <2>2. locks' = [locks EXCEPT ![d] = l]
    BY <1>3
  <2>3. locks' \in [Dests -> JobIds \cup {0}]
    BY <1>0, <2>2
  <2> QED BY <1>1, <2>1, <2>3 DEF TransfersInv, TransfersTypeOK
<1> QED BY <1>10, <1>11, <1>12, <1>13, <1>14 DEF TransfersInv

\* A job takes its destination: whoever works on the same one has the same lock.
LEMMA LockDestinationInv ==
    ASSUME TransfersInv, NEW j \in JobIds, LockDestination(j) PROVE TransfersInv'
<1>0. job \in [JobIds -> Jobs] /\ job[j] \in Jobs
  BY DEF TransfersInv, TransfersTypeOK
<1> DEFINE r == [job[j] EXCEPT !.pc = "running"]
<1>1. job' = [job EXCEPT ![j] = r]
  BY <1>0 DEF LockDestination
<1>2. /\ r \in Jobs /\ r.pc = "running" /\ r.session = job[j].session
      /\ r.dest = job[j].dest /\ r.lock = job[j].lock /\ r.state = job[j].state
  BY <1>0 DEF Jobs, JobPcs
<1>3. /\ UNCHANGED <<kept, admitted, disconnecting, cleanup, locks, quiesce, quiet>>
      /\ job[j].pc = "locking" /\ ~Held(job[j].lock)
  BY DEF LockDestination
<1> HIDE DEF r
<1>4. job'[j] = r /\ \A i \in JobIds : i # j => job'[i] = job[i]
  BY <1>0, <1>1
<1>5. ASSUME NEW i \in JobIds, job[i].pc \in Working PROVE job[i].dest # job[j].dest
  <2>1. /\ job[i].lock # 0 /\ locks[job[i].dest] = job[i].lock
        /\ job[j].lock # 0 /\ locks[job[j].dest] = job[j].lock
    BY <1>3, <1>5 DEF TransfersInv, LocksMapped
  <2>2. job[i].lock # job[j].lock
    BY <1>3, <1>5 DEF Held
  <2> QED BY <2>1, <2>2
<1>6. DestinationExclusive'
  BY <1>2, <1>4, <1>5 DEF TransfersInv, DestinationExclusive, Working
<1>7. job[j].state \notin Terminal
  BY <1>3 DEF TransfersInv, TerminalEnded
<1> QED BY <1>1, <1>2, <1>3, <1>6, <1>7, TaskKeeps DEF Working

\* A lock that another job has a clone of is not forgotten: map and clones are more
\* than two.
LEMMA SharedLockCounted ==
    ASSUME TransfersInv, NEW i \in JobIds, NEW j \in JobIds, i # j, job[j].lock # 0,
           job[i].lock = job[j].lock
    PROVE  StrongCount(job[j].lock) # 2
<1>0. PICK l \in JobIds : l = job[j].lock
  BY DEF TransfersInv, TransfersTypeOK, Jobs
<1> DEFINE C == {k \in JobIds : job[k].lock = l}
           M == {d \in Dests : locks[d] = l}
<1>1. IsFiniteSet(JobIds)
  <2>1. MaxJob \in Int /\ 1 \in Int
    BY TransfersAssumption
  <2> QED BY <2>1, FS_Interval, ZenonT(60) DEF JobIds
<1>2. IsFiniteSet(C) /\ Cardinality(C) \in Nat
  BY <1>1, FS_Subset, FS_CardinalityType
<1>3. Cardinality(C) >= 2
  <2>1. i \in C /\ j \in C
    BY <1>0
  <2>2. Cardinality(C) # 0
    BY <1>2, <2>1, FS_EmptySet
  <2>3. Cardinality(C) # 1
    <3>1. ASSUME Cardinality(C) = 1 PROVE FALSE
      <4>1. PICK x : C = {x}
        BY <1>2, <3>1, FS_Singleton
      <4> QED BY <2>1, <4>1
    <3> QED BY <3>1
  <2> HIDE DEF C
  <2> QED BY <1>2, <2>2, <2>3
<1>4. Cardinality(M) = 1
  <2>1. PICK d \in Dests : d = job[j].dest /\ locks[d] = l
    BY <1>0 DEF TransfersInv, LocksMapped, Admission
  <2>2. \A e \in Dests : locks[e] = l => job[l].dest = e
    BY <1>0 DEF TransfersInv, LocksMapped
  <2>3. M = {d}
    BY <2>1, <2>2
  <2> QED BY <2>3, FS_Singleton
<1>5. StrongCount(job[j].lock) = Cardinality(C) + Cardinality(M)
  BY <1>0 DEF StrongCount
<1> HIDE DEF C, M
<1> QED BY <1>2, <1>3, <1>4, <1>5

\* A job leaves with its final state; its lock goes from the map only with the last
\* clone.
LEMMA LeaveInv ==
    ASSUME TransfersInv, NEW j \in JobIds, Leave(j) PROVE TransfersInv'
<1>0. job \in [JobIds -> Jobs] /\ job[j] \in Jobs /\ locks \in [Dests -> JobIds \cup {0}]
  BY DEF TransfersInv, TransfersTypeOK
<1> DEFINE r == [job[j] EXCEPT !.pc = "ended", !.lock = 0, !.done = TRUE, !.state = job[j].out]
<1>1. /\ job' = [job EXCEPT ![j] = r] /\ kept' = Trimmed(job', kept) /\ job[j].pc = "leaving"
      /\ UNCHANGED <<admitted, disconnecting, cleanup, quiesce, quiet>>
  BY DEF Leave
<1>2. /\ r.pc = "ended" /\ r.lock = 0 /\ r.state = job[j].out
      /\ r.session = job[j].session /\ r.dest = job[j].dest
  BY <1>0 DEF Jobs
<1>3. r \in Jobs
  BY <1>0 DEF Jobs, JobPcs, JobStates
<1> HIDE DEF r
<1>4. job'[j] = r /\ \A i \in JobIds : i # j => job'[i] = job[i]
  BY <1>0, <1>1
<1>5. job[j] # NoJob /\ job[j].state \notin Terminal /\ cleanup[j] # "running"
  BY <1>1 DEF NoJob, TransfersInv, TerminalEnded
<1>6. \A i \in JobIds : Evolves(i)
  BY <1>1, <1>2, <1>4, <1>5 DEF Evolves
<1>7. Admission' /\ ForgottenIsOver' /\ QuietIsSealed'
  <2>1. \A i \in kept \ kept' : job'[i].state \in Terminal /\ ~job'[i].unconfirmed
    BY <1>1, TrimmedDrops
  <2> QED BY <1>1, <1>6, <2>1, EvolutionKeeps DEF TransfersInv, QuietIsSealed
<1>8. TerminalEnded'
  BY <1>1, <1>2, <1>4, <1>5 DEF TransfersInv, TerminalEnded
<1>9. PICK d \in Dests : d = job[j].dest
  BY <1>1 DEF TransfersInv, Admission
<1>10. \/ locks' = locks
       \/ /\ locks' = [locks EXCEPT ![d] = 0] /\ job[j].lock # 0 /\ StrongCount(job[j].lock) = 2
  BY <1>9 DEF Leave, ForgetLock
<1>11. /\ locks' \in [Dests -> JobIds \cup {0}]
       /\ \A e \in Dests : locks'[e] # 0 => locks'[e] = locks[e]
       /\ \A e \in Dests : e # d => locks'[e] = locks[e]
  BY <1>0, <1>10
<1>12. LocksMapped'
  <2>1. ASSUME NEW i \in JobIds, job'[i].lock # 0
        PROVE  job'[i].pc # "none" /\ locks'[job'[i].dest] = job'[i].lock
    <3>1. i # j /\ job'[i] = job[i]
      BY <1>2, <1>4, <2>1
    <3>2. /\ job[i].pc # "none" /\ locks[job[i].dest] = job[i].lock
          /\ job[i].dest \in Dests
      BY <2>1, <3>1 DEF TransfersInv, LocksMapped, Admission
    <3>3. ASSUME locks' # locks, job[i].dest = d PROVE FALSE
      <4>1. /\ job[j].lock # 0 /\ StrongCount(job[j].lock) = 2
        BY <1>10, <3>3
      <4>2. job[i].lock = job[j].lock
        BY <1>9, <3>2, <3>3, <4>1 DEF TransfersInv, LocksMapped
      <4> QED BY <3>1, <4>1, <4>2, SharedLockCounted
    <3> QED BY <1>11, <3>1, <3>2, <3>3
  <2>2. \A i \in JobIds : job'[i].pc \in Working \cup {"locking"} => job'[i].lock # 0
    BY <1>2, <1>4 DEF TransfersInv, LocksMapped, Working
  <2>3. ASSUME NEW e \in Dests, locks'[e] # 0
        PROVE  job'[locks'[e]].pc # "none" /\ job'[locks'[e]].dest = e
    <3>1. PICK k \in JobIds : k = locks[e] /\ k = locks'[e] /\ k # 0
      BY <1>0, <1>11, <2>3
    <3>2. job[k].pc # "none" /\ job[k].dest = e
      BY <3>1 DEF TransfersInv, LocksMapped
    <3> QED BY <1>2, <1>4, <3>1, <3>2
  <2> QED BY <2>1, <2>2, <2>3 DEF LocksMapped, Working
<1>13. DestinationExclusive'
  BY <1>1, <1>2, TaskExclusion DEF Working
<1>14. TransfersTypeOK'
  <2>1. job' \in [JobIds -> Jobs]
    BY <1>0, <1>1, <1>3
  <2>2. kept' \subseteq JobIds
    BY <1>1, TrimmedIsPart DEF TransfersInv, TransfersTypeOK
  <2> QED BY <1>1, <1>11, <2>1, <2>2 DEF TransfersInv, TransfersTypeOK
<1> QED BY <1>7, <1>8, <1>12, <1>13, <1>14 DEF TransfersInv

\* A dropped task ends without a final state, and may leave a cleanup task.
LEMMA TaskDroppedInv ==
    ASSUME TransfersInv, NEW j \in JobIds, NEW owned \in BOOLEAN, TaskDropped(j, owned)
    PROVE  TransfersInv'
<1>0. job \in [JobIds -> Jobs] /\ job[j] \in Jobs
  BY DEF TransfersInv, TransfersTypeOK
<1> DEFINE r == [job[j] EXCEPT !.pc = "ended", !.host = FALSE, !.global = FALSE, !.lock = 0,
                               !.done = TRUE]
<1>1. job' = [job EXCEPT ![j] = r]
  BY <1>0 DEF TaskDropped
<1>2. /\ r \in Jobs /\ r.pc = "ended" /\ r.lock = 0 /\ r.state = job[j].state
      /\ r.session = job[j].session /\ r.dest = job[j].dest
      /\ r.unconfirmed = job[j].unconfirmed
  BY <1>0 DEF Jobs, JobPcs
<1>3. /\ job[j].pc \in Working /\ UNCHANGED <<kept, admitted, disconnecting, locks, quiesce, quiet>>
      /\ cleanup' = [cleanup EXCEPT ![j] = IF owned THEN "running" ELSE cleanup[j]]
  BY DEF TaskDropped
<1> HIDE DEF r
<1>4. job'[j] = r /\ \A i \in JobIds : i # j => job'[i] = job[i]
  BY <1>0, <1>1
<1>5. job[j] # NoJob /\ job[j].state \notin Terminal /\ job[j].pc \notin {"none", "ended"}
  BY <1>3 DEF NoJob, TransfersInv, TerminalEnded, Working
<1>6. \A i \in JobIds : Evolves(i)
  BY <1>2, <1>4, <1>5 DEF Evolves
<1>7. Admission' /\ ForgottenIsOver' /\ QuietIsSealed'
  BY <1>3, <1>6, EvolutionKeeps DEF TransfersInv, QuietIsSealed
<1>8. LocksMapped'
  BY <1>2, <1>3, <1>4, <1>6, LocksKeep DEF Working
<1>9. DestinationExclusive'
  BY <1>1, <1>2, TaskExclusion DEF Working
<1>10. cleanup' \in [JobIds -> {"none", "running", "done"}]
       /\ \A i \in JobIds : i # j => cleanup'[i] = cleanup[i]
  BY <1>3 DEF TransfersInv, TransfersTypeOK
<1>11. TerminalEnded'
  BY <1>2, <1>4, <1>5, <1>10 DEF TransfersInv, TerminalEnded
<1>12. TransfersTypeOK'
  BY <1>0, <1>1, <1>2, <1>3, <1>10 DEF TransfersInv, TransfersTypeOK
<1> QED BY <1>7, <1>8, <1>9, <1>11, <1>12 DEF TransfersInv

\* The cleanup task of a dropped job sets its final state.
LEMMA CleanupEndsInv ==
    ASSUME TransfersInv, NEW j \in JobIds, CleanupEnds(j) PROVE TransfersInv'
<1>0. job \in [JobIds -> Jobs] /\ job[j] \in Jobs
  BY DEF TransfersInv, TransfersTypeOK
<1>1. PICK u \in BOOLEAN :
        /\ job' = [job EXCEPT ![j].state = "Failed", ![j].unconfirmed = u]
        /\ kept' = Trimmed(job', kept)
  BY DEF CleanupEnds
<1> DEFINE r == [job[j] EXCEPT !.state = "Failed", !.unconfirmed = u]
<1>2. job' = [job EXCEPT ![j] = r]
  BY <1>0, <1>1
<1>3. /\ r \in Jobs /\ r.pc = job[j].pc /\ r.lock = job[j].lock /\ r.state = "Failed"
      /\ r.session = job[j].session /\ r.dest = job[j].dest
  BY <1>0 DEF Jobs, JobStates, Terminal
<1>4. /\ cleanup[j] = "running" /\ UNCHANGED <<admitted, disconnecting, locks, quiesce, quiet>>
      /\ cleanup' = [cleanup EXCEPT ![j] = "done"]
  BY DEF CleanupEnds
<1> HIDE DEF r
<1>5. job'[j] = r /\ \A i \in JobIds : i # j => job'[i] = job[i]
  BY <1>0, <1>2
<1>6. job[j].pc = "ended" /\ job[j] # NoJob /\ job[j].state \notin Terminal
  BY <1>4 DEF NoJob, TransfersInv, TerminalEnded
<1>7. \A i \in JobIds : Evolves(i)
  BY <1>3, <1>5, <1>6 DEF Evolves
<1>8. Admission' /\ ForgottenIsOver' /\ QuietIsSealed'
  <2>1. \A i \in kept \ kept' : job'[i].state \in Terminal /\ ~job'[i].unconfirmed
    BY <1>1, TrimmedDrops
  <2> QED BY <1>4, <1>7, <2>1, EvolutionKeeps DEF TransfersInv, QuietIsSealed
<1>9. LocksMapped'
  BY <1>3, <1>4, <1>5, <1>6, <1>7, LocksKeep DEF Working
<1>10. DestinationExclusive'
  BY <1>2, <1>3, <1>6, TaskExclusion DEF Working
<1>11. cleanup' \in [JobIds -> {"none", "running", "done"}]
       /\ cleanup'[j] = "done" /\ \A i \in JobIds : i # j => cleanup'[i] = cleanup[i]
  BY <1>4 DEF TransfersInv, TransfersTypeOK
<1>12. TerminalEnded'
  BY <1>3, <1>5, <1>6, <1>11 DEF TransfersInv, TerminalEnded
<1>13. TransfersTypeOK'
  <2>1. job' \in [JobIds -> Jobs]
    BY <1>0, <1>2, <1>3
  <2>2. kept' \subseteq JobIds
    BY <1>1, TrimmedIsPart DEF TransfersInv, TransfersTypeOK
  <2> QED BY <1>4, <1>11, <2>1, <2>2 DEF TransfersInv, TransfersTypeOK
<1> QED BY <1>8, <1>9, <1>10, <1>12, <1>13 DEF TransfersInv

\* A cleanup task that is done leaves the list.
LEMMA CleanupForgottenInv ==
    ASSUME TransfersInv, NEW j \in JobIds, CleanupForgotten(j) PROVE TransfersInv'
<1>1. /\ cleanup' = [cleanup EXCEPT ![j] = "none"]
      /\ UNCHANGED <<job, kept, admitted, disconnecting, locks, quiesce, quiet>>
  BY DEF CleanupForgotten
<1>2. TransfersTypeOK' /\ TerminalEnded'
  BY <1>1 DEF TransfersInv, TransfersTypeOK, TerminalEnded
<1>3. Admission' /\ ForgottenIsOver' /\ QuietIsSealed'
  BY <1>1 DEF TransfersInv, Admission, ForgottenIsOver, QuietIsSealed
<1>4. LocksMapped' /\ DestinationExclusive'
  BY <1>1 DEF TransfersInv, LocksMapped, DestinationExclusive, Working
<1> QED BY <1>2, <1>3, <1>4 DEF TransfersInv

\* A cancellation changes the state of jobs that have not ended, and their tokens.
LEMMA CancelAllInv ==
    ASSUME TransfersInv, NEW which, CancelAll(which),
           UNCHANGED <<kept, admitted, cleanup, locks, quiet>>,
           disconnecting \subseteq disconnecting', disconnecting' \subseteq Sessions \cup {"none"},
           quiesce' \in [Sessions -> [pc : {"idle", "sealed", "jobs", "cleanup"},
                                      wait : SUBSET JobIds]],
           \A s \in Sessions : quiesce'[s].pc # "idle" => s \in disconnecting'
    PROVE  TransfersInv'
<1>0. job \in [JobIds -> Jobs]
  BY DEF TransfersInv, TransfersTypeOK
<1>1. ASSUME NEW i \in JobIds
      PROVE  /\ job'[i] \in Jobs /\ job'[i].pc = job[i].pc /\ job'[i].lock = job[i].lock
             /\ job'[i].session = job[i].session /\ job'[i].dest = job[i].dest
             /\ job'[i].unconfirmed = job[i].unconfirmed
             /\ job'[i].state \in Terminal <=> job[i].state \in Terminal
             /\ job'[i] = job[i] \/ job[i].state \in Cancellable
  <2>1. CASE job'[i] = job[i]
    BY <1>0, <2>1
  <2>2. CASE job[i].state \in Cancellable
             /\ job'[i] = [job[i] EXCEPT !.state = "CancelRequested", !.cancel = TRUE]
    <3>1. PICK h \in Jobs : h = job[i]
      BY <1>0
    <3>2. /\ job'[i] = [h EXCEPT !.state = "CancelRequested", !.cancel = TRUE]
          /\ h.state \in Cancellable
      BY <2>2, <3>1
    <3>3. /\ job'[i].pc = h.pc /\ job'[i].lock = h.lock /\ job'[i].session = h.session
          /\ job'[i].dest = h.dest /\ job'[i].unconfirmed = h.unconfirmed
          /\ job'[i].state = "CancelRequested"
      BY <3>2 DEF Jobs
    <3>4. "CancelRequested" \in JobStates
      BY DEF JobStates
    <3>5. job'[i] \in Jobs
      BY <3>2, <3>4 DEF Jobs
    <3>6. h.state \notin Terminal /\ "CancelRequested" \notin Terminal
      BY <3>2 DEF Cancellable, Terminal
    <3> QED BY <3>1, <3>2, <3>3, <3>5, <3>6
  <2> QED BY <2>1, <2>2 DEF CancelAll
<1>2. \A i \in JobIds : Evolves(i)
  BY <1>1 DEF Evolves, NoJob, Cancellable
<1>3. Admission' /\ ForgottenIsOver' /\ QuietIsSealed'
  BY <1>2, EvolutionKeeps
<1>4. LocksMapped'
  BY <1>1, <1>2, LocksKeep
<1>5. DestinationExclusive'
  BY <1>1, <1>2, ExclusionKept
<1>6. TerminalEnded'
  BY <1>1 DEF TransfersInv, TerminalEnded
<1>7. TransfersTypeOK'
  <2>1. job' \in [JobIds -> Jobs]
    BY <1>1 DEF CancelAll
  <2> QED BY <2>1 DEF TransfersInv, TransfersTypeOK
<1> QED BY <1>3, <1>4, <1>5, <1>6, <1>7 DEF TransfersInv

\* cancel: one job of the session.
LEMMA CancelJobInv ==
    ASSUME TransfersInv, NEW j \in JobIds, CancelJob(j) PROVE TransfersInv'
<1>1. /\ CancelAll({j})
      /\ UNCHANGED <<kept, admitted, disconnecting, cleanup, locks, quiesce, quiet>>
  BY DEF CancelJob
<1> QED BY <1>1, CancelAllInv DEF TransfersInv, TransfersTypeOK, QuietIsSealed

\* TransferManager::shutdown.
LEMMA TransfersShutdownInv ==
    ASSUME TransfersInv, Shutdown PROVE TransfersInv'
<1>1. /\ CancelAll(JobIds) /\ UNCHANGED <<kept, admitted, cleanup, locks, quiesce, quiet>>
      /\ disconnecting' = disconnecting \cup {job[j].session : j \in NonTerminal(kept)}
  BY DEF Shutdown
<1>2. \A j \in NonTerminal(kept) : job[j].session \in Sessions \cup {"none"}
  BY DEF TransfersInv, TransfersTypeOK, NonTerminal, Jobs
<1>3. disconnecting \subseteq disconnecting' /\ disconnecting' \subseteq Sessions \cup {"none"}
  BY <1>1, <1>2 DEF TransfersInv, TransfersTypeOK
<1>4. \A s \in Sessions : quiesce'[s].pc # "idle" => s \in disconnecting'
  BY <1>1, <1>3 DEF TransfersInv, QuietIsSealed
<1>5. quiesce' \in [Sessions -> [pc : {"idle", "sealed", "jobs", "cleanup"}, wait : SUBSET JobIds]]
  BY <1>1 DEF TransfersInv, TransfersTypeOK
<1> QED BY <1>1, <1>3, <1>4, <1>5, CancelAllInv

\* quiesce_session seals the session before it cancels.
LEMMA QuiesceSessionInv ==
    ASSUME TransfersInv, NEW s \in Sessions, QuiesceSession(s) PROVE TransfersInv'
<1>1. /\ CancelAll(OfSession(s)) /\ UNCHANGED <<kept, admitted, cleanup, locks, quiet>>
      /\ disconnecting' = disconnecting \cup {s} /\ quiesce' = [quiesce EXCEPT ![s].pc = "sealed"]
  BY DEF QuiesceSession
<1>2. disconnecting \subseteq disconnecting' /\ disconnecting' \subseteq Sessions \cup {"none"}
  BY <1>1 DEF TransfersInv, TransfersTypeOK
<1>3. quiesce' \in [Sessions -> [pc : {"idle", "sealed", "jobs", "cleanup"}, wait : SUBSET JobIds]]
  BY <1>1 DEF TransfersInv, TransfersTypeOK
<1>4. \A t \in Sessions : quiesce'[t].pc # "idle" => t \in disconnecting'
  BY <1>1 DEF TransfersInv, TransfersTypeOK, QuietIsSealed
<1> QED BY <1>1, <1>2, <1>3, <1>4, CancelAllInv

\* quiesce_session goes on to wait, gives up, or is through.
LEMMA QuiesceStepInv ==
    ASSUME TransfersInv, NEW s \in Sessions, NEW q, quiesce' = [quiesce EXCEPT ![s] = q],
           q \in [pc : {"idle", "sealed", "jobs", "cleanup"}, wait : SUBSET JobIds],
           quiesce[s].pc # "idle", quiet' = quiet \/ (quiet' = quiet \cup {s} /\ Confirmed(s)),
           UNCHANGED <<job, kept, admitted, disconnecting, cleanup, locks>>
    PROVE  TransfersInv'
<1>1. TransfersTypeOK'
  BY DEF TransfersInv, TransfersTypeOK
<1>2. Admission' /\ TerminalEnded' /\ ForgottenIsOver'
  BY DEF TransfersInv, Admission, TerminalEnded, ForgottenIsOver
<1>3. LocksMapped' /\ DestinationExclusive'
  BY DEF TransfersInv, LocksMapped, DestinationExclusive, Working
<1>4. ASSUME Confirmed(s), NEW j \in JobIds, job[j].session = s
      PROVE  job[j].state \in Terminal /\ ~job[j].unconfirmed
  <2>1. j <= admitted
    BY <1>4, TransfersAssumption DEF TransfersInv, Admission
  <2> QED BY <1>4, <2>1 DEF TransfersInv, ForgottenIsOver, Confirmed, OfSession, IsTerminal
<1>5. QuietIsSealed'
  BY <1>4 DEF TransfersInv, TransfersTypeOK, QuietIsSealed
<1> QED BY <1>1, <1>2, <1>3, <1>5 DEF TransfersInv

\* The later steps of quiesce_session.
LEMMA QuiesceStepsInv ==
    ASSUME TransfersInv, NEW s \in Sessions,
           QuiesceJobs(s) \/ QuiesceCleanup(s) \/ QuiesceReturns(s) \/ QuiesceTimesOut(s)
    PROVE  TransfersInv'
<1> DEFINE Q == [pc : {"idle", "sealed", "jobs", "cleanup"}, wait : SUBSET JobIds]
<1>1. ASSUME QuiesceJobs(s) PROVE TransfersInv'
  <2>1. [pc |-> "jobs", wait |-> NonTerminal(kept) \cap OfSession(s)] \in Q
    BY DEF TransfersInv, TransfersTypeOK, NonTerminal
  <2> QED BY <1>1, <2>1, QuiesceStepInv DEF QuiesceJobs
<1>2. ASSUME QuiesceCleanup(s) PROVE TransfersInv'
  <2>1. [pc |-> "cleanup", wait |-> {j \in kept \cap OfSession(s) : cleanup[j] # "none"}] \in Q
    BY DEF TransfersInv, TransfersTypeOK
  <2> QED BY <1>2, <2>1, QuiesceStepInv DEF QuiesceCleanup
<1>3. NoQuiesce \in Q
  BY DEF NoQuiesce
<1>4. ASSUME QuiesceReturns(s) PROVE TransfersInv'
  BY <1>3, <1>4, QuiesceStepInv DEF QuiesceReturns
<1>5. ASSUME QuiesceTimesOut(s) PROVE TransfersInv'
  BY <1>3, <1>5, QuiesceStepInv DEF QuiesceTimesOut
<1> QED BY <1>1, <1>2, <1>4, <1>5

\* enqueue_batch: a session that is sealed gets no new jobs, and a new job takes a
\* place nobody had.
LEMMA EnqueueBatchInv ==
    ASSUME TransfersInv, NEW s \in Sessions, NEW batch \in Batches, EnqueueBatch(s, batch)
    PROVE  TransfersInv'
<1>0. /\ s \notin disconnecting /\ UNCHANGED <<disconnecting, cleanup, locks, quiesce, quiet>>
  BY DEF EnqueueBatch
<1>1. PICK n \in Nat : /\ n = Cardinality(DOMAIN batch) /\ DOMAIN batch = 1..n
                       /\ \A k \in 1..n : batch[k] \in Dests
  <2>1. \A m \in Nat : Cardinality(1..m) = m
    <3>1. \A a, c \in Int : Cardinality(a..c) = IF a > c THEN 0 ELSE c - a + 1
      BY FS_Interval, Zenon
    <3>2. ASSUME NEW m \in Nat PROVE Cardinality(1..m) = IF 1 > m THEN 0 ELSE m - 1 + 1
      BY <3>1
    <3>3. \A m \in Nat : (IF 1 > m THEN 0 ELSE m - 1 + 1) = m
      OBVIOUS
    <3> QED BY <3>2, <3>3
  <2>2. ASSUME NEW m \in {1, 2}, batch \in [1..m -> Dests]
        PROVE  m = Cardinality(DOMAIN batch) /\ DOMAIN batch = 1..m
    BY <2>1, <2>2
  <2>3. \E m \in {1, 2} : batch \in [1..m -> Dests]
    BY DEF Batches
  <2> QED BY <2>2, <2>3
<1>2. PICK records : records = Trimmed(job, kept)
  OBVIOUS
<1>3. /\ records \subseteq kept
      /\ \A i \in kept \ records : job[i].state \in Terminal /\ ~job[i].unconfirmed
  BY <1>2, TrimmedDrops, TrimmedIsPart
<1>4. CASE kept' = records /\ UNCHANGED <<job, admitted>>
  <2>1. TransfersTypeOK'
    BY <1>0, <1>3, <1>4 DEF TransfersInv, TransfersTypeOK
  <2>2. Admission' /\ TerminalEnded' /\ ForgottenIsOver' /\ QuietIsSealed'
    BY <1>0, <1>3, <1>4 DEF TransfersInv, Admission, TerminalEnded, ForgottenIsOver, QuietIsSealed
  <2>3. LocksMapped' /\ DestinationExclusive'
    BY <1>0, <1>4 DEF TransfersInv, LocksMapped, DestinationExclusive, Working
  <2> QED BY <2>1, <2>2, <2>3 DEF TransfersInv
<1>5. CASE /\ job' = [j \in JobIds |->
                 IF j \in admitted + 1 .. admitted + n
                 THEN [NoJob EXCEPT !.session = s, !.dest = batch[j - admitted],
                                    !.state = "Queued", !.pc = "inserted"]
                 ELSE job[j]]
           /\ kept' = records \cup (admitted + 1 .. admitted + n)
           /\ admitted' = admitted + n /\ admitted + n <= MaxJob
  <2>1. job \in [JobIds -> Jobs] /\ admitted \in Nat
    BY DEF TransfersInv, TransfersTypeOK
  <2>2. admitted' = admitted + n /\ admitted + n <= MaxJob
    BY <1>5
  <2>3. PICK new : new = admitted + 1 .. admitted + n
    OBVIOUS
  <2>4. \A j \in new : j \in JobIds /\ j > admitted /\ j <= admitted' /\ j - admitted \in 1..n
    BY <2>1, <2>2, <2>3, TransfersAssumption DEF JobIds
  <2>5. \A j \in JobIds : j \notin new => (j <= admitted' <=> j <= admitted)
    BY <2>1, <2>2, <2>3, TransfersAssumption DEF JobIds
  <2>6. \A j \in JobIds : j > admitted' => j > admitted
    BY <2>1, <2>2 DEF JobIds
  <2>7. \A j \in JobIds : ~(j > admitted' /\ j <= admitted')
    BY <2>1, <2>2 DEF JobIds
  <2>8. kept' = records \cup new
    BY <1>5, <2>3
  <2>9. job' = [j \in JobIds |->
                  IF j \in new THEN [NoJob EXCEPT !.session = s, !.dest = batch[j - admitted],
                                                 !.state = "Queued", !.pc = "inserted"]
                  ELSE job[j]]
    BY <1>5, <2>3
  <2>10. ASSUME NEW j \in new
        PROVE  /\ j \in JobIds /\ job[j] = NoJob
               /\ \E d \in Dests :
                    job'[j] = [NoJob EXCEPT !.session = s, !.dest = d, !.state = "Queued",
                                            !.pc = "inserted"]
    <3>1. j \in JobIds /\ j > admitted /\ j - admitted \in 1..n
      BY <2>10, <2>4
    <3>2. job[j] = NoJob
      BY <3>1 DEF TransfersInv, Admission
    <3>3. PICK k : k = j - admitted
      OBVIOUS
    <3>4. batch[k] \in Dests
      BY <1>1, <3>1, <3>3
    <3>5. job'[j] = [NoJob EXCEPT !.session = s, !.dest = batch[k], !.state = "Queued",
                                  !.pc = "inserted"]
      BY <2>10, <2>9, <3>1, <3>3
    <3> QED BY <3>1, <3>2, <3>4, <3>5
  <2>11. ASSUME NEW j \in new
        PROVE  /\ job'[j] \in Jobs /\ job'[j].session = s /\ job'[j].dest \in Dests
               /\ job'[j].state = "Queued" /\ job'[j].pc = "inserted" /\ job'[j].lock = 0
               /\ job[j].pc = "none" /\ job[j].lock = 0 /\ job[j].state = "none"
    <3>1. PICK d \in Dests :
            job'[j] = [NoJob EXCEPT !.session = s, !.dest = d, !.state = "Queued",
                                    !.pc = "inserted"]
      BY <2>11, <2>10
    <3>2. job'[j] = [session |-> s, dest |-> d, state |-> "Queued", cancel |-> FALSE,
                     pc |-> "inserted", host |-> FALSE, global |-> FALSE, lock |-> 0,
                     out |-> "none", unconfirmed |-> FALSE, done |-> FALSE]
      BY <3>1 DEF NoJob
    <3>3. "Queued" \in JobStates /\ "inserted" \in JobPcs
      BY DEF JobStates, JobPcs
    <3>4. job'[j] \in Jobs
      BY <3>2, <3>3 DEF Jobs
    <3>5. job[j].pc = "none" /\ job[j].lock = 0 /\ job[j].state = "none"
      <4>1. job[j] = NoJob
        BY <2>11, <2>10
      <4> QED BY <4>1 DEF NoJob
    <3> QED BY <3>2, <3>4, <3>5
  <2>12. \A j \in JobIds : j \notin new => job'[j] = job[j]
    BY <2>9
  <2>13. TransfersTypeOK'
    <3>1. job' \in [JobIds -> Jobs]
      BY <2>1, <2>11, <2>12, <2>9
    <3>2. kept' \subseteq JobIds /\ admitted' \in Nat
      <4>1. kept \subseteq JobIds
        BY DEF TransfersInv, TransfersTypeOK
      <4>2. kept' \subseteq JobIds
        BY <1>3, <2>4, <2>8, <4>1
      <4>3. admitted' \in Nat
        BY <2>1, <2>2
      <4> QED BY <4>2, <4>3
    <3> QED BY <1>0, <3>1, <3>2 DEF TransfersInv, TransfersTypeOK
  <2>14. Admission'
    <3>1. ASSUME NEW j \in JobIds
          PROVE  /\ j > admitted' => job'[j] = NoJob
                 /\ job'[j].pc # "none" => job'[j].dest \in Dests
                 /\ job'[j].session # "none" => j <= admitted'
      <4>1. CASE j \in new
        BY <2>11, <2>4, <2>7, <4>1
      <4>2. CASE j \notin new
        <5>1. job'[j] = job[j]
          BY <2>12, <4>2
        <5> QED BY <2>5, <2>6, <4>2, <5>1 DEF TransfersInv, Admission
      <4> QED BY <4>1, <4>2
    <3> QED BY <3>1 DEF Admission
  <2>15. TerminalEnded'
    <3>1. \A j \in JobIds : job[j].pc = "none" => cleanup[j] # "running"
      BY DEF TransfersInv, TerminalEnded
    <3> QED BY <1>0, <2>11, <2>12, <3>1 DEF TransfersInv, TerminalEnded, Terminal
  <2>16. ForgottenIsOver'
    <3>1. ASSUME NEW j \in JobIds, j <= admitted', j \notin kept'
          PROVE  job'[j].state \in Terminal /\ ~job'[j].unconfirmed
      <4>1. j \notin new /\ j \notin records
        BY <2>8, <3>1
      <4>2. j <= admitted
        BY <2>5, <3>1, <4>1
      <4> QED BY <1>3, <2>12, <4>1, <4>2 DEF TransfersInv, ForgottenIsOver
    <3> QED BY <3>1 DEF ForgottenIsOver
  <2>17. QuietIsSealed'
    <3>1. s \notin quiet
      BY <1>0 DEF TransfersInv, QuietIsSealed
    <3> QED BY <1>0, <2>11, <2>12, <3>1 DEF TransfersInv, QuietIsSealed
  <2>18. LocksMapped'
    <3>1. \A j \in JobIds : job'[j].lock # 0 => job'[j] = job[j]
      BY <2>11, <2>12
    <3>2. \A j \in JobIds : job'[j].pc \in Working \cup {"locking"} => job'[j] = job[j]
      BY <2>11, <2>12 DEF Working
    <3>3. \A j \in JobIds : job[j].pc # "none" => job'[j] = job[j]
      BY <2>11, <2>12
    <3>4. ASSUME NEW d \in Dests, locks[d] # 0
          PROVE  job'[locks[d]].pc # "none" /\ job'[locks[d]].dest = d
      <4>1. PICK k \in JobIds : k = locks[d]
        BY <3>4 DEF TransfersInv, TransfersTypeOK
      <4> QED BY <3>3, <3>4, <4>1 DEF TransfersInv, LocksMapped
    <3> QED BY <1>0, <3>1, <3>2, <3>4 DEF TransfersInv, LocksMapped, Working
  <2>19. DestinationExclusive'
    <3>1. \A j \in JobIds : job'[j].pc \in Working => job'[j] = job[j]
      BY <2>11, <2>12 DEF Working
    <3> QED BY <3>1 DEF TransfersInv, DestinationExclusive, Working
  <2> QED BY <2>13, <2>14, <2>15, <2>16, <2>17, <2>18, <2>19 DEF TransfersInv
<1> QED BY <1>1, <1>2, <1>4, <1>5 DEF EnqueueBatch

\* Every step of the manager keeps its invariant.
LEMMA TransfersNextInv ==
    ASSUME TransfersInv, [TransfersNext]_transferVars PROVE TransfersInv'
<1>1. ASSUME NEW s \in Sessions,
             \/ \E batch \in Batches : EnqueueBatch(s, batch)
             \/ QuiesceSession(s) \/ QuiesceJobs(s) \/ QuiesceCleanup(s)
             \/ QuiesceReturns(s) \/ QuiesceTimesOut(s)
      PROVE  TransfersInv'
  BY <1>1, EnqueueBatchInv, QuiesceSessionInv, QuiesceStepsInv
<1>2. ASSUME NEW j \in JobIds,
             JobStep(j) \/ CancelJob(j) \/ \E owned \in BOOLEAN : TaskDropped(j, owned)
      PROVE  TransfersInv'
  BY <1>2, QuietTaskSteps, AcquireGlobalInv, LockDestinationInv, LeaveInv, CleanupEndsInv,
     CleanupForgottenInv, CancelJobInv, TaskDroppedInv
     DEF JobStep
<1>3. ASSUME UNCHANGED transferVars PROVE TransfersInv'
  BY <1>3
     DEF TransfersInv, TransfersTypeOK, Admission, LocksMapped, TerminalEnded, ForgottenIsOver,
         QuietIsSealed, DestinationExclusive, Working, transferVars
<1> QED BY <1>1, <1>2, <1>3, TransfersShutdownInv DEF TransfersNext

\* The invariant of the transfer manager holds always.
LEMMA TransfersInvHolds == TransfersSpec => []TransfersInv
<1>1. TransfersInit => TransfersInv
  BY TransfersInitInv
<1>2. TransfersInv /\ [TransfersNext]_transferVars => TransfersInv'
  BY TransfersNextInv
<1> QED BY <1>1, <1>2, PTL DEF TransfersSpec

\* The destinations map forgets a lock when its strong count says that nobody else
\* has it, so no two jobs ever work on one destination under different locks.
THEOREM DestinationAlwaysExclusive == TransfersSpec => []DestinationExclusive
<1>1. TransfersInv => DestinationExclusive
  BY DEF TransfersInv
<1> QED BY <1>1, TransfersInvHolds, PTL

\* When quiesce_session returns Ok, and ever after, no job and no cleanup task uses
\* the session and nothing of it is left unconfirmed, also among the jobs that the
\* history has forgotten or that were admitted while it waited.
THEOREM QuiescedAlwaysQuiet == TransfersSpec => []QuiescedIsQuiet
<1>1. TransfersInv => QuiescedIsQuiet
  BY DEF TransfersInv, QuietIsSealed, TerminalEnded, QuiescedIsQuiet, OfSession
<1> QED BY <1>1, TransfersInvHolds, PTL

-----------------------------------------------------------------------------
(***************************************************************************)
(* Terminals                                                               *)
(***************************************************************************)
\* The types of the state that decides who owns a channel.
LifeType ==
    [pc : {"idle", "snapshot", "found", "marked", "taken", "drop", "retain", "exit", "exited"},
     conn : Nat, final : {"none", "Disconnected", "Closed"},
     next : {"none", "idle", "drop", "retain", "exit"}]
Starting ==
    {"connecting", "judging", "accepting", "withdrawing", "failed", "failing", "removing"}
OpenerType ==
    [pc : {"idle", "captured", "ended"} \cup Starting,
     conn : Nat, error : {"none", "Disconnected", "Failed"}]

TerminalsTypeOK ==
    /\ conn \in [id : Nat, up : BOOLEAN]
    /\ life \in LifeType
    /\ life.pc # "idle" => life.next # "none" /\ life.final # "none"
    /\ opener \in OpenerType

\* A connection that is up has an id, and one that open_terminal has read is the
\* host's or dead.
ReadIsCurrentOrDead ==
    /\ conn.up => conn.id # 0
    /\ opener.pc \notin {"idle", "ended"} => opener.conn # 0
    /\ opener.conn # 0 /\ opener.conn # conn.id => opener.conn \in dead

\* remove_host holds the gate of a host without a connection until it is done.
RemovedHasNoConnection ==
    life.pc = "retain" \/ (life.pc \in {"snapshot", "found", "marked", "taken"}
                           /\ life.next = "retain")
        => conn.id = 0

\* close_terminal cancels the entry first and takes its channel second.
CloserCancels ==
    /\ closer \in {"marked", "taken", "drained"} => cancel
    /\ closer \in {"taken", "drained"} => ~slot

\* Only open_terminal makes a channel, and the entry it reserved is in the map as
\* long as nobody has cancelled it and the connection is alive.
OpenerListed ==
    /\ channel => opener.pc \in {"judging", "accepting", "withdrawing", "ended"}
                  /\ opener.conn # 0
    /\ opener.pc \in {"connecting", "judging", "accepting"} /\ ~cancel /\ opener.conn \notin dead
          => listed

\* Once it is through, an open channel of a live transport is the entry's.
ChannelHeld ==
    opener.pc = "ended" /\ opener.conn \notin dead /\ channel => listed /\ slot

\* The invariant of a terminal's channel.
ChannelInv ==
    /\ TerminalsTypeOK
    /\ ReadIsCurrentOrDead
    /\ RemovedHasNoConnection
    /\ CloserCancels
    /\ OpenerListed
    /\ ChannelHeld

\* There is no terminal at the start.
LEMMA ChannelInitInv ==
    ASSUME TerminalsInit PROVE ChannelInv
BY DEF TerminalsInit, NoLife, ChannelInv, TerminalsTypeOK, LifeType, OpenerType,
       ReadIsCurrentOrDead, RemovedHasNoConnection, CloserCancels, OpenerListed, ChannelHeld

\* Steps that leave alone what the invariant is about.
LEMMA OutputKeepsChannel ==
    ASSUME ChannelInv, UNCHANGED <<conn, dead, life, opener, listed, cancel, slot, channel, closer>>
    PROVE  ChannelInv'
BY DEF ChannelInv, TerminalsTypeOK, ReadIsCurrentOrDead, RemovedHasNoConnection, CloserCancels,
       OpenerListed, ChannelHeld

\* open_terminal goes from one of its points to another.
LEMMA OpenerMoves ==
    ASSUME ChannelInv, NEW pc \in Starting \cup {"ended"},
           NEW e \in {"none", "Disconnected", "Failed"},
           opener' = [opener EXCEPT !.pc = pc, !.error = e], UNCHANGED <<conn, dead, life>>,
           opener.pc \notin {"idle", "ended"} \/ pc = "ended"
    PROVE  /\ TerminalsTypeOK' /\ ReadIsCurrentOrDead' /\ RemovedHasNoConnection'
           /\ opener'.pc = pc /\ opener'.conn = opener.conn /\ opener'.error = e
<1>1. PICK o : o = opener
  OBVIOUS
<1>2. o \in OpenerType
  BY <1>1 DEF ChannelInv, TerminalsTypeOK
<1>3. opener' \in OpenerType /\ opener'.pc = pc /\ opener'.conn = o.conn /\ opener'.error = e
  BY <1>1, <1>2 DEF OpenerType
<1>4. TerminalsTypeOK'
  BY <1>3 DEF ChannelInv, TerminalsTypeOK
<1>5. ReadIsCurrentOrDead' /\ RemovedHasNoConnection'
  BY <1>1, <1>3 DEF ChannelInv, ReadIsCurrentOrDead, RemovedHasNoConnection
<1> QED BY <1>1, <1>3, <1>4, <1>5

\* The same, when it has seen no new error.
LEMMA OpenerSteps ==
    ASSUME ChannelInv, NEW pc \in Starting \cup {"ended"},
           Opener(pc), UNCHANGED <<conn, dead, life>>,
           opener.pc \notin {"idle", "ended"} \/ pc = "ended"
    PROVE  /\ TerminalsTypeOK' /\ ReadIsCurrentOrDead' /\ RemovedHasNoConnection'
           /\ opener'.pc = pc /\ opener'.conn = opener.conn
<1>1. PICK e \in {"none", "Disconnected", "Failed"} :
         e = IF pc = "ended" THEN "none" ELSE opener.error
  BY DEF ChannelInv, TerminalsTypeOK, OpenerType
<1>2. opener' = [opener EXCEPT !.pc = pc, !.error = e]
  BY <1>1 DEF Opener, ChannelInv, TerminalsTypeOK, OpenerType
<1> QED BY <1>2, OpenerMoves

\* open_terminal reads the connection.
LEMMA OpenCaptureKeeps ==
    ASSUME ChannelInv, OpenCapture PROVE ChannelInv'
<1>1. /\ opener.pc = "idle" /\ conn.up
      /\ opener' = [opener EXCEPT !.pc = "captured", !.conn = conn.id]
      /\ UNCHANGED <<conn, dead, life, listed, cancel, slot, channel, closer>>
  BY DEF OpenCapture, sessionVars, entryVars
<1>2. TerminalsTypeOK' /\ opener'.pc = "captured" /\ opener'.conn = conn.id
  BY <1>1 DEF ChannelInv, TerminalsTypeOK, OpenerType
<1>3. ~channel
  BY <1>1 DEF ChannelInv, OpenerListed
<1> QED BY <1>1, <1>2, <1>3 DEF ChannelInv, ReadIsCurrentOrDead, RemovedHasNoConnection,
          CloserCancels, OpenerListed, ChannelHeld

\* Its steps.
LEMMA OpenKeepsChannel ==
    ASSUME ChannelInv, OpenRefused \/ OpenStep \/ OpenDropped
    PROVE  ChannelInv'
<1>0. UNCHANGED <<conn, dead, life, closer>>
  BY DEF OpenRefused, OpenStep, OpenReserve, OpenConnects, OpenFails, OpenAbandoned, OpenJudge,
         OpenAccept, OpenWithdraw, OpenError, OpenFailEntry, OpenRemove, OpenDropped, sessionVars
<1> DEFINE Common == TerminalsTypeOK' /\ ReadIsCurrentOrDead' /\ RemovedHasNoConnection'
<1> USE DEF ChannelInv, CloserCancels, OpenerListed, ChannelHeld, Starting
<1>1. CASE OpenRefused
  <2>1. opener.pc = "captured" /\ Opener("ended")
    BY <1>1 DEF OpenRefused
  <2>2. Common /\ opener'.pc = "ended" /\ opener'.conn = opener.conn
    BY <1>0, <2>1, OpenerSteps
  <2> QED BY <1>0, <1>1, <2>1, <2>2 DEF OpenRefused, entryVars
<1>2. CASE OpenReserve
  <2>1. opener.pc = "captured" /\ Opener("connecting")
    BY <1>2 DEF OpenReserve
  <2>2. Common /\ opener'.pc = "connecting" /\ opener'.conn = opener.conn
    BY <1>0, <2>1, OpenerSteps
  <2> QED BY <1>0, <1>2, <2>1, <2>2 DEF OpenReserve
<1>3. CASE OpenConnects
  <2>1. opener.pc = "connecting" /\ Opener("judging")
    BY <1>3 DEF OpenConnects
  <2>2. Common /\ opener'.pc = "judging" /\ opener'.conn = opener.conn
    BY <1>0, <2>1, OpenerSteps
  <2>3. opener.conn # 0
    BY <2>1 DEF ReadIsCurrentOrDead
  <2> QED BY <1>0, <1>3, <2>1, <2>2, <2>3 DEF OpenConnects
<1>4. CASE OpenFails \/ OpenAbandoned
  <2>1. opener.pc = "connecting" /\ UNCHANGED <<listed, cancel, slot, channel>>
    BY <1>4 DEF OpenFails, OpenAbandoned, entryVars
  <2>2. PICK e \in {"none", "Disconnected", "Failed"} :
           opener' = [opener EXCEPT !.pc = "failed", !.error = e]
    BY <1>4 DEF OpenFails, OpenAbandoned, StartupError
  <2>3. Common /\ opener'.pc = "failed" /\ opener'.conn = opener.conn
    BY <1>0, <2>1, <2>2, OpenerMoves
  <2> QED BY <1>0, <2>1, <2>3
<1>5. CASE OpenJudge
  <2>1. opener.pc = "judging" /\ UNCHANGED <<listed, cancel, slot, channel>>
    BY <1>5 DEF OpenJudge, entryVars
  <2>2. PICK pc \in {"withdrawing", "accepting"}, e \in {"none", "Disconnected", "Failed"} :
           /\ opener' = [opener EXCEPT !.pc = pc, !.error = e]
           /\ pc = "accepting" => ~cancel
    <3>1. CASE cancel
      BY <1>5, <3>1 DEF OpenJudge
    <3>2. CASE ~cancel
      <4>1. opener' = [opener EXCEPT !.pc = "accepting", !.error = opener.error]
        BY <1>5, <3>2 DEF OpenJudge, TerminalsTypeOK, OpenerType
      <4>2. opener.error \in {"none", "Disconnected", "Failed"}
        BY DEF TerminalsTypeOK, OpenerType
      <4> QED BY <3>2, <4>1, <4>2
    <3> QED BY <3>1, <3>2
  <2>3. Common /\ opener'.pc = pc /\ opener'.conn = opener.conn
    BY <1>0, <2>1, <2>2, OpenerMoves
  <2> QED BY <1>0, <2>1, <2>2, <2>3
<1>6. CASE OpenAccept
  <2>1. opener.pc = "accepting" /\ UNCHANGED <<listed, cancel, channel>>
    BY <1>6 DEF OpenAccept
  <2>2. CASE Opener("withdrawing") /\ slot' = slot
    <3>1. Common /\ opener'.pc = "withdrawing" /\ opener'.conn = opener.conn
      BY <1>0, <2>1, <2>2, OpenerSteps
    <3> QED BY <1>0, <2>1, <2>2, <3>1
  <2>3. CASE Opener("ended") /\ slot' = TRUE /\ ~cancel
    <3>1. Common /\ opener'.pc = "ended" /\ opener'.conn = opener.conn
      BY <1>0, <2>1, <2>3, OpenerSteps
    <3> QED BY <1>0, <2>1, <2>3, <3>1
  <2> QED BY <1>6, <2>2, <2>3 DEF OpenAccept
<1>7. CASE OpenError
  <2>1. opener.pc = "failed" /\ (Opener("failing") \/ Opener("ended"))
    BY <1>7 DEF OpenError
  <2>2. Common /\ opener'.pc \in {"failing", "ended"} /\ opener'.conn = opener.conn
    BY <1>0, <2>1, OpenerSteps
  <2> QED BY <1>0, <1>7, <2>1, <2>2 DEF OpenError
<1>8. CASE OpenFailEntry
  <2>1. opener.pc = "failing" /\ Opener("removing")
    BY <1>8 DEF OpenFailEntry
  <2>2. Common /\ opener'.pc = "removing" /\ opener'.conn = opener.conn
    BY <1>0, <2>1, OpenerSteps
  <2> QED BY <1>0, <1>8, <2>1, <2>2 DEF OpenFailEntry
<1>9. CASE OpenRemove
  <2>1. opener.pc = "removing" /\ Opener("ended")
    BY <1>9 DEF OpenRemove
  <2>2. Common /\ opener'.pc = "ended" /\ opener'.conn = opener.conn
    BY <1>0, <2>1, OpenerSteps
  <2> QED BY <1>0, <1>9, <2>1, <2>2 DEF OpenRemove
<1>10. CASE OpenDropped
  <2>1. opener.pc \in {"connecting", "accepting", "withdrawing", "removing"} /\ Opener("ended")
    BY <1>10 DEF OpenDropped
  <2>2. Common /\ opener'.pc = "ended" /\ opener'.conn = opener.conn
    BY <1>0, <2>1, OpenerSteps
  <2> QED BY <1>0, <1>10, <2>1, <2>2 DEF OpenDropped
<1>11. CASE OpenWithdraw
  <2>1. opener.pc = "withdrawing" /\ Opener("ended")
    BY <1>11 DEF OpenWithdraw
  <2>2. Common /\ opener'.pc = "ended" /\ opener'.conn = opener.conn
    BY <1>0, <2>1, OpenerSteps
  <2> QED BY <1>0, <1>11, <2>1, <2>2 DEF OpenWithdraw
<1> QED BY <1>1, <1>2, <1>3, <1>4, <1>5, <1>6, <1>7, <1>8, <1>9, <1>10, <1>11 DEF OpenStep

\* The channel is taken by whoever closes the entry: an open one that is left then is
\* one that open_terminal still has.
LEMMA TakenKeepsChannel ==
    ASSUME ChannelInv, CloseTake, UNCHANGED <<conn, dead, opener, listed, cancel>>
    PROVE  OpenerListed' /\ ChannelHeld' /\ slot' = FALSE
BY DEF ChannelInv, CloseTake, OpenerListed, ChannelHeld

\* close_terminal.
LEMMA CloseKeepsChannel ==
    ASSUME ChannelInv, CloseBegin \/ CloseStep PROVE ChannelInv'
<1>1. UNCHANGED <<conn, dead, life, opener>>
  BY DEF CloseBegin, CloseStep, sessionVars
<1>2. TerminalsTypeOK' /\ ReadIsCurrentOrDead' /\ RemovedHasNoConnection'
  BY <1>1 DEF ChannelInv, TerminalsTypeOK, ReadIsCurrentOrDead, RemovedHasNoConnection
<1>3. CASE CloseBegin
  BY <1>1, <1>2, <1>3 DEF ChannelInv, CloseBegin, CloseMark, CloserCancels, OpenerListed,
                          ChannelHeld
<1>4. CASE closer = "marked" /\ CloseTake /\ closer' = "taken" /\ UNCHANGED <<listed, cancel>>
  BY <1>1, <1>2, <1>4, TakenKeepsChannel DEF ChannelInv, CloserCancels
<1>5. CASE closer = "taken" /\ closer' = "drained" /\ UNCHANGED <<listed, cancel, slot, channel>>
  BY <1>1, <1>2, <1>5 DEF ChannelInv, CloserCancels, OpenerListed, ChannelHeld
<1>6. CASE closer = "drained" /\ closer' = "ended" /\ listed' = FALSE
           /\ UNCHANGED <<cancel, slot, channel>>
  BY <1>1, <1>2, <1>6 DEF ChannelInv, CloserCancels, OpenerListed, ChannelHeld
<1> QED BY <1>3, <1>4, <1>5, <1>6 DEF CloseStep, CloserSteps

\* The pump and the remote shell, and polls.
LEMMA PumpKeepsChannel ==
    ASSUME ChannelInv, RemoteSends \/ RemoteEnds \/ PumpStep \/ PollStep PROVE ChannelInv'
<1>1. CASE PumpClose
  <2>1. CloseTake /\ UNCHANGED <<conn, dead, life, opener, listed, cancel, closer>>
    BY <1>1 DEF PumpClose, sessionVars
  <2>2. TerminalsTypeOK' /\ ReadIsCurrentOrDead' /\ RemovedHasNoConnection'
    BY <2>1 DEF ChannelInv, TerminalsTypeOK, ReadIsCurrentOrDead, RemovedHasNoConnection
  <2>3. OpenerListed' /\ ChannelHeld' /\ slot' = FALSE
    BY <2>1, TakenKeepsChannel
  <2> QED BY <2>1, <2>2, <2>3 DEF ChannelInv, CloserCancels
<1>2. CASE RemoteSends \/ RemoteEnds
  <2>1. UNCHANGED <<conn, dead, life, opener, listed, cancel, slot, channel, closer>>
    BY <1>2 DEF RemoteSends, RemoteEnds, sessionVars, entryVars
  <2> QED BY <2>1, OutputKeepsChannel
<1>3. CASE PumpSelect \/ PumpData \/ PumpStops \/ PumpOffer \/ PumpSend
  <2>1. UNCHANGED <<conn, dead, life, opener, listed, cancel, slot, channel, closer>>
    BY <1>3 DEF PumpSelect, PumpData, PumpStops, PumpOffer, PumpSend, sessionVars, entryVars
  <2> QED BY <2>1, OutputKeepsChannel
<1>4. CASE PollStep
  <2>1. UNCHANGED <<conn, dead, life, opener, listed, cancel, slot, channel, closer>>
    BY <1>4 DEF PollStep, PollBegin, PollReceive, PollTaken, PollClosed, PollEmpty, sessionVars,
              entryVars
  <2> QED BY <2>1, OutputKeepsChannel
<1> QED BY <1>1, <1>2, <1>3, <1>4 DEF PumpStep

\* The life cycle: a life-cycle step, by the point it leads to.
LEMMA LifeKeepsTypes ==
    ASSUME ChannelInv, NEW pc \in {"idle", "found", "marked", "taken", "drop", "retain", "exit",
                                   "exited"},
           life.pc # "idle", Life(pc), UNCHANGED opener, conn' \in [id : Nat, up : BOOLEAN]
    PROVE  TerminalsTypeOK' /\ life'.pc = pc /\ (pc # "idle" => life'.next = life.next)
<1>1. PICK l : l = life
  OBVIOUS
<1>2. l \in LifeType /\ l.next # "none" /\ l.final # "none"
  BY <1>1 DEF ChannelInv, TerminalsTypeOK
<1>3. CASE pc = "idle"
  <2>1. life' = NoLife
    BY <1>3 DEF Life
  <2>2. life' \in LifeType /\ life'.pc = "idle"
    BY <2>1 DEF LifeType, NoLife
  <2> QED BY <1>3, <2>2 DEF ChannelInv, TerminalsTypeOK
<1>4. CASE pc # "idle"
  <2>1. /\ life' \in LifeType
        /\ life'.pc = pc /\ life'.next = l.next /\ life'.final = l.final
    BY <1>1, <1>2, <1>4 DEF Life, LifeType
  <2> QED BY <1>1, <1>2, <1>4, <2>1 DEF ChannelInv, TerminalsTypeOK
<1> QED BY <1>3, <1>4

\* Connections come and are lost.
LEMMA ConnectionKeepsChannel ==
    ASSUME ChannelInv, Connect \/ TransportLost PROVE ChannelInv'
<1>0. conn \in [id : Nat, up : BOOLEAN]
  BY DEF ChannelInv, TerminalsTypeOK
<1>1. UNCHANGED <<life, opener, listed, cancel, slot, channel, closer>>
  BY DEF Connect, TransportLost, entryVars
<1>2. CASE Connect
  <2>1. PICK n \in 1..MaxConn : conn' = [id |-> n, up |-> TRUE]
    BY <1>2 DEF Connect
  <2>2. conn' \in [id : Nat, up : BOOLEAN] /\ conn'.id # 0
    BY <2>1
  <2>3. life.pc = "idle" /\ conn.id = 0 /\ UNCHANGED dead
    BY <1>2 DEF Connect
  <2> QED BY <1>1, <2>2, <2>3 DEF ChannelInv, TerminalsTypeOK, ReadIsCurrentOrDead,
            RemovedHasNoConnection, CloserCancels, OpenerListed, ChannelHeld
<1>3. CASE TransportLost
  BY <1>1, <1>3 DEF TransportLost, ChannelInv, TerminalsTypeOK, ReadIsCurrentOrDead,
     RemovedHasNoConnection, CloserCancels, OpenerListed, ChannelHeld
<1> QED BY <1>2, <1>3

\* A life-cycle command begins.
LEMMA LifeBeginKeepsChannel ==
    ASSUME ChannelInv, DisconnectBegin \/ SessionClosed \/ RemoveHostBegin \/ ShutdownBegin
    PROVE  ChannelInv'
<1>0. /\ conn \in [id : Nat, up : BOOLEAN]
      /\ opener \in OpenerType
  BY DEF ChannelInv, TerminalsTypeOK
<1>1. UNCHANGED <<dead, listed, cancel, slot, channel>>
  BY DEF DisconnectBegin, SessionClosed, RemoveHostBegin, ShutdownBegin, entryVars, sessionVars
<1>2. PICK final \in {"Disconnected", "Closed"}, next \in {"drop", "idle", "retain", "exit"} :
         /\ LifeBegins(final, next)
         /\ next = "retain" => RemoveHostBegin
  BY DEF DisconnectBegin, SessionClosed, RemoveHostBegin, ShutdownBegin
<1>3. /\ life' \in LifeType
      /\ life'.pc = "snapshot" /\ life'.next = next /\ life'.final = final
  BY <1>0, <1>2 DEF LifeBegins, LifeType
<1>4. /\ conn' \in [id : Nat, up : BOOLEAN]
      /\ conn'.up => conn.up /\ conn'.id = conn.id
      /\ conn'.id = conn.id \/ (conn'.id = 0 /\ conn.id \in dead)
      /\ RemoveHostBegin => conn.id = 0 /\ conn' = conn
  <2>1. CASE DisconnectBegin \/ ShutdownBegin
    <3>1. conn' = [conn EXCEPT !.up = FALSE]
      BY <2>1 DEF DisconnectBegin, ShutdownBegin
    <3>2. conn' \in [id : Nat, up : BOOLEAN] /\ conn'.id = conn.id /\ ~conn'.up
      BY <1>0, <3>1
    <3>3. ~RemoveHostBegin \/ (conn.id = 0 /\ conn' = conn)
      BY DEF RemoveHostBegin, sessionVars
    <3> QED BY <3>2, <3>3
  <2>2. CASE SessionClosed
    <3>1. conn' = [id |-> 0, up |-> FALSE] /\ conn.id \in dead
      BY <2>2 DEF SessionClosed
    <3>2. ~RemoveHostBegin \/ (conn.id = 0 /\ conn' = conn)
      BY DEF RemoveHostBegin, sessionVars
    <3> QED BY <3>1, <3>2
  <2>3. CASE RemoveHostBegin
    BY <1>0, <2>3 DEF RemoveHostBegin, sessionVars
  <2> QED BY <2>1, <2>2, <2>3
<1>5. /\ opener' \in OpenerType
      /\ opener'.conn = opener.conn
      /\ opener'.pc = opener.pc \/ (opener.pc = "idle" /\ opener'.pc = "ended")
      /\ closer' = closer \/ closer' = "ended"
  BY <1>0 DEF DisconnectBegin, SessionClosed, RemoveHostBegin, ShutdownBegin, OpenerType
<1>6. TerminalsTypeOK'
  BY <1>3, <1>4, <1>5 DEF TerminalsTypeOK
<1>7. ReadIsCurrentOrDead'
  BY <1>1, <1>4, <1>5 DEF ChannelInv, ReadIsCurrentOrDead
<1>8. RemovedHasNoConnection'
  BY <1>2, <1>3, <1>4 DEF RemovedHasNoConnection
<1>9. CloserCancels' /\ OpenerListed' /\ ChannelHeld'
  BY <1>1, <1>5 DEF ChannelInv, CloserCancels, OpenerListed, ChannelHeld
<1> QED BY <1>6, <1>7, <1>8, <1>9 DEF ChannelInv

\* What it goes on with: only remove_host and shutdown forget an entry, and only when
\* its connection is dead or dies with it.
LEMMA LifeKeepsChannel ==
    ASSUME ChannelInv, LifeStep PROVE ChannelInv'
<1>0. /\ conn \in [id : Nat, up : BOOLEAN] /\ UNCHANGED <<opener, closer>>
      /\ life.pc # "idle" /\ life.next \in {"idle", "drop", "retain", "exit"}
  BY DEF ChannelInv, TerminalsTypeOK, LifeType, LifeStep, LifeSnapshot, LifeAborts, LifeMark,
         LifeTake, LifeDrain, LifeDrop, LifeRetain
<1>1. ASSUME UNCHANGED <<conn, dead>>, life.pc \in {"snapshot", "found", "marked", "taken"},
             NEW pc \in {"idle", "found", "marked", "taken", life.next}, Life(pc)
      PROVE  TerminalsTypeOK' /\ ReadIsCurrentOrDead' /\ RemovedHasNoConnection'
  <2>1. pc \in {"idle", "found", "marked", "taken", "drop", "retain", "exit", "exited"}
    BY <1>0
  <2>2. TerminalsTypeOK' /\ life'.pc = pc /\ (pc # "idle" => life'.next = life.next)
    BY <1>0, <1>1, <2>1, LifeKeepsTypes
  <2>3. ReadIsCurrentOrDead' /\ RemovedHasNoConnection'
    BY <1>0, <1>1, <2>2 DEF ChannelInv, ReadIsCurrentOrDead, RemovedHasNoConnection
  <2> QED BY <2>2, <2>3
<1>2. CASE LifeSnapshot \/ LifeAborts
  <2>1. UNCHANGED <<conn, dead, listed, cancel, slot, channel>>
    BY <1>2 DEF LifeSnapshot, LifeAborts, sessionVars, entryVars
  <2>2. life.pc = "snapshot" /\ (Life("found") \/ Life(life.next) \/ Life("idle"))
    BY <1>2 DEF LifeSnapshot, LifeAborts
  <2>3. TerminalsTypeOK' /\ ReadIsCurrentOrDead' /\ RemovedHasNoConnection'
    BY <1>1, <2>1, <2>2
  <2> QED BY <1>0, <2>1, <2>3 DEF ChannelInv, CloserCancels, OpenerListed, ChannelHeld
<1>3. CASE LifeMark
  <2>1. UNCHANGED <<conn, dead, listed, slot, channel>> /\ (cancel' = cancel \/ cancel' = TRUE)
    BY <1>3 DEF LifeMark, CloseMark, sessionVars
  <2>2. life.pc = "found" /\ (Life("marked") \/ Life(life.next))
    BY <1>3 DEF LifeMark
  <2>3. TerminalsTypeOK' /\ ReadIsCurrentOrDead' /\ RemovedHasNoConnection'
    BY <1>1, <2>1, <2>2
  <2> QED BY <1>0, <2>1, <2>3 DEF ChannelInv, CloserCancels, OpenerListed, ChannelHeld
<1>4. CASE LifeTake
  <2>1. UNCHANGED <<conn, dead, listed, cancel>> /\ CloseTake
    BY <1>4 DEF LifeTake, sessionVars
  <2>2. life.pc = "marked" /\ Life("taken")
    BY <1>4 DEF LifeTake
  <2>3. TerminalsTypeOK' /\ ReadIsCurrentOrDead' /\ RemovedHasNoConnection'
    BY <1>1, <2>1, <2>2
  <2>4. OpenerListed' /\ ChannelHeld' /\ slot' = FALSE
    BY <1>0, <2>1, TakenKeepsChannel
  <2> QED BY <1>0, <2>1, <2>3, <2>4 DEF ChannelInv, CloserCancels
<1>5. CASE LifeDrain
  <2>1. UNCHANGED <<conn, dead, listed, cancel, slot, channel>>
    BY <1>5 DEF LifeDrain, sessionVars
  <2>2. life.pc = "taken" /\ Life(life.next)
    BY <1>5 DEF LifeDrain
  <2>3. TerminalsTypeOK' /\ ReadIsCurrentOrDead' /\ RemovedHasNoConnection'
    BY <1>1, <2>1, <2>2
  <2> QED BY <1>0, <2>1, <2>3 DEF ChannelInv, CloserCancels, OpenerListed, ChannelHeld
<1>6. CASE LifeDrop
  <2>1. /\ UNCHANGED <<listed, cancel, slot, channel>>
        /\ dead' = dead \cup {conn.id} /\ conn' = [id |-> 0, up |-> FALSE] /\ Life("idle")
    BY <1>6 DEF LifeDrop, entryVars
  <2>2. conn' \in [id : Nat, up : BOOLEAN] /\ conn'.id = 0 /\ ~conn'.up
    BY <2>1
  <2>3. TerminalsTypeOK' /\ life'.pc = "idle"
    BY <1>0, <2>1, <2>2, LifeKeepsTypes
  <2>4. ReadIsCurrentOrDead' /\ RemovedHasNoConnection'
    BY <1>0, <2>1, <2>2, <2>3 DEF ChannelInv, ReadIsCurrentOrDead, RemovedHasNoConnection
  <2> QED BY <1>0, <2>1, <2>3, <2>4 DEF ChannelInv, CloserCancels, OpenerListed, ChannelHeld
<1>7. CASE LifeRetain
  <2>1. /\ UNCHANGED <<cancel, slot, channel>>
        /\ \/ /\ life.pc = "exit" /\ Life("exited") /\ conn' = [id |-> 0, up |-> FALSE]
              /\ dead \subseteq dead' /\ (conn.id # 0 => conn.id \in dead')
           \/ life.pc = "retain" /\ Life("idle") /\ conn' = conn /\ dead' = dead
    BY <1>7 DEF LifeRetain, sessionVars
  <2>2. conn' \in [id : Nat, up : BOOLEAN] /\ conn'.id = 0
    <3>1. CASE conn' = [id |-> 0, up |-> FALSE]
      BY <3>1
    <3>2. CASE life.pc = "retain" /\ conn' = conn
      BY <1>0, <3>2 DEF ChannelInv, RemovedHasNoConnection
    <3> QED BY <2>1, <3>1, <3>2
  <2>3. TerminalsTypeOK' /\ life'.pc \in {"idle", "exited"}
    BY <1>0, <2>1, <2>2, LifeKeepsTypes
  <2>4. dead \subseteq dead' /\ (opener.conn # 0 => opener.conn \in dead')
    BY <2>1 DEF ChannelInv, ReadIsCurrentOrDead, RemovedHasNoConnection
  <2>5. ~conn'.up
    BY <2>1 DEF ChannelInv, ReadIsCurrentOrDead, RemovedHasNoConnection
  <2>6. ReadIsCurrentOrDead' /\ RemovedHasNoConnection'
    BY <1>0, <2>2, <2>3, <2>4, <2>5 DEF ChannelInv, ReadIsCurrentOrDead, RemovedHasNoConnection
  <2>7. OpenerListed' /\ ChannelHeld'
    BY <1>0, <2>1, <2>4 DEF ChannelInv, ReadIsCurrentOrDead, OpenerListed, ChannelHeld
  <2>8. CloserCancels'
    BY <1>0, <2>1 DEF ChannelInv, CloserCancels
  <2> QED BY <2>3, <2>6, <2>7, <2>8 DEF ChannelInv
<1> QED BY <1>2, <1>3, <1>4, <1>5, <1>6, <1>7 DEF LifeStep

\* Every step keeps the invariant of the channel.
LEMMA ChannelNextInv ==
    ASSUME ChannelInv, [TerminalsNext]_terminalVars PROVE ChannelInv'
<1>1. CASE UNCHANGED terminalVars
  BY <1>1, OutputKeepsChannel DEF terminalVars
<1> QED BY <1>1, OpenCaptureKeeps, OpenKeepsChannel, PumpKeepsChannel, CloseKeepsChannel,
          ConnectionKeepsChannel, LifeBeginKeepsChannel, LifeKeepsChannel DEF TerminalsNext

-----------------------------------------------------------------------------
(***************************************************************************)
(* A startup that is dropped                                               *)
(***************************************************************************)
\* Until the entry is reserved there is nothing to cancel.
NothingReserved ==
    opener.pc \in {"idle", "captured"} =>
        view = "none" /\ ~listed /\ ~cancel /\ life.pc \notin {"found", "marked", "taken"}

\* A cancelled entry is ended or about to be, by whoever cancelled it.
CancelledEnds ==
    /\ opener.pc \in Starting => view \in Ended \cup {"Creating", "Closing"}
    /\ cancel => view \in Ended \cup {"Closing"} \/ opener.pc = "failing"
    /\ opener.pc \in {"failed", "failing"} => opener.error # "none"

\* A startup that was dropped never gets a pump, and it is cancelled.
StrayFromStartup ==
    /\ pump.pc # "none" => opener.pc = "ended"
    /\ stray => /\ pump.pc = "none"
                /\ opener.pc \in {"failed", "failing", "removing", "ended"}
                /\ cancel \/ opener.pc = "failed"

\* The invariant of the startup.
StartupInv == NothingReserved /\ CancelledEnds /\ StrayFromStartup

\* Nothing is reserved at the start.
LEMMA StartupInitInv ==
    ASSUME TerminalsInit PROVE StartupInv
BY DEF TerminalsInit, NoLife, StartupInv, NothingReserved, CancelledEnds, StrayFromStartup, Starting

\* open_terminal: what it leaves behind when it is dropped is cancelled with it.
LEMMA OpenKeepsStartup ==
    ASSUME ChannelInv, StartupInv, OpenCapture \/ OpenRefused \/ OpenStep \/ OpenDropped
    PROVE  StartupInv'
<1>0. opener \in OpenerType /\ life' = life
  BY DEF ChannelInv, TerminalsTypeOK, OpenCapture, OpenRefused, OpenStep, OpenReserve, OpenConnects,
         OpenFails, OpenAbandoned, OpenJudge, OpenAccept, OpenWithdraw, OpenError, OpenFailEntry,
         OpenRemove, OpenDropped
<1>1. ASSUME NEW pc, Opener(pc)
      PROVE  opener'.pc = pc /\ (pc # "ended" => opener'.error = opener.error)
  BY <1>0, <1>1 DEF Opener, OpenerType
<1> USE DEF StartupInv, NothingReserved, CancelledEnds, StrayFromStartup, Starting
<1>2. CASE OpenCapture
  <2>1. /\ opener'.pc = "captured" /\ opener.pc = "idle"
        /\ UNCHANGED <<view, listed, cancel, stray, pump>>
    BY <1>0, <1>2 DEF OpenCapture, entryVars, OpenerType
  <2> QED BY <1>0, <2>1
<1>3. CASE OpenRefused
  <2>1. /\ opener'.pc = "ended" /\ opener.pc = "captured"
        /\ UNCHANGED <<view, listed, cancel, stray, pump>>
    BY <1>1, <1>3 DEF OpenRefused, entryVars
  <2> QED BY <1>0, <2>1
<1>4. CASE OpenReserve
  <2>1. /\ opener'.pc = "connecting" /\ opener.pc = "captured" /\ view' = "Creating"
        /\ UNCHANGED <<cancel, stray, pump>>
    BY <1>1, <1>4 DEF OpenReserve
  <2> QED BY <2>1
<1>5. CASE OpenConnects
  <2>1. /\ opener'.pc = "judging" /\ opener.pc = "connecting"
        /\ UNCHANGED <<view, cancel, stray, pump>>
    BY <1>1, <1>5 DEF OpenConnects
  <2> QED BY <2>1
<1>6. CASE OpenFails \/ OpenAbandoned
  <2>1. /\ opener'.pc = "failed" /\ opener'.error # "none" /\ opener.pc = "connecting"
        /\ UNCHANGED <<view, cancel, pump>>
    BY <1>0, <1>6 DEF OpenFails, OpenAbandoned, StartupError, entryVars, OpenerType
  <2> QED BY <2>1
<1>7. CASE OpenJudge
  <2>1. /\ opener'.pc \in {"withdrawing", "accepting"} /\ opener.pc = "judging"
        /\ UNCHANGED <<view, cancel, stray, pump>>
    BY <1>0, <1>7 DEF OpenJudge, entryVars, OpenerType
  <2> QED BY <2>1
<1>8. CASE OpenAccept
  <2>1. opener.pc = "accepting" /\ UNCHANGED <<cancel, stray>>
    BY <1>8 DEF OpenAccept
  <2>2. CASE opener'.pc = "withdrawing" /\ UNCHANGED <<view, pump>>
    BY <2>1, <2>2
  <2>3. CASE opener'.pc = "ended" /\ ~cancel
    BY <2>1, <2>3
  <2> QED BY <1>1, <1>8, <2>2, <2>3 DEF OpenAccept
<1>9. CASE OpenWithdraw
  <2>1. /\ opener'.pc = "ended" /\ opener.pc = "withdrawing" /\ UNCHANGED <<cancel, stray, pump>>
        /\ view' = IF opener.error = "none" THEN view ELSE opener.error
    BY <1>1, <1>9 DEF OpenWithdraw
  <2>2. view' = view \/ view' \in Ended
    BY <1>0, <2>1 DEF OpenerType, Ended
  <2> QED BY <2>1, <2>2
<1>10. CASE OpenError
  <2>1. /\ opener.pc = "failed" /\ cancel' = TRUE /\ UNCHANGED <<view, stray, pump>>
        /\ opener'.pc = IF view = "Creating" THEN "failing" ELSE "ended"
        /\ view = "Creating" => opener'.error = opener.error
    BY <1>1, <1>10 DEF OpenError
  <2> QED BY <2>1
<1>11. CASE OpenFailEntry
  <2>1. /\ opener.pc = "failing" /\ opener'.pc = "removing" /\ view' = opener.error
        /\ UNCHANGED <<cancel, stray, pump>>
    BY <1>1, <1>11 DEF OpenFailEntry
  <2>2. view' \in Ended
    BY <1>0, <2>1 DEF OpenerType, Ended
  <2> QED BY <2>1, <2>2
<1>12. CASE OpenRemove
  <2>1. /\ opener.pc = "removing" /\ opener'.pc = "ended" /\ UNCHANGED <<view, cancel, stray, pump>>
    BY <1>1, <1>12 DEF OpenRemove
  <2> QED BY <2>1
<1>13. CASE OpenDropped
  <2>1. /\ opener.pc \in {"connecting", "accepting", "withdrawing", "removing"}
        /\ opener'.pc = "ended" /\ cancel' = TRUE /\ pump' = pump
        /\ view' = IF view = "Creating" THEN "Disconnected" ELSE view
    BY <1>1, <1>13 DEF OpenDropped
  <2>2. view' \in Ended \cup {"Closing"}
    BY <2>1 DEF Ended
  <2> QED BY <2>1, <2>2
<1> QED BY <1>2, <1>3, <1>4, <1>5, <1>6, <1>7, <1>8, <1>9, <1>10, <1>11, <1>12, <1>13 DEF OpenStep

\* The other steps that do not touch the life cycle.
LEMMA EntryKeepsStartup ==
    ASSUME ChannelInv, StartupInv,
           \/ RemoteSends \/ RemoteEnds \/ PumpStep \/ PollStep \/ CloseBegin \/ CloseStep
           \/ Connect \/ TransportLost \/ UNCHANGED terminalVars
    PROVE  StartupInv'
<1>1. UNCHANGED <<opener, stray, life>>
  BY DEF RemoteSends, RemoteEnds, PumpStep, PumpSelect, PumpData, PumpStops, PumpOffer, PumpSend,
         PumpClose, PollStep, PollBegin, PollReceive, PollTaken, PollClosed, PollEmpty, CloseBegin,
         CloseStep, CloserSteps, CloseTake, Connect, TransportLost, entryVars, terminalVars
<1> USE DEF StartupInv, NothingReserved, CancelledEnds, StrayFromStartup
<1>2. CASE PumpStep
  <2>1. pump.pc # "none" /\ UNCHANGED <<listed, cancel>>
    BY <1>2 DEF PumpStep, PumpSelect, PumpData, PumpStops, PumpOffer, PumpSend, PumpClose, entryVars
  <2>2. view' = view \/ view' \in Ended
    BY <1>2 DEF PumpStep, PumpSelect, PumpData, PumpStops, PumpOffer, PumpSend, PumpClose,
                entryVars, IfOpen, Ended
  <2>3. opener.pc = "ended"
    BY <2>1
  <2> QED BY <1>1, <2>1, <2>2, <2>3 DEF Starting
<1>3. CASE CloseBegin \/ CloseStep
  <2>1. /\ pump' = pump /\ (listed' => listed)
        /\ \/ listed /\ cancel' = TRUE /\ view' = "Closing"
           \/ cancel /\ cancel' = cancel /\ (view' = view \/ view' \in Ended)
    BY <1>3 DEF CloseBegin, CloseStep, CloseMark, CloserSteps, CloseDrain, ChannelInv,
                CloserCancels, Ended
  <2> QED BY <1>1, <2>1
<1>4. CASE \/ RemoteSends \/ RemoteEnds \/ PollStep \/ Connect \/ TransportLost
           \/ UNCHANGED terminalVars
  <2>1. UNCHANGED <<pump, listed, cancel, view>>
    BY <1>4 DEF RemoteSends, RemoteEnds, PollStep, PollBegin, PollReceive, PollTaken, PollClosed,
                PollEmpty, Connect, TransportLost, entryVars, terminalVars
  <2> QED BY <1>1, <2>1
<1> QED BY <1>2, <1>3, <1>4

\* The life cycle: it cancels only an entry that it has found.
LEMMA LifeKeepsStartup ==
    ASSUME ChannelInv, StartupInv,
           DisconnectBegin \/ SessionClosed \/ RemoveHostBegin \/ ShutdownBegin \/ LifeStep
    PROVE  StartupInv'
<1>0. opener \in OpenerType /\ life \in LifeType
  BY DEF ChannelInv, TerminalsTypeOK
<1> USE DEF StartupInv, NothingReserved, CancelledEnds, StrayFromStartup
<1>1. CASE DisconnectBegin \/ SessionClosed \/ RemoveHostBegin \/ ShutdownBegin
  <2>1. UNCHANGED <<view, listed, cancel, stray, pump>> /\ life'.pc = "snapshot"
    BY <1>1 DEF DisconnectBegin, SessionClosed, RemoveHostBegin, ShutdownBegin, LifeBegins,
                entryVars
  <2>2. opener' = opener \/ (opener.pc \in {"idle", "ended"} /\ opener'.pc = "ended")
    BY <1>0, <1>1 DEF DisconnectBegin, SessionClosed, RemoveHostBegin, ShutdownBegin, OpenerType
  <2> QED BY <2>1, <2>2 DEF Starting
<1>2. ASSUME NEW pc, Life(pc) PROVE life'.pc = pc
  BY <1>0, <1>2 DEF Life, NoLife, LifeType
<1>3. CASE LifeStep
  <2>0. /\ UNCHANGED <<opener, stray, pump>> /\ (listed' => listed)
        /\ life.pc # "idle" /\ life.next \in {"idle", "drop", "retain", "exit"}
        /\ life.final \in Ended
    BY <1>0, <1>3 DEF LifeStep, LifeSnapshot, LifeAborts, LifeMark, LifeTake, LifeDrain, LifeDrop,
                LifeRetain, CloseTake, entryVars, LifeType, ChannelInv, TerminalsTypeOK, Ended
  <2>1. CASE LifeSnapshot \/ LifeAborts
    <3>1. /\ UNCHANGED <<view, cancel>>
          /\ life'.pc \in {"found", "marked", "taken"} => listed
      BY <1>2, <2>0, <2>1 DEF LifeSnapshot, LifeAborts, entryVars
    <3> QED BY <2>0, <3>1
  <2>2. CASE LifeMark
    <3>1. /\ life.pc = "found"
          /\ (UNCHANGED <<view, cancel>> \/ (view' = "Closing" /\ cancel' = TRUE))
      BY <2>2 DEF LifeMark, CloseMark
    <3> QED BY <2>0, <3>1
  <2>3. CASE LifeTake \/ LifeDrain
    <3>1. life.pc \in {"marked", "taken"} /\ cancel' = cancel /\ (view' = view \/ view' \in Ended)
      BY <2>0, <2>3 DEF LifeTake, LifeDrain, CloseDrain
    <3> QED BY <2>0, <3>1
  <2>4. CASE LifeDrop \/ LifeRetain
    <3>1. UNCHANGED <<view, cancel>> /\ life'.pc \in {"idle", "exited"}
      BY <1>2, <2>4 DEF LifeDrop, LifeRetain, entryVars
    <3> QED BY <2>0, <3>1
  <2> QED BY <1>3, <2>1, <2>2, <2>3, <2>4 DEF LifeStep
<1> QED BY <1>1, <1>3

\* Both invariants hold throughout.
LEMMA ChannelInvHolds == TerminalsSpec => [](ChannelInv /\ StartupInv)
<1>1. TerminalsInit => ChannelInv /\ StartupInv
  BY ChannelInitInv, StartupInitInv
<1>2. ChannelInv /\ StartupInv /\ [TerminalsNext]_terminalVars => (ChannelInv /\ StartupInv)'
  BY ChannelNextInv, OpenKeepsStartup, EntryKeepsStartup, LifeKeepsStartup DEF TerminalsNext
<1> QED BY <1>1, <1>2, PTL DEF TerminalsSpec

\* However open_terminal is overtaken, an SSH channel it has left open on a live
\* transport is in a listed entry, where whoever ends the session finds it.  Only a
\* startup whose future was dropped may leave one behind, and then no terminal was
\* accepted for it and the entry is ended.
THEOREM ChannelAlwaysOwned == TerminalsSpec => []ChannelHasOwner
<1>1. ChannelInv /\ StartupInv => ChannelHasOwner
  BY DEF ChannelInv, ChannelHeld, StartupInv, CancelledEnds, StrayFromStartup, ChannelHasOwner
<1> QED BY <1>1, ChannelInvHolds, PTL

-----------------------------------------------------------------------------
(***************************************************************************)
(* The output of a terminal                                                *)
(***************************************************************************)
\* The types of the output on its way from the remote host to the reader.
RemoteType ==
    [sent : Nat, startup : Nat, end : {"no", "Exit", "Closed", "Failed"}, at : Nat]

OutputTypeOK ==
    /\ got \in Nat
    /\ remote \in RemoteType
    /\ pump \in [pc : {"none", "select", "reading", "queueing", "sending", "closing", "done"},
                 rest : Seq(Nat)]
    /\ queue \in Seq(Seq(Nat)) /\ carry \in Seq(Nat) /\ delivered \in Seq(Nat)
    /\ poller \in [pc : {"idle", "receiving", "took", "closed"}, total : Nat]

\* Consecutive bytes, and the last of them when there are any.
Consecutive(s) == \A i \in 1..Len(s) : s[i] = s[1] + i - 1
End(s) == s[1] + Len(s) - 1

\* How far the pump has put into the queue what it has read.
Queued == got - Len(pump.rest)

\* What is delivered comes before a carry-over c, that before a queue q, in which
\* each chunk comes before the next, and that before what the pump has in hand.
Ordered(c, q) ==
    /\ \A i, j \in 1..Len(delivered) : i < j => delivered[i] < delivered[j]
    /\ \A i \in 1..Len(delivered) :
          /\ delivered[i] <= Queued
          /\ c # <<>> => delivered[i] < c[1]
          /\ \A k \in 1..Len(q) : delivered[i] < q[k][1]
    /\ Consecutive(c)
    /\ c # <<>> => End(c) <= Queued /\ \A k \in 1..Len(q) : End(c) < q[k][1]
    /\ \A k \in 1..Len(q) : q[k] # <<>> /\ Consecutive(q[k]) /\ End(q[k]) <= Queued
    /\ \A j, k \in 1..Len(q) : j < k => End(q[j]) < q[k][1]

\* None of it is missing.
Complete(c, q) ==
    /\ \A i \in 1..Len(delivered) : delivered[i] = i
    /\ c # <<>> => c[1] = Len(delivered) + 1
    /\ q # <<>> => /\ q[1][1] = Len(delivered) + Len(c) + 1
                   /\ End(q[Len(q)]) = Queued
    /\ q = <<>> => Len(delivered) + Len(c) = Queued
    /\ \A j, k \in 1..Len(q) : k = j + 1 => q[k][1] = End(q[j]) + 1

\* A poll takes from the queue only when the carry-over is used up, and no more than
\* a batch.
BatchFilled ==
    poller.pc = "receiving" => /\ poller.total <= Batch
                               /\ poller.total < Batch => carry = <<>>

\* The pump has the last of what it has read in hand while it is queueing, and drops
\* it only when it is cancelled.
PumpHolds ==
    /\ Queued \in Nat
    /\ \A i \in 1..Len(pump.rest) : pump.rest[i] = Queued + i
    /\ pump.pc \in {"queueing", "sending"} => pump.rest # <<>>
    /\ pump.pc \notin {"queueing", "sending"} => pump.rest = <<>>

\* A poll that has seen the sender dropped sees nothing new afterwards.
DrainSeen ==
    /\ poller.pc = "closed" => carry = <<>> /\ SenderDropped
    /\ drained => carry = <<>> /\ queue = <<>> /\ SenderDropped

\* The pump runs once open_terminal is through, on a channel that nobody closes
\* before the entry is cancelled.
ChannelServes ==
    /\ pump.pc # "none" => opener.pc = "ended"
    /\ opener.pc \in {"judging", "accepting"} /\ ~cancel => channel
    /\ pump.pc \notin {"none", "done"} /\ ~cancel => channel
    /\ life.pc \in {"marked", "taken"} => cancel
    /\ opener.pc \in {"failing", "removing"} => cancel

\* Without a cancellation a terminal is Closed only by the message that ends the
\* reading; nothing follows an EOF or a close.
ClosedAtEnd ==
    /\ view = "Closed" /\ ~cancel => /\ pump.pc \in {"closing", "done"}
                                    /\ remote.end \in {"Exit", "Closed"} /\ got = remote.at
    /\ remote.end = "Closed" => remote.sent = remote.at
    /\ opener.pc \in {"idle", "captured", "connecting"} => remote.end = "no"

\* The invariant of the output.
OutputInv ==
    /\ OutputTypeOK
    /\ Ordered(carry, queue)
    /\ ~cancel => Complete(carry, queue)
    /\ BatchFilled
    /\ PumpHolds
    /\ DrainSeen
    /\ ChannelServes
    /\ ClosedAtEnd

\* There is no output at the start.
LEMMA OutputInitInv ==
    ASSUME TerminalsInit PROVE OutputInv
<1>1. /\ got = 0 /\ remote = [sent |-> 0, startup |-> 0, end |-> "no", at |-> 0]
      /\ pump = [pc |-> "none", rest |-> <<>>] /\ queue = <<>> /\ carry = <<>>
      /\ delivered = <<>> /\ poller = [pc |-> "idle", total |-> 0] /\ ~drained /\ ~cancel
      /\ view = "none" /\ opener.pc = "idle" /\ life.pc = "idle"
  BY DEF TerminalsInit, NoLife
<1>2. OutputTypeOK
  BY <1>1 DEF OutputTypeOK, RemoteType
<1>3. Queued = 0
  <2>1. got = 0 /\ Len(pump.rest) = 0
    BY <1>1
  <2> QED BY <2>1 DEF Queued
<1>4. Ordered(carry, queue) /\ Complete(carry, queue) /\ PumpHolds
  BY <1>1, <1>3 DEF Ordered, Complete, PumpHolds, Consecutive
<1>5. BatchFilled /\ DrainSeen /\ ChannelServes /\ ClosedAtEnd
  BY <1>1 DEF BatchFilled, DrainSeen, ChannelServes, ClosedAtEnd
<1> QED BY <1>2, <1>4, <1>5 DEF OutputInv

\* The first chunk of the queue is as good as a carry-over, when there is none.
LEMMA ChunkIsNext ==
    ASSUME NEW q \in Seq(Seq(Nat)), q # <<>>, delivered \in Seq(Nat), Queued \in Nat,
           Ordered(<<>>, q)
    PROVE  /\ Head(q) \in Seq(Nat) /\ Tail(q) \in Seq(Seq(Nat)) /\ Head(q) # <<>>
           /\ Ordered(Head(q), Tail(q))
           /\ Complete(<<>>, q) => Complete(Head(q), Tail(q))
<1> DEFINE t == Tail(q)
<1>1. /\ q[1] = Head(q) /\ Head(q) \in Seq(Nat) /\ t \in Seq(Seq(Nat)) /\ Len(q) \in Nat \ {0}
      /\ Len(t) = Len(q) - 1 /\ \A k \in 1..Len(t) : t[k] = q[k + 1] /\ k + 1 \in 1..Len(q)
  OBVIOUS
<1> HIDE DEF t
<1>2. 1 \in 1..Len(q) /\ Head(q) # <<>> /\ Consecutive(Head(q)) /\ End(Head(q)) <= Queued
  BY <1>1 DEF Ordered
<1>3. \A k \in 1..Len(t) : /\ End(Head(q)) < t[k][1]
                           /\ t[k] # <<>> /\ Consecutive(t[k]) /\ End(t[k]) <= Queued
  <2>1. ASSUME NEW k \in 1..Len(t)
        PROVE  /\ End(Head(q)) < t[k][1]
               /\ t[k] # <<>> /\ Consecutive(t[k]) /\ End(t[k]) <= Queued
    <3>1. t[k] = q[k + 1] /\ k + 1 \in 1..Len(q) /\ 1 < k + 1
      BY <1>1
    <3>2. End(q[1]) < q[k + 1][1]
      BY <1>2, <3>1 DEF Ordered
    <3> QED BY <1>1, <3>1, <3>2 DEF Ordered
  <2> QED BY <2>1
<1>4. \A j, k \in 1..Len(t) : j < k => End(t[j]) < t[k][1]
  <2>1. ASSUME NEW j \in 1..Len(t), NEW k \in 1..Len(t), j < k PROVE End(t[j]) < t[k][1]
    <3>1. t[j] = q[j + 1] /\ j + 1 \in 1..Len(q) /\ t[k] = q[k + 1] /\ k + 1 \in 1..Len(q)
      BY <1>1
    <3>2. j + 1 < k + 1
      BY <1>1, <2>1
    <3> QED BY <3>1, <3>2 DEF Ordered
  <2> QED BY <2>1
<1>5. \A i \in 1..Len(delivered) : /\ delivered[i] <= Queued /\ delivered[i] < Head(q)[1]
                                   /\ \A k \in 1..Len(t) : delivered[i] < t[k][1]
  BY <1>1, <1>2 DEF Ordered
<1>6. Ordered(Head(q), t)
  BY <1>2, <1>3, <1>4, <1>5 DEF Ordered
<1>7. ASSUME Complete(<<>>, q) PROVE Complete(Head(q), t)
  <2>1. Head(q)[1] = Len(delivered) + 1 /\ Head(q)[1] \in Nat /\ Len(Head(q)) \in Nat
    BY <1>1, <1>2, <1>7 DEF Complete
  <2>2. End(Head(q)) = Len(delivered) + Len(Head(q))
    BY <2>1 DEF End
  <2>3. t # <<>> => /\ t[1][1] = Len(delivered) + Len(Head(q)) + 1
                    /\ End(t[Len(t)]) = Queued
    <3>1. ASSUME t # <<>>
          PROVE  Len(t) \in 1..Len(t) /\ 1 \in 1..Len(t) /\ t[1] = q[2] /\ t[Len(t)] = q[Len(q)]
                 /\ 2 \in 1..Len(q)
      BY <1>1, <3>1
    <3>2. ASSUME t # <<>> PROVE t[1][1] = End(q[1]) + 1 /\ End(t[Len(t)]) = Queued
      BY <1>2, <1>7, <3>1, <3>2 DEF Complete
    <3> QED BY <1>1, <2>2, <3>2
  <2>4. t = <<>> => Len(delivered) + Len(Head(q)) = Queued
    <3>1. ASSUME t = <<>> PROVE Len(q) = 1
      <4>1. Len(t) = 0
        BY <3>1
      <4> QED BY <1>1, <4>1
    <3>2. ASSUME t = <<>> PROVE End(Head(q)) = Queued
      BY <1>1, <1>7, <3>1, <3>2 DEF Complete
    <3> QED BY <2>2, <3>2
  <2>5. \A j, k \in 1..Len(t) : k = j + 1 => t[k][1] = End(t[j]) + 1
    <3>1. ASSUME NEW j \in 1..Len(t), NEW k \in 1..Len(t), k = j + 1
          PROVE  t[k][1] = End(t[j]) + 1
      <4>1. /\ t[j] = q[j + 1] /\ j + 1 \in 1..Len(q) /\ t[k] = q[k + 1] /\ k + 1 \in 1..Len(q)
            /\ k + 1 = (j + 1) + 1
        BY <1>1, <3>1
      <4> QED BY <1>7, <4>1 DEF Complete
    <3> QED BY <3>1
  <2> QED BY <1>7, <2>1, <2>3, <2>4, <2>5 DEF Complete
<1> QED BY <1>1, <1>2, <1>6, <1>7 DEF t

\* The two parts of a sequence of bytes.
LEMMA SplitAt ==
    ASSUME NEW s \in Seq(Nat), NEW n \in 0..Len(s)
    PROVE  /\ SubSeq(s, 1, n) \in Seq(Nat) /\ Len(SubSeq(s, 1, n)) = n
           /\ \A i \in 1..n : SubSeq(s, 1, n)[i] = s[i]
           /\ SubSeq(s, n + 1, Len(s)) \in Seq(Nat) /\ Len(SubSeq(s, n + 1, Len(s))) = Len(s) - n
           /\ \A i \in 1..(Len(s) - n) : SubSeq(s, n + 1, Len(s))[i] = s[n + i]
<1>1. Len(s) \in Nat /\ n \in Nat /\ n <= Len(s)
  OBVIOUS
<1>2. SubSeq(s, 1, n) \in Seq(Nat) /\ Len(SubSeq(s, 1, n)) = n
  BY <1>1
<1>3. \A i \in 1..n : SubSeq(s, 1, n)[i] = s[i]
  BY <1>1
<1>4. SubSeq(s, n + 1, Len(s)) \in Seq(Nat)
  BY <1>1
<1>5. Len(SubSeq(s, n + 1, Len(s))) = Len(s) - n
  BY <1>1
<1>6. \A i \in 1..(Len(s) - n) : SubSeq(s, n + 1, Len(s))[i] = s[n + i]
  BY <1>1
<1> QED BY <1>2, <1>3, <1>4, <1>5, <1>6

\* What append_output_chunk does to the bytes: the first of the chunk are delivered
\* and the others carried over.
LEMMA ChunkIsSplit ==
    ASSUME NEW c \in Seq(Nat), NEW total \in Nat, total <= Batch, Consecutive(c),
           delivered \in Seq(Nat), AppendOutputChunk(c, total, <<>>)
    PROVE  \E cut \in 0..Len(c) :
              /\ delivered' \in Seq(Nat) /\ Len(delivered') = Len(delivered) + cut
              /\ \A i \in 1..Len(delivered) : delivered'[i] = delivered[i]
              /\ \A i \in 1..cut : delivered'[Len(delivered) + i] = c[1] + i - 1
              /\ carry' \in Seq(Nat) /\ Len(carry') = Len(c) - cut
              /\ \A i \in 1..Len(carry') : carry'[i] = c[1] + cut + i - 1
              /\ poller' = [pc |-> "receiving", total |-> total + cut] /\ total + cut <= Batch
              /\ total + cut < Batch => carry' = <<>>
<1>0. Batch \in Nat
  BY TerminalsAssumption
<1> DEFINE cut == IF Len(c) > Batch - total THEN Batch - total ELSE Len(c)
           front == SubSeq(c, 1, cut)
           back == SubSeq(c, cut + 1, Len(c))
<1>1. cut \in 0..Len(c) /\ total + cut <= Batch /\ (total + cut < Batch => cut = Len(c))
  BY <1>0
<1>2. /\ delivered' = delivered \o front /\ carry' = (IF cut = Len(c) THEN <<>> ELSE back)
      /\ poller' = [pc |-> "receiving", total |-> total + cut]
  BY DEF AppendOutputChunk, Deferred
<1> HIDE DEF cut
<1>3. front \in Seq(Nat) /\ Len(front) = cut /\ \A i \in 1..cut : front[i] = c[i]
  BY <1>1, SplitAt
<1>4. /\ back \in Seq(Nat) /\ Len(back) = Len(c) - cut
      /\ \A i \in 1..(Len(c) - cut) : back[i] = c[cut + i]
  BY <1>1, SplitAt
<1> HIDE DEF front, back
<1>5. \A i \in 1..Len(c) : c[i] = c[1] + i - 1
  BY DEF Consecutive
<1>6. \A i \in 1..cut : front[i] = c[1] + i - 1
  <2>1. ASSUME NEW i \in 1..cut PROVE front[i] = c[1] + i - 1
    <3>1. i \in 1..Len(c) /\ front[i] = c[i]
      BY <1>1, <1>3
    <3> QED BY <1>5, <3>1
  <2> QED BY <2>1
<1>7. \A i \in 1..Len(back) : back[i] = c[1] + cut + i - 1
  <2>1. ASSUME NEW i \in 1..Len(back) PROVE back[i] = c[1] + cut + i - 1
    <3>1. Len(c) \in Nat /\ cut \in 0..Len(c) /\ i \in 1..(Len(c) - cut)
      BY <1>1, <1>4
    <3>2. back[i] = c[cut + i]
      BY <1>4, <3>1
    <3>3. cut + i \in 1..Len(c)
      BY <3>1
    <3>4. c[1] \in Nat
      BY <1>1, <3>3
    <3> QED BY <1>1, <1>5, <3>2, <3>3, <3>4
  <2> QED BY <2>1
<1>8. /\ delivered' \in Seq(Nat) /\ Len(delivered') = Len(delivered) + cut
      /\ \A i \in 1..Len(delivered) : delivered'[i] = delivered[i]
      /\ \A i \in 1..cut : delivered'[Len(delivered) + i] = front[i]
  <2>1. Len(delivered) \in Nat /\ cut \in Nat
    BY <1>1
  <2>2. delivered' \in Seq(Nat) /\ Len(delivered') = Len(delivered) + cut
    <3>1. front \in Seq(Nat)
      BY <1>3
    <3>2. delivered \o front \in Seq(Nat) /\ Len(delivered \o front) = Len(delivered) + Len(front)
      BY <3>1
    <3> QED BY <1>2, <1>3, <3>1, <3>2
  <2>3. ASSUME NEW i \in 1..Len(delivered) PROVE delivered'[i] = delivered[i]
    BY <1>2, <1>3, <2>1
  <2>4. ASSUME NEW i \in 1..cut PROVE delivered'[Len(delivered) + i] = front[i]
    <3>1. Len(delivered) + i \in 1..Len(delivered \o front) /\ Len(delivered) + i > Len(delivered)
      BY <1>3, <2>1
    <3> QED BY <1>2, <1>3, <2>1, <3>1
  <2> QED BY <2>2, <2>3, <2>4
<1>9. /\ carry' \in Seq(Nat) /\ Len(carry') = Len(c) - cut
      /\ \A i \in 1..Len(carry') : carry'[i] = c[1] + cut + i - 1
  <2>1. CASE cut = Len(c)
    BY <1>2, <2>1
  <2>2. CASE cut # Len(c)
    BY <1>2, <1>4, <1>7, <2>2
  <2> QED BY <2>1, <2>2
<1>10. total + cut < Batch => carry' = <<>>
  BY <1>1, <1>2
<1> QED BY <1>1, <1>2, <1>6, <1>8, <1>9, <1>10

\* So the order is kept, and what was complete stays so.
LEMMA AppendKeepsOrder ==
    ASSUME NEW c \in Seq(Nat), NEW q \in Seq(Seq(Nat)), NEW total \in Nat, total <= Batch,
           delivered \in Seq(Nat), Queued \in Nat, Ordered(c, q), AppendOutputChunk(c, total, <<>>),
           queue' = q, UNCHANGED <<got, pump>>
    PROVE  /\ delivered' \in Seq(Nat) /\ carry' \in Seq(Nat)
           /\ Ordered(carry, queue)' /\ (Complete(c, q) => Complete(carry, queue)')
           /\ poller'.pc = "receiving" /\ poller'.total \in Nat /\ poller'.total <= Batch
           /\ poller' = [pc |-> "receiving", total |-> poller'.total]
           /\ poller'.total < Batch => carry' = <<>>
<1>1. Consecutive(c)
  BY DEF Ordered
<1>2. PICK cut \in 0..Len(c) :
              /\ delivered' \in Seq(Nat) /\ Len(delivered') = Len(delivered) + cut
              /\ \A i \in 1..Len(delivered) : delivered'[i] = delivered[i]
              /\ \A i \in 1..cut : delivered'[Len(delivered) + i] = c[1] + i - 1
              /\ carry' \in Seq(Nat) /\ Len(carry') = Len(c) - cut
              /\ \A i \in 1..Len(carry') : carry'[i] = c[1] + cut + i - 1
              /\ poller' = [pc |-> "receiving", total |-> total + cut] /\ total + cut <= Batch
              /\ total + cut < Batch => carry' = <<>>
  BY <1>1, ChunkIsSplit
<1>3. Queued' = Queued
  BY DEF Queued
<1>4. PICK n, m, first, qd :
         n = Len(delivered) /\ m = Len(c) /\ first = c[1] /\ qd = Queued
  BY Zenon
<1>5. n \in Nat /\ m \in Nat /\ qd \in Nat /\ cut \in 0..m
  BY <1>2, <1>4
<1>6. carry' \in Seq(Nat) /\ Len(carry') = m - cut /\ Len(delivered') = n + cut
  BY <1>2, <1>4
<1>7. c # <<>> => m > 0 /\ first \in Nat
  BY <1>4
<1>8. c = <<>> => m = 0 /\ cut = 0
  BY <1>2, <1>4
<1>9. carry' # <<>> => cut < m /\ c # <<>>
  <2>1. ASSUME carry' # <<>> PROVE Len(carry') # 0
    BY <1>6, <2>1
  <2> QED BY <1>5, <1>6, <1>8, <2>1
<1>10. carry' = <<>> => cut = m
  <2>1. ASSUME carry' = <<>> PROVE Len(carry') = 0
    BY <2>1
  <2> QED BY <1>2, <1>4, <2>1
\* The delivered bytes are the old ones and the first of the chunk.
<1>11. ASSUME NEW i \in 1..Len(delivered')
      PROVE  \/ i \in 1..n /\ delivered'[i] = delivered[i]
             \/ /\ i > n /\ i <= n + cut /\ c # <<>> /\ first \in Nat
                /\ delivered'[i] = first + (i - n) - 1
  <2>1. CASE i <= n
    BY <1>2, <1>4, <2>1
  <2>2. CASE i > n
    <3>1. PICK j \in 1..cut : i = n + j
      <4>1. i - n \in 1..cut /\ i = n + (i - n)
        BY <1>2, <1>4, <2>2
      <4> QED BY <4>1
    <3>2. delivered'[n + j] = first + j - 1
      BY <1>2, <1>4
    <3>3. c # <<>> /\ first \in Nat
      BY <1>2, <1>7, <1>8, <3>1
    <3>4. j = i - n
      BY <1>2, <1>4, <3>1
    <3> QED BY <1>2, <1>4, <3>1, <3>2, <3>3, <3>4
  <2> QED BY <1>2, <1>4, <2>1, <2>2
<1>12. \A i \in 1..n : /\ delivered[i] \in Nat /\ delivered[i] <= qd
                       /\ c # <<>> => delivered[i] < first
                       /\ \A k \in 1..Len(q) : delivered[i] < q[k][1]
  BY <1>4 DEF Ordered
<1>13. c # <<>> => first + m - 1 <= qd /\ \A k \in 1..Len(q) : first + m - 1 < q[k][1]
  BY <1>4 DEF Ordered, End
<1>14. \A k \in 1..Len(q) : q[k][1] \in Nat
  <2>1. ASSUME NEW k \in 1..Len(q) PROVE q[k][1] \in Nat
    <3>1. q[k] \in Seq(Nat) /\ q[k] # <<>>
      BY DEF Ordered
    <3> QED BY <3>1
  <2> QED BY <2>1
<1>15. carry' # <<>> => /\ carry'[1] = first + cut /\ first \in Nat
                        /\ End(carry') = first + m - 1
  <2>1. ASSUME carry' # <<>> PROVE carry'[1] = first + cut /\ first \in Nat
    <3>1. 1 \in 1..Len(carry')
      BY <1>2, <1>4, <1>9, <2>1
    <3>2. carry'[1] = first + cut + 1 - 1
      BY <1>2, <1>4, <3>1
    <3>3. first \in Nat
      BY <1>7, <1>9, <2>1
    <3> QED BY <1>5, <3>2, <3>3
  <2>2. ASSUME carry' # <<>> PROVE End(carry') = first + m - 1
    BY <1>5, <1>6, <2>1, <2>2 DEF End
  <2> QED BY <2>1, <2>2
<1>16. Consecutive(carry')
  <2>1. ASSUME NEW i \in 1..Len(carry') PROVE carry'[i] = carry'[1] + i - 1
    <3>1. carry' # <<>>
      BY <1>2
    <3> QED BY <1>2, <1>4, <1>15, <3>1
  <2> QED BY <2>1 DEF Consecutive
<1>17. ASSUME NEW i \in 1..Len(delivered')
       PROVE  /\ delivered'[i] <= qd
              /\ carry' # <<>> => delivered'[i] < carry'[1]
              /\ \A k \in 1..Len(q) : delivered'[i] < q[k][1]
  <2>1. CASE i \in 1..n /\ delivered'[i] = delivered[i]
    <3>1. /\ delivered[i] \in Nat /\ delivered[i] <= qd
          /\ c # <<>> => delivered[i] < first
          /\ \A k \in 1..Len(q) : delivered[i] < q[k][1]
      BY <1>12, <2>1
    <3>2. ASSUME carry' # <<>> PROVE delivered[i] < carry'[1]
      <4>1. delivered[i] < first /\ first \in Nat /\ carry'[1] = first + cut
        BY <1>9, <1>15, <3>1, <3>2
      <4>2. first <= first + cut
        BY <1>5, <4>1
      <4> QED BY <1>5, <3>1, <4>1, <4>2
    <3> QED BY <2>1, <3>1, <3>2
  <2>2. CASE /\ i > n /\ i <= n + cut /\ c # <<>> /\ first \in Nat
             /\ delivered'[i] = first + (i - n) - 1
    <3>1. PICK d : d = delivered'[i]
      OBVIOUS
    <3>2. d \in Nat /\ d < first + cut /\ d <= first + m - 1
      BY <1>5, <1>6, <2>2, <3>1
    <3>3. d <= qd
      <4>1. first + m - 1 <= qd
        BY <1>13, <2>2
      <4> QED BY <1>5, <2>2, <3>2, <4>1
    <3>4. ASSUME NEW k \in 1..Len(q) PROVE d < q[k][1]
      <4>1. first + m - 1 < q[k][1] /\ q[k][1] \in Nat
        BY <1>13, <1>14, <2>2
      <4>2. PICK x \in Nat : x = q[k][1] /\ first + m - 1 < x
        BY <4>1
      <4>3. d < x
        <5>1. PICK z \in Int : z = first + m - 1
          BY <1>5, <2>2
        <5>2. d \in Int /\ d <= z
          BY <3>2, <5>1
        <5>3. x \in Int /\ z < x
          BY <4>2, <5>1
        <5> QED BY <5>2, <5>3
      <4> QED BY <4>2, <4>3
    <3> QED BY <1>15, <3>1, <3>2, <3>3, <3>4
  <2> QED BY <1>11, <2>1, <2>2
<1>18. ASSUME NEW i \in 1..Len(delivered'), NEW j \in 1..Len(delivered'), i < j
       PROVE  delivered'[i] < delivered'[j]
  <2>1. CASE j \in 1..n /\ delivered'[j] = delivered[j]
    <3>1. i \in 1..n /\ delivered'[i] = delivered[i]
      <4>1. ~(i > n)
        BY <1>5, <1>18, <2>1
      <4> QED BY <1>11, <4>1
    <3> QED BY <1>4, <1>18, <2>1, <3>1 DEF Ordered
  <2>2. CASE /\ j > n /\ j <= n + cut /\ c # <<>> /\ first \in Nat
             /\ delivered'[j] = first + (j - n) - 1
    <3>1. CASE i \in 1..n /\ delivered'[i] = delivered[i]
      <4>1. delivered[i] \in Nat /\ delivered[i] < first
        BY <1>12, <2>2, <3>1
      <4>2. first <= first + (j - n) - 1
        BY <1>5, <1>6, <2>2
      <4>3. PICK x \in Nat : x = delivered[i] /\ x < first
        BY <4>1
      <4>4. PICK y : y = first + (j - n) - 1
        OBVIOUS
      <4>5. x < y
        BY <1>5, <2>2, <4>2, <4>3, <4>4
      <4> QED BY <2>2, <3>1, <4>3, <4>4, <4>5
    <3>2. CASE i > n /\ delivered'[i] = first + (i - n) - 1
      <4>1. first + (i - n) - 1 < first + (j - n) - 1
        BY <1>5, <1>6, <1>18, <2>2
      <4> QED BY <2>2, <3>2, <4>1
    <3> QED BY <1>11, <3>1, <3>2
  <2> QED BY <1>11, <2>1, <2>2
<1>19. Ordered(carry, queue)'
  <2>1. carry' # <<>> => End(carry') <= qd /\ \A k \in 1..Len(q) : End(carry') < q[k][1]
    BY <1>9, <1>13, <1>15
  <2>2. /\ \A k \in 1..Len(q) : q[k] # <<>> /\ Consecutive(q[k]) /\ End(q[k]) <= qd
        /\ \A j, k \in 1..Len(q) : j < k => End(q[j]) < q[k][1]
    BY <1>4 DEF Ordered
  <2>3. Ordered(carry, q)'
    BY <1>3, <1>4, <1>16, <1>17, <1>18, <2>1, <2>2 DEF Ordered, Consecutive, End
  <2> QED BY <2>3 DEF Ordered, Consecutive, End
<1>20. ASSUME Complete(c, q) PROVE Complete(carry, queue)'
  <2>1. c # <<>> => first = n + 1
    BY <1>4, <1>20 DEF Complete
  <2>2. ASSUME NEW i \in 1..Len(delivered') PROVE delivered'[i] = i
    <3>1. CASE i \in 1..n /\ delivered'[i] = delivered[i]
      BY <1>4, <1>20, <3>1 DEF Complete
    <3>2. CASE i > n /\ i <= n + cut /\ c # <<>> /\ first \in Nat
               /\ delivered'[i] = first + (i - n) - 1
      <4>1. first + (i - n) - 1 = i
        BY <1>5, <1>6, <2>1, <3>2
      <4> QED BY <3>2, <4>1
    <3> QED BY <1>11, <3>1, <3>2
  <2>3. carry' # <<>> => carry'[1] = Len(delivered') + 1
    BY <1>2, <1>4, <1>9, <1>15, <2>1
  <2>4. Len(delivered') + Len(carry') = n + m
    BY <1>2, <1>4
  <2>5. /\ q # <<>> => q[1][1] = n + m + 1 /\ End(q[Len(q)]) = qd
        /\ q = <<>> => n + m = qd
        /\ \A j, k \in 1..Len(q) : k = j + 1 => q[k][1] = End(q[j]) + 1
    BY <1>4, <1>20 DEF Complete
  <2> QED BY <1>3, <1>4, <2>2, <2>3, <2>4, <2>5 DEF Complete, End
<1>21. /\ poller'.pc = "receiving" /\ poller'.total = total + cut
       /\ poller' = [pc |-> "receiving", total |-> poller'.total]
  BY <1>2
<1> QED BY <1>2, <1>19, <1>20, <1>21

\* Steps that do not move a byte; a cancellation only takes away what is promised.
LEMMA OrderStands ==
    ASSUME OutputInv, UNCHANGED <<got, queue, carry, delivered>>, pump'.rest = pump.rest,
           cancel => cancel'
    PROVE  Ordered(carry, queue)' /\ (~cancel => Complete(carry, queue))' /\ Queued' = Queued
<1>1. Queued' = Queued
  BY DEF Queued
<1>2. Ordered(carry, queue)'
  BY <1>1 DEF OutputInv, Ordered, Consecutive, End
<1>3. (~cancel => Complete(carry, queue))'
  BY <1>1 DEF OutputInv, Complete, End
<1> QED BY <1>1, <1>2, <1>3

\* Steps that are not about the output at all.
LEMMA OthersKeepOutput ==
    ASSUME OutputInv, UNCHANGED <<got, pump, queue, carry, delivered, drained, poller>>,
           cancel => cancel', opener.pc = "ended" => opener'.pc = "ended",
           remote' \in RemoteType,
           ChannelServes', ClosedAtEnd'
    PROVE  OutputInv'
<1>1. OutputTypeOK' /\ BatchFilled'
  BY DEF OutputInv, OutputTypeOK, BatchFilled
<1>2. Ordered(carry, queue)' /\ (~cancel => Complete(carry, queue))' /\ Queued' = Queued
  BY OrderStands
<1>3. PumpHolds'
  BY <1>2 DEF OutputInv, PumpHolds
<1>4. DrainSeen'
  BY DEF OutputInv, DrainSeen, SenderDropped
<1> QED BY <1>1, <1>2, <1>3, <1>4 DEF OutputInv

\* open_terminal: it starts the pump when nobody has cancelled, and then it is through.
LEMMA OpenKeepsOutput ==
    ASSUME ChannelInv, OutputInv, OpenCapture \/ OpenRefused \/ OpenStep \/ OpenDropped
    PROVE  OutputInv'
<1>0. opener \in OpenerType /\ remote \in RemoteType
  BY DEF ChannelInv, TerminalsTypeOK, OutputInv, OutputTypeOK
<1>1. /\ UNCHANGED <<got, queue, carry, delivered, drained, poller, life>>
      /\ opener.pc # "ended" /\ (cancel => cancel') /\ pump.pc = "none"
  BY DEF OpenCapture, OpenRefused, OpenStep, OpenReserve, OpenConnects, OpenFails, OpenAbandoned,
         OpenJudge, OpenAccept, OpenWithdraw, OpenError, OpenFailEntry, OpenRemove, OpenDropped,
         outputVars, entryVars, OutputInv, ChannelServes
<1>2. ASSUME NEW pc, Opener(pc) PROVE opener'.pc = pc
  BY <1>0, <1>2 DEF Opener, OpenerType
<1>3. ASSUME UNCHANGED <<pump, remote>>, ChannelServes', ClosedAtEnd' PROVE OutputInv'
  BY <1>0, <1>1, <1>3, OthersKeepOutput
<1> USE DEF ChannelServes, ClosedAtEnd
<1>4. CASE OpenCapture
  <2>1. /\ opener.pc = "idle" /\ opener'.pc = "captured"
        /\ UNCHANGED <<pump, remote, view, cancel, channel>>
    BY <1>0, <1>4 DEF OpenCapture, entryVars, OpenerType
  <2> QED BY <1>1, <1>3, <2>1 DEF OutputInv
<1>5. CASE OpenRefused
  <2>1. opener'.pc = "ended" /\ UNCHANGED <<pump, remote, view, cancel, channel>>
    BY <1>2, <1>5 DEF OpenRefused, entryVars
  <2> QED BY <1>1, <1>3, <2>1 DEF OutputInv
<1>6. CASE OpenReserve
  <2>1. /\ opener.pc = "captured" /\ opener'.pc = "connecting" /\ view' = "Creating"
        /\ UNCHANGED <<pump, remote, cancel, channel>>
    BY <1>2, <1>6 DEF OpenReserve
  <2> QED BY <1>1, <1>3, <2>1 DEF OutputInv
<1>7. CASE OpenConnects
  <2>1. /\ opener.pc = "connecting" /\ opener'.pc = "judging" /\ channel' = TRUE
        /\ UNCHANGED <<pump, view, cancel>>
    BY <1>2, <1>7 DEF OpenConnects
  <2>2. remote' \in RemoteType /\ remote'.end = remote.end
    <3>1. PICK n \in 0..1 : remote' = [remote EXCEPT !.sent = n, !.startup = n]
      BY <1>7 DEF OpenConnects
    <3>2. n \in Nat
      OBVIOUS
    <3> QED BY <1>0, <3>1, <3>2 DEF RemoteType
  <2>3. ChannelServes' /\ ClosedAtEnd'
    BY <1>1, <2>1, <2>2 DEF OutputInv
  <2> QED BY <1>1, <2>1, <2>2, <2>3, OthersKeepOutput
<1>8. CASE OpenFails \/ OpenAbandoned
  <2>1. opener'.pc = "failed" /\ UNCHANGED <<pump, remote, view, cancel, channel>>
    BY <1>0, <1>8 DEF OpenFails, OpenAbandoned, entryVars, OpenerType
  <2> QED BY <1>1, <1>3, <2>1 DEF OutputInv
<1>9. CASE OpenJudge
  <2>1. UNCHANGED <<pump, remote, cancel, channel, view>> /\ opener.pc = "judging"
    BY <1>9 DEF OpenJudge, entryVars
  <2>2. opener'.pc \in {"withdrawing", "accepting"}
    BY <1>0, <1>9 DEF OpenJudge, OpenerType
  <2> QED BY <1>1, <1>3, <2>1, <2>2 DEF OutputInv
<1>10. CASE OpenAccept
  <2>1. opener.pc = "accepting" /\ UNCHANGED <<remote, cancel, channel>>
    BY <1>10 DEF OpenAccept
  <2>2. CASE cancel \/ view # "Creating"
    <3>1. opener'.pc = "withdrawing" /\ UNCHANGED <<view, pump>>
      BY <1>2, <1>10, <2>2 DEF OpenAccept
    <3> QED BY <1>1, <1>3, <2>1, <3>1 DEF OutputInv
  <2>3. CASE ~(cancel \/ view # "Creating")
    <3>1. view' = "Open" /\ pump' = [pump EXCEPT !.pc = "select"] /\ opener'.pc = "ended"
      BY <1>2, <1>10, <2>3 DEF OpenAccept
    <3>2. /\ pump' \in [pc : {"none", "select", "reading", "queueing", "sending", "closing",
                              "done"},
                        rest : Seq(Nat)]
          /\ pump'.pc = "select" /\ pump'.rest = pump.rest /\ pump.rest = <<>>
      BY <1>1, <3>1 DEF OutputInv, OutputTypeOK, PumpHolds
    <3>3. OutputTypeOK' /\ BatchFilled'
      BY <1>1, <2>1, <3>2 DEF OutputInv, OutputTypeOK, BatchFilled
    <3>4. Ordered(carry, queue)' /\ (~cancel => Complete(carry, queue))' /\ Queued' = Queued
      BY <1>1, <3>2, OrderStands
    <3>5. PumpHolds'
      BY <3>2, <3>4 DEF OutputInv, PumpHolds
    <3>6. DrainSeen'
      <4>1. ~SenderDropped
        BY <1>1 DEF SenderDropped
      <4> QED BY <1>1, <4>1 DEF OutputInv, DrainSeen
    <3>7. ChannelServes' /\ ClosedAtEnd'
      BY <1>1, <2>1, <2>3, <3>1, <3>2 DEF OutputInv
    <3> QED BY <3>3, <3>4, <3>5, <3>6, <3>7 DEF OutputInv
  <2> QED BY <2>2, <2>3
<1>11. CASE OpenError
  <2>1. opener'.pc \in {"failing", "ended"} /\ cancel' = TRUE /\ UNCHANGED <<pump, remote, view>>
    BY <1>2, <1>11 DEF OpenError
  <2> QED BY <1>1, <1>3, <2>1 DEF OutputInv
<1>12. CASE OpenFailEntry
  <2>1. opener'.pc = "removing" /\ opener.pc = "failing" /\ UNCHANGED <<pump, remote, cancel>>
    BY <1>2, <1>12 DEF OpenFailEntry
  <2> QED BY <1>1, <1>3, <2>1 DEF OutputInv
<1>13. CASE OpenRemove
  <2>1. opener'.pc = "ended" /\ UNCHANGED <<pump, remote, cancel, view, channel>>
    BY <1>2, <1>13 DEF OpenRemove
  <2> QED BY <1>1, <1>3, <2>1 DEF OutputInv
<1>14. CASE OpenDropped
  <2>1. opener'.pc = "ended" /\ cancel' = TRUE /\ UNCHANGED <<pump, remote>>
    BY <1>2, <1>14 DEF OpenDropped
  <2> QED BY <1>1, <1>3, <2>1 DEF OutputInv
<1>15. CASE OpenWithdraw
  <2>1. /\ opener'.pc = "ended" /\ opener.pc = "withdrawing" /\ UNCHANGED <<pump, remote, cancel>>
        /\ view' = IF opener.error = "none" THEN view ELSE opener.error
    BY <1>2, <1>15 DEF OpenWithdraw
  <2>2. view' = view \/ view' # "Closed"
    BY <1>0, <2>1 DEF OpenerType
  <2> QED BY <1>1, <1>3, <2>1, <2>2 DEF OutputInv
<1> QED BY <1>4, <1>5, <1>6, <1>7, <1>8, <1>9, <1>10, <1>11, <1>12, <1>13, <1>14,
          <1>15 DEF OpenStep

\* The remote shell: bytes it has sent are not read yet.
LEMMA RemoteKeepsOutput ==
    ASSUME ChannelInv, OutputInv, RemoteSends \/ RemoteEnds PROVE OutputInv'
<1>1. /\ UNCHANGED <<got, pump, queue, carry, delivered, drained, poller, opener, view, cancel,
                     channel, life>>
      /\ channel
  BY DEF RemoteSends, RemoteEnds, outputVars, entryVars
<1>2. opener.pc \notin {"idle", "captured", "connecting"}
  BY <1>1 DEF ChannelInv, OpenerListed
<1>3. remote \in RemoteType
  BY DEF OutputInv, OutputTypeOK
<1>4. CASE RemoteSends
  <2>1. /\ remote' = [remote EXCEPT !.sent = @ + 1] /\ remote.sent + 1 \in Nat
        /\ remote.end # "Closed"
    BY <1>3, <1>4 DEF RemoteSends, RemoteType
  <2>2. remote' \in RemoteType /\ remote'.end = remote.end /\ remote'.at = remote.at
    BY <1>3, <2>1 DEF RemoteType
  <2>3. ChannelServes' /\ ClosedAtEnd'
    BY <1>1, <1>2, <2>1, <2>2 DEF OutputInv, ChannelServes, ClosedAtEnd
  <2> QED BY <1>1, <2>2, <2>3, OthersKeepOutput
<1>5. CASE RemoteEnds
  <2>1. PICK how \in {"Exit", "Closed", "Failed"} :
           remote' = [remote EXCEPT !.end = how, !.at = remote.sent]
    BY <1>5 DEF RemoteEnds
  <2>2. remote' \in RemoteType /\ remote'.sent = remote.sent /\ remote'.at = remote.sent
    BY <1>3, <2>1 DEF RemoteType
  <2>3. remote.end = "no"
    BY <1>5 DEF RemoteEnds
  <2>4. ChannelServes' /\ ClosedAtEnd'
    BY <1>1, <1>2, <2>2, <2>3 DEF OutputInv, ChannelServes, ClosedAtEnd
  <2> QED BY <1>1, <2>2, <2>4, OthersKeepOutput
<1> QED BY <1>4, <1>5

\* The pump goes from one point to another with the same bytes in hand.
LEMMA PumpMoves ==
    ASSUME OutputInv,
           NEW pc \in {"select", "reading", "queueing", "sending", "closing", "done"},
           pump' = [pump EXCEPT !.pc = pc], pump.pc \notin {"none", "done"},
           UNCHANGED <<got, queue, carry, delivered, drained, poller, opener, cancel, remote>>,
           pc \in {"queueing", "sending"} => pump.rest # <<>>,
           pc \notin {"queueing", "sending"} => pump.rest = <<>>,
           ChannelServes', ClosedAtEnd'
    PROVE  OutputInv'
<1>1. /\ pump' \in [pc : {"none", "select", "reading", "queueing", "sending", "closing", "done"},
                    rest : Seq(Nat)]
      /\ pump'.pc = pc /\ pump'.rest = pump.rest
  BY DEF OutputInv, OutputTypeOK
<1>2. OutputTypeOK' /\ BatchFilled'
  BY <1>1 DEF OutputInv, OutputTypeOK, BatchFilled
<1>3. Ordered(carry, queue)' /\ (~cancel => Complete(carry, queue))' /\ Queued' = Queued
  BY <1>1, OrderStands
<1>4. PumpHolds'
  BY <1>1, <1>3 DEF OutputInv, PumpHolds
<1>5. DrainSeen'
  BY DEF OutputInv, DrainSeen, SenderDropped
<1> QED BY <1>2, <1>3, <1>4, <1>5 DEF OutputInv

\* A cancelled pump drops the bytes it has in hand.
LEMMA DroppedKeepsOutput ==
    ASSUME OutputInv, cancel, pump' = [pc |-> "done", rest |-> <<>>],
           pump'.pc = "done", pump'.rest = <<>>, pump.pc = "queueing",
           UNCHANGED <<got, queue, carry, delivered, drained, poller, opener, cancel, remote>>,
           ChannelServes', ClosedAtEnd'
    PROVE  OutputInv'
<1>1. OutputTypeOK' /\ BatchFilled' /\ DrainSeen'
  <2>1. pump' \in [pc : {"none", "select", "reading", "queueing", "sending", "closing", "done"},
                   rest : Seq(Nat)]
    OBVIOUS
  <2> QED BY <2>1 DEF OutputInv, OutputTypeOK, BatchFilled, DrainSeen, SenderDropped
<1>2. PICK old, new : old = Queued /\ new = Queued'
  OBVIOUS
<1>3. /\ got \in Nat /\ Len(pump.rest) \in Nat /\ Len(pump'.rest) = 0
      /\ old = got - Len(pump.rest) /\ new = got - Len(pump'.rest)
  BY <1>2 DEF OutputInv, OutputTypeOK, Queued
<1>4. old \in Int /\ new \in Nat /\ old <= new
  BY <1>3
<1>5. PumpHolds'
  BY <1>2, <1>4 DEF PumpHolds
<1>6. \A x \in Int : x <= old => x <= new
  BY <1>4
<1>7. ASSUME NEW c \in Seq(Nat), c # <<>> PROVE End(c) \in Int
  BY <1>7 DEF End
<1>8. Ordered(carry, queue)'
  <2>0. /\ Ordered(carry, queue) /\ carry \in Seq(Nat) /\ delivered \in Seq(Nat)
        /\ queue \in Seq(Seq(Nat))
    BY DEF OutputInv, OutputTypeOK
  <2>1. /\ \A i \in 1..Len(delivered) : delivered[i] \in Nat
        /\ \A k \in 1..Len(queue) : queue[k] \in Seq(Nat)
    <3>1. \A i \in 1..Len(delivered) : delivered[i] \in Nat
      BY <2>0
    <3>2. \A k \in 1..Len(queue) : queue[k] \in Seq(Nat)
      BY <2>0
    <3> QED BY <3>1, <3>2
  <2>2. \A i \in 1..Len(delivered) : delivered[i] <= new
    BY <1>2, <1>6, <2>0, <2>1 DEF Ordered
  <2>3. carry # <<>> => End(carry) <= new
    BY <1>2, <1>6, <1>7, <2>0 DEF Ordered
  <2>4. \A k \in 1..Len(queue) : End(queue[k]) <= new
    BY <1>2, <1>6, <1>7, <2>0, <2>1 DEF Ordered
  <2> QED BY <1>2, <2>0, <2>2, <2>3, <2>4 DEF Ordered, Consecutive, End
<1> QED BY <1>1, <1>5, <1>8 DEF OutputInv

\* The pump looks, stops, waits for a free slot and leaves.
LEMMA PumpWaitsKeeps ==
    ASSUME OutputInv, PumpSelect \/ PumpStops \/ PumpOffer \/ PumpClose
    PROVE  OutputInv'
<1>0. pump \in [pc : {"none", "select", "reading", "queueing", "sending", "closing", "done"},
                rest : Seq(Nat)]
  BY DEF OutputInv, OutputTypeOK
<1>1. /\ UNCHANGED <<got, queue, carry, delivered, drained, poller, opener, cancel, remote, life>>
      /\ pump.pc \in {"select", "reading", "queueing", "closing"}
  BY DEF PumpSelect, PumpStops, PumpOffer, PumpClose, outputVars, entryVars
<1>2. CASE PumpSelect
  <2>1. PICK pc \in {"closing", "reading"} : pump' = [pump EXCEPT !.pc = pc]
    BY <1>2 DEF PumpSelect
  <2>2. pump.rest = <<>> /\ pump.pc = "select" /\ UNCHANGED <<view, channel>> /\ pump'.pc = pc
    BY <1>0, <1>2, <2>1 DEF PumpSelect, entryVars, OutputInv, PumpHolds
  <2>3. ChannelServes' /\ ClosedAtEnd'
    BY <1>1, <2>2 DEF OutputInv, ChannelServes, ClosedAtEnd
  <2> QED BY <1>1, <2>1, <2>2, <2>3, PumpMoves
<1>3. CASE PumpStops
  <2>1. pump' = [pump EXCEPT !.pc = "closing"] /\ channel' = channel /\ pump.pc = "reading"
    BY <1>3 DEF PumpStops
  <2>2. pump.rest = <<>> /\ pump'.pc = "closing"
    BY <1>0, <2>1 DEF OutputInv, PumpHolds
  <2>3. ChannelServes'
    BY <1>1, <2>1, <2>2 DEF OutputInv, ChannelServes
  <2>4. ASSUME ~cancel, view' = "Closed"
        PROVE  remote.end \in {"Exit", "Closed"} /\ got = remote.at
    <3>1. channel /\ view # "Closed"
      BY <2>1, <2>4 DEF OutputInv, ChannelServes, ClosedAtEnd
    <3>2. remote \in RemoteType
      BY DEF OutputInv, OutputTypeOK
    <3> QED BY <1>3, <2>4, <3>1, <3>2 DEF PumpStops, IfOpen, RemoteType
  <2>5. ClosedAtEnd'
    BY <1>1, <2>2, <2>4 DEF OutputInv, ClosedAtEnd
  <2> QED BY <1>1, <2>1, <2>2, <2>3, <2>5, PumpMoves
<1>4. CASE PumpOffer
  <2>1. /\ pump.pc = "queueing" /\ UNCHANGED <<view, channel>>
        /\ \/ cancel /\ pump' = [pc |-> "done", rest |-> <<>>]
           \/ pump' = [pump EXCEPT !.pc = "sending"]
    BY <1>4 DEF PumpOffer, entryVars
  <2>2. pump.rest # <<>>
    BY <2>1 DEF OutputInv, PumpHolds
  <2>3. CASE pump' = [pump EXCEPT !.pc = "sending"]
    <3>1. pump'.pc = "sending"
      BY <1>0, <2>3
    <3>2. ChannelServes' /\ ClosedAtEnd'
      BY <1>1, <2>1, <3>1 DEF OutputInv, ChannelServes, ClosedAtEnd
    <3> QED BY <1>1, <2>1, <2>2, <2>3, <3>2, PumpMoves
  <2>4. CASE cancel /\ pump' = [pc |-> "done", rest |-> <<>>]
    <3>1. pump'.pc = "done" /\ pump'.rest = <<>>
      BY <2>4
    <3>2. ChannelServes' /\ ClosedAtEnd'
      BY <1>1, <2>1, <2>4, <3>1 DEF OutputInv, ChannelServes, ClosedAtEnd
    <3> QED BY <1>1, <2>1, <2>4, <3>1, <3>2, DroppedKeepsOutput
  <2> QED BY <2>1, <2>3, <2>4
<1>5. CASE PumpClose
  <2>1. pump.pc = "closing" /\ pump' = [pump EXCEPT !.pc = "done"] /\ view' = view
    BY <1>5 DEF PumpClose
  <2>2. pump.rest = <<>> /\ pump'.pc = "done"
    BY <1>0, <2>1 DEF OutputInv, PumpHolds
  <2>3. opener.pc = "ended"
    BY <2>1 DEF OutputInv, ChannelServes
  <2>4. ChannelServes' /\ ClosedAtEnd'
    BY <1>1, <2>1, <2>2, <2>3 DEF OutputInv, ChannelServes, ClosedAtEnd
  <2> QED BY <1>1, <2>1, <2>2, <2>4, PumpMoves
<1> QED BY <1>2, <1>3, <1>4, <1>5

\* The pump reads: the bytes it gets follow those it had.
LEMMA PumpDataKeeps ==
    ASSUME OutputInv, PumpData PROVE OutputInv'
<1>1. /\ UNCHANGED <<queue, carry, delivered, drained, poller, opener, view, cancel, channel,
                     remote, life>>
      /\ pump.pc = "reading" /\ got \in Nat /\ pump.rest = <<>>
  BY DEF PumpData, outputVars, entryVars, OutputInv, OutputTypeOK, PumpHolds
<1>2. PICK n \in 1..MaxData :
         /\ pump' = [pc |-> "queueing", rest |-> [i \in 1..n |-> got + i]] /\ got' = got + n
  BY DEF PumpData
<1>3. n \in Nat /\ n > 0
  BY TerminalsAssumption
<1> DEFINE r == [i \in 1..n |-> got + i]
<1>4. r \in Seq(Nat) /\ Len(r) = n /\ r # <<>> /\ \A i \in 1..n : r[i] = got + i
  <2>1. r \in Seq(Nat) /\ Len(r) = n
    BY <1>1, <1>3
  <2> QED BY <1>3, <2>1
<1> HIDE DEF r
<1>5. pump'.pc = "queueing" /\ pump'.rest = r
  BY <1>2 DEF r
<1>6. Queued' = got /\ Queued = got
  <2>1. Len(pump.rest) = 0
    BY <1>1
  <2>2. Len(pump'.rest) = n
    BY <1>4, <1>5
  <2> QED BY <1>1, <1>2, <1>3, <2>1, <2>2 DEF Queued
<1>7. OutputTypeOK'
  <2>1. pump' \in [pc : {"none", "select", "reading", "queueing", "sending", "closing", "done"},
                   rest : Seq(Nat)]
    BY <1>2, <1>4 DEF r
  <2>2. got' \in Nat
    BY <1>1, <1>2, <1>3
  <2> QED BY <1>1, <2>1, <2>2 DEF OutputInv, OutputTypeOK
<1>8. Ordered(carry, queue)' /\ (~cancel => Complete(carry, queue))' /\ BatchFilled'
  BY <1>1, <1>6 DEF OutputInv, Ordered, Complete, Consecutive, End, BatchFilled
<1>9. PumpHolds'
  BY <1>1, <1>4, <1>5, <1>6 DEF PumpHolds
<1>10. DrainSeen'
  BY <1>1 DEF OutputInv, DrainSeen, SenderDropped
<1>11. ChannelServes' /\ ClosedAtEnd'
  BY <1>1, <1>5 DEF OutputInv, ChannelServes, ClosedAtEnd
<1> QED BY <1>7, <1>8, <1>9, <1>10, <1>11 DEF OutputInv

\* The pump sends: a chunk of what it has in hand becomes the last of the queue.
LEMMA PumpSendKeeps ==
    ASSUME OutputInv, PumpSend PROVE OutputInv'
<1>1. /\ UNCHANGED <<got, carry, delivered, drained, poller, opener, view, cancel, channel, remote,
                     life>>
      /\ pump.pc = "sending" /\ got \in Nat /\ pump.rest # <<>> /\ pump.rest \in Seq(Nat)
      /\ queue \in Seq(Seq(Nat)) /\ Queued \in Nat
      /\ \A i \in 1..Len(pump.rest) : pump.rest[i] = Queued + i
  BY DEF PumpSend, entryVars, OutputInv, OutputTypeOK, PumpHolds
<1>2. PICK r : r = pump.rest
  OBVIOUS
<1> DEFINE n == IF Len(r) < Chunk THEN Len(r) ELSE Chunk
           front == SubSeq(r, 1, n)
           back == SubSeq(r, n + 1, Len(r))
<1>3. /\ queue' = Append(queue, front)
      /\ pump' = [pc |-> IF back = <<>> THEN "select" ELSE "queueing", rest |-> back]
  BY <1>2 DEF PumpSend
<1>4. r \in Seq(Nat)
  BY <1>1, <1>2
<1>5. n \in 1..Len(r)
  <2>1. Len(r) \in Nat /\ Len(r) # 0
    BY <1>1, <1>2
  <2> QED BY <2>1, TerminalsAssumption
<1> HIDE DEF n
<1>6. n \in 0..Len(r)
  BY <1>4, <1>5
<1>7. front \in Seq(Nat) /\ Len(front) = n /\ \A i \in 1..n : front[i] = r[i]
  BY <1>4, <1>6, SplitAt
<1>8. /\ back \in Seq(Nat) /\ Len(back) = Len(r) - n
      /\ \A i \in 1..(Len(r) - n) : back[i] = r[n + i]
  BY <1>4, <1>6, SplitAt
<1> HIDE DEF front, back
<1>9. PICK qd \in Nat : qd = Queued
  BY <1>1
<1>10. PICK m \in Nat : m = Len(r)
  BY <1>1, <1>2
<1>11. qd = Queued /\ m = Len(r)
  BY <1>9, <1>10
<1>12. n \in Nat /\ n >= 1 /\ n <= m
  BY <1>5, <1>11
<1>13. pump'.rest = back /\ pump'.pc = (IF back = <<>> THEN "select" ELSE "queueing")
  BY <1>3
<1>14. Queued' = qd + n
  <2>1. Len(pump'.rest) = m - n
    BY <1>8, <1>11, <1>13
  <2>2. qd = got - m
    BY <1>2, <1>11 DEF Queued
  <2>3. Queued' = got - (m - n)
    BY <1>1, <2>1 DEF Queued
  <2>4. got \in Nat
    BY <1>1
  <2> QED BY <1>12, <2>2, <2>3, <2>4
<1>15. \A i \in 1..Len(back) : back[i] = qd + n + i
  <2>1. ASSUME NEW i \in 1..Len(back) PROVE back[i] = qd + n + i
    <3>1. i \in 1..(Len(r) - n)
      BY <1>8
    <3>2. n + i \in 1..m /\ back[i] = r[n + i]
      BY <1>8, <1>11, <1>12, <3>1
    <3>3. r[n + i] = qd + (n + i)
      BY <1>1, <1>2, <1>11, <3>2
    <3> QED BY <1>12, <3>2, <3>3
  <2> QED BY <2>1
<1>16. \A i \in 1..n : front[i] = qd + i
  <2>1. ASSUME NEW i \in 1..n PROVE front[i] = qd + i
    <3>1. i \in 1..m /\ front[i] = r[i]
      BY <1>7, <1>11, <1>12
    <3> QED BY <1>1, <1>2, <1>11, <3>1
  <2> QED BY <2>1
<1>17. /\ front # <<>> /\ front[1] = qd + 1 /\ End(front) = qd + n /\ Consecutive(front)
  <2>1. 1 \in 1..n
    BY <1>12
  <2>2. front[1] = qd + 1
    BY <1>16, <2>1
  <2>3. End(front) = qd + n
    BY <1>7, <1>12, <2>2 DEF End
  <2>4. Consecutive(front)
    <3>1. ASSUME NEW i \in 1..n PROVE front[i] = front[1] + i - 1
      BY <1>12, <1>16, <2>2
    <3> QED BY <1>7, <3>1 DEF Consecutive
  <2>5. front # <<>>
    <3>1. Len(front) # 0
      BY <1>7, <1>12
    <3> QED BY <3>1
  <2> QED BY <2>2, <2>3, <2>4, <2>5
<1>18. PICK l \in Nat : l = Len(queue)
  BY <1>1
<1>19. /\ queue' \in Seq(Seq(Nat)) /\ Len(queue') = l + 1
       /\ queue'[l + 1] = front /\ \A k \in 1..l : queue'[k] = queue[k]
  BY <1>1, <1>3, <1>7, <1>18
<1>20. OutputTypeOK' /\ BatchFilled'
  <2>1. pump' \in [pc : {"none", "select", "reading", "queueing", "sending", "closing", "done"},
                   rest : Seq(Nat)]
    BY <1>3, <1>8
  <2> QED BY <1>1, <1>19, <2>1 DEF OutputInv, OutputTypeOK, BatchFilled
<1>21. PumpHolds'
  <2>1. Queued' \in Nat
    BY <1>12, <1>14
  <2> QED BY <1>13, <1>14, <1>15, <2>1 DEF PumpHolds
<1>22. DrainSeen'
  BY <1>1 DEF OutputInv, DrainSeen, SenderDropped
<1>23. ChannelServes' /\ ClosedAtEnd'
  BY <1>1, <1>13 DEF OutputInv, ChannelServes, ClosedAtEnd
\* What is before the new chunk ends before it.
<1>24. /\ \A i \in 1..Len(delivered) : /\ delivered[i] \in Nat /\ delivered[i] <= qd
                                       /\ carry # <<>> => delivered[i] < carry[1]
                                       /\ \A k \in 1..l : delivered[i] < queue[k][1]
       /\ carry # <<>> => End(carry) <= qd /\ \A k \in 1..l : End(carry) < queue[k][1]
       /\ \A k \in 1..l : queue[k] # <<>> /\ Consecutive(queue[k]) /\ End(queue[k]) <= qd
  <2>1. \A i \in 1..Len(delivered) : delivered[i] \in Nat
    BY DEF OutputInv, OutputTypeOK
  <2>2. Ordered(carry, queue)
    BY DEF OutputInv
  <2> QED BY <1>11, <1>18, <2>1, <2>2 DEF Ordered
<1>25. /\ carry # <<>> => End(carry) \in Int
       /\ \A k \in 1..l : End(queue[k]) \in Int
  <2>1. ASSUME NEW s \in Seq(Nat), s # <<>> PROVE End(s) \in Int
    BY <2>1 DEF End
  <2>2. carry \in Seq(Nat) /\ \A k \in 1..l : queue[k] \in Seq(Nat)
    BY <1>1, <1>18 DEF OutputInv, OutputTypeOK
  <2> QED BY <1>24, <2>1, <2>2
<1>26. \A x \in Int : x <= qd => x < qd + 1 /\ x <= qd + n
  BY <1>12
<1>27. ASSUME NEW k \in 1..(l + 1)
       PROVE  \/ k \in 1..l /\ queue'[k] = queue[k]
              \/ k = l + 1 /\ queue'[k] = front
  BY <1>19
<1>28. Ordered(carry, queue)'
  <2>1. ASSUME NEW i \in 1..Len(delivered)
        PROVE  /\ delivered[i] <= qd + n
               /\ carry # <<>> => delivered[i] < carry[1]
               /\ \A k \in 1..(l + 1) : delivered[i] < queue'[k][1]
    <3>0. /\ delivered[i] \in Nat /\ delivered[i] <= qd
          /\ carry # <<>> => delivered[i] < carry[1]
          /\ \A k \in 1..l : delivered[i] < queue[k][1]
      BY <1>24
    <3>1. PICK d \in Nat : d = delivered[i] /\ d <= qd
      BY <3>0
    <3>2. d < qd + 1 /\ d <= qd + n
      BY <1>26, <3>1
    <3>3. ASSUME NEW k \in 1..(l + 1) PROVE delivered[i] < queue'[k][1]
      <4>1. CASE k \in 1..l /\ queue'[k] = queue[k]
        BY <3>0, <4>1
      <4>2. CASE queue'[k] = front
        BY <1>17, <3>1, <3>2, <4>2
      <4> QED BY <1>27, <4>1, <4>2
    <3> QED BY <3>0, <3>1, <3>2, <3>3
  <2>2. carry # <<>> => End(carry) <= qd + n /\ \A k \in 1..(l + 1) : End(carry) < queue'[k][1]
    BY <1>17, <1>24, <1>25, <1>26, <1>27
  <2>3. ASSUME NEW k \in 1..(l + 1)
        PROVE  queue'[k] # <<>> /\ Consecutive(queue'[k]) /\ End(queue'[k]) <= qd + n
    <3>1. CASE k \in 1..l /\ queue'[k] = queue[k]
      BY <1>24, <1>25, <1>26, <3>1
    <3>2. CASE queue'[k] = front
      BY <1>12, <1>17, <3>2
    <3> QED BY <1>27, <3>1, <3>2
  <2>4. ASSUME NEW j \in 1..(l + 1), NEW k \in 1..(l + 1), j < k
        PROVE  End(queue'[j]) < queue'[k][1]
    <3>1. j \in 1..l /\ queue'[j] = queue[j]
      BY <1>27, <2>4
    <3>2. CASE k \in 1..l /\ queue'[k] = queue[k]
      BY <1>18, <2>4, <3>1, <3>2 DEF OutputInv, Ordered
    <3>3. CASE queue'[k] = front
      BY <1>17, <1>24, <1>25, <1>26, <3>1, <3>3
    <3> QED BY <1>27, <3>2, <3>3
  <2>5. /\ \A i, j \in 1..Len(delivered) : i < j => delivered[i] < delivered[j]
        /\ Consecutive(carry)
    BY DEF OutputInv, Ordered
  <2> QED BY <1>1, <1>14, <1>19, <2>1, <2>2, <2>3, <2>4, <2>5 DEF Ordered, Consecutive, End
<1>29. ASSUME ~cancel PROVE Complete(carry, queue)'
  <2>1. Complete(carry, queue)
    BY <1>29 DEF OutputInv
  <2>2. queue'[1][1] = Len(delivered) + Len(carry) + 1
    <3>1. CASE l = 0
      <4>1. queue = <<>>
        <5>1. queue \in Seq(Seq(Nat)) /\ Len(queue) = 0
          BY <1>1, <1>18, <3>1
        <5> QED BY <5>1
      <4>2. queue'[1] = front
        BY <1>19, <3>1
      <4> QED BY <1>11, <1>17, <2>1, <4>1, <4>2 DEF Complete
    <3>2. CASE l # 0
      <4>1. queue # <<>> /\ queue'[1] = queue[1]
        BY <1>1, <1>18, <1>19, <3>2
      <4> QED BY <2>1, <4>1 DEF Complete
    <3> QED BY <3>1, <3>2
  <2>3. ASSUME NEW j \in 1..(l + 1), NEW k \in 1..(l + 1), k = j + 1
        PROVE  queue'[k][1] = End(queue'[j]) + 1
    <3>1. j \in 1..l /\ queue'[j] = queue[j]
      BY <1>27, <2>3
    <3>2. CASE k \in 1..l /\ queue'[k] = queue[k]
      BY <1>18, <2>1, <2>3, <3>1, <3>2 DEF Complete
    <3>3. CASE k = l + 1 /\ queue'[k] = front
      <4>1. j = l /\ queue # <<>>
        BY <1>18, <2>3, <3>1, <3>3
      <4>2. End(queue[l]) = qd
        BY <1>11, <1>18, <2>1, <4>1 DEF Complete
      <4> QED BY <1>17, <3>1, <3>3, <4>1, <4>2
    <3> QED BY <1>27, <3>2, <3>3
  <2>4. queue' # <<>> /\ End(queue'[Len(queue')]) = qd + n
    BY <1>17, <1>19
  <2>5. /\ \A i \in 1..Len(delivered) : delivered[i] = i
        /\ carry # <<>> => carry[1] = Len(delivered) + 1
    BY <2>1 DEF Complete
  <2> QED BY <1>1, <1>14, <1>19, <2>2, <2>3, <2>4, <2>5 DEF Complete, End
<1> QED BY <1>1, <1>20, <1>21, <1>22, <1>23, <1>28, <1>29 DEF OutputInv

\* Polls: bytes are delivered in their order, and the end of the output is seen when
\* the sender is gone and the queue is empty after that.
LEMMA PollKeepsOutput ==
    ASSUME OutputInv, PollStep PROVE OutputInv'
<1>1. UNCHANGED <<got, pump, opener, view, cancel, channel, remote, life>>
  BY DEF PollStep, PollBegin, PollReceive, PollTaken, PollClosed, PollEmpty, entryVars
<1>2. ChannelServes' /\ ClosedAtEnd'
  BY <1>1 DEF OutputInv, ChannelServes, ClosedAtEnd
<1>3. PumpHolds' /\ Queued' = Queued
  BY <1>1 DEF OutputInv, PumpHolds, Queued
<1>4. /\ got \in Nat /\ delivered \in Seq(Nat) /\ carry \in Seq(Nat) /\ queue \in Seq(Seq(Nat))
      /\ Queued \in Nat /\ Ordered(carry, queue) /\ (~cancel => Complete(carry, queue))
      /\ poller \in [pc : {"idle", "receiving", "took", "closed"}, total : Nat] /\ Batch \in Nat
  BY TerminalsAssumption DEF OutputInv, OutputTypeOK, PumpHolds
\* After append_output_chunk.
<1>5. ASSUME drained' = drained, ~drained, queue' \in Seq(Seq(Nat)),
             delivered' \in Seq(Nat), carry' \in Seq(Nat), Ordered(carry, queue)',
             ~cancel => Complete(carry, queue)',
             poller'.pc = "receiving", poller'.total \in Nat, poller'.total <= Batch,
             poller' = [pc |-> "receiving", total |-> poller'.total],
             poller'.total < Batch => carry' = <<>>
      PROVE  OutputInv'
  <2>1. poller' \in [pc : {"idle", "receiving", "took", "closed"}, total : Nat]
    BY <1>5
  <2>2. OutputTypeOK' /\ BatchFilled' /\ DrainSeen'
    BY <1>1, <1>5, <2>1 DEF OutputInv, OutputTypeOK, BatchFilled, DrainSeen
  <2>3. (~cancel => Complete(carry, queue))'
    BY <1>1, <1>5
  <2> QED BY <1>2, <1>3, <1>5, <2>2, <2>3 DEF OutputInv
<1>6. CASE PollBegin
  <2>1. AppendOutputChunk(carry, 0, <<>>) /\ queue' = queue /\ drained' = drained /\ ~drained
    BY <1>6 DEF PollBegin
  <2>2. 0 \in Nat /\ 0 <= Batch
    BY <1>4
  <2>3. /\ delivered' \in Seq(Nat) /\ carry' \in Seq(Nat)
        /\ Ordered(carry, queue)' /\ (Complete(carry, queue) => Complete(carry, queue)')
        /\ poller'.pc = "receiving" /\ poller'.total \in Nat /\ poller'.total <= Batch
        /\ poller' = [pc |-> "receiving", total |-> poller'.total]
        /\ poller'.total < Batch => carry' = <<>>
    BY <1>1, <1>4, <2>1, <2>2, AppendKeepsOrder
  <2> QED BY <1>4, <1>5, <2>1, <2>3
<1>7. CASE PollReceive
  <2>1. /\ AppendOutputChunk(Head(queue), poller.total, carry) /\ queue' = Tail(queue)
        /\ drained' = drained /\ queue # <<>> /\ poller.pc = "receiving" /\ poller.total < Batch
    BY <1>7 DEF PollReceive
  <2>2. carry = <<>> /\ ~drained /\ poller.total \in Nat /\ poller.total <= Batch
    BY <1>4, <2>1 DEF OutputInv, BatchFilled, DrainSeen
  <2>3. /\ Head(queue) \in Seq(Nat) /\ Tail(queue) \in Seq(Seq(Nat))
        /\ Ordered(Head(queue), Tail(queue))
        /\ ~cancel => Complete(Head(queue), Tail(queue))
    BY <1>4, <2>1, <2>2, ChunkIsNext
  <2>4. AppendOutputChunk(Head(queue), poller.total, <<>>)
    BY <2>1, <2>2
  <2>5. /\ delivered' \in Seq(Nat) /\ carry' \in Seq(Nat)
        /\ Ordered(carry, queue)'
        /\ (Complete(Head(queue), Tail(queue)) => Complete(carry, queue)')
        /\ poller'.pc = "receiving" /\ poller'.total \in Nat /\ poller'.total <= Batch
        /\ poller' = [pc |-> "receiving", total |-> poller'.total]
        /\ poller'.total < Batch => carry' = <<>>
    BY <1>1, <1>4, <2>1, <2>2, <2>3, <2>4, AppendKeepsOrder
  <2> QED BY <1>5, <2>1, <2>2, <2>3, <2>5
\* A poll that is through with the queue.
<1>8. ASSUME UNCHANGED <<queue, carry, delivered>>, NEW pc \in {"idle", "took", "closed"},
             Poller(pc), pc = "closed" => carry = <<>> /\ SenderDropped,
             drained' => drained \/ (carry = <<>> /\ queue = <<>> /\ SenderDropped)
      PROVE  OutputInv'
  <2>1. poller' \in [pc : {"idle", "receiving", "took", "closed"}, total : Nat] /\ poller'.pc = pc
    BY <1>8 DEF Poller
  <2>2. OutputTypeOK' /\ BatchFilled'
    BY <1>1, <1>8, <2>1 DEF OutputInv, OutputTypeOK, BatchFilled
  <2>3. DrainSeen'
    BY <1>1, <1>8, <2>1 DEF OutputInv, DrainSeen, SenderDropped
  <2>4. Ordered(carry, queue)' /\ (~cancel => Complete(carry, queue))'
    BY <1>1, <1>8, OrderStands
  <2> QED BY <1>2, <1>3, <2>2, <2>3, <2>4 DEF OutputInv
<1>9. CASE PollTaken
  <2>1. UNCHANGED <<queue, carry, delivered, drained>> /\ Poller("took")
    BY <1>9 DEF PollTaken, outputVars
  <2> QED BY <1>8, <2>1
<1>10. CASE PollClosed
  <2>1. /\ UNCHANGED <<queue, carry, delivered, drained>>
        /\ \/ Poller("closed") /\ carry = <<>> /\ SenderDropped
           \/ Poller("idle")
    BY <1>10 DEF PollClosed, DrainCheck, outputVars
  <2> QED BY <1>8, <2>1
<1>11. CASE PollEmpty
  <2>1. /\ UNCHANGED <<queue, carry, delivered>> /\ Poller("idle") /\ poller.pc = "closed"
        /\ drained' => queue = <<>>
    BY <1>11 DEF PollEmpty, DrainCheck
  <2>2. carry = <<>> /\ SenderDropped
    BY <2>1 DEF OutputInv, DrainSeen
  <2> QED BY <1>8, <2>1, <2>2
<1> QED BY <1>6, <1>7, <1>9, <1>10, <1>11 DEF PollStep

\* close_entry throws the queue and the carry-over away; it has cancelled before.
LEMMA DrainKeepsOutput ==
    ASSUME OutputInv, cancel, NEW final, CloseDrain(final),
           UNCHANGED <<got, pump, opener, cancel, remote, delivered, drained, poller>>,
           life'.pc \in {"marked", "taken"} => cancel
    PROVE  OutputInv'
<1>1. queue' = <<>> /\ carry' = <<>>
  BY DEF CloseDrain
<1>2. OutputTypeOK' /\ BatchFilled'
  BY <1>1 DEF OutputInv, OutputTypeOK, BatchFilled
<1>3. Queued' = Queued
  BY DEF Queued
<1>4. PumpHolds' /\ DrainSeen' /\ ChannelServes' /\ ClosedAtEnd'
  BY <1>1, <1>3 DEF OutputInv, PumpHolds, DrainSeen, SenderDropped, ChannelServes, ClosedAtEnd
<1>5. Ordered(carry, queue)'
  BY <1>1, <1>3 DEF OutputInv, Ordered, Consecutive
<1> QED BY <1>2, <1>4, <1>5 DEF OutputInv

\* close_terminal.
LEMMA CloseKeepsOutput ==
    ASSUME ChannelInv, OutputInv, CloseBegin \/ CloseStep PROVE OutputInv'
<1>0. remote \in RemoteType
  BY DEF OutputInv, OutputTypeOK
<1>1. UNCHANGED <<got, pump, opener, remote, delivered, drained, poller, life>>
  BY DEF CloseBegin, CloseStep, CloserSteps, outputVars
<1>2. CASE CloseBegin
  <2>1. cancel' = TRUE /\ UNCHANGED <<queue, carry>>
    BY <1>2 DEF CloseBegin, CloseMark, outputVars
  <2>2. ChannelServes' /\ ClosedAtEnd'
    BY <1>1, <2>1 DEF OutputInv, ChannelServes, ClosedAtEnd
  <2> QED BY <1>0, <1>1, <2>1, <2>2, OthersKeepOutput
<1>3. CASE CloseStep
  <2>1. cancel /\ cancel' = cancel
    BY <1>3 DEF CloseStep, CloserSteps, ChannelInv, CloserCancels
  <2>2. ChannelServes' /\ ClosedAtEnd'
    BY <1>1, <2>1 DEF OutputInv, ChannelServes, ClosedAtEnd
  <2>3. CASE UNCHANGED <<queue, carry>>
    BY <1>0, <1>1, <2>1, <2>2, <2>3, OthersKeepOutput
  <2>4. CASE CloseDrain("Closed")
    BY <1>1, <2>1, <2>4, DrainKeepsOutput
  <2> QED BY <1>3, <2>3, <2>4 DEF CloseStep, CloserSteps, outputVars
<1> QED BY <1>2, <1>3

\* Connections and the life cycle.
LEMMA LifeKeepsOutput ==
    ASSUME ChannelInv, OutputInv,
           \/ Connect \/ TransportLost \/ DisconnectBegin \/ SessionClosed \/ RemoveHostBegin
           \/ ShutdownBegin \/ LifeStep
    PROVE  OutputInv'
<1>0. /\ remote \in RemoteType
      /\ opener \in OpenerType /\ life \in LifeType
      /\ life.next \notin {"marked", "taken"}
  BY DEF OutputInv, OutputTypeOK, ChannelInv, TerminalsTypeOK, LifeType
<1>1. UNCHANGED <<got, pump, remote, delivered, drained, poller>>
  BY DEF Connect, TransportLost, DisconnectBegin, SessionClosed, RemoveHostBegin, ShutdownBegin,
         LifeStep, LifeSnapshot, LifeAborts, LifeMark, LifeTake, LifeDrain, LifeDrop, LifeRetain,
         outputVars
<1>2. ASSUME UNCHANGED <<queue, carry, opener>>, cancel => cancel',
             cancel' \/ UNCHANGED <<view, channel>>, life'.pc \in {"marked", "taken"} => cancel'
      PROVE  OutputInv'
  <2>1. ChannelServes' /\ ClosedAtEnd'
    BY <1>1, <1>2 DEF OutputInv, ChannelServes, ClosedAtEnd
  <2> QED BY <1>0, <1>1, <1>2, <2>1, OthersKeepOutput
<1>3. ASSUME NEW pc, Life(pc) PROVE life'.pc = pc
  BY <1>0, <1>3 DEF Life, NoLife, LifeType
<1>4. CASE Connect \/ TransportLost
  <2>1. UNCHANGED <<queue, carry, opener, cancel, view, channel, life>>
    BY <1>4 DEF Connect, TransportLost, outputVars, entryVars
  <2> QED BY <1>2, <2>1 DEF OutputInv, ChannelServes
<1>5. CASE DisconnectBegin \/ SessionClosed \/ RemoveHostBegin
  <2>1. UNCHANGED <<queue, carry, opener, cancel, view, channel>> /\ life'.pc = "snapshot"
    BY <1>5 DEF DisconnectBegin, SessionClosed, RemoveHostBegin, LifeBegins, outputVars, entryVars
  <2> QED BY <1>2, <2>1
<1>6. CASE ShutdownBegin
  <2>1. /\ UNCHANGED <<queue, carry, cancel, view, channel>> /\ life'.pc = "snapshot"
        /\ opener'.pc = "ended"
    BY <1>0, <1>6 DEF ShutdownBegin, LifeBegins, outputVars, entryVars, OpenerType
  <2>2. ChannelServes' /\ ClosedAtEnd'
    BY <1>1, <2>1 DEF OutputInv, ChannelServes, ClosedAtEnd
  <2> QED BY <1>0, <1>1, <2>1, <2>2, OthersKeepOutput
<1>7. CASE LifeSnapshot \/ LifeAborts \/ LifeDrop \/ LifeRetain
  <2>1. UNCHANGED <<queue, carry, opener, cancel, view, channel>>
    BY <1>7 DEF LifeSnapshot, LifeAborts, LifeDrop, LifeRetain, outputVars, entryVars
  <2>2. life'.pc \in {"found", "idle", "exited", life.next}
    BY <1>3, <1>7 DEF LifeSnapshot, LifeAborts, LifeDrop, LifeRetain
  <2> QED BY <1>0, <1>2, <2>1, <2>2
<1>8. CASE LifeMark
  <2>1. /\ UNCHANGED <<queue, carry, opener, channel>>
        /\ \/ Life(life.next) /\ UNCHANGED <<view, cancel>>
           \/ cancel' = TRUE
    BY <1>8 DEF LifeMark, CloseMark, outputVars
  <2> QED BY <1>0, <1>2, <1>3, <2>1
<1>9. CASE LifeTake
  <2>1. UNCHANGED <<queue, carry, opener, cancel>> /\ cancel
    BY <1>9 DEF LifeTake, outputVars, OutputInv, ChannelServes
  <2> QED BY <1>2, <2>1
<1>10. CASE LifeDrain
  <2>1. UNCHANGED <<opener, cancel>> /\ cancel /\ CloseDrain(life.final)
    BY <1>10 DEF LifeDrain, OutputInv, ChannelServes
  <2> QED BY <1>1, <2>1, DrainKeepsOutput
<1> QED BY <1>4, <1>5, <1>6, <1>7, <1>8, <1>9, <1>10 DEF LifeStep

\* Every step keeps the invariant of the output.
LEMMA OutputNextInv ==
    ASSUME ChannelInv, OutputInv, [TerminalsNext]_terminalVars PROVE OutputInv'
<1>1. CASE UNCHANGED terminalVars
  <2>1. /\ UNCHANGED <<got, pump, queue, carry, delivered, drained, poller, opener, cancel, remote,
                       view, channel, life>>
    BY <1>1 DEF terminalVars
  <2>2. ChannelServes' /\ ClosedAtEnd'
    BY <2>1 DEF OutputInv, ChannelServes, ClosedAtEnd
  <2>3. remote \in RemoteType
    BY DEF OutputInv, OutputTypeOK
  <2> QED BY <2>1, <2>2, <2>3, OthersKeepOutput
<1>2. CASE OpenCapture \/ OpenRefused \/ OpenStep \/ OpenDropped
  BY <1>2, OpenKeepsOutput
<1>3. CASE RemoteSends \/ RemoteEnds
  BY <1>3, RemoteKeepsOutput
<1>4. CASE PumpStep
  BY <1>4, PumpWaitsKeeps, PumpDataKeeps, PumpSendKeeps DEF PumpStep
<1>5. CASE PollStep
  BY <1>5, PollKeepsOutput
<1>6. CASE CloseBegin \/ CloseStep
  BY <1>6, CloseKeepsOutput
<1>7. CASE \/ Connect \/ TransportLost \/ DisconnectBegin \/ SessionClosed \/ RemoveHostBegin
           \/ ShutdownBegin \/ LifeStep
  BY <1>7, LifeKeepsOutput
<1> QED BY <1>1, <1>2, <1>3, <1>4, <1>5, <1>6, <1>7 DEF TerminalsNext

\* Both invariants hold throughout.
LEMMA OutputInvHolds == TerminalsSpec => [](ChannelInv /\ OutputInv)
<1>1. TerminalsInit => ChannelInv /\ OutputInv
  BY ChannelInitInv, OutputInitInv
<1>2. ChannelInv /\ OutputInv /\ [TerminalsNext]_terminalVars => (ChannelInv /\ OutputInv)'
  BY ChannelNextInv, OutputNextInv
<1> QED BY <1>1, <1>2, PTL DEF TerminalsSpec

\* Polls return what the remote host sent in its order, nothing twice and, until the
\* entry is cancelled, without a gap: whatever the sizes of messages, chunks, batches
\* and the queue are, and wherever the pump goes on while a poll is receiving.
THEOREM OutputAlwaysInOrder == TerminalsSpec => []OutputInOrder
<1>1. OutputInv => OutputInOrder
  <2>1. ASSUME OutputInv, NEW i \in DOMAIN delivered
        PROVE  /\ i > 1 => delivered[i - 1] < delivered[i]
               /\ ~cancel => delivered[i] = i
    <3>1. delivered \in Seq(Nat) /\ i \in 1..Len(delivered)
      BY <2>1 DEF OutputInv, OutputTypeOK
    <3>2. i > 1 => i - 1 \in 1..Len(delivered) /\ i - 1 < i
      BY <3>1
    <3> QED BY <2>1, <3>1, <3>2 DEF OutputInv, Ordered, Complete
  <2> QED BY <2>1 DEF OutputInOrder
<1> QED BY <1>1, OutputInvHolds, PTL

\* output_drained of a terminal that nobody has cancelled means that every byte the
\* pump has read was returned, and, if the shell ended by itself, every byte it sent
\* before the message that ended the reading: all of them after EOF or close, whereas
\* what follows an exit status is never read.
THEOREM DrainedAlwaysComplete == TerminalsSpec => []DrainedIsComplete
<1>1. OutputInv => DrainedIsComplete
  <2>1. ASSUME OutputInv, drained, ~cancel
        PROVE  /\ Len(delivered) = got
               /\ view = "Closed" => /\ remote.end \in {"Exit", "Closed"} /\ got = remote.at
                                     /\ remote.end = "Closed" => got = remote.sent
    <3>1. carry = <<>> /\ queue = <<>> /\ SenderDropped
      BY <2>1 DEF OutputInv, DrainSeen
    <3>2. pump.rest = <<>>
      BY <2>1, <3>1 DEF OutputInv, PumpHolds, SenderDropped
    <3>3. Len(delivered) + Len(carry) = Queued
      BY <2>1, <3>1 DEF OutputInv, Complete
    <3>4. Len(delivered) \in Nat /\ got \in Nat /\ Len(carry) = 0 /\ Len(pump.rest) = 0
      BY <2>1, <3>1, <3>2 DEF OutputInv, OutputTypeOK
    <3>5. Len(delivered) = got
      BY <3>3, <3>4 DEF Queued
    <3> QED BY <2>1, <3>5 DEF OutputInv, ClosedAtEnd
  <2> QED BY <2>1 DEF DrainedIsComplete
<1> QED BY <1>1, OutputInvHolds, PTL
==============================================================================
