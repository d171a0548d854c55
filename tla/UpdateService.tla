---------------------------- MODULE UpdateService ----------------------------
(***************************************************************************)
(* UpdateService (apps/desktop, updates.rs) and its download task          *)
(* (update_download.rs): check, download, verify, hand out the installer,  *)
(* shut down.  Every method is a critical section of `inner`; check and    *)
(* download are two sections with an await between them.                   *)
(*                                                                         *)
(* A check makes at most one announcement and a download at most one       *)
(* artifact, so announcement and artifact ids are named by the generation. *)
(* A release is named by its version.  `signed` is what the announced      *)
(* signature vouches for: a release with a version in its trusted comment, *)
(* or "unnamed", a genuine artifact whose comment names none.              *)
(***************************************************************************)
EXTENDS Naturals, Sequences, FiniteSets

CONSTANTS
    Calls,             \* concurrent command invocations
    Versions,          \* release versions
    InstallSupported,  \* installation_supported()
    ArtifactLimit,     \* MAX_ARTIFACT_BYTES, in chunks
    MaxGeneration      \* bound on the generations explored

ASSUME UpdateAssumption ==
    /\ InstallSupported \in BOOLEAN
    /\ ArtifactLimit \in Nat
    /\ MaxGeneration \in Nat
    /\ {"unnamed", "corrupt", "none"} \cap Versions = {}

VARIABLES
    generation,    \* Inner::generation
    shuttingDown,  \* Inner::shutting_down
    ustate,        \* Inner::state
    ucall,         \* the update call an invocation is in, and its generation
    task,          \* the download task and its TaskCompletion
    closer,        \* the running UpdateService::shutdown
    closed,        \* some shutdown has returned Ok
    handed         \* the InstallAuthorities handed out, in order

uvars == <<generation, shuttingDown, ustate, ucall, task, closer, closed, handed>>

Announcement == [version: Versions, signed: Versions \cup {"unnamed"}, installer: BOOLEAN]
Artifact == Versions \cup {"unnamed", "corrupt"}
NoAnnouncement == [version |-> "none", signed |-> "none", installer |-> FALSE]

Idle == [tag |-> "Idle", gen |-> 0, ann |-> NoAnnouncement, bytes |-> "none"]
NoCall == [op |-> "none", gen |-> 0]
NoTask == [st |-> "none", ann |-> NoAnnouncement, aborted |-> FALSE, received |-> 0,
           result |-> "none"]
NotClosing == [pc |-> "idle", notified |-> FALSE]

UpdateInit ==
    /\ generation = 0
    /\ shuttingDown = FALSE
    /\ ustate = Idle
    /\ ucall = [c \in Calls |-> NoCall]
    /\ task = NoTask
    /\ closer = NotClosing
    /\ closed = FALSE
    /\ handed = <<>>

-----------------------------------------------------------------------------
(***************************************************************************)
(* check                                                                   *)
(***************************************************************************)
Return(c) == ucall' = [ucall EXCEPT ![c] = NoCall]

\* Fault variant of MayCheck: the shutdown flag is not asked.
MayCheckWhileClosing == ustate.tag \notin {"Checking", "Downloading", "Installing"}

MayCheck == ~shuttingDown /\ ustate.tag \notin {"Checking", "Downloading", "Installing"}

BeginCheck(c) ==
    /\ ucall[c] = NoCall
    /\ MayCheck
    /\ generation < MaxGeneration
    /\ generation' = generation + 1
    /\ ustate' = [Idle EXCEPT !.tag = "Checking", !.gen = generation + 1]
    /\ ucall' = [ucall EXCEPT ![c] = [op |-> "check", gen |-> generation + 1]]
    /\ UNCHANGED <<shuttingDown, task, closer, closed, handed>>

StillChecking(c) == ustate.tag = "Checking" /\ ustate.gen = ucall[c].gen

\* finish_announced: the result of a check that is no longer awaited is dropped.
FinishAnnounced(c, ann) ==
    /\ ucall[c].op = "check"
    /\ ustate' = IF ~shuttingDown /\ StillChecking(c)
                 THEN [Idle EXCEPT !.tag = "Announced", !.gen = ucall[c].gen, !.ann = ann]
                 ELSE ustate
    /\ Return(c)
    /\ UNCHANGED <<generation, shuttingDown, task, closer, closed, handed>>

FinishUpToDate(c) ==
    /\ ucall[c].op = "check"
    /\ ustate' = IF ~shuttingDown /\ StillChecking(c) THEN Idle ELSE ustate
    /\ Return(c)
    /\ UNCHANGED <<generation, shuttingDown, task, closer, closed, handed>>

\* Fault variant of FailActive: a failed check leaves the state to its successor.
FailActiveKeepsState(c) ==
    /\ ucall[c].op = "check"
    /\ Return(c)
    /\ UNCHANGED <<generation, shuttingDown, ustate, task, closer, closed, handed>>

\* Also an announcement PendingAnnouncement::new rejects ends here.
FailActive(c) ==
    /\ ucall[c].op = "check"
    /\ ustate' = IF StillChecking(c) THEN Idle ELSE ustate
    /\ Return(c)
    /\ UNCHANGED <<generation, shuttingDown, task, closer, closed, handed>>

-----------------------------------------------------------------------------
(***************************************************************************)
(* download: begin_download spawns the task, the call awaits its result    *)
(***************************************************************************)
BeginDownload(c, id) ==
    /\ ucall[c] = NoCall
    /\ ~shuttingDown
    /\ ustate.tag = "Announced" /\ ustate.gen = id
    /\ ustate' = [ustate EXCEPT !.tag = "Downloading"]
    /\ task' = [NoTask EXCEPT !.st = "running", !.ann = ustate.ann]
    /\ ucall' = [ucall EXCEPT ![c] = [op |-> "download", gen |-> id]]
    /\ UNCHANGED <<generation, shuttingDown, closer, closed, handed>>

\* The task's future ends: the guard stores `done` ...
TaskEnds(r) ==
    /\ task' = [task EXCEPT !.st = "dropping", !.result = r]
    /\ UNCHANGED <<generation, shuttingDown, ustate, ucall, closer, closed, handed>>

\* ... and only then notifies whoever has subscribed by now.
TaskNotifies ==
    /\ task.st = "dropping"
    /\ task' = [task EXCEPT !.st = "ended"]
    /\ closer' = [closer EXCEPT !.notified = closer.pc \in {"subscribed", "parked"}]
    /\ UNCHANGED <<generation, shuttingDown, ustate, ucall, closed, handed>>

Done == task.st \in {"dropping", "ended"}

\* accept: a chunk that would exceed the limit ends the download.
ReceiveChunk ==
    /\ task.st = "running"
    /\ \/ /\ task.received < ArtifactLimit
          /\ task' = [task EXCEPT !.received = @ + 1]
          /\ UNCHANGED <<generation, shuttingDown, ustate, ucall, closer, closed, handed>>
       \/ task.received = ArtifactLimit /\ TaskEnds("ResourceLimit")

\* The request, its status, a redirect, the stream or the total timeout fails,
\* or the declared length is over the limit.
DownloadFails ==
    /\ task.st = "running"
    /\ \/ \E r \in {"Download", "Timeout"} : TaskEnds(r)
       \/ task.received = 0 /\ TaskEnds("ResourceLimit")

\* abort() takes effect where the task awaits.
TaskAborted == task.st = "running" /\ task.aborted /\ TaskEnds("Cancelled")

StartVerifying ==
    /\ task.st = "running"
    /\ task' = [task EXCEPT !.st = "verifying"]
    /\ UNCHANGED <<generation, shuttingDown, ustate, ucall, closer, closed, handed>>

\* Fault variant of Genuine: the version in the trusted comment is not compared.
GenuineAnyVersion(ann, bytes) == bytes = ann.signed

\* The signature fits the bytes, and the version it names is the announced one.
Genuine(ann, bytes) == bytes = ann.signed /\ ann.signed = ann.version

\* collector.finish and verify_signed_version, on whatever the server sent.
FinishVerifying(bytes) ==
    /\ task.st = "verifying"
    /\ TaskEnds(IF Genuine(task.ann, bytes) THEN bytes ELSE "Verification")

Failure == {"Download", "Verification", "ResourceLimit", "Timeout", "Cancelled"}

FinishDownload(c) ==
    /\ ucall[c].op = "download"
    /\ task.st = "ended"
    /\ ustate' =
        IF shuttingDown \/ ustate.tag # "Downloading" \/ ustate.gen # ucall[c].gen THEN ustate
        ELSE IF task.result \in Failure \/ (InstallSupported /\ ~ustate.ann.installer) THEN Idle
        ELSE [ustate EXCEPT !.tag = "Verified", !.bytes = task.result]
    /\ Return(c)
    /\ UNCHANGED <<generation, shuttingDown, task, closer, closed, handed>>

-----------------------------------------------------------------------------
(***************************************************************************)
(* validate_install and consume_install                                    *)
(***************************************************************************)
ValidInstall(id) ==
    /\ InstallSupported
    /\ ustate.tag = "Verified" /\ ustate.gen = id
    /\ ustate.ann.installer

Installing == [Idle EXCEPT !.tag = "Installing", !.gen = ustate.gen]

\* An artifact whose installer identity fails is dropped, and nothing handed out.
ConsumeInstall(id) ==
    /\ InstallSupported /\ ustate.tag = "Verified" /\ ustate.gen = id
    /\ ustate' = IF ustate.ann.installer THEN Installing ELSE Idle
    /\ handed' = IF ustate.ann.installer
                 THEN Append(handed, [gen |-> ustate.gen, ann |-> ustate.ann,
                                      bytes |-> ustate.bytes])
                 ELSE handed
    /\ UNCHANGED <<generation, shuttingDown, ucall, task, closer, closed>>

-----------------------------------------------------------------------------
(***************************************************************************)
(* shutdown, which waits for the task it aborts (TaskCompletion::wait)     *)
(***************************************************************************)
CloserAt(p) == closer' = [closer EXCEPT !.pc = p]

ShutdownBegin ==
    /\ closer.pc = "idle"
    /\ shuttingDown' = TRUE
    /\ IF ustate.tag = "Downloading"
       THEN /\ task' = [task EXCEPT !.aborted = TRUE]
            /\ closer' = [pc |-> "first", notified |-> FALSE]
            /\ UNCHANGED <<ustate, closed>>
       ELSE ustate' = Idle /\ closed' = TRUE /\ UNCHANGED <<task, closer>>
    /\ UNCHANGED <<generation, ucall, handed>>

\* Fault variant of WaitSubscribe: `done` is not asked again after subscribing.
WaitSubscribeOnly ==
    /\ \/ closer.pc = "first" /\ CloserAt(IF Done THEN "leaving" ELSE "subscribing")
       \/ closer.pc = "subscribing" /\ CloserAt("subscribed")
       \/ closer.pc = "subscribed" /\ CloserAt("parked")
    /\ UNCHANGED <<generation, shuttingDown, ustate, ucall, task, closed, handed>>

\* `done` is asked, the Notified created, `done` asked again.
WaitSubscribe ==
    /\ \/ closer.pc = "first" /\ CloserAt(IF Done THEN "leaving" ELSE "subscribing")
       \/ closer.pc = "subscribing" /\ CloserAt("subscribed")
       \/ closer.pc = "subscribed" /\ CloserAt(IF Done THEN "leaving" ELSE "parked")
    /\ UNCHANGED <<generation, shuttingDown, ustate, ucall, task, closed, handed>>

WaitWoken ==
    /\ closer.pc = "parked" /\ closer.notified
    /\ CloserAt("leaving")
    /\ UNCHANGED <<generation, shuttingDown, ustate, ucall, task, closed, handed>>

\* SHUTDOWN_TIMEOUT: the state stays Downloading for a later attempt.
WaitTimeout ==
    /\ closer.pc = "parked" /\ ~closer.notified
    /\ closer' = NotClosing
    /\ UNCHANGED <<generation, shuttingDown, ustate, ucall, task, closed, handed>>

ShutdownFinish ==
    /\ closer.pc = "leaving"
    /\ ustate' = Idle
    /\ closed' = TRUE
    /\ closer' = NotClosing
    /\ UNCHANGED <<generation, shuttingDown, ucall, task, handed>>

-----------------------------------------------------------------------------
Generations == 1..MaxGeneration

BeginUpdate(c) == BeginCheck(c) \/ \E id \in Generations : BeginDownload(c, id)

FinishUpdate(c) ==
    \/ \E ann \in Announcement : FinishAnnounced(c, ann)
    \/ FinishUpToDate(c)
    \/ FailActive(c)
    \/ FinishDownload(c)

TaskStep ==
    \/ ReceiveChunk
    \/ DownloadFails
    \/ TaskAborted
    \/ StartVerifying
    \/ \E bytes \in Artifact : FinishVerifying(bytes)
    \/ TaskNotifies

ShutdownStep == WaitSubscribe \/ WaitWoken \/ WaitTimeout \/ ShutdownFinish

UpdateNext ==
    \/ \E c \in Calls : BeginUpdate(c) \/ FinishUpdate(c)
    \/ \E id \in Generations : ConsumeInstall(id)
    \/ TaskStep
    \/ ShutdownBegin
    \/ ShutdownStep

\* Network waits are under CHECK_TIMEOUT and DOWNLOAD_TIMEOUT, the wait of
\* shutdown is under SHUTDOWN_TIMEOUT, and the runtime polls every task.
UpdateSpec ==
    /\ UpdateInit /\ [][UpdateNext]_uvars
    /\ WF_uvars(TaskStep)
    /\ WF_uvars(ShutdownStep)
    /\ \A c \in Calls : WF_uvars(FinishUpdate(c))

-----------------------------------------------------------------------------

\* What an installer is handed is the artifact of the announced version, also
\* when the release server mixes up versions, artifacts and signatures between
\* check and download, and no artifact is handed out twice.
InstallsAnnouncedVersion ==
    \A i \in DOMAIN handed :
        /\ handed[i].bytes = handed[i].ann.version
        /\ \A j \in DOMAIN handed : handed[i].gen = handed[j].gen => i = j

\* Once a shutdown has returned Ok the service is idle for good and no download
\* runs, whatever check or download was in flight.
ClosedForGood ==
    closed => ustate = Idle /\ task.st \notin {"running", "verifying"}

\* The wait of shutdown never sleeps through the end of the task it waits for.
CloserIsWoken == closer.pc = "parked" /\ ~closer.notified => task.st # "ended"

\* A check or download that fails, times out or is aborted does not leave the
\* service busy: until shutdown it always becomes usable again.
NotBusyForEver ==
    ustate.tag \in {"Checking", "Downloading"} ~>
        (ustate.tag \notin {"Checking", "Downloading"} \/ shuttingDown)
=============================================================================
