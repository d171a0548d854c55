---------------------------- MODULE ProcessProofs ----------------------------
(***************************************************************************)
(* Proofs about the update service on its own (UpdateService) and about    *)
(* the desktop process that admits its callers, drains them and tears      *)
(* everything down (ProcessLifecycle).  Every step of the process is, seen *)
(* from the update service, a step of its own or none, so what is proved   *)
(* of the service holds in the process too.                                *)
(***************************************************************************)
EXTENDS ProcessLifecycle, FiniteSetTheorems, TLAPS

-----------------------------------------------------------------------------
\* The states of the update service.
Tags == {"Idle", "Checking", "Announced", "Downloading", "Verified", "Installing"}

\* What a check may have announced, if it has.
Announcements == Announcement \cup {NoAnnouncement}

\* What the service may keep of a download, and how one may end.
Bytes == Artifact \cup Failure \cup {"none"}

\* The types of the update service.
UpdateStates == [tag : Tags, gen : Nat, ann : Announcements, bytes : Bytes]
UpdateCalls == [op : {"none", "check", "download"}, gen : Nat]
Tasks ==
    [st : {"none", "running", "verifying", "dropping", "ended"}, ann : Announcements,
     aborted : BOOLEAN, received : Nat, result : Bytes]
Closers ==
    [pc : {"idle", "first", "subscribing", "subscribed", "parked", "leaving"},
     notified : BOOLEAN]

UpdateTypeOK ==
    /\ generation \in Nat
    /\ shuttingDown \in BOOLEAN /\ closed \in BOOLEAN
    /\ ustate \in UpdateStates
    /\ ucall \in [Calls -> UpdateCalls]
    /\ task \in Tasks
    /\ closer \in Closers

\* A task that works does so for the download on the state, and one that has ended
\* without a failure has the announced artifact.
TaskServes ==
    /\ task.st \in {"running", "verifying"} => ustate.tag = "Downloading"
    /\ ustate.tag = "Downloading" => task.st # "none" /\ task.ann = ustate.ann
    /\ Done => task.result \in Failure \/ task.result = task.ann.version

\* What is announced, downloaded, verified or installed is named by a generation.
Named == ustate.tag # "Idle" => ustate.gen \in Generations

\* A verified artifact is the announced version's.
VerifiedIsAnnounced == ustate.tag = "Verified" => ustate.bytes = ustate.ann.version

\* Only one artifact is ever handed out: the service stays Installing until it is
\* shut down.
HandedOnce ==
    \/ handed = <<>>
    \/ /\ handed = <<handed[1]>> /\ handed[1].bytes = handed[1].ann.version
       /\ ustate.tag = "Installing" \/ (shuttingDown /\ ustate.tag = "Idle")

\* What a shutdown leaves, and what it waits for.
ShutdownHolds ==
    /\ shuttingDown => ustate = Idle \/ ustate.tag = "Downloading"
    /\ closer.pc # "idle" => shuttingDown
    /\ closer.pc = "leaving" => Done
    /\ closer.notified => task.st = "ended" /\ shuttingDown
    /\ closed => /\ shuttingDown /\ ustate = Idle
                 /\ task.st \notin {"running", "verifying"}

\* The invariant of the update service.
UpdateInv ==
    /\ UpdateTypeOK
    /\ TaskServes
    /\ Named
    /\ VerifiedIsAnnounced
    /\ HandedOnce
    /\ ShutdownHolds
    /\ CloserIsWoken

-----------------------------------------------------------------------------
\* Stages of an installation: until it fails, and once its drain is through.
InstallStages == {"draining", "drained", "application", "grants", "log", "invoking"}

\* The stages of the exit attempt once its drain is through.
ExitStages == {"updates", "application", "grants", "log", "completing"}

\* The types of the process.
ProcessTypeOK ==
    /\ phase \in {"Running", "Exclusive", "Sealed", "Quiesced"}
    /\ active \in Nat
    /\ cmd \in [Calls -> [st : {"out", "in", "served", "validated", "installing", "failed"},
                          id : Nat]]
    /\ waiter \in [{"exit", "install"} ->
                     {"none", "looping", "subscribed", "notified", "parked"}]
    /\ install \in [call : SUBSET Calls, stage : InstallStages \cup {"none", "failed"}]
    /\ exit \in [running : BOOLEAN, complete : BOOLEAN,
                 stage : ExitStages \cup {"none", "sealing", "draining", "closing"}]

\* The count is the number of permits held, so that it never underflows.
Counted == IsFiniteSet(Holders) /\ active = Cardinality(Holders)

\* Update work is done under a permit.
Serving == \A c \in Calls : ucall[c] # NoCall => cmd[c].st = "served"

\* Whatever the update service is busy with, a call waits for it.
Awaited ==
    /\ ustate.tag = "Checking" =>
          \E c \in Calls : ucall[c] = [op |-> "check", gen |-> ustate.gen]
    /\ ustate.tag = "Downloading" =>
          \E c \in Calls : ucall[c] = [op |-> "download", gen |-> ustate.gen]
    /\ task.st \in {"running", "verifying", "dropping"} =>
          \E c \in Calls : ucall[c].op = "download"

\* The process shuts the update service down only once it is not busy.
ClosedIsIdle == shuttingDown => ustate = Idle

\* The installing call keeps its permit until it returns, and owns the process.
InstallOwns ==
    /\ install.stage = "none" => install = NoInstall
    /\ install.stage # "none" =>
          /\ phase = "Exclusive"
          /\ \E c \in Calls :
                /\ install.call = {c}
                /\ cmd[c].st = IF install.stage = "failed" THEN "failed" ELSE "installing"
    /\ install.stage \in InstallStages \ {"draining"} => Holders = install.call

\* A drain runs only once admission is sealed.
DrainsSealed ==
    /\ \A w \in {"exit", "install"} : waiter[w] # "none" => phase # "Running"
    /\ waiter["install"] # "none" => install.stage = "draining"

\* Nobody is admitted to a process that has quiesced or is torn down.
TornDownAlone ==
    /\ phase = "Quiesced" => Holders = {}
    /\ exit.stage \in ExitStages => phase = "Quiesced"
    /\ cleaned # {} => phase # "Running" /\ Holders \subseteq install.call

\* The invariant of the process.
ProcessInv ==
    /\ UpdateInv
    /\ ProcessTypeOK
    /\ Counted
    /\ Serving
    /\ Awaited
    /\ ClosedIsIdle
    /\ InstallOwns
    /\ DrainsSealed
    /\ TornDownAlone
    /\ DrainsAreWoken

-----------------------------------------------------------------------------
\* The values at rest are typed.
LEMMA RestTyped ==
    /\ Idle \in UpdateStates /\ NoCall \in UpdateCalls
    /\ NoTask \in Tasks /\ NotClosing \in Closers
<1>1. NoAnnouncement \in Announcements /\ "none" \in Bytes
  BY DEF Announcements, Bytes
<1> QED BY <1>1
           DEF UpdateStates, UpdateCalls, Tasks, Closers, Idle, NoCall, NoTask, NotClosing, Tags

\* A failure and an artifact are kept as bytes.
LEMMA BytesTyped ==
    Failure \subseteq Bytes /\ Versions \subseteq Bytes
BY DEF Bytes, Artifact

\* The update service starts in its invariant.
LEMMA UpdateInitInv ==
    ASSUME UpdateInit PROVE UpdateInv
<1>1. UpdateTypeOK
  BY RestTyped DEF UpdateInit, UpdateTypeOK
<1>2. TaskServes /\ Named /\ VerifiedIsAnnounced /\ HandedOnce /\ ShutdownHolds /\ CloserIsWoken
  BY DEF UpdateInit, TaskServes, Named, VerifiedIsAnnounced, HandedOnce, ShutdownHolds,
         CloserIsWoken, Idle, NoTask, NotClosing, Done
<1> QED BY <1>1, <1>2 DEF UpdateInv

\* Stuttering keeps the invariant of the update service.
LEMMA UpdateStutterInv ==
    ASSUME UpdateInv, UNCHANGED uvars PROVE UpdateInv'
BY DEF UpdateInv, UpdateTypeOK, TaskServes, Named, VerifiedIsAnnounced, HandedOnce, ShutdownHolds,
       CloserIsWoken, uvars, Done

\* begin_check: a new generation, with nothing kept of the one before.
LEMMA BeginCheckInv ==
    ASSUME UpdateInv, NEW c \in Calls, BeginCheck(c) PROVE UpdateInv'
<1> USE DEF UpdateInv
<1>1. UpdateTypeOK'
  <2>1. generation' \in Nat /\ shuttingDown' \in BOOLEAN /\ closed' \in BOOLEAN
    BY DEF UpdateTypeOK, BeginCheck, MayCheck, NoCall
  <2>2. ustate' \in UpdateStates
    <3>1. PICK g \in Nat : g = generation + 1
      BY DEF UpdateTypeOK
    <3>2. ustate' = [Idle EXCEPT !.tag = "Checking", !.gen = g]
      BY <3>1 DEF BeginCheck
    <3> QED BY <3>2, RestTyped DEF UpdateStates, Tags
  <2>3. ucall' \in [Calls -> UpdateCalls]
    BY DEF UpdateTypeOK, UpdateCalls, BeginCheck, MayCheck, NoCall
  <2>4. task' \in Tasks
    BY RestTyped, BytesTyped
       DEF UpdateTypeOK, UpdateStates, Tasks, NoTask, BeginCheck, MayCheck, NoCall
  <2>5. closer' \in Closers
    BY RestTyped DEF UpdateTypeOK, Closers, BeginCheck, MayCheck, NoCall
  <2> QED BY <2>1, <2>2, <2>3, <2>4, <2>5 DEF UpdateTypeOK
<1>2. TaskServes'
  BY UpdateAssumption
     DEF UpdateTypeOK, UpdateStates, UpdateCalls, Tasks, Closers, TaskServes, ShutdownHolds,
         BeginCheck, MayCheck, NoCall, Idle, NoTask, NotClosing, Done, Failure
<1>3. VerifiedIsAnnounced'
  BY UpdateAssumption
     DEF UpdateTypeOK, UpdateStates, UpdateCalls, Tasks, Closers, TaskServes, VerifiedIsAnnounced,
         ShutdownHolds, BeginCheck, MayCheck, NoCall, Idle, NoTask, NotClosing, Done, Failure
<1>4. HandedOnce'
  BY DEF UpdateTypeOK, UpdateStates, UpdateCalls, Tasks, Closers, HandedOnce, VerifiedIsAnnounced,
         ShutdownHolds, BeginCheck, MayCheck, NoCall, Idle, NoTask, NotClosing
<1>5. ShutdownHolds'
  BY DEF UpdateTypeOK, UpdateStates, UpdateCalls, Tasks, Closers, TaskServes, ShutdownHolds,
         BeginCheck, MayCheck, NoCall, Idle, NoTask, NotClosing, Done
<1>6. CloserIsWoken'
  BY DEF UpdateTypeOK, UpdateStates, UpdateCalls, Tasks, Closers, CloserIsWoken, ShutdownHolds,
         BeginCheck, MayCheck, NoCall, NoTask, NotClosing, Done
<1>7. Named'
  BY UpdateAssumption
     DEF UpdateTypeOK, UpdateStates, Named, BeginCheck, MayCheck, NoCall, Idle, Generations
<1> QED BY <1>1, <1>2, <1>3, <1>4, <1>5, <1>6, <1>7

\* finish_announced: an announcement is kept only while its check is awaited.
LEMMA FinishAnnouncedInv ==
    ASSUME UpdateInv, NEW c \in Calls, NEW ann \in Announcement, FinishAnnounced(c, ann)
    PROVE  UpdateInv'
<1> USE DEF UpdateInv
<1>1. UpdateTypeOK'
  <2>1. generation' \in Nat /\ shuttingDown' \in BOOLEAN /\ closed' \in BOOLEAN
    BY DEF UpdateTypeOK, FinishAnnounced, StillChecking, Return, NoCall
  <2>2. ustate' \in UpdateStates
    BY RestTyped, BytesTyped
       DEF UpdateTypeOK, UpdateStates, Tags, Announcements, Idle, FinishAnnounced, StillChecking,
           Return, NoCall
  <2>3. ucall' \in [Calls -> UpdateCalls]
    BY DEF UpdateTypeOK, UpdateCalls, FinishAnnounced, StillChecking, Return, NoCall
  <2>4. task' \in Tasks
    BY RestTyped, BytesTyped
       DEF UpdateTypeOK, UpdateStates, Tasks, NoTask, FinishAnnounced, StillChecking, Return,
           NoCall
  <2>5. closer' \in Closers
    BY RestTyped DEF UpdateTypeOK, Closers, FinishAnnounced, StillChecking, Return, NoCall
  <2> QED BY <2>1, <2>2, <2>3, <2>4, <2>5 DEF UpdateTypeOK
<1>2. TaskServes'
  BY UpdateAssumption
     DEF UpdateTypeOK, UpdateStates, UpdateCalls, Tasks, Closers, TaskServes, ShutdownHolds,
         FinishAnnounced, StillChecking, Return, NoCall, Idle, NoTask, NotClosing, Done, Failure
<1>3. VerifiedIsAnnounced'
  BY UpdateAssumption
     DEF UpdateTypeOK, UpdateStates, UpdateCalls, Tasks, Closers, TaskServes, VerifiedIsAnnounced,
         ShutdownHolds, FinishAnnounced, StillChecking, Return, NoCall, Idle, NoTask, NotClosing,
         Done, Failure
<1>4. HandedOnce'
  BY DEF UpdateTypeOK, UpdateStates, UpdateCalls, Tasks, Closers, HandedOnce, VerifiedIsAnnounced,
         ShutdownHolds, FinishAnnounced, StillChecking, Return, NoCall, Idle, NoTask, NotClosing
<1>5. ShutdownHolds'
  BY DEF UpdateTypeOK, UpdateStates, UpdateCalls, Tasks, Closers, TaskServes, ShutdownHolds,
         FinishAnnounced, StillChecking, Return, NoCall, Idle, NoTask, NotClosing, Done
<1>6. CloserIsWoken'
  BY DEF UpdateTypeOK, UpdateStates, UpdateCalls, Tasks, Closers, CloserIsWoken, ShutdownHolds,
         FinishAnnounced, StillChecking, Return, NoCall, NoTask, NotClosing, Done
<1>7. Named'
  BY UpdateAssumption
     DEF UpdateTypeOK, UpdateStates, Named, FinishAnnounced, StillChecking, Return, NoCall, Idle,
         Generations
<1> QED BY <1>1, <1>2, <1>3, <1>4, <1>5, <1>6, <1>7

\* finish_up_to_date.
LEMMA FinishUpToDateInv ==
    ASSUME UpdateInv, NEW c \in Calls, FinishUpToDate(c) PROVE UpdateInv'
<1> USE DEF UpdateInv
<1>1. UpdateTypeOK'
  <2>1. generation' \in Nat /\ shuttingDown' \in BOOLEAN /\ closed' \in BOOLEAN
    BY DEF UpdateTypeOK, FinishUpToDate, StillChecking, Return, NoCall
  <2>2. ustate' \in UpdateStates
    BY RestTyped, BytesTyped
       DEF UpdateTypeOK, UpdateStates, Tags, Announcements, Idle, FinishUpToDate, StillChecking,
           Return, NoCall
  <2>3. ucall' \in [Calls -> UpdateCalls]
    BY DEF UpdateTypeOK, UpdateCalls, FinishUpToDate, StillChecking, Return, NoCall
  <2>4. task' \in Tasks
    BY RestTyped, BytesTyped
       DEF UpdateTypeOK, UpdateStates, Tasks, NoTask, FinishUpToDate, StillChecking, Return,
           NoCall
  <2>5. closer' \in Closers
    BY RestTyped DEF UpdateTypeOK, Closers, FinishUpToDate, StillChecking, Return, NoCall
  <2> QED BY <2>1, <2>2, <2>3, <2>4, <2>5 DEF UpdateTypeOK
<1>2. TaskServes'
  BY UpdateAssumption
     DEF UpdateTypeOK, UpdateStates, UpdateCalls, Tasks, Closers, TaskServes, ShutdownHolds,
         FinishUpToDate, StillChecking, Return, NoCall, Idle, NoTask, NotClosing, Done, Failure
<1>3. VerifiedIsAnnounced'
  BY UpdateAssumption
     DEF UpdateTypeOK, UpdateStates, UpdateCalls, Tasks, Closers, TaskServes, VerifiedIsAnnounced,
         ShutdownHolds, FinishUpToDate, StillChecking, Return, NoCall, Idle, NoTask, NotClosing,
         Done, Failure
<1>4. HandedOnce'
  BY DEF UpdateTypeOK, UpdateStates, UpdateCalls, Tasks, Closers, HandedOnce, VerifiedIsAnnounced,
         ShutdownHolds, FinishUpToDate, StillChecking, Return, NoCall, Idle, NoTask, NotClosing
<1>5. ShutdownHolds'
  BY DEF UpdateTypeOK, UpdateStates, UpdateCalls, Tasks, Closers, TaskServes, ShutdownHolds,
         FinishUpToDate, StillChecking, Return, NoCall, Idle, NoTask, NotClosing, Done
<1>6. CloserIsWoken'
  BY DEF UpdateTypeOK, UpdateStates, UpdateCalls, Tasks, Closers, CloserIsWoken, ShutdownHolds,
         FinishUpToDate, StillChecking, Return, NoCall, NoTask, NotClosing, Done
<1>7. Named'
  BY UpdateAssumption
     DEF UpdateTypeOK, UpdateStates, Named, FinishUpToDate, StillChecking, Return, NoCall, Idle,
         Generations
<1> QED BY <1>1, <1>2, <1>3, <1>4, <1>5, <1>6, <1>7

\* fail_active.
LEMMA FailActiveInv ==
    ASSUME UpdateInv, NEW c \in Calls, FailActive(c) PROVE UpdateInv'
<1> USE DEF UpdateInv
<1>1. UpdateTypeOK'
  <2>1. generation' \in Nat /\ shuttingDown' \in BOOLEAN /\ closed' \in BOOLEAN
    BY DEF UpdateTypeOK, FailActive, StillChecking, Return, NoCall
  <2>2. ustate' \in UpdateStates
    BY RestTyped, BytesTyped
       DEF UpdateTypeOK, UpdateStates, Tags, Announcements, Idle, FailActive, StillChecking,
           Return, NoCall
  <2>3. ucall' \in [Calls -> UpdateCalls]
    BY DEF UpdateTypeOK, UpdateCalls, FailActive, StillChecking, Return, NoCall
  <2>4. task' \in Tasks
    BY RestTyped, BytesTyped
       DEF UpdateTypeOK, UpdateStates, Tasks, NoTask, FailActive, StillChecking, Return, NoCall
  <2>5. closer' \in Closers
    BY RestTyped DEF UpdateTypeOK, Closers, FailActive, StillChecking, Return, NoCall
  <2> QED BY <2>1, <2>2, <2>3, <2>4, <2>5 DEF UpdateTypeOK
<1>2. TaskServes'
  BY UpdateAssumption
     DEF UpdateTypeOK, UpdateStates, UpdateCalls, Tasks, Closers, TaskServes, ShutdownHolds,
         FailActive, StillChecking, Return, NoCall, Idle, NoTask, NotClosing, Done, Failure
<1>3. VerifiedIsAnnounced'
  BY UpdateAssumption
     DEF UpdateTypeOK, UpdateStates, UpdateCalls, Tasks, Closers, TaskServes, VerifiedIsAnnounced,
         ShutdownHolds, FailActive, StillChecking, Return, NoCall, Idle, NoTask, NotClosing, Done,
         Failure
<1>4. HandedOnce'
  BY DEF UpdateTypeOK, UpdateStates, UpdateCalls, Tasks, Closers, HandedOnce, VerifiedIsAnnounced,
         ShutdownHolds, FailActive, StillChecking, Return, NoCall, Idle, NoTask, NotClosing
<1>5. ShutdownHolds'
  BY DEF UpdateTypeOK, UpdateStates, UpdateCalls, Tasks, Closers, TaskServes, ShutdownHolds,
         FailActive, StillChecking, Return, NoCall, Idle, NoTask, NotClosing, Done
<1>6. CloserIsWoken'
  BY DEF UpdateTypeOK, UpdateStates, UpdateCalls, Tasks, Closers, CloserIsWoken, ShutdownHolds,
         FailActive, StillChecking, Return, NoCall, NoTask, NotClosing, Done
<1>7. Named'
  BY UpdateAssumption
     DEF UpdateTypeOK, UpdateStates, Named, FailActive, StillChecking, Return, NoCall, Idle,
         Generations
<1> QED BY <1>1, <1>2, <1>3, <1>4, <1>5, <1>6, <1>7

\* begin_download: the task it spawns is for the announcement on the state.
LEMMA BeginDownloadInv ==
    ASSUME UpdateInv, NEW c \in Calls, NEW id \in Generations, BeginDownload(c, id) PROVE UpdateInv'
<1> USE DEF UpdateInv
<1>1. UpdateTypeOK'
  <2>1. generation' \in Nat /\ shuttingDown' \in BOOLEAN /\ closed' \in BOOLEAN
    BY DEF UpdateTypeOK, BeginDownload, Generations, NoCall
  <2>2. ustate' \in UpdateStates
    BY RestTyped, BytesTyped
       DEF UpdateTypeOK, UpdateStates, Tags, Announcements, Idle, BeginDownload, Generations,
           NoCall
  <2>3. ucall' \in [Calls -> UpdateCalls]
    BY DEF UpdateTypeOK, UpdateCalls, BeginDownload, Generations, NoCall
  <2>4. task' \in Tasks
    BY RestTyped, BytesTyped
       DEF UpdateTypeOK, UpdateStates, Tasks, NoTask, BeginDownload, Generations, NoCall
  <2>5. closer' \in Closers
    BY RestTyped DEF UpdateTypeOK, Closers, BeginDownload, Generations, NoCall
  <2> QED BY <2>1, <2>2, <2>3, <2>4, <2>5 DEF UpdateTypeOK
<1>2. TaskServes'
  BY UpdateAssumption
     DEF UpdateTypeOK, UpdateStates, UpdateCalls, Tasks, Closers, TaskServes, ShutdownHolds,
         BeginDownload, Generations, NoCall, Idle, NoTask, NotClosing, Done, Failure
<1>3. VerifiedIsAnnounced'
  BY UpdateAssumption
     DEF UpdateTypeOK, UpdateStates, UpdateCalls, Tasks, Closers, TaskServes, VerifiedIsAnnounced,
         ShutdownHolds, BeginDownload, Generations, NoCall, Idle, NoTask, NotClosing, Done,
         Failure
<1>4. HandedOnce'
  BY DEF UpdateTypeOK, UpdateStates, UpdateCalls, Tasks, Closers, HandedOnce, VerifiedIsAnnounced,
         ShutdownHolds, BeginDownload, Generations, NoCall, Idle, NoTask, NotClosing
<1>5. ShutdownHolds'
  BY DEF UpdateTypeOK, UpdateStates, UpdateCalls, Tasks, Closers, TaskServes, ShutdownHolds,
         BeginDownload, Generations, NoCall, Idle, NoTask, NotClosing, Done
<1>6. CloserIsWoken'
  BY DEF UpdateTypeOK, UpdateStates, UpdateCalls, Tasks, Closers, CloserIsWoken, ShutdownHolds,
         BeginDownload, Generations, NoCall, NoTask, NotClosing, Done
<1>7. Named'
  BY UpdateAssumption
     DEF UpdateTypeOK, UpdateStates, Named, BeginDownload, Generations, NoCall, Idle, Generations
<1> QED BY <1>1, <1>2, <1>3, <1>4, <1>5, <1>6, <1>7

\* finish_download: what is kept is the result of the task of this download.
LEMMA FinishDownloadInv ==
    ASSUME UpdateInv, NEW c \in Calls, FinishDownload(c) PROVE UpdateInv'
<1> USE DEF UpdateInv
<1>1. UpdateTypeOK'
  <2>1. generation' \in Nat /\ shuttingDown' \in BOOLEAN /\ closed' \in BOOLEAN
    BY DEF UpdateTypeOK, FinishDownload, Return, NoCall
  <2>2. ustate' \in UpdateStates
    BY RestTyped DEF UpdateTypeOK, UpdateStates, Tasks, Tags, FinishDownload, Return, NoCall
  <2>3. ucall' \in [Calls -> UpdateCalls]
    BY DEF UpdateTypeOK, UpdateCalls, FinishDownload, Return, NoCall
  <2>4. task' \in Tasks
    BY RestTyped, BytesTyped
       DEF UpdateTypeOK, UpdateStates, Tasks, NoTask, FinishDownload, Return, NoCall
  <2>5. closer' \in Closers
    BY RestTyped DEF UpdateTypeOK, Closers, FinishDownload, Return, NoCall
  <2> QED BY <2>1, <2>2, <2>3, <2>4, <2>5 DEF UpdateTypeOK
<1>2. TaskServes'
  BY UpdateAssumption
     DEF UpdateTypeOK, UpdateStates, UpdateCalls, Tasks, Closers, TaskServes, ShutdownHolds,
         FinishDownload, Return, NoCall, Idle, NoTask, NotClosing, Done, Failure
<1>3. VerifiedIsAnnounced'
  BY UpdateAssumption
     DEF UpdateTypeOK, UpdateStates, UpdateCalls, Tasks, Closers, TaskServes, VerifiedIsAnnounced,
         ShutdownHolds, FinishDownload, Return, NoCall, Idle, NoTask, NotClosing, Done, Failure
<1>4. HandedOnce'
  BY DEF UpdateTypeOK, UpdateStates, UpdateCalls, Tasks, Closers, HandedOnce, VerifiedIsAnnounced,
         ShutdownHolds, FinishDownload, Return, NoCall, Idle, NoTask, NotClosing
<1>5. ShutdownHolds'
  BY DEF UpdateTypeOK, UpdateStates, UpdateCalls, Tasks, Closers, TaskServes, ShutdownHolds,
         FinishDownload, Return, NoCall, Idle, NoTask, NotClosing, Done
<1>6. CloserIsWoken'
  BY DEF UpdateTypeOK, UpdateStates, UpdateCalls, Tasks, Closers, CloserIsWoken, ShutdownHolds,
         FinishDownload, Return, NoCall, NoTask, NotClosing, Done
<1>7. Named'
  BY UpdateAssumption
     DEF UpdateTypeOK, UpdateStates, Named, FinishDownload, Return, NoCall, Idle, Generations
<1> QED BY <1>1, <1>2, <1>3, <1>4, <1>5, <1>6, <1>7

\* consume_install, whichever artifact it is asked for: the first is the last.
LEMMA ConsumeInstallInv ==
    ASSUME UpdateInv, NEW id, ConsumeInstall(id) PROVE UpdateInv'
<1> USE DEF UpdateInv
<1>1. UpdateTypeOK'
  <2>1. generation' \in Nat /\ shuttingDown' \in BOOLEAN /\ closed' \in BOOLEAN
    BY DEF UpdateTypeOK, ConsumeInstall, Installing
  <2>2. ustate' \in UpdateStates
    BY RestTyped, BytesTyped
       DEF UpdateTypeOK, UpdateStates, Tags, Announcements, Idle, ConsumeInstall, Installing
  <2>3. ucall' \in [Calls -> UpdateCalls]
    BY DEF UpdateTypeOK, UpdateCalls, ConsumeInstall, Installing
  <2>4. task' \in Tasks
    BY RestTyped, BytesTyped
       DEF UpdateTypeOK, UpdateStates, Tasks, NoTask, ConsumeInstall, Installing
  <2>5. closer' \in Closers
    BY RestTyped DEF UpdateTypeOK, Closers, ConsumeInstall, Installing
  <2> QED BY <2>1, <2>2, <2>3, <2>4, <2>5 DEF UpdateTypeOK
<1>2. TaskServes'
  BY UpdateAssumption
     DEF UpdateTypeOK, UpdateStates, UpdateCalls, Tasks, Closers, TaskServes, ShutdownHolds,
         ConsumeInstall, Installing, Idle, NoTask, NotClosing, Done, Failure
<1>3. VerifiedIsAnnounced'
  BY UpdateAssumption
     DEF UpdateTypeOK, UpdateStates, UpdateCalls, Tasks, Closers, TaskServes, VerifiedIsAnnounced,
         ShutdownHolds, ConsumeInstall, Installing, Idle, NoTask, NotClosing, Done, Failure
<1>4. HandedOnce'
  BY DEF UpdateTypeOK, UpdateStates, UpdateCalls, Tasks, Closers, HandedOnce, VerifiedIsAnnounced,
         ShutdownHolds, ConsumeInstall, Installing, Idle, NoTask, NotClosing
<1>5. ShutdownHolds'
  BY DEF UpdateTypeOK, UpdateStates, UpdateCalls, Tasks, Closers, TaskServes, ShutdownHolds,
         ConsumeInstall, Installing, Idle, NoTask, NotClosing, Done
<1>6. CloserIsWoken'
  BY DEF UpdateTypeOK, UpdateStates, UpdateCalls, Tasks, Closers, CloserIsWoken, ShutdownHolds,
         ConsumeInstall, Installing, NoTask, NotClosing, Done
<1>7. Named'
  BY UpdateAssumption
     DEF UpdateTypeOK, UpdateStates, Named, ConsumeInstall, Installing, Idle, Generations
<1> QED BY <1>1, <1>2, <1>3, <1>4, <1>5, <1>6, <1>7

\* The end of the download task, in a failure or with the announced artifact.
LEMMA TaskEndsInv ==
    ASSUME UpdateInv, NEW r \in Failure \cup {task.ann.version},
           task.st \in {"running", "verifying"}, TaskEnds(r)
    PROVE  UpdateInv'
<1> USE DEF UpdateInv
<1>1. UpdateTypeOK'
  <2>1. generation' \in Nat /\ shuttingDown' \in BOOLEAN /\ closed' \in BOOLEAN
    BY DEF UpdateTypeOK, TaskEnds
  <2>2. ustate' \in UpdateStates
    BY RestTyped, BytesTyped DEF UpdateTypeOK, UpdateStates, Tags, Announcements, Idle, TaskEnds
  <2>3. ucall' \in [Calls -> UpdateCalls]
    BY DEF UpdateTypeOK, UpdateCalls, TaskEnds
  <2>4. task' \in Tasks
    <3>1. task.ann.version \in Versions \cup {"none"}
      BY DEF UpdateTypeOK, Tasks, Announcements, Announcement, NoAnnouncement
    <3>2. r \in Bytes
      BY <3>1, BytesTyped DEF Bytes
    <3> QED BY <3>2 DEF UpdateTypeOK, Tasks, TaskEnds
  <2>5. closer' \in Closers
    BY RestTyped DEF UpdateTypeOK, Closers, TaskEnds
  <2> QED BY <2>1, <2>2, <2>3, <2>4, <2>5 DEF UpdateTypeOK
<1>2. TaskServes'
  BY UpdateAssumption
     DEF UpdateTypeOK, UpdateStates, UpdateCalls, Tasks, Closers, TaskServes, ShutdownHolds,
         TaskEnds, Idle, NoTask, NotClosing, Done, Failure
<1>3. VerifiedIsAnnounced'
  BY UpdateAssumption
     DEF UpdateTypeOK, UpdateStates, UpdateCalls, Tasks, Closers, TaskServes, VerifiedIsAnnounced,
         ShutdownHolds, TaskEnds, Idle, NoTask, NotClosing, Done, Failure
<1>4. HandedOnce'
  BY DEF UpdateTypeOK, UpdateStates, UpdateCalls, Tasks, Closers, HandedOnce, VerifiedIsAnnounced,
         ShutdownHolds, TaskEnds, Idle, NoTask, NotClosing
<1>5. ShutdownHolds'
  BY DEF UpdateTypeOK, UpdateStates, UpdateCalls, Tasks, Closers, TaskServes, ShutdownHolds,
         TaskEnds, Idle, NoTask, NotClosing, Done
<1>6. CloserIsWoken'
  BY DEF UpdateTypeOK, UpdateStates, UpdateCalls, Tasks, Closers, CloserIsWoken, ShutdownHolds,
         TaskEnds, NoTask, NotClosing, Done
<1>7. Named'
  BY UpdateAssumption DEF UpdateTypeOK, UpdateStates, Named, TaskEnds, Idle, Generations
<1> QED BY <1>1, <1>2, <1>3, <1>4, <1>5, <1>6, <1>7

\* TaskCompletion's notification: whoever has subscribed hears it.
LEMMA TaskNotifiesInv ==
    ASSUME UpdateInv, TaskNotifies PROVE UpdateInv'
<1> USE DEF UpdateInv
<1>1. UpdateTypeOK'
  <2>1. generation' \in Nat /\ shuttingDown' \in BOOLEAN /\ closed' \in BOOLEAN
    BY DEF UpdateTypeOK, TaskNotifies
  <2>2. ustate' \in UpdateStates
    BY RestTyped, BytesTyped
       DEF UpdateTypeOK, UpdateStates, Tags, Announcements, Idle, TaskNotifies
  <2>3. ucall' \in [Calls -> UpdateCalls]
    BY DEF UpdateTypeOK, UpdateCalls, TaskNotifies
  <2>4. task' \in Tasks
    BY RestTyped, BytesTyped DEF UpdateTypeOK, UpdateStates, Tasks, NoTask, TaskNotifies
  <2>5. closer' \in Closers
    <3>1. (closer.pc \in {"subscribed", "parked"}) \in BOOLEAN
      OBVIOUS
    <3> DEFINE n == closer.pc \in {"subscribed", "parked"}
    <3>2. closer' = [closer EXCEPT !.notified = n] /\ n \in BOOLEAN
      BY <3>1 DEF TaskNotifies
    <3> HIDE DEF n
    <3> QED BY <3>2 DEF UpdateTypeOK, Closers
  <2> QED BY <2>1, <2>2, <2>3, <2>4, <2>5 DEF UpdateTypeOK
<1>2. TaskServes'
  BY UpdateAssumption
     DEF UpdateTypeOK, UpdateStates, UpdateCalls, Tasks, Closers, TaskServes, ShutdownHolds,
         TaskNotifies, Idle, NoTask, NotClosing, Done, Failure
<1>3. VerifiedIsAnnounced'
  BY UpdateAssumption
     DEF UpdateTypeOK, UpdateStates, UpdateCalls, Tasks, Closers, TaskServes, VerifiedIsAnnounced,
         ShutdownHolds, TaskNotifies, Idle, NoTask, NotClosing, Done, Failure
<1>4. HandedOnce'
  BY DEF UpdateTypeOK, UpdateStates, UpdateCalls, Tasks, Closers, HandedOnce, VerifiedIsAnnounced,
         ShutdownHolds, TaskNotifies, Idle, NoTask, NotClosing
<1>5. ShutdownHolds'
  BY DEF UpdateTypeOK, UpdateStates, UpdateCalls, Tasks, Closers, TaskServes, ShutdownHolds,
         TaskNotifies, Idle, NoTask, NotClosing, Done
<1>6. CloserIsWoken'
  BY DEF UpdateTypeOK, UpdateStates, UpdateCalls, Tasks, Closers, CloserIsWoken, ShutdownHolds,
         TaskNotifies, NoTask, NotClosing, Done
<1>7. Named'
  BY UpdateAssumption DEF UpdateTypeOK, UpdateStates, Named, TaskNotifies, Idle, Generations
<1> QED BY <1>1, <1>2, <1>3, <1>4, <1>5, <1>6, <1>7

\* The download is complete, and verification starts.
LEMMA StartVerifyingInv ==
    ASSUME UpdateInv, StartVerifying PROVE UpdateInv'
<1> USE DEF UpdateInv
<1>1. UpdateTypeOK'
  <2>1. generation' \in Nat /\ shuttingDown' \in BOOLEAN /\ closed' \in BOOLEAN
    BY DEF UpdateTypeOK, StartVerifying
  <2>2. ustate' \in UpdateStates
    BY RestTyped, BytesTyped
       DEF UpdateTypeOK, UpdateStates, Tags, Announcements, Idle, StartVerifying
  <2>3. ucall' \in [Calls -> UpdateCalls]
    BY DEF UpdateTypeOK, UpdateCalls, StartVerifying
  <2>4. task' \in Tasks
    BY RestTyped, BytesTyped DEF UpdateTypeOK, UpdateStates, Tasks, NoTask, StartVerifying
  <2>5. closer' \in Closers
    BY RestTyped DEF UpdateTypeOK, Closers, StartVerifying
  <2> QED BY <2>1, <2>2, <2>3, <2>4, <2>5 DEF UpdateTypeOK
<1>2. TaskServes'
  BY UpdateAssumption
     DEF UpdateTypeOK, UpdateStates, UpdateCalls, Tasks, Closers, TaskServes, ShutdownHolds,
         StartVerifying, Idle, NoTask, NotClosing, Done, Failure
<1>3. VerifiedIsAnnounced'
  BY UpdateAssumption
     DEF UpdateTypeOK, UpdateStates, UpdateCalls, Tasks, Closers, TaskServes, VerifiedIsAnnounced,
         ShutdownHolds, StartVerifying, Idle, NoTask, NotClosing, Done, Failure
<1>4. HandedOnce'
  BY DEF UpdateTypeOK, UpdateStates, UpdateCalls, Tasks, Closers, HandedOnce, VerifiedIsAnnounced,
         ShutdownHolds, StartVerifying, Idle, NoTask, NotClosing
<1>5. ShutdownHolds'
  BY DEF UpdateTypeOK, UpdateStates, UpdateCalls, Tasks, Closers, TaskServes, ShutdownHolds,
         StartVerifying, Idle, NoTask, NotClosing, Done
<1>6. CloserIsWoken'
  BY DEF UpdateTypeOK, UpdateStates, UpdateCalls, Tasks, Closers, CloserIsWoken, ShutdownHolds,
         StartVerifying, NoTask, NotClosing, Done
<1>7. Named'
  BY UpdateAssumption DEF UpdateTypeOK, UpdateStates, Named, StartVerifying, Idle, Generations
<1> QED BY <1>1, <1>2, <1>3, <1>4, <1>5, <1>6, <1>7

\* The first section of shutdown, which aborts a download or is done.
LEMMA ShutdownBeginInv ==
    ASSUME UpdateInv, ShutdownBegin PROVE UpdateInv'
<1> USE DEF UpdateInv
<1>1. UpdateTypeOK'
  <2>1. generation' \in Nat /\ shuttingDown' \in BOOLEAN /\ closed' \in BOOLEAN
    BY DEF UpdateTypeOK, ShutdownBegin
  <2>2. ustate' \in UpdateStates
    BY RestTyped, BytesTyped
       DEF UpdateTypeOK, UpdateStates, Tags, Announcements, Idle, ShutdownBegin
  <2>3. ucall' \in [Calls -> UpdateCalls]
    BY DEF UpdateTypeOK, UpdateCalls, ShutdownBegin
  <2>4. task' \in Tasks
    BY RestTyped, BytesTyped DEF UpdateTypeOK, UpdateStates, Tasks, NoTask, ShutdownBegin
  <2>5. closer' \in Closers
    <3>1. [pc |-> "first", notified |-> FALSE] \in Closers
      BY DEF Closers
    <3>2. closer' = closer \/ closer' = [pc |-> "first", notified |-> FALSE]
      BY DEF ShutdownBegin
    <3> QED BY <3>1, <3>2 DEF UpdateTypeOK
  <2> QED BY <2>1, <2>2, <2>3, <2>4, <2>5 DEF UpdateTypeOK
<1>2. TaskServes'
  BY UpdateAssumption
     DEF UpdateTypeOK, UpdateStates, UpdateCalls, Tasks, Closers, TaskServes, ShutdownHolds,
         ShutdownBegin, Idle, NoTask, NotClosing, Done, Failure
<1>3. VerifiedIsAnnounced'
  BY UpdateAssumption
     DEF UpdateTypeOK, UpdateStates, UpdateCalls, Tasks, Closers, TaskServes, VerifiedIsAnnounced,
         ShutdownHolds, ShutdownBegin, Idle, NoTask, NotClosing, Done, Failure
<1>4. HandedOnce'
  BY DEF UpdateTypeOK, UpdateStates, UpdateCalls, Tasks, Closers, HandedOnce, VerifiedIsAnnounced,
         ShutdownHolds, ShutdownBegin, Idle, NoTask, NotClosing
<1>5. ShutdownHolds'
  BY DEF UpdateTypeOK, UpdateStates, UpdateCalls, Tasks, Closers, TaskServes, ShutdownHolds,
         ShutdownBegin, Idle, NoTask, NotClosing, Done
<1>6. CloserIsWoken'
  BY DEF UpdateTypeOK, UpdateStates, UpdateCalls, Tasks, Closers, CloserIsWoken, ShutdownHolds,
         ShutdownBegin, NoTask, NotClosing, Done
<1>7. Named'
  BY UpdateAssumption DEF UpdateTypeOK, UpdateStates, Named, ShutdownBegin, Idle, Generations
<1> QED BY <1>1, <1>2, <1>3, <1>4, <1>5, <1>6, <1>7

\* A step of TaskCompletion::wait: it sleeps only if the task has not ended.
LEMMA WaitSubscribeInv ==
    ASSUME UpdateInv, WaitSubscribe PROVE UpdateInv'
<1> USE DEF UpdateInv
<1>1. UpdateTypeOK'
  <2>1. generation' \in Nat /\ shuttingDown' \in BOOLEAN /\ closed' \in BOOLEAN
    BY DEF UpdateTypeOK, WaitSubscribe, CloserAt
  <2>2. ustate' \in UpdateStates
    BY RestTyped, BytesTyped
       DEF UpdateTypeOK, UpdateStates, Tags, Announcements, Idle, WaitSubscribe, CloserAt
  <2>3. ucall' \in [Calls -> UpdateCalls]
    BY DEF UpdateTypeOK, UpdateCalls, WaitSubscribe, CloserAt
  <2>4. task' \in Tasks
    BY RestTyped, BytesTyped
       DEF UpdateTypeOK, UpdateStates, Tasks, NoTask, WaitSubscribe, CloserAt
  <2>5. closer' \in Closers
    BY RestTyped DEF UpdateTypeOK, Closers, WaitSubscribe, CloserAt
  <2> QED BY <2>1, <2>2, <2>3, <2>4, <2>5 DEF UpdateTypeOK
<1>2. TaskServes'
  BY UpdateAssumption
     DEF UpdateTypeOK, UpdateStates, UpdateCalls, Tasks, Closers, TaskServes, ShutdownHolds,
         WaitSubscribe, CloserAt, Idle, NoTask, NotClosing, Done, Failure
<1>3. VerifiedIsAnnounced'
  BY UpdateAssumption
     DEF UpdateTypeOK, UpdateStates, UpdateCalls, Tasks, Closers, TaskServes, VerifiedIsAnnounced,
         ShutdownHolds, WaitSubscribe, CloserAt, Idle, NoTask, NotClosing, Done, Failure
<1>4. HandedOnce'
  BY DEF UpdateTypeOK, UpdateStates, UpdateCalls, Tasks, Closers, HandedOnce, VerifiedIsAnnounced,
         ShutdownHolds, WaitSubscribe, CloserAt, Idle, NoTask, NotClosing
<1>5. ShutdownHolds'
  BY DEF UpdateTypeOK, UpdateStates, UpdateCalls, Tasks, Closers, TaskServes, ShutdownHolds,
         WaitSubscribe, CloserAt, Idle, NoTask, NotClosing, Done
<1>6. CloserIsWoken'
  BY DEF UpdateTypeOK, UpdateStates, UpdateCalls, Tasks, Closers, CloserIsWoken, ShutdownHolds,
         WaitSubscribe, CloserAt, NoTask, NotClosing, Done
<1>7. Named'
  BY UpdateAssumption
     DEF UpdateTypeOK, UpdateStates, Named, WaitSubscribe, CloserAt, Idle, Generations
<1> QED BY <1>1, <1>2, <1>3, <1>4, <1>5, <1>6, <1>7

\* The wait ends because the task has.
LEMMA WaitWokenInv ==
    ASSUME UpdateInv, WaitWoken PROVE UpdateInv'
<1> USE DEF UpdateInv
<1>1. UpdateTypeOK'
  <2>1. generation' \in Nat /\ shuttingDown' \in BOOLEAN /\ closed' \in BOOLEAN
    BY DEF UpdateTypeOK, WaitWoken, CloserAt
  <2>2. ustate' \in UpdateStates
    BY RestTyped, BytesTyped
       DEF UpdateTypeOK, UpdateStates, Tags, Announcements, Idle, WaitWoken, CloserAt
  <2>3. ucall' \in [Calls -> UpdateCalls]
    BY DEF UpdateTypeOK, UpdateCalls, WaitWoken, CloserAt
  <2>4. task' \in Tasks
    BY RestTyped, BytesTyped DEF UpdateTypeOK, UpdateStates, Tasks, NoTask, WaitWoken, CloserAt
  <2>5. closer' \in Closers
    BY RestTyped DEF UpdateTypeOK, Closers, WaitWoken, CloserAt
  <2> QED BY <2>1, <2>2, <2>3, <2>4, <2>5 DEF UpdateTypeOK
<1>2. TaskServes'
  BY UpdateAssumption
     DEF UpdateTypeOK, UpdateStates, UpdateCalls, Tasks, Closers, TaskServes, ShutdownHolds,
         WaitWoken, CloserAt, Idle, NoTask, NotClosing, Done, Failure
<1>3. VerifiedIsAnnounced'
  BY UpdateAssumption
     DEF UpdateTypeOK, UpdateStates, UpdateCalls, Tasks, Closers, TaskServes, VerifiedIsAnnounced,
         ShutdownHolds, WaitWoken, CloserAt, Idle, NoTask, NotClosing, Done, Failure
<1>4. HandedOnce'
  BY DEF UpdateTypeOK, UpdateStates, UpdateCalls, Tasks, Closers, HandedOnce, VerifiedIsAnnounced,
         ShutdownHolds, WaitWoken, CloserAt, Idle, NoTask, NotClosing
<1>5. ShutdownHolds'
  BY DEF UpdateTypeOK, UpdateStates, UpdateCalls, Tasks, Closers, TaskServes, ShutdownHolds,
         WaitWoken, CloserAt, Idle, NoTask, NotClosing, Done
<1>6. CloserIsWoken'
  BY DEF UpdateTypeOK, UpdateStates, UpdateCalls, Tasks, Closers, CloserIsWoken, ShutdownHolds,
         WaitWoken, CloserAt, NoTask, NotClosing, Done
<1>7. Named'
  BY UpdateAssumption
     DEF UpdateTypeOK, UpdateStates, Named, WaitWoken, CloserAt, Idle, Generations
<1> QED BY <1>1, <1>2, <1>3, <1>4, <1>5, <1>6, <1>7

\* The wait ends at SHUTDOWN_TIMEOUT, with the download still on the state.
LEMMA WaitTimeoutInv ==
    ASSUME UpdateInv, WaitTimeout PROVE UpdateInv'
<1> USE DEF UpdateInv
<1>1. UpdateTypeOK'
  <2>1. generation' \in Nat /\ shuttingDown' \in BOOLEAN /\ closed' \in BOOLEAN
    BY DEF UpdateTypeOK, WaitTimeout
  <2>2. ustate' \in UpdateStates
    BY RestTyped, BytesTyped
       DEF UpdateTypeOK, UpdateStates, Tags, Announcements, Idle, WaitTimeout
  <2>3. ucall' \in [Calls -> UpdateCalls]
    BY DEF UpdateTypeOK, UpdateCalls, WaitTimeout
  <2>4. task' \in Tasks
    BY RestTyped, BytesTyped DEF UpdateTypeOK, UpdateStates, Tasks, NoTask, WaitTimeout
  <2>5. closer' \in Closers
    BY RestTyped DEF UpdateTypeOK, Closers, WaitTimeout
  <2> QED BY <2>1, <2>2, <2>3, <2>4, <2>5 DEF UpdateTypeOK
<1>2. TaskServes'
  BY UpdateAssumption
     DEF UpdateTypeOK, UpdateStates, UpdateCalls, Tasks, Closers, TaskServes, ShutdownHolds,
         WaitTimeout, Idle, NoTask, NotClosing, Done, Failure
<1>3. VerifiedIsAnnounced'
  BY UpdateAssumption
     DEF UpdateTypeOK, UpdateStates, UpdateCalls, Tasks, Closers, TaskServes, VerifiedIsAnnounced,
         ShutdownHolds, WaitTimeout, Idle, NoTask, NotClosing, Done, Failure
<1>4. HandedOnce'
  BY DEF UpdateTypeOK, UpdateStates, UpdateCalls, Tasks, Closers, HandedOnce, VerifiedIsAnnounced,
         ShutdownHolds, WaitTimeout, Idle, NoTask, NotClosing
<1>5. ShutdownHolds'
  BY DEF UpdateTypeOK, UpdateStates, UpdateCalls, Tasks, Closers, TaskServes, ShutdownHolds,
         WaitTimeout, Idle, NoTask, NotClosing, Done
<1>6. CloserIsWoken'
  BY DEF UpdateTypeOK, UpdateStates, UpdateCalls, Tasks, Closers, CloserIsWoken, ShutdownHolds,
         WaitTimeout, NoTask, NotClosing, Done
<1>7. Named'
  BY UpdateAssumption DEF UpdateTypeOK, UpdateStates, Named, WaitTimeout, Idle, Generations
<1> QED BY <1>1, <1>2, <1>3, <1>4, <1>5, <1>6, <1>7

\* The second section of shutdown, after the task has ended.
LEMMA ShutdownFinishInv ==
    ASSUME UpdateInv, ShutdownFinish PROVE UpdateInv'
<1> USE DEF UpdateInv
<1>1. UpdateTypeOK'
  <2>1. generation' \in Nat /\ shuttingDown' \in BOOLEAN /\ closed' \in BOOLEAN
    BY DEF UpdateTypeOK, ShutdownFinish
  <2>2. ustate' \in UpdateStates
    BY RestTyped, BytesTyped
       DEF UpdateTypeOK, UpdateStates, Tags, Announcements, Idle, ShutdownFinish
  <2>3. ucall' \in [Calls -> UpdateCalls]
    BY DEF UpdateTypeOK, UpdateCalls, ShutdownFinish
  <2>4. task' \in Tasks
    BY RestTyped, BytesTyped DEF UpdateTypeOK, UpdateStates, Tasks, NoTask, ShutdownFinish
  <2>5. closer' \in Closers
    BY RestTyped DEF UpdateTypeOK, Closers, ShutdownFinish
  <2> QED BY <2>1, <2>2, <2>3, <2>4, <2>5 DEF UpdateTypeOK
<1>2. TaskServes'
  BY UpdateAssumption
     DEF UpdateTypeOK, UpdateStates, UpdateCalls, Tasks, Closers, TaskServes, ShutdownHolds,
         ShutdownFinish, Idle, NoTask, NotClosing, Done, Failure
<1>3. VerifiedIsAnnounced'
  BY UpdateAssumption
     DEF UpdateTypeOK, UpdateStates, UpdateCalls, Tasks, Closers, TaskServes, VerifiedIsAnnounced,
         ShutdownHolds, ShutdownFinish, Idle, NoTask, NotClosing, Done, Failure
<1>4. HandedOnce'
  BY DEF UpdateTypeOK, UpdateStates, UpdateCalls, Tasks, Closers, HandedOnce, VerifiedIsAnnounced,
         ShutdownHolds, ShutdownFinish, Idle, NoTask, NotClosing
<1>5. ShutdownHolds'
  BY DEF UpdateTypeOK, UpdateStates, UpdateCalls, Tasks, Closers, TaskServes, ShutdownHolds,
         ShutdownFinish, Idle, NoTask, NotClosing, Done
<1>6. CloserIsWoken'
  BY DEF UpdateTypeOK, UpdateStates, UpdateCalls, Tasks, Closers, CloserIsWoken, ShutdownHolds,
         ShutdownFinish, NoTask, NotClosing, Done
<1>7. Named'
  BY UpdateAssumption DEF UpdateTypeOK, UpdateStates, Named, ShutdownFinish, Idle, Generations
<1> QED BY <1>1, <1>2, <1>3, <1>4, <1>5, <1>6, <1>7

\* A step of the download task keeps the invariant of the update service: what it
\* ends with is a failure, or the artifact its signature and the announced version
\* agree on.
LEMMA TaskStepInv ==
    ASSUME UpdateInv, TaskStep PROVE UpdateInv'
<1>1. ASSUME task.st = "running", \E r \in Failure : TaskEnds(r) PROVE UpdateInv'
  BY <1>1, TaskEndsInv
<1>2. ASSUME task.st = "running", task' = [task EXCEPT !.received = @ + 1],
             UNCHANGED <<generation, shuttingDown, ustate, ucall, closer, closed, handed>>
      PROVE  UpdateInv'
  <2>1. task.received \in Nat /\ task \in Tasks
    BY DEF UpdateInv, UpdateTypeOK, Tasks
  <2>2. task' \in Tasks
    BY <1>2, <2>1 DEF Tasks
  <2>3. /\ task'.st = task.st /\ task'.ann = task.ann /\ task'.result = task.result
    BY <1>2, <2>1 DEF Tasks
  <2> QED
    BY <1>2, <2>2, <2>3
       DEF UpdateInv, UpdateTypeOK, TaskServes, Named, VerifiedIsAnnounced, HandedOnce,
           ShutdownHolds, CloserIsWoken, Done
<1>3. ASSUME ReceiveChunk PROVE UpdateInv'
  BY <1>1, <1>2, <1>3 DEF ReceiveChunk, Failure
<1>4. ASSUME DownloadFails PROVE UpdateInv'
  BY <1>1, <1>4 DEF DownloadFails, Failure
<1>5. ASSUME TaskAborted PROVE UpdateInv'
  BY <1>1, <1>5 DEF TaskAborted, Failure
<1>6. ASSUME NEW bytes \in Artifact, FinishVerifying(bytes) PROVE UpdateInv'
  <2>1. (IF Genuine(task.ann, bytes) THEN bytes ELSE "Verification")
          \in Failure \cup {task.ann.version}
    BY DEF Genuine, Failure
  <2> QED BY <1>6, <2>1, TaskEndsInv DEF FinishVerifying
<1> QED BY <1>3, <1>4, <1>5, <1>6, StartVerifyingInv, TaskNotifiesInv DEF TaskStep

\* Every step of the update service keeps its invariant.
LEMMA UpdateNextInv ==
    ASSUME UpdateInv, [UpdateNext]_uvars PROVE UpdateInv'
<1>1. ASSUME NEW c \in Calls, BeginUpdate(c) \/ FinishUpdate(c) PROVE UpdateInv'
  BY <1>1, BeginCheckInv, BeginDownloadInv, FinishAnnouncedInv, FinishUpToDateInv, FailActiveInv,
     FinishDownloadInv
     DEF BeginUpdate, FinishUpdate
<1>2. ASSUME ShutdownStep PROVE UpdateInv'
  BY <1>2, WaitSubscribeInv, WaitWokenInv, WaitTimeoutInv, ShutdownFinishInv DEF ShutdownStep
<1> QED BY <1>1, <1>2, ConsumeInstallInv, TaskStepInv, ShutdownBeginInv, UpdateStutterInv
           DEF UpdateNext

\* The invariant implies that an installer gets the announced version, once.
LEMMA UpdateInvInstalls ==
    ASSUME UpdateInv PROVE InstallsAnnouncedVersion
<1>1. CASE handed = <<>>
  BY <1>1 DEF InstallsAnnouncedVersion
<1>2. ASSUME handed = <<handed[1]>>, handed[1].bytes = handed[1].ann.version
      PROVE  InstallsAnnouncedVersion
  <2>1. DOMAIN handed = {1}
    BY <1>2
  <2> QED BY <1>2, <2>1 DEF InstallsAnnouncedVersion
<1> QED BY <1>1, <1>2 DEF UpdateInv, HandedOnce

\* It implies that a shutdown that has returned is final.
LEMMA UpdateInvCloses ==
    ASSUME UpdateInv PROVE ClosedForGood
BY DEF UpdateInv, ShutdownHolds, ClosedForGood

\* The invariant of the update service holds always.
LEMMA UpdateInvHolds == UpdateSpec => []UpdateInv
<1>1. UpdateInit => UpdateInv
  BY UpdateInitInv
<1>2. UpdateInv /\ [UpdateNext]_uvars => UpdateInv'
  BY UpdateNextInv
<1> QED BY <1>1, <1>2, PTL DEF UpdateSpec

\* consume_install hands out the bytes verify_signed_version has compared with the
\* announced version, and no artifact twice, whatever check, download and shutdown
\* interleave and whatever the release server answers.
THEOREM InstallsOnlyAnnounced == UpdateSpec => []InstallsAnnouncedVersion
<1>1. UpdateInv => InstallsAnnouncedVersion
  BY UpdateInvInstalls
<1> QED BY <1>1, UpdateInvHolds, PTL

\* Once UpdateService::shutdown has returned Ok, no result of a check or download
\* that was in flight brings the service back to work.
THEOREM ClosedStaysClosed == UpdateSpec => []ClosedForGood
<1>1. UpdateInv => ClosedForGood
  BY UpdateInvCloses
<1> QED BY <1>1, UpdateInvHolds, PTL

\* TaskCompletion::wait subscribes before it asks again, so that it does not sleep
\* through the end of the task.
THEOREM CloserAlwaysWoken == UpdateSpec => []CloserIsWoken
<1>1. UpdateInv => CloserIsWoken
  BY DEF UpdateInv
<1> QED BY <1>1, UpdateInvHolds, PTL

-----------------------------------------------------------------------------
\* A step that leaves the update service alone keeps what is known of it.
LEMMA ServiceFrame ==
    ASSUME ProcessInv, UNCHANGED uvars
    PROVE  UpdateInv' /\ Awaited' /\ ClosedIsIdle'
<1>1. UpdateInv'
  BY UpdateStutterInv DEF ProcessInv
<1>2. Awaited' /\ ClosedIsIdle'
  BY DEF ProcessInv, Awaited, ClosedIsIdle, uvars
<1> QED BY <1>1, <1>2

\* Who holds a permit depends only on which invocations are out.
LEMMA SameHolders ==
    ASSUME \A c \in Calls : cmd'[c].st = "out" <=> cmd[c].st = "out" PROVE Holders' = Holders
BY DEF Holders

\* The count follows.
LEMMA SameCount ==
    ASSUME Counted, Holders' = Holders, active' = active PROVE Counted'
BY DEF Counted

\* Nobody holds a permit when the count is zero.
LEMMA NoneHeld ==
    ASSUME Counted, active = 0 PROVE Holders = {}
BY FS_EmptySet DEF Counted

\* A count of one is the permit of whoever is known to hold one.
LEMMA OneHeld ==
    ASSUME Counted, active = 1, NEW c \in Holders PROVE Holders = {c}
<1>1. IsFiniteSet(Holders) /\ Cardinality(Holders) = 1
  BY DEF Counted
<1>2. PICK x : Holders = {x}
  BY <1>1, FS_Singleton
<1> QED BY <1>2

\* The process starts in its invariant.
LEMMA ProcessInitInv ==
    ASSUME ProcessInit PROVE ProcessInv
<1>1. UpdateInv
  BY UpdateInitInv DEF ProcessInit
<1>2. ProcessTypeOK
  BY DEF ProcessInit, ProcessTypeOK, NoCommand, NoInstall
<1>3. Holders = {}
  BY DEF ProcessInit, Holders, NoCommand
<1>4. Counted
  BY <1>3, FS_EmptySet DEF Counted, ProcessInit
<1>5. Serving /\ Awaited /\ ClosedIsIdle
  BY DEF ProcessInit, UpdateInit, Serving, Awaited, ClosedIsIdle, Idle, NoTask
<1>6. InstallOwns
  BY DEF ProcessInit, InstallOwns, NoInstall, InstallStages
<1>7. DrainsSealed /\ TornDownAlone /\ DrainsAreWoken
  BY DEF ProcessInit, DrainsSealed, TornDownAlone, DrainsAreWoken, ExitStages
<1> QED BY <1>1, <1>2, <1>4, <1>5, <1>6, <1>7 DEF ProcessInv

\* Before an installation or an exit has sealed the process nothing has been torn
\* down, no drain runs and nobody installs.
LEMMA RunningIsOpen ==
    ASSUME ProcessInv, phase = "Running"
    PROVE  /\ install = NoInstall /\ cleaned = {} /\ exit.stage \notin ExitStages
           /\ waiter["exit"] = "none" /\ waiter["install"] = "none"
<1>1. waiter["exit"] = "none" /\ waiter["install"] = "none"
  BY DEF ProcessInv, DrainsSealed
<1>2. install = NoInstall
  BY DEF ProcessInv, InstallOwns
<1>3. cleaned = {} /\ exit.stage \notin ExitStages
  BY DEF ProcessInv, TornDownAlone
<1> QED BY <1>1, <1>2, <1>3

\* An installing call has the stage of its installation, and holds its permit.
LEMMA InstallerOf ==
    ASSUME ProcessInv, NEW c \in install.call
    PROVE  /\ c \in Calls /\ install.call = {c} /\ phase = "Exclusive" /\ install.stage # "none"
           /\ install.stage = "failed" => cmd[c].st = "failed"
           /\ install.stage # "failed" => cmd[c].st = "installing"
BY DEF ProcessInv, InstallOwns, NoInstall

\* notify_waiters leaves no drain asleep, starts none and ends none.
LEMMA NotifiedWakes ==
    ASSUME ProcessTypeOK
    PROVE  /\ Notified \in [{"exit", "install"} -> {"none", "looping", "subscribed", "notified",
                                                    "parked"}]
           /\ \A w \in {"exit", "install"} :
                 /\ Notified[w] # "parked"
                 /\ Notified[w] = "none" <=> waiter[w] = "none"
BY DEF ProcessTypeOK, Notified

\* begin_command.
LEMMA AdmitInv ==
    ASSUME ProcessInv, NEW c \in Calls, Admit(c) PROVE ProcessInv'
<1>0. /\ UNCHANGED uvars /\ UNCHANGED <<install, exit, cleaned>> /\ phase = "Running"
      /\ cmd[c] = NoCommand
  BY DEF Admit, Admissible
<1>1. UpdateInv' /\ Awaited' /\ ClosedIsIdle'
  BY <1>0, ServiceFrame
<1>2. /\ install = NoInstall /\ cleaned = {} /\ exit.stage \notin ExitStages
      /\ waiter["exit"] = "none" /\ waiter["install"] = "none"
  BY <1>0, RunningIsOpen
<1>3. CASE active = ActiveMax
  <2>1. phase' = "Sealed" /\ waiter' = Notified /\ UNCHANGED <<active, cmd>>
    BY <1>3 DEF Admit
  <2>2. ProcessTypeOK'
    BY <1>0, <2>1, NotifiedWakes DEF ProcessInv, ProcessTypeOK
  <2>3. Counted' /\ Serving'
    BY <1>0, <2>1 DEF ProcessInv, Counted, Holders, Serving, uvars
  <2>4. InstallOwns' /\ DrainsSealed' /\ TornDownAlone'
    BY <1>0, <1>2, <2>1, NotifiedWakes
       DEF ProcessInv, InstallOwns, NoInstall, InstallStages, DrainsSealed, TornDownAlone
  <2>5. DrainsAreWoken'
    BY <2>1, <2>2, NotifiedWakes DEF ProcessInv, DrainsAreWoken, ProcessTypeOK
  <2> QED BY <1>1, <2>2, <2>3, <2>4, <2>5 DEF ProcessInv
<1>4. CASE active # ActiveMax
  <2>1. active' = active + 1 /\ cmd' = [cmd EXCEPT ![c].st = "in"] /\ UNCHANGED <<phase, waiter>>
    BY <1>4 DEF Admit
  <2>2. ProcessTypeOK'
    BY <1>0, <2>1 DEF ProcessInv, ProcessTypeOK
  <2>3. Counted'
    <3>1. Holders' = Holders \cup {c} /\ c \notin Holders
      BY <1>0, <2>1 DEF ProcessInv, ProcessTypeOK, Holders, NoCommand
    <3>2. IsFiniteSet(Holders) /\ active = Cardinality(Holders) /\ active \in Nat
      BY DEF ProcessInv, Counted, ProcessTypeOK
    <3>3. IsFiniteSet(Holders \cup {c}) /\ Cardinality(Holders \cup {c}) = active + 1
      BY <3>1, <3>2, FS_AddElement
    <3> QED BY <2>1, <3>1, <3>3 DEF Counted
  <2>4. Serving'
    BY <1>0, <2>1 DEF ProcessInv, ProcessTypeOK, Serving, NoCommand, uvars
  <2>5. InstallOwns' /\ DrainsSealed' /\ TornDownAlone'
    BY <1>0, <1>2, <2>1
       DEF ProcessInv, InstallOwns, NoInstall, InstallStages, DrainsSealed, TornDownAlone
  <2>6. DrainsAreWoken'
    BY <1>2, <2>1 DEF ProcessInv, DrainsAreWoken, ProcessTypeOK
  <2> QED BY <1>1, <2>2, <2>3, <2>4, <2>5, <2>6 DEF ProcessInv
<1> QED BY <1>3, <1>4

\* The release of the permit when an invocation returns: the count is that of the
\* permits held, so it does not underflow.
LEMMA LeaveInv ==
    ASSUME ProcessInv, NEW c \in Calls, Leave(c) PROVE ProcessInv'
<1>0. /\ UNCHANGED uvars /\ UNCHANGED <<exit, cleaned>> /\ ucall[c] = NoCall
      /\ cmd[c].st \in {"in", "served", "failed"} /\ waiter' = Notified
      /\ cmd' = [cmd EXCEPT ![c] = NoCommand]
      /\ install' = IF c \in install.call THEN NoInstall ELSE install
  BY DEF Leave, Drop
<1>1. UpdateInv' /\ Awaited' /\ ClosedIsIdle'
  BY <1>0, ServiceFrame
<1>2. Holders' = Holders \ {c} /\ c \in Holders
  BY <1>0 DEF ProcessInv, ProcessTypeOK, Holders, NoCommand
<1>3. /\ IsFiniteSet(Holders \ {c}) /\ Cardinality(Holders \ {c}) = active - 1 /\ active # 0
  <2>1. IsFiniteSet(Holders) /\ active = Cardinality(Holders) /\ active \in Nat
    BY DEF ProcessInv, Counted, ProcessTypeOK
  <2>2. active # 0
    BY <1>2, NoneHeld DEF ProcessInv
  <2> QED BY <1>2, <2>1, <2>2, FS_RemoveElement
<1>4. phase' = phase /\ active' = active - 1
  BY <1>3 DEF Leave, Drop
<1>5. ProcessTypeOK'
  <2>1. active' \in Nat
    BY <1>3, <1>4 DEF ProcessInv, ProcessTypeOK
  <2>2. install' \in [call : SUBSET Calls, stage : InstallStages \cup {"none", "failed"}]
    BY <1>0 DEF ProcessInv, ProcessTypeOK, NoInstall
  <2> QED BY <1>0, <1>4, <2>1, <2>2, NotifiedWakes DEF ProcessInv, ProcessTypeOK, NoCommand
<1>6. Counted'
  BY <1>2, <1>3, <1>4 DEF Counted
<1>7. Serving'
  BY <1>0 DEF ProcessInv, ProcessTypeOK, Serving, uvars
<1>8. CASE c \in install.call
  <2>1. install.call = {c} /\ phase = "Exclusive" /\ install.stage = "failed"
    BY <1>0, <1>8, InstallerOf
  <2>2. install' = NoInstall
    BY <1>0, <1>8
  <2>3. InstallOwns'
    BY <2>2 DEF InstallOwns, NoInstall, InstallStages
  <2>4. DrainsSealed'
    BY <1>0, <1>4, <2>1, NotifiedWakes DEF ProcessInv, DrainsSealed
  <2>5. TornDownAlone'
    BY <1>0, <1>2, <1>4, <2>1 DEF ProcessInv, TornDownAlone
  <2> QED BY <2>3, <2>4, <2>5, <1>1, <1>5, <1>6, <1>7, <1>0, NotifiedWakes
             DEF ProcessInv, DrainsAreWoken, ProcessTypeOK
<1>9. CASE c \notin install.call
  <2>1. install' = install
    BY <1>0, <1>9
  <2>2. InstallOwns'
    <3>1. install.stage \notin InstallStages \ {"draining"}
      BY <1>2, <1>9 DEF ProcessInv, InstallOwns
    <3>2. \A d \in Calls : d # c => cmd'[d] = cmd[d]
      BY <1>0 DEF ProcessInv, ProcessTypeOK
    <3> QED BY <1>4, <1>9, <2>1, <3>1, <3>2 DEF ProcessInv, InstallOwns
  <2>4. DrainsSealed'
    BY <1>0, <1>4, <2>1, NotifiedWakes DEF ProcessInv, DrainsSealed
  <2>5. TornDownAlone'
    BY <1>0, <1>2, <1>4, <2>1 DEF ProcessInv, TornDownAlone
  <2> QED BY <2>2, <2>4, <2>5, <1>1, <1>5, <1>6, <1>7, <1>0, NotifiedWakes
             DEF ProcessInv, DrainsAreWoken, ProcessTypeOK
<1> QED BY <1>8, <1>9

\* What the update service is busy with stays awaited as calls come and go.
LEMMA UpdateAwaited ==
    ASSUME ProcessInv, NEW c \in Calls, BeginUpdate(c) \/ FinishUpdate(c)
    PROVE  Awaited' /\ ClosedIsIdle'
<1> USE DEF ProcessInv, UpdateInv, UpdateTypeOK, UpdateStates, UpdateCalls, Tasks
<1>1. ASSUME BeginCheck(c) PROVE Awaited' /\ ClosedIsIdle'
  <2>1. /\ ucall[c] = NoCall /\ ~shuttingDown' /\ task' = task
        /\ ucall' = [ucall EXCEPT ![c] = [op |-> "check", gen |-> generation + 1]]
        /\ ustate'.tag = "Checking" /\ ustate'.gen = generation + 1
    BY <1>1 DEF BeginCheck, MayCheck, Idle
  <2>2. ucall'[c] = [op |-> "check", gen |-> ustate'.gen]
    BY <2>1
  <2>3. \A d \in Calls : d # c => ucall'[d] = ucall[d]
    BY <2>1
  <2>4. ucall[c].op = "none"
    BY <2>1 DEF NoCall
  <2> QED BY <2>1, <2>2, <2>3, <2>4 DEF Awaited, ClosedIsIdle
<1>2. ASSUME NEW id \in Generations, BeginDownload(c, id) PROVE Awaited' /\ ClosedIsIdle'
  <2>1. /\ ucall[c] = NoCall /\ ~shuttingDown' /\ ustate.gen = id
        /\ ucall' = [ucall EXCEPT ![c] = [op |-> "download", gen |-> id]]
        /\ ustate' = [ustate EXCEPT !.tag = "Downloading"]
    BY <1>2 DEF BeginDownload
  <2>2. ucall'[c] = [op |-> "download", gen |-> ustate'.gen] /\ ustate'.tag = "Downloading"
    BY <2>1
  <2> QED BY <2>1, <2>2 DEF Awaited, ClosedIsIdle
<1>3. ASSUME ucall[c].op = "check", Return(c), UNCHANGED <<shuttingDown, task>>,
             ustate' = ustate \/ ustate' = Idle \/ (~shuttingDown /\ ustate'.tag = "Announced"),
             StillChecking(c) => ustate'.tag # "Checking"
      PROVE  Awaited' /\ ClosedIsIdle'
  <2>1. \A d \in Calls : d # c => ucall'[d] = ucall[d]
    BY <1>3 DEF Return
  <2>2. \A g : ucall[c] # [op |-> "download", gen |-> g]
    BY <1>3
  <2>3. ucall[c] = [op |-> "check", gen |-> ustate.gen] => ucall[c].gen = ustate.gen
    OBVIOUS
  <2>4. Idle.tag = "Idle"
    BY DEF Idle
  <2> QED BY <1>3, <2>1, <2>2, <2>3, <2>4 DEF Awaited, ClosedIsIdle, StillChecking
<1>4. ASSUME NEW ann \in Announcement, FinishAnnounced(c, ann) PROVE Awaited' /\ ClosedIsIdle'
  <2>1. shuttingDown => ~StillChecking(c)
    BY DEF ClosedIsIdle, StillChecking, Idle
  <2> QED BY <1>3, <1>4, <2>1 DEF FinishAnnounced, Idle
<1>5. ASSUME FinishUpToDate(c) PROVE Awaited' /\ ClosedIsIdle'
  <2>1. shuttingDown => ~StillChecking(c)
    BY DEF ClosedIsIdle, StillChecking, Idle
  <2> QED BY <1>3, <1>5, <2>1 DEF FinishUpToDate, Idle
<1>6. ASSUME FailActive(c) PROVE Awaited' /\ ClosedIsIdle'
  BY <1>3, <1>6 DEF FailActive, Idle
<1>7. ASSUME FinishDownload(c) PROVE Awaited' /\ ClosedIsIdle'
  <2>1. /\ ucall[c].op = "download" /\ task.st = "ended" /\ UNCHANGED <<shuttingDown, task>>
    BY <1>7 DEF FinishDownload
  <2>2. \A d \in Calls : d # c => ucall'[d] = ucall[d]
    BY <1>7 DEF FinishDownload, Return
  <2>3. /\ ustate' = ustate \/ ustate' = Idle \/ (~shuttingDown /\ ustate'.tag = "Verified")
        /\ ustate.tag = "Downloading" /\ ustate.gen = ucall[c].gen => ustate'.tag # "Downloading"
    <3>1. ustate.tag = "Downloading" => ~shuttingDown
      BY DEF ClosedIsIdle, Idle
    <3> QED BY <1>7, <3>1 DEF FinishDownload, Idle
  <2>4. ucall[c] = [op |-> "download", gen |-> ustate.gen] => ucall[c].gen = ustate.gen
    OBVIOUS
  <2>5. \A g : ucall[c] # [op |-> "check", gen |-> g]
    BY <2>1
  <2>6. Idle.tag = "Idle"
    BY DEF Idle
  <2> QED BY <2>1, <2>2, <2>3, <2>4, <2>5, <2>6 DEF Awaited, ClosedIsIdle
<1> QED BY <1>1, <1>2, <1>4, <1>5, <1>6, <1>7 DEF BeginUpdate, FinishUpdate

\* check_for_update and download_announced_update.
LEMMA UpdateCommandInv ==
    ASSUME ProcessInv, NEW c \in Calls, UpdateCommand(c) PROVE ProcessInv'
<1>0. /\ BeginUpdate(c) \/ FinishUpdate(c)
      /\ cmd[c].st \in {"in", "served"}
      /\ cmd' = [cmd EXCEPT ![c].st = "served"]
      /\ UNCHANGED <<phase, active, waiter, install, exit, cleaned>>
  BY DEF UpdateCommand
<1>1. UpdateInv'
  BY <1>0, UpdateNextInv DEF UpdateNext, ProcessInv
<1>2. Awaited' /\ ClosedIsIdle'
  BY <1>0, UpdateAwaited
<1>3. \A d \in Calls : cmd'[d].st = IF d = c THEN "served" ELSE cmd[d].st
  BY <1>0 DEF ProcessInv, ProcessTypeOK
<1>4. ProcessTypeOK'
  BY <1>0 DEF ProcessInv, ProcessTypeOK
<1>5. Holders' = Holders
  BY <1>0, <1>3, SameHolders
<1>6. Counted'
  BY <1>0, <1>5, SameCount DEF ProcessInv
<1>7. Serving'
  <2>1. \A d \in Calls : d # c => ucall'[d] = ucall[d]
    BY <1>0
       DEF BeginUpdate, FinishUpdate, BeginCheck, BeginDownload, FinishAnnounced, FinishUpToDate,
           FailActive, FinishDownload, Return, ProcessInv, UpdateInv, UpdateTypeOK
  <2> QED BY <1>3, <2>1 DEF ProcessInv, Serving
<1>8. InstallOwns'
  BY <1>0, <1>3, <1>5 DEF ProcessInv, InstallOwns
<1>9. DrainsSealed' /\ TornDownAlone' /\ DrainsAreWoken'
  BY <1>0, <1>5 DEF ProcessInv, DrainsSealed, TornDownAlone, DrainsAreWoken, Goal
<1> QED BY <1>1, <1>2, <1>4, <1>6, <1>7, <1>8, <1>9 DEF ProcessInv

\* An invocation that holds its permit changes what it does with it, and the one
\* that installs stays what it is.
LEMMA CommandFrame ==
    ASSUME ProcessInv, NEW c \in Calls, NEW s \in {"validated", "failed"}, NEW i \in Nat,
           c \notin install.call, cmd[c].st \in {"in", "validated"},
           cmd' = [cmd EXCEPT ![c] = [st |-> s, id |-> i]], UNCHANGED uvars,
           UNCHANGED <<phase, active, waiter, install, exit, cleaned>>
    PROVE  ProcessInv'
<1>1. UpdateInv' /\ Awaited' /\ ClosedIsIdle'
  BY ServiceFrame
<1>2. ProcessTypeOK'
  BY DEF ProcessInv, ProcessTypeOK
<1>3. \A d \in Calls : cmd'[d].st = IF d = c THEN s ELSE cmd[d].st
  BY DEF ProcessInv, ProcessTypeOK
<1>4. Holders' = Holders
  BY <1>3, SameHolders
<1>5. Counted'
  BY <1>4, SameCount DEF ProcessInv
<1>6. Serving'
  BY <1>3 DEF ProcessInv, Serving, uvars
<1>7. InstallOwns'
  BY <1>3, <1>4 DEF ProcessInv, InstallOwns
<1>8. DrainsSealed' /\ TornDownAlone' /\ DrainsAreWoken'
  BY <1>4 DEF ProcessInv, DrainsSealed, TornDownAlone, DrainsAreWoken, Goal
<1> QED BY <1>1, <1>2, <1>5, <1>6, <1>7, <1>8 DEF ProcessInv

\* validate_install.
LEMMA InstallValidateInv ==
    ASSUME ProcessInv, NEW c \in Calls, NEW id \in Generations, InstallValidate(c, id)
    PROVE  ProcessInv'
<1>1. id \in Nat
  BY UpdateAssumption DEF Generations
<1>2. c \notin install.call
  BY InstallerOf DEF InstallValidate
<1> QED BY <1>1, <1>2, CommandFrame DEF InstallValidate

\* The seal of an installation: the winner owns the process.
LEMMA InstallSealInv ==
    ASSUME ProcessInv, NEW c \in Calls, InstallSeal(c) PROVE ProcessInv'
<1>0. /\ UNCHANGED uvars /\ UNCHANGED <<active, exit, cleaned>> /\ cmd[c].st = "validated"
  BY DEF InstallSeal
<1>1. UpdateInv' /\ Awaited' /\ ClosedIsIdle'
  BY <1>0, ServiceFrame
<1>2. CASE ~Sealable
  <2>1. cmd[c] = [st |-> "validated", id |-> cmd[c].id] /\ cmd[c].id \in Nat
    BY <1>0 DEF ProcessInv, ProcessTypeOK
  <2>2. cmd' = [cmd EXCEPT ![c] = [st |-> "failed", id |-> cmd[c].id]]
    BY <1>2, <2>1 DEF InstallSeal, ProcessInv, ProcessTypeOK
  <2>3. c \notin install.call
    BY <1>0, InstallerOf
  <2>4. UNCHANGED <<phase, install, waiter>>
    BY <1>2 DEF InstallSeal
  <2> QED BY <1>0, <2>1, <2>2, <2>3, <2>4, CommandFrame
<1>3. CASE Sealable
  <2>1. /\ phase = "Running" /\ phase' = "Exclusive"
        /\ cmd' = [cmd EXCEPT ![c].st = "installing"]
        /\ install' = [call |-> {c}, stage |-> "draining"]
        /\ waiter' = [Notified EXCEPT !["install"] = "looping"]
    BY <1>3 DEF InstallSeal, Sealable
  <2>2. /\ install = NoInstall /\ cleaned = {} /\ exit.stage \notin ExitStages
    BY <2>1, RunningIsOpen
  <2>3. ProcessTypeOK'
    BY <1>0, <2>1, NotifiedWakes DEF ProcessInv, ProcessTypeOK, InstallStages
  <2>4. \A d \in Calls : cmd'[d].st = IF d = c THEN "installing" ELSE cmd[d].st
    BY <2>1 DEF ProcessInv, ProcessTypeOK
  <2>5. Holders' = Holders
    BY <1>0, <2>4, SameHolders
  <2>6. Counted'
    BY <1>0, <2>5, SameCount DEF ProcessInv
  <2>7. Serving'
    BY <1>0, <2>4 DEF ProcessInv, Serving, uvars
  <2>8. InstallOwns'
    BY <2>1, <2>4 DEF InstallOwns, InstallStages
  <2>9. DrainsSealed' /\ TornDownAlone'
    BY <1>0, <2>1, <2>2 DEF DrainsSealed, TornDownAlone
  <2>10. DrainsAreWoken'
    BY <2>1, <2>3, NotifiedWakes DEF ProcessInv, DrainsAreWoken, ProcessTypeOK
  <2> QED BY <1>1, <2>3, <2>6, <2>7, <2>8, <2>9, <2>10 DEF ProcessInv
<1> QED BY <1>2, <1>3

\* The installation fails and its call goes on to return.
LEMMA InstallFailsInv ==
    ASSUME ProcessInv, NEW c \in install.call, InstallFails(c), waiter["install"] = "none"
    PROVE  ProcessInv'
<1>0. /\ UNCHANGED uvars /\ UNCHANGED <<phase, active, waiter, exit, cleaned>>
      /\ install' = [install EXCEPT !.stage = "failed"]
      /\ cmd' = [cmd EXCEPT ![c].st = "failed"]
  BY DEF InstallFails
<1>1. UpdateInv' /\ Awaited' /\ ClosedIsIdle'
  BY <1>0, ServiceFrame
<1>2. /\ c \in Calls /\ install.call = {c} /\ phase = "Exclusive"
      /\ cmd[c].st \in {"installing", "failed"}
  BY InstallerOf
<1>3. install'.call = {c} /\ install'.stage = "failed"
  BY <1>0, <1>2 DEF ProcessInv, ProcessTypeOK
<1>4. \A d \in Calls : cmd'[d].st = IF d = c THEN "failed" ELSE cmd[d].st
  BY <1>0, <1>2 DEF ProcessInv, ProcessTypeOK
<1>5. ProcessTypeOK'
  BY <1>0, <1>2 DEF ProcessInv, ProcessTypeOK
<1>6. Holders' = Holders
  BY <1>2, <1>4, SameHolders
<1>7. Counted'
  BY <1>0, <1>6, SameCount DEF ProcessInv
<1>8. Serving'
  BY <1>0, <1>2, <1>4 DEF ProcessInv, Serving, uvars
<1>9. InstallOwns'
  BY <1>0, <1>2, <1>3, <1>4 DEF InstallOwns, InstallStages
<1>10. DrainsSealed' /\ TornDownAlone'
  BY <1>0, <1>2, <1>3, <1>6 DEF ProcessInv, DrainsSealed, TornDownAlone
<1>11. DrainsAreWoken'
  BY <1>0 DEF ProcessInv, DrainsAreWoken, Goal
<1> QED BY <1>1, <1>5, <1>7, <1>8, <1>9, <1>10, <1>11 DEF ProcessInv

\* An installation past its drain goes on to its next step, alone in the process.
LEMMA InstallAtInv ==
    ASSUME ProcessInv, NEW c \in install.call,
           NEW s \in InstallStages \ {"draining"}, NEW to \in InstallStages \ {"draining"},
           InstallAt(s, to), UNCHANGED cmd, cleaned' = cleaned \/ phase # "Running",
           UpdateInv', Awaited', ClosedIsIdle', ucall' = ucall
    PROVE  ProcessInv'
<1>0. /\ UNCHANGED <<phase, active, waiter, exit>> /\ install.stage = s
      /\ install' = [install EXCEPT !.stage = to]
  BY DEF InstallAt
<1>1. install'.call = install.call /\ install'.stage = to
  BY <1>0 DEF ProcessInv, ProcessTypeOK
<1>2. ProcessTypeOK'
  BY <1>0 DEF ProcessInv, ProcessTypeOK
<1>3. Holders' = Holders
  BY DEF Holders
<1>4. Counted' /\ Serving'
  BY <1>0, <1>3, SameCount DEF ProcessInv, Serving
<1>5. s \notin {"draining", "none", "failed"} /\ to \notin {"draining", "none", "failed"}
  BY DEF InstallStages
<1>6. Holders = install.call
  BY <1>0 DEF ProcessInv, InstallOwns
<1>7. InstallOwns'
  BY <1>0, <1>1, <1>3, <1>5, <1>6 DEF ProcessInv, InstallOwns
<1>8. DrainsSealed'
  BY <1>0, <1>5 DEF ProcessInv, DrainsSealed
<1>9. TornDownAlone'
  BY <1>0, <1>1, <1>3, <1>6 DEF ProcessInv, TornDownAlone
<1>10. DrainsAreWoken'
  BY <1>0 DEF ProcessInv, DrainsAreWoken, Goal
<1> QED BY <1>2, <1>4, <1>7, <1>8, <1>9, <1>10 DEF ProcessInv

\* consume_install, by the call that owns the process.
LEMMA InstallConsumeInv ==
    ASSUME ProcessInv, NEW c \in Calls, InstallConsume(c) PROVE ProcessInv'
<1>0. c \in install.call /\ install.stage = "drained"
  BY DEF InstallConsume
<1>1. CASE ValidInstall(cmd[c].id)
  <2>1. /\ ConsumeInstall(cmd[c].id) /\ InstallAt("drained", "application")
        /\ UNCHANGED <<cmd, cleaned>>
    BY <1>1 DEF InstallConsume
  <2>2. UpdateInv'
    BY <2>1, ConsumeInstallInv DEF ProcessInv
  <2>3. Awaited' /\ ClosedIsIdle' /\ ucall' = ucall
    <3>1. ustate.tag = "Verified" /\ UNCHANGED <<shuttingDown, ucall, task>>
      BY <2>1 DEF ConsumeInstall
    <3>2. ustate'.tag \in {"Installing", "Idle"}
      BY <2>1 DEF ConsumeInstall, Installing, Idle
    <3>3. ~shuttingDown
      BY <3>1 DEF ProcessInv, ClosedIsIdle, Idle
    <3> QED BY <3>1, <3>2, <3>3 DEF ProcessInv, Awaited, ClosedIsIdle
  <2> QED BY <1>0, <2>1, <2>2, <2>3, InstallAtInv DEF InstallStages
<1>2. CASE ~ValidInstall(cmd[c].id)
  <2>1. InstallFails(c) /\ waiter["install"] = "none"
    BY <1>0, <1>2 DEF InstallConsume, ProcessInv, DrainsSealed
  <2> QED BY <1>0, <2>1, InstallFailsInv
<1> QED BY <1>1, <1>2

\* A step of run_after_consumption.
LEMMA InstallCleanupInv ==
    ASSUME ProcessInv, NEW c \in Calls, InstallCleanup(c) PROVE ProcessInv'
<1>0. PICK step \in CleanupSteps("invoking") :
        /\ c \in install.call /\ install.stage = step[1]
        /\ \/ /\ InstallAt(step[1], step[2])
              /\ cleaned' = cleaned \cup {step[1]}
              /\ UNCHANGED <<uvars, cmd, exited>>
           \/ InstallFails(c)
  BY DEF InstallCleanup
<1>1. step[1] \in InstallStages \ {"draining"} /\ step[2] \in InstallStages \ {"draining"}
  BY DEF CleanupSteps, InstallStages
<1>2. CASE InstallFails(c)
  <2>1. waiter["install"] = "none"
    BY <1>0, <1>1 DEF ProcessInv, DrainsSealed
  <2> QED BY <1>0, <1>2, <2>1, InstallFailsInv
<1>3. CASE InstallAt(step[1], step[2]) /\ UNCHANGED uvars /\ UNCHANGED cmd
  <2>1. phase # "Running"
    BY <1>0, InstallerOf
  <2>2. UpdateInv' /\ Awaited' /\ ClosedIsIdle' /\ ucall' = ucall
    BY <1>3, ServiceFrame DEF uvars
  <2> QED BY <1>0, <1>1, <1>3, <2>1, <2>2, InstallAtInv
<1> QED BY <1>0, <1>2, <1>3

\* The installer ends the process, or the installation fails.
LEMMA InstallInvokeInv ==
    ASSUME ProcessInv, NEW c \in Calls, InstallInvoke(c) PROVE ProcessInv'
<1>0. c \in install.call /\ install.stage = "invoking"
  BY DEF InstallInvoke
<1>1. CASE InstallFails(c)
  <2>1. waiter["install"] = "none"
    BY <1>0 DEF ProcessInv, DrainsSealed
  <2> QED BY <1>0, <1>1, <2>1, InstallFailsInv
<1>2. CASE UNCHANGED <<uvars, phase, active, cmd, waiter, install, exit, cleaned>>
  <2>1. UpdateInv' /\ Awaited' /\ ClosedIsIdle'
    BY <1>2, ServiceFrame
  <2>2. Holders' = Holders
    BY <1>2 DEF Holders
  <2> QED BY <1>2, <2>1, <2>2
             DEF ProcessInv, ProcessTypeOK, Counted, Serving, InstallOwns, DrainsSealed,
                 TornDownAlone, DrainsAreWoken, Goal, uvars
<1> QED BY <1>1, <1>2 DEF InstallInvoke

\* A step that changes no more than the loop of a drain and the exit attempt.
LEMMA ExitFrame ==
    ASSUME ProcessInv, UNCHANGED uvars, UNCHANGED <<active, cmd, install>>, ProcessTypeOK',
           InstallOwns', DrainsSealed', TornDownAlone', DrainsAreWoken'
    PROVE  ProcessInv'
<1>1. UpdateInv' /\ Awaited' /\ ClosedIsIdle'
  BY ServiceFrame
<1>2. Counted' /\ Serving'
  BY DEF ProcessInv, Counted, Holders, Serving, uvars
<1> QED BY <1>1, <1>2 DEF ProcessInv

\* A drain subscribes.
LEMMA DrainSubscribeInv ==
    ASSUME ProcessInv, NEW w \in {"exit", "install"}, DrainSubscribe(w) PROVE ProcessInv'
<1>0. /\ waiter[w] = "looping" /\ waiter' = [waiter EXCEPT ![w] = "subscribed"]
      /\ UNCHANGED uvars /\ UNCHANGED <<phase, active, cmd, install, exit, cleaned>>
  BY DEF DrainSubscribe
<1>1. ProcessTypeOK'
  BY <1>0 DEF ProcessInv, ProcessTypeOK
<1>2. Holders' = Holders
  BY <1>0 DEF Holders
<1>3. InstallOwns' /\ TornDownAlone'
  BY <1>0, <1>2 DEF ProcessInv, InstallOwns, TornDownAlone
<1>4. DrainsSealed' /\ DrainsAreWoken'
  BY <1>0 DEF ProcessInv, ProcessTypeOK, DrainsSealed, DrainsAreWoken, Goal
<1> QED BY <1>0, <1>1, <1>3, <1>4, ExitFrame

\* The drain of the exit attempt looks at the count: at zero nobody holds a permit,
\* so nobody installs either.
LEMMA ExitDrainCheckInv ==
    ASSUME ProcessInv, DrainCheck("exit") PROVE ProcessInv'
<1>0. /\ UNCHANGED uvars /\ UNCHANGED <<active, cmd, install, cleaned>>
      /\ waiter["exit"] \in {"subscribed", "notified"}
  BY DEF DrainCheck
<1>2. Holders' = Holders
  BY <1>0 DEF Holders
<1>3. phase # "Running"
  BY <1>0 DEF ProcessInv, DrainsSealed
<1>4. CASE active = 0
  <2>1. /\ phase' = "Quiesced" /\ waiter' = [waiter EXCEPT !["exit"] = "none"]
        /\ exit' = [exit EXCEPT !.stage = "updates"]
    BY <1>4 DEF DrainCheck, Goal
  <2>2. Holders = {}
    BY <1>4, NoneHeld DEF ProcessInv
  <2>3. install = NoInstall
    BY <2>2 DEF ProcessInv, InstallOwns, Holders
  <2>4. ProcessTypeOK'
    BY <1>0, <2>1 DEF ProcessInv, ProcessTypeOK, ExitStages
  <2>5. InstallOwns'
    BY <1>0, <2>3 DEF InstallOwns, NoInstall, InstallStages
  <2>6. DrainsSealed' /\ DrainsAreWoken'
    BY <1>0, <2>1 DEF ProcessInv, ProcessTypeOK, DrainsSealed, DrainsAreWoken, Goal
  <2>7. TornDownAlone'
    BY <1>2, <2>1, <2>2 DEF TornDownAlone
  <2> QED BY <1>0, <2>4, <2>5, <2>6, <2>7, ExitFrame
<1>5. CASE active # 0
  <2>1. /\ \E s \in {"looping", "parked"} : waiter' = [waiter EXCEPT !["exit"] = s]
        /\ UNCHANGED <<phase, exit>>
    BY <1>5 DEF DrainCheck, Goal
  <2>2. ProcessTypeOK'
    BY <1>0, <2>1 DEF ProcessInv, ProcessTypeOK
  <2>3. InstallOwns' /\ TornDownAlone'
    BY <1>0, <1>2, <2>1 DEF ProcessInv, InstallOwns, TornDownAlone
  <2>4. DrainsSealed' /\ DrainsAreWoken'
    BY <1>0, <1>3, <1>5, <2>1 DEF ProcessInv, ProcessTypeOK, DrainsSealed, DrainsAreWoken, Goal
  <2> QED BY <1>0, <2>2, <2>3, <2>4, ExitFrame
<1> QED BY <1>4, <1>5

\* The drain of the installing call looks at the count: at one, the permit is its
\* own.
LEMMA InstallDrainCheckInv ==
    ASSUME ProcessInv, DrainCheck("install") PROVE ProcessInv'
<1>0. /\ UNCHANGED uvars /\ UNCHANGED <<active, cmd, exit, phase, cleaned>>
      /\ waiter["install"] \in {"subscribed", "notified"}
  BY DEF DrainCheck
<1>1. UpdateInv' /\ Awaited' /\ ClosedIsIdle'
  BY <1>0, ServiceFrame
<1>2. Holders' = Holders
  BY <1>0 DEF Holders
<1>3. phase # "Running" /\ install.stage = "draining"
  BY <1>0 DEF ProcessInv, DrainsSealed
<1>4. PICK c \in Calls : install.call = {c} /\ cmd[c].st = "installing" /\ phase = "Exclusive"
  BY <1>3 DEF ProcessInv, InstallOwns
<1>5. Counted' /\ Serving'
  BY <1>0, <1>2 DEF ProcessInv, Counted, Serving, uvars
<1>6. CASE active = 1
  <2>1. /\ waiter' = [waiter EXCEPT !["install"] = "none"]
        /\ install' = [install EXCEPT !.stage = "drained"]
    BY <1>6 DEF DrainCheck, Goal
  <2>2. Holders = {c}
    <3>1. c \in Holders
      BY <1>4 DEF Holders
    <3> QED BY <1>6, <3>1, OneHeld DEF ProcessInv
  <2>3. install'.call = {c} /\ install'.stage = "drained"
    BY <1>4, <2>1 DEF ProcessInv, ProcessTypeOK
  <2>4. ProcessTypeOK'
    BY <1>0, <2>1 DEF ProcessInv, ProcessTypeOK, InstallStages
  <2>5. InstallOwns'
    BY <1>0, <1>2, <1>4, <2>2, <2>3 DEF InstallOwns
  <2>6. DrainsSealed' /\ DrainsAreWoken'
    BY <1>0, <2>1 DEF ProcessInv, ProcessTypeOK, DrainsSealed, DrainsAreWoken, Goal
  <2>7. TornDownAlone'
    BY <1>0, <1>2, <1>4, <2>2, <2>3 DEF ProcessInv, TornDownAlone
  <2> QED BY <1>1, <1>5, <2>4, <2>5, <2>6, <2>7 DEF ProcessInv
<1>7. CASE active # 1
  <2>1. /\ \E s \in {"looping", "parked"} : waiter' = [waiter EXCEPT !["install"] = s]
        /\ UNCHANGED install
    BY <1>7 DEF DrainCheck, Goal
  <2>2. ProcessTypeOK'
    BY <1>0, <2>1 DEF ProcessInv, ProcessTypeOK
  <2>3. InstallOwns' /\ TornDownAlone'
    BY <1>0, <1>2, <2>1 DEF ProcessInv, InstallOwns, TornDownAlone
  <2>4. DrainsSealed' /\ DrainsAreWoken'
    BY <1>0, <1>3, <1>7, <2>1 DEF ProcessInv, ProcessTypeOK, DrainsSealed, DrainsAreWoken, Goal
  <2> QED BY <1>0, <2>1, <2>2, <2>3, <2>4, ExitFrame
<1> QED BY <1>6, <1>7

\* COMMAND_DRAIN_TIMEOUT.
LEMMA DrainTimeoutInv ==
    ASSUME ProcessInv, NEW w \in {"exit", "install"}, DrainTimeout(w) PROVE ProcessInv'
<1>0. /\ waiter[w] = "parked" /\ waiter' = [waiter EXCEPT ![w] = "none"] /\ DrainFails(w)
      /\ UNCHANGED uvars /\ UNCHANGED <<phase, active, cleaned>>
  BY DEF DrainTimeout
<1>1. UpdateInv' /\ Awaited' /\ ClosedIsIdle'
  BY <1>0, ServiceFrame
<1>2. CASE w = "exit"
  <2>1. exit' = [exit EXCEPT !.running = FALSE, !.stage = "none"] /\ UNCHANGED <<cmd, install>>
    BY <1>0, <1>2 DEF DrainFails
  <2>2. Holders' = Holders
    BY <2>1 DEF Holders
  <2>3. ProcessTypeOK' /\ exit'.stage = "none"
    BY <1>0, <2>1 DEF ProcessInv, ProcessTypeOK
  <2>4. InstallOwns'
    BY <1>0, <2>1, <2>2 DEF ProcessInv, InstallOwns
  <2>5. TornDownAlone'
    BY <1>0, <2>1, <2>2, <2>3 DEF ProcessInv, TornDownAlone, ExitStages
  <2>6. DrainsSealed' /\ DrainsAreWoken'
    BY <1>0, <2>1 DEF ProcessInv, ProcessTypeOK, DrainsSealed, DrainsAreWoken, Goal
  <2> QED BY <1>0, <2>1, <2>3, <2>4, <2>5, <2>6, ExitFrame
<1>3. CASE w = "install"
  <2>1. /\ install' = [install EXCEPT !.stage = "failed"] /\ UNCHANGED exit
        /\ cmd' = [c \in Calls |-> IF c \in install.call THEN [cmd[c] EXCEPT !.st = "failed"]
                                                         ELSE cmd[c]]
    BY <1>0, <1>3 DEF DrainFails
  <2>2. phase # "Running" /\ install.stage = "draining"
    BY <1>0, <1>3 DEF ProcessInv, DrainsSealed
  <2>3. PICK c \in Calls : install.call = {c} /\ cmd[c].st = "installing" /\ phase = "Exclusive"
    BY <2>2 DEF ProcessInv, InstallOwns
  <2>4. \A d \in Calls : cmd'[d].st = IF d = c THEN "failed" ELSE cmd[d].st
    BY <2>1, <2>3 DEF ProcessInv, ProcessTypeOK
  <2>5. install'.call = {c} /\ install'.stage = "failed"
    BY <2>1, <2>3 DEF ProcessInv, ProcessTypeOK
  <2>6. ProcessTypeOK'
    BY <1>0, <2>1 DEF ProcessInv, ProcessTypeOK
  <2>7. Holders' = Holders
    BY <2>3, <2>4, SameHolders
  <2>8. Counted'
    BY <1>0, <2>7, SameCount DEF ProcessInv
  <2>9. Serving'
    BY <1>0, <2>3, <2>4 DEF ProcessInv, Serving, uvars
  <2>10. InstallOwns'
    BY <1>0, <2>3, <2>4, <2>5 DEF InstallOwns, InstallStages
  <2>11. TornDownAlone'
    BY <1>0, <2>1, <2>3, <2>5, <2>7 DEF ProcessInv, TornDownAlone
  <2>12. DrainsSealed' /\ DrainsAreWoken'
    BY <1>0, <1>3 DEF ProcessInv, ProcessTypeOK, DrainsSealed, DrainsAreWoken, Goal
  <2> QED BY <1>1, <2>6, <2>8, <2>9, <2>10, <2>11, <2>12 DEF ProcessInv
<1> QED BY <1>2, <1>3

\* A stage of the exit attempt is left for another, or the attempt ends.
LEMMA ExitStageInv ==
    ASSUME ProcessInv, UNCHANGED uvars, UNCHANGED <<phase, active, cmd, waiter, install>>,
           exit' \in [running : BOOLEAN, complete : BOOLEAN,
                      stage : ExitStages \cup {"none", "sealing", "draining", "closing"}],
           exit'.stage \in ExitStages => exit.stage \in ExitStages,
           cleaned' = cleaned \/ exit.stage \in ExitStages
    PROVE  ProcessInv'
<1>1. ProcessTypeOK'
  BY DEF ProcessInv, ProcessTypeOK
<1>2. Holders' = Holders
  BY DEF Holders
<1>3. InstallOwns'
  BY <1>2 DEF ProcessInv, InstallOwns
<1>4. TornDownAlone'
  BY <1>2 DEF ProcessInv, TornDownAlone
<1>5. DrainsSealed' /\ DrainsAreWoken'
  BY DEF ProcessInv, ProcessTypeOK, DrainsSealed, DrainsAreWoken, Goal
<1> QED BY <1>1, <1>3, <1>4, <1>5, ExitFrame

\* ExitCoordinator::request.
LEMMA ExitRequestInv ==
    ASSUME ProcessInv, ExitRequest PROVE ProcessInv'
<1>1. /\ UNCHANGED uvars /\ UNCHANGED <<phase, active, cmd, waiter, install, cleaned>>
      /\ exit' = [exit EXCEPT !.running = TRUE, !.stage = "sealing"]
  BY DEF ExitRequest
<1>2. /\ exit' \in [running : BOOLEAN, complete : BOOLEAN,
                    stage : ExitStages \cup {"none", "sealing", "draining", "closing"}]
      /\ exit'.stage = "sealing"
  BY <1>1 DEF ProcessInv, ProcessTypeOK
<1> QED BY <1>1, <1>2, ExitStageInv DEF ExitStages

\* The exit attempt seals admission, unless an installation has.
LEMMA ExitSealInv ==
    ASSUME ProcessInv, ExitSeal PROVE ProcessInv'
<1>0. /\ UNCHANGED uvars /\ UNCHANGED <<active, cmd, install, cleaned>>
      /\ exit' = [exit EXCEPT !.stage = "draining"]
      /\ phase' = (IF phase = "Running" THEN "Sealed" ELSE phase)
      /\ waiter' = [waiter EXCEPT !["exit"] = "looping"]
  BY DEF ExitSeal, ExitAt
<1>1. ProcessTypeOK' /\ exit'.stage = "draining"
  BY <1>0 DEF ProcessInv, ProcessTypeOK
<1>2. Holders' = Holders
  BY <1>0 DEF Holders
<1>3. InstallOwns'
  BY <1>0, <1>2 DEF ProcessInv, InstallOwns
<1>4. TornDownAlone'
  BY <1>0, <1>1, <1>2 DEF ProcessInv, TornDownAlone, ExitStages
<1>5. DrainsSealed' /\ DrainsAreWoken'
  BY <1>0 DEF ProcessInv, ProcessTypeOK, DrainsSealed, DrainsAreWoken, Goal
<1> QED BY <1>0, <1>1, <1>3, <1>4, <1>5, ExitFrame

\* Nobody is left in a quiesced process, so the update service is not busy.
LEMMA QuiescedServiceIdle ==
    ASSUME ProcessInv, phase = "Quiesced"
    PROVE  /\ ustate.tag \notin {"Checking", "Downloading"} /\ task.st \in {"none", "ended"}
<1>1. \A c \in Calls : cmd[c].st = "out"
  BY DEF ProcessInv, TornDownAlone, Holders
<1>2. \A c \in Calls : ucall[c] = NoCall
  BY <1>1 DEF ProcessInv, Serving
<1>3. \A c \in Calls : ucall[c].op = "none"
  BY <1>2 DEF NoCall
<1>4. ustate.tag \notin {"Checking", "Downloading"}
  BY <1>3 DEF ProcessInv, Awaited
<1>5. task.st \notin {"running", "verifying", "dropping"}
  BY <1>3 DEF ProcessInv, Awaited
<1> QED BY <1>4, <1>5 DEF ProcessInv, UpdateInv, UpdateTypeOK, Tasks

\* The exit attempt shuts the update service down and finds no download to wait for.
LEMMA ExitUpdatesInv ==
    ASSUME ProcessInv, ExitUpdates PROVE ProcessInv'
<1>0. /\ exit.stage = "updates" /\ ShutdownBegin
      /\ UNCHANGED <<phase, active, cmd, waiter, install, cleaned>>
  BY DEF ExitUpdates, ExitAt
<1>1. phase = "Quiesced"
  BY <1>0 DEF ProcessInv, TornDownAlone, ExitStages
<1>2. ustate.tag \notin {"Checking", "Downloading"} /\ task.st \in {"none", "ended"}
  BY <1>1, QuiescedServiceIdle
<1>3. ustate' = Idle /\ UNCHANGED <<task, ucall>>
  BY <1>0, <1>2 DEF ShutdownBegin
<1>4. exit' = [exit EXCEPT !.stage = "application"]
  BY <1>2 DEF ExitUpdates, ExitAt
<1>5. UpdateInv'
  BY <1>0, ShutdownBeginInv DEF ProcessInv
<1>6. Awaited' /\ ClosedIsIdle'
  BY <1>2, <1>3 DEF ProcessInv, Awaited, ClosedIsIdle, Idle
<1>7. ProcessTypeOK' /\ exit'.stage = "application"
  BY <1>0, <1>4 DEF ProcessInv, ProcessTypeOK, ExitStages
<1>8. Holders' = Holders
  BY <1>0 DEF Holders
<1>9. Counted' /\ Serving'
  BY <1>0, <1>3, <1>8 DEF ProcessInv, Counted, Serving
<1>10. InstallOwns'
  BY <1>0, <1>8 DEF ProcessInv, InstallOwns
<1>11. TornDownAlone'
  BY <1>0, <1>1, <1>8 DEF ProcessInv, TornDownAlone
<1>12. DrainsSealed' /\ DrainsAreWoken'
  BY <1>0 DEF ProcessInv, ProcessTypeOK, DrainsSealed, DrainsAreWoken, Goal
<1> QED BY <1>5, <1>6, <1>7, <1>9, <1>10, <1>11, <1>12 DEF ProcessInv

\* A cleanup step of the exit attempt, its completion, and the exit itself.
LEMMA ExitCleanupInv ==
    ASSUME ProcessInv, ExitCleanup \/ ExitComplete \/ FinalExit PROVE ProcessInv'
<1> DEFINE Exits == [running : BOOLEAN, complete : BOOLEAN,
                     stage : ExitStages \cup {"none", "sealing", "draining", "closing"}]
<1>0. exit \in Exits
  BY DEF ProcessInv, ProcessTypeOK
<1>1. ASSUME NEW step \in CleanupSteps("completing"), exit.stage = step[1],
             ExitAt(step[1], step[2]), UNCHANGED uvars,
             UNCHANGED <<phase, active, cmd, waiter, install>>
      PROVE  ProcessInv'
  <2>1. step[1] \in ExitStages /\ step[2] \in ExitStages
    BY DEF CleanupSteps, ExitStages
  <2>2. exit' \in Exits
    BY <1>0, <1>1, <2>1 DEF ExitAt
  <2> QED BY <1>1, <2>1, <2>2, ExitStageInv
<1>2. ASSUME ExitFails PROVE ProcessInv'
  <2>1. exit' \in Exits /\ exit'.stage = "none"
    BY <1>0, <1>2 DEF ExitFails
  <2> QED BY <1>2, <2>1, ExitStageInv DEF ExitFails, ExitStages
<1>3. ASSUME ExitCleanup PROVE ProcessInv'
  BY <1>1, <1>2, <1>3 DEF ExitCleanup
<1>4. ASSUME ExitComplete PROVE ProcessInv'
  <2>1. exit' \in Exits /\ exit'.stage = "none"
    BY <1>4 DEF ExitComplete
  <2> QED BY <1>4, <2>1, ExitStageInv DEF ExitComplete, ExitStages
<1>5. ASSUME FinalExit PROVE ProcessInv'
  <2>1. exit' = exit
    BY <1>5 DEF FinalExit
  <2> QED BY <1>0, <1>5, <2>1, ExitStageInv DEF FinalExit
<1> QED BY <1>3, <1>4, <1>5

\* The download task works on while a call awaits it.
LEMMA ProcessTaskInv ==
    ASSUME ProcessInv, TaskStep, UNCHANGED lvars PROVE ProcessInv'
<1>1. UpdateInv'
  BY TaskStepInv DEF ProcessInv
<1>2. UNCHANGED <<shuttingDown, ustate, ucall>>
  BY DEF TaskStep, ReceiveChunk, DownloadFails, TaskAborted, StartVerifying, FinishVerifying,
         TaskNotifies, TaskEnds
<1>3. task'.st \in {"running", "verifying", "dropping"} =>
        task.st \in {"running", "verifying", "dropping"}
  BY DEF TaskStep, ReceiveChunk, DownloadFails, TaskAborted, StartVerifying, FinishVerifying,
         TaskNotifies, TaskEnds, ProcessInv, UpdateInv, UpdateTypeOK, Tasks
<1>4. Awaited' /\ ClosedIsIdle'
  BY <1>2, <1>3 DEF ProcessInv, Awaited, ClosedIsIdle
<1>5. Holders' = Holders
  BY DEF Holders, lvars
<1> QED BY <1>1, <1>2, <1>4, <1>5
           DEF ProcessInv, ProcessTypeOK, Counted, Serving, InstallOwns, DrainsSealed,
               TornDownAlone, DrainsAreWoken, Goal, lvars

\* Every step of the process keeps its invariant.
LEMMA ProcessNextInv ==
    ASSUME ProcessInv, [ProcessNext]_pvars PROVE ProcessInv'
<1>1. ASSUME NEW c \in Calls, Admit(c) \/ CommandStep(c) PROVE ProcessInv'
  BY <1>1, AdmitInv, LeaveInv, UpdateCommandInv, InstallValidateInv, InstallSealInv,
     InstallConsumeInv, InstallCleanupInv, InstallInvokeInv
     DEF CommandStep
<1>2. ASSUME DrainStep PROVE ProcessInv'
  BY <1>2, DrainSubscribeInv, ExitDrainCheckInv, InstallDrainCheckInv, DrainTimeoutInv
     DEF DrainStep
<1>3. ASSUME ExitStep PROVE ProcessInv'
  BY <1>3, ExitSealInv, ExitUpdatesInv, ExitCleanupInv DEF ExitStep
<1>4. ASSUME UNCHANGED pvars PROVE ProcessInv'
  <2>1. UpdateInv' /\ Awaited' /\ ClosedIsIdle'
    BY <1>4, ServiceFrame DEF pvars
  <2>2. Holders' = Holders
    BY <1>4 DEF Holders, pvars, lvars
  <2> QED BY <1>4, <2>1, <2>2
             DEF ProcessInv, ProcessTypeOK, Counted, Serving, InstallOwns, DrainsSealed,
                 TornDownAlone, DrainsAreWoken, Goal, pvars, lvars, uvars
<1> QED BY <1>1, <1>2, <1>3, <1>4, ProcessTaskInv, ExitRequestInv DEF ProcessNext

\* The invariant of the process holds always.
LEMMA ProcessInvHolds == ProcessSpec => []ProcessInv
<1>1. ProcessInit => ProcessInv
  BY ProcessInitInv
<1>2. ProcessInv /\ [ProcessNext]_pvars => ProcessInv'
  BY ProcessNextInv
<1> QED BY <1>1, <1>2, PTL DEF ProcessSpec

\* seal_and_drain returns only when no command can still be working: no permit is
\* held, and the update service has no check or download under way.
THEOREM DrainedAlwaysQuiet == ProcessSpec => []DrainedIsQuiet
<1>1. ProcessInv => DrainedIsQuiet
  BY QuiescedServiceIdle DEF ProcessInv, TornDownAlone, DrainedIsQuiet
<1> QED BY <1>1, ProcessInvHolds, PTL

\* run_after_consumption and run_exit_attempt tear resources down only when no
\* command can be using them, and never both.
THEOREM CleanupAlwaysAlone == ProcessSpec => []CleanupRunsAlone
<1>1. ProcessInv => CleanupRunsAlone
  <2> SUFFICES ASSUME ProcessInv PROVE CleanupRunsAlone
    OBVIOUS
  <2>1. install.stage \in {"drained", "application", "grants", "log", "invoking"} =>
          phase = "Exclusive" /\ Holders = install.call
    BY DEF ProcessInv, InstallOwns, InstallStages
  <2>2. exit.stage \in {"updates", "application", "grants", "log", "completing"} =>
          phase = "Quiesced" /\ Holders = {} /\ install = NoInstall
    BY DEF ProcessInv, TornDownAlone, ExitStages, InstallOwns
  <2>3. cleaned # {} => Holders \subseteq install.call
    BY DEF ProcessInv, TornDownAlone
  <2> QED BY <2>1, <2>2, <2>3 DEF CleanupRunsAlone
<1> QED BY <1>1, ProcessInvHolds, PTL

\* CommandPermit's drop notifies, and a drain subscribes before it looks at the
\* count, so that none sleeps on once its goal is reached.
THEOREM DrainsAlwaysWoken == ProcessSpec => []DrainsAreWoken
<1>1. ProcessInv => DrainsAreWoken
  BY DEF ProcessInv
<1> QED BY <1>1, ProcessInvHolds, PTL

\* In the process, too, an installer is handed only the announced version, and once.
THEOREM ProcessInstallsAnnounced == ProcessSpec => []InstallsAnnouncedVersion
<1>1. ProcessInv => InstallsAnnouncedVersion
  BY UpdateInvInstalls DEF ProcessInv
<1> QED BY <1>1, ProcessInvHolds, PTL

\* Once the exit attempt has shut the update service down it stays down.
THEOREM ProcessClosedForGood == ProcessSpec => []ClosedForGood
<1>1. ProcessInv => ClosedForGood
  BY UpdateInvCloses DEF ProcessInv
<1> QED BY <1>1, ProcessInvHolds, PTL

\* LifecycleState::active is the number of permits held, however commands, drains
\* and timeouts interleave: the drop of a permit never finds it at zero.
THEOREM PermitsAlwaysCounted == ProcessSpec => []Counted
<1>1. ProcessInv => Counted
  BY DEF ProcessInv
<1> QED BY <1>1, ProcessInvHolds, PTL

\* Seen from the update service, every step of the process is a step of its own or
\* none: the commands, the installation and the exit attempt use it as its methods
\* allow.
THEOREM ProcessUsesService == ProcessSpec => UpdateInit /\ [][UpdateNext]_uvars
<1>1. ProcessInv /\ [ProcessNext]_pvars => [UpdateNext]_uvars
  <2> SUFFICES ASSUME ProcessInv, [ProcessNext]_pvars, ~UNCHANGED uvars PROVE UpdateNext
    OBVIOUS
  <2>1. ASSUME NEW c \in Calls, UpdateCommand(c) PROVE UpdateNext
    BY <2>1 DEF UpdateCommand, UpdateNext
  <2>2. ASSUME NEW c \in Calls, InstallConsume(c) PROVE UpdateNext
    <3>1. ConsumeInstall(cmd[c].id)
      BY <2>2 DEF InstallConsume, InstallFails
    <3>2. cmd[c].id = ustate.gen /\ ustate.tag = "Verified"
      BY <3>1 DEF ConsumeInstall
    <3>3. cmd[c].id \in Generations
      BY <3>2 DEF ProcessInv, UpdateInv, Named
    <3> QED BY <3>1, <3>3 DEF UpdateNext
  <2>3. ASSUME ExitUpdates PROVE UpdateNext
    BY <2>3 DEF ExitUpdates, UpdateNext
  <2>4. ASSUME NEW c \in Calls, Admit(c) \/ CommandStep(c) PROVE UpdateNext
    BY <2>1, <2>2, <2>4
       DEF CommandStep, Admit, Leave, InstallValidate, InstallSeal, InstallCleanup, InstallInvoke,
           InstallFails
  <2>5. ASSUME ExitStep PROVE UpdateNext
    BY <2>3, <2>5 DEF ExitStep, ExitSeal, ExitCleanup, ExitComplete, FinalExit, ExitFails
  <2>6. ~DrainStep /\ ~ExitRequest /\ ~UNCHANGED pvars
    BY DEF DrainStep, DrainSubscribe, DrainCheck, DrainTimeout, ExitRequest, pvars
  <2>7. TaskStep => UpdateNext
    BY DEF UpdateNext
  <2> QED BY <2>4, <2>5, <2>6, <2>7 DEF ProcessNext
<1>2. ProcessInit => UpdateInit
  BY DEF ProcessInit
<1> QED BY <1>1, <1>2, ProcessInvHolds, PTL DEF ProcessSpec

====
