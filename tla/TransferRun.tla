----------------------------- MODULE TransferRun -----------------------------
(***************************************************************************)
(* One reviewed file operation from its plan to its final state: the       *)
(* planning checks of policy.rs, run_upload, run_editor_save, run_download *)
(* and execute_mutation of transfer.rs, and the requests RawSftpClient     *)
(* (client.rs) makes for them.  The manager around the jobs is Transfers.  *)
(*                                                                         *)
(* Other clients of the server, and other programs on this machine, write  *)
(* the same files at any time.  A request is answered Ok, refused with a   *)
(* status, or its reply is lost, and then the server may have done it.     *)
(* A file is known by its version: what was there when the operation was   *)
(* planned ("old"), what somebody else has written since ("foreign", or    *)
(* "touched" when kind, size and modification time are those of "old"), or *)
(* what this operation has put there ("ours").  A Keep both destination is *)
(* the first free candidate name.                                          *)
(***************************************************************************)
EXTENDS Naturals, FiniteSets

CONSTANT MaxForeign  \* bound on the writes of others

ASSUME TransferRunAssumption == MaxForeign \in Nat

VARIABLES
    files,      \* version at the destination, the source and the staging name
    job,        \* the operation
    foreign,    \* writes of others so far
    late,       \* files others have written since the operation last looked
    destroyed,  \* versions it removed or replaced, with whether they were late
    committed   \* it has changed the destination or removed the source

runVars == <<files, job, foreign, late, destroyed, committed>>

Kinds == {"upload", "editor", "download", "mkdir", "rename", "delete"}
Streams == {"upload", "editor", "download"}
Terminal == {"Completed", "Failed", "Cancelled", "OutcomeUnknown"}

\* `action` is the DestinationAction; `error` the class of the AppError that
\* will decide the final state; `content` what was streamed; `accepted` a
\* cancellation that was answered Ok in time; `recheck` the version of the source
\* the check after the stream let pass; `look` the look of an editor save that is
\* under way and `handle` the version it has opened; `kept` that the staged file
\* has the mode and the owner of the text it will replace.
NoJob == [kind |-> "none", action |-> "none", expected |-> "absent", pc |-> "idle",
          state |-> "Queued", cancelled |-> FALSE, accepted |-> FALSE, error |-> "none",
          owned |-> FALSE, unconfirmed |-> FALSE, dropped |-> FALSE, content |-> "none",
          recheck |-> "none", look |-> "none", handle |-> "none", kept |-> FALSE]

RunInit ==
    /\ files \in [dest: {"absent", "old"}, source: {"old"}, staging: {"absent"}]
    /\ job = NoJob
    /\ foreign = 0
    /\ late = {}
    /\ destroyed = {}
    /\ committed = FALSE

\* EntryIdentity, LocalIdentity and EditorRevision: content does not enter.
Revision(version) == IF version = "touched" THEN "old" ELSE version

-----------------------------------------------------------------------------
(***************************************************************************)
(* Planning                                                                *)
(***************************************************************************)
\* plan_upload and plan_download: the conflict policy only chooses the action,
\* and a name that is free is always created, never replaced.
Action(existing, policy) ==
    IF existing = "absent" THEN "CreateNew"
    ELSE CASE policy = "Skip" -> "Skip"
           [] policy = "Replace" -> "ReplaceExisting"
           [] policy = "KeepBoth" -> "CreateNew"

PlanTransfer(kind, policy) ==
    /\ job = NoJob
    /\ kind \in {"upload", "download"}
    /\ LET action == Action(files.dest, policy)
       IN  /\ job' = [NoJob EXCEPT !.kind = kind, !.action = action, !.pc = "queued",
                          !.expected = IF action = "CreateNew" THEN "absent" ELSE files.dest]
           /\ files' = IF action = "CreateNew" THEN [files EXCEPT !.dest = "absent"] ELSE files
    /\ UNCHANGED <<foreign, late, destroyed, committed>>

\* A save of an open document: its plan is bound to the revision and the digest.
PlanSave ==
    /\ job = NoJob
    /\ files.dest = "old"
    /\ job' = [NoJob EXCEPT !.kind = "editor", !.action = "ReplaceExisting", !.pc = "queued",
                            !.expected = "old"]
    /\ UNCHANGED <<files, foreign, late, destroyed, committed>>

\* plan_create_directory, plan_rename, plan_delete.
PlanMutation(kind) ==
    /\ job = NoJob
    /\ kind \in {"mkdir", "rename", "delete"}
    /\ kind # "delete" => files.dest = "absent"
    /\ job' = [NoJob EXCEPT !.kind = kind, !.pc = "mutating"]
    /\ UNCHANGED <<files, foreign, late, destroyed, committed>>

-----------------------------------------------------------------------------
(***************************************************************************)
(* Ends                                                                    *)
(***************************************************************************)
\* The last match of spawn_job.
FinalState(error) ==
    CASE error = "none" -> "Completed"
      [] error = "cancelled" -> "Cancelled"
      [] error = "unknown" -> "OutcomeUnknown"
      [] error = "failed" -> "Failed"

Finish(error) ==
    job' = [job EXCEPT !.pc = "done", !.error = error, !.state = FinalState(error)]

CleanUpAfter(error) == job' = [job EXCEPT !.pc = "cleanup", !.error = error]

\* An error: what is staged remotely is removed first, a temporary file goes
\* with its path.
Fail(error) ==
    IF job.kind = "download"
    THEN /\ files' = [files EXCEPT !.staging = "absent"]
         /\ Finish(error)
    ELSE /\ CleanUpAfter(error)
         /\ UNCHANGED files

\* remove_owned_staging: a name that is already gone counts as removed.
Removal == {[ok |-> TRUE, staging |-> "absent"], [ok |-> FALSE, staging |-> "absent"],
            [ok |-> FALSE, staging |-> files.staging]}

\* Fault variant of Cleanup: a removal that fails is not remembered.
CleanupForgets ==
    /\ job.pc = "cleanup"
    /\ \E r \in Removal :
          /\ files' = [files EXCEPT !.staging = r.staging]
          /\ Finish(IF r.ok \/ job.error = "unknown" THEN job.error ELSE "failed")
    /\ UNCHANGED <<foreign, late, destroyed, committed>>

\* RemoteStagingGuard::cleanup: an unconfirmed removal replaces the error,
\* except an outcome that is already unknown.
Cleanup ==
    /\ job.pc = "cleanup"
    /\ \E r \in Removal :
          /\ files' = [files EXCEPT !.staging = r.staging]
          /\ job' = [job EXCEPT !.pc = "done", !.unconfirmed = ~r.ok,
                 !.state = FinalState(IF r.ok \/ job.error = "unknown" THEN job.error
                                      ELSE "failed")]
    /\ UNCHANGED <<foreign, late, destroyed, committed>>

-----------------------------------------------------------------------------
(***************************************************************************)
(* run_transfer up to the staged copy                                      *)
(***************************************************************************)
\* The job has its permits and its destination (set_state(Preparing)).
Prepare ==
    /\ job.pc = "queued"
    /\ \/ /\ job.cancelled /\ Finish("cancelled")
       \/ /\ ~job.cancelled
          /\ job' = [job EXCEPT !.pc = "starting", !.state = "Preparing"]
    /\ UNCHANGED <<files, foreign, late, destroyed, committed>>

\* run_transfer: Skip ends here, whatever was cancelled.
Skip ==
    /\ job.pc = "starting" /\ job.action = "Skip"
    /\ Finish("none")
    /\ UNCHANGED <<files, foreign, late, destroyed, committed>>

\* A start of an upload or a download either goes on with set_state(Transferring),
\* which also overwrites CancelRequested, or fails before anything is staged.
Started(next) ==
    /\ job.pc = "starting" /\ job.action # "Skip"
    /\ \/ /\ Revision(files.source) = "old"
          /\ job' = [job EXCEPT !.state = "Transferring", !.pc = next, !.owned = next = "streaming"]
          /\ files' = IF next = "streaming" THEN [files EXCEPT !.staging = "ours"] ELSE files
          /\ late' = late \ {"source"}
       \/ /\ Finish("failed")
          /\ UNCHANGED <<files, late>>
    /\ UNCHANGED <<foreign, destroyed, committed>>

\* run_upload: the selected local file is still the approved one.
StartUpload == job.kind = "upload" /\ Started("creating")

\* run_download: the remote source is the approved one; the temporary file is
\* created in the selected directory.
StartDownload == job.kind = "download" /\ Started("streaming")

\* upload_staged: the exclusive create.  A lost reply leaves the name alone,
\* because it may not be ours.
CreateStaging ==
    /\ job.pc = "creating"
    /\ \/ /\ files' = [files EXCEPT !.staging = "ours"]
          /\ job' = [job EXCEPT !.pc = "streaming", !.owned = TRUE]
       \/ /\ UNCHANGED files
          /\ Finish("failed")
       \/ /\ \/ files' = [files EXCEPT !.staging = "ours"]
             \/ UNCHANGED files
          /\ Finish("unknown")
    /\ UNCHANGED <<foreign, late, destroyed, committed>>

\* The stream: any failure under a cancelled token is a cancellation.
Stream ==
    /\ job.pc = "streaming"
    /\ \/ /\ ~job.cancelled
          /\ job' = [job EXCEPT !.pc = IF job.kind = "editor" THEN "preserving" ELSE "checking",
                         !.content = IF job.kind # "editor" /\ files.source # "old"
                                     THEN "mixed" ELSE "approved"]
          /\ UNCHANGED files
       \/ Fail(IF job.cancelled THEN "cancelled" ELSE "failed")
    /\ UNCHANGED <<foreign, late, destroyed, committed>>

\* After the stream the source is compared with the approved one again.
Rechecked ==
    \/ /\ Revision(files.source) = "old"
       /\ job' = [job EXCEPT !.pc = "finalizing", !.recheck = files.source]
       /\ late' = late \ {"source"}
       /\ UNCHANGED files
    \/ /\ Fail("failed")
       /\ UNCHANGED late

\* The last look at the cancellation before finalisation.
CancelSeen ==
    /\ job.cancelled /\ Revision(files.source) = "old"
    /\ Fail("cancelled")
    /\ UNCHANGED late

\* run_upload: byte count and local source.
CheckUpload ==
    /\ job.pc = "checking" /\ job.kind = "upload"
    /\ \/ ~job.cancelled /\ Rechecked
       \/ job.cancelled /\ Fail("failed") /\ UNCHANGED late
       \/ CancelSeen
    /\ UNCHANGED <<foreign, destroyed, committed>>

\* run_download: byte count and remote source, then fsync.
CheckDownload ==
    /\ job.pc = "checking" /\ job.kind = "download"
    /\ \/ ~job.cancelled /\ Rechecked
       \/ job.cancelled /\ Fail("failed") /\ UNCHANGED late
       \/ CancelSeen
    /\ UNCHANGED <<foreign, destroyed, committed>>

-----------------------------------------------------------------------------
(***************************************************************************)
(* run_editor_save looks at the text it will replace three times: before   *)
(* staging, after it, and once more before finalisation.  A look compares  *)
(* the revision, then reads the text and compares its digest.              *)
(***************************************************************************)
\* Where each look leads when the text is still the reviewed one.
EditorLooks == [starting |-> "creating", checking |-> "rechecking", rechecking |-> "finalizing"]

\* A failed look: before staging nothing has to be cleaned up.
LookFails ==
    IF job.owned THEN Fail("failed") ELSE Finish("failed") /\ UNCHANGED files

\* editor_revision: the entry is regular and its metadata are the document's.
CompareRevision ==
    /\ job.kind = "editor" /\ job.pc \in DOMAIN EditorLooks
    /\ \/ /\ Revision(files.dest) = job.expected
          /\ job' = [job EXCEPT !.look = job.pc, !.pc = "opening"]
          /\ UNCHANGED files
       \/ LookFails
    /\ UNCHANGED <<foreign, late, destroyed, committed>>

\* read_editor_bytes up to the first fstat: whatever is there now is opened,
\* if it did not change between lstat and open.
OpenText ==
    /\ job.pc = "opening"
    /\ \/ /\ files.dest # "absent"
          /\ job' = [job EXCEPT !.pc = "reading", !.handle = files.dest]
          /\ late' = late \ {"dest"}
          /\ UNCHANGED files
       \/ LookFails /\ UNCHANGED late
    /\ UNCHANGED <<foreign, destroyed, committed>>

\* Fault variant of Digested: the text is trusted when its revision is.
DigestedByRevision == Revision(job.handle) = "old"

\* The digest of the text read is the document's.
Digested == job.handle = "old"

\* The rest of read_editor_bytes and the comparison of the digest.  A file that
\* is replaced by name is read to its end through the handle; one written in
\* place is refused by the second fstat or, if that sees no change, read partly
\* or not at all in its new form.
ReadText ==
    /\ job.pc = "reading"
    /\ \/ /\ Digested
          /\ job' = [job EXCEPT !.pc = EditorLooks[job.look],
                         !.state = IF job.look = "starting" THEN "Transferring" ELSE @]
          /\ UNCHANGED files
       \/ LookFails
    /\ UNCHANGED <<foreign, late, destroyed, committed>>

\* preserve_editor_metadata: owner and mode are set on the staged file and read
\* back; the byte count has been compared.
PreserveMetadata ==
    /\ job.pc = "preserving"
    /\ \/ /\ job' = [job EXCEPT !.pc = "checking", !.kept = TRUE]
          /\ UNCHANGED files
       \/ Fail("failed")
    /\ UNCHANGED <<foreign, late, destroyed, committed>>

-----------------------------------------------------------------------------
(***************************************************************************)
(* Finalisation                                                            *)
(***************************************************************************)
\* Fault variant of EnterFinalizing: the state is set without asking.
EnterFinalizingAnyway ==
    /\ job.pc = "finalizing"
    /\ job' = [job EXCEPT !.state = "Finalizing",
                          !.pc = IF job.kind = "editor" THEN "committing" ELSE "verifying"]
    /\ UNCHANGED <<files, foreign, late, destroyed, committed>>

\* enter_finalizing, under the manager's lock.
EnterFinalizing ==
    /\ job.pc = "finalizing"
    /\ \/ /\ ~job.cancelled /\ job.state # "CancelRequested"
          /\ job' = [job EXCEPT !.state = "Finalizing",
                                !.pc = IF job.kind = "editor" THEN "committing" ELSE "verifying"]
          /\ UNCHANGED files
       \/ /\ job.cancelled \/ job.state = "CancelRequested"
          /\ Fail("cancelled")
    /\ UNCHANGED <<foreign, late, destroyed, committed>>

\* The destination is still what was approved.
VerifyDestination ==
    /\ job.pc = "verifying"
    /\ \/ /\ Revision(files.dest) = job.expected
          /\ job' = [job EXCEPT !.pc = "committing"]
          /\ late' = late \ {"dest"}
          /\ UNCHANGED files
       \/ /\ Fail("failed")
          /\ UNCHANGED late
    /\ UNCHANGED <<foreign, destroyed, committed>>

Victim(name) ==
    IF files[name] = "absent" THEN {} ELSE {[version |-> files[name], late |-> name \in late]}

\* The effect of a rename over the destination.
Replaced ==
    /\ files' = [files EXCEPT !.dest = "ours", !.staging = "absent"]
    /\ destroyed' = destroyed \cup Victim("dest")
    /\ committed' = TRUE

Untouched == UNCHANGED <<files, destroyed, committed>>

\* Fault variant of CommitReplace: a lost reply is reported like a refusal.
CommitReplaceLostIsFailure ==
    /\ job.pc = "committing" /\ job.action = "ReplaceExisting" /\ job.kind # "download"
    /\ \/ Replaced /\ Finish("none")
       \/ Untouched /\ CleanUpAfter("failed")
       \/ Replaced /\ CleanUpAfter("failed")
    /\ UNCHANGED <<foreign, late>>

\* commit_replace by posix-rename.
CommitReplace ==
    /\ job.pc = "committing" /\ job.action = "ReplaceExisting" /\ job.kind # "download"
    /\ \/ Replaced /\ Finish("none")
       \/ Untouched /\ CleanUpAfter("failed")
       \/ Replaced /\ CleanUpAfter("unknown")
       \/ Untouched /\ CleanUpAfter("unknown")
    /\ UNCHANGED <<foreign, late>>

\* persist of a downloaded file: a failure leaves the result unconfirmed.
PersistReplace ==
    /\ job.pc = "committing" /\ job.action = "ReplaceExisting" /\ job.kind = "download"
    /\ \/ Replaced /\ (Finish("none") \/ Finish("unknown"))
       \/ Fail("unknown") /\ UNCHANGED <<destroyed, committed>>
    /\ UNCHANGED <<foreign, late>>

\* The effect of a hard link: nothing that exists is replaced.
Linked ==
    /\ files.dest = "absent"
    /\ files' = [files EXCEPT !.dest = IF job.kind = "rename" THEN files.source ELSE "ours"]
    /\ committed' = TRUE
    /\ UNCHANGED destroyed

\* commit_new by hardlink; the name may have been taken since.
CommitNew ==
    /\ job.pc = "committing" /\ job.action = "CreateNew" /\ job.kind = "upload"
    /\ \/ Linked /\ job' = [job EXCEPT !.pc = "unlinking"]
       \/ Untouched /\ CleanUpAfter("failed")
       \/ Linked /\ CleanUpAfter("unknown")
       \/ Untouched /\ CleanUpAfter("unknown")
    /\ UNCHANGED <<foreign, late>>

\* The rest of commit_new: a staging name that will not go leaves the outcome
\* unknown, although the file is there.
UnlinkStaging ==
    /\ job.pc = "unlinking"
    /\ \E r \in Removal :
          /\ files' = [files EXCEPT !.staging = r.staging]
          /\ IF r.ok THEN Finish("none")
             ELSE CleanUpAfter("unknown")
    /\ UNCHANGED <<foreign, late, destroyed, committed>>

\* persist_noclobber of a downloaded file.
PersistNew ==
    /\ job.pc = "committing" /\ job.action = "CreateNew" /\ job.kind = "download"
    /\ \/ /\ files.dest = "absent"
          /\ files' = [files EXCEPT !.dest = "ours", !.staging = "absent"]
          /\ committed' = TRUE
          /\ Finish("none")
       \/ /\ files' = [files EXCEPT !.staging = "absent"]
          /\ Finish("failed")
          /\ UNCHANGED committed
    /\ UNCHANGED <<foreign, late, destroyed>>

-----------------------------------------------------------------------------
(***************************************************************************)
(* execute_mutation                                                        *)
(***************************************************************************)
\* create_dir: the server creates only what is absent.
CreateDir ==
    /\ job.pc = "mutating" /\ job.kind = "mkdir"
    /\ \/ Linked /\ Finish("none")
       \/ Untouched /\ Finish("failed")
       \/ Linked /\ Finish("unknown")
       \/ Untouched /\ Finish("unknown")
    /\ UNCHANGED <<foreign, late>>

\* The identity check of a rename or a delete.
CheckEntry ==
    /\ job.pc = "mutating" /\ job.kind \in {"rename", "delete"}
    /\ \/ /\ Revision(files.source) = "old"
          /\ late' = late \ {"source"}
          /\ job' = [job EXCEPT !.pc = IF job.kind = "rename" THEN "linking" ELSE "removing"]
       \/ /\ Finish("failed")
          /\ UNCHANGED late
    /\ UNCHANGED <<files, foreign, destroyed, committed>>

\* rename_noclobber: the new name first.
LinkName ==
    /\ job.pc = "linking"
    /\ \/ files.source # "absent" /\ Linked /\ job' = [job EXCEPT !.pc = "removing"]
       \/ Untouched /\ Finish("failed")
       \/ files.source # "absent" /\ Linked /\ Finish("unknown")
       \/ Untouched /\ Finish("unknown")
    /\ UNCHANGED <<foreign, late>>

\* The removal of the old name, or of the deleted entry.  After the new name
\* exists every failure is an unknown outcome.
RemoveEntry ==
    /\ job.pc = "removing"
    /\ \/ /\ files.source # "absent"
          /\ files' = [files EXCEPT !.source = "absent"]
          /\ destroyed' = destroyed \cup Victim("source")
          /\ committed' = TRUE
          /\ \/ Finish("none")
             \/ Finish("unknown")
       \/ /\ Untouched
          /\ \/ Finish(IF job.kind = "rename" THEN "unknown" ELSE "failed")
             \/ Finish("unknown")
    /\ UNCHANGED <<foreign, late>>

-----------------------------------------------------------------------------
(***************************************************************************)
(* Cancellation, dropped tasks and the others                              *)
(***************************************************************************)
\* TransferManager::cancel, or the disconnect and shutdown of the manager.
Cancel ==
    /\ job.pc # "idle" /\ job.kind \in Streams
    /\ job.state \in {"Queued", "Preparing", "Transferring"}
    /\ job' = [job EXCEPT !.state = "CancelRequested", !.cancelled = TRUE, !.accepted = TRUE]
    /\ UNCHANGED <<files, foreign, late, destroyed, committed>>

\* The task of a remote transfer is dropped at an await (it panicked): a request
\* under way may still be done, and the guard's task removes what is owned.
TaskDropped ==
    /\ job.kind \in {"upload", "editor"} /\ ~job.dropped
    /\ job.owned
    /\ job.pc \in {"streaming", "preserving", "checking", "opening", "reading", "rechecking",
                   "verifying", "committing", "unlinking", "cleanup"}
    /\ \/ Untouched
       \/ job.pc = "committing" /\ job.action = "ReplaceExisting" /\ Replaced
       \/ job.pc = "committing" /\ job.action = "CreateNew" /\ Linked
    /\ job' = [job EXCEPT !.pc = "cleanup", !.error = "failed", !.dropped = TRUE]
    /\ UNCHANGED <<foreign, late>>

\* Somebody else writes, replaces or removes the destination or the source;
\* what was there before the plan is what the plan was made for.  What they leave
\* there has kind, size and modification time of its own, or those of the old
\* file: written within the resolution of its time, or given its time again.
OthersWrite(name, version) ==
    /\ job # NoJob /\ foreign < MaxForeign
    /\ files[name] # version
    /\ files' = [files EXCEPT ![name] = version]
    /\ foreign' = foreign + 1
    /\ late' = late \cup {name}
    /\ UNCHANGED <<job, destroyed, committed>>

RunNext ==
    \/ \E kind \in Kinds, policy \in {"Skip", "Replace", "KeepBoth"} : PlanTransfer(kind, policy)
    \/ PlanSave
    \/ \E kind \in Kinds : PlanMutation(kind)
    \/ Prepare \/ Skip \/ StartUpload \/ StartDownload
    \/ CreateStaging \/ Stream
    \/ CheckUpload \/ CheckDownload
    \/ CompareRevision \/ OpenText \/ ReadText \/ PreserveMetadata
    \/ EnterFinalizing \/ VerifyDestination
    \/ CommitReplace \/ PersistReplace \/ CommitNew \/ UnlinkStaging \/ PersistNew
    \/ CreateDir \/ CheckEntry \/ LinkName \/ RemoveEntry
    \/ Cleanup \/ Cancel \/ TaskDropped
    \/ \E name \in {"dest", "source"}, version \in {"foreign", "touched", "absent"} :
          OthersWrite(name, version)

RunSpec == RunInit /\ [][RunNext]_runVars

-----------------------------------------------------------------------------
(***************************************************************************)
(* Properties                                                              *)
(***************************************************************************)
\* The final state tells the truth: Completed only when the approved content was
\* put in place, with mode and owner for an edited text (or the item was
\* skipped), Failed and Cancelled only when nothing was changed; whatever cannot
\* be known is OutcomeUnknown, whichever reply was lost.  There are two
\* exceptions.  An upload or a download knows its source by its metadata: when
\* others rewrite it and the check after the stream finds kind, size and time as
\* approved, other content is Completed.  A task dropped in the middle of its
\* commit is reported Failed by its guard.
FinalStateTruthful ==
    /\ job.state = "Completed" /\ job.action # "Skip" =>
          /\ committed
          /\ job.kind \in {"upload", "download"} =>
                job.content = "approved" \/ job.recheck = "touched"
          /\ job.kind = "editor" => job.content = "approved" /\ job.kept
    /\ job.state \in {"Failed", "Cancelled"} => ~committed \/ job.dropped

\* A cancellation that was accepted (Queued, Preparing or Transferring became
\* CancelRequested) wins against finalisation: the destination is not changed
\* afterwards, although later steps overwrite the state it was recorded in.
AcceptedCancelWins == job.accepted => ~committed

\* An operation never removes or replaces a version nobody approved, except one
\* that somebody else wrote after its last look at that file; a new file never
\* replaces anything.  An upload or a download knows the file it replaces by its
\* metadata only, an edited text is known by its content as well.
DestroysOnlyReviewed ==
    /\ \A d \in destroyed :
          d.version = "old" \/ d.late \/ (d.version = "touched" /\ job.kind # "editor")
    /\ job.action = "CreateNew" => destroyed = {}

\* Whatever step failed, was refused, lost its reply or was dropped, a finished
\* operation leaves no staging file of its own behind that is not on record as
\* unconfirmed; a name it may not own is left alone.
StagingAccountedFor ==
    job.state \in Terminal /\ files.staging # "absent" =>
        job.unconfirmed \/ (~job.owned /\ job.state = "OutcomeUnknown")
=============================================================================
