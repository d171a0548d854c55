------------------------------ MODULE FilePlans ------------------------------
(***************************************************************************)
(* FilePlanStore (nexus-sftp, policy.rs) and the file commands of          *)
(* Application (application/files.rs) that go through it, for one host.    *)
(* A reviewed file operation is a plan, consumed at most once; a remote    *)
(* text file opened in the editor is a document that authorises one save.  *)
(* The two maps have their own locks, taken documents first; a method that *)
(* needs both holds both, so it is one step, and revoke_all, which takes   *)
(* them one after the other, is two.                                       *)
(*                                                                         *)
(* Commands await the server between their steps while they hold the       *)
(* host's SFTP lifecycle gate.  Discarding needs no gate, and the expiry   *)
(* timers fire at any time after they are due.  A session id stands for a  *)
(* connection and the SFTP session opened on it.                           *)
(***************************************************************************)
EXTENDS Naturals, FiniteSets

CONSTANTS
    Calls,             \* concurrent command invocations
    Paths,             \* remote text files
    PlanCap,           \* PLAN_CAP
    PlanLifetime,      \* PLAN_LIFETIME
    DocumentLifetime,  \* DOCUMENT_LIFETIME
    MaxTime,           \* bound on the clock
    MaxSession,        \* bound on the sessions opened
    MaxPlan,           \* bound on the plan ids drawn
    MaxDocument        \* bound on the documents registered

ASSUME FilePlansAssumption ==
    /\ PlanCap \in Nat \ {0}
    /\ PlanLifetime \in Nat \ {0}
    /\ DocumentLifetime \in Nat \ {0}
    /\ MaxTime \in Nat /\ MaxSession \in Nat /\ MaxPlan \in Nat /\ MaxDocument \in Nat
    /\ {"free", "closer"} \cap Calls = {}

VARIABLES
    now,         \* Instant::now()
    connected,   \* the connection of a Connected slot, or 0
    sessions,    \* ids drawn so far
    sftp,        \* sftp_sessions: the session in the map, or 0
    gate,        \* the holder of the lifecycle gate
    closing,     \* sessions a close_sftp is owed to or runs for
    closer,      \* the session of the running close_sftp, or 0
    revoked,     \* sessions revoke_session has been called for
    changes,     \* how often each remote file was written, its revision
    documents,   \* FilePlanStore::documents
    plans,       \* FilePlanStore::plans
    drawn,       \* plan ids and document ids drawn so far
    planTimers,  \* the tasks of schedule_plan_expiry
    docTimers,   \* the tasks of schedule_document_expiry
    call,        \* what each invocation is doing
    sweep,       \* revoke_all: "idle", or "plans" between its two steps
    saves        \* executed saves: pairs of document and plan

sessionVars == <<connected, sessions, sftp, closing, closer, revoked>>
storeVars == <<documents, plans, drawn, planTimers, docTimers>>
filePlanVars == <<now, gate, changes, call, sweep, saves, sessionVars, storeVars>>

PlanIds == 1..MaxPlan
DocumentIds == 1..MaxDocument

NoDocument == [session |-> 0, path |-> "none", revision |-> 0, expires |-> 0,
               use |-> "none", plan |-> 0]
NoPlan == [session |-> 0, document |-> 0, expires |-> 0, used |-> FALSE]
Idle == [pc |-> "idle", session |-> 0, path |-> "none", revision |-> 0,
         document |-> 0, plan |-> 0]

FilePlansInit ==
    /\ now = 0
    /\ connected = 0 /\ sessions = 0 /\ sftp = 0
    /\ gate = "free"
    /\ closing = {} /\ closer = 0 /\ revoked = {}
    /\ changes = [p \in Paths |-> 0]
    /\ documents = [d \in DocumentIds |-> NoDocument]
    /\ plans = [p \in PlanIds |-> NoPlan]
    /\ drawn = [plan |-> 0, document |-> 0]
    /\ planTimers = {} /\ docTimers = {}
    /\ call = [c \in Calls |-> Idle]
    /\ sweep = "idle"
    /\ saves = {}

-----------------------------------------------------------------------------
(***************************************************************************)
(* The maps                                                                *)
(***************************************************************************)
Open(d) == documents[d] # NoDocument
Stored(p) == plans[p] # NoPlan
Unused(p) == Stored(p) /\ ~plans[p].used
DocumentExpired(d) == documents[d].expires <= now

\* release_editor_reservation: only the expected reservation is released, and
\* a document that has expired meanwhile is removed instead.
Released(docs, d, use, p) ==
    IF docs[d].use # use \/ docs[d].plan # p
    THEN docs
    ELSE [docs EXCEPT ![d] = IF @.expires <= now THEN NoDocument
                             ELSE [@ EXCEPT !.use = "ready", !.plan = 0]]

\* Removal of a plan together with the reservation of its document, if any.
ReleasedBy(p) ==
    IF plans[p].document = 0 THEN documents
    ELSE Released(documents, plans[p].document, "pending", p)

\* insert_with_id: expired and used plans make room first; their documents are
\* left to the expiry task.
Kept == [q \in PlanIds |->
            IF plans[q].expires > now /\ ~plans[q].used THEN plans[q] ELSE NoPlan]

HasRoom == Cardinality({q \in PlanIds : Kept[q] # NoPlan}) < PlanCap

InsertWithId(p, s, d) ==
    LET expires == now + PlanLifetime
    IN  /\ plans' = [Kept EXCEPT ![p] = [session |-> s, document |-> d,
                                         expires |-> expires, used |-> FALSE]]
        /\ planTimers' = planTimers \cup {[plan |-> p, expires |-> expires, document |-> d]}

-----------------------------------------------------------------------------
(***************************************************************************)
(* Commands: the gate is taken, the session is checked by owned_sftp, and  *)
(* the gate is kept until the command returns.                             *)
(***************************************************************************)
\* owned_sftp: the slot is connected and its SFTP session is the caller's.
OwnedSftp(s) == s # 0 /\ connected = s /\ sftp = s

\* Fault variant of Enter: the gate is not kept across the command's awaits.
EnterUnlocked(c, s) == call[c] = Idle /\ gate = "free" /\ OwnedSftp(s) /\ UNCHANGED gate

Enter(c, s) == call[c] = Idle /\ gate = "free" /\ OwnedSftp(s) /\ gate' = c

Leave(c) ==
    /\ gate' = IF gate = c THEN "free" ELSE gate
    /\ call' = [call EXCEPT ![c] = Idle]

\* open_remote_text_file up to the second revision read.
OpenRemoteText(c, s, path) ==
    /\ Enter(c, s)
    /\ call' = [call EXCEPT ![c] = [Idle EXCEPT !.pc = "opening", !.session = s, !.path = path,
                                                !.revision = changes[path]]]
    /\ UNCHANGED <<now, changes, sweep, saves, sessionVars, storeVars>>

\* The documents that registering (s, path) retires.
RetiredBy(s, path) ==
    {d \in DocumentIds : Open(d) /\ (DocumentExpired(d) \/
        (documents[d].session = s /\ documents[d].path = path))}

\* register_editor_document: older documents of the file and their plans go,
\* whether or not the new document still fits.
RegisterEditorDocument(c) ==
    LET s == call[c].session
        path == call[c].path
        retired == RetiredBy(s, path)
        docs == [d \in DocumentIds |-> IF d \in retired THEN NoDocument ELSE documents[d]]
        id == drawn.document + 1
        expires == now + DocumentLifetime
        fits == Cardinality({d \in DocumentIds : docs[d] # NoDocument}) < PlanCap
    IN  /\ plans' = [p \in PlanIds |-> IF plans[p].document \in retired THEN NoPlan ELSE plans[p]]
        /\ \/ /\ ~fits
              /\ documents' = docs
              /\ UNCHANGED <<drawn, docTimers>>
           \/ /\ fits
              /\ drawn.document < MaxDocument
              /\ drawn' = [drawn EXCEPT !.document = id]
              /\ documents' = [docs EXCEPT ![id] =
                     [session |-> s, path |-> path, revision |-> call[c].revision,
                      expires |-> expires, use |-> "ready", plan |-> 0]]
              /\ docTimers' = docTimers \cup {[document |-> id, expires |-> expires]}

\* open_remote_text_file: a file that changed while it was read, is too large
\* or is not text is refused.
OpenRemoteTextReturns(c) ==
    /\ call[c].pc = "opening"
    /\ \/ /\ changes[call[c].path] = call[c].revision
          /\ RegisterEditorDocument(c)
       \/ UNCHANGED <<documents, plans, drawn, docTimers>>
    /\ Leave(c)
    /\ UNCHANGED <<now, changes, planTimers, sweep, saves, sessionVars>>

\* plan_remote_text_save up to its first await: the document is reserved.
PlanEditorSave(c, s, d) ==
    /\ Open(d) /\ ~DocumentExpired(d)
    /\ documents[d].session = s
    /\ documents[d].use = "ready"
    /\ drawn.plan < MaxPlan
    /\ Enter(c, s)
    /\ drawn' = [drawn EXCEPT !.plan = @ + 1]
    /\ documents' = [documents EXCEPT ![d].use = "planning", ![d].plan = drawn.plan + 1]
    /\ call' = [call EXCEPT ![c] = [Idle EXCEPT !.pc = "planning_save", !.session = s,
                     !.path = documents[d].path, !.revision = documents[d].revision,
                     !.document = d, !.plan = drawn.plan + 1]]
    /\ UNCHANGED <<now, changes, plans, planTimers, docTimers, sweep, saves, sessionVars>>

\* The checks after the awaits: the reservation must still be this call's.
StillReserved(c) ==
    LET d == call[c].document
    IN  /\ Open(d) /\ ~DocumentExpired(d)
        /\ documents[d].use = "planning" /\ documents[d].plan = call[c].plan
        /\ documents[d].session = call[c].session

\* plan_editor_save after its awaits: the plan is stored and the document waits
\* for its review, under the documents lock.
SavePlanned(c) ==
    /\ call[c].pc = "planning_save"
    /\ changes[call[c].path] = call[c].revision
    /\ StillReserved(c)
    /\ HasRoom
    /\ InsertWithId(call[c].plan, call[c].session, call[c].document)
    /\ documents' = [documents EXCEPT ![call[c].document].use = "pending"]
    /\ Leave(c)
    /\ UNCHANGED <<now, changes, drawn, docTimers, sweep, saves, sessionVars>>

\* Any other end of plan_editor_save: a changed or unreadable file, text that
\* cannot be encoded, a missing extension, a document retired meanwhile, a full
\* store (which has already dropped expired and used plans).  The dropped guard
\* releases this call's own reservation.
SaveNotPlanned(c) ==
    /\ call[c].pc = "planning_save"
    /\ \/ UNCHANGED plans
       \/ StillReserved(c) /\ ~HasRoom /\ plans' = Kept
    /\ documents' = Released(documents, call[c].document, "planning", call[c].plan)
    /\ Leave(c)
    /\ UNCHANGED <<now, changes, drawn, planTimers, docTimers, sweep, saves, sessionVars>>

\* plan_upload, plan_download, plan_create_directory, plan_rename, plan_delete
\* up to their checks of the remote side.
PlanFiles(c, s) ==
    /\ Enter(c, s)
    /\ call' = [call EXCEPT ![c] = [Idle EXCEPT !.pc = "planning", !.session = s]]
    /\ UNCHANGED <<now, changes, sweep, saves, sessionVars, storeVars>>

\* Their end: the plan is stored, the store is full, or a check refused it.
PlanFilesReturns(c) ==
    /\ call[c].pc = "planning"
    /\ \/ /\ HasRoom
          /\ drawn.plan < MaxPlan
          /\ drawn' = [drawn EXCEPT !.plan = @ + 1]
          /\ InsertWithId(drawn.plan + 1, call[c].session, 0)
       \/ /\ ~HasRoom
          /\ plans' = Kept
          /\ UNCHANGED <<drawn, planTimers>>
       \/ UNCHANGED <<plans, drawn, planTimers>>
    /\ Leave(c)
    /\ UNCHANGED <<now, changes, documents, docTimers, sweep, saves, sessionVars>>

-----------------------------------------------------------------------------
(***************************************************************************)
(* execute_file_plan                                                       *)
(***************************************************************************)
\* The document of an editor plan may still be saved.
Authorized(p, s) ==
    LET d == plans[p].document
    IN  /\ Open(d) /\ documents[d].expires > now
        /\ documents[d].use = "pending" /\ documents[d].plan = p
        /\ documents[d].session = s

\* Fault variant of Consumed: the save does not use up its document.
ConsumedKeepsDocument(c, s, p) ==
    /\ plans' = [plans EXCEPT ![p].used = TRUE]
    /\ UNCHANGED documents
    /\ saves' = IF plans[p].document = 0 THEN saves ELSE saves \cup {<<plans[p].document, p>>}
    /\ gate' = c
    /\ call' = [call EXCEPT ![c] = [Idle EXCEPT !.pc = "executing", !.session = s, !.plan = p]]

\* consume hands the plan out: it is marked used and its document is gone.
Consumed(c, s, p) ==
    LET d == plans[p].document
    IN  /\ plans' = [plans EXCEPT ![p].used = TRUE]
        /\ documents' = IF d = 0 THEN documents ELSE [documents EXCEPT ![d] = NoDocument]
        /\ saves' = IF d = 0 THEN saves ELSE saves \cup {<<d, p>>}
        /\ gate' = c
        /\ call' = [call EXCEPT ![c] = [Idle EXCEPT !.pc = "executing", !.session = s, !.plan = p]]

\* execute_file_plan: gate, owned_sftp and consume.  A plan that is used or of
\* another session changes nothing; an expired one is dropped with its
\* reservation, one whose document was retired is dropped alone.  At the very
\* instant a plan expires it may still be consumed.
Execute(c, s, p) ==
    /\ call[c] = Idle /\ gate = "free" /\ OwnedSftp(s)
    /\ Stored(p)
    /\ \/ /\ now > plans[p].expires
          /\ plans' = [plans EXCEPT ![p] = NoPlan]
          /\ documents' = ReleasedBy(p)
          /\ UNCHANGED <<gate, call, saves>>
       \/ /\ now <= plans[p].expires
          /\ Unused(p) /\ plans[p].session = s
          /\ plans[p].document # 0 /\ ~Authorized(p, s)
          /\ plans' = [plans EXCEPT ![p] = NoPlan]
          /\ UNCHANGED <<documents, gate, call, saves>>
       \/ /\ now <= plans[p].expires
          /\ Unused(p) /\ plans[p].session = s
          /\ plans[p].document # 0 => Authorized(p, s)
          /\ Consumed(c, s, p)
    /\ UNCHANGED <<now, changes, drawn, planTimers, docTimers, sweep, sessionVars>>

\* TransferManager::execute has returned (a mutation ran, a batch was queued or
\* refused) and the audit record is written or not.
ExecuteReturns(c) ==
    /\ call[c].pc = "executing"
    /\ Leave(c)
    /\ UNCHANGED <<now, changes, sweep, saves, sessionVars, storeVars>>

-----------------------------------------------------------------------------
(***************************************************************************)
(* Discarding, without the gate                                            *)
(***************************************************************************)
\* discard: an expired plan goes whoever asks, a used one leaves its stub only,
\* any other must be the caller's.
Discard(s, p) ==
    /\ Stored(p)
    /\ plans[p].expires <= now \/ plans[p].used \/ plans[p].session = s
    /\ plans' = [plans EXCEPT ![p] = NoPlan]
    /\ documents' = IF plans[p].expires > now /\ plans[p].used THEN documents ELSE ReleasedBy(p)
    /\ UNCHANGED <<now, gate, changes, drawn, planTimers, docTimers, call, sweep, saves, sessionVars>>

\* A document goes together with the plan that waits for it.
WithoutPendingPlan(d) ==
    LET p == documents[d].plan
    IN  IF documents[d].use = "pending" /\ plans[p].document = d
        THEN [plans EXCEPT ![p] = NoPlan] ELSE plans

\* discard_editor_document.
DiscardEditorDocument(s, d) ==
    /\ Open(d) /\ documents[d].session = s
    /\ documents' = [documents EXCEPT ![d] = NoDocument]
    /\ plans' = WithoutPendingPlan(d)
    /\ UNCHANGED <<now, gate, changes, drawn, planTimers, docTimers, call, sweep, saves, sessionVars>>

-----------------------------------------------------------------------------
(***************************************************************************)
(* Expiry tasks                                                            *)
(***************************************************************************)
\* Fault variant of PlanExpires: the reservation is released only by the task
\* that finds its plan still stored.
PlanExpiresIfStored(t) ==
    /\ t \in planTimers /\ t.expires <= now
    /\ planTimers' = planTimers \ {t}
    /\ plans' = IF plans[t.plan].expires = t.expires
                THEN [plans EXCEPT ![t.plan] = NoPlan] ELSE plans
    /\ documents' = IF t.document = 0 \/ plans[t.plan].expires # t.expires THEN documents
                    ELSE Released(documents, t.document, "pending", t.plan)
    /\ UNCHANGED <<now, gate, changes, drawn, docTimers, call, sweep, saves, sessionVars>>

\* schedule_plan_expiry.
PlanExpires(t) ==
    /\ t \in planTimers /\ t.expires <= now
    /\ planTimers' = planTimers \ {t}
    /\ plans' = IF plans[t.plan].expires = t.expires
                THEN [plans EXCEPT ![t.plan] = NoPlan] ELSE plans
    /\ documents' = IF t.document = 0 THEN documents
                    ELSE Released(documents, t.document, "pending", t.plan)
    /\ UNCHANGED <<now, gate, changes, drawn, docTimers, call, sweep, saves, sessionVars>>

\* schedule_document_expiry.
DocumentExpires(t) ==
    /\ t \in docTimers /\ t.expires <= now
    /\ docTimers' = docTimers \ {t}
    /\ IF documents[t.document].expires = t.expires
       THEN /\ documents' = [documents EXCEPT ![t.document] = NoDocument]
            /\ plans' = WithoutPendingPlan(t.document)
       ELSE UNCHANGED <<documents, plans>>
    /\ UNCHANGED <<now, gate, changes, drawn, planTimers, call, sweep, saves, sessionVars>>

-----------------------------------------------------------------------------
(***************************************************************************)
(* Sessions: what HostSessions models in detail, seen from the store       *)
(***************************************************************************)
Connect ==
    /\ connected = 0 /\ sessions < MaxSession
    /\ sessions' = sessions + 1 /\ connected' = sessions + 1
    /\ UNCHANGED <<now, gate, changes, call, sweep, saves, sftp, closing, closer, revoked, storeVars>>

\* open_sftp, under the gate.
OpenSftp ==
    /\ gate = "free" /\ connected # 0 /\ sftp # connected
    /\ sftp' = connected
    /\ UNCHANGED <<now, gate, changes, call, sweep, saves, connected, sessions, closing, closer,
                   revoked, storeVars>>

\* A disconnect or a lost transport: the slot gives up its connection, and the
\* caller goes on to close_sftp.
Disconnect ==
    /\ connected # 0
    /\ connected' = 0
    /\ closing' = closing \cup {connected}
    /\ UNCHANGED <<now, gate, changes, call, sweep, saves, sessions, sftp, closer, revoked,
                   storeVars>>

\* close_sftp up to quiesce_session: revoke_session runs under the gate, drops
\* everything of the session and every used plan.
CloseSftp(s) ==
    /\ s \in closing
    /\ gate = "free"
    /\ gate' = "closer" /\ closer' = s
    /\ revoked' = revoked \cup {s}
    /\ documents' = [d \in DocumentIds |->
                        IF documents[d].session = s THEN NoDocument ELSE documents[d]]
    /\ plans' = [p \in PlanIds |->
                    IF plans[p].used \/ plans[p].session = s THEN NoPlan ELSE plans[p]]
    /\ UNCHANGED <<now, changes, drawn, planTimers, docTimers, call, sweep, saves,
                   connected, sessions, sftp, closing>>

\* Transfers have quiesced and the session is removed, or they have not and the
\* close fails; the caller may try again.
CloseSftpReturns ==
    /\ gate = "closer"
    /\ gate' = "free"
    /\ closer' = 0
    /\ \/ closing' = closing \ {closer} /\ sftp' = IF sftp = closer THEN 0 ELSE sftp
       \/ UNCHANGED <<closing, sftp>>
    /\ UNCHANGED <<now, changes, call, sweep, saves, connected, sessions, revoked, storeVars>>

\* revoke_all, during shutdown: the documents, then the plans.
RevokeAll ==
    /\ documents' = IF sweep = "idle" THEN [d \in DocumentIds |-> NoDocument] ELSE documents
    /\ plans' = IF sweep = "idle" THEN plans ELSE [p \in PlanIds |-> NoPlan]
    /\ sweep' = IF sweep = "idle" THEN "plans" ELSE "idle"
    /\ UNCHANGED <<now, gate, changes, drawn, planTimers, docTimers, call, saves, sessionVars>>

Tick == now < MaxTime /\ now' = now + 1
        /\ UNCHANGED <<gate, changes, call, sweep, saves, sessionVars, storeVars>>

\* Somebody else writes a remote file; the model lets each file change once.
RemoteChanges(path) ==
    /\ changes[path] = 0
    /\ changes' = [changes EXCEPT ![path] = 1]
    /\ UNCHANGED <<now, gate, call, sweep, saves, sessionVars, storeVars>>

\* The file commands the interface may invoke at any time, with any session,
\* document or plan it has ever seen.
FileCommands(s) ==
    \/ \E c \in Calls :
          \/ PlanFiles(c, s)
          \/ \E path \in Paths : OpenRemoteText(c, s, path)
          \/ \E d \in DocumentIds : PlanEditorSave(c, s, d)
          \/ \E p \in PlanIds : Execute(c, s, p)
    \/ \E p \in PlanIds : Discard(s, p)
    \/ \E d \in DocumentIds : DiscardEditorDocument(s, d)

FilePlansNext ==
    \/ Connect \/ OpenSftp \/ Disconnect \/ CloseSftpReturns \/ RevokeAll \/ Tick
    \/ \E s \in 1..MaxSession : CloseSftp(s) \/ FileCommands(s)
    \/ \E path \in Paths : RemoteChanges(path)
    \/ \E c \in Calls :
          \/ OpenRemoteTextReturns(c) \/ SavePlanned(c) \/ SaveNotPlanned(c)
          \/ PlanFilesReturns(c) \/ ExecuteReturns(c)
    \/ \E t \in planTimers : PlanExpires(t)
    \/ \E t \in docTimers : DocumentExpires(t)

FilePlansSpec == FilePlansInit /\ [][FilePlansNext]_filePlanVars

-----------------------------------------------------------------------------
(***************************************************************************)
(* Properties                                                              *)
(***************************************************************************)
\* A document authorises at most one save, however often it is planned,
\* discarded, expired and planned again: "execution permanently consumes this
\* document authority" (consume).
OneSavePerDocument ==
    \A x, y \in saves : x[1] = y[1] => x = y

\* The reservation of an open document can end: one being planned has the
\* running call that reserved it, one under review has its unused plan in the
\* store or, when insert_with_id or the expiry of the plan took that away, the
\* expiry task that will release it.  Otherwise the document could neither be
\* saved nor planned again (use_state in plan_editor_save).
ReservationHasOwner ==
    \A d \in DocumentIds :
        /\ documents[d].use = "planning" =>
              \E c \in Calls : /\ call[c].pc = "planning_save"
                               /\ call[c].document = d /\ call[c].plan = documents[d].plan
        /\ documents[d].use = "pending" =>
              \/ Unused(documents[d].plan) /\ plans[documents[d].plan].document = d
              \/ \E t \in planTimers : t.plan = documents[d].plan /\ t.document = d

\* Once close_sftp has revoked a session, nothing of it is left that could be
\* executed and nothing of it appears again: no document, no unused plan and no
\* command still planning or executing on it.
RevokedStaysRevoked ==
    \A s \in revoked :
        /\ \A d \in DocumentIds : documents[d].session # s
        /\ \A p \in PlanIds : Unused(p) => plans[p].session # s
        /\ \A c \in Calls : call[c].session # s
=============================================================================
