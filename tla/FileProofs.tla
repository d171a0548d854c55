------------------------------ MODULE FileProofs ------------------------------
(***************************************************************************)
(* Proofs about reviewed file operations: what FilePlans promises of plans *)
(* and documents, for any number of commands, sessions, documents and      *)
(* plans, and what TransferRun promises of one operation, however often    *)
(* others write the files it works on.                                     *)
(***************************************************************************)
EXTENDS TransferRun, FilePlans, TLAPS

-----------------------------------------------------------------------------
(***************************************************************************)
(* Plans and documents                                                     *)
(***************************************************************************)
\* What the two maps, the expiry tasks and the commands hold.
Document == [session : Nat, path : Paths \cup {"none"}, revision : Nat, expires : Nat,
             use : {"none", "ready", "planning", "pending"}, plan : PlanIds \cup {0}]
Plan == [session : Nat, document : DocumentIds \cup {0}, expires : Nat, used : BOOLEAN]
PlanTimer == [plan : PlanIds, expires : Nat, document : DocumentIds \cup {0}]
FileCall == [pc : {"idle", "opening", "planning", "planning_save", "executing"}, session : Nat,
             path : Paths \cup {"none"}, revision : Nat, document : DocumentIds \cup {0},
             plan : PlanIds \cup {0}]

FilesTypeOK ==
    /\ now \in Nat /\ changes \in [Paths -> Nat]
    /\ connected \in Nat /\ sessions \in Nat
    /\ documents \in [DocumentIds -> Document]
    /\ plans \in [PlanIds -> Plan]
    /\ drawn \in [plan : Nat, document : Nat]
    /\ planTimers \subseteq PlanTimer
    /\ docTimers \subseteq [document : DocumentIds, expires : Nat]
    /\ call \in [Calls -> FileCall]
    /\ saves \subseteq DocumentIds \X PlanIds

\* A command holds the gate from its first step to its last.
GateHeld == \A c \in Calls : call[c] # Idle => gate = c

\* Session ids are drawn once: one that was given up is never connected again.
GivenUpForGood ==
    /\ connected <= sessions
    /\ \A s \in closing \cup revoked : s \in Nat \ {0} /\ s <= sessions /\ s # connected

\* A command plans the save of a document, with the plan id it has drawn.
SavesNamed ==
    \A c \in Calls : /\ call[c].pc = "planning_save" =>
                           call[c].document \in DocumentIds /\ call[c].plan \in PlanIds
                     /\ call[c].pc = "opening" => call[c].path \in Paths

\* A document has an id that was drawn; one that was saved is gone, and as its id was
\* drawn it is not drawn again.
SpentForGood ==
    /\ \A d \in DocumentIds : documents[d] # NoDocument => d <= drawn.document
    /\ \A x \in saves : x[1] <= drawn.document /\ documents[x[1]] = NoDocument

\* A reserved document has the command that plans its save or the expiry task of
\* the plan that waits for its review.
Reserved ==
    \A d \in DocumentIds :
        /\ documents[d].use = "planning" =>
              \E c \in Calls : /\ call[c].pc = "planning_save"
                               /\ call[c].document = d /\ call[c].plan = documents[d].plan
        /\ documents[d].use = "pending" =>
              \E t \in planTimers : t.plan = documents[d].plan /\ t.document = d

\* The invariant of the file plans.
FileInv ==
    /\ FilesTypeOK
    /\ GateHeld
    /\ GivenUpForGood
    /\ SavesNamed
    /\ SpentForGood
    /\ Reserved
    /\ OneSavePerDocument
    /\ RevokedStaysRevoked

-----------------------------------------------------------------------------
\* A document that stays as it is, is released or goes.
Faded(new, old) ==
    \/ new = old
    \/ /\ new.use \in {"none", "ready"} /\ new.session \in {0, old.session}
       /\ old = NoDocument => new = NoDocument

\* A plan that stays as it is, is used up or goes.
PlanFaded(new, old) == new = old \/ new = NoPlan \/ new.used

DocumentsFade ==
    /\ documents' \in [DocumentIds -> Document]
    /\ \A d \in DocumentIds : Faded(documents'[d], documents[d])

PlansFade ==
    /\ plans' \in [PlanIds -> Plan]
    /\ \A p \in PlanIds : PlanFaded(plans'[p], plans[p])

\* The placeholders are what they look like.
LEMMA Placeholders ==
    /\ NoDocument \in Document /\ NoDocument.session = 0 /\ NoDocument.use = "none"
    /\ NoPlan \in Plan /\ NoPlan.session = 0 /\ NoPlan.document = 0 /\ ~NoPlan.used
    /\ Idle \in FileCall /\ Idle.session = 0 /\ Idle.pc = "idle"
BY DEF NoDocument, Document, NoPlan, Plan, Idle, FileCall

\* The store is empty at the start.
LEMMA FileInitInv ==
    ASSUME FilePlansInit PROVE FileInv
<1>1. FilesTypeOK
  BY Placeholders DEF FilePlansInit, FilesTypeOK
<1>2. GateHeld /\ GivenUpForGood /\ SavesNamed
  BY Placeholders DEF FilePlansInit, GateHeld, GivenUpForGood, SavesNamed
<1>3. SpentForGood /\ Reserved /\ OneSavePerDocument /\ RevokedStaysRevoked
  BY Placeholders DEF FilePlansInit, SpentForGood, Reserved, OneSavePerDocument, RevokedStaysRevoked
<1> QED BY <1>1, <1>2, <1>3 DEF FileInv

\* What was saved stays spent and what was revoked stays revoked, while documents
\* and plans fade and commands return.
LEMMA FadingKeepsSpent ==
    ASSUME FileInv, DocumentsFade, PlansFade, UNCHANGED <<saves, revoked>>,
           drawn'.document = drawn.document,
           \A c \in Calls : call'[c].session \in {0, call[c].session}
    PROVE  SpentForGood' /\ OneSavePerDocument' /\ RevokedStaysRevoked'
<1>1. SpentForGood'
  <2>1. \A x \in saves : x[1] \in DocumentIds
    BY DEF FileInv, FilesTypeOK
  <2>2. \A d \in DocumentIds : documents[d] = NoDocument => documents'[d] = NoDocument
    BY DEF DocumentsFade, Faded
  <2> QED BY <2>1, <2>2 DEF FileInv, SpentForGood
<1>2. OneSavePerDocument'
  BY DEF FileInv, OneSavePerDocument
<1>3. RevokedStaysRevoked'
  <2> SUFFICES ASSUME NEW s \in revoked
               PROVE  /\ \A d \in DocumentIds : documents'[d].session # s
                      /\ \A p \in PlanIds : Unused(p)' => plans'[p].session # s
                      /\ \A c \in Calls : call'[c].session # s
    BY DEF RevokedStaysRevoked
  <2>1. s # 0
    BY DEF FileInv, GivenUpForGood
  <2>2. \A d \in DocumentIds : documents'[d].session # s
    BY <2>1 DEF FileInv, RevokedStaysRevoked, DocumentsFade, Faded
  <2>3. \A p \in PlanIds : Unused(p)' => plans'[p].session # s
    BY DEF FileInv, RevokedStaysRevoked, PlansFade, PlanFaded, Unused, Stored
  <2>4. \A c \in Calls : call'[c].session # s
    BY <2>1 DEF FileInv, RevokedStaysRevoked
  <2> QED BY <2>2, <2>3, <2>4
<1> QED BY <1>1, <1>2, <1>3

\* Documents and plans that fade, while no command moves and no session changes,
\* disturb nothing, if the expiry task of a plan is gone only with the reservation.
LEMMA FadingKeepsFiles ==
    ASSUME FileInv, DocumentsFade, PlansFade,
           UNCHANGED <<gate, call, connected, sessions, closing, revoked, saves, drawn>>,
           now' \in Nat, changes' \in [Paths -> Nat],
           docTimers' \subseteq docTimers, planTimers' \subseteq planTimers,
           \A t \in planTimers \ planTimers' : \A d \in DocumentIds :
               ~(documents'[d].use = "pending" /\ documents'[d].plan = t.plan /\ t.document = d)
    PROVE  FileInv'
<1>1. FilesTypeOK'
  BY DEF FileInv, FilesTypeOK, DocumentsFade, PlansFade
<1>2. GateHeld' /\ GivenUpForGood' /\ SavesNamed'
  BY DEF FileInv, GateHeld, GivenUpForGood, SavesNamed
<1>3. SpentForGood' /\ OneSavePerDocument' /\ RevokedStaysRevoked'
  BY FadingKeepsSpent
<1>4. Reserved'
  <2> SUFFICES ASSUME NEW d \in DocumentIds
               PROVE  /\ documents'[d].use = "planning" =>
                           \E c \in Calls : /\ call'[c].pc = "planning_save"
                                            /\ call'[c].document = d
                                            /\ call'[c].plan = documents'[d].plan
                      /\ documents'[d].use = "pending" =>
                           \E t \in planTimers' : t.plan = documents'[d].plan /\ t.document = d
    BY DEF Reserved
  <2>1. documents'[d] = documents[d] \/ documents'[d].use \in {"none", "ready"}
    BY DEF DocumentsFade, Faded
  <2>2. CASE documents'[d] = documents[d]
    BY <2>2 DEF FileInv, Reserved
  <2>3. CASE documents'[d].use \in {"none", "ready"}
    BY <2>3
  <2> QED BY <2>1, <2>2, <2>3
<1> QED BY <1>1, <1>2, <1>3, <1>4 DEF FileInv

\* release_editor_reservation touches the document alone, and the reservation it was
\* asked to release is gone.
LEMMA ReleasedFades ==
    ASSUME FileInv, NEW d \in DocumentIds, NEW use \in {"planning", "pending"}, NEW p
    PROVE  /\ Released(documents, d, use, p) \in [DocumentIds -> Document]
           /\ \A e \in DocumentIds : Faded(Released(documents, d, use, p)[e], documents[e])
           /\ ~(/\ Released(documents, d, use, p)[d].use = use
                /\ Released(documents, d, use, p)[d].plan = p)
<1>1. documents \in [DocumentIds -> Document]
  BY DEF FileInv, FilesTypeOK
<1>2. CASE documents[d].use # use \/ documents[d].plan # p
  <2>1. Released(documents, d, use, p) = documents
    BY <1>2 DEF Released
  <2> QED BY <1>1, <1>2, <2>1 DEF Faded
<1>3. CASE documents[d].use = use /\ documents[d].plan = p
  <2>1. PICK h \in Document : h = documents[d]
    BY <1>1
  <2>2. PICK g : g = IF h.expires <= now THEN NoDocument
                     ELSE [h EXCEPT !.use = "ready", !.plan = 0]
    OBVIOUS
  <2>3. g \in Document /\ g.use \in {"none", "ready"} /\ g.session \in {0, h.session}
    <3>1. CASE g = NoDocument
      BY <3>1, Placeholders
    <3>2. CASE g = [h EXCEPT !.use = "ready", !.plan = 0]
      BY <3>2 DEF Document
    <3> QED BY <2>2, <3>1, <3>2
  <2>4. Released(documents, d, use, p) = [documents EXCEPT ![d] = g]
    BY <1>3, <2>1, <2>2 DEF Released
  <2>5. documents[d] # NoDocument
    BY <1>3, Placeholders
  <2>6. /\ Released(documents, d, use, p)[d] = g
        /\ \A e \in DocumentIds \ {d} : Released(documents, d, use, p)[e] = documents[e]
        /\ Released(documents, d, use, p) \in [DocumentIds -> Document]
    BY <1>1, <2>3, <2>4
  <2> QED BY <2>1, <2>3, <2>5, <2>6 DEF Faded
<1> QED BY <1>2, <1>3

\* A plan that goes takes the reservation of its document with it, if it has one.
LEMMA ReleasedByFades ==
    ASSUME FileInv, NEW p \in PlanIds, documents' = ReleasedBy(p)
    PROVE  DocumentsFade
<1>1. plans[p].document \in DocumentIds \cup {0} /\ documents \in [DocumentIds -> Document]
  BY DEF FileInv, FilesTypeOK, Plan
<1>2. CASE plans[p].document = 0
  BY <1>1, <1>2 DEF ReleasedBy, DocumentsFade, Faded
<1>3. CASE plans[p].document # 0
  <2>1. PICK d \in DocumentIds : d = plans[p].document
    BY <1>1, <1>3
  <2>2. documents' = Released(documents, d, "pending", p)
    BY <1>3, <2>1 DEF ReleasedBy
  <2> QED BY <2>2, ReleasedFades DEF DocumentsFade
<1> QED BY <1>2, <1>3

\* Removing one plan.
LEMMA RemovalFades ==
    ASSUME FileInv, NEW p, plans' = [plans EXCEPT ![p] = NoPlan] PROVE PlansFade
BY Placeholders DEF FileInv, FilesTypeOK, PlansFade, PlanFaded

\* Removing one document.
LEMMA DocumentRemovalFades ==
    ASSUME FileInv, NEW d, documents' = [documents EXCEPT ![d] = NoDocument] PROVE DocumentsFade
BY Placeholders DEF FileInv, FilesTypeOK, DocumentsFade, Faded

\* What stays as it is fades in no way.
LEMMA SameFades ==
    ASSUME FileInv
    PROVE  (UNCHANGED documents => DocumentsFade) /\ (UNCHANGED plans => PlansFade)
BY DEF FileInv, FilesTypeOK, DocumentsFade, PlansFade, Faded, PlanFaded

\* A document and the plan that waits for it.
LEMMA PendingPlanFades ==
    ASSUME FileInv, NEW d, plans' = WithoutPendingPlan(d) PROVE PlansFade
BY SameFades, RemovalFades DEF WithoutPendingPlan

\* discard.
LEMMA DiscardInv ==
    ASSUME FileInv, NEW s, NEW p \in PlanIds, Discard(s, p) PROVE FileInv'
<1>1. /\ plans' = [plans EXCEPT ![p] = NoPlan]
      /\ documents' = documents \/ documents' = ReleasedBy(p)
      /\ UNCHANGED <<now, gate, changes, drawn, planTimers, docTimers, call, saves, connected,
                     sessions, closing, revoked>>
  BY DEF Discard, sessionVars
<1>2. DocumentsFade /\ PlansFade
  BY <1>1, SameFades, RemovalFades, ReleasedByFades
<1>3. now' \in Nat /\ changes' \in [Paths -> Nat]
  BY <1>1 DEF FileInv, FilesTypeOK
<1> QED BY <1>1, <1>2, <1>3, FadingKeepsFiles

\* discard_editor_document.
LEMMA DiscardEditorDocumentInv ==
    ASSUME FileInv, NEW s, NEW d \in DocumentIds, DiscardEditorDocument(s, d) PROVE FileInv'
<1>1. /\ plans' = WithoutPendingPlan(d)
      /\ documents' = [documents EXCEPT ![d] = NoDocument]
      /\ UNCHANGED <<now, gate, changes, drawn, planTimers, docTimers, call, saves, connected,
                     sessions, closing, revoked>>
  BY DEF DiscardEditorDocument, sessionVars
<1>2. DocumentsFade /\ PlansFade
  BY <1>1, PendingPlanFades, DocumentRemovalFades
<1>3. now' \in Nat /\ changes' \in [Paths -> Nat]
  BY <1>1 DEF FileInv, FilesTypeOK
<1> QED BY <1>1, <1>2, <1>3, FadingKeepsFiles

\* schedule_plan_expiry: the task is gone, and so is the reservation it was for.
LEMMA PlanExpiresInv ==
    ASSUME FileInv, NEW t \in planTimers, PlanExpires(t) PROVE FileInv'
<1>0. t.plan \in PlanIds /\ t.document \in DocumentIds \cup {0}
  BY DEF FileInv, FilesTypeOK, PlanTimer
<1>1. /\ plans' = plans \/ plans' = [plans EXCEPT ![t.plan] = NoPlan]
      /\ documents' = IF t.document = 0 THEN documents
                      ELSE Released(documents, t.document, "pending", t.plan)
      /\ planTimers' = planTimers \ {t}
      /\ UNCHANGED <<now, gate, changes, drawn, docTimers, call, saves, connected, sessions,
                     closing, revoked>>
  BY DEF PlanExpires, sessionVars
<1>2. PlansFade
  BY <1>1, SameFades, RemovalFades
<1>3. /\ DocumentsFade
      /\ \A d \in DocumentIds :
            ~(documents'[d].use = "pending" /\ documents'[d].plan = t.plan /\ t.document = d)
  <2>1. CASE t.document = 0
    <3>1. 0 \notin DocumentIds
      BY DEF DocumentIds
    <3> QED BY <1>1, <2>1, <3>1, SameFades
  <2>2. CASE t.document # 0
    <3>1. PICK d \in DocumentIds : d = t.document
      BY <1>0, <2>2
    <3>2. documents' = Released(documents, d, "pending", t.plan)
      BY <1>1, <2>2, <3>1
    <3> QED BY <3>1, <3>2, ReleasedFades DEF DocumentsFade
  <2> QED BY <2>1, <2>2
<1>4. now' \in Nat /\ changes' \in [Paths -> Nat]
  BY <1>1 DEF FileInv, FilesTypeOK
<1> QED BY <1>1, <1>2, <1>3, <1>4, FadingKeepsFiles

\* schedule_document_expiry.
LEMMA DocumentExpiresInv ==
    ASSUME FileInv, NEW t \in docTimers, DocumentExpires(t) PROVE FileInv'
<1>1. /\ \/ /\ documents' = [documents EXCEPT ![t.document] = NoDocument]
            /\ plans' = WithoutPendingPlan(t.document)
         \/ UNCHANGED <<documents, plans>>
      /\ docTimers' = docTimers \ {t}
      /\ UNCHANGED <<now, gate, changes, drawn, planTimers, call, saves, connected, sessions,
                     closing, revoked>>
  BY DEF DocumentExpires, sessionVars
<1>2. DocumentsFade /\ PlansFade
  BY <1>1, SameFades, PendingPlanFades, DocumentRemovalFades
<1>3. now' \in Nat /\ changes' \in [Paths -> Nat]
  BY <1>1 DEF FileInv, FilesTypeOK
<1> QED BY <1>1, <1>2, <1>3, FadingKeepsFiles

\* revoke_all, the clock and the writes of others.
LEMMA RevokeAllInv ==
    ASSUME FileInv, RevokeAll \/ Tick \/ \E path \in Paths : RemoteChanges(path)
    PROVE  FileInv'
<1>1. /\ documents' = documents \/ documents' = [d \in DocumentIds |-> NoDocument]
      /\ plans' = plans \/ plans' = [p \in PlanIds |-> NoPlan]
      /\ UNCHANGED <<gate, drawn, planTimers, docTimers, call, saves, connected, sessions,
                     closing, revoked>>
  BY DEF RevokeAll, Tick, RemoteChanges, sessionVars, storeVars
<1>2. now' \in Nat /\ changes' \in [Paths -> Nat]
  <2>1. now \in Nat /\ changes \in [Paths -> Nat]
    BY DEF FileInv, FilesTypeOK
  <2> QED BY <2>1 DEF RevokeAll, Tick, RemoteChanges
<1>3. DocumentsFade
  <2>1. CASE documents' = [d \in DocumentIds |-> NoDocument]
    BY <2>1, Placeholders DEF DocumentsFade, Faded
  <2> QED BY <1>1, <2>1, SameFades
<1>4. PlansFade
  <2>1. CASE plans' = [p \in PlanIds |-> NoPlan]
    BY <2>1, Placeholders DEF PlansFade, PlanFaded
  <2> QED BY <1>1, <2>1, SameFades
<1> QED BY <1>1, <1>2, <1>3, <1>4, FadingKeepsFiles

-----------------------------------------------------------------------------
\* Sessions come and go.
LEMMA SessionsInv ==
    ASSUME FileInv, Connect \/ OpenSftp \/ Disconnect \/ CloseSftpReturns PROVE FileInv'
<1>1. /\ UNCHANGED <<now, changes, call, saves, revoked, documents, plans, drawn, planTimers,
                     docTimers>>
      /\ \/ UNCHANGED gate
         \/ gate = "closer"
  BY DEF Connect, OpenSftp, Disconnect, CloseSftpReturns, storeVars
<1>2. connected \in Nat /\ sessions \in Nat
  BY DEF FileInv, FilesTypeOK
<1>3. connected' \in Nat /\ sessions' \in Nat
  BY <1>2 DEF Connect, OpenSftp, Disconnect, CloseSftpReturns
<1>4. FilesTypeOK'
  BY <1>1, <1>3 DEF FileInv, FilesTypeOK
<1>5. GateHeld'
  BY <1>1, FilePlansAssumption DEF FileInv, GateHeld
<1>6. GivenUpForGood'
  <2>1. CASE Connect
    BY <1>1, <1>2, <2>1 DEF FileInv, GivenUpForGood, Connect
  <2>2. CASE OpenSftp
    BY <1>1, <2>2 DEF FileInv, GivenUpForGood, OpenSftp
  <2>3. CASE Disconnect
    BY <1>1, <1>2, <2>3 DEF FileInv, GivenUpForGood, Disconnect
  <2>4. CASE CloseSftpReturns
    BY <1>1, <2>4 DEF FileInv, GivenUpForGood, CloseSftpReturns
  <2> QED BY <2>1, <2>2, <2>3, <2>4
<1>7. SavesNamed' /\ SpentForGood' /\ Reserved'
  BY <1>1 DEF FileInv, SavesNamed, SpentForGood, Reserved
<1>8. OneSavePerDocument' /\ RevokedStaysRevoked'
  BY <1>1 DEF FileInv, OneSavePerDocument, RevokedStaysRevoked, Unused, Stored
<1> QED BY <1>4, <1>5, <1>6, <1>7, <1>8 DEF FileInv

\* close_sftp has the gate, so no command is on its way with the session it revokes.
LEMMA CloseSftpInv ==
    ASSUME FileInv, NEW s, CloseSftp(s) PROVE FileInv'
<1>1. /\ s \in closing /\ gate = "free" /\ gate' = "closer" /\ revoked' = revoked \cup {s}
      /\ documents' = [d \in DocumentIds |->
                          IF documents[d].session = s THEN NoDocument ELSE documents[d]]
      /\ plans' = [p \in PlanIds |->
                      IF plans[p].used \/ plans[p].session = s THEN NoPlan ELSE plans[p]]
      /\ UNCHANGED <<now, changes, drawn, planTimers, docTimers, call, saves, connected, sessions,
                     closing>>
  BY DEF CloseSftp
<1>2. \A c \in Calls : call[c] = Idle
  BY <1>1, FilePlansAssumption DEF FileInv, GateHeld
<1>3. s # 0
  BY <1>1 DEF FileInv, GivenUpForGood
<1>4. DocumentsFade
  <2>1. documents \in [DocumentIds -> Document]
    BY DEF FileInv, FilesTypeOK
  <2> QED BY <1>1, <2>1, Placeholders DEF DocumentsFade, Faded
<1>5. PlansFade
  <2>1. plans \in [PlanIds -> Plan]
    BY DEF FileInv, FilesTypeOK
  <2> QED BY <1>1, <2>1, Placeholders DEF PlansFade, PlanFaded
<1>6. FilesTypeOK'
  BY <1>1, <1>4, <1>5 DEF FileInv, FilesTypeOK, DocumentsFade, PlansFade
<1>7. GateHeld' /\ GivenUpForGood' /\ SavesNamed'
  BY <1>1, <1>2 DEF FileInv, GateHeld, GivenUpForGood, SavesNamed
<1>8. SpentForGood' /\ OneSavePerDocument'
  <2>1. \A x \in saves : x[1] \in DocumentIds
    BY DEF FileInv, FilesTypeOK
  <2> QED BY <1>1, <2>1 DEF FileInv, SpentForGood, OneSavePerDocument
<1>9. Reserved'
  BY <1>1, Placeholders DEF FileInv, Reserved
<1>10. RevokedStaysRevoked'
  <2>1. ASSUME NEW r \in revoked'
        PROVE  /\ \A d \in DocumentIds : documents'[d].session # r
               /\ \A p \in PlanIds : Unused(p)' => plans'[p].session # r
               /\ \A c \in Calls : call'[c].session # r
    <3>1. r # 0
      BY <1>1, <1>3, <2>1 DEF FileInv, GivenUpForGood
    <3>2. \A d \in DocumentIds : documents'[d].session # r
      BY <1>1, <2>1, <3>1, Placeholders DEF FileInv, RevokedStaysRevoked
    <3>3. \A p \in PlanIds : Unused(p)' => plans'[p].session # r
      BY <1>1, <2>1, <3>1, Placeholders DEF FileInv, RevokedStaysRevoked, Unused, Stored
    <3>4. \A c \in Calls : call'[c].session # r
      BY <1>1, <1>2, <3>1, Placeholders
    <3> QED BY <3>2, <3>3, <3>4
  <2> QED BY <2>1 DEF RevokedStaysRevoked
<1> QED BY <1>6, <1>7, <1>8, <1>9, <1>10 DEF FileInv

-----------------------------------------------------------------------------
\* A command that has just taken the gate: everybody else is idle, and its session is
\* connected, so it has not been given up.
LEMMA EnteredKeepsFiles ==
    ASSUME FileInv, NEW c \in Calls, NEW s \in Nat, NEW h \in FileCall,
           gate = "free", connected = s, s # 0,
           gate' = c, call' = [call EXCEPT ![c] = h],
           h.session = s,
           h.pc = "planning_save" => h.document \in DocumentIds /\ h.plan \in PlanIds,
           h.pc = "opening" => h.path \in Paths,
           UNCHANGED <<connected, sessions, closing, revoked>>
    PROVE  /\ call' \in [Calls -> FileCall]
           /\ GateHeld' /\ GivenUpForGood' /\ SavesNamed'
           /\ \A r \in revoked : \A b \in Calls : call'[b].session # r
           /\ s \notin revoked
           /\ \A b \in Calls : call[b] = Idle
<1>1. \A b \in Calls : call[b] = Idle
  BY FilePlansAssumption DEF FileInv, GateHeld
<1>2. /\ call' \in [Calls -> FileCall] /\ call'[c] = h
      /\ \A b \in Calls \ {c} : call'[b] = Idle
  BY <1>1 DEF FileInv, FilesTypeOK
<1>3. GateHeld' /\ SavesNamed'
  BY <1>2, Placeholders DEF GateHeld, SavesNamed
<1>4. GivenUpForGood' /\ s \notin revoked
  BY DEF FileInv, GivenUpForGood
<1>5. \A r \in revoked : \A b \in Calls : call'[b].session # r
  BY <1>2, <1>4, Placeholders DEF FileInv, GivenUpForGood
<1> QED BY <1>1, <1>2, <1>3, <1>4, <1>5

\* Commands that only read before their first await.
LEMMA ReadersInv ==
    ASSUME FileInv, NEW c \in Calls, NEW s \in 1..MaxSession,
           PlanFiles(c, s) \/ \E path \in Paths : OpenRemoteText(c, s, path)
    PROVE  FileInv'
<1>1. /\ gate = "free" /\ connected = s /\ s # 0 /\ gate' = c /\ s \in Nat
      /\ UNCHANGED <<now, changes, saves, connected, sessions, closing, revoked, documents, plans,
                     drawn, planTimers, docTimers>>
  <2>1. s \in Nat
    OBVIOUS
  <2>2. CASE PlanFiles(c, s)
    BY <2>1, <2>2 DEF PlanFiles, Enter, OwnedSftp, sessionVars, storeVars
  <2>3. ASSUME NEW path \in Paths, OpenRemoteText(c, s, path)
        PROVE  /\ gate = "free" /\ connected = s /\ s # 0 /\ gate' = c
               /\ UNCHANGED <<now, changes, saves, connected, sessions, closing, revoked,
                              documents, plans, drawn, planTimers, docTimers>>
    BY <2>3 DEF OpenRemoteText, Enter, OwnedSftp, sessionVars, storeVars
  <2> QED BY <2>1, <2>2, <2>3
<1>2. PICK h \in FileCall : /\ call' = [call EXCEPT ![c] = h] /\ h.session = s
                            /\ h.pc \in {"planning", "opening"}
                            /\ h.pc = "opening" => h.path \in Paths
  <2>1. CASE PlanFiles(c, s)
    <3>1. call' = [call EXCEPT ![c] = [Idle EXCEPT !.pc = "planning", !.session = s]]
      BY <2>1 DEF PlanFiles
    <3>2. PICK h : h = [Idle EXCEPT !.pc = "planning", !.session = s]
      OBVIOUS
    <3>3. h \in FileCall /\ h.session = s /\ h.pc = "planning"
      BY <1>1, <3>2 DEF Idle, FileCall
    <3> QED BY <3>1, <3>2, <3>3
  <2>2. ASSUME NEW path \in Paths, OpenRemoteText(c, s, path)
        PROVE  \E h \in FileCall : /\ call' = [call EXCEPT ![c] = h] /\ h.session = s
                                   /\ h.pc \in {"planning", "opening"}
                                   /\ h.pc = "opening" => h.path \in Paths
    <3>1. call' = [call EXCEPT ![c] = [Idle EXCEPT !.pc = "opening", !.session = s, !.path = path,
                                                   !.revision = changes[path]]]
      BY <2>2 DEF OpenRemoteText
    <3>2. PICK h : h = [Idle EXCEPT !.pc = "opening", !.session = s, !.path = path,
                                    !.revision = changes[path]]
      OBVIOUS
    <3>3. changes[path] \in Nat
      BY DEF FileInv, FilesTypeOK
    <3>4. h \in FileCall /\ h.session = s /\ h.pc = "opening" /\ h.path = path
      BY <1>1, <3>2, <3>3 DEF Idle, FileCall
    <3> QED BY <3>1, <3>2, <3>4
  <2> QED BY <2>1, <2>2
<1>3. /\ call' \in [Calls -> FileCall]
      /\ GateHeld' /\ GivenUpForGood' /\ SavesNamed'
      /\ \A r \in revoked : \A b \in Calls : call'[b].session # r
      /\ \A b \in Calls : call[b] = Idle
  BY <1>1, <1>2, EnteredKeepsFiles
<1>4. FilesTypeOK'
  BY <1>1, <1>3 DEF FileInv, FilesTypeOK
<1>5. SpentForGood' /\ OneSavePerDocument'
  BY <1>1 DEF FileInv, SpentForGood, OneSavePerDocument
<1>6. Reserved'
  BY <1>1, <1>3, Placeholders DEF FileInv, Reserved
<1>7. RevokedStaysRevoked'
  BY <1>1, <1>3 DEF FileInv, RevokedStaysRevoked, Unused, Stored
<1> QED BY <1>3, <1>4, <1>5, <1>6, <1>7 DEF FileInv

\* plan_editor_save reserves a document that is ready.
LEMMA PlanEditorSaveInv ==
    ASSUME FileInv, NEW c \in Calls, NEW s \in 1..MaxSession, NEW d \in DocumentIds,
           PlanEditorSave(c, s, d)
    PROVE  FileInv'
<1>0. drawn \in [plan : Nat, document : Nat] /\ documents \in [DocumentIds -> Document]
  BY DEF FileInv, FilesTypeOK
<1>1. /\ gate = "free" /\ connected = s /\ s # 0 /\ gate' = c /\ s \in Nat
      /\ documents[d] # NoDocument /\ documents[d].session = s /\ documents[d].use = "ready"
      /\ UNCHANGED <<now, changes, saves, connected, sessions, closing, revoked, plans, planTimers,
                     docTimers>>
  BY DEF PlanEditorSave, Enter, OwnedSftp, Open, sessionVars
<1>2. PICK p \in PlanIds : p = drawn.plan + 1
  BY <1>0, FilePlansAssumption DEF PlanEditorSave, PlanIds
<1>3. drawn' \in [plan : Nat, document : Nat] /\ drawn'.document = drawn.document
  BY <1>0 DEF PlanEditorSave
<1>4. PICK e \in Document : e = documents[d]
  BY <1>0
<1>5. PICK g : g = [e EXCEPT !.use = "planning", !.plan = p]
  OBVIOUS
<1>6. g \in Document /\ g.use = "planning" /\ g.plan = p /\ g.session = s
  BY <1>1, <1>4, <1>5 DEF Document
<1>7. documents' = [documents EXCEPT ![d] = g]
  BY <1>0, <1>2, <1>4, <1>5 DEF PlanEditorSave
<1>8. /\ documents' \in [DocumentIds -> Document] /\ documents'[d] = g
      /\ \A x \in DocumentIds \ {d} : documents'[x] = documents[x]
  BY <1>0, <1>6, <1>7
<1>9. PICK h : h = [Idle EXCEPT !.pc = "planning_save", !.session = s, !.path = e.path,
                                !.revision = e.revision, !.document = d, !.plan = p]
  OBVIOUS
<1>10. h \in FileCall /\ h.pc = "planning_save" /\ h.session = s /\ h.document = d /\ h.plan = p
  BY <1>1, <1>9 DEF Idle, FileCall, Document
<1>11. call' = [call EXCEPT ![c] = h]
  BY <1>2, <1>4, <1>9 DEF PlanEditorSave
<1>12. /\ call' \in [Calls -> FileCall]
       /\ GateHeld' /\ GivenUpForGood' /\ SavesNamed'
       /\ \A r \in revoked : \A b \in Calls : call'[b].session # r
       /\ s \notin revoked
       /\ \A b \in Calls : call[b] = Idle
  BY <1>1, <1>10, <1>11, EnteredKeepsFiles
<1>13. FilesTypeOK'
  BY <1>1, <1>3, <1>8, <1>12 DEF FileInv, FilesTypeOK
<1>14. SpentForGood' /\ OneSavePerDocument'
  <2>1. \A x \in saves : x[1] \in DocumentIds
    BY DEF FileInv, FilesTypeOK
  <2> QED BY <1>1, <1>3, <1>8, <2>1 DEF FileInv, SpentForGood, OneSavePerDocument
<1>15. Reserved'
  <2>1. call'[c] = h
    BY <1>11 DEF FileInv, FilesTypeOK
  <2>2. \A x \in DocumentIds : documents[x].use # "planning"
    BY <1>12, Placeholders DEF FileInv, Reserved
  <2> QED BY <1>1, <1>6, <1>8, <1>10, <2>1, <2>2 DEF FileInv, Reserved
<1>16. RevokedStaysRevoked'
  BY <1>1, <1>6, <1>8, <1>12 DEF FileInv, RevokedStaysRevoked, Unused, Stored
<1> QED BY <1>12, <1>13, <1>14, <1>15, <1>16 DEF FileInv

-----------------------------------------------------------------------------
\* A command that returns gives up the gate, if it has it; everybody else was idle.
LEMMA ReturnKeepsFiles ==
    ASSUME FileInv, NEW c \in Calls, call[c] # Idle, Leave(c),
           UNCHANGED <<connected, sessions, closing, revoked>>
    PROVE  /\ call' \in [Calls -> FileCall] /\ \A b \in Calls : call'[b] = Idle
           /\ \A b \in Calls : b # c => call[b] = Idle
           /\ GateHeld' /\ GivenUpForGood' /\ SavesNamed'
<1>1. gate = c /\ \A b \in Calls : b # c => call[b] = Idle
  BY DEF FileInv, GateHeld
<1>2. call' \in [Calls -> FileCall] /\ \A b \in Calls : call'[b] = Idle
  BY <1>1, Placeholders DEF Leave, FileInv, FilesTypeOK
<1>3. GateHeld' /\ SavesNamed'
  BY <1>2, Placeholders DEF GateHeld, SavesNamed
<1>4. GivenUpForGood'
  BY DEF FileInv, GivenUpForGood
<1> QED BY <1>1, <1>2, <1>3, <1>4

\* execute_file_plan has returned.
LEMMA ExecuteReturnsInv ==
    ASSUME FileInv, NEW c \in Calls, ExecuteReturns(c) PROVE FileInv'
<1>1. /\ call[c].pc = "executing" /\ Leave(c)
      /\ UNCHANGED <<now, changes, saves, connected, sessions, closing, revoked, documents, plans,
                     drawn, planTimers, docTimers>>
  BY DEF ExecuteReturns, sessionVars, storeVars
<1>2. /\ call' \in [Calls -> FileCall] /\ \A b \in Calls : call'[b] = Idle
      /\ \A b \in Calls : b # c => call[b] = Idle
      /\ GateHeld' /\ GivenUpForGood' /\ SavesNamed'
  BY <1>1, ReturnKeepsFiles, Placeholders
<1>3. DocumentsFade /\ PlansFade
  BY <1>1, SameFades
<1>4. SpentForGood' /\ OneSavePerDocument' /\ RevokedStaysRevoked'
  BY <1>1, <1>2, <1>3, FadingKeepsSpent, Placeholders
<1>5. FilesTypeOK'
  BY <1>1, <1>2 DEF FileInv, FilesTypeOK
<1>6. Reserved'
  BY <1>1, <1>2, Placeholders DEF FileInv, Reserved
<1> QED BY <1>2, <1>4, <1>5, <1>6 DEF FileInv

\* insert_with_id drops plans before it adds one.
LEMMA KeptFades ==
    ASSUME FileInv
    PROVE  /\ Kept \in [PlanIds -> Plan]
           /\ \A q \in PlanIds : Kept[q] = plans[q] \/ Kept[q] = NoPlan
BY Placeholders DEF Kept, FileInv, FilesTypeOK

\* plan_editor_save does not get its plan: its own reservation is released.
LEMMA SaveNotPlannedInv ==
    ASSUME FileInv, NEW c \in Calls, SaveNotPlanned(c) PROVE FileInv'
<1>1. /\ call[c].pc = "planning_save" /\ Leave(c)
      /\ plans' = plans \/ plans' = Kept
      /\ documents' = Released(documents, call[c].document, "planning", call[c].plan)
      /\ UNCHANGED <<now, changes, saves, connected, sessions, closing, revoked, drawn, planTimers,
                     docTimers>>
  BY DEF SaveNotPlanned, sessionVars
<1>2. /\ call' \in [Calls -> FileCall] /\ \A b \in Calls : call'[b] = Idle
      /\ \A b \in Calls : b # c => call[b] = Idle
      /\ GateHeld' /\ GivenUpForGood' /\ SavesNamed'
  BY <1>1, ReturnKeepsFiles, Placeholders
<1>3. PICK d \in DocumentIds : d = call[c].document
  BY <1>1 DEF FileInv, SavesNamed
<1>4. /\ DocumentsFade
      /\ ~(documents'[d].use = "planning" /\ documents'[d].plan = call[c].plan)
  BY <1>1, <1>3, ReleasedFades DEF DocumentsFade
<1>5. PlansFade
  BY <1>1, SameFades, KeptFades DEF PlansFade, PlanFaded
<1>6. SpentForGood' /\ OneSavePerDocument' /\ RevokedStaysRevoked'
  BY <1>1, <1>2, <1>4, <1>5, FadingKeepsSpent, Placeholders
<1>7. FilesTypeOK'
  BY <1>1, <1>2, <1>4, <1>5 DEF FileInv, FilesTypeOK, DocumentsFade, PlansFade
<1>8. Reserved'
  <2>1. \A x \in DocumentIds : documents'[x].use # "planning"
    <3>1. ASSUME NEW x \in DocumentIds, documents'[x].use = "planning" PROVE FALSE
      <4>1. documents'[x] = documents[x]
        BY <1>4, <3>1 DEF DocumentsFade, Faded
      <4>2. PICK b \in Calls : /\ call[b].pc = "planning_save" /\ call[b].document = x
                               /\ call[b].plan = documents[x].plan
        BY <3>1, <4>1 DEF FileInv, Reserved
      <4>3. b = c
        BY <1>2, <4>2, Placeholders
      <4> QED BY <1>3, <1>4, <3>1, <4>1, <4>2, <4>3
    <3> QED BY <3>1
  <2>2. \A x \in DocumentIds : documents'[x].use = "pending" => documents'[x] = documents[x]
    BY <1>4 DEF DocumentsFade, Faded
  <2> QED BY <1>1, <2>1, <2>2 DEF FileInv, Reserved
<1> QED BY <1>2, <1>6, <1>7, <1>8 DEF FileInv

\* insert_with_id stores a plan of a session that is not revoked.
LEMMA InsertWithIdKeeps ==
    ASSUME FileInv, NEW p \in PlanIds, NEW s \in Nat, NEW d \in DocumentIds \cup {0},
           InsertWithId(p, s, d), s \notin revoked, UNCHANGED revoked
    PROVE  /\ plans' \in [PlanIds -> Plan] /\ planTimers' \subseteq PlanTimer
           /\ planTimers \subseteq planTimers'
           /\ \E t \in planTimers' : t.plan = p /\ t.document = d
           /\ \A r \in revoked : \A q \in PlanIds : Unused(q)' => plans'[q].session # r
<1>1. PICK e \in Nat : e = now + PlanLifetime
  BY FilePlansAssumption DEF FileInv, FilesTypeOK
<1>2. PICK g : g = [session |-> s, document |-> d, expires |-> e, used |-> FALSE]
  OBVIOUS
<1>3. g \in Plan /\ g.session = s
  BY <1>2 DEF Plan
<1>4. PICK t : t = [plan |-> p, expires |-> e, document |-> d]
  OBVIOUS
<1>5. t \in PlanTimer /\ t.plan = p /\ t.document = d
  BY <1>4 DEF PlanTimer
<1>6. plans' = [Kept EXCEPT ![p] = g] /\ planTimers' = planTimers \cup {t}
  BY <1>1, <1>2, <1>4 DEF InsertWithId
<1>7. /\ plans' \in [PlanIds -> Plan] /\ plans'[p] = g
      /\ \A q \in PlanIds \ {p} : plans'[q] = plans[q] \/ plans'[q] = NoPlan
  BY <1>3, <1>6, KeptFades
<1>8. planTimers' \subseteq PlanTimer
  BY <1>5, <1>6 DEF FileInv, FilesTypeOK
<1>9. ASSUME NEW r \in revoked, NEW q \in PlanIds, Unused(q)' PROVE plans'[q].session # r
  <2>1. CASE q = p
    BY <1>3, <1>7, <1>9, <2>1
  <2>2. CASE q # p
    BY <1>7, <1>9, <2>2 DEF FileInv, RevokedStaysRevoked, Unused, Stored
  <2> QED BY <2>1, <2>2
<1> QED BY <1>5, <1>6, <1>7, <1>8, <1>9

\* plan_editor_save stores its plan: the document waits for it, and so does the
\* expiry task.
LEMMA SavePlannedInv ==
    ASSUME FileInv, NEW c \in Calls, SavePlanned(c) PROVE FileInv'
<1>0. documents \in [DocumentIds -> Document] /\ call[c].session \in Nat
  BY DEF FileInv, FilesTypeOK, FileCall
<1>1. /\ call[c].pc = "planning_save" /\ Leave(c) /\ StillReserved(c)
      /\ InsertWithId(call[c].plan, call[c].session, call[c].document)
      /\ documents' = [documents EXCEPT ![call[c].document].use = "pending"]
      /\ UNCHANGED <<now, changes, saves, connected, sessions, closing, revoked, drawn, docTimers>>
  BY DEF SavePlanned, sessionVars
<1>2. /\ call' \in [Calls -> FileCall] /\ \A b \in Calls : call'[b] = Idle
      /\ \A b \in Calls : b # c => call[b] = Idle
      /\ GateHeld' /\ GivenUpForGood' /\ SavesNamed'
  BY <1>1, ReturnKeepsFiles, Placeholders
<1>3. PICK d \in DocumentIds, p \in PlanIds : d = call[c].document /\ p = call[c].plan
  BY <1>1 DEF FileInv, SavesNamed
<1>4. PICK s \in Nat : s = call[c].session
  BY <1>0
<1>5. s \notin revoked
  BY <1>4 DEF FileInv, RevokedStaysRevoked
<1>6. /\ plans' \in [PlanIds -> Plan] /\ planTimers' \subseteq PlanTimer
      /\ planTimers \subseteq planTimers'
      /\ \E t \in planTimers' : t.plan = p /\ t.document = d
      /\ \A r \in revoked : \A q \in PlanIds : Unused(q)' => plans'[q].session # r
  BY <1>1, <1>3, <1>4, <1>5, InsertWithIdKeeps
<1>7. PICK e \in Document : e = documents[d]
  BY <1>0
<1>8. e # NoDocument /\ e.use = "planning" /\ e.plan = p /\ e.session = s
  BY <1>1, <1>3, <1>4, <1>7 DEF StillReserved, Open
<1>9. PICK g : g = [e EXCEPT !.use = "pending"]
  OBVIOUS
<1>10. g \in Document /\ g.use = "pending" /\ g.plan = p /\ g.session = s
  BY <1>8, <1>9 DEF Document
<1>11. /\ documents' \in [DocumentIds -> Document] /\ documents'[d] = g
       /\ \A x \in DocumentIds \ {d} : documents'[x] = documents[x]
  BY <1>0, <1>1, <1>3, <1>7, <1>9, <1>10
<1>12. FilesTypeOK'
  BY <1>1, <1>2, <1>6, <1>11 DEF FileInv, FilesTypeOK
<1>13. SpentForGood' /\ OneSavePerDocument'
  <2>1. \A x \in saves : x[1] \in DocumentIds
    BY DEF FileInv, FilesTypeOK
  <2> QED BY <1>1, <1>7, <1>8, <1>11, <2>1 DEF FileInv, SpentForGood, OneSavePerDocument
<1>14. Reserved'
  <2>1. ASSUME NEW x \in DocumentIds, x # d
        PROVE  documents'[x].use # "planning"
    <3>1. SUFFICES ASSUME documents[x].use = "planning" PROVE FALSE
      BY <1>11, <2>1
    <3>2. PICK b \in Calls : call[b].pc = "planning_save" /\ call[b].document = x
      BY <3>1 DEF FileInv, Reserved
    <3>3. b = c
      BY <1>2, <3>2, Placeholders
    <3> QED BY <1>3, <2>1, <3>2, <3>3
  <2> QED BY <1>6, <1>10, <1>11, <2>1 DEF FileInv, Reserved
<1>15. RevokedStaysRevoked'
  <2>1. ASSUME NEW r \in revoked
        PROVE  /\ \A x \in DocumentIds : documents'[x].session # r
               /\ \A b \in Calls : call'[b].session # r
    <3>1. r # 0
      BY DEF FileInv, GivenUpForGood
    <3> QED BY <1>2, <1>5, <1>10, <1>11, <3>1, Placeholders DEF FileInv, RevokedStaysRevoked
  <2> QED BY <1>1, <1>6, <2>1 DEF RevokedStaysRevoked
<1> QED BY <1>2, <1>12, <1>13, <1>14, <1>15 DEF FileInv

\* The other plans have no document.
LEMMA PlanFilesReturnsInv ==
    ASSUME FileInv, NEW c \in Calls, PlanFilesReturns(c) PROVE FileInv'
<1>0. call[c].session \in Nat /\ drawn \in [plan : Nat, document : Nat]
  BY DEF FileInv, FilesTypeOK, FileCall
<1>1. /\ call[c].pc = "planning" /\ Leave(c)
      /\ UNCHANGED <<now, changes, saves, connected, sessions, closing, revoked, documents,
                     docTimers>>
  BY DEF PlanFilesReturns, sessionVars
<1>2. /\ call' \in [Calls -> FileCall] /\ \A b \in Calls : call'[b] = Idle
      /\ \A b \in Calls : b # c => call[b] = Idle
      /\ GateHeld' /\ GivenUpForGood' /\ SavesNamed'
  BY <1>1, ReturnKeepsFiles, Placeholders
<1>3. /\ plans' \in [PlanIds -> Plan] /\ planTimers' \subseteq PlanTimer
      /\ planTimers \subseteq planTimers'
      /\ drawn' \in [plan : Nat, document : Nat] /\ drawn'.document = drawn.document
      /\ \A r \in revoked : \A q \in PlanIds : Unused(q)' => plans'[q].session # r
  <2>1. CASE /\ drawn.plan < MaxPlan /\ drawn' = [drawn EXCEPT !.plan = @ + 1]
             /\ InsertWithId(drawn.plan + 1, call[c].session, 0)
    <3>1. PICK p \in PlanIds : p = drawn.plan + 1
      BY <1>0, <2>1, FilePlansAssumption DEF PlanIds
    <3>2. PICK s \in Nat : s = call[c].session
      BY <1>0
    <3>3. s \notin revoked
      BY <3>2 DEF FileInv, RevokedStaysRevoked
    <3>4. InsertWithId(p, s, 0)
      BY <2>1, <3>1, <3>2
    <3>5. /\ plans' \in [PlanIds -> Plan] /\ planTimers' \subseteq PlanTimer
          /\ planTimers \subseteq planTimers'
          /\ \A r \in revoked : \A q \in PlanIds : Unused(q)' => plans'[q].session # r
      BY <1>1, <3>3, <3>4, InsertWithIdKeeps
    <3>6. drawn' \in [plan : Nat, document : Nat] /\ drawn'.document = drawn.document
      BY <1>0, <2>1
    <3> QED BY <3>5, <3>6
  <2>2. CASE (plans' = Kept \/ plans' = plans) /\ UNCHANGED <<drawn, planTimers>>
    <3>1. /\ plans' \in [PlanIds -> Plan]
          /\ \A q \in PlanIds : plans'[q] = plans[q] \/ plans'[q] = NoPlan
      BY <2>2, KeptFades DEF FileInv, FilesTypeOK
    <3>2. \A r \in revoked : \A q \in PlanIds : Unused(q)' => plans'[q].session # r
      BY <3>1 DEF FileInv, RevokedStaysRevoked, Unused, Stored
    <3> QED BY <2>2, <3>1, <3>2 DEF FileInv, FilesTypeOK
  <2> QED BY <2>1, <2>2 DEF PlanFilesReturns
<1>4. FilesTypeOK'
  BY <1>1, <1>2, <1>3 DEF FileInv, FilesTypeOK
<1>5. SpentForGood' /\ OneSavePerDocument'
  BY <1>1, <1>3 DEF FileInv, SpentForGood, OneSavePerDocument
<1>6. Reserved'
  <2>1. \A x \in DocumentIds : documents[x].use # "planning"
    BY <1>1, <1>2, Placeholders DEF FileInv, Reserved
  <2> QED BY <1>1, <1>3, <2>1 DEF FileInv, Reserved
<1>7. RevokedStaysRevoked'
  <2>1. \A r \in revoked : r # 0
    BY DEF FileInv, GivenUpForGood
  <2> QED BY <1>1, <1>2, <1>3, <2>1, Placeholders DEF FileInv, RevokedStaysRevoked
<1> QED BY <1>2, <1>4, <1>5, <1>6, <1>7 DEF FileInv

\* register_editor_document: documents and plans go, and a new document, if any, has
\* an id nobody had.
LEMMA OpenRemoteTextReturnsInv ==
    ASSUME FileInv, NEW c \in Calls, OpenRemoteTextReturns(c) PROVE FileInv'
<1>0. /\ call[c] \in FileCall /\ drawn \in [plan : Nat, document : Nat]
      /\ documents \in [DocumentIds -> Document] /\ plans \in [PlanIds -> Plan]
  BY DEF FileInv, FilesTypeOK
<1>1. /\ call[c].pc = "opening" /\ Leave(c)
      /\ UNCHANGED <<now, changes, saves, connected, sessions, closing, revoked, planTimers>>
  BY DEF OpenRemoteTextReturns, sessionVars
<1>2. /\ call' \in [Calls -> FileCall] /\ \A b \in Calls : call'[b] = Idle
      /\ \A b \in Calls : b # c => call[b] = Idle
      /\ GateHeld' /\ GivenUpForGood' /\ SavesNamed'
  BY <1>1, ReturnKeepsFiles, Placeholders
<1>3. \A x \in DocumentIds : documents[x].use # "planning"
  BY <1>1, <1>2, Placeholders DEF FileInv, Reserved
<1>4. CASE DocumentsFade /\ PlansFade /\ UNCHANGED <<drawn, docTimers>>
  <2>1. SpentForGood' /\ OneSavePerDocument' /\ RevokedStaysRevoked'
    BY <1>1, <1>2, <1>4, FadingKeepsSpent, Placeholders
  <2>2. FilesTypeOK'
    BY <1>1, <1>2, <1>4 DEF FileInv, FilesTypeOK, DocumentsFade, PlansFade
  <2>3. Reserved'
    BY <1>1, <1>3, <1>4 DEF FileInv, Reserved, DocumentsFade, Faded
  <2> QED BY <1>2, <2>1, <2>2, <2>3 DEF FileInv
<1>5. CASE RegisterEditorDocument(c)
  <2>1. PICK retired : retired = RetiredBy(call[c].session, call[c].path)
    OBVIOUS
  <2>2. PICK docs :
          docs = [x \in DocumentIds |-> IF x \in retired THEN NoDocument ELSE documents[x]]
    OBVIOUS
  <2>3. /\ docs \in [DocumentIds -> Document]
        /\ \A x \in DocumentIds : docs[x] = documents[x] \/ docs[x] = NoDocument
    BY <1>0, <2>2, Placeholders
  <2>4. plans' = [p \in PlanIds |-> IF plans[p].document \in retired THEN NoPlan ELSE plans[p]]
    BY <1>5, <2>1 DEF RegisterEditorDocument
  <2>5. PlansFade
    BY <1>0, <2>4, Placeholders DEF PlansFade, PlanFaded
  <2>6. CASE documents' = docs /\ UNCHANGED <<drawn, docTimers>>
    <3>1. DocumentsFade
      BY <2>3, <2>6, Placeholders DEF DocumentsFade, Faded
    <3> QED BY <1>4, <2>5, <2>6, <3>1
  <2>7. ASSUME NEW id, NEW g, NEW t,
               id = drawn.document + 1, drawn.document < MaxDocument,
               drawn' = [drawn EXCEPT !.document = id],
               g = [session |-> call[c].session, path |-> call[c].path,
                    revision |-> call[c].revision, expires |-> now + DocumentLifetime,
                    use |-> "ready", plan |-> 0],
               t = [document |-> id, expires |-> now + DocumentLifetime],
               documents' = [docs EXCEPT ![id] = g], docTimers' = docTimers \cup {t}
        PROVE  FileInv'
    <3>1. id \in DocumentIds /\ \A x \in DocumentIds : x <= drawn.document => x # id /\ x <= id
      BY <1>0, <2>7, FilePlansAssumption DEF DocumentIds
    <3>2. drawn' \in [plan : Nat, document : Nat] /\ drawn'.document = id
      <4>1. id \in Nat
        BY <1>0, <2>7
      <4> QED BY <1>0, <2>7, <4>1
    <3>3. PICK e \in Nat : e = now + DocumentLifetime
      BY FilePlansAssumption DEF FileInv, FilesTypeOK
    <3>4. g \in Document /\ g.use = "ready" /\ g.session = call[c].session
      BY <1>0, <2>7, <3>3 DEF Document, FileCall
    <3>5. t \in [document : DocumentIds, expires : Nat]
      BY <2>7, <3>1, <3>3
    <3>6. /\ documents' \in [DocumentIds -> Document] /\ documents'[id] = g
          /\ \A x \in DocumentIds \ {id} :
                documents'[x] = documents[x] \/ documents'[x] = NoDocument
      BY <2>3, <2>7, <3>1, <3>4
    <3>7. FilesTypeOK'
      BY <1>1, <1>2, <2>5, <2>7, <3>2, <3>5, <3>6 DEF FileInv, FilesTypeOK, PlansFade
    <3>8. SpentForGood' /\ OneSavePerDocument'
      <4>1. \A x \in saves : x[1] \in DocumentIds
        BY DEF FileInv, FilesTypeOK
      <4> QED BY <1>1, <3>1, <3>2, <3>6, <4>1 DEF FileInv, SpentForGood, OneSavePerDocument
    <3>9. Reserved'
      BY <1>1, <1>3, <3>4, <3>6, Placeholders DEF FileInv, Reserved
    <3>10. RevokedStaysRevoked'
      <4>1. ASSUME NEW r \in revoked
            PROVE  /\ \A x \in DocumentIds : documents'[x].session # r
                   /\ \A p \in PlanIds : Unused(p)' => plans'[p].session # r
                   /\ \A b \in Calls : call'[b].session # r
        <5>1. r # 0 /\ call[c].session # r
          BY DEF FileInv, GivenUpForGood, RevokedStaysRevoked
        <5>2. \A x \in DocumentIds : documents'[x].session # r
          BY <3>4, <3>6, <5>1, Placeholders DEF FileInv, RevokedStaysRevoked
        <5>3. \A p \in PlanIds : Unused(p)' => plans'[p].session # r
          BY <2>5 DEF FileInv, RevokedStaysRevoked, PlansFade, PlanFaded, Unused, Stored
        <5>4. \A b \in Calls : call'[b].session # r
          BY <1>2, <5>1, Placeholders
        <5> QED BY <5>2, <5>3, <5>4
      <4> QED BY <1>1, <4>1 DEF RevokedStaysRevoked
    <3> QED BY <1>2, <3>7, <3>8, <3>9, <3>10 DEF FileInv
  <2>8. \/ documents' = docs /\ UNCHANGED <<drawn, docTimers>>
        \/ /\ drawn.document < MaxDocument
           /\ drawn' = [drawn EXCEPT !.document = drawn.document + 1]
           /\ documents' = [docs EXCEPT ![drawn.document + 1] =
                  [session |-> call[c].session, path |-> call[c].path,
                   revision |-> call[c].revision, expires |-> now + DocumentLifetime,
                   use |-> "ready", plan |-> 0]]
           /\ docTimers' = docTimers \cup
                  {[document |-> drawn.document + 1, expires |-> now + DocumentLifetime]}
    BY <1>5, <2>1, <2>2, Zenon DEF RegisterEditorDocument
  <2> QED BY <2>6, <2>7, <2>8, Zenon
<1>6. CASE UNCHANGED <<documents, plans, drawn, docTimers>>
  BY <1>4, <1>6, SameFades
<1> QED BY <1>5, <1>6 DEF OpenRemoteTextReturns

\* consume uses up the plan and, for an editor save, its document: a document that
\* was saved before is not there to be saved again.
LEMMA ConsumedInv ==
    ASSUME FileInv, NEW c \in Calls, NEW s \in 1..MaxSession, NEW p \in PlanIds,
           gate = "free", OwnedSftp(s), Stored(p),
           plans[p].document # 0 => Authorized(p, s), Consumed(c, s, p),
           UNCHANGED <<now, changes, drawn, planTimers, docTimers, connected, sessions, closing,
                       revoked>>
    PROVE  FileInv'
<1>0. /\ documents \in [DocumentIds -> Document] /\ plans \in [PlanIds -> Plan]
      /\ saves \subseteq DocumentIds \X PlanIds /\ plans[p].document \in DocumentIds \cup {0}
  BY DEF FileInv, FilesTypeOK, Plan
<1>1. connected = s /\ s # 0 /\ s \in Nat
  BY DEF OwnedSftp
<1>2. PICK h : h = [Idle EXCEPT !.pc = "executing", !.session = s, !.plan = p]
  OBVIOUS
<1>3. h \in FileCall /\ h.session = s /\ h.pc = "executing"
  BY <1>1, <1>2 DEF Idle, FileCall
<1>4. gate' = c /\ call' = [call EXCEPT ![c] = h]
  BY <1>2 DEF Consumed
<1>5. /\ call' \in [Calls -> FileCall]
      /\ GateHeld' /\ GivenUpForGood' /\ SavesNamed'
      /\ \A r \in revoked : \A b \in Calls : call'[b].session # r
      /\ \A b \in Calls : call[b] = Idle
  BY <1>1, <1>3, <1>4, EnteredKeepsFiles
<1>6. plans' = [plans EXCEPT ![p].used = TRUE]
  BY DEF Consumed
<1>7. PlansFade
  <2>1. PICK g \in Plan : g = plans[p]
    BY <1>0
  <2>2. [g EXCEPT !.used = TRUE] \in Plan /\ [g EXCEPT !.used = TRUE].used
    BY DEF Plan
  <2> QED BY <1>0, <1>6, <2>1, <2>2 DEF PlansFade, PlanFaded
<1>8. DocumentsFade
  BY SameFades, DocumentRemovalFades DEF Consumed
<1>9. saves' \subseteq DocumentIds \X PlanIds
  BY <1>0 DEF Consumed
<1>10. FilesTypeOK'
  BY <1>5, <1>7, <1>8, <1>9 DEF FileInv, FilesTypeOK, PlansFade, DocumentsFade
<1>11. SpentForGood' /\ OneSavePerDocument'
  <2>1. CASE plans[p].document = 0
    <3>1. UNCHANGED <<saves, documents, drawn>>
      BY <2>1 DEF Consumed
    <3> QED BY <3>1 DEF FileInv, SpentForGood, OneSavePerDocument
  <2>2. CASE plans[p].document # 0
    <3>1. PICK d \in DocumentIds : d = plans[p].document
      BY <1>0, <2>2
    <3>2. documents[d] # NoDocument
      BY <2>2, <3>1 DEF Authorized, Open
    <3>3. saves' = saves \cup {<<d, p>>} /\ documents' = [documents EXCEPT ![d] = NoDocument]
      BY <2>2, <3>1 DEF Consumed
    <3>4. \A x \in saves : x[1] # d
      BY <3>2 DEF FileInv, SpentForGood
    <3>5. d <= drawn.document
      BY <3>2 DEF FileInv, SpentForGood
    <3>6. OneSavePerDocument'
      BY <3>3, <3>4 DEF FileInv, OneSavePerDocument
    <3>7. SpentForGood'
      <4>1. \A x \in saves : x[1] \in DocumentIds
        BY <1>0
      <4> QED BY <1>0, <3>3, <3>5, <4>1 DEF FileInv, SpentForGood
    <3> QED BY <3>6, <3>7
  <2> QED BY <2>1, <2>2
<1>12. Reserved'
  <2>1. \A x \in DocumentIds : documents[x].use # "planning"
    BY <1>5, Placeholders DEF FileInv, Reserved
  <2> QED BY <1>8, <2>1 DEF FileInv, Reserved, DocumentsFade, Faded
<1>13. RevokedStaysRevoked'
  <2>1. ASSUME NEW r \in revoked
        PROVE  /\ \A x \in DocumentIds : documents'[x].session # r
               /\ \A q \in PlanIds : Unused(q)' => plans'[q].session # r
    <3>1. r # 0
      BY DEF FileInv, GivenUpForGood
    <3>2. \A x \in DocumentIds : documents'[x].session # r
      BY <1>8, <3>1 DEF FileInv, RevokedStaysRevoked, DocumentsFade, Faded
    <3>3. \A q \in PlanIds : Unused(q)' => plans'[q].session # r
      BY <1>7 DEF FileInv, RevokedStaysRevoked, PlansFade, PlanFaded, Unused, Stored
    <3> QED BY <3>2, <3>3
  <2> QED BY <1>5, <2>1 DEF RevokedStaysRevoked
<1> QED BY <1>5, <1>10, <1>11, <1>12, <1>13 DEF FileInv

\* execute_file_plan.
LEMMA ExecuteInv ==
    ASSUME FileInv, NEW c \in Calls, NEW s \in 1..MaxSession, NEW p \in PlanIds, Execute(c, s, p)
    PROVE  FileInv'
<1>1. /\ gate = "free" /\ OwnedSftp(s) /\ Stored(p)
      /\ UNCHANGED <<now, changes, drawn, planTimers, docTimers, connected, sessions, closing,
                     revoked>>
  BY DEF Execute, sessionVars
<1>2. CASE /\ plans' = [plans EXCEPT ![p] = NoPlan]
           /\ documents' = documents \/ documents' = ReleasedBy(p)
           /\ UNCHANGED <<gate, call, saves>>
  <2>1. DocumentsFade /\ PlansFade
    BY <1>2, SameFades, RemovalFades, ReleasedByFades
  <2>2. now' \in Nat /\ changes' \in [Paths -> Nat]
    BY <1>1 DEF FileInv, FilesTypeOK
  <2> QED BY <1>1, <1>2, <2>1, <2>2, FadingKeepsFiles
<1>3. CASE (plans[p].document # 0 => Authorized(p, s)) /\ Consumed(c, s, p)
  BY <1>1, <1>3, ConsumedInv
<1> QED BY <1>2, <1>3 DEF Execute

-----------------------------------------------------------------------------
\* Every step keeps the invariant of the file plans.
LEMMA FileNextInv ==
    ASSUME FileInv, [FilePlansNext]_filePlanVars PROVE FileInv'
<1>1. ASSUME NEW s \in 1..MaxSession, FileCommands(s) PROVE FileInv'
  BY <1>1, ReadersInv, PlanEditorSaveInv, ExecuteInv, DiscardInv, DiscardEditorDocumentInv
     DEF FileCommands
<1>2. ASSUME NEW c \in Calls,
             \/ OpenRemoteTextReturns(c) \/ SavePlanned(c) \/ SaveNotPlanned(c)
             \/ PlanFilesReturns(c) \/ ExecuteReturns(c)
      PROVE  FileInv'
  BY <1>2, OpenRemoteTextReturnsInv, SavePlannedInv, SaveNotPlannedInv, PlanFilesReturnsInv,
     ExecuteReturnsInv
<1>3. CASE UNCHANGED filePlanVars
  <2>1. /\ UNCHANGED <<gate, call, connected, sessions, closing, revoked, saves, drawn, now,
                       changes, docTimers, planTimers, documents, plans>>
    BY <1>3 DEF filePlanVars, sessionVars, storeVars
  <2>2. now' \in Nat /\ changes' \in [Paths -> Nat]
    BY <2>1 DEF FileInv, FilesTypeOK
  <2> QED BY <2>1, <2>2, SameFades, FadingKeepsFiles
<1>4. CASE Connect \/ OpenSftp \/ Disconnect \/ CloseSftpReturns
  BY <1>4, SessionsInv
<1>5. CASE RevokeAll \/ Tick \/ \E path \in Paths : RemoteChanges(path)
  BY <1>5, RevokeAllInv
<1>6. CASE \E s \in 1..MaxSession : CloseSftp(s)
  BY <1>6, CloseSftpInv
<1>7. CASE \/ \E t \in planTimers : PlanExpires(t)
           \/ \E t \in docTimers : DocumentExpires(t)
  BY <1>7, PlanExpiresInv, DocumentExpiresInv
<1> QED BY <1>1, <1>2, <1>3, <1>4, <1>5, <1>6, <1>7 DEF FilePlansNext

\* The invariant of the file plans holds always.
LEMMA FileInvHolds == FilePlansSpec => []FileInv
<1>1. FilePlansInit => FileInv
  BY FileInitInv
<1>2. FileInv /\ [FilePlansNext]_filePlanVars => FileInv'
  BY FileNextInv
<1> QED BY <1>1, <1>2, PTL DEF FilePlansSpec

\* "Execution permanently consumes this document authority": at most one save of a
\* document is ever executed, however it is planned, discarded and planned again.
THEOREM DocumentsSavedOnce == FilePlansSpec => []OneSavePerDocument
<1>1. FileInv => OneSavePerDocument
  BY DEF FileInv
<1> QED BY <1>1, FileInvHolds, PTL

\* A reserved document always has somebody who will release it, although the plan
\* store may drop the plan it waits for.
THEOREM ReservationsAlwaysOwned == FilePlansSpec => []ReservationHasOwner
<1>1. FileInv => ReservationHasOwner
  BY DEF FileInv, Reserved, ReservationHasOwner
<1> QED BY <1>1, FileInvHolds, PTL

\* Nothing of a session that close_sftp has revoked can be executed or appears
\* again, as session ids are not reused and whoever adds something has the gate.
THEOREM RevokedForEver == FilePlansSpec => []RevokedStaysRevoked
<1>1. FileInv => RevokedStaysRevoked
  BY DEF FileInv
<1> QED BY <1>1, FileInvHolds, PTL

-----------------------------------------------------------------------------
(***************************************************************************)
(* One operation                                                           *)
(***************************************************************************)
Versions == {"absent", "old", "foreign", "touched", "ours"}
Names == {"dest", "source"}
Mutations == {"mkdir", "rename", "delete"}
Active == {"Queued", "Preparing", "Transferring", "CancelRequested", "Finalizing"}
Pcs == {"idle", "queued", "starting", "opening", "reading", "creating", "streaming", "preserving",
        "checking", "rechecking", "finalizing", "verifying", "committing", "unlinking",
        "cleanup", "mutating", "linking", "removing", "done"}

States == Active \cup Terminal
Actions == {"none", "CreateNew", "Skip", "ReplaceExisting"}
Errors == {"none", "cancelled", "failed", "unknown"}
Contents == {"none", "mixed", "approved"}
Rechecks == {"none", "old", "touched"}
Looks == {"none", "starting", "checking", "rechecking"}
Staging == {"absent", "ours"}

Files == [dest : Versions, source : Versions, staging : Staging]
Destroyed == [version : Versions, late : BOOLEAN]
Job == [kind : Kinds \cup {"none"}, action : Actions, expected : {"absent", "old"}, pc : Pcs,
        state : States, cancelled : BOOLEAN, accepted : BOOLEAN, error : Errors,
        owned : BOOLEAN, unconfirmed : BOOLEAN, dropped : BOOLEAN, content : Contents,
        recheck : Rechecks, look : Looks, handle : Versions \cup {"none"}, kept : BOOLEAN]

RunTypeOK ==
    /\ files \in Files
    /\ job \in Job
    /\ foreign \in Nat
    /\ late \in SUBSET Names
    /\ destroyed \in SUBSET Destroyed
    /\ committed \in BOOLEAN

\* Nobody is told of the plan before there is one.
Unplanned ==
    job.pc = "idle" =>
        /\ job = NoJob /\ late = {}
        /\ files.dest \in {"absent", "old"} /\ files.source = "old"

\* The way of each kind of operation, and what its plan fixed.
OnItsWay ==
    /\ job.kind = "none" => job.pc = "idle"
    /\ job.kind \in {"upload", "download"} =>
          /\ job.pc \in {"queued", "starting", "creating", "streaming", "checking", "finalizing",
                         "verifying", "committing", "unlinking", "cleanup", "done"}
          /\ job.action \in {"CreateNew", "Skip", "ReplaceExisting"}
          /\ job.action = "ReplaceExisting" => job.expected = "old"
    /\ job.kind = "download" => job.pc \notin {"creating", "unlinking", "cleanup"}
    /\ job.kind = "editor" =>
          /\ job.pc \in {"queued", "starting", "opening", "reading", "creating", "streaming",
                         "preserving", "checking", "rechecking", "finalizing", "committing",
                         "cleanup", "done"}
          /\ job.action = "ReplaceExisting"
    /\ job.kind \in Mutations =>
          job.pc \in {"mutating", "linking", "removing", "done"} /\ job.action = "none"
    /\ job.action = "Skip" => job.pc \in {"queued", "starting", "done"}
    /\ job.pc = "unlinking" => job.action = "CreateNew"
    /\ job.pc = "linking" => job.kind = "rename"
    /\ job.pc = "removing" => job.kind \in {"rename", "delete"}
    /\ job.pc \in {"opening", "reading"} =>
          job.look \in {"starting", "checking", "rechecking"}

\* Which operations have a staging file of their own.
Owning ==
    /\ job.pc \in {"streaming", "preserving", "checking", "rechecking", "finalizing", "verifying",
                   "committing", "unlinking", "cleanup"} => job.owned
    /\ job.pc \in {"opening", "reading"} => (job.owned <=> job.look # "starting")
    /\ job.pc \in {"queued", "starting", "creating", "mutating", "linking", "removing"} => ~job.owned
    /\ ~job.owned /\ job.pc # "done" => files.staging = "absent"
    /\ StagingAccountedFor

\* What the state of an operation says about it: a cancellation is accepted only
\* before finalisation.
Stated ==
    /\ job.pc = "done" <=> job.state \in Terminal
    /\ job.pc \in {"verifying", "committing", "unlinking"} => job.state = "Finalizing"
    /\ job.state = "Finalizing" => ~job.accepted
    /\ job.accepted => job.cancelled /\ job.kind \in Streams
    /\ job.pc = "cleanup" => job.error # "none"

\* What has been changed at each point.
Changes ==
    /\ job.pc \notin {"unlinking", "removing", "cleanup", "done"} => ~committed
    /\ job.pc \notin {"cleanup", "done"} => destroyed = {}
    /\ job.pc = "removing" => (committed <=> job.kind = "rename")
    /\ job.pc = "unlinking" => committed
    /\ committed /\ job.kind \in Streams => job.state = "Finalizing" \/ job.pc = "done"
    /\ job.pc = "cleanup" /\ job.error # "unknown" => ~committed \/ job.dropped

\* What was streamed is what was approved, or the last look at the source could not tell.
Vouched == job.content = "approved" \/ (job.kind # "editor" /\ job.recheck = "touched")

\* What was streamed, and kept of the text it replaces.
Content ==
    /\ job.content = "mixed" => files.source # "old" /\ job.kind # "editor"
    /\ job.pc = "checking" => job.content # "none"
    /\ job.pc \in {"finalizing", "verifying", "committing", "unlinking"} => Vouched
    /\ job.kind = "editor" /\ job.owned /\ job.pc \notin {"streaming", "cleanup", "done"} =>
          job.content = "approved" /\ (job.pc # "preserving" => job.kept)

\* What the last look has seen is there, unless others wrote since.
Seen ==
    /\ job.pc = "reading" => "dest" \in late \/ files.dest = job.handle
    /\ job.kind = "editor" /\ job.pc \in {"finalizing", "committing"} =>
          "dest" \in late \/ files.dest = "old"
    /\ job.pc = "committing" /\ job.action = "ReplaceExisting" =>
          "dest" \in late \/ files.dest \in {"old", "touched"}
    /\ job.pc \in {"linking", "removing"} =>
          "source" \in late \/ files.source \in {"old", "touched"}

RunInv ==
    /\ RunTypeOK
    /\ Unplanned /\ OnItsWay /\ Owning /\ Stated /\ Changes /\ Content /\ Seen
    /\ FinalStateTruthful /\ AcceptedCancelWins /\ DestroysOnlyReviewed

-----------------------------------------------------------------------------
(***************************************************************************)
(* What the steps have in common                                           *)
(***************************************************************************)
\* A step never changes what was planned.
SamePlan == job'.kind = job.kind /\ job'.action = job.action /\ job'.expected = job.expected

\* What a step of the operation leaves alone unless it says otherwise.
SameCancellation == job'.cancelled = job.cancelled /\ job'.accepted = job.accepted
SameStaging ==
    /\ job'.owned = job.owned /\ job'.unconfirmed = job.unconfirmed
    /\ job'.dropped = job.dropped
SameText ==
    /\ job'.content = job.content /\ job'.recheck = job.recheck /\ job'.look = job.look
    /\ job'.handle = job.handle /\ job'.kept = job.kept

\* The last match of spawn_job, value by value.
LEMMA FinalStates ==
    /\ FinalState("none") = "Completed"
    /\ FinalState("cancelled") = "Cancelled"
    /\ FinalState("unknown") = "OutcomeUnknown"
    /\ FinalState("failed") = "Failed"
    /\ \A e \in Errors : FinalState(e) \in Terminal
  BY DEF FinalState, Errors, Terminal

\* The literals of the steps are values of their fields.
LEMMA Literals ==
    /\ {"queued", "starting", "opening", "reading", "creating", "streaming", "preserving",
        "checking", "rechecking", "finalizing", "verifying", "committing", "unlinking",
        "cleanup", "mutating", "linking", "removing", "done"} \subseteq Pcs
    /\ {"Queued", "Preparing", "Transferring", "CancelRequested", "Finalizing"} \subseteq States
    /\ Terminal \subseteq States
    /\ {"mixed", "approved"} \subseteq Contents
    /\ {"starting", "checking", "rechecking"} \subseteq Looks
    /\ {"absent", "ours"} = Staging
    /\ {"none", "cancelled", "failed", "unknown"} = Errors
  BY DEF Pcs, States, Active, Terminal, Contents, Looks, Staging, Errors

\* The end of a job, field by field.
LEMMA FinishFields ==
    ASSUME job \in Job, NEW e \in Errors, Finish(e)
    PROVE  /\ job' \in Job /\ SamePlan /\ SameCancellation /\ SameStaging /\ SameText
           /\ job'.pc = "done" /\ job'.state = FinalState(e)
  BY FinalStates, Literals DEF Finish, Job, SamePlan, SameCancellation, SameStaging, SameText

\* The way to the removal of what is staged, field by field.
LEMMA CleanUpFields ==
    ASSUME job \in Job, NEW e \in Errors, CleanUpAfter(e)
    PROVE  /\ job' \in Job /\ SamePlan /\ SameCancellation /\ SameStaging /\ SameText
           /\ job'.pc = "cleanup" /\ job'.state = job.state /\ job'.error = e
  BY Literals DEF CleanUpAfter, Job, SamePlan, SameCancellation, SameStaging, SameText

\* A job may end as Completed when what was approved is in place, as Failed or
\* Cancelled when nothing was changed, and with nothing left staged that is its own.
LEMMA FinishKeepsRun ==
    ASSUME RunInv, NEW e \in Errors, Finish(e),
           job.pc \notin {"idle", "done"},
           files' \in Files, files'.source \in {files.source, "absent"}, foreign' = foreign,
           late' \in SUBSET Names, destroyed' \in SUBSET Destroyed, committed' \in BOOLEAN,
           files'.staging = "absent" \/ (~job.owned /\ e = "unknown"),
           e = "none" /\ job.action # "Skip" =>
              /\ committed'
              /\ job.kind \in Streams => Vouched
              /\ job.kind = "editor" => job.kept,
           e \in {"failed", "cancelled"} => ~committed',
           job.accepted => ~committed',
           DestroysOnlyReviewed'
    PROVE  RunInv'
  <1>1. /\ job' \in Job /\ SamePlan /\ SameCancellation /\ SameStaging /\ SameText
        /\ job'.pc = "done" /\ job'.state = FinalState(e)
    BY FinishFields DEF RunInv, RunTypeOK
  <1>2. RunTypeOK'
    BY <1>1 DEF RunInv, RunTypeOK
  <1>3. Unplanned' /\ Seen'
    BY <1>1 DEF Unplanned, Seen
  <1>4. OnItsWay'
    BY <1>1 DEF RunInv, OnItsWay, SamePlan
  <1>5. Owning'
    BY <1>1, FinalStates DEF Owning, StagingAccountedFor, SameStaging
  <1>6. Stated'
    BY <1>1, FinalStates DEF RunInv, Stated, SamePlan, SameCancellation, Terminal
  <1>7. Changes' /\ Content'
    BY <1>1 DEF RunInv, Changes, Content, SamePlan, SameText
  <1>8. FinalStateTruthful'
    BY <1>1, FinalStates DEF FinalStateTruthful, Vouched, SamePlan, SameText, Errors, Streams
  <1>9. AcceptedCancelWins'
    BY <1>1 DEF AcceptedCancelWins, SameCancellation
  <1> QED BY <1>2, <1>3, <1>4, <1>5, <1>6, <1>7, <1>8, <1>9 DEF RunInv

\* An operation may go and remove what it staged when nothing was changed or its error
\* says that this cannot be known.
LEMMA CleanUpKeepsRun ==
    ASSUME RunInv, NEW e \in Errors \ {"none"}, CleanUpAfter(e),
           job.owned, job.kind \in {"upload", "editor"}, job.action # "Skip", job.pc # "done",
           files' \in Files, files'.source = files.source, foreign' = foreign,
           late' \in SUBSET Names, destroyed' \in SUBSET Destroyed, committed' \in BOOLEAN,
           e # "unknown" => ~committed',
           committed' => job.state = "Finalizing",
           DestroysOnlyReviewed'
    PROVE  RunInv'
  <1>1. /\ job' \in Job /\ SamePlan /\ SameCancellation /\ SameStaging /\ SameText
        /\ job'.pc = "cleanup" /\ job'.state = job.state /\ job'.error = e
    BY CleanUpFields DEF RunInv, RunTypeOK
  <1>2. RunTypeOK'
    BY <1>1 DEF RunInv, RunTypeOK
  <1>3. Unplanned' /\ Seen'
    BY <1>1 DEF Unplanned, Seen
  <1>4. OnItsWay'
    BY <1>1 DEF RunInv, OnItsWay, SamePlan, Mutations
  <1>5. job.state \notin Terminal
    BY DEF RunInv, Stated
  <1>6. Owning' /\ Stated'
    BY <1>1, <1>5
       DEF RunInv, Owning, StagingAccountedFor, Stated, SameStaging, SamePlan, SameCancellation,
           Terminal
  <1>7. Changes' /\ Content'
    BY <1>1 DEF RunInv, Changes, Content, SamePlan, SameText, SameStaging
  <1>8. FinalStateTruthful'
    BY <1>1, <1>5 DEF FinalStateTruthful, Terminal
  <1>9. AcceptedCancelWins'
    BY <1>1 DEF RunInv, AcceptedCancelWins, SameCancellation, Stated
  <1> QED BY <1>2, <1>3, <1>4, <1>6, <1>7, <1>8, <1>9 DEF RunInv

\* An error before anything was changed: cancelled, refused or no longer as approved.
LEMMA FailKeepsRun ==
    ASSUME RunInv, NEW e \in {"cancelled", "failed"}, Fail(e),
           job.owned, job.kind \in Streams, job.action # "Skip",
           job.pc \notin {"idle", "done"}, ~committed, destroyed = {},
           UNCHANGED <<foreign, destroyed, committed>>, late' \in SUBSET Names
    PROVE  RunInv'
  <1>1. e \in Errors \ {"none"} /\ DestroysOnlyReviewed' /\ destroyed' \in SUBSET Destroyed
    BY DEF Errors, DestroysOnlyReviewed
  <1>2. files \in Files /\ committed' \in BOOLEAN /\ ~committed'
    BY DEF RunInv, RunTypeOK
  <1>3. CASE job.kind = "download"
    <2>1. files' = [files EXCEPT !.staging = "absent"] /\ Finish(e)
      BY <1>3 DEF Fail
    <2>2. files' \in Files /\ files'.source = files.source /\ files'.staging = "absent"
      BY <1>2, <2>1, Literals DEF Files
    <2> QED BY <1>1, <1>2, <2>1, <2>2, FinishKeepsRun
  <1>4. CASE job.kind # "download"
    <2>1. files' = files /\ CleanUpAfter(e) /\ job.kind \in {"upload", "editor"}
      BY <1>4 DEF Fail, Streams
    <2> QED BY <1>1, <1>2, <2>1, CleanUpKeepsRun
  <1> QED BY <1>3, <1>4

\* A step on the way to the commit changes nothing yet.
LEMMA AdvanceKeepsRun ==
    ASSUME RunInv, job' \in Job, SamePlan, SameCancellation,
           files' \in Files, late' \in SUBSET Names,
              UNCHANGED <<foreign, destroyed, committed>>,
           job.pc \notin {"idle", "unlinking", "removing", "cleanup", "done"},
           job'.pc \notin {"idle", "unlinking", "cleanup", "done"},
           job'.pc = "removing" => job.kind = "delete",
           OnItsWay', Owning', Stated', Content', Seen'
    PROVE  RunInv'
  <1>1. ~committed /\ destroyed = {}
    BY DEF RunInv, Changes
  <1>2. RunTypeOK' /\ Unplanned'
    BY DEF RunInv, RunTypeOK, Unplanned
  <1>3. Changes' /\ AcceptedCancelWins' /\ DestroysOnlyReviewed'
    BY <1>1 DEF Changes, AcceptedCancelWins, DestroysOnlyReviewed, SamePlan
  <1>4. FinalStateTruthful'
    BY DEF FinalStateTruthful, Stated, Terminal
  <1> QED BY <1>2, <1>3, <1>4 DEF RunInv

-----------------------------------------------------------------------------
(***************************************************************************)
(* Planning and the way up to the staged copy                              *)
(***************************************************************************)
\* A plan finds the files as nobody has written them yet, and approves them so.
LEMMA PlanKeepsRun ==
    ASSUME RunInv, job = NoJob,
           \/ \E kind \in Kinds, policy \in {"Skip", "Replace", "KeepBoth"} :
                 PlanTransfer(kind, policy)
           \/ PlanSave
           \/ \E kind \in Kinds : PlanMutation(kind)
    PROVE  RunInv'
  <1> DEFINE Planned ==
               /\ job' \in Job
               /\ job'.state = "Queued" /\ ~job'.cancelled /\ ~job'.accepted
               /\ ~job'.owned /\ job'.content = "none"
               /\ \/ /\ job'.kind \in {"upload", "download"} /\ job'.pc = "queued"
                     /\ job'.action \in {"CreateNew", "Skip", "ReplaceExisting"}
                     /\ job'.action = "ReplaceExisting" => job'.expected = "old"
                  \/ /\ job'.kind = "editor" /\ job'.pc = "queued"
                     /\ job'.action = "ReplaceExisting"
                  \/ job'.kind \in Mutations /\ job'.pc = "mutating" /\ job'.action = "none"
  <1>1. /\ ~committed /\ destroyed = {} /\ late = {} /\ files \in Files
        /\ files.dest \in {"absent", "old"} /\ files.source = "old" /\ files.staging = "absent"
    BY DEF RunInv, RunTypeOK, Unplanned, Changes, Owning, NoJob
  <1>2. UNCHANGED <<foreign, late, destroyed, committed>>
    BY DEF PlanTransfer, PlanSave, PlanMutation
  <1>3. /\ files' \in Files /\ files'.source = "old" /\ files'.staging = "absent"
    BY <1>1 DEF PlanTransfer, PlanSave, PlanMutation, Files, Versions
  <1>4. Planned
    <2>1. CASE PlanSave
      BY <2>1
         DEF PlanSave, NoJob, Job, Kinds, Pcs, States, Active, Actions, Errors, Contents,
             Rechecks, Looks
    <2>2. ASSUME NEW kind \in Kinds, PlanMutation(kind)
          PROVE  Planned
      BY <2>2
         DEF PlanMutation, NoJob, Job, Kinds, Pcs, States, Active, Actions, Errors, Contents,
             Rechecks, Looks, Mutations
    <2>3. ASSUME NEW kind \in Kinds, NEW policy \in {"Skip", "Replace", "KeepBoth"},
                 PlanTransfer(kind, policy)
          PROVE  Planned
      <3>1. PICK action \in {"CreateNew", "Skip", "ReplaceExisting"} :
               /\ action = Action(files.dest, policy)
               /\ action # "CreateNew" => files.dest = "old"
        BY <1>1 DEF Action
      <3>2. /\ kind \in {"upload", "download"}
            /\ job' = [NoJob EXCEPT !.kind = kind, !.action = action, !.pc = "queued",
                          !.expected = IF action = "CreateNew" THEN "absent" ELSE files.dest]
        BY <2>3, <3>1 DEF PlanTransfer
      <3> QED BY <3>1, <3>2
                 DEF NoJob, Job, Kinds, Pcs, States, Active, Actions, Errors, Contents,
                     Rechecks, Looks
    <2> QED BY <2>1, <2>2, <2>3
  <1>5. RunTypeOK' /\ Unplanned' /\ Seen'
    BY <1>1, <1>2, <1>3, <1>4 DEF RunInv, RunTypeOK, Unplanned, Seen
  <1>6. OnItsWay'
    BY <1>4 DEF OnItsWay, Mutations
  <1>7. Owning' /\ Stated' /\ Changes' /\ Content'
    BY <1>1, <1>2, <1>3, <1>4 DEF Owning, StagingAccountedFor, Stated, Changes, Content, Terminal
  <1>8. FinalStateTruthful' /\ AcceptedCancelWins' /\ DestroysOnlyReviewed'
    BY <1>1, <1>2, <1>4 DEF FinalStateTruthful, AcceptedCancelWins, DestroysOnlyReviewed
  <1> QED BY <1>5, <1>6, <1>7, <1>8 DEF RunInv

\* Until something is staged, an operation may end at any time without a change.
LEMMA NothingStaged ==
    ASSUME RunInv, job.pc \in {"queued", "starting", "opening", "reading", "creating"}, ~job.owned
    PROVE  /\ job.kind \in Streams /\ files.staging = "absent" /\ ~committed /\ destroyed = {}
           /\ files \in Files /\ late \in SUBSET Names /\ DestroysOnlyReviewed
           /\ job \in Job /\ job.kind # "editor" => job.pc \notin {"opening", "reading"}
  BY DEF RunInv, RunTypeOK, OnItsWay, Owning, Changes, Streams, Mutations, Kinds, Job

\* A cancellation or a failure then.
LEMMA EndUnstaged ==
    ASSUME RunInv, job.pc \in {"queued", "starting", "opening", "reading", "creating"}, ~job.owned,
           NEW e \in {"cancelled", "failed"}, Finish(e),
           UNCHANGED <<files, foreign, late, destroyed, committed>>
    PROVE  RunInv'
  <1>1. DestroysOnlyReviewed' /\ ~committed' /\ e \in Errors
    BY NothingStaged, Literals DEF DestroysOnlyReviewed
  <1> QED BY <1>1, NothingStaged, FinishKeepsRun DEF RunInv, RunTypeOK

\* set_state(Preparing), or a cancellation while the job was queued.
LEMMA PrepareKeepsRun ==
    ASSUME RunInv, Prepare
    PROVE  RunInv'
  <1>1. /\ job.pc = "queued" /\ ~job.owned
        /\ UNCHANGED <<files, foreign, late, destroyed, committed>>
    BY DEF Prepare, RunInv, Owning
  <1>2. CASE Finish("cancelled")
    BY <1>1, <1>2, EndUnstaged
  <1>3. CASE job' = [job EXCEPT !.pc = "starting", !.state = "Preparing"]
    <2>1. /\ job' \in Job /\ SamePlan /\ SameCancellation /\ SameStaging /\ SameText
          /\ job'.pc = "starting" /\ job'.state = "Preparing"
      BY <1>3, Literals
         DEF RunInv, RunTypeOK, Job, SamePlan, SameCancellation, SameStaging, SameText
    <2>2. OnItsWay'
      BY <1>1, <2>1 DEF RunInv, OnItsWay, SamePlan, Mutations
    <2>3. Owning' /\ Stated' /\ Content' /\ Seen'
      BY <1>1, <2>1
         DEF RunInv, Owning, StagingAccountedFor, Stated, Content, Seen, SamePlan,
             SameCancellation, SameStaging, SameText, Terminal
    <2> QED BY <1>1, <2>1, <2>2, <2>3, AdvanceKeepsRun DEF RunInv, RunTypeOK
  <1> QED BY <1>2, <1>3 DEF Prepare

\* A reviewed Skip ends as Completed without a change.
LEMMA SkipKeepsRun ==
    ASSUME RunInv, Skip
    PROVE  RunInv'
  <1>1. /\ job.pc = "starting" /\ ~job.owned /\ job.action = "Skip" /\ Finish("none")
        /\ UNCHANGED <<files, foreign, late, destroyed, committed>>
    BY DEF Skip, RunInv, Owning
  <1>2. DestroysOnlyReviewed'
    BY <1>1, NothingStaged DEF DestroysOnlyReviewed
  <1> QED BY <1>1, <1>2, NothingStaged, Literals, FinishKeepsRun DEF RunInv, RunTypeOK

\* run_upload and run_download begin with the source that was approved, or end.
LEMMA StartedKeepsRun ==
    ASSUME RunInv, StartUpload \/ StartDownload
    PROVE  RunInv'
  <1>1. PICK next \in {"creating", "streaming"} :
           /\ Started(next)
           /\ job.kind = IF next = "creating" THEN "upload" ELSE "download"
    BY DEF StartUpload, StartDownload
  <1>2. /\ job.pc = "starting" /\ ~job.owned /\ job.action # "Skip"
        /\ UNCHANGED <<foreign, destroyed, committed>>
    BY <1>1 DEF Started, RunInv, Owning
  <1>3. CASE Finish("failed") /\ UNCHANGED <<files, late>>
    BY <1>2, <1>3, EndUnstaged
  <1>4. CASE /\ job' = [job EXCEPT !.state = "Transferring", !.pc = next,
                                   !.owned = next = "streaming"]
             /\ files' = IF next = "streaming" THEN [files EXCEPT !.staging = "ours"] ELSE files
             /\ late' = late \ {"source"}
    <2>1. /\ job' \in Job /\ SamePlan /\ SameCancellation /\ SameText
          /\ job'.pc = next /\ job'.state = "Transferring" /\ job'.owned = (next = "streaming")
      BY <1>4, Literals DEF RunInv, RunTypeOK, Job, SamePlan, SameCancellation, SameText
    <2>2. /\ files' \in Files /\ late' \in SUBSET Names /\ files'.source = files.source
          /\ files'.staging = IF next = "streaming" THEN "ours" ELSE "absent"
      BY <1>2, <1>4, Literals, NothingStaged DEF Files
    <2>3. OnItsWay'
      BY <1>1, <1>2, <2>1 DEF RunInv, OnItsWay, SamePlan, Mutations
    <2>4. Owning' /\ Stated' /\ Content' /\ Seen'
      BY <1>1, <1>2, <2>1, <2>2
         DEF RunInv, Owning, StagingAccountedFor, Stated, Content, Seen, SamePlan,
             SameCancellation, SameText, Terminal
    <2> QED BY <1>1, <1>2, <2>1, <2>2, <2>3, <2>4, AdvanceKeepsRun
  <1> QED BY <1>1, <1>3, <1>4 DEF Started

\* upload_staged: only the answer Ok makes the staging file the operation's own.
LEMMA CreateStagingKeepsRun ==
    ASSUME RunInv, CreateStaging
    PROVE  RunInv'
  <1>1. /\ job.pc = "creating" /\ ~job.owned /\ job.kind \in {"upload", "editor"}
        /\ UNCHANGED <<foreign, late, destroyed, committed>>
    BY NothingStaged DEF CreateStaging, RunInv, Owning, OnItsWay, Streams
  <1>2. files' = files \/ files' = [files EXCEPT !.staging = "ours"]
    BY DEF CreateStaging
  <1>3. /\ files' \in Files /\ late' \in SUBSET Names /\ files'.source = files.source
        /\ files'.dest = files.dest
    BY <1>1, <1>2, Literals, NothingStaged DEF Files
  <1>4. CASE Finish("failed") /\ UNCHANGED files
    BY <1>1, <1>4, EndUnstaged
  <1>5. CASE Finish("unknown")
    <2>1. DestroysOnlyReviewed' /\ ~committed'
      BY <1>1, NothingStaged DEF DestroysOnlyReviewed
    <2> QED BY <1>1, <1>3, <1>5, <2>1, NothingStaged, Literals, FinishKeepsRun
               DEF RunInv, RunTypeOK
  <1>6. CASE job' = [job EXCEPT !.pc = "streaming", !.owned = TRUE]
    <2>1. /\ job' \in Job /\ SamePlan /\ SameCancellation /\ SameText
          /\ job'.pc = "streaming" /\ job'.state = job.state /\ job'.owned
      BY <1>6, Literals DEF RunInv, RunTypeOK, Job, SamePlan, SameCancellation, SameText
    <2>2. OnItsWay'
      BY <1>1, <2>1 DEF RunInv, OnItsWay, SamePlan, Mutations
    <2>3. Owning' /\ Stated' /\ Content' /\ Seen'
      BY <1>1, <1>3, <2>1
         DEF RunInv, Owning, StagingAccountedFor, Stated, Content, Seen, SamePlan,
             SameCancellation, SameText, Terminal
    <2> QED BY <1>1, <1>3, <2>1, <2>2, <2>3, AdvanceKeepsRun
  <1> QED BY <1>4, <1>5, <1>6 DEF CreateStaging

\* Between the exclusive create and the commit an error can still undo everything.
LEMMA StagedOnly ==
    ASSUME RunInv,
           \/ job.pc \in {"streaming", "preserving", "checking", "rechecking", "finalizing",
                          "verifying", "committing"}
           \/ job.pc \in {"opening", "reading"} /\ job.owned
    PROVE  /\ job.owned /\ job.kind \in Streams /\ job.action # "Skip"
           /\ committed = FALSE /\ destroyed = {} /\ job \in Job /\ files \in Files
           /\ late \in SUBSET Names
  BY DEF RunInv, RunTypeOK, Owning, OnItsWay, Changes, Streams, Mutations, Kinds, Job

\* The stream: a source that others changed under it is not the old one again.
LEMMA StreamKeepsRun ==
    ASSUME RunInv, Stream
    PROVE  RunInv'
  <1>1. job.pc = "streaming" /\ UNCHANGED <<foreign, late, destroyed, committed>>
    BY DEF Stream
  <1>2. CASE Fail(IF job.cancelled THEN "cancelled" ELSE "failed")
    BY <1>1, <1>2, StagedOnly, FailKeepsRun
  <1> DEFINE pc == IF job.kind = "editor" THEN "preserving" ELSE "checking"
             content == IF job.kind # "editor" /\ files.source # "old" THEN "mixed" ELSE "approved"
  <1>3. CASE job' = [job EXCEPT !.pc = pc, !.content = content] /\ files' = files
    <2>1. /\ job' \in Job /\ SamePlan /\ SameCancellation /\ SameStaging
          /\ job'.pc = pc /\ job'.state = job.state /\ job'.content = content
      BY <1>3, Literals DEF RunInv, RunTypeOK, Job, SamePlan, SameCancellation, SameStaging
    <2>2. OnItsWay'
      BY <1>1, <2>1 DEF RunInv, OnItsWay, SamePlan, Mutations
    <2>3. Owning' /\ Stated' /\ Content' /\ Seen'
      BY <1>1, <1>3, <2>1
         DEF RunInv, Owning, StagingAccountedFor, Stated, Content, Seen, SamePlan,
             SameCancellation, SameStaging, Terminal
    <2> QED BY <1>1, <1>3, <2>1, <2>2, <2>3, StagedOnly, AdvanceKeepsRun
  <1> QED BY <1>2, <1>3 DEF Stream

\* The last look at the source of an upload or a download: a source that is still the old
\* one was so all the time; a touched one may have been streamed in any form.
LEMMA CheckKeepsRun ==
    ASSUME RunInv, CheckUpload \/ CheckDownload
    PROVE  RunInv'
  <1>1. /\ job.pc = "checking" /\ job.kind \in {"upload", "download"}
        /\ UNCHANGED <<foreign, destroyed, committed>>
    BY DEF CheckUpload, CheckDownload
  <1>2. CASE (Fail("failed") \/ Fail("cancelled")) /\ UNCHANGED late
    BY <1>1, <1>2, StagedOnly, FailKeepsRun
  <1>3. CASE /\ Revision(files.source) = "old" /\ files' = files
             /\ job' = [job EXCEPT !.pc = "finalizing", !.recheck = files.source]
             /\ late' = late \ {"source"}
    <2>1. files.source \in Rechecks /\ files.source \in {"old", "touched"}
      BY <1>3 DEF Revision, Rechecks
    <2>2. /\ job' \in Job /\ SamePlan /\ SameCancellation /\ SameStaging
          /\ job'.pc = "finalizing" /\ job'.state = job.state
          /\ job'.recheck = files.source /\ job'.content = job.content
      BY <1>3, <2>1, Literals
         DEF RunInv, RunTypeOK, Job, SamePlan, SameCancellation, SameStaging
    <2>3. OnItsWay'
      BY <1>1, <2>2 DEF RunInv, OnItsWay, SamePlan, Mutations
    <2>4. Vouched'
      BY <1>1, <2>1, <2>2
         DEF RunInv, RunTypeOK, Job, Content, Vouched, Contents, SamePlan
    <2>5. Owning' /\ Stated' /\ Content' /\ Seen'
      BY <1>1, <1>3, <2>2, <2>4
         DEF RunInv, Owning, StagingAccountedFor, Stated, Content, Seen, SamePlan,
             SameCancellation, SameStaging, Terminal
    <2> QED BY <1>1, <1>3, <2>2, <2>3, <2>5, StagedOnly, AdvanceKeepsRun
  <1> QED BY <1>2, <1>3 DEF CheckUpload, CheckDownload, Rechecked, CancelSeen

-----------------------------------------------------------------------------
(***************************************************************************)
(* The looks of an editor save                                             *)
(***************************************************************************)
\* A look that fails, before or after staging.
LEMMA LookFailsKeepsRun ==
    ASSUME RunInv, LookFails, job.kind = "editor",
           job.pc \in {"starting", "opening", "reading", "checking", "rechecking"},
           UNCHANGED <<foreign, late, destroyed, committed>>
    PROVE  RunInv'
  <1>1. CASE job.owned
    <2>1. job.pc # "starting"
      BY <1>1 DEF RunInv, Owning
    <2> QED BY <1>1, <2>1, StagedOnly, FailKeepsRun DEF LookFails
  <1>2. CASE ~job.owned
    <2>1. job.pc \in {"starting", "opening", "reading"}
      BY <1>2 DEF RunInv, Owning
    <2> QED BY <1>2, <2>1, EndUnstaged DEF LookFails
  <1> QED BY <1>1, <1>2

\* Only an editor save looks at a text.
LEMMA LooksOfSaves ==
    ASSUME RunInv, job.pc \in {"opening", "reading"}
    PROVE  /\ job.kind = "editor" /\ job.look \in {"starting", "checking", "rechecking"}
           /\ job.owned <=> job.look # "starting"
  BY DEF RunInv, RunTypeOK, Job, OnItsWay, Owning, Kinds, Mutations

\* editor_revision
LEMMA CompareRevisionKeepsRun ==
    ASSUME RunInv, CompareRevision
    PROVE  RunInv'
  <1>1. /\ job.kind = "editor" /\ job.pc \in {"starting", "checking", "rechecking"}
        /\ UNCHANGED <<foreign, late, destroyed, committed>>
    BY DEF CompareRevision, EditorLooks
  <1>2. CASE LookFails
    BY <1>1, <1>2, LookFailsKeepsRun
  <1>3. CASE job' = [job EXCEPT !.look = job.pc, !.pc = "opening"] /\ files' = files
    <2>1. /\ job' \in Job /\ SamePlan /\ SameCancellation /\ SameStaging
          /\ job'.pc = "opening" /\ job'.state = job.state /\ job'.look = job.pc
          /\ job'.content = job.content /\ job'.kept = job.kept
      BY <1>1, <1>3, Literals DEF RunInv, RunTypeOK, Job, SamePlan, SameCancellation, SameStaging
    <2>2. OnItsWay'
      BY <1>1, <2>1 DEF RunInv, OnItsWay, SamePlan, Mutations
    <2>3. Owning' /\ Stated' /\ Content' /\ Seen'
      BY <1>1, <1>3, <2>1
         DEF RunInv, Owning, StagingAccountedFor, Stated, Content, Seen, SamePlan,
             SameCancellation, SameStaging, Terminal
    <2> QED BY <1>1, <1>3, <2>1, <2>2, <2>3, AdvanceKeepsRun DEF RunInv, RunTypeOK
  <1> QED BY <1>2, <1>3 DEF CompareRevision

\* read_editor_bytes up to the first fstat: the handle is on what is there now.
LEMMA OpenTextKeepsRun ==
    ASSUME RunInv, OpenText
    PROVE  RunInv'
  <1>1. job.pc = "opening" /\ UNCHANGED <<foreign, destroyed, committed>>
    BY DEF OpenText
  <1>2. CASE LookFails /\ UNCHANGED late
    BY <1>1, <1>2, LooksOfSaves, LookFailsKeepsRun
  <1>3. CASE /\ job' = [job EXCEPT !.pc = "reading", !.handle = files.dest] /\ files' = files
             /\ late' = late \ {"dest"}
    <2>1. /\ job' \in Job /\ SamePlan /\ SameCancellation /\ SameStaging
          /\ job'.pc = "reading" /\ job'.state = job.state /\ job'.look = job.look
          /\ job'.content = job.content /\ job'.kept = job.kept /\ job'.handle = files.dest
      BY <1>3, Literals DEF RunInv, RunTypeOK, Job, Files, SamePlan, SameCancellation, SameStaging
    <2>2. OnItsWay'
      BY <1>1, <2>1 DEF RunInv, OnItsWay, SamePlan, Mutations
    <2>3. Owning' /\ Stated' /\ Content' /\ Seen'
      BY <1>1, <1>3, <2>1
         DEF RunInv, Owning, StagingAccountedFor, Stated, Content, Seen, SamePlan,
             SameCancellation, SameStaging, Terminal
    <2> QED BY <1>1, <1>3, <2>1, <2>2, <2>3, AdvanceKeepsRun DEF RunInv, RunTypeOK
  <1> QED BY <1>2, <1>3 DEF OpenText

\* The rest of read_editor_bytes: the text that was read is the reviewed one.
LEMMA ReadTextKeepsRun ==
    ASSUME RunInv, ReadText
    PROVE  RunInv'
  <1>1. job.pc = "reading" /\ UNCHANGED <<foreign, late, destroyed, committed>>
    BY DEF ReadText
  <1>2. CASE LookFails
    BY <1>1, <1>2, LooksOfSaves, LookFailsKeepsRun
  <1> DEFINE pc == EditorLooks[job.look]
             state == IF job.look = "starting" THEN "Transferring" ELSE job.state
  <1>3. CASE job.handle = "old" /\ job' = [job EXCEPT !.pc = pc, !.state = state] /\ files' = files
    <2>1. /\ pc \in {"creating", "rechecking", "finalizing"}
          /\ job.look = "starting" <=> pc = "creating"
      BY <1>1, LooksOfSaves DEF EditorLooks
    <2> HIDE DEF pc
    <2>2. /\ job' \in Job /\ SamePlan /\ SameCancellation /\ SameStaging /\ SameText
          /\ job'.pc = pc /\ job'.state = state
      BY <1>3, <2>1, Literals
         DEF RunInv, RunTypeOK, Job, SamePlan, SameCancellation, SameStaging, SameText
    <2>3. "dest" \in late \/ files.dest = "old"
      BY <1>1, <1>3 DEF RunInv, Seen
    <2>4. OnItsWay'
      BY <1>1, <2>1, <2>2, LooksOfSaves DEF RunInv, OnItsWay, SamePlan, Mutations
    <2>5. Owning' /\ Stated' /\ Content' /\ Seen'
      BY <1>1, <1>3, <2>1, <2>2, <2>3, LooksOfSaves
         DEF RunInv, Owning, StagingAccountedFor, Stated, Content, Vouched, Seen, SamePlan,
             SameCancellation, SameStaging, SameText, Terminal
    <2> QED BY <1>1, <1>3, <2>1, <2>2, <2>4, <2>5, AdvanceKeepsRun DEF RunInv, RunTypeOK
  <1> QED BY <1>2, <1>3 DEF ReadText, Digested

\* preserve_editor_metadata
LEMMA PreserveMetadataKeepsRun ==
    ASSUME RunInv, PreserveMetadata
    PROVE  RunInv'
  <1>1. job.pc = "preserving" /\ UNCHANGED <<foreign, late, destroyed, committed>>
    BY DEF PreserveMetadata
  <1>2. CASE Fail("failed")
    BY <1>1, <1>2, StagedOnly, FailKeepsRun
  <1>3. CASE job' = [job EXCEPT !.pc = "checking", !.kept = TRUE] /\ files' = files
    <2>1. /\ job' \in Job /\ SamePlan /\ SameCancellation /\ SameStaging
          /\ job'.pc = "checking" /\ job'.state = job.state /\ job'.content = job.content
          /\ job'.kept
      BY <1>3, Literals DEF RunInv, RunTypeOK, Job, SamePlan, SameCancellation, SameStaging
    <2>2. job.kind = "editor"
      BY <1>1, StagedOnly DEF RunInv, OnItsWay, Streams
    <2>3. OnItsWay'
      BY <1>1, <2>1, <2>2 DEF RunInv, OnItsWay, SamePlan, Mutations
    <2>4. Owning' /\ Stated' /\ Content' /\ Seen'
      BY <1>1, <1>3, <2>1, <2>2, StagedOnly
         DEF RunInv, Owning, StagingAccountedFor, Stated, Content, Seen, SamePlan,
             SameCancellation, SameStaging, Terminal
    <2> QED BY <1>1, <1>3, <2>1, <2>3, <2>4, StagedOnly, AdvanceKeepsRun
  <1> QED BY <1>2, <1>3 DEF PreserveMetadata

-----------------------------------------------------------------------------
(***************************************************************************)
(* Finalisation                                                            *)
(***************************************************************************)
\* enter_finalizing: from here on no cancellation has been or will be accepted.
LEMMA EnterFinalizingKeepsRun ==
    ASSUME RunInv, EnterFinalizing
    PROVE  RunInv'
  <1>1. job.pc = "finalizing" /\ UNCHANGED <<foreign, late, destroyed, committed>>
    BY DEF EnterFinalizing
  <1>2. CASE Fail("cancelled")
    BY <1>1, <1>2, StagedOnly, FailKeepsRun
  <1> DEFINE pc == IF job.kind = "editor" THEN "committing" ELSE "verifying"
  <1>3. CASE ~job.cancelled /\ job' = [job EXCEPT !.state = "Finalizing", !.pc = pc] /\ files' = files
    <2>1. /\ job' \in Job /\ SamePlan /\ SameCancellation /\ SameStaging /\ SameText
          /\ job'.pc = pc /\ job'.state = "Finalizing"
      BY <1>3, Literals
         DEF RunInv, RunTypeOK, Job, SamePlan, SameCancellation, SameStaging, SameText
    <2>2. OnItsWay'
      BY <1>1, <2>1 DEF RunInv, OnItsWay, SamePlan, Mutations
    <2>3. Owning' /\ Stated' /\ Content' /\ Seen'
      BY <1>1, <1>3, <2>1, StagedOnly
         DEF RunInv, Owning, StagingAccountedFor, Stated, Content, Vouched, Seen, SamePlan,
             SameCancellation, SameStaging, SameText, Terminal
    <2> QED BY <1>1, <1>3, <2>1, <2>2, <2>3, StagedOnly, AdvanceKeepsRun
  <1> QED BY <1>2, <1>3 DEF EnterFinalizing

\* The destination is looked at once more, by its metadata.
LEMMA VerifyDestinationKeepsRun ==
    ASSUME RunInv, VerifyDestination
    PROVE  RunInv'
  <1>1. job.pc = "verifying" /\ UNCHANGED <<foreign, destroyed, committed>>
    BY DEF VerifyDestination
  <1>2. CASE Fail("failed") /\ UNCHANGED late
    BY <1>1, <1>2, StagedOnly, FailKeepsRun
  <1>3. CASE /\ Revision(files.dest) = job.expected /\ files' = files
             /\ job' = [job EXCEPT !.pc = "committing"] /\ late' = late \ {"dest"}
    <2>1. /\ job' \in Job /\ SamePlan /\ SameCancellation /\ SameStaging /\ SameText
          /\ job'.pc = "committing" /\ job'.state = job.state
      BY <1>3, Literals
         DEF RunInv, RunTypeOK, Job, SamePlan, SameCancellation, SameStaging, SameText
    <2>2. job.kind \in {"upload", "download"}
      BY <1>1, StagedOnly DEF RunInv, OnItsWay, Streams
    <2>3. job.action = "ReplaceExisting" => files.dest \in {"old", "touched"}
      BY <1>3, <2>2 DEF RunInv, OnItsWay, Revision
    <2>4. OnItsWay'
      BY <1>1, <2>1, <2>2 DEF RunInv, OnItsWay, SamePlan, Mutations
    <2>5. Owning' /\ Stated' /\ Content' /\ Seen'
      BY <1>1, <1>3, <2>1, <2>2, <2>3, StagedOnly
         DEF RunInv, Owning, StagingAccountedFor, Stated, Content, Vouched, Seen, SamePlan,
             SameCancellation, SameStaging, SameText, Terminal
    <2> QED BY <1>1, <1>3, <2>1, <2>4, <2>5, StagedOnly, AdvanceKeepsRun
  <1> QED BY <1>2, <1>3 DEF VerifyDestination

\* What is known when the commit is made: no cancellation was accepted, the staged
\* content is vouched for, and what would be replaced was seen to be reviewed.
LEMMA Committing ==
    ASSUME RunInv, job.pc = "committing"
    PROVE  /\ job.state = "Finalizing" /\ ~job.accepted /\ Vouched
           /\ job.kind = "editor" => job.kept
           /\ job.action = "ReplaceExisting" =>
                 \/ "dest" \in late \/ files.dest = "old"
                 \/ files.dest = "touched" /\ job.kind # "editor"
  BY StagedOnly DEF RunInv, Stated, Content, Seen

\* A victim is the version that is there, with whether it came after the look.
LEMMA Victims ==
    ASSUME files \in Files
    PROVE  /\ \A d \in Victim("dest") :
                 d \in Destroyed /\ d.version = files.dest /\ ("dest" \in late => d.late)
           /\ \A d \in Victim("source") :
                 d \in Destroyed /\ d.version = files.source /\ ("source" \in late => d.late)
  <1>1. ASSUME NEW version \in Versions, NEW new \in BOOLEAN,
               NEW d, d = [version |-> version, late |-> new]
        PROVE  d \in Destroyed /\ d.version = version /\ (new => d.late)
    BY <1>1 DEF Destroyed
  <1>2. files.dest \in Versions /\ files.source \in Versions
    BY DEF Files
  <1>3. ASSUME NEW d \in Victim("dest")
        PROVE  d \in Destroyed /\ d.version = files.dest /\ ("dest" \in late => d.late)
    <2>1. d = [version |-> files.dest, late |-> "dest" \in late]
      BY <1>3 DEF Victim
    <2>2. ("dest" \in late) \in BOOLEAN
      OBVIOUS
    <2> QED BY <1>1, <1>2, <2>1, <2>2, ZenonT(60)
  <1>4. ASSUME NEW d \in Victim("source")
        PROVE  d \in Destroyed /\ d.version = files.source /\ ("source" \in late => d.late)
    <2>1. d = [version |-> files.source, late |-> "source" \in late]
      BY <1>4 DEF Victim
    <2>2. ("source" \in late) \in BOOLEAN
      OBVIOUS
    <2> QED BY <1>1, <1>2, <2>1, <2>2, ZenonT(60)
  <1> QED BY <1>3, <1>4

\* A rename over the destination destroys at most what was seen or came after the look.
LEMMA ReplacedReviewed ==
    ASSUME RunInv, job.pc = "committing", job.action = "ReplaceExisting", Replaced, SamePlan
    PROVE  /\ files' \in Files /\ files'.source = files.source /\ files'.staging = "absent"
           /\ committed' = TRUE /\ destroyed' \in SUBSET Destroyed /\ DestroysOnlyReviewed'
  <1>1. files' = [files EXCEPT !.dest = "ours", !.staging = "absent"] /\ files \in Files
        /\ destroyed' = Victim("dest") /\ committed' = TRUE
    BY StagedOnly DEF Replaced
  <1>2. files' \in Files /\ files'.source = files.source /\ files'.staging = "absent"
    BY <1>1, Literals DEF Files, Versions
  <1>3. ASSUME NEW d \in destroyed'
        PROVE  d \in Destroyed /\ d.version = files.dest /\ ("dest" \in late => d.late)
    BY <1>1, <1>3, Victims
  <1>4. DestroysOnlyReviewed'
    BY <1>3, Committing DEF DestroysOnlyReviewed, SamePlan
  <1> QED BY <1>1, <1>2, <1>3, <1>4

\* commit_replace: whatever was answered, the state says no more than is known.
LEMMA CommitReplaceKeepsRun ==
    ASSUME RunInv, CommitReplace
    PROVE  RunInv'
  <1>1. /\ job.pc = "committing" /\ job.action = "ReplaceExisting" /\ job.kind # "download"
        /\ UNCHANGED <<foreign, late>>
    BY DEF CommitReplace
  <1>2. job.kind \in {"upload", "editor"} /\ late' \in SUBSET Names
    BY <1>1, StagedOnly DEF Streams
  <1>3. CASE Replaced /\ Finish("none")
    <2>1. SamePlan
      BY <1>1, <1>3, StagedOnly, FinishFields, Literals
    <2> QED BY <1>1, <1>2, <1>3, <2>1, ReplacedReviewed, Committing, Literals, FinishKeepsRun
  <1>4. CASE Replaced /\ CleanUpAfter("unknown")
    <2>1. SamePlan
      BY <1>1, <1>4, StagedOnly, CleanUpFields, Literals
    <2> QED BY <1>1, <1>2, <1>4, <2>1, ReplacedReviewed, Committing, StagedOnly, Literals,
               CleanUpKeepsRun
  <1>5. CASE Untouched /\ (CleanUpAfter("failed") \/ CleanUpAfter("unknown"))
    <2>1. committed' = FALSE /\ files' = files /\ DestroysOnlyReviewed' /\ destroyed' \in SUBSET Destroyed
      BY <1>1, <1>5, StagedOnly DEF Untouched, DestroysOnlyReviewed
    <2> QED BY <1>1, <1>2, <1>5, <2>1, StagedOnly, Literals, CleanUpKeepsRun DEF Untouched
  <1> QED BY <1>3, <1>4, <1>5 DEF CommitReplace

\* persist of a downloaded file: a failure is an unknown outcome.
LEMMA PersistReplaceKeepsRun ==
    ASSUME RunInv, PersistReplace
    PROVE  RunInv'
  <1>1. /\ job.pc = "committing" /\ job.action = "ReplaceExisting" /\ job.kind = "download"
        /\ UNCHANGED <<foreign, late>> /\ late' \in SUBSET Names
    BY StagedOnly DEF PersistReplace
  <1>2. ASSUME NEW e \in {"none", "unknown"}, Replaced, Finish(e)
        PROVE  RunInv'
    <2>1. SamePlan
      BY <1>1, <1>2, StagedOnly, FinishFields, Literals
    <2> QED BY <1>1, <1>2, <2>1, ReplacedReviewed, Committing, Literals, FinishKeepsRun
  <1>3. CASE Fail("unknown") /\ UNCHANGED <<destroyed, committed>>
    <2>1. files' = [files EXCEPT !.staging = "absent"] /\ Finish("unknown")
      BY <1>1, <1>3 DEF Fail
    <2>2. files' \in Files /\ files'.source = files.source /\ files'.staging = "absent"
      BY <1>1, <2>1, StagedOnly, Literals DEF Files
    <2>3. committed' = FALSE /\ DestroysOnlyReviewed' /\ destroyed' \in SUBSET Destroyed
      BY <1>1, <1>3, StagedOnly DEF DestroysOnlyReviewed
    <2> QED BY <1>1, <2>1, <2>2, <2>3, Literals, FinishKeepsRun
  <1> QED BY <1>2, <1>3 DEF PersistReplace

\* A hard link, and a directory, are made only where nothing was.
LEMMA LinkedReviewed ==
    ASSUME RunInv, Linked, destroyed = {}
    PROVE  /\ files' \in Files /\ files'.source = files.source /\ files'.staging = files.staging
           /\ committed' = TRUE /\ destroyed' \in SUBSET Destroyed /\ DestroysOnlyReviewed'
  BY DEF RunInv, RunTypeOK, Linked, Files, Versions, DestroysOnlyReviewed

\* commit_new: the link is the commit, the staging name is still to go.
LEMMA CommitNewKeepsRun ==
    ASSUME RunInv, CommitNew
    PROVE  RunInv'
  <1>1. /\ job.pc = "committing" /\ job.action = "CreateNew" /\ job.kind = "upload"
        /\ UNCHANGED <<foreign, late>> /\ late' \in SUBSET Names
    BY StagedOnly DEF CommitNew
  <1>2. CASE Linked /\ CleanUpAfter("unknown")
    BY <1>1, <1>2, LinkedReviewed, Committing, StagedOnly, Literals, CleanUpKeepsRun
  <1>3. CASE Untouched /\ (CleanUpAfter("failed") \/ CleanUpAfter("unknown"))
    <2>1. committed' = FALSE /\ files' = files /\ DestroysOnlyReviewed' /\ destroyed' \in SUBSET Destroyed
      BY <1>1, <1>3, StagedOnly DEF Untouched, DestroysOnlyReviewed
    <2> QED BY <1>1, <1>3, <2>1, StagedOnly, Literals, CleanUpKeepsRun DEF Untouched
  <1>4. CASE Linked /\ job' = [job EXCEPT !.pc = "unlinking"]
    <2>1. /\ job' \in Job /\ SamePlan /\ SameCancellation /\ SameStaging /\ SameText
          /\ job'.pc = "unlinking" /\ job'.state = job.state
      BY <1>4, Literals
         DEF RunInv, RunTypeOK, Job, SamePlan, SameCancellation, SameStaging, SameText
    <2>2. RunTypeOK' /\ Unplanned' /\ Seen' /\ destroyed' = {}
      BY <1>1, <1>4, <2>1, LinkedReviewed, StagedOnly
         DEF RunInv, RunTypeOK, Unplanned, Seen, Linked
    <2>3. OnItsWay'
      BY <1>1, <2>1 DEF RunInv, OnItsWay, SamePlan, Mutations
    <2>4. Owning' /\ Stated'
      BY <1>1, <2>1, StagedOnly, Committing
         DEF RunInv, Owning, StagingAccountedFor, Stated, SamePlan, SameCancellation, SameStaging,
             Terminal
    <2>5. Changes' /\ Content'
      BY <1>1, <1>4, <2>1, <2>2, LinkedReviewed, StagedOnly, Committing
         DEF RunInv, Changes, Content, Vouched, SamePlan, SameStaging, SameText
    <2>6. FinalStateTruthful' /\ AcceptedCancelWins'
      BY <2>1, Committing, <1>1 DEF FinalStateTruthful, AcceptedCancelWins, SameCancellation
    <2> QED BY <1>1, <1>4, <2>2, <2>3, <2>4, <2>5, <2>6, LinkedReviewed, StagedOnly DEF RunInv
  <1> QED BY <1>2, <1>3, <1>4 DEF CommitNew

\* The staging name after a link.
LEMMA UnlinkStagingKeepsRun ==
    ASSUME RunInv, UnlinkStaging
    PROVE  RunInv'
  <1>1. /\ job.pc = "unlinking" /\ UNCHANGED <<foreign, late, destroyed, committed>>
    BY DEF UnlinkStaging
  <1>2. /\ job.kind = "upload" /\ job.action = "CreateNew" /\ job.owned /\ ~job.accepted
        /\ job.state = "Finalizing" /\ Vouched /\ committed
        /\ files \in Files /\ late' \in SUBSET Names /\ destroyed = {}
    BY <1>1
       DEF RunInv, RunTypeOK, Job, OnItsWay, Owning, Stated, Content, Changes, Kinds, Mutations
  <1>3. DestroysOnlyReviewed' /\ destroyed' \in SUBSET Destroyed
    BY <1>1, <1>2 DEF DestroysOnlyReviewed
  <1>4. PICK r \in Removal :
           /\ files' = [files EXCEPT !.staging = r.staging]
           /\ IF r.ok THEN Finish("none") ELSE CleanUpAfter("unknown")
    BY DEF UnlinkStaging
  <1>5. r.staging \in Staging /\ (r.ok => r.staging = "absent")
    BY <1>2, Literals DEF Removal, Files
  <1>6. files' \in Files /\ files'.source = files.source /\ files'.staging = r.staging
    BY <1>2, <1>4, <1>5 DEF Files
  <1>7. CASE r.ok
    BY <1>1, <1>2, <1>3, <1>4, <1>5, <1>6, <1>7, Literals, FinishKeepsRun
  <1>8. CASE ~r.ok
    BY <1>1, <1>2, <1>3, <1>4, <1>5, <1>6, <1>8, Literals, CleanUpKeepsRun
  <1> QED BY <1>7, <1>8

\* persist_noclobber of a downloaded file.
LEMMA PersistNewKeepsRun ==
    ASSUME RunInv, PersistNew
    PROVE  RunInv'
  <1>1. /\ job.pc = "committing" /\ job.action = "CreateNew" /\ job.kind = "download"
        /\ UNCHANGED <<foreign, late, destroyed>>
    BY DEF PersistNew
  <1>2. /\ late' \in SUBSET Names /\ DestroysOnlyReviewed' /\ destroyed' \in SUBSET Destroyed
    BY <1>1, StagedOnly DEF DestroysOnlyReviewed
  <1>3. CASE /\ files' = [files EXCEPT !.dest = "ours", !.staging = "absent"]
             /\ committed' = TRUE /\ Finish("none")
    <2>1. files' \in Files /\ files'.source = files.source /\ files'.staging = "absent"
      BY <1>1, <1>3, StagedOnly, Literals DEF Files, Versions
    <2> QED BY <1>1, <1>2, <1>3, <2>1, Committing, Literals, FinishKeepsRun
  <1>4. CASE /\ files' = [files EXCEPT !.staging = "absent"]
             /\ committed' = committed /\ Finish("failed")
    <2>1. files' \in Files /\ files'.source = files.source /\ files'.staging = "absent"
      BY <1>1, <1>4, StagedOnly, Literals DEF Files
    <2> QED BY <1>1, <1>2, <1>4, <2>1, StagedOnly, Literals, FinishKeepsRun
  <1> QED BY <1>3, <1>4 DEF PersistNew

-----------------------------------------------------------------------------
(***************************************************************************)
(* execute_mutation                                                        *)
(***************************************************************************)
\* A mutation stages nothing and is not cancelled.
LEMMA Mutating ==
    ASSUME RunInv, job.pc \in {"mutating", "linking", "removing"}
    PROVE  /\ job.kind \in Mutations /\ job.action = "none" /\ ~job.owned /\ ~job.accepted
           /\ job.kind \notin Streams /\ files.staging = "absent" /\ destroyed = {}
           /\ committed = (job.pc = "removing" /\ job.kind = "rename")
           /\ files \in Files /\ late \in SUBSET Names /\ job \in Job
           /\ job.content # "mixed" \/ files.source # "old"
  BY DEF RunInv, RunTypeOK, Job, OnItsWay, Owning, Stated, Changes, Content, Mutations, Streams,
         Kinds

\* A mutation that makes a new name, or does not.
LEMMA LinkEnds ==
    ASSUME RunInv, job.pc \in {"mutating", "linking"}, UNCHANGED <<foreign, late>>,
           \/ Linked /\ (Finish("none") \/ Finish("unknown"))
           \/ Untouched /\ (Finish("failed") \/ Finish("unknown"))
    PROVE  RunInv'
  <1>1. CASE Linked /\ (Finish("none") \/ Finish("unknown"))
    BY <1>1, Mutating, LinkedReviewed, Literals, FinishKeepsRun DEF Mutations
  <1>2. CASE Untouched /\ (Finish("failed") \/ Finish("unknown"))
    <2>1. /\ files' = files /\ committed' = FALSE /\ destroyed' \in SUBSET Destroyed
          /\ DestroysOnlyReviewed'
      BY <1>2, Mutating DEF Untouched, DestroysOnlyReviewed
    <2> QED BY <1>2, <2>1, Mutating, Literals, FinishKeepsRun
  <1> QED BY <1>1, <1>2

\* create_dir
LEMMA CreateDirKeepsRun ==
    ASSUME RunInv, CreateDir
    PROVE  RunInv'
  BY LinkEnds DEF CreateDir

\* The identity check of a rename or a delete.
LEMMA CheckEntryKeepsRun ==
    ASSUME RunInv, CheckEntry
    PROVE  RunInv'
  <1>1. /\ job.pc = "mutating" /\ job.kind \in {"rename", "delete"}
        /\ UNCHANGED <<files, foreign, destroyed, committed>>
    BY DEF CheckEntry
  <1>2. CASE Finish("failed") /\ UNCHANGED late
    BY <1>1, <1>2, LinkEnds DEF Untouched
  <1> DEFINE pc == IF job.kind = "rename" THEN "linking" ELSE "removing"
  <1>3. CASE /\ Revision(files.source) = "old" /\ late' = late \ {"source"}
             /\ job' = [job EXCEPT !.pc = pc]
    <2>1. /\ job' \in Job /\ SamePlan /\ SameCancellation /\ SameStaging /\ SameText
          /\ job'.pc = pc /\ job'.state = job.state
      BY <1>3, Literals
         DEF RunInv, RunTypeOK, Job, SamePlan, SameCancellation, SameStaging, SameText
    <2>2. OnItsWay'
      BY <1>1, <2>1, Mutating DEF RunInv, OnItsWay, SamePlan, Mutations
    <2>3. Owning' /\ Stated' /\ Content' /\ Seen'
      BY <1>1, <1>3, <2>1, Mutating
         DEF RunInv, Owning, StagingAccountedFor, Stated, Content, Seen, Revision, SamePlan,
             SameCancellation, SameStaging, SameText, Terminal
    <2> QED BY <1>1, <1>3, <2>1, <2>2, <2>3, Mutating, AdvanceKeepsRun
  <1> QED BY <1>2, <1>3 DEF CheckEntry

\* rename_noclobber: once the new name is there, the old one is still to go.
LEMMA LinkNameKeepsRun ==
    ASSUME RunInv, LinkName
    PROVE  RunInv'
  <1>1. job.pc = "linking" /\ UNCHANGED <<foreign, late>>
    BY DEF LinkName
  <1>2. CASE \/ Linked /\ Finish("unknown")
             \/ Untouched /\ (Finish("failed") \/ Finish("unknown"))
    BY <1>1, <1>2, LinkEnds
  <1>3. CASE Linked /\ job' = [job EXCEPT !.pc = "removing"]
    <2>1. /\ job' \in Job /\ SamePlan /\ SameCancellation /\ SameStaging /\ SameText
          /\ job'.pc = "removing" /\ job'.state = job.state
      BY <1>3, Literals
         DEF RunInv, RunTypeOK, Job, SamePlan, SameCancellation, SameStaging, SameText
    <2>2. job.kind = "rename"
      BY <1>1, Mutating DEF RunInv, OnItsWay, Mutations
    <2>3. RunTypeOK' /\ Unplanned' /\ Seen' /\ destroyed' = {}
      BY <1>1, <1>3, <2>1, LinkedReviewed, Mutating DEF RunInv, RunTypeOK, Unplanned, Seen, Linked
    <2>4. OnItsWay' /\ Owning' /\ Stated'
      BY <1>1, <1>3, <2>1, Mutating, LinkedReviewed
         DEF RunInv, OnItsWay, Owning, StagingAccountedFor, Stated, SamePlan, SameCancellation,
             SameStaging, Terminal, Mutations
    <2>5. Changes' /\ Content'
      BY <1>1, <1>3, <2>1, <2>2, <2>3, LinkedReviewed, Mutating
         DEF RunInv, Changes, Content, SamePlan, SameStaging, SameText
    <2>6. FinalStateTruthful' /\ AcceptedCancelWins'
      BY <1>1, <2>1, Mutating
         DEF RunInv, FinalStateTruthful, AcceptedCancelWins, SameCancellation, Stated, Terminal
    <2> QED BY <1>1, <1>3, <2>3, <2>4, <2>5, <2>6, LinkedReviewed, Mutating DEF RunInv
  <1> QED BY <1>2, <1>3 DEF LinkName

\* The removal of the old name, or of the deleted entry.
LEMMA RemoveEntryKeepsRun ==
    ASSUME RunInv, RemoveEntry
    PROVE  RunInv'
  <1>1. job.pc = "removing" /\ UNCHANGED <<foreign, late>>
    BY DEF RemoveEntry
  <1>2. /\ job.kind \in {"rename", "delete"}
        /\ "source" \in late \/ files.source \in {"old", "touched"}
    BY <1>1, Mutating DEF RunInv, OnItsWay, Seen, Mutations
  <1>3. ASSUME NEW e \in {"none", "unknown"}, Finish(e),
               files' = [files EXCEPT !.source = "absent"],
               destroyed' = destroyed \cup Victim("source"), committed' = TRUE
        PROVE  RunInv'
    <2>1. files' \in Files /\ files'.source = "absent" /\ files'.staging = "absent"
      BY <1>1, <1>3, Mutating DEF Files, Versions
    <2>2. SamePlan
      BY <1>1, <1>3, Mutating, FinishFields, Literals
    <2>3. destroyed' \in SUBSET Destroyed /\ DestroysOnlyReviewed'
      BY <1>1, <1>2, <1>3, <2>2, Mutating, Victims DEF DestroysOnlyReviewed, SamePlan
    <2> QED BY <1>1, <1>3, <2>1, <2>3, Mutating, Literals, FinishKeepsRun DEF Mutations
  <1>4. ASSUME NEW e \in {"failed", "unknown"}, Finish(e), Untouched,
               e = "failed" => job.kind = "delete"
        PROVE  RunInv'
    <2>1. /\ files' = files /\ committed' = committed /\ destroyed' \in SUBSET Destroyed
          /\ DestroysOnlyReviewed'
      BY <1>1, <1>4, Mutating DEF Untouched, DestroysOnlyReviewed
    <2> QED BY <1>1, <1>4, <2>1, Mutating, Literals, FinishKeepsRun
  <1> QED BY <1>2, <1>3, <1>4 DEF RemoveEntry

-----------------------------------------------------------------------------
(***************************************************************************)
(* Cleanup, cancellation, dropped tasks and the others                     *)
(***************************************************************************)
\* RemoteStagingGuard::cleanup: a removal that is not confirmed stays on record, and no
\* error turns an unknown outcome into a known one.
LEMMA CleanupKeepsRun ==
    ASSUME RunInv, Cleanup
    PROVE  RunInv'
  <1> DEFINE end(r) == IF r.ok \/ job.error = "unknown" THEN job.error ELSE "failed"
  <1>1. PICK r \in Removal :
           /\ files' = [files EXCEPT !.staging = r.staging]
           /\ job' = [job EXCEPT !.pc = "done", !.unconfirmed = ~r.ok, !.state = FinalState(end(r))]
    BY DEF Cleanup
  <1>2. /\ job.pc = "cleanup" /\ job \in Job /\ files \in Files
        /\ UNCHANGED <<foreign, late, destroyed, committed>>
        /\ job.error \in Errors \ {"none"}
    BY DEF Cleanup, RunInv, RunTypeOK, Job, Stated
  <1>3. end(r) \in Errors \ {"none"} /\ (end(r) # "unknown" => job.error # "unknown")
    BY <1>2, Literals
  <1> HIDE DEF end
  <1>4. r.ok \in BOOLEAN /\ r.staging \in Staging /\ (r.ok => r.staging = "absent")
    <2>1. \/ r = [ok |-> TRUE, staging |-> "absent"]
          \/ r = [ok |-> FALSE, staging |-> "absent"]
          \/ r = [ok |-> FALSE, staging |-> files.staging]
      BY DEF Removal
    <2>2. files.staging \in Staging
      BY <1>2 DEF Files
    <2>3. CASE r = [ok |-> TRUE, staging |-> "absent"]
      BY <2>3, Literals
    <2>4. CASE r = [ok |-> FALSE, staging |-> "absent"]
      BY <2>4, Literals
    <2>5. CASE r = [ok |-> FALSE, staging |-> files.staging]
      BY <2>2, <2>5
    <2> QED BY <2>1, <2>3, <2>4, <2>5
  <1>5. files' \in Files /\ files'.source = files.source /\ files'.staging = r.staging
    BY <1>1, <1>2, <1>4 DEF Files
  <1>6. /\ job' \in Job /\ SamePlan /\ SameCancellation /\ SameText
        /\ job'.pc = "done" /\ job'.state = FinalState(end(r)) /\ job'.owned = job.owned
        /\ job'.dropped = job.dropped /\ job'.unconfirmed = ~r.ok
    BY <1>1, <1>2, <1>3, <1>4, FinalStates, Literals, ZenonT(60)
    DEF Job, SamePlan, SameCancellation, SameText
  <1>7. RunTypeOK' /\ Unplanned' /\ Seen' /\ Changes'
    BY <1>2, <1>5, <1>6 DEF RunInv, RunTypeOK, Unplanned, Seen, Changes
  <1>8. OnItsWay'
    BY <1>2, <1>6 DEF RunInv, OnItsWay, SamePlan
  <1>9. Owning'
    BY <1>4, <1>5, <1>6 DEF Owning, StagingAccountedFor
  <1>10. Stated' /\ Content'
    BY <1>2, <1>3, <1>5, <1>6, FinalStates
       DEF RunInv, Stated, Content, SamePlan, SameCancellation, SameText, Terminal
  <1>11. FinalStateTruthful'
    BY <1>2, <1>3, <1>6, FinalStates DEF RunInv, FinalStateTruthful, Changes, Errors
  <1>12. AcceptedCancelWins' /\ DestroysOnlyReviewed'
    BY <1>2, <1>6 DEF RunInv, AcceptedCancelWins, DestroysOnlyReviewed, SamePlan, SameCancellation
  <1> QED BY <1>7, <1>8, <1>9, <1>10, <1>11, <1>12 DEF RunInv

\* TransferManager::cancel is accepted only while nothing has been changed.
LEMMA CancelKeepsRun ==
    ASSUME RunInv, Cancel
    PROVE  RunInv'
  <1>1. /\ job.kind \in Streams /\ job.state \in {"Queued", "Preparing", "Transferring"}
        /\ job.pc # "idle"
        /\ job' = [job EXCEPT !.state = "CancelRequested", !.cancelled = TRUE, !.accepted = TRUE]
        /\ UNCHANGED <<files, foreign, late, destroyed, committed>>
    BY DEF Cancel
  <1>2. /\ job' \in Job /\ SamePlan /\ SameStaging /\ SameText
        /\ job'.pc = job.pc /\ job'.error = job.error /\ job'.state = "CancelRequested"
        /\ job'.cancelled /\ job'.accepted
    BY <1>1, Literals DEF RunInv, RunTypeOK, Job, SamePlan, SameStaging, SameText
  <1>3. ~committed /\ job.pc # "done" /\ job.pc \notin {"verifying", "committing", "unlinking"}
    BY <1>1 DEF RunInv, Changes, Stated, Terminal
  <1>4. RunTypeOK' /\ Unplanned' /\ Seen'
    BY <1>1, <1>2 DEF RunInv, RunTypeOK, Unplanned, Seen, SamePlan, SameText
  <1>5. OnItsWay' /\ Owning'
    BY <1>1, <1>2, <1>3
       DEF RunInv, OnItsWay, Owning, StagingAccountedFor, SamePlan, SameStaging, SameText,
           Terminal
  <1>6. Stated' /\ Changes'
    BY <1>1, <1>2, <1>3 DEF RunInv, Stated, Changes, SamePlan, SameStaging, Terminal
  <1>7. Content'
    BY <1>1, <1>2 DEF RunInv, Content, Vouched, SamePlan, SameStaging, SameText
  <1>8. FinalStateTruthful' /\ AcceptedCancelWins' /\ DestroysOnlyReviewed'
    BY <1>1, <1>2, <1>3
       DEF RunInv, FinalStateTruthful, AcceptedCancelWins, DestroysOnlyReviewed, SamePlan
  <1> QED BY <1>4, <1>5, <1>6, <1>7, <1>8 DEF RunInv

\* A task that is dropped in its commit may have changed the destination; its guard
\* removes what it owns.
LEMMA TaskDroppedKeepsRun ==
    ASSUME RunInv, TaskDropped
    PROVE  RunInv'
  <1>1. /\ job.kind \in {"upload", "editor"} /\ job.owned
        /\ job.pc \in {"streaming", "preserving", "checking", "opening", "reading", "rechecking",
                       "verifying", "committing", "unlinking", "cleanup"}
        /\ job' = [job EXCEPT !.pc = "cleanup", !.error = "failed", !.dropped = TRUE]
        /\ UNCHANGED <<foreign, late>>
    BY DEF TaskDropped
  <1>2. /\ job' \in Job /\ SamePlan /\ SameCancellation /\ SameText
        /\ job'.pc = "cleanup" /\ job'.error = "failed" /\ job'.state = job.state
        /\ job'.owned = job.owned /\ job'.dropped
    BY <1>1, Literals, ZenonT(60) DEF RunInv, RunTypeOK, Job, SamePlan, SameCancellation, SameText
  <1>3. /\ files' \in Files /\ files'.source = files.source /\ committed' \in BOOLEAN
        /\ destroyed' \in SUBSET Destroyed /\ DestroysOnlyReviewed'
        /\ committed' => job.state = "Finalizing"
    <2>1. CASE Untouched
      BY <1>1, <1>2, <2>1
         DEF RunInv, RunTypeOK, Untouched, DestroysOnlyReviewed, SamePlan, Changes, Streams
    <2>2. CASE job.pc = "committing" /\ job.action = "ReplaceExisting" /\ Replaced
      BY <1>2, <2>2, ReplacedReviewed, Committing
    <2>3. CASE job.pc = "committing" /\ job.action = "CreateNew" /\ Linked
      BY <2>3, StagedOnly, LinkedReviewed, Committing
    <2> QED BY <2>1, <2>2, <2>3 DEF TaskDropped
  <1>4. job.state \notin Terminal /\ job.action # "Skip"
    BY <1>1 DEF RunInv, Stated, OnItsWay
  <1>5. RunTypeOK' /\ Unplanned' /\ Seen'
    BY <1>1, <1>2, <1>3 DEF RunInv, RunTypeOK, Unplanned, Seen
  <1>6. OnItsWay'
    BY <1>1, <1>2, <1>4 DEF RunInv, OnItsWay, SamePlan, Mutations
  <1>7. Owning' /\ Stated'
    BY <1>1, <1>2, <1>4
       DEF RunInv, Owning, StagingAccountedFor, Stated, SamePlan, SameCancellation, Terminal
  <1>8. Changes' /\ Content'
    BY <1>1, <1>2, <1>3 DEF RunInv, Changes, Content, SamePlan, SameText
  <1>9. FinalStateTruthful' /\ AcceptedCancelWins'
    BY <1>2, <1>3, <1>4
       DEF RunInv, FinalStateTruthful, AcceptedCancelWins, Stated, SameCancellation, Terminal
  <1> QED BY <1>3, <1>5, <1>6, <1>7, <1>8, <1>9 DEF RunInv

\* What others write counts as late for the file it is written to, and is never the old
\* file again.
LEMMA OthersWriteKeepsRun ==
    ASSUME RunInv, NEW name \in Names, NEW version \in {"foreign", "touched", "absent"},
           OthersWrite(name, version)
    PROVE  RunInv'
  <1>1. /\ job # NoJob /\ UNCHANGED <<job, destroyed, committed>> /\ late' = late \cup {name}
        /\ foreign' = foreign + 1 /\ files' = [files EXCEPT ![name] = version]
    BY DEF OthersWrite
  <1>2. /\ files' \in Files /\ files'.staging = files.staging
        /\ name = "dest" => files'.source = files.source
        /\ name = "source" => files'.dest = files.dest /\ files'.source # "old"
    BY <1>1 DEF RunInv, RunTypeOK, Files, Versions, Names
  <1>3. RunTypeOK' /\ Unplanned'
    BY <1>1, <1>2 DEF RunInv, RunTypeOK, Unplanned
  <1>4. Seen' /\ Content'
    BY <1>1, <1>2 DEF RunInv, Seen, Content, Vouched, Names
  <1>5. OnItsWay' /\ Owning' /\ Stated' /\ Changes'
    BY <1>1, <1>2 DEF RunInv, OnItsWay, Owning, StagingAccountedFor, Stated, Changes
  <1>6. FinalStateTruthful' /\ AcceptedCancelWins' /\ DestroysOnlyReviewed'
    BY <1>1 DEF RunInv, FinalStateTruthful, AcceptedCancelWins, DestroysOnlyReviewed
  <1> QED BY <1>3, <1>4, <1>5, <1>6 DEF RunInv

-----------------------------------------------------------------------------
\* Before the plan nothing is staged, changed or written.
LEMMA RunInitially == RunInit => RunInv
  <1> SUFFICES ASSUME RunInit
               PROVE  RunInv
    OBVIOUS
  <1>1. /\ job = NoJob /\ late = {} /\ destroyed = {} /\ committed = FALSE /\ foreign = 0
        /\ files.dest \in {"absent", "old"} /\ files.source = "old" /\ files.staging = "absent"
        /\ files \in Files
    BY DEF RunInit, Files, Versions, Staging
  <1>2. job \in Job
    BY <1>1
       DEF NoJob, Job, Kinds, Pcs, States, Active, Actions, Errors, Contents, Rechecks, Looks
  <1>3. RunTypeOK /\ Unplanned
    BY <1>1, <1>2 DEF RunTypeOK, Unplanned
  <1>4. OnItsWay /\ Owning /\ Stated /\ Changes /\ Content /\ Seen
    BY <1>1
       DEF NoJob, OnItsWay, Owning, StagingAccountedFor, Stated, Changes, Content, Seen,
           Mutations, Terminal
  <1>5. FinalStateTruthful /\ AcceptedCancelWins /\ DestroysOnlyReviewed
    BY <1>1 DEF NoJob, FinalStateTruthful, AcceptedCancelWins, DestroysOnlyReviewed
  <1> QED BY <1>3, <1>4, <1>5 DEF RunInv

\* Every step of the operation, and every write of others, keeps the invariant.
LEMMA RunStep == RunInv /\ [RunNext]_runVars => RunInv'
  <1> SUFFICES ASSUME RunInv, [RunNext]_runVars
               PROVE  RunInv'
    OBVIOUS
  <1>1. CASE UNCHANGED runVars
    BY <1>1
       DEF runVars, RunInv, RunTypeOK, Unplanned, OnItsWay, Owning, StagingAccountedFor, Stated,
           Changes, Content, Vouched, Seen, FinalStateTruthful, AcceptedCancelWins,
           DestroysOnlyReviewed
  <1>2. CASE RunNext
    BY <1>2, PlanKeepsRun, PrepareKeepsRun, SkipKeepsRun, StartedKeepsRun, CreateStagingKeepsRun,
       StreamKeepsRun, CheckKeepsRun, CompareRevisionKeepsRun, OpenTextKeepsRun, ReadTextKeepsRun,
       PreserveMetadataKeepsRun, EnterFinalizingKeepsRun, VerifyDestinationKeepsRun,
       CommitReplaceKeepsRun, PersistReplaceKeepsRun, CommitNewKeepsRun, UnlinkStagingKeepsRun,
       PersistNewKeepsRun, CreateDirKeepsRun, CheckEntryKeepsRun, LinkNameKeepsRun,
       RemoveEntryKeepsRun, CleanupKeepsRun, CancelKeepsRun, TaskDroppedKeepsRun,
       OthersWriteKeepsRun
       DEF RunNext, PlanTransfer, PlanSave, PlanMutation, Names
  <1> QED BY <1>1, <1>2

\* The invariant holds throughout.
LEMMA RunAlways == RunSpec => []RunInv
  BY RunInitially, RunStep, PTL DEF RunSpec

\* The final state of an upload, an editor save, a download, a mkdir, a rename or a delete
\* (the last match of spawn_job) never claims more than is known, whichever request was
\* refused or lost its reply and however often others wrote in between, except that an
\* upload or a download is as good as the metadata its source was known by.
THEOREM FinalStateAlwaysTruthful == RunSpec => []FinalStateTruthful
  <1>1. RunInv => FinalStateTruthful
    BY DEF RunInv
  <1> QED BY <1>1, RunAlways, PTL

\* A cancellation that TransferManager::cancel has accepted is never followed by a change
\* of the destination, although set_state overwrites the state it was recorded in.
THEOREM AcceptedCancelAlwaysWins == RunSpec => []AcceptedCancelWins
  <1>1. RunInv => AcceptedCancelWins
    BY DEF RunInv
  <1> QED BY <1>1, RunAlways, PTL

\* Nothing is removed or replaced but what was reviewed or came after the last look at it,
\* and nothing at all by an operation that creates.
THEOREM DestroysReviewedAlways == RunSpec => []DestroysOnlyReviewed
  <1>1. RunInv => DestroysOnlyReviewed
    BY DEF RunInv
  <1> QED BY <1>1, RunAlways, PTL

\* A finished operation has left no staging file of its own (RemoteStagingGuard) that is not
\* on record as unconfirmed.
THEOREM StagingAlwaysAccountedFor == RunSpec => []StagingAccountedFor
  <1>1. RunInv => StagingAccountedFor
    BY DEF RunInv, Owning
  <1> QED BY <1>1, RunAlways, PTL
===============================================================================
