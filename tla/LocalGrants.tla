----------------------------- MODULE LocalGrants -----------------------------
(***************************************************************************)
(* LocalAccessService (apps/desktop, local_access.rs) and the commands     *)
(* that use it (commands.rs): a native picker is open for as long as its   *)
(* user likes, and what is chosen becomes a grant for the session the      *)
(* picker was opened in.  A grant holds open files until it is consumed,   *)
(* discarded, revoked or expired.                                          *)
(*                                                                         *)
(* A session is an SSH connection with its SFTP subsystem; how it begins   *)
(* and ends is HostSessions, here each is one step.  Expiry is a flag that *)
(* the passing of GRANT_LIFETIME sets.                                     *)
(***************************************************************************)
EXTENDS HostIds, Naturals, FiniteSets

CONSTANTS
    Pickers,     \* choose_upload_files and choose_download_directory in flight
    GrantIds,
    GrantCap,    \* GRANT_CAP
    MaxSession   \* bound on the sessions of a host

ASSUME GrantsAssumption ==
    GrantCap \in Nat /\ MaxSession \in Nat /\ Nothing \notin Pickers \cup GrantIds

VARIABLES
    live,      \* the current session of each host, 0 for none
    begun,     \* sessions each host has had
    closing,   \* hosts a disconnect or reconnect command is closing the session of
    grants,    \* LocalAccessService::grants
    picker,    \* the local state of each picker command
    process    \* "running", "sealed" (commands drain) or "revoked"

grantVars == <<live, begun, closing, grants, picker, process>>

Scope == [host : Hosts, session : 1..MaxSession]
NoPicker == [pc |-> "idle", scope |-> Nothing, grant |-> Nothing]

\* handed: the command that made the grant has returned it to the renderer.
GrantsInit ==
    /\ live = [h \in Hosts |-> 0]
    /\ begun = [h \in Hosts |-> 0]
    /\ closing = {}
    /\ grants = [g \in {} |-> Nothing]
    /\ picker = [p \in Pickers |-> NoPicker]
    /\ process = "running"

\* validate_sftp_session
Valid(scope) == live[scope.host] = scope.session

Keep(ids) == grants' = [g \in ids |-> grants[g]]

\* revoke_session and revoke_host
RevokeSession(scope) == Keep({g \in DOMAIN grants : grants[g].scope # scope})
RevokeHost(h) == Keep({g \in DOMAIN grants : grants[g].scope.host # h})

\* insert: expired grants go first, then there has to be room.
Insert(g, scope) ==
    LET fresh == {i \in DOMAIN grants : ~grants[i].expired}
    IN  /\ Cardinality(fresh) < GrantCap
        /\ grants' = [i \in fresh \cup {g} |->
                        IF i = g THEN [scope |-> scope, expired |-> FALSE, handed |-> FALSE]
                        ELSE grants[i]]

\* consume: the grant is gone whether or not its kind, its scope and its
\* expiry then let planning have it.
Consume(g) == Keep(DOMAIN grants \ {g})

\* discard: only in the grant's own scope.
Discard(g, scope) == grants[g].scope = scope /\ Keep(DOMAIN grants \ {g})

-----------------------------------------------------------------------------
(***************************************************************************)
(* choose_upload_files and choose_download_directory                       *)
(***************************************************************************)
PickBegin(p, scope) ==
    /\ process = "running" /\ picker[p] = NoPicker
    /\ Valid(scope)
    /\ picker' = [picker EXCEPT ![p] = [NoPicker EXCEPT !.pc = "open", !.scope = scope]]
    /\ UNCHANGED <<live, begun, closing, grants, process>>

\* The choice is one the service does not accept, or too many are pending.
PickRefused(p) ==
    /\ picker[p].pc = "open"
    /\ picker' = [picker EXCEPT ![p] = NoPicker]
    /\ UNCHANGED <<live, begun, closing, grants, process>>

PickCancelled(p) ==
    /\ picker[p].pc = "open"
    /\ picker' = [picker EXCEPT ![p].pc = "chosen"]
    /\ UNCHANGED <<live, begun, closing, grants, process>>

\* Files or a directory were chosen and opened.
PickInsert(p) ==
    /\ picker[p].pc = "open"
    /\ \E g \in GrantIds \ (DOMAIN grants \cup {picker[q].grant : q \in Pickers}) :
          /\ Insert(g, picker[p].scope)
          /\ picker' = [picker EXCEPT ![p].pc = "chosen", ![p].grant = g]
    /\ UNCHANGED <<live, begun, closing, process>>

\* Fault variant of PickRecheck: an invalid session is reported and no more.
PickRecheckKeeps(p) ==
    /\ picker[p].pc = "chosen"
    /\ picker' = [picker EXCEPT ![p] = NoPicker]
    /\ grants' = [g \in DOMAIN grants |->
                    [grants[g] EXCEPT !.handed =
                        @ \/ (g = picker[p].grant /\ Valid(picker[p].scope))]]
    /\ UNCHANGED <<live, begun, closing, process>>

\* The session is validated once more: the grant is returned, or every grant
\* of the session is revoked.
PickRecheck(p) ==
    /\ picker[p].pc = "chosen"
    /\ picker' = [picker EXCEPT ![p] = NoPicker]
    /\ IF Valid(picker[p].scope)
       THEN grants' = [g \in DOMAIN grants |->
                         [grants[g] EXCEPT !.handed = @ \/ g = picker[p].grant]]
       ELSE RevokeSession(picker[p].scope)
    /\ UNCHANGED <<live, begun, closing, process>>

-----------------------------------------------------------------------------
(***************************************************************************)
(* The commands on a grant, and its expiry                                 *)
(***************************************************************************)
\* plan_upload and plan_download; what planning does with it is FilePlans.
PlanFromGrant(g) ==
    /\ process = "running"
    /\ g \in DOMAIN grants /\ grants[g].handed
    /\ Consume(g)
    /\ UNCHANGED <<live, begun, closing, picker, process>>

\* discard_local_grant validates the session first.
DiscardLocalGrant(g, scope) ==
    /\ process = "running"
    /\ g \in DOMAIN grants /\ grants[g].handed
    /\ Valid(scope) /\ Discard(g, scope)
    /\ UNCHANGED <<live, begun, closing, picker, process>>

Expire(g) ==
    /\ g \in DOMAIN grants /\ ~grants[g].expired
    /\ grants' = [grants EXCEPT ![g].expired = TRUE]
    /\ UNCHANGED <<live, begun, closing, picker, process>>

\* schedule_grant_expiry
ExpiryTimer(g) ==
    /\ g \in DOMAIN grants /\ grants[g].expired
    /\ Keep(DOMAIN grants \ {g})
    /\ UNCHANGED <<live, begun, closing, picker, process>>

-----------------------------------------------------------------------------
(***************************************************************************)
(* Sessions begin and end                                                  *)
(***************************************************************************)
SessionBegins(h) ==
    /\ process = "running" /\ live[h] = 0 /\ begun[h] < MaxSession
    /\ begun' = [begun EXCEPT ![h] = @ + 1]
    /\ live' = [live EXCEPT ![h] = begun[h] + 1]
    /\ UNCHANGED <<closing, grants, picker, process>>

\* disconnect_host and reconnect_host revoke first, then queue for the session.
CloseBegin(h) ==
    /\ process = "running" /\ live[h] # 0 /\ h \notin closing
    /\ RevokeHost(h)
    /\ closing' = closing \cup {h}
    /\ UNCHANGED <<live, begun, picker, process>>

\* The session is closed, or stays because its transfers do not end.
CloseFinish(h) ==
    /\ h \in closing
    /\ closing' = closing \ {h}
    /\ live' \in {live, [live EXCEPT ![h] = 0]}
    /\ UNCHANGED <<begun, grants, picker, process>>

\* delete_host, or the loss of the connection: nothing here hears of it.
SessionEnds(h) ==
    /\ live[h] # 0
    /\ live' = [live EXCEPT ![h] = 0]
    /\ UNCHANGED <<begun, closing, grants, picker, process>>

-----------------------------------------------------------------------------
Seal ==
    /\ process = "running"
    /\ process' = "sealed"
    /\ UNCHANGED <<live, begun, closing, grants, picker>>

\* revoke_all, once the commands have drained and the sessions are shut down.
RevokeAll ==
    /\ process = "sealed"
    /\ \A p \in Pickers : picker[p] = NoPicker
    /\ closing = {}
    /\ live' = [h \in Hosts |-> 0]
    /\ Keep({})
    /\ process' = "revoked"
    /\ UNCHANGED <<begun, closing, picker>>

GrantsNext ==
    \/ \E p \in Pickers :
          \/ \E scope \in Scope : PickBegin(p, scope)
          \/ PickRefused(p)
          \/ PickCancelled(p)
          \/ PickInsert(p)
          \/ PickRecheck(p)
    \/ \E g \in GrantIds :
          \/ PlanFromGrant(g)
          \/ \E scope \in Scope : DiscardLocalGrant(g, scope)
          \/ Expire(g)
          \/ ExpiryTimer(g)
    \/ \E h \in Hosts : SessionBegins(h) \/ CloseBegin(h) \/ CloseFinish(h) \/ SessionEnds(h)
    \/ Seal
    \/ RevokeAll

GrantsSpec == GrantsInit /\ [][GrantsNext]_grantVars

-----------------------------------------------------------------------------
\* A session that ends while a picker is open gets no grant out of it: a grant on
\* record is still with the command that made it, or was returned to the renderer
\* while its session was valid; and none is left once the process has revoked all.
GrantAccountedFor ==
    /\ \A g \in DOMAIN grants : grants[g].handed \/ \E p \in Pickers : picker[p].grant = g
    /\ process = "revoked" => DOMAIN grants = {}

\* No grant, other than one whose picker has yet to recheck it, belongs to a
\* session that is over: what "revokes pending plans and local grants for a
\* disconnected session" (docs/architecture/sftp.md) says of the commands.
DisconnectedHasNoGrant ==
    \A g \in DOMAIN grants :
        \/ Valid(grants[g].scope)
        \/ \E p \in Pickers : picker[p].grant = g
=============================================================================
