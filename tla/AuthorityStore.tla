--------------------------- MODULE AuthorityStore ---------------------------
(***************************************************************************)
(* The store of pending one-shot authorities of nexus-remote-operations    *)
(* (store.rs).  A plan is published under a binding (host, session,        *)
(* generation) and an operation type; it leaves the store exactly once,    *)
(* by consumption, discard, supersession, revocation or expiry.  Every     *)
(* method runs under one mutex, so every method is one action.             *)
(*                                                                         *)
(* `pending` and `by_host` are the two maps of StoreState (a missing key   *)
(* is NoAuthority / NoPlan).  `minted` and `granted` record which ids      *)
(* insert has issued and which authorities consume has handed out.         *)
(***************************************************************************)
EXTENDS SessionBindings

CONSTANTS
    Ops,          \* the native operation types (TypeId together with O::RISK)
    Plans,        \* RemoteOperationPlanId: the pool fresh ids are drawn from
    Ttl,          \* AuthorityStore::ttl, in ticks
    NoPlan, NoAuthority

ASSUME StoreAssumption ==
    /\ Ttl \in Nat \ {0}
    /\ NoPlan \notin Plans

VARIABLES pending, by_host, sealed, minted, granted

storeVars == <<pending, by_host, sealed, clock, minted, granted>>

StoredAuthority == [binding : Binding, op : Ops, expires_at : Nat]

ASSUME NoAuthorityAssumption == NoAuthority \notin StoredAuthority

StoreTypeOK ==
    /\ pending \in [Plans -> StoredAuthority \cup {NoAuthority}]
    /\ by_host \in [Hosts -> Plans \cup {NoPlan}]
    /\ sealed \in BOOLEAN
    /\ clock \in Nat
    /\ minted \subseteq Plans
    /\ granted \subseteq Plans

StoreInit ==
    /\ pending = [p \in Plans |-> NoAuthority]
    /\ by_host = [h \in Hosts |-> NoPlan]
    /\ sealed = FALSE
    /\ clock = 0
    /\ minted = {}
    /\ granted = {}

-----------------------------------------------------------------------------
IsPending(p) == pending[p] # NoAuthority

ExpiredAt(t) == {p \in Plans : IsPending(p) /\ pending[p].expires_at <= t}

(***************************************************************************)
(* remove_id for every plan of S: the index entry goes only when it still  *)
(* names the removed plan.                                                 *)
(***************************************************************************)
RemoveIds(S) ==
    /\ pending' = [p \in Plans |-> IF p \in S THEN NoAuthority ELSE pending[p]]
    /\ by_host' = [h \in Hosts |->
                     IF \E p \in S : IsPending(p) /\ pending[p].binding.host = h
                                                  /\ by_host[h] = p
                     THEN NoPlan ELSE by_host[h]]

\* Fault variant of Insert: the superseded plan stays in `pending`.
InsertKeepsSuperseded(p, draft, current, op, t) ==
    /\ draft = current /\ ~sealed /\ p \notin minted
    /\ pending' = [pending EXCEPT ![p] =
                     [binding |-> draft, op |-> op, expires_at |-> t + Ttl]]
    /\ by_host' = [by_host EXCEPT ![draft.host] = p]
    /\ minted' = minted \cup {p}
    /\ UNCHANGED <<sealed, clock, granted>>

(***************************************************************************)
(* insert: refuses a draft whose binding is no longer current and a sealed *)
(* store; drops expired plans, supersedes the host's pending plan, and     *)
(* publishes the new one.                                                  *)
(***************************************************************************)
Insert(p, draft, current, op, t) ==
    /\ draft = current
    /\ ~sealed
    /\ p \notin minted
    /\ LET host == draft.host
           gone == ExpiredAt(t) \cup {by_host[host]}
       IN  /\ pending' = [q \in Plans |->
                 IF q = p THEN [binding |-> draft, op |-> op, expires_at |-> t + Ttl]
                 ELSE IF q \in gone THEN NoAuthority ELSE pending[q]]
           /\ by_host' = [h \in Hosts |->
                 IF h = host THEN p
                 ELSE IF by_host[h] \in ExpiredAt(t) THEN NoPlan ELSE by_host[h]]
    /\ minted' = minted \cup {p}
    /\ UNCHANGED <<sealed, clock, granted>>

\* The match consume and discard require of a live plan.
Matches(p, expected, op) ==
    pending[p].binding = expected /\ pending[p].op = op

\* Fault variant of Consume: the plan is read and not removed.
ConsumeWithoutRemoving(p, expected, op, t) ==
    /\ IsPending(p) /\ pending[p].expires_at > t /\ Matches(p, expected, op)
    /\ granted' = granted \cup {p}
    /\ UNCHANGED <<pending, by_host, sealed, clock, minted>>

\* Fault variant of Consume: the index entry outlives the plan.
ConsumeKeepsIndex(p, expected, op, t) ==
    /\ IsPending(p) /\ pending[p].expires_at > t /\ Matches(p, expected, op)
    /\ pending' = [pending EXCEPT ![p] = NoAuthority]
    /\ granted' = granted \cup {p}
    /\ UNCHANGED <<by_host, sealed, clock, minted>>

(***************************************************************************)
(* consume: an expired plan is removed and refused; a mismatch is refused  *)
(* and leaves the plan pending; a match is removed and handed out.         *)
(***************************************************************************)
Consume(p, expected, op, t) ==
    /\ IsPending(p)
    /\ pending[p].expires_at > t
    /\ Matches(p, expected, op)
    /\ RemoveIds({p})
    /\ granted' = granted \cup {p}
    /\ UNCHANGED <<sealed, clock, minted>>

ConsumeExpired(p, t) ==
    /\ IsPending(p)
    /\ pending[p].expires_at <= t
    /\ RemoveIds({p})
    /\ UNCHANGED <<sealed, clock, minted, granted>>

Discard(p, expected, op, t) ==
    /\ IsPending(p)
    /\ pending[p].expires_at <= t \/ Matches(p, expected, op)
    /\ RemoveIds({p})
    /\ UNCHANGED <<sealed, clock, minted, granted>>

RevokeHost(h) ==
    /\ by_host' = [by_host EXCEPT ![h] = NoPlan]
    /\ pending' = [p \in Plans |-> IF p = by_host[h] THEN NoAuthority ELSE pending[p]]
    /\ UNCHANGED <<sealed, clock, minted, granted>>

RevokeSession(h, s) ==
    /\ RemoveIds({p \in Plans : /\ p = by_host[h]
                                /\ IsPending(p)
                                /\ pending[p].binding.session = s})
    /\ UNCHANGED <<sealed, clock, minted, granted>>

RevokeAll ==
    /\ pending' = [p \in Plans |-> NoAuthority]
    /\ by_host' = [h \in Hosts |-> NoPlan]
    /\ UNCHANGED <<sealed, clock, minted, granted>>

SealAndRevokeAll ==
    /\ sealed' = TRUE
    /\ pending' = [p \in Plans |-> NoAuthority]
    /\ by_host' = [h \in Hosts |-> NoPlan]
    /\ UNCHANGED <<clock, minted, granted>>

\* pending_count and contains both purge what has expired before they answer.
PurgeExpired ==
    /\ RemoveIds(ExpiredAt(clock))
    /\ UNCHANGED <<sealed, clock, minted, granted>>

(***************************************************************************)
(* schedule_expiry: one timer per issued plan, which removes the plan if   *)
(* it is still there once its deadline has passed.                         *)
(***************************************************************************)
ExpiryTimer(p) ==
    /\ IsPending(p)
    /\ pending[p].expires_at <= clock
    /\ RemoveIds({p})
    /\ UNCHANGED <<sealed, clock, minted, granted>>

StoreTick == Tick /\ UNCHANGED <<pending, by_host, sealed, minted, granted>>

-----------------------------------------------------------------------------
StoreNext ==
    \/ \E p \in Plans, d \in Binding, o \in Ops, t \in ReadInstants : Insert(p, d, d, o, t)
    \/ \E p \in Plans, d \in Binding, o \in Ops, t \in ReadInstants : Consume(p, d, o, t)
    \/ \E p \in Plans, t \in ReadInstants : ConsumeExpired(p, t)
    \/ \E p \in Plans, d \in Binding, o \in Ops, t \in ReadInstants : Discard(p, d, o, t)
    \/ \E h \in Hosts : RevokeHost(h)
    \/ \E h \in Hosts, s \in Sessions : RevokeSession(h, s)
    \/ RevokeAll
    \/ SealAndRevokeAll
    \/ PurgeExpired
    \/ \E p \in Plans : ExpiryTimer(p)
    \/ StoreTick

\* Tokio runs the timer task once its deadline has passed, and time advances.
StoreFairness == WF_storeVars(StoreTick) /\ \A p \in Plans : WF_storeVars(ExpiryTimer(p))

StoreSpec == StoreInit /\ [][StoreNext]_storeVars /\ StoreFairness

-----------------------------------------------------------------------------
(***************************************************************************)
(* The two maps of store.rs stay in step through every removal path: each  *)
(* index entry names a pending plan of its host and each pending plan is   *)
(* its host's index entry.  A host has therefore at most one pending plan, *)
(* and revoke_host and revoke_session, which only look at the index,       *)
(* cannot miss one.                                                        *)
(***************************************************************************)
IndexConsistent ==
    /\ \A h \in Hosts : by_host[h] # NoPlan =>
          IsPending(by_host[h]) /\ pending[by_host[h]].binding.host = h
    /\ \A p \in Plans : IsPending(p) => by_host[pending[p].binding.host] = p

(***************************************************************************)
(* seal_and_revoke_all leaves nothing behind that a later call could       *)
(* consume, and nothing is published after it.                             *)
(***************************************************************************)
SealedIsEmpty == sealed => \A p \in Plans : ~IsPending(p)

(***************************************************************************)
(* A plan handed out by consume is never pending again (store.rs 87-88:    *)
(* "the consumed authority can never be returned to pending").             *)
(***************************************************************************)
ConsumedNeverPending == \A p \in granted : p \in minted /\ ~IsPending(p)

(***************************************************************************)
(* The store implements the one-shot promise: seen through its index, a    *)
(* plan is issued, granted at most once, ended and closed as              *)
(* OneShotAuthority says.                                                  *)
(***************************************************************************)
OneShot == INSTANCE OneShotAuthority
    WITH live <- by_host, issued <- minted, taken <- granted, closed <- sealed

ImplementsOneShot == OneShot!Spec
=============================================================================
