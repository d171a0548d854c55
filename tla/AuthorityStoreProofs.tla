------------------------ MODULE AuthorityStoreProofs ------------------------
(***************************************************************************)
(* The authority store, for any sets of hosts, sessions, operations and    *)
(* plan ids and any lifetime: its type, the agreement of its two maps, the *)
(* emptiness of a sealed store, and the refinement of OneShotAuthority.    *)
(***************************************************************************)
EXTENDS AuthorityStore, TLAPS

\* The inductive invariant: the named invariants of the store and the fact
\* that only issued plans are pending.
StoreInv ==
    /\ StoreTypeOK
    /\ IndexConsistent
    /\ SealedIsEmpty
    /\ ConsumedNeverPending
    /\ \A p \in Plans : IsPending(p) => p \in minted

\* Every removal path of store.rs that goes through remove_id keeps the two
\* maps typed and in step, and removes exactly the plans it was given.
LEMMA RemoveIdsKeepsIndex ==
    ASSUME StoreTypeOK, IndexConsistent, NEW S, S \subseteq Plans, RemoveIds(S)
    PROVE  /\ pending' \in [Plans -> StoredAuthority \cup {NoAuthority}]
           /\ by_host' \in [Hosts -> Plans \cup {NoPlan}]
           /\ \A p \in Plans : IsPending(p)' <=> IsPending(p) /\ p \notin S
           /\ \A p \in Plans : IsPending(p)' => pending'[p] = pending[p]
           /\ IndexConsistent'
  <1>1. /\ pending' \in [Plans -> StoredAuthority \cup {NoAuthority}]
        /\ by_host' \in [Hosts -> Plans \cup {NoPlan}]
    BY DEF RemoveIds, StoreTypeOK
  <1>2. \A p \in Plans : pending'[p] = IF p \in S THEN NoAuthority ELSE pending[p]
    BY DEF RemoveIds
  <1>3. \A p \in Plans : /\ IsPending(p)' <=> IsPending(p) /\ p \notin S
                         /\ IsPending(p)' => pending'[p] = pending[p]
    BY <1>2 DEF IsPending
  <1>4. \A p \in Plans : IsPending(p) => pending[p].binding.host \in Hosts
    BY DEF StoreTypeOK, StoredAuthority, Binding, IsPending
  <1>5. ASSUME NEW h \in Hosts, by_host'[h] # NoPlan
        PROVE  IsPending(by_host[h])' /\ pending'[by_host'[h]].binding.host = h /\ by_host'[h] = by_host[h]
    <2>1. by_host'[h] = by_host[h] /\ by_host[h] # NoPlan /\ by_host[h] \in Plans
      BY <1>5 DEF RemoveIds, StoreTypeOK
    <2>2. IsPending(by_host[h]) /\ pending[by_host[h]].binding.host = h
      BY <2>1 DEF IndexConsistent
    <2>3. by_host[h] \notin S
      BY <2>1, <2>2, <1>5 DEF RemoveIds
    <2>4. pending'[by_host[h]] = pending[by_host[h]]
      BY <2>1, <2>3, <1>2
    <2> QED BY <2>1, <2>2, <2>4 DEF IsPending
  <1>6. ASSUME NEW p \in Plans, IsPending(p)'
        PROVE  by_host'[pending'[p].binding.host] = p
    <2>1. IsPending(p) /\ p \notin S /\ pending'[p] = pending[p]
      BY <1>6, <1>3
    <2>2. by_host[pending[p].binding.host] = p
      BY <2>1 DEF IndexConsistent
    <2>3. pending[p].binding.host \in Hosts
      BY <2>1, <1>4
    <2>4. ~ \E q \in S : IsPending(q) /\ pending[q].binding.host = pending[p].binding.host
                                     /\ by_host[pending[p].binding.host] = q
      BY <2>1, <2>2
    <2> QED BY <2>1, <2>2, <2>3, <2>4 DEF RemoveIds
  <1>7. IndexConsistent'
    BY <1>5, <1>6 DEF IndexConsistent, IsPending
  <1> QED BY <1>1, <1>3, <1>7

\* A removal that grants nothing keeps the whole invariant.
LEMMA RemovalKeepsInv ==
    ASSUME StoreInv, NEW S, S \subseteq Plans, RemoveIds(S),
           UNCHANGED <<sealed, clock, minted, granted>>
    PROVE  StoreInv'
  <1> USE DEF StoreInv
  <1>1. /\ pending' \in [Plans -> StoredAuthority \cup {NoAuthority}]
        /\ by_host' \in [Hosts -> Plans \cup {NoPlan}]
        /\ \A p \in Plans : IsPending(p)' <=> IsPending(p) /\ p \notin S
        /\ IndexConsistent'
    BY RemoveIdsKeepsIndex
  <1>2. StoreTypeOK'
    BY <1>1 DEF StoreTypeOK
  <1>3. SealedIsEmpty' /\ ConsumedNeverPending'
    BY <1>1 DEF SealedIsEmpty, ConsumedNeverPending, StoreTypeOK
  <1> QED BY <1>1, <1>2, <1>3

\* Emptying both maps keeps the invariant whether or not the store is sealed.
LEMMA ClearKeepsInv ==
    ASSUME StoreInv, pending' = [p \in Plans |-> NoAuthority],
           by_host' = [h \in Hosts |-> NoPlan], sealed' \in BOOLEAN,
           UNCHANGED <<clock, minted, granted>>
    PROVE  StoreInv'
  <1>1. \A p \in Plans : ~IsPending(p)'
    BY DEF IsPending
  <1>2. StoreTypeOK'
    BY DEF StoreInv, StoreTypeOK
  <1>3. IndexConsistent'
    BY <1>1 DEF IndexConsistent
  <1> QED BY <1>1, <1>2, <1>3 DEF StoreInv, SealedIsEmpty, ConsumedNeverPending, StoreTypeOK

\* insert publishes a fresh plan and leaves one pending plan per host.
LEMMA InsertKeepsInv ==
    ASSUME StoreInv, NEW p \in Plans, NEW d \in Binding, NEW o \in Ops,
           NEW t \in ReadInstants, Insert(p, d, d, o, t)
    PROVE  StoreInv'
  <1> DEFINE new == [binding |-> d, op |-> o, expires_at |-> t + Ttl]
             gone == ExpiredAt(t) \cup {by_host[d.host]}
  <1> USE DEF StoreInv
  <1>1. d.host \in Hosts /\ t \in Nat /\ t + Ttl \in Nat
    BY StoreAssumption DEF Binding, ReadInstants, StoreTypeOK
  <1>2. new \in StoredAuthority
    BY <1>1 DEF StoredAuthority
  <1>3. /\ pending' = [q \in Plans |-> IF q = p THEN new
                          ELSE IF q \in gone THEN NoAuthority ELSE pending[q]]
        /\ by_host' = [h \in Hosts |-> IF h = d.host THEN p
                          ELSE IF by_host[h] \in ExpiredAt(t) THEN NoPlan ELSE by_host[h]]
        /\ minted' = minted \cup {p} /\ ~sealed /\ p \notin minted
        /\ UNCHANGED <<sealed, clock, granted>>
    BY DEF Insert
  <1> HIDE DEF new, gone
  <1>4. StoreTypeOK'
    BY <1>2, <1>3 DEF StoreTypeOK
  <1>5. pending'[p] = new /\ new.binding.host = d.host /\ IsPending(p)'
    BY <1>2, <1>3, NoAuthorityAssumption DEF IsPending, new
  <1>6. \A q \in Plans : q # p => /\ IsPending(q)' <=> IsPending(q) /\ q \notin gone
                                  /\ IsPending(q)' => pending'[q] = pending[q]
    BY <1>3 DEF IsPending
  <1>7. ASSUME NEW h \in Hosts, by_host'[h] # NoPlan
        PROVE  (IsPending(by_host[h]) /\ pending[by_host[h]].binding.host = h)'
    <2>1. CASE h = d.host
      BY <2>1, <1>3, <1>5 DEF IsPending
    <2>2. CASE h # d.host
      <3>1. by_host'[h] = by_host[h] /\ by_host[h] \notin ExpiredAt(t) /\ by_host[h] # NoPlan
        BY <2>2, <1>3, <1>7
      <3>2. by_host[h] \in Plans /\ IsPending(by_host[h]) /\ pending[by_host[h]].binding.host = h
        BY <3>1 DEF IndexConsistent, StoreTypeOK
      <3>3. by_host[h] # p
        BY <3>2, <1>3
      <3>4. by_host[h] # by_host[d.host]
        BY <3>2, <2>2, <1>1, <3>1 DEF IndexConsistent
      <3>5. by_host[h] \notin gone
        BY <3>1, <3>4 DEF gone
      <3>6. pending'[by_host[h]] = pending[by_host[h]]
        BY <3>2, <3>3, <3>5, <1>3
      <3> QED BY <3>1, <3>2, <3>6 DEF IsPending
    <2> QED BY <2>1, <2>2
  <1>8. ASSUME NEW q \in Plans, IsPending(q)'
        PROVE  by_host'[pending'[q].binding.host] = q
    <2>1. CASE q = p
      BY <2>1, <1>5, <1>3, <1>1
    <2>2. CASE q # p
      <3>1. IsPending(q) /\ q \notin gone /\ pending'[q] = pending[q]
        BY <2>2, <1>6, <1>8
      <3>2. by_host[pending[q].binding.host] = q /\ pending[q].binding.host \in Hosts
        BY <3>1 DEF IndexConsistent, StoreTypeOK, StoredAuthority, Binding, IsPending
      <3>3. pending[q].binding.host # d.host /\ q \notin ExpiredAt(t)
        BY <3>1, <3>2 DEF gone
      <3> QED BY <3>1, <3>2, <3>3, <1>3
    <2> QED BY <2>1, <2>2
  <1>9. IndexConsistent'
    BY <1>7, <1>8 DEF IndexConsistent
  <1>10. SealedIsEmpty' /\ ConsumedNeverPending'
    <2>1. SealedIsEmpty'
      BY <1>3 DEF SealedIsEmpty
    <2>2. \A q \in granted : q # p /\ q \in Plans
      BY <1>3 DEF ConsumedNeverPending, StoreTypeOK
    <2> QED BY <2>1, <2>2, <1>3, <1>6 DEF ConsumedNeverPending
  <1>11. \A q \in Plans : IsPending(q)' => q \in minted'
    BY <1>3, <1>6
  <1> QED BY <1>4, <1>9, <1>10, <1>11

\* consume hands out a pending plan of an unsealed store and removes it.
LEMMA ConsumeKeepsInv ==
    ASSUME StoreInv, NEW p \in Plans, NEW d \in Binding, NEW o \in Ops,
           NEW t \in ReadInstants, Consume(p, d, o, t)
    PROVE  StoreInv'
  <1> USE DEF StoreInv
  <1>1. /\ pending' \in [Plans -> StoredAuthority \cup {NoAuthority}]
        /\ by_host' \in [Hosts -> Plans \cup {NoPlan}]
        /\ \A q \in Plans : IsPending(q)' <=> IsPending(q) /\ q \notin {p}
        /\ IndexConsistent'
    BY RemoveIdsKeepsIndex, {p} \subseteq Plans DEF Consume
  <1>2. granted' = granted \cup {p} /\ minted' = minted /\ sealed' = sealed /\ clock' = clock /\ IsPending(p)
    BY DEF Consume
  <1>3. StoreTypeOK'
    BY <1>1, <1>2 DEF StoreTypeOK
  <1>4. SealedIsEmpty' /\ ConsumedNeverPending'
    BY <1>1, <1>2 DEF SealedIsEmpty, ConsumedNeverPending, StoreTypeOK
  <1> QED BY <1>1, <1>2, <1>3, <1>4

\* StoreInv is inductive.
LEMMA StoreInvInductive ==
    StoreInv /\ [StoreNext]_storeVars => StoreInv'
  <1> SUFFICES ASSUME StoreInv, [StoreNext]_storeVars PROVE StoreInv'
    OBVIOUS
  <1>1. CASE \E p \in Plans, d \in Binding, o \in Ops, t \in ReadInstants : Insert(p, d, d, o, t)
    BY <1>1, InsertKeepsInv
  <1>2. CASE \E p \in Plans, d \in Binding, o \in Ops, t \in ReadInstants : Consume(p, d, o, t)
    BY <1>2, ConsumeKeepsInv
  <1>3. CASE \E p \in Plans, t \in ReadInstants : ConsumeExpired(p, t)
    <2>1. PICK p \in Plans, t \in ReadInstants : ConsumeExpired(p, t) BY <1>3
    <2> QED BY <2>1, RemovalKeepsInv, {p} \subseteq Plans DEF ConsumeExpired
  <1>4. CASE \E p \in Plans, d \in Binding, o \in Ops, t \in ReadInstants : Discard(p, d, o, t)
    <2>1. PICK p \in Plans, d \in Binding, o \in Ops, t \in ReadInstants : Discard(p, d, o, t)
      BY <1>4
    <2> QED BY <2>1, RemovalKeepsInv, {p} \subseteq Plans DEF Discard
  <1>5. CASE \E h \in Hosts : RevokeHost(h)
    <2>1. PICK h \in Hosts : RevokeHost(h) BY <1>5
    <2>2. RemoveIds({by_host[h]} \cap Plans)
      <3>1. by_host' = [g \in Hosts |-> IF \E p \in {by_host[h]} \cap Plans :
                          IsPending(p) /\ pending[p].binding.host = g /\ by_host[g] = p
                          THEN NoPlan ELSE by_host[g]]
        <4>1. ASSUME NEW g \in Hosts
              PROVE  (IF g = h THEN NoPlan ELSE by_host[g]) =
                     (IF \E p \in {by_host[h]} \cap Plans :
                          IsPending(p) /\ pending[p].binding.host = g /\ by_host[g] = p
                      THEN NoPlan ELSE by_host[g])
          BY DEF StoreInv, StoreTypeOK, IndexConsistent
        <4>2. by_host' = [g \in Hosts |-> IF g = h THEN NoPlan ELSE by_host[g]]
          BY <2>1 DEF RevokeHost, StoreInv, StoreTypeOK
        <4> QED BY <4>1, <4>2
      <3>2. pending' = [p \in Plans |-> IF p \in {by_host[h]} \cap Plans
                          THEN NoAuthority ELSE pending[p]]
        BY <2>1 DEF RevokeHost
      <3> QED BY <3>1, <3>2 DEF RemoveIds
    <2>3. UNCHANGED <<sealed, clock, minted, granted>>
      BY <2>1 DEF RevokeHost
    <2> QED BY <2>2, <2>3, RemovalKeepsInv, {by_host[h]} \cap Plans \subseteq Plans
  <1>6. CASE \E h \in Hosts, s \in Sessions : RevokeSession(h, s)
    <2>1. PICK h \in Hosts, s \in Sessions : RevokeSession(h, s) BY <1>6
    <2>2. PICK S \in SUBSET Plans : RemoveIds(S)
      BY <2>1 DEF RevokeSession
    <2> QED BY <2>1, <2>2, RemovalKeepsInv DEF RevokeSession
  <1>7. CASE RevokeAll
    BY <1>7, ClearKeepsInv DEF RevokeAll, StoreInv, StoreTypeOK
  <1>8. CASE SealAndRevokeAll
    BY <1>8, ClearKeepsInv DEF SealAndRevokeAll
  <1>9. CASE PurgeExpired
    BY <1>9, RemovalKeepsInv, ExpiredAt(clock) \subseteq Plans DEF PurgeExpired, ExpiredAt
  <1>10. CASE \E p \in Plans : ExpiryTimer(p)
    <2>1. PICK p \in Plans : ExpiryTimer(p) BY <1>10
    <2> QED BY <2>1, RemovalKeepsInv, {p} \subseteq Plans DEF ExpiryTimer
  <1>11. CASE StoreTick \/ UNCHANGED storeVars
    BY <1>11 DEF StoreTick, Tick, storeVars, StoreInv, StoreTypeOK, IndexConsistent, SealedIsEmpty,
                 ConsumedNeverPending, IsPending
  <1> QED BY <1>1, <1>2, <1>3, <1>4, <1>5, <1>6, <1>7, <1>8, <1>9, <1>10, <1>11 DEF StoreNext

\* The invariant holds of the empty store.
LEMMA StoreInvInitially == StoreInit => StoreInv
  <1> SUFFICES ASSUME StoreInit PROVE StoreInv
    OBVIOUS
  <1>1. \A p \in Plans : ~IsPending(p)
    BY DEF StoreInit, IsPending
  <1>2. StoreTypeOK
    BY DEF StoreInit, StoreTypeOK
  <1>3. IndexConsistent
    BY <1>1 DEF StoreInit, IndexConsistent
  <1> QED BY <1>1, <1>2, <1>3 DEF StoreInit, StoreInv, SealedIsEmpty, ConsumedNeverPending

\* The whole invariant is invariant.
THEOREM StoreInvariant == StoreSpec => []StoreInv
  BY StoreInvInitially, StoreInvInductive, PTL DEF StoreSpec

\* Each host has at most one pending plan and the index of store.rs never
\* disagrees with the plans it indexes, for every set of hosts and plans.
THEOREM StoreIndexConsistent == StoreSpec => []IndexConsistent
  BY StoreInvariant, PTL DEF StoreInv

\* A sealed store stays empty.
THEOREM StoreSealedIsEmpty == StoreSpec => []SealedIsEmpty
  BY StoreInvariant, PTL DEF StoreInv

\* An authority that consume handed out is never pending again.
THEOREM StoreConsumedNeverPending == StoreSpec => []ConsumedNeverPending
  BY StoreInvariant, PTL DEF StoreInv

\* A removal of pending plans is, on the index, the end of some hosts' plans.
LEMMA RemovalEndsPlans ==
    ASSUME StoreTypeOK, NEW S, S \subseteq Plans, RemoveIds(S),
           UNCHANGED <<sealed, minted, granted>>
    PROVE  OneShot!Next
  <1> DEFINE ended == {h \in Hosts : \E p \in S : /\ IsPending(p)
                                                 /\ pending[p].binding.host = h
                                                 /\ by_host[h] = p}
  <1>1. by_host' = [h \in Hosts |-> IF h \in ended THEN NoPlan ELSE by_host[h]]
    BY DEF RemoveIds
  <1> HIDE DEF ended
  <1>2. OneShot!End(ended)
    BY <1>1 DEF OneShot!End
  <1>3. ended \in SUBSET Hosts
    BY DEF ended
  <1> QED BY <1>2, <1>3 DEF OneShot!Next

\* Every step of the store is, through its index, a step of OneShotAuthority
\* or leaves what it sees unchanged.
LEMMA StoreStepIsOneShotStep ==
    ASSUME StoreInv, [StoreNext]_storeVars
    PROVE  [OneShot!Next]_(OneShot!vars)
  <1> USE DEF StoreInv
  <1>1. ASSUME NEW p \in Plans, NEW d \in Binding, NEW o \in Ops, NEW t \in ReadInstants,
               Insert(p, d, d, o, t)
        PROVE  OneShot!Next
    <2> DEFINE ended == {h \in Hosts : by_host[h] \in ExpiredAt(t)}
    <2>1. d.host \in Hosts
      BY DEF Binding
    <2>2. by_host' = [h \in Hosts |-> IF h = d.host THEN p
                                      ELSE IF h \in ended THEN NoPlan ELSE by_host[h]]
      BY <1>1 DEF Insert
    <2> HIDE DEF ended
    <2>3. OneShot!Issue(p, d.host, ended)
      BY <1>1, <2>2 DEF Insert, OneShot!Issue
    <2>4. ended \in SUBSET Hosts
      BY DEF ended
    <2> QED BY <2>1, <2>3, <2>4 DEF OneShot!Next
  <1>2. ASSUME NEW p \in Plans, NEW d \in Binding, NEW o \in Ops, NEW t \in ReadInstants,
               Consume(p, d, o, t)
        PROVE  OneShot!Next
    <2>1. IsPending(p) /\ d.host \in Hosts /\ by_host[d.host] = p /\ pending[p].binding.host = d.host
      BY <1>2 DEF Consume, Matches, IndexConsistent, Binding
    <2>2. ASSUME NEW h \in Hosts
          PROVE  (\E q \in {p} : IsPending(q) /\ pending[q].binding.host = h /\ by_host[h] = q)
                   <=> h = d.host
      BY <2>1
    <2>3. by_host' = [by_host EXCEPT ![d.host] = NoPlan]
      BY <1>2, <2>2 DEF Consume, RemoveIds, StoreTypeOK
    <2>4. ~sealed /\ p \in minted /\ p \notin granted
      BY <2>1 DEF SealedIsEmpty, ConsumedNeverPending
    <2>5. OneShot!Grant(d.host)
      BY <1>2, <2>1, <2>3, <2>4 DEF Consume, OneShot!Grant
    <2> QED BY <2>1, <2>5 DEF OneShot!Next
  <1>3. ASSUME NEW p \in Plans, RemoveIds({p}), UNCHANGED <<sealed, clock, minted, granted>>
        PROVE  OneShot!Next
    BY <1>3, RemovalEndsPlans, {p} \subseteq Plans
  <1>4. ASSUME NEW h \in Hosts, RevokeHost(h)
        PROVE  OneShot!Next
    <2>1. OneShot!End({h})
      BY <1>4 DEF RevokeHost, OneShot!End, StoreTypeOK
    <2> QED BY <2>1 DEF OneShot!Next
  <1>5. ASSUME NEW h \in Hosts, NEW s \in Sessions, RevokeSession(h, s)
        PROVE  OneShot!Next
    <2>1. PICK S \in SUBSET Plans : RemoveIds(S)
      BY <1>5 DEF RevokeSession
    <2> QED BY <1>5, <2>1, RemovalEndsPlans DEF RevokeSession
  <1>6. CASE RevokeAll
    <2>1. OneShot!End(Hosts)
      BY <1>6 DEF RevokeAll, OneShot!End
    <2> QED BY <2>1 DEF OneShot!Next
  <1>7. CASE SealAndRevokeAll
    BY <1>7 DEF SealAndRevokeAll, OneShot!Close, OneShot!Next
  <1>8. CASE PurgeExpired
    BY <1>8, RemovalEndsPlans, ExpiredAt(clock) \subseteq Plans DEF PurgeExpired, ExpiredAt
  <1>9. CASE StoreTick \/ UNCHANGED storeVars
    BY <1>9 DEF StoreTick, Tick, storeVars, OneShot!vars
  <1> QED BY <1>1, <1>2, <1>3, <1>4, <1>5, <1>6, <1>7, <1>8, <1>9
          DEF StoreNext, ConsumeExpired, Discard, ExpiryTimer

\* The store implements OneShotAuthority: a host's live plan is granted at
\* most once, to one caller, and nothing is issued or granted after sealing.
THEOREM StoreImplementsOneShot == StoreSpec => ImplementsOneShot
  <1>1. StoreInit => OneShot!Init
    BY DEF StoreInit, OneShot!Init
  <1>2. StoreInv /\ [StoreNext]_storeVars => [OneShot!Next]_(OneShot!vars)
    BY StoreStepIsOneShotStep
  <1> QED BY <1>1, <1>2, StoreInvariant, PTL DEF StoreSpec, OneShot!Spec, ImplementsOneShot
=============================================================================
