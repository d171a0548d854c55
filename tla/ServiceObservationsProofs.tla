---------------------- MODULE ServiceObservationsProofs ----------------------
(***************************************************************************)
(* The observation store for every set of hosts and keys and every limit:  *)
(* it never exceeds its limits, eviction is oldest first, and nothing is   *)
(* published after the seal.                                               *)
(***************************************************************************)
EXTENDS ServiceObservations, FiniteSetTheorems, TLAPS

\* What the proofs carry along.
ObsInv == ObsTypeOK /\ ObservationsBounded /\ SealedHasNoObservations

\* `small` has fewer sets than `big`, and those it has are those of `big`.
Shrinks(small, big) == \A h \in Hosts : small[h] = NoSet \/ small[h] = big[h]

\* Holders and live ids of any store are finite.
LEMMA FiniteStore ==
    ASSUME NEW sets, NEW held \in SUBSET Hosts
    PROVE  /\ IsFiniteSet(held)
           /\ IsFiniteSet(LiveIds(sets, held))
           /\ Cardinality(held) \in Nat
           /\ Cardinality(LiveIds(sets, held)) \in Nat
<1>1. IsFiniteSet(held)
  BY SnapshotAssumption, FS_Subset
<1>2. IsFiniteSet(held \X Keys)
  BY <1>1, SnapshotAssumption, FS_Product
<1>3. LiveIds(sets, held) \in SUBSET (held \X Keys)
  BY DEF LiveIds
<1>4. IsFiniteSet(LiveIds(sets, held))
  BY <1>2, <1>3, FS_Subset
<1> QED BY <1>1, <1>4, FS_CardinalityType

\* Removing sets, by expiry or revocation, keeps a store within its limits.
LEMMA ShrinkingKeepsBounds ==
    ASSUME NEW small, NEW big, Shrinks(small, big)
    PROVE  /\ Cardinality(Holders(small)) <= Cardinality(Holders(big))
           /\ Cardinality(LiveIds(small, Holders(small)))
                 <= Cardinality(LiveIds(big, Holders(big)))
<1>1. Holders(small) \in SUBSET Holders(big) /\ Holders(big) \in SUBSET Hosts
  BY DEF Holders, Shrinks
<1>2. \A h \in Holders(small) : small[h] = big[h]
  BY DEF Holders, Shrinks
<1>3. ASSUME NEW id \in LiveIds(small, Holders(small))
      PROVE  id \in LiveIds(big, Holders(big))
  <2>1. id \in Holders(small) \X Keys /\ id[2] \in small[id[1]].entries
    BY <1>3 DEF LiveIds
  <2>2. id[1] \in Holders(small) /\ id \in Holders(big) \X Keys
    BY <2>1, <1>1
  <2>3. small[id[1]] = big[id[1]]
    BY <2>2, <1>2
  <2> QED BY <2>1, <2>2, <2>3 DEF LiveIds
<1>4. LiveIds(small, Holders(small)) \in SUBSET LiveIds(big, Holders(big))
  BY <1>3
<1> QED BY <1>1, <1>4, FiniteStore, FS_Subset

\* The eviction loop makes room: the sets kept and the new one are within the
\* limits, or nothing is kept and the new set is within them alone.
LEMMA NewSetFits ==
    ASSUME NEW before, NEW after, NEW x \in Hosts, NEW kept \in SUBSET Hosts,
           NEW entries \in SUBSET Keys,
           x \notin kept, Holders(after) = kept \cup {x},
           \A h \in kept : after[h] = before[h],
           after[x].entries = entries,
           Fits(before, kept, entries) \/ kept = {}
    PROVE  /\ Cardinality(Holders(after)) <= MaxHostSets
           /\ Cardinality(LiveIds(after, Holders(after))) <= MaxActionable
<1> DEFINE old == LiveIds(before, kept)
           new == {x} \X entries
           live == LiveIds(after, Holders(after))
<1>1. /\ IsFiniteSet(kept) /\ IsFiniteSet(old)
      /\ Cardinality(kept) \in Nat /\ Cardinality(old) \in Nat
  BY FiniteStore
<1>2. Cardinality(Holders(after)) = Cardinality(kept) + 1
  BY <1>1, FS_AddElement
<1>3. /\ IsFiniteSet(entries) /\ Cardinality(entries) \in Nat
      /\ Cardinality(entries) <= Cardinality(Keys) /\ Cardinality(Keys) \in Nat
  BY SnapshotAssumption, FS_Subset, FS_CardinalityType
<1>4. IsFiniteSet({x}) /\ Cardinality({x}) = 1
  BY FS_Singleton
<1>5. IsFiniteSet(new) /\ Cardinality(new) = Cardinality(entries)
  <2>1. IsFiniteSet(new) /\ Cardinality(new) = Cardinality({x}) * Cardinality(entries)
    BY <1>3, <1>4, FS_Product
  <2> QED BY <2>1, <1>3, <1>4
<1>6. live \in SUBSET (old \cup new)
  <2> SUFFICES ASSUME NEW id \in live PROVE id \in old \cup new
    OBVIOUS
  <2>1. id \in (kept \cup {x}) \X Keys /\ id[2] \in after[id[1]].entries
    BY DEF LiveIds
  <2>2. CASE id[1] \in kept
    <3>1. id \in kept \X Keys /\ after[id[1]] = before[id[1]]
      BY <2>1, <2>2
    <3> QED BY <3>1, <2>1 DEF LiveIds
  <2>3. CASE id[1] = x
    BY <2>1, <2>3
  <2> QED BY <2>1, <2>2, <2>3
<1>7. /\ IsFiniteSet(old \cup new)
      /\ Cardinality(old \cup new) <= Cardinality(old) + Cardinality(entries)
  <2>1. /\ IsFiniteSet(old \cup new)
        /\ Cardinality(old \cup new)
              = Cardinality(old) + Cardinality(new) - Cardinality(old \cap new)
    BY <1>1, <1>5, FS_Union
  <2>2. IsFiniteSet(old \cap new)
    BY <1>1, FS_Subset
  <2>3. Cardinality(old \cap new) \in Nat
    BY <2>2, FS_CardinalityType
  <2> QED BY <2>1, <2>3, <1>1, <1>3, <1>5
<1>8. Cardinality(live) \in Nat /\ Cardinality(live) <= Cardinality(old) + Cardinality(entries)
  <2>1. IsFiniteSet(live) /\ Cardinality(live) <= Cardinality(old \cup new)
    BY <1>6, <1>7, FS_Subset
  <2>2. Cardinality(live) \in Nat /\ Cardinality(old \cup new) \in Nat
    BY <2>1, <1>7, FS_CardinalityType
  <2> QED BY <2>1, <2>2, <1>7, <1>1, <1>3
<1>9. CASE Fits(before, kept, entries)
  BY <1>9, <1>1, <1>2, <1>3, <1>8, ObservationAssumption DEF Fits
<1>10. CASE kept = {}
  <2>1. old = {}
    BY <1>10 DEF LiveIds
  <2>2. Cardinality(kept) = 0 /\ Cardinality(old) = 0
    BY <1>10, <2>1, FS_EmptySet
  <2> QED BY <2>2, <1>2, <1>3, <1>8, ObservationAssumption, SnapshotAssumption
<1> QED BY <1>9, <1>10

-----------------------------------------------------------------------------
\* What publish makes of the sets of all hosts: `others` are the ones it finds
\* once the expired ones and the host's own are gone.
PublishedOver(others, b, e, out, t) ==
    /\ others[b.host] = NoSet
    /\ \A h \in Hosts \ {b.host} :
          others[h] = IF obs_sets[h] # NoSet /\ obs_sets[h].issued_at + ObsTtl <= t
                      THEN NoSet ELSE obs_sets[h]
    /\ Evicts(others, out, e)
    /\ obs_sets' \in [Hosts -> ObservationSet \cup {NoSet}]
    /\ obs_sets'[b.host] \in ObservationSet
    /\ obs_sets'[b.host].entries = e
    /\ \A h \in Hosts \ {b.host} : obs_sets'[h] = IF h \in out THEN NoSet ELSE others[h]

\* publish is such a step.
LEMMA PublishedSets ==
    ASSUME ObsTypeOK, NEW b \in Binding, NEW seq \in Nat, NEW e \in SUBSET Keys,
           NEW out \in SUBSET Hosts, NEW t \in ReadInstants,
           Publish(b, seq, e, out, t)
    PROVE  \E others : PublishedOver(others, b, e, out, t)
<1> DEFINE others == [Unexpired(t) EXCEPT ![b.host] = NoSet]
           set == [binding |-> b, sequence |-> seq, issued_at |-> t, entries |-> e]
<1>1. b.host \in Hosts
  BY DEF Binding
<1>2. /\ others \in [Hosts -> ObservationSet \cup {NoSet}]
      /\ others[b.host] = NoSet
      /\ \A h \in Hosts \ {b.host} :
            others[h] = IF obs_sets[h] # NoSet /\ obs_sets[h].issued_at + ObsTtl <= t
                        THEN NoSet ELSE obs_sets[h]
  BY <1>1 DEF ObsTypeOK, Unexpired
<1>3. t \in Nat
  BY DEF ReadInstants
<1>4. set \in ObservationSet
  BY <1>3 DEF ObservationSet
<1>5. /\ Evicts(others, out, e)
      /\ obs_sets' = [h \in Hosts |-> IF h = b.host THEN set
                                     ELSE IF h \in out THEN NoSet ELSE others[h]]
  BY DEF Publish
<1>6. obs_sets'[b.host] = set /\ set.entries = e
  BY <1>1, <1>5
<1>7. \A h \in Hosts \ {b.host} : obs_sets'[h] = IF h \in out THEN NoSet ELSE others[h]
  BY <1>5
<1>8. obs_sets' \in [Hosts -> ObservationSet \cup {NoSet}]
  <2>1. \A h \in Hosts : others[h] \in ObservationSet \cup {NoSet}
    BY <1>2
  <2> QED BY <2>1, <1>4, <1>5
<1> HIDE DEF others, set
<1>9. PublishedOver(others, b, e, out, t)
  BY <1>2, <1>4, <1>5, <1>6, <1>7, <1>8 DEF PublishedOver
<1> QED BY <1>9

\* publish preserves the invariant.
LEMMA PublishPreserves ==
    ASSUME ObsInv, NEW b \in Binding, NEW seq \in Nat, NEW e \in SUBSET Keys,
           NEW out \in SUBSET Hosts, NEW t \in ReadInstants,
           Publish(b, seq, e, out, t)
    PROVE  ObsInv'
<1>1. ObsTypeOK /\ b.host \in Hosts
  BY DEF ObsInv, Binding
<1>2. PICK others : PublishedOver(others, b, e, out, t)
  BY <1>1, PublishedSets
<1> DEFINE kept == Holders(others) \ out
<1>3. ~obs_sealed /\ UNCHANGED <<newest_request, obs_sealed>>
  BY DEF Publish
<1>4. ObsTypeOK'
  BY <1>1, <1>2, <1>3 DEF ObsTypeOK, PublishedOver
<1>5. SealedHasNoObservations'
  BY <1>3 DEF SealedHasNoObservations
<1>6. obs_sets'[b.host] # NoSet
  BY <1>2, SnapshotAssumption DEF PublishedOver
<1>7. /\ kept \in SUBSET Hosts /\ b.host \notin kept
      /\ Holders(obs_sets') = kept \cup {b.host}
      /\ \A h \in kept : obs_sets'[h] = others[h]
  BY <1>1, <1>2, <1>6 DEF Holders, PublishedOver
<1>8. Fits(others, kept, e) \/ kept = {}
  BY <1>2 DEF Evicts, PublishedOver
<1>9. obs_sets'[b.host].entries = e
  BY <1>2 DEF PublishedOver
<1> HIDE DEF kept
<1>10. /\ Cardinality(Holders(obs_sets')) <= MaxHostSets
      /\ Cardinality(LiveIds(obs_sets', Holders(obs_sets'))) <= MaxActionable
  BY <1>1, <1>7, <1>8, <1>9, NewSetFits
<1>11. ObservationsBounded'
  BY <1>10 DEF ObservationsBounded, Holders, LiveIds
<1> QED BY <1>4, <1>5, <1>11 DEF ObsInv

\* So does every step that only removes sets.
LEMMA RemovalPreserves ==
    ASSUME ObsInv, ObsTypeOK', Shrinks(obs_sets', obs_sets),
           obs_sealed' => (obs_sealed \/ Holders(obs_sets') = {})
    PROVE  ObsInv'
<1>1. /\ Cardinality(Holders(obs_sets')) <= Cardinality(Holders(obs_sets))
      /\ Cardinality(LiveIds(obs_sets', Holders(obs_sets')))
            <= Cardinality(LiveIds(obs_sets, Holders(obs_sets)))
  BY ShrinkingKeepsBounds
<1>2. /\ Holders(obs_sets) \in SUBSET Hosts /\ Holders(obs_sets') \in SUBSET Hosts
      /\ Holders(obs_sets') \in SUBSET Holders(obs_sets)
  BY DEF Holders, Shrinks
<1>3. /\ Cardinality(Holders(obs_sets)) \in Nat /\ Cardinality(Holders(obs_sets')) \in Nat
      /\ Cardinality(LiveIds(obs_sets, Holders(obs_sets))) \in Nat
      /\ Cardinality(LiveIds(obs_sets', Holders(obs_sets'))) \in Nat
  BY <1>2, FiniteStore
<1>4. /\ Cardinality(Holders(obs_sets)) <= MaxHostSets
      /\ Cardinality(LiveIds(obs_sets, Holders(obs_sets))) <= MaxActionable
  BY DEF ObsInv, ObservationsBounded
<1>5. /\ Cardinality(Holders(obs_sets')) <= MaxHostSets
      /\ Cardinality(LiveIds(obs_sets', Holders(obs_sets'))) <= MaxActionable
  BY <1>1, <1>3, <1>4, ObservationAssumption
<1>6. ObservationsBounded'
  BY <1>5 DEF ObservationsBounded, Holders, LiveIds
<1>7. obs_sealed' => Holders(obs_sets') = {}
  BY <1>2 DEF ObsInv, SealedHasNoObservations
<1>8. SealedHasNoObservations'
  BY <1>7 DEF SealedHasNoObservations, Holders
<1> QED BY <1>6, <1>8 DEF ObsInv

\* The store starts within its limits.
LEMMA ObsInitially == ObsStandaloneInit => ObsInv
<1> SUFFICES ASSUME ObsStandaloneInit PROVE ObsInv
  OBVIOUS
<1>1. ObsTypeOK
  BY DEF ObsStandaloneInit, ObsInit, ObsTypeOK
<1>2. Holders(obs_sets) = {} /\ LiveIds(obs_sets, Holders(obs_sets)) = {}
  BY DEF ObsStandaloneInit, ObsInit, Holders, LiveIds
<1>3. ObservationsBounded
  BY <1>2, FS_EmptySet, ObservationAssumption DEF ObservationsBounded
<1> QED BY <1>1, <1>2, <1>3 DEF ObsInv, SealedHasNoObservations

\* Every step of the store preserves the invariant: one case per method.
LEMMA ObsStep == ObsInv /\ [ObsStandaloneNext]_<<clock, obsVars>> => ObsInv'
<1> SUFFICES ASSUME ObsInv, [ObsStandaloneNext]_<<clock, obsVars>> PROVE ObsInv'
  OBVIOUS
<1> USE DEF Shrinks
<1>0. ObsTypeOK
  BY DEF ObsInv
<1>1. CASE \E h \in Hosts : BeginRequest(h) /\ UNCHANGED clock
  <2>1. obs_sets' = obs_sets /\ obs_sealed' = obs_sealed /\ ObsTypeOK'
    BY <1>0, <1>1 DEF BeginRequest, BumpRequest, ObsTypeOK
  <2> QED BY <2>1, RemovalPreserves
<1>2. CASE \E b \in Binding, seq \in 1..MaxRequests, e \in SUBSET Keys,
             out \in SUBSET Hosts, t \in ReadInstants :
             Publish(b, seq, e, out, t) /\ UNCHANGED clock
  BY <1>2, PublishPreserves, ObservationAssumption
<1>3. CASE \E t \in ReadInstants : Resolve(t) /\ UNCHANGED clock
  <2> PICK t \in ReadInstants : Resolve(t)
    BY <1>3
  <2>1. ObsTypeOK' /\ obs_sealed' = obs_sealed
    BY <1>0 DEF Resolve, Unexpired, ObsTypeOK
  <2>2. Shrinks(obs_sets', obs_sets)
    BY <1>0 DEF Resolve, Unexpired, ObsTypeOK
  <2> QED BY <2>1, <2>2, RemovalPreserves
<1>4. CASE \E h \in Hosts :
             newest_request[h] < MaxRequests /\ ObsRevokeHost(h) /\ UNCHANGED clock
  <2>1. ObsTypeOK' /\ obs_sealed' = obs_sealed
    BY <1>0, <1>4 DEF ObsRevokeHost, BumpRequest, ObsTypeOK
  <2>2. Shrinks(obs_sets', obs_sets)
    BY <1>0, <1>4 DEF ObsRevokeHost, ObsTypeOK
  <2> QED BY <2>1, <2>2, RemovalPreserves
<1>5. CASE \E h \in Hosts, s \in Sessions :
             newest_request[h] < MaxRequests /\ ObsRevokeSession(h, s) /\ UNCHANGED clock
  <2>1. ObsTypeOK' /\ obs_sealed' = obs_sealed
    BY <1>0, <1>5 DEF ObsRevokeSession, BumpRequest, ObsTypeOK
  <2>2. Shrinks(obs_sets', obs_sets)
    BY <1>0, <1>5 DEF ObsRevokeSession, ObsTypeOK
  <2> QED BY <2>1, <2>2, RemovalPreserves
<1>6. CASE ObsSealAndRevokeAll /\ UNCHANGED clock
  <2>1. ObsTypeOK' /\ Shrinks(obs_sets', obs_sets) /\ Holders(obs_sets') = {}
    BY <1>0, <1>6 DEF ObsSealAndRevokeAll, ObsTypeOK, Holders
  <2> QED BY <2>1, RemovalPreserves
<1>7. CASE UNCHANGED obsVars
  <2>1. obs_sets' = obs_sets /\ obs_sealed' = obs_sealed /\ ObsTypeOK'
    BY <1>0, <1>7 DEF obsVars, ObsTypeOK
  <2> QED BY <2>1, RemovalPreserves
<1> QED BY <1>1, <1>2, <1>3, <1>4, <1>5, <1>6, <1>7 DEF ObsStandaloneNext, obsVars

-----------------------------------------------------------------------------
\* However many hosts publish, the store keeps to MAX_HOST_SETS and
\* MAX_ACTIONABLE_GLOBAL, whatever their values and whatever is evicted.
THEOREM ObsBounded == ObsSpec => []ObservationsBounded
<1>1. ObsInv => ObservationsBounded
  BY DEF ObsInv
<1> QED BY <1>1, ObsInitially, ObsStep, PTL DEF ObsSpec

\* Nothing is published once seal_and_revoke_all has run, not even by a listing
\* that began before it.
THEOREM ObsSealed == ObsSpec => []SealedHasNoObservations
<1>1. ObsInv => SealedHasNoObservations
  BY DEF ObsInv
<1> QED BY <1>1, ObsInitially, ObsStep, PTL DEF ObsSpec

\* While publish evicts another host's unexpired set, no older set survives.
THEOREM ObsEvictsOldestFirst == ObsSpec => EvictsOldestFirst
<1> DEFINE OldestFirst ==
       \A h, k \in Hosts :
          /\ \E p \in Hosts \ {h, k} : obs_sets'[p] # obs_sets[p] /\ obs_sets'[p] # NoSet
          /\ obs_sets[h] # NoSet /\ obs_sets'[h] = NoSet
          /\ obs_sets[k] # NoSet /\ obs_sets'[k] # NoSet
          => obs_sets[h].issued_at <= obs_sets[k].issued_at
<1>1. ObsInv /\ [ObsStandaloneNext]_<<clock, obsVars>> => [OldestFirst]_obs_sets
  <2> SUFFICES ASSUME ObsInv, [ObsStandaloneNext]_<<clock, obsVars>>, obs_sets' # obs_sets,
                      NEW h \in Hosts, NEW k \in Hosts, NEW p \in Hosts \ {h, k},
                      obs_sets'[p] # obs_sets[p], obs_sets'[p] # NoSet,
                      obs_sets[h] # NoSet, obs_sets'[h] = NoSet,
                      obs_sets[k] # NoSet, obs_sets'[k] # NoSet
               PROVE  obs_sets[h].issued_at <= obs_sets[k].issued_at
    OBVIOUS
  <2>0. ObsTypeOK
    BY DEF ObsInv
  <2>1. PICK b \in Binding, seq \in Nat, e \in SUBSET Keys, out \in SUBSET Hosts,
             t \in ReadInstants : Publish(b, seq, e, out, t)
    <3>1. ~Shrinks(obs_sets', obs_sets)
      BY DEF Shrinks
    <3>2. \A r \in ReadInstants : ~Resolve(r)
      BY <3>1, <2>0 DEF Resolve, Unexpired, ObsTypeOK, Shrinks
    <3>3. \A g \in Hosts : ~ObsRevokeHost(g) /\ \A s \in Sessions : ~ObsRevokeSession(g, s)
      BY <3>1, <2>0 DEF ObsRevokeHost, ObsRevokeSession, ObsTypeOK, Shrinks
    <3>4. ~ObsSealAndRevokeAll /\ \A g \in Hosts : ~BeginRequest(g)
      BY <3>1 DEF ObsSealAndRevokeAll, BeginRequest, Shrinks
    <3>5. 1..MaxRequests \subseteq Nat
      BY ObservationAssumption
    <3> QED BY <3>2, <3>3, <3>4, <3>5 DEF ObsStandaloneNext, obsVars
  <2>2. PICK others : PublishedOver(others, b, e, out, t)
    BY <2>0, <2>1, PublishedSets
  <2>4. p = b.host
    BY <2>2 DEF PublishedOver
  <2>5. h # b.host /\ k # b.host
    BY <2>4
  <2>6. /\ k \notin out /\ others[k] = obs_sets[k]
        /\ ~(obs_sets[k].issued_at + ObsTtl <= t)
    BY <2>2, <2>5 DEF PublishedOver
  <2>7. k \in Holders(others) \ out
    BY <2>6 DEF Holders
  <2>8. t \in Nat /\ obs_sets[h].issued_at \in Nat /\ obs_sets[k].issued_at \in Nat
    BY <2>0 DEF ObsTypeOK, ObservationSet, ReadInstants
  <2>9. CASE obs_sets[h].issued_at + ObsTtl <= t
    BY <2>6, <2>8, <2>9, ObservationAssumption
  <2>10. CASE ~(obs_sets[h].issued_at + ObsTtl <= t)
    <3>1. others[h] = obs_sets[h] /\ h \in out
      BY <2>2, <2>5, <2>10 DEF PublishedOver
    <3>2. others[h].issued_at <= others[k].issued_at
      BY <2>2, <2>7, <3>1 DEF Evicts, PublishedOver
    <3> QED BY <3>1, <3>2, <2>6
  <2> QED BY <2>9, <2>10
<1> QED BY <1>1, ObsInitially, ObsStep, PTL DEF ObsSpec, EvictsOldestFirst
=============================================================================
