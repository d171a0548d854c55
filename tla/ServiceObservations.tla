------------------------ MODULE ServiceObservations ------------------------
(***************************************************************************)
(* The store of actionable service observations (service_observations.rs). *)
(* A listing takes a request number before it observes the remote host and *)
(* publishes under the newest number only; a published set replaces the    *)
(* host's whole previous set, is bound to one session and expires.  An     *)
(* observation id is its host, the number of its set and its key (a unit   *)
(* and the action it allows).                                              *)
(***************************************************************************)
EXTENDS SessionBindings, FiniteSets

CONSTANTS
    Keys,           \* the actionable entries a snapshot can have
    ObsTtl,         \* SERVICE_OBSERVATION_TTL, in ticks
    MaxHostSets,    \* MAX_HOST_SETS
    MaxActionable,  \* MAX_ACTIONABLE_GLOBAL
    MaxRequests,    \* bound on the request numbers of a host
    NoSet

ASSUME ObservationAssumption ==
    /\ ObsTtl \in Nat \ {0}
    /\ MaxHostSets \in Nat \ {0}
    /\ MaxActionable \in Nat
    /\ MaxRequests \in Nat

VARIABLES
    obs_sets,        \* ObservationState::sets
    newest_request,  \* ObservationState::newest_request (a missing host is 0)
    obs_sealed       \* ObservationState::sealed

obsVars == <<obs_sets, newest_request, obs_sealed>>

ObservationSet == [binding : Binding, sequence : Nat, issued_at : Nat, entries : SUBSET Keys]

\* A snapshot has at most 512 entries of at most four actions each, for which the
\* store has room; a missing set is no set.
ASSUME SnapshotAssumption ==
    /\ IsFiniteSet(Hosts) /\ IsFiniteSet(Keys)
    /\ Cardinality(Keys) <= MaxActionable
    /\ NoSet \notin ObservationSet

ObsTypeOK ==
    /\ obs_sets \in [Hosts -> ObservationSet \cup {NoSet}]
    /\ newest_request \in [Hosts -> Nat]
    /\ obs_sealed \in BOOLEAN

ObsInit ==
    /\ obs_sets = [h \in Hosts |-> NoSet]
    /\ newest_request = [h \in Hosts |-> 0]
    /\ obs_sealed = FALSE

-----------------------------------------------------------------------------
\* remove_expired
Unexpired(t) ==
    [h \in Hosts |-> IF obs_sets[h] # NoSet /\ obs_sets[h].issued_at + ObsTtl <= t
                     THEN NoSet ELSE obs_sets[h]]

BumpRequest(h) == newest_request' = [newest_request EXCEPT ![h] = @ + 1]

\* begin_request: the caller's number is the new value of newest_request[h].
BeginRequest(h) ==
    /\ ~obs_sealed
    /\ newest_request[h] < MaxRequests
    /\ BumpRequest(h)
    /\ UNCHANGED <<obs_sets, obs_sealed>>

Holders(sets) == {h \in Hosts : sets[h] # NoSet}

\* The live observation ids of the hosts in `held` (actionable_count is their number).
LiveIds(sets, held) == {id \in held \X Keys : id[2] \in sets[id[1]].entries}

\* The loop condition of publish is false for the sets of `held` and `extra` new entries.
Fits(sets, held, extra) ==
    /\ Cardinality(held) < MaxHostSets
    /\ Cardinality(LiveIds(sets, held)) + Cardinality(extra) <= MaxActionable

(***************************************************************************)
(* The eviction loop of publish: the sets of `out` are removed, oldest     *)
(* first, until the new entries fit or no set is left.  min_by_key takes   *)
(* any of several equally old sets.                                        *)
(***************************************************************************)
Evicts(sets, out, extra) ==
    LET kept == Holders(sets) \ out
    IN  /\ Fits(sets, kept, extra) \/ kept = {}
        /\ out # {} => \E last \in out :
              /\ ~Fits(sets, kept \cup {last}, extra)
              /\ \A o \in out : sets[o].issued_at <= sets[last].issued_at
        /\ \A o \in out, k \in kept : sets[o].issued_at <= sets[k].issued_at

(***************************************************************************)
(* publish: only the newest request of an unsealed store; expired sets and *)
(* the host's previous set go, old sets are evicted until the new one      *)
(* fits, and the new set is stored.                                        *)
(***************************************************************************)
Publish(b, seq, entries, out, t) ==
    LET others == [Unexpired(t) EXCEPT ![b.host] = NoSet]
    IN  /\ ~obs_sealed
        /\ newest_request[b.host] = seq
        /\ out \subseteq Holders(others)
        /\ Evicts(others, out, entries)
        /\ obs_sets' = [h \in Hosts |->
              IF h = b.host THEN [binding |-> b, sequence |-> seq, issued_at |-> t,
                                  entries |-> entries]
              ELSE IF h \in out THEN NoSet ELSE others[h]]
        /\ UNCHANGED <<newest_request, obs_sealed>>

(***************************************************************************)
(* resolve: purges what has expired, then answers only for an entry of the *)
(* host's current set under the very binding it was published for.         *)
(***************************************************************************)
Resolves(seq, key, expected, t) ==
    LET set == Unexpired(t)[expected.host]
    IN  set # NoSet /\ set.binding = expected /\ set.sequence = seq /\ key \in set.entries

Resolve(t) == obs_sets' = Unexpired(t) /\ UNCHANGED <<newest_request, obs_sealed>>

ObsRevokeHost(h) ==
    /\ obs_sets' = [obs_sets EXCEPT ![h] = NoSet]
    /\ BumpRequest(h)
    /\ UNCHANGED obs_sealed

ObsRevokeSession(h, s) ==
    /\ obs_sets' = [obs_sets EXCEPT ![h] =
                      IF @ # NoSet /\ @.binding.session = s THEN NoSet ELSE @]
    /\ BumpRequest(h)
    /\ UNCHANGED obs_sealed

ObsSealAndRevokeAll ==
    /\ obs_sealed' = TRUE
    /\ obs_sets' = [h \in Hosts |-> NoSet]
    /\ newest_request' = [h \in Hosts |-> 0]

-----------------------------------------------------------------------------
\* The store on its own: any host may list, publish, resolve or be revoked.
ObsStandaloneInit == ObsInit /\ clock = 0

ObsStandaloneNext ==
    \/ \E h \in Hosts : BeginRequest(h) /\ UNCHANGED clock
    \/ \E b \in Binding, seq \in 1..MaxRequests, e \in SUBSET Keys,
          out \in SUBSET Hosts, t \in ReadInstants :
          Publish(b, seq, e, out, t) /\ UNCHANGED clock
    \/ \E t \in ReadInstants : Resolve(t) /\ UNCHANGED clock
    \/ \E h \in Hosts :
          newest_request[h] < MaxRequests /\ ObsRevokeHost(h) /\ UNCHANGED clock
    \/ \E h \in Hosts, s \in Sessions :
          newest_request[h] < MaxRequests /\ ObsRevokeSession(h, s) /\ UNCHANGED clock
    \/ ObsSealAndRevokeAll /\ UNCHANGED clock
    \/ Tick /\ UNCHANGED obsVars

ObsSpec == ObsStandaloneInit /\ [][ObsStandaloneNext]_<<clock, obsVars>>

-----------------------------------------------------------------------------
(***************************************************************************)
(* However many hosts publish, and whatever is evicted, the store never    *)
(* holds more sets or more actionable ids than MAX_HOST_SETS and           *)
(* MAX_ACTIONABLE_GLOBAL allow.                                            *)
(***************************************************************************)
ObservationsBounded ==
    /\ Cardinality(Holders(obs_sets)) <= MaxHostSets
    /\ Cardinality(LiveIds(obs_sets, Holders(obs_sets))) <= MaxActionable

(***************************************************************************)
(* A publication may evict other hosts' observations only to make room and *)
(* oldest first: while another host's unexpired set disappears, no older   *)
(* set of a third host survives.                                           *)
(***************************************************************************)
EvictsOldestFirst ==
    [][\A h, k \in Hosts :
          /\ \E p \in Hosts \ {h, k} : obs_sets'[p] # obs_sets[p] /\ obs_sets'[p] # NoSet
          /\ obs_sets[h] # NoSet /\ obs_sets'[h] = NoSet
          /\ obs_sets[k] # NoSet /\ obs_sets'[k] # NoSet
          => obs_sets[h].issued_at <= obs_sets[k].issued_at]_obs_sets

(***************************************************************************)
(* Sealing revokes every observation and none is published afterwards,     *)
(* even by a listing that was in flight when the store was sealed: sealing *)
(* forgets the request numbers too.                                        *)
(***************************************************************************)
SealedHasNoObservations == obs_sealed => Holders(obs_sets) = {}
=============================================================================
