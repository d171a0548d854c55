---------------------------- MODULE SessionProofs ----------------------------
(***************************************************************************)
(* Proofs about the session life cycle and what is bound to a session:     *)
(* the session view itself, SFTP sessions and the monitor baseline         *)
(* (SessionObservations), and service plans, observations and executions   *)
(* (ServiceOperations).  Both compositions take the steps of HostSessions, *)
(* so one invariant of the life cycle, SessionInv, serves both; it is      *)
(* strengthened by what each composition adds.                             *)
(***************************************************************************)
EXTENDS SessionObservations, ServiceOperations, AuthorityStoreProofs, FiniteSetTheorems, TLAPS

-----------------------------------------------------------------------------
\* The types of the life cycle.
SessionStates ==
    {"Disconnected", "Connecting", "Connected", "Disconnecting", "AwaitingTrust", "Failed"}

\* Of an error, only whether it is about the host key matters.
SessionErrors == {"none", "host_key", "other"}

\* Generations, and with them tokens, transports and session ids.
Numbers == 0..MaxGen

\* SessionSlot.data
Slots == [state : SessionStates, error : SessionErrors, generation : Numbers, token : Numbers,
          transport : Numbers, connection : Numbers, refreshing : BOOLEAN]

\* The steps a command waits at: reads, session commands, service commands.
Pcs == Listings \cup {"idle", "monitor"}
       \cup {"establishing", "closing", "closing_delete", "closing_reconnect", "deleting",
             "reconnect", "session_close", "session_revoke", "session_sftp", "refreshing",
             "opening_sftp"}
       \cup {"listing", "publishing", "planning", "plan_publishing", "admitting", "consumed",
             "revalidating", "ready", "dispatching", "post_list"}

\* The local state of a command.
CallStates == [pc : Pcs, host : Hosts \cup {NoHost}, gen : Numbers, conn : Numbers, seq : Nat,
               op : Ops \cup {NoOp}, plan : Plans \cup {NoPlan}]

\* A command that has begun is about a host.
SessionTypeOK ==
    /\ saved \subseteq Hosts
    /\ slot \in [Hosts -> Slots]
    /\ cancelled \in [Hosts -> SUBSET Numbers]
    /\ closed \in [Hosts -> SUBSET Numbers]
    /\ gate \in [Hosts -> Calls \cup {Free}]
    /\ startup \in [Hosts -> Calls \cup {Free}]
    /\ sftp \in [Hosts -> Numbers]
    /\ call \in [Calls -> CallStates]
    /\ \A c \in Calls : call[c].pc # "idle" => call[c].host \in Hosts

\* Once shutdown tears the sessions down, no command is left.
Quiet == shutdown \in {"marked", "done"} => \A c \in Calls : call[c] = Idle

\* The session on the view is the current attempt's, not cancelled.
Current(h) ==
    slot[h].state = "Connected" =>
        /\ slot[h].connection = slot[h].generation
        /\ slot[h].transport = slot[h].generation
        /\ slot[h].token = slot[h].generation
        /\ slot[h].token \notin cancelled[h]

\* Only a session in use, or one whose teardown failed, has an id.
Cleared(h) ==
    slot[h].state \notin {"Connected", "Disconnecting"} => slot[h].connection = 0

\* The refreshing flag belongs to a connected session and to a call that will
\* clear it.
Refreshed(h) ==
    slot[h].refreshing =>
        /\ slot[h].state = "Connected"
        /\ \E c \in Calls : call[c].pc = "refreshing" /\ call[c].host = h /\ ~Overtaken(c)

\* Whoever holds the gates, an open SFTP session has its connection.
SftpOwned(h) ==
    sftp[h] # 0 => sftp[h] = slot[h].connection \/ sftp[h] \in closed[h]

\* The attempt a call makes.
Attempts(c, h) == call[c].pc = "establishing" /\ call[c].host = h

\* An attempt that is not overtaken finds the slot as it left it, and no two
\* attempts have the same number.
AttemptsOwn(h) ==
    \A c \in Calls : Attempts(c, h) =>
        /\ call[c].gen = call[c].conn
        /\ call[c].gen <= slot[h].generation
        /\ call[c].gen = slot[h].generation =>
              slot[h].token = call[c].gen /\ slot[h].state = "Connecting"
        /\ \A d \in Calls : Attempts(d, h) /\ call[d].gen = call[c].gen => d = c

\* The steps at which a call of the life cycle holds the host's gate.
GatePc == ClosingPc \cup {"deleting", "session_revoke", "session_sftp"}

\* The calls that have taken the host's gate still hold it, and a call that
\* closes the session closes the one that is in the slot.
ClosersHold(h) ==
    \A c \in Calls : call[c].pc \in GatePc /\ call[c].host = h =>
        /\ gate[h] = c
        /\ call[c].pc \in ClosingPc =>
              /\ slot[h].state \notin {"Connecting", "Connected"}
              /\ call[c].conn = slot[h].connection

\* The calls that will raise the host's generation without asking for room.
Bumping(h) ==
    {c \in Calls : /\ call[c].pc \in {"closing_reconnect", "reconnect", "session_close"}
                   /\ call[c].host = h}

\* The bound on generations leaves room for them.
RoomLeft(h) == slot[h].generation + Cardinality(Bumping(h)) <= MaxGen

\* What holds of each host.
HostInv(h) ==
    /\ Current(h)
    /\ Cleared(h)
    /\ Refreshed(h)
    /\ SftpOwned(h)
    /\ AttemptsOwn(h)
    /\ ClosersHold(h)
    /\ RoomLeft(h)

\* The invariant of the life cycle.
SessionInv ==
    /\ SessionTypeOK
    /\ Quiet
    /\ \A h \in Hosts : HostInv(h)

\* The monitor baseline belongs to the session, to one that get_session is
\* cleaning up after, or to one that shutdown is closing.
BaselineOwned ==
    \A h \in Hosts : baseline[h] # 0 =>
        \/ slot[h].state = "Connected" /\ slot[h].connection = baseline[h]
        \/ \E c \in Calls : call[c].pc = "session_revoke" /\ call[c].host = h
        \/ shutdown \in {"sealed", "marked"}

\* The invariant of the life cycle together with the reads.
ObservedInv ==
    /\ SessionInv
    /\ baseline \in [Hosts -> Numbers]
    /\ shutdown = "done" => \A h \in Hosts : baseline[h] = 0
    /\ BaselineOwned

-----------------------------------------------------------------------------
\* The call that is revoking what the closed session s of host h has left.
RevokingFor(h, s) ==
    \E c \in Calls : /\ gate[h] = c
                     /\ call[c].pc = "session_revoke"
                     /\ call[c].host = h
                     /\ call[c].conn = s

\* b is the session of its host, or one being revoked.
LiveBinding(b) ==
    \/ slot[b.host].state = "Connected" /\ b = CurrentBinding(b.host)
    \/ RevokingFor(b.host, b.session)

\* Every pending plan is bound to a live session,
PlansLive == \A p \in Plans : IsPending(p) => LiveBinding(pending[p].binding)

\* and so is every observation.
ObservationsLive ==
    \A h \in Hosts : obs_sets[h] # NoSet =>
        obs_sets[h].binding.host = h /\ LiveBinding(obs_sets[h].binding)

\* A running execution holds the gate and the permit, on the session its plan
\* was bound to.
ExecutionsBound ==
    \A c \in Executing :
        /\ permit = c
        /\ gate[call[c].host] = c
        /\ slot[call[c].host].state = "Connected"
        /\ BoundTo(c) = CurrentBinding(call[c].host)
        /\ call[c].plan \in granted
        /\ call[c].pc # "dispatching" => dispatches[call[c].plan] = 0

\* Only plans that consume has handed out are dispatched, once.
DispatchesCounted ==
    /\ dispatches \in [Plans -> {0, 1}]
    /\ \A p \in Plans : dispatches[p] # 0 => p \in granted

\* What planning and executing calls carry.
CallsCarry ==
    \A c \in Calls :
        /\ call[c].pc \in {"planning", "plan_publishing"} => call[c].op \in Ops
        /\ call[c].pc = "admitting" => call[c].plan \in Plans

\* From shutdown on, both stores are sealed and empty.
Sealing ==
    shutdown # "running" => sealed /\ obs_sealed /\ \A h \in Hosts : obs_sets[h] = NoSet

\* The invariant of the life cycle together with the service operations.
ServiceInv ==
    /\ SessionInv
    /\ StoreInv
    /\ ObsTypeOK
    /\ permit \in Calls \cup {Free}
    /\ Sealing
    /\ PlansLive
    /\ ObservationsLive
    /\ ExecutionsBound
    /\ DispatchesCounted
    /\ CallsCarry

-----------------------------------------------------------------------------
\* A step of host h: nothing of another host changes, nor any call outside C.
Elsewhere(h, C) ==
    /\ \A k \in Hosts \ {h} :
          /\ slot'[k] = slot[k]
          /\ cancelled'[k] = cancelled[k]
          /\ closed'[k] = closed[k]
          /\ sftp'[k] = sftp[k]
          /\ gate'[k] = gate[k]
    /\ \A d \in Calls \ C : call'[d] = call[d]
    /\ \A d \in C : call[d].host \in {h, NoHost} /\ call'[d].host \in {h, NoHost}

\* The calls of a host are finitely many.
LEMMA FiniteCalls ==
    ASSUME NEW S \in SUBSET Calls
    PROVE  IsFiniteSet(S) /\ Cardinality(S) \in Nat
  BY FS_Subset, FS_CardinalityType, SessionAssumption

\* A step of one host keeps what the invariant says of the others.
LEMMA OtherHostsKept ==
    ASSUME SessionInv, NEW h \in Hosts, NEW C \in SUBSET Calls, Elsewhere(h, C),
           NEW k \in Hosts, k # h
    PROVE  HostInv(k)'
  <1>1. HostInv(k) /\ k # NoHost
    BY SessionAssumption DEF SessionInv
  <1>2. /\ slot'[k] = slot[k] /\ cancelled'[k] = cancelled[k] /\ closed'[k] = closed[k]
        /\ sftp'[k] = sftp[k] /\ gate'[k] = gate[k]
    BY DEF Elsewhere
  <1>3. \A d \in Calls : call'[d].host = k \/ call[d].host = k => call'[d] = call[d]
    BY <1>1 DEF Elsewhere
  <1>4. Current(k)' /\ Cleared(k)' /\ SftpOwned(k)'
    BY <1>1, <1>2 DEF HostInv, Current, Cleared, SftpOwned
  <1>5. Refreshed(k)'
    <2>1. \A d \in Calls : call[d].pc = "refreshing" /\ call[d].host = k /\ ~Overtaken(d) =>
                           (call[d].pc = "refreshing" /\ call[d].host = k /\ ~Overtaken(d))'
      BY <1>2, <1>3 DEF Overtaken
    <2> QED BY <1>1, <1>2, <2>1 DEF HostInv, Refreshed
  <1>6. AttemptsOwn(k)'
    <2>1. \A d \in Calls : Attempts(d, k)' => Attempts(d, k) /\ call'[d] = call[d]
      BY <1>3 DEF Attempts
    <2> QED BY <1>1, <1>2, <2>1 DEF HostInv, AttemptsOwn
  <1>7. ClosersHold(k)'
    BY <1>1, <1>2, <1>3 DEF HostInv, ClosersHold
  <1>8. RoomLeft(k)'
    <2>1. Bumping(k)' = Bumping(k)
      BY <1>3 DEF Bumping
    <2> QED BY <1>1, <1>2, <2>1 DEF HostInv, RoomLeft
  <1> QED BY <1>4, <1>5, <1>6, <1>7, <1>8 DEF HostInv

\* A step of one host keeps the invariant if it keeps that host's part.
LEMMA HostStepKeeps ==
    ASSUME SessionInv, NEW h \in Hosts, NEW C \in SUBSET Calls, Elsewhere(h, C),
           SessionTypeOK', Quiet', HostInv(h)'
    PROVE  SessionInv'
  <1>1. \A k \in Hosts : k # h => HostInv(k)'
    BY OtherHostsKept
  <1> QED BY <1>1 DEF SessionInv

\* Room is left by a step that begins nothing and raises no generation,
LEMMA RoomKept ==
    ASSUME SessionInv, NEW h \in Hosts, Bumping(h)' \subseteq Bumping(h),
           slot'[h].generation = slot[h].generation
    PROVE  RoomLeft(h)'
  <1>1. RoomLeft(h) /\ slot[h].generation \in Nat /\ MaxGen \in Nat
    BY SessionAssumption DEF SessionInv, HostInv, SessionTypeOK, Slots, Numbers
  <1>2. Bumping(h) \in SUBSET Calls
    BY DEF Bumping
  <1>3. /\ Cardinality(Bumping(h)') <= Cardinality(Bumping(h))
        /\ Cardinality(Bumping(h)') \in Nat /\ Cardinality(Bumping(h)) \in Nat
    BY <1>2, FiniteCalls, FS_Subset
  <1> HIDE DEF Bumping
  <1> QED BY <1>1, <1>3 DEF RoomLeft

\* by a command that asked for it,
LEMMA RoomAskedFor ==
    ASSUME SessionInv, NEW h \in Hosts, NEW c, Room(h),
           \A d \in Calls : d # c => call'[d] = call[d],
           slot'[h].generation \in {slot[h].generation, slot[h].generation + 1}
    PROVE  RoomLeft(h)'
  <1> DEFINE S == {d \in Calls : call[d].host = h}
  <1>1. slot[h].generation \in Nat /\ MaxGen \in Nat
    BY SessionAssumption DEF SessionInv, SessionTypeOK, Slots, Numbers
  <1>2. slot[h].generation + Cardinality(S) + 2 <= MaxGen
    BY DEF Room
  <1>3. Bumping(h)' \subseteq S \cup {c}
    BY DEF Bumping
  <1>4. IsFiniteSet(S) /\ Cardinality(S) \in Nat
    BY FiniteCalls
  <1> HIDE DEF S
  <1>5. IsFiniteSet(S \cup {c}) /\ Cardinality(S \cup {c}) <= Cardinality(S) + 1
    <2>1. /\ IsFiniteSet(S \cup {c})
          /\ Cardinality(S \cup {c}) = IF c \in S THEN Cardinality(S) ELSE Cardinality(S) + 1
      BY <1>4, FS_AddElement, Zenon
    <2> QED BY <1>4, <2>1
  <1>6. /\ Cardinality(Bumping(h)') <= Cardinality(S \cup {c})
        /\ Cardinality(Bumping(h)') \in Nat /\ Cardinality(S \cup {c}) \in Nat
    BY <1>3, <1>5, FS_Subset, FS_CardinalityType
  <1> QED BY <1>1, <1>2, <1>4, <1>5, <1>6 DEF RoomLeft

\* and by one that has waited with its room reserved.
LEMMA RoomReserved ==
    ASSUME SessionInv, NEW h \in Hosts, NEW c \in Bumping(h),
           Bumping(h)' \subseteq Bumping(h) \ {c},
           slot'[h].generation \in {slot[h].generation, slot[h].generation + 1}
    PROVE  RoomLeft(h)'
  <1>1. RoomLeft(h) /\ slot[h].generation \in Nat /\ MaxGen \in Nat
    BY SessionAssumption DEF SessionInv, HostInv, SessionTypeOK, Slots, Numbers
  <1>2. Bumping(h) \in SUBSET Calls /\ Bumping(h) \ {c} \in SUBSET Calls
    BY DEF Bumping
  <1>3. /\ IsFiniteSet(Bumping(h)) /\ Cardinality(Bumping(h)) \in Nat
        /\ IsFiniteSet(Bumping(h) \ {c}) /\ Cardinality(Bumping(h) \ {c}) \in Nat
    BY <1>2, FiniteCalls
  <1>4. Cardinality(Bumping(h) \ {c}) = Cardinality(Bumping(h)) - 1
    BY <1>3, FS_RemoveElement
  <1>5. /\ Cardinality(Bumping(h)') <= Cardinality(Bumping(h) \ {c})
        /\ Cardinality(Bumping(h)') \in Nat
    BY <1>3, FS_Subset, FS_CardinalityType
  <1> QED BY <1>1, <1>3, <1>4, <1>5 DEF RoomLeft

\* A host with room left has a generation within the bound.
LEMMA RoomBounds ==
    ASSUME SessionInv, NEW h \in Hosts, NEW g \in Nat, RoomLeft(h)', slot'[h].generation = g
    PROVE  g \in Numbers
  <1>1. Bumping(h)' \in SUBSET Calls
    BY DEF Bumping
  <1>2. Cardinality(Bumping(h)') \in Nat
    BY <1>1, FiniteCalls
  <1> QED BY <1>2, SessionAssumption DEF RoomLeft, Numbers

-----------------------------------------------------------------------------
\* A call that has not begun.
LEMMA IdleIsCall ==
    /\ Idle \in CallStates
    /\ Idle.pc = "idle" /\ Idle.host = NoHost /\ Idle.gen = 0 /\ Idle.conn = 0
    /\ 0 \in Numbers
  BY SessionAssumption DEF Idle, CallStates, Numbers, Pcs

\* The next state of one call.
LEMMA CallStepTyped ==
    ASSUME SessionTypeOK, NEW c \in Calls, NEW x \in CallStates, Goto(c, x),
           x.pc # "idle" => x.host \in Hosts
    PROVE  /\ call' \in [Calls -> CallStates]
           /\ \A d \in Calls : call'[d].pc # "idle" => call'[d].host \in Hosts
           /\ call'[c] = x
           /\ \A d \in Calls \ {c} : call'[d] = call[d]
  BY DEF SessionTypeOK, Goto

\* What the invariant says of one host and one call, in hand.
LEMMA HostInHand ==
    ASSUME SessionInv, NEW h \in Hosts
    PROVE  /\ slot[h] \in Slots
           /\ slot[h].state \in SessionStates /\ slot[h].generation \in Numbers
           /\ slot[h].token \in Numbers /\ slot[h].transport \in Numbers
           /\ slot[h].connection \in Numbers /\ slot[h].refreshing \in BOOLEAN
           /\ slot[h].generation \in Nat
           /\ slot[h].error \in SessionErrors
           /\ HostInv(h)
  BY SessionAssumption DEF SessionInv, SessionTypeOK, Slots, Numbers

\* While the gate is free, no call is closing or cleaning up.
LEMMA FreeGateNobodyCloses ==
    ASSUME SessionInv, NEW h \in Hosts, gate[h] = Free
    PROVE  \A d \in Calls : call[d].host = h => call[d].pc \notin GatePc
  BY SessionAssumption DEF SessionInv, HostInv, ClosersHold

\* Commands run until the teardown, so the teardown has none to disturb.
LEMMA CallsAreLate ==
    ASSUME SessionInv, NEW c \in Calls, MayStart(c) \/ call[c].pc # "idle", shutdown' = shutdown
    PROVE  Quiet'
  BY IdleIsCall DEF SessionInv, Quiet, MayStart

\* connect_host begins an attempt under the gate.
LEMMA ConnectBeginKeeps ==
    ASSUME SessionInv, NEW c \in Calls, NEW h \in Hosts, ConnectBegin(c, h)
    PROVE  SessionInv'
  <1> DEFINE g == slot[h].generation + 1
             s == [state |-> "Connecting", error |-> "none", generation |-> g, token |-> g,
                   transport |-> 0, connection |-> 0, refreshing |-> FALSE]
             x == [Idle EXCEPT !.pc = "establishing", !.host = h, !.gen = g, !.conn = g]
  <1>1. /\ slot[h].token \in Numbers /\ slot[h].generation \in Nat
        /\ slot[h].state \in SessionStates /\ HostInv(h)
    BY HostInHand
  <1>2. slot' = [slot EXCEPT ![h] = s] /\ Goto(c, x)
    BY DEF ConnectBegin
  <1>3. (MayStart(c) /\ Room(h)) \/ (call[c].pc = "reconnect" /\ call[c].host = h)
    BY DEF ConnectBegin, ConnectEntry
  <1>4. slot[h].state \notin {"Connected", "Disconnecting"}
    BY DEF ConnectBegin, InUse
  <1>5. /\ gate[h] = Free
        /\ cancelled' = [cancelled EXCEPT ![h] = @ \cup {slot[h].token}]
        /\ UNCHANGED <<saved, closed, gate, startup, sftp, shutdown>>
    BY DEF ConnectBegin, ConnectEntry, Cancel
  <1>6. g \in Nat /\ x.pc = "establishing" /\ x.host = h /\ x.gen = g /\ x.conn = g
    BY <1>1 DEF Idle
  <1>7. slot'[h] = s /\ \A k \in Hosts \ {h} : slot'[k] = slot[k]
    BY <1>2, <1>3, <1>4, <1>5 DEF SessionInv, SessionTypeOK
  <1>8. /\ s.state = "Connecting" /\ s.generation = g /\ s.token = g /\ s.connection = 0
        /\ s.refreshing = FALSE
    OBVIOUS
  <1>9. call'[c] = x /\ \A d \in Calls \ {c} : call'[d] = call[d]
    BY <1>2, <1>3, <1>4, <1>5 DEF Goto, SessionInv, SessionTypeOK
  <1> HIDE DEF s, x
  <1>10. call[c].host \in {h, NoHost} /\ call[c].pc \in {"idle", "reconnect"}
    BY <1>2, <1>3, <1>4, <1>5, IdleIsCall DEF MayStart
  <1>11. RoomLeft(h)'
    <2>1. CASE Room(h)
      BY <2>1, <1>7, <1>8, <1>9, RoomAskedFor
    <2>2. CASE call[c].pc = "reconnect" /\ call[c].host = h
      <3>1. c \in Bumping(h) /\ Bumping(h)' \subseteq Bumping(h) \ {c}
        BY <2>2, <1>6, <1>9 DEF Bumping
      <3> QED BY <3>1, <1>7, <1>8, RoomReserved
    <2> QED BY <1>2, <1>3, <1>4, <1>5, <2>1, <2>2
  <1>12. g \in Numbers
    BY <1>6, <1>7, <1>8, <1>11, RoomBounds
  <1>13. SessionTypeOK'
    <2>1. s \in Slots /\ x \in CallStates
      BY <1>12, IdleIsCall DEF s, x, Slots, CallStates, SessionStates, SessionErrors, Pcs, Idle
    <2>2. /\ call' \in [Calls -> CallStates]
          /\ \A d \in Calls : call'[d].pc # "idle" => call'[d].host \in Hosts
      BY <2>1, <1>2, <1>3, <1>4, <1>5, <1>6, CallStepTyped DEF SessionInv
    <2> QED BY <1>1, <1>2, <1>3, <1>4, <1>5, <2>1, <2>2 DEF SessionInv, SessionTypeOK
  <1>14. Quiet'
    BY <1>2, <1>3, <1>4, <1>5, <1>10, CallsAreLate
  <1>15. Elsewhere(h, {c})
    BY <1>2, <1>3, <1>4, <1>5, <1>6, <1>7, <1>9, <1>10 DEF Elsewhere, SessionInv, SessionTypeOK
  <1>16. HostInv(h)'
    <2>1. Current(h)' /\ Cleared(h)' /\ Refreshed(h)'
      BY <1>7, <1>8 DEF Current, Cleared, Refreshed
    <2>2. SftpOwned(h)'
      BY <1>1, <1>2, <1>3, <1>4, <1>5, <1>7, <1>8 DEF HostInv, SftpOwned, Cleared
    <2>3. AttemptsOwn(h)'
      <3>1. \A d \in Calls : Attempts(d, h)' /\ d # c =>
                Attempts(d, h) /\ call'[d] = call[d] /\ call[d].gen <= slot[h].generation
                /\ call[d].gen = call[d].conn /\ call[d].gen \in Nat
        BY <1>1, <1>9
           DEF Attempts, HostInv, AttemptsOwn, SessionInv, SessionTypeOK, CallStates, Numbers
      <3>2. \A d \in Calls : Attempts(d, h)' /\ d # c => call'[d].gen < g
        BY <3>1, <1>1
      <3>3. \A d, e \in Calls : Attempts(d, h) /\ Attempts(e, h) /\ call[d].gen = call[e].gen
                                => d = e
        BY <1>1 DEF HostInv, AttemptsOwn
      <3> HIDE DEF g
      <3> QED BY <1>6, <1>7, <1>8, <1>9, <3>1, <3>2, <3>3 DEF AttemptsOwn
    <2>4. ClosersHold(h)'
      BY <1>2, <1>3, <1>4, <1>5, <1>6, <1>9, FreeGateNobodyCloses
         DEF ClosersHold, GatePc, ClosingPc
    <2> QED BY <2>1, <2>2, <2>3, <2>4, <1>11 DEF HostInv
  <1> QED BY <1>13, <1>14, <1>15, <1>16, HostStepKeeps

\* The session of host h stays as it is, but for the error on its view.
SameSession(h) ==
    /\ slot'[h].state = slot[h].state
    /\ slot'[h].generation = slot[h].generation
    /\ slot'[h].token = slot[h].token
    /\ slot'[h].connection = slot[h].connection
    /\ slot'[h].transport = slot[h].transport
    /\ slot'[h].refreshing = slot[h].refreshing

\* One call moves on and the session of its host stays as it is: every step
\* that refuses, reads, waits, plans or executes, whatever it does to the gates.
LEMMA CallStepKeeps ==
    ASSUME SessionInv, NEW c \in Calls, NEW h \in Hosts, NEW x \in CallStates,
           Goto(c, x), x.pc # "idle" => x.host \in Hosts,
           MayStart(c) \/ call[c].pc # "idle", shutdown' = shutdown,
           call[c].host \in {h, NoHost}, x.host \in {h, NoHost},
           saved' \subseteq Hosts,
           slot' \in [Hosts -> Slots], \A k \in Hosts \ {h} : slot'[k] = slot[k],
           SameSession(h), cancelled' = cancelled, closed' = closed,
           startup' \in [Hosts -> Calls \cup {Free}],
           sftp' \in [Hosts -> Numbers], \A k \in Hosts \ {h} : sftp'[k] = sftp[k],
           sftp'[h] \in {sftp[h], slot[h].connection, 0},
           gate' \in [Hosts -> Calls \cup {Free}], \A k \in Hosts \ {h} : gate'[k] = gate[k],
           gate'[h] = gate[h] \/ gate[h] \in {c, Free},
           x.pc \in GatePc => gate'[h] = c /\ x.pc \notin ClosingPc,
           x.pc # "establishing",
           call[c].pc = "refreshing" => Overtaken(c),
           x.pc \in {"reconnect", "session_close"} =>
               Room(h) \/ (call[c].host = h /\ call[c].pc \in {"closing_reconnect", "reconnect"})
    PROVE  SessionInv'
  <1>1. HostInv(h)
    BY DEF SessionInv
  <1>2. /\ call' \in [Calls -> CallStates]
        /\ \A d \in Calls : call'[d].pc # "idle" => call'[d].host \in Hosts
        /\ call'[c] = x
        /\ \A d \in Calls \ {c} : call'[d] = call[d]
    BY CallStepTyped DEF SessionInv
  <1>3. SessionTypeOK'
    BY <1>2 DEF SessionInv, SessionTypeOK
  <1>4. Quiet'
    BY CallsAreLate
  <1>5. Elsewhere(h, {c})
    BY <1>2 DEF Elsewhere
  <1>6. Current(h)' /\ Cleared(h)' /\ SftpOwned(h)'
    BY <1>1 DEF HostInv, Current, Cleared, SftpOwned, SameSession
  <1>7. Refreshed(h)'
    <2> SUFFICES ASSUME slot'[h].refreshing PROVE Refreshed(h)'
      BY DEF Refreshed
    <2>1. PICK d \in Calls : call[d].pc = "refreshing" /\ call[d].host = h /\ ~Overtaken(d)
      BY <1>1 DEF HostInv, Refreshed, SameSession
    <2>2. d # c /\ call'[d] = call[d]
      BY <1>2, <2>1
    <2>3. ~Overtaken(d)'
      BY <2>1, <2>2 DEF Overtaken, SameSession
    <2> QED BY <1>1, <2>1, <2>2, <2>3 DEF HostInv, Refreshed, SameSession
  <1>8. AttemptsOwn(h)'
    <2>1. \A d \in Calls : Attempts(d, h)' => Attempts(d, h) /\ call'[d] = call[d]
      BY <1>2 DEF Attempts
    <2> QED BY <1>1, <2>1 DEF HostInv, AttemptsOwn, SameSession
  <1>9. ClosersHold(h)'
    <2> SUFFICES ASSUME NEW d \in Calls, call'[d].pc \in GatePc, call'[d].host = h
                 PROVE  /\ gate'[h] = d
                        /\ call'[d].pc \in ClosingPc =>
                              /\ slot'[h].state \notin {"Connecting", "Connected"}
                              /\ call'[d].conn = slot'[h].connection
      BY DEF ClosersHold
    <2>1. CASE d = c
      BY <2>1, <1>2
    <2>2. CASE d # c
      <3>1. call'[d] = call[d] /\ gate[h] = d
        BY <2>2, <1>1, <1>2 DEF HostInv, ClosersHold
      <3>2. gate'[h] = gate[h]
        BY <3>1, <2>2, SessionAssumption
      <3> QED BY <3>1, <3>2, <1>1 DEF HostInv, ClosersHold, SameSession
    <2> QED BY <2>1, <2>2
  <1>10. RoomLeft(h)'
    <2>1. CASE Room(h)
      BY <2>1, <1>2, RoomAskedFor, ZenonT(60) DEF SameSession
    <2>2. CASE ~Room(h)
      <3>1. Bumping(h)' \subseteq Bumping(h)
        BY <2>2, <1>2 DEF Bumping, GatePc, ClosingPc
      <3> QED BY <3>1, RoomKept DEF SameSession
    <2> QED BY <2>1, <2>2
  <1>11. HostInv(h)'
    BY <1>6, <1>7, <1>8, <1>9, <1>10 DEF HostInv
  <1> QED BY <1>3, <1>4, <1>5, <1>11, HostStepKeeps

\* The slot of a host whose session is not in use is reset under the free gate.
LEMMA ResetKeeps ==
    ASSUME SessionInv, NEW h \in Hosts, NEW s \in Slots, slot' = [slot EXCEPT ![h] = s],
           ~InUse(h), gate[h] = Free,
           s.state = "Disconnected", s.connection = 0,
           s.refreshing = FALSE \/ s.refreshing = slot[h].refreshing,
           \/ s.generation = slot[h].generation
           \/ Room(h) /\ s.generation = slot[h].generation + 1,
           cancelled' = cancelled \/ Cancel(h),
           UNCHANGED <<saved, closed, gate, startup, sftp, call, shutdown>>
    PROVE  SessionInv'
  <1>1. HostInv(h) /\ slot[h].token \in Numbers /\ slot[h].generation \in Nat
    BY HostInHand
  <1>2. slot'[h] = s /\ \A k \in Hosts \ {h} : slot'[k] = slot[k]
    BY DEF SessionInv, SessionTypeOK
  <1>3. /\ cancelled' \in [Hosts -> SUBSET Numbers]
        /\ \A k \in Hosts \ {h} : cancelled'[k] = cancelled[k]
    BY <1>1 DEF Cancel, SessionInv, SessionTypeOK
  <1>4. slot[h].state \notin {"Connected", "Disconnecting", "Connecting"}
    BY DEF InUse
  <1>5. SessionTypeOK' /\ Quiet'
    BY <1>3 DEF SessionInv, SessionTypeOK, Quiet
  <1>6. Elsewhere(h, {})
    BY <1>2, <1>3 DEF Elsewhere
  <1>7. Current(h)' /\ Cleared(h)' /\ SftpOwned(h)'
    BY <1>1, <1>2, <1>4 DEF HostInv, Current, Cleared, SftpOwned
  <1>8. Refreshed(h)'
    BY <1>1, <1>2, <1>4 DEF HostInv, Refreshed
  <1>9. AttemptsOwn(h)'
    <2>1. \A d \in Calls : Attempts(d, h)' <=> Attempts(d, h)
      BY DEF Attempts
    <2>2. \A d \in Calls : Attempts(d, h) =>
              call[d].gen \in Nat /\ call[d].gen < slot[h].generation
      <3>1. \A d \in Calls : call[d].gen \in Nat
        BY DEF SessionInv, SessionTypeOK, CallStates, Numbers
      <3>2. \A d \in Calls : Attempts(d, h) =>
               call[d].gen <= slot[h].generation /\ call[d].gen # slot[h].generation
        BY <1>1, <1>4 DEF HostInv, AttemptsOwn
      <3> QED BY <1>1, <3>1, <3>2
    <2>3. \A d \in Calls : Attempts(d, h) => call[d].gen < s.generation
      BY <1>1, <2>2
    <2>4. s.generation \in Nat
      BY <1>1
    <2> QED BY <1>1, <1>2, <2>1, <2>2, <2>3, <2>4 DEF HostInv, AttemptsOwn
  <1>10. ClosersHold(h)'
    BY FreeGateNobodyCloses DEF ClosersHold
  <1>11. RoomLeft(h)'
    <2>1. CASE Room(h)
      BY <2>1, <1>2, RoomAskedFor
    <2>2. CASE s.generation = slot[h].generation
      BY <2>2, <1>2, RoomKept DEF Bumping
    <2> QED BY <2>1, <2>2
  <1>12. HostInv(h)'
    BY <1>7, <1>8, <1>9, <1>10, <1>11 DEF HostInv
  <1> QED BY <1>5, <1>6, <1>12, HostStepKeeps

\* What the session invariant is about.
sessionFrame == <<saved, slot, cancelled, closed, gate, startup, sftp, call>>

\* It depends on nothing else, except that the teardown asks for quiet.
LEMMA SessionUnchanged ==
    ASSUME SessionInv, UNCHANGED sessionFrame,
           shutdown' \in {"marked", "done"} => shutdown \in {"marked", "done"}
    PROVE  SessionInv'
  <1>1. SessionTypeOK' /\ Quiet'
    BY DEF sessionFrame, SessionInv, SessionTypeOK, Quiet
  <1>2. ASSUME NEW h \in Hosts PROVE HostInv(h)'
    BY DEF sessionFrame, SessionInv, HostInv, Current, Cleared, Refreshed, Overtaken, SftpOwned,
           AttemptsOwn, Attempts, ClosersHold, RoomLeft, Bumping
  <1> QED BY <1>1, <1>2 DEF SessionInv

\* A command that asked for room may raise the generation once.
LEMMA RoomIsRoom ==
    ASSUME SessionInv, NEW h \in Hosts, Room(h)
    PROVE  slot[h].generation + 1 \in Numbers
  <1> DEFINE S == {d \in Calls : call[d].host = h}
  <1>1. Cardinality(S) \in Nat
    BY FiniteCalls
  <1>2. slot[h].generation + Cardinality(S) + 2 <= MaxGen
    BY DEF Room
  <1> HIDE DEF S
  <1> QED BY <1>1, <1>2, HostInHand, SessionAssumption DEF Numbers

\* connect_host that is refused.
LEMMA ConnectRefusedKeeps ==
    ASSUME SessionInv, NEW c \in Calls, NEW h \in Hosts, ConnectRefused(c, h)
    PROVE  SessionInv'
  <1>1. MayStart(c) \/ (call[c].pc = "reconnect" /\ call[c].host = h)
    BY DEF ConnectRefused, ConnectEntry
  <1>2. call[c].host \in {h, NoHost} /\ call[c].pc # "refreshing"
    BY <1>1, IdleIsCall DEF MayStart
  <1>3. Goto(c, Idle) /\ UNCHANGED <<saved, slot, cancelled, closed, gate, startup, sftp, shutdown>>
    BY DEF ConnectRefused, Done
  <1> QED BY <1>1, <1>2, <1>3, IdleIsCall, CallStepKeeps
             DEF SessionInv, SessionTypeOK, SameSession, GatePc, ClosingPc

\* get_session sees a closed transport and queues for the gate.
LEMMA SessionPollKeeps ==
    ASSUME SessionInv, NEW c \in Calls, NEW h \in Hosts, SessionPoll(c, h)
    PROVE  SessionInv'
  <1> DEFINE x == [Idle EXCEPT !.pc = "session_close", !.host = h]
  <1>1. x \in CallStates /\ x.pc = "session_close" /\ x.host = h
    BY IdleIsCall DEF Idle, CallStates, Pcs
  <1>2. MayStart(c) /\ Room(h) /\ call[c].host = NoHost /\ call[c].pc = "idle"
    BY IdleIsCall DEF SessionPoll, MayStart
  <1>3. Goto(c, x) /\ UNCHANGED <<saved, slot, cancelled, closed, gate, startup, sftp, shutdown>>
    BY DEF SessionPoll
  <1> HIDE DEF x
  <1> QED BY <1>1, <1>2, <1>3, CallStepKeeps
             DEF SessionInv, SessionTypeOK, SameSession, GatePc, ClosingPc

\* A call that holds the gate of its host knows its host.
LEMMA HolderInHand ==
    ASSUME SessionInv, NEW c \in Calls, call[c].pc \in GatePc
    PROVE  /\ call[c].host \in Hosts /\ gate[call[c].host] = c
           /\ call[c].pc # "idle" /\ call[c].pc # "refreshing" /\ call[c] \in CallStates
           /\ call[c].conn \in Numbers
           /\ call[c].pc \in ClosingPc =>
                 /\ slot[call[c].host].state \notin {"Connecting", "Connected"}
                 /\ call[c].conn = slot[call[c].host].connection
  <1>1. call[c].pc # "idle" /\ call[c].pc # "refreshing"
    BY DEF GatePc, ClosingPc
  <1>2. call[c].host \in Hosts /\ call[c] \in CallStates /\ call[c].conn \in Numbers
    BY <1>1 DEF SessionInv, SessionTypeOK, CallStates
  <1> QED BY <1>1, <1>2 DEF SessionInv, HostInv, ClosersHold

\* Changing where a call is changes nothing else it carries.
LEMMA MovesOn ==
    ASSUME NEW y \in CallStates, NEW p \in Pcs
    PROVE  LET x == [y EXCEPT !.pc = p]
           IN  /\ x \in CallStates /\ x.pc = p /\ x.host = y.host /\ x.gen = y.gen
               /\ x.conn = y.conn /\ x.op = y.op /\ x.plan = y.plan /\ x.seq = y.seq
  BY DEF CallStates

\* get_session revokes what the closed session has left.
LEMMA SessionRevokeKeeps ==
    ASSUME SessionInv, NEW c \in Calls, SessionRevoke(c)
    PROVE  SessionInv'
  <1> DEFINE x == [call[c] EXCEPT !.pc = "session_sftp"]
             h == call[c].host
  <1>1. call[c].pc \in GatePc /\ call[c].pc = "session_revoke"
    BY DEF SessionRevoke, GatePc
  <1>2. h \in Hosts /\ gate[h] = c /\ call[c] \in CallStates
    BY <1>1, HolderInHand
  <1>3. "session_sftp" \in Pcs
    BY DEF Pcs
  <1>4. x \in CallStates /\ x.pc = "session_sftp" /\ x.host = h
    BY <1>2, <1>3, MovesOn
  <1>5. Goto(c, x) /\ UNCHANGED <<saved, slot, cancelled, closed, gate, startup, sftp, shutdown>>
    BY DEF SessionRevoke
  <1> HIDE DEF x, h
  <1>6. call[c].host \in {h, NoHost}
    BY DEF h
  <1> QED BY <1>1, <1>2, <1>4, <1>5, <1>6, CallStepKeeps
             DEF SessionInv, SessionTypeOK, SameSession, GatePc, ClosingPc

\* get_session closes the SFTP session and gives up the gate.
LEMMA SessionSftpKeeps ==
    ASSUME SessionInv, NEW c \in Calls, SessionSftp(c)
    PROVE  SessionInv'
  <1> DEFINE h == call[c].host
  <1>1. call[c].pc \in GatePc /\ call[c].pc = "session_sftp"
    BY DEF SessionSftp, GatePc
  <1>2. h \in Hosts /\ gate[h] = c /\ call[c] \in CallStates
    BY <1>1, HolderInHand
  <1>3. /\ Goto(c, Idle)
        /\ UNCHANGED <<saved, slot, cancelled, closed, startup, shutdown>>
        /\ gate' = [gate EXCEPT ![h] = Free]
        /\ sftp' = sftp \/ sftp' = [sftp EXCEPT ![h] = IF @ = call[c].conn THEN 0 ELSE @]
    BY DEF SessionSftp, CloseSftp, Done
  <1>4. /\ sftp' \in [Hosts -> Numbers] /\ \A k \in Hosts \ {h} : sftp'[k] = sftp[k]
        /\ sftp'[h] \in {sftp[h], slot[h].connection, 0}
    BY <1>2, <1>3, IdleIsCall DEF SessionInv, SessionTypeOK
  <1>5. /\ gate' \in [Hosts -> Calls \cup {Free}] /\ \A k \in Hosts \ {h} : gate'[k] = gate[k]
    BY <1>2, <1>3 DEF SessionInv, SessionTypeOK
  <1> HIDE DEF h
  <1>6. call[c].host \in {h, NoHost}
    BY DEF h
  <1> QED BY <1>1, <1>2, <1>3, <1>4, <1>5, <1>6, IdleIsCall, CallStepKeeps
             DEF SessionInv, SessionTypeOK, SameSession, GatePc, ClosingPc

\* delete_host commits or is refused by the repository.
LEMMA DeleteCommitKeeps ==
    ASSUME SessionInv, NEW c \in Calls, DeleteCommit(c)
    PROVE  SessionInv'
  <1> DEFINE h == call[c].host
  <1>1. call[c].pc \in GatePc /\ call[c].pc = "deleting"
    BY DEF DeleteCommit, GatePc
  <1>2. h \in Hosts /\ gate[h] = c /\ call[c] \in CallStates
    BY <1>1, HolderInHand
  <1>3. /\ Goto(c, Idle)
        /\ UNCHANGED <<slot, cancelled, closed, startup, sftp, shutdown>>
        /\ gate' = [gate EXCEPT ![h] = Free]
        /\ saved' \in {saved, saved \ {h}}
    BY DEF DeleteCommit, Done
  <1>4. /\ gate' \in [Hosts -> Calls \cup {Free}] /\ \A k \in Hosts \ {h} : gate'[k] = gate[k]
        /\ saved' \subseteq Hosts
    BY <1>2, <1>3 DEF SessionInv, SessionTypeOK
  <1> HIDE DEF h
  <1>5. call[c].host \in {h, NoHost}
    BY DEF h
  <1> QED BY <1>1, <1>2, <1>3, <1>4, <1>5, IdleIsCall, CallStepKeeps
             DEF SessionInv, SessionTypeOK, SameSession, GatePc, ClosingPc

\* finish_disconnect fails: the session stays, the gate is given up.
LEMMA DisconnectFailsKeeps ==
    ASSUME SessionInv, NEW c \in Calls, DisconnectFails(c)
    PROVE  SessionInv'
  <1> DEFINE h == call[c].host
  <1>1. call[c].pc \in GatePc /\ call[c].pc \in ClosingPc
    BY DEF DisconnectFails, GatePc
  <1>2. h \in Hosts /\ gate[h] = c /\ call[c].pc # "idle" /\ call[c].pc # "refreshing"
    BY <1>1, HolderInHand
  <1>3. /\ Goto(c, Idle)
        /\ UNCHANGED <<saved, cancelled, closed, startup, sftp, shutdown>>
        /\ gate' = [gate EXCEPT ![h] = Free]
        /\ slot' = [slot EXCEPT ![h].error = "other"]
    BY DEF DisconnectFails, Done
  <1>4. /\ gate' \in [Hosts -> Calls \cup {Free}] /\ \A k \in Hosts \ {h} : gate'[k] = gate[k]
    BY <1>2, <1>3 DEF SessionInv, SessionTypeOK
  <1>5. slot[h] \in Slots
    BY <1>2, HostInHand
  <1>6. /\ slot' \in [Hosts -> Slots] /\ \A k \in Hosts \ {h} : slot'[k] = slot[k]
        /\ slot'[h] = [slot[h] EXCEPT !.error = "other"]
    <2>1. [slot[h] EXCEPT !.error = "other"] \in Slots
      BY <1>5 DEF Slots, SessionErrors
    <2> QED BY <1>2, <1>3, <2>1 DEF SessionInv, SessionTypeOK
  <1>7. SameSession(h)
    BY <1>5, <1>6 DEF SameSession, Slots
  <1> HIDE DEF h
  <1>8. call[c].host \in {h, NoHost}
    BY DEF h
  <1> QED BY <1>1, <1>2, <1>3, <1>4, <1>6, <1>7, <1>8, IdleIsCall, CallStepKeeps
             DEF SessionInv, SessionTypeOK, GatePc, ClosingPc

\* open_sftp begins on the current connection,
LEMMA OpenSftpBeginKeeps ==
    ASSUME SessionInv, NEW c \in Calls, NEW h \in Hosts, OpenSftpBegin(c, h)
    PROVE  SessionInv'
  <1> DEFINE x == [Idle EXCEPT !.pc = "opening_sftp", !.host = h,
                               !.gen = slot[h].generation, !.conn = slot[h].connection]
  <1>1. x \in CallStates /\ x.pc = "opening_sftp" /\ x.host = h
    BY HostInHand, IdleIsCall DEF Idle, CallStates, Pcs
  <1>2. MayStart(c) /\ call[c].host = NoHost /\ call[c].pc = "idle"
    BY IdleIsCall DEF OpenSftpBegin, MayStart
  <1>3. Goto(c, x)
    BY DEF OpenSftpBegin
  <1>4. /\ UNCHANGED <<saved, slot, cancelled, closed, gate, sftp, shutdown>>
        /\ startup' = [startup EXCEPT ![h] = c]
    BY DEF OpenSftpBegin
  <1>5. startup' \in [Hosts -> Calls \cup {Free}]
    BY <1>4 DEF SessionInv, SessionTypeOK
  <1> HIDE DEF x
  <1> QED BY <1>1, <1>2, <1>3, <1>4, <1>5, CallStepKeeps
             DEF SessionInv, SessionTypeOK, SameSession, GatePc, ClosingPc

\* and registers the session only if that connection is still there.
LEMMA OpenSftpFinishKeeps ==
    ASSUME SessionInv, NEW c \in Calls, OpenSftpFinish(c)
    PROVE  SessionInv'
  <1> DEFINE h == call[c].host
  <1>1. call[c].pc = "opening_sftp" /\ call[c].pc # "idle" /\ call[c].pc # "refreshing"
    BY DEF OpenSftpFinish
  <1>2. h \in Hosts
    BY <1>1 DEF SessionInv, SessionTypeOK
  <1>3. /\ Goto(c, Idle)
        /\ UNCHANGED <<saved, slot, cancelled, closed, gate, shutdown>>
        /\ startup' = [startup EXCEPT ![h] = Free]
        /\ sftp' = sftp \/ sftp' = [sftp EXCEPT ![h] = slot[h].connection]
    BY DEF OpenSftpFinish, SftpUnavailable, Done
  <1>4. /\ sftp' \in [Hosts -> Numbers] /\ \A k \in Hosts \ {h} : sftp'[k] = sftp[k]
        /\ sftp'[h] \in {sftp[h], slot[h].connection, 0}
        /\ startup' \in [Hosts -> Calls \cup {Free}]
    BY <1>2, <1>3, HostInHand DEF SessionInv, SessionTypeOK
  <1> HIDE DEF h
  <1>5. call[c].host \in {h, NoHost}
    BY DEF h
  <1> QED BY <1>1, <1>2, <1>3, <1>4, <1>5, IdleIsCall, CallStepKeeps
             DEF SessionInv, SessionTypeOK, SameSession, GatePc, ClosingPc

\* connect_host publishes the outcome of an attempt that has not been overtaken,
\* and nothing else.
LEMMA ConnectFinishKeeps ==
    ASSUME SessionInv, NEW c \in Calls, ConnectFinish(c)
    PROVE  SessionInv'
  <1>1. /\ call[c].pc = "establishing" /\ Goto(c, Idle)
        /\ UNCHANGED <<saved, cancelled, closed, gate, startup, sftp, shutdown>>
    BY DEF ConnectFinish, Done
  <1>2. PICK h \in Hosts, g \in Numbers : h = call[c].host /\ g = call[c].conn
    BY <1>1 DEF SessionInv, SessionTypeOK, CallStates
  <1>3. CASE slot' = slot
    <2> QED BY <1>1, <1>2, <1>3, IdleIsCall, CallStepKeeps
               DEF SessionInv, SessionTypeOK, SameSession, GatePc, ClosingPc
  <1>4. CASE slot' # slot
    <2>1. ~Overtaken(c)
      BY <1>2, <1>4 DEF ConnectFinish
    <2>2. PICK o \in EstablishOutcome :
             slot' = [slot EXCEPT ![h].state = o.state, ![h].error = o.error,
                                  ![h].transport = IF o.state = "Connected" THEN g ELSE 0,
                                  ![h].connection = IF o.state = "Connected" THEN g ELSE @]
      BY <1>2, <1>4 DEF ConnectFinish
    <2>3. /\ o.state \in {"Connected", "AwaitingTrust", "Failed"} /\ o.error \in SessionErrors
      BY DEF EstablishOutcome, SessionErrors
    <2>4. slot[h] \in Slots /\ HostInv(h) /\ slot \in [Hosts -> Slots]
      BY <1>2, HostInHand DEF SessionInv, SessionTypeOK
    <2>5. /\ call[c].gen = slot[h].generation /\ g = slot[h].generation /\ slot[h].token = g
          /\ slot[h].state = "Connecting" /\ g \notin cancelled[h]
      BY <1>1, <1>2, <2>1, <2>4 DEF Overtaken, HostInv, AttemptsOwn, Attempts
    <2>6. ~slot[h].refreshing /\ slot[h].connection = 0
      BY <2>4, <2>5 DEF HostInv, Refreshed, Cleared
    <2>7. /\ slot'[h].state = o.state /\ slot'[h].error = o.error
          /\ slot'[h].transport = IF o.state = "Connected" THEN g ELSE 0
          /\ slot'[h].connection = IF o.state = "Connected" THEN g ELSE slot[h].connection
          /\ slot'[h].generation = slot[h].generation /\ slot'[h].token = slot[h].token
          /\ slot'[h].refreshing = slot[h].refreshing
      BY <1>2, <2>2, <2>4 DEF Slots
    <2>8. slot' \in [Hosts -> Slots] /\ \A k \in Hosts \ {h} : slot'[k] = slot[k]
      BY <1>2, <2>2, <2>3, <2>4, IdleIsCall DEF Slots, SessionStates
    <2>9. /\ call' \in [Calls -> CallStates]
          /\ \A d \in Calls : call'[d].pc # "idle" => call'[d].host \in Hosts
          /\ call'[c] = Idle
          /\ \A d \in Calls \ {c} : call'[d] = call[d]
      BY <1>1, CallStepTyped, IdleIsCall DEF SessionInv
    <2>10. SessionTypeOK'
      BY <1>1, <2>8, <2>9 DEF SessionInv, SessionTypeOK
    <2>11. Quiet'
      BY <1>1, CallsAreLate
    <2>12. Elsewhere(h, {c})
      BY <1>1, <1>2, <2>8, <2>9, IdleIsCall DEF Elsewhere
    <2>13. Current(h)' /\ Cleared(h)' /\ SftpOwned(h)' /\ Refreshed(h)'
      BY <1>1, <2>4, <2>5, <2>6, <2>7 DEF HostInv, Current, Cleared, SftpOwned, Refreshed
    <2>14. AttemptsOwn(h)'
      <3>1. \A d \in Calls : Attempts(d, h)' => Attempts(d, h) /\ call'[d] = call[d] /\ d # c
        BY <2>9, IdleIsCall DEF Attempts
      <3>2. Attempts(c, h)
        BY <1>1, <1>2 DEF Attempts
      <3>3. \A d \in Calls : Attempts(d, h) /\ d # c => call[d].gen # slot[h].generation
        BY <2>4, <2>5, <3>2 DEF HostInv, AttemptsOwn
      <3> QED BY <2>4, <2>7, <3>1, <3>3 DEF HostInv, AttemptsOwn
    <2>15. ClosersHold(h)'
      <3>1. \A d \in Calls : call'[d].pc \in GatePc /\ call'[d].host = h =>
                call'[d] = call[d] /\ call[d].pc \notin ClosingPc /\ gate[h] = d
        BY <2>4, <2>5, <2>9, IdleIsCall DEF HostInv, ClosersHold, GatePc, ClosingPc
      <3> QED BY <1>1, <3>1 DEF ClosersHold
    <2>16. RoomLeft(h)'
      <3>1. Bumping(h)' \subseteq Bumping(h)
        BY <2>9, IdleIsCall DEF Bumping
      <3> QED BY <1>2, <2>7, <3>1, RoomKept
    <2>17. HostInv(h)'
      BY <2>13, <2>14, <2>15, <2>16 DEF HostInv
    <2> QED BY <1>2, <2>10, <2>11, <2>12, <2>17, HostStepKeeps
  <1> QED BY <1>3, <1>4

\* prepare_disconnect overtakes whatever the host was doing.
LEMMA DisconnectBeginKeeps ==
    ASSUME SessionInv, NEW c \in Calls, NEW h \in Hosts, NEW pc \in ClosingPc,
           DisconnectBegin(c, h, pc)
    PROVE  SessionInv'
  <1> DEFINE x == [Idle EXCEPT !.pc = pc, !.host = h, !.conn = slot[h].connection]
             st == IF slot[h].state \in {"Connecting", "Connected"} THEN "Disconnecting"
                   ELSE slot[h].state
  <1>1. /\ MayStart(c) /\ Room(h) /\ gate[h] = Free /\ Goto(c, x)
        /\ gate' = [gate EXCEPT ![h] = c]
        /\ slot' = [slot EXCEPT ![h].generation = @ + 1, ![h].refreshing = FALSE,
                                ![h].state = IF @ \in {"Connecting", "Connected"}
                                             THEN "Disconnecting" ELSE @]
        /\ cancelled' = cancelled \/ Cancel(h)
        /\ UNCHANGED <<saved, closed, startup, sftp, shutdown>>
    BY DEF DisconnectBegin
  <1>2. slot[h] \in Slots /\ HostInv(h) /\ slot[h].token \in Numbers
        /\ slot[h].connection \in Numbers /\ slot[h].generation \in Nat
        /\ slot[h].state \in SessionStates
    BY HostInHand
  <1>3. x \in CallStates /\ x.pc = pc /\ x.host = h /\ x.conn = slot[h].connection
    BY <1>2, IdleIsCall DEF Idle, CallStates, Pcs, ClosingPc
  <1>4. /\ slot'[h].generation = slot[h].generation + 1 /\ slot'[h].refreshing = FALSE
        /\ slot'[h].state = st /\ slot'[h].connection = slot[h].connection
        /\ \A k \in Hosts \ {h} : slot'[k] = slot[k]
    BY <1>1, <1>2 DEF SessionInv, SessionTypeOK, Slots
  <1>5. /\ call' \in [Calls -> CallStates]
        /\ \A d \in Calls : call'[d].pc # "idle" => call'[d].host \in Hosts
        /\ call'[c] = x
        /\ \A d \in Calls \ {c} : call'[d] = call[d]
    BY <1>1, <1>3, CallStepTyped DEF SessionInv
  <1>6. call[c].host = NoHost /\ call[c].pc = "idle"
    BY <1>1, IdleIsCall DEF MayStart
  <1>7. RoomLeft(h)'
    BY <1>1, <1>4, <1>5, RoomAskedFor
  <1>8. slot[h].generation + 1 \in Numbers
    BY <1>2, <1>4, <1>7, RoomBounds
  <1>9. st \in SessionStates
    BY <1>2 DEF SessionStates
  <1>10. SessionTypeOK'
    <2>1. slot' \in [Hosts -> Slots]
      BY <1>1, <1>2, <1>8, <1>9 DEF SessionInv, SessionTypeOK, Slots
    <2>2. cancelled' \in [Hosts -> SUBSET Numbers] /\ gate' \in [Hosts -> Calls \cup {Free}]
      BY <1>1, <1>2 DEF Cancel, SessionInv, SessionTypeOK
    <2> QED BY <1>1, <1>5, <2>1, <2>2 DEF SessionInv, SessionTypeOK
  <1>11. Quiet'
    BY <1>1, CallsAreLate
  <1>12. Elsewhere(h, {c})
    <2>1. \A k \in Hosts \ {h} : cancelled'[k] = cancelled[k] /\ gate'[k] = gate[k]
      BY <1>1 DEF Cancel, SessionInv, SessionTypeOK
    <2> QED BY <1>1, <1>3, <1>4, <1>5, <1>6, <2>1 DEF Elsewhere
  <1>13. gate'[h] = c
    BY <1>1 DEF SessionInv, SessionTypeOK
  <1>14. st \notin {"Connecting", "Connected"}
    OBVIOUS
  <1>15. Cleared(h)'
    BY <1>2, <1>4 DEF HostInv, Cleared, SessionStates
  <1> HIDE DEF x, st
  <1>16. Current(h)' /\ Refreshed(h)' /\ SftpOwned(h)'
    BY <1>1, <1>2, <1>4, <1>14 DEF HostInv, Current, Refreshed, SftpOwned
  <1>17. AttemptsOwn(h)'
    <2>1. \A d \in Calls : Attempts(d, h)' => Attempts(d, h) /\ call'[d] = call[d]
      BY <1>3, <1>5 DEF Attempts, ClosingPc
    <2>2. \A d \in Calls : call[d].gen \in Nat
      BY DEF SessionInv, SessionTypeOK, CallStates, Numbers
    <2>3. \A d \in Calls : Attempts(d, h) => call[d].gen < slot'[h].generation
      BY <1>2, <1>4, <2>2 DEF HostInv, AttemptsOwn
    <2> QED BY <1>2, <1>4, <2>1, <2>2, <2>3 DEF HostInv, AttemptsOwn
  <1>18. ClosersHold(h)'
    BY <1>1, <1>3, <1>4, <1>5, <1>13, <1>14, FreeGateNobodyCloses DEF ClosersHold
  <1>19. HostInv(h)'
    BY <1>7, <1>15, <1>16, <1>17, <1>18 DEF HostInv
  <1> QED BY <1>10, <1>11, <1>12, <1>19, HostStepKeeps

\* finish_disconnect drops the session, with the gate held until then.
LEMMA DisconnectFinishKeeps ==
    ASSUME SessionInv, NEW c \in Calls, DisconnectFinish(c)
    PROVE  SessionInv'
  <1>1. call[c].pc \in ClosingPc /\ call[c].pc \in GatePc
    BY DEF DisconnectFinish, GatePc
  <1>2. PICK h \in Hosts : h = call[c].host
    BY <1>1, HolderInHand
  <1>3. /\ gate[h] = c /\ call[c] \in CallStates /\ call[c].pc # "idle"
        /\ slot[h].state \notin {"Connecting", "Connected"}
        /\ call[c].conn = slot[h].connection
    BY <1>1, <1>2, HolderInHand
  <1>4. /\ slot' = [slot EXCEPT ![h] = [DisconnectedSlot(@) EXCEPT !.transport = 0]]
        /\ Cancel(h)
        /\ UNCHANGED <<saved, closed, startup, shutdown>>
        /\ IF call[c].conn # 0 THEN CloseSftp(h, call[c].conn) ELSE UNCHANGED sftp
    BY <1>2 DEF DisconnectFinish
  <1>5. PICK x \in CallStates :
           /\ Goto(c, x)
           /\ \/ x.pc = "deleting" /\ x.host = h /\ gate' = gate
              \/ x.pc = "reconnect" /\ x.host = h /\ gate' = [gate EXCEPT ![h] = Free]
                   /\ call[c].pc = "closing_reconnect"
              \/ x.pc = "idle" /\ x.host = NoHost /\ gate' = [gate EXCEPT ![h] = Free]
    <2>1. CASE call[c].pc = "closing_delete"
      <3> DEFINE y == [call[c] EXCEPT !.pc = "deleting"]
      <3>1. Goto(c, y) /\ gate' = gate
        BY <2>1 DEF DisconnectFinish
      <3>2. "deleting" \in Pcs
        BY DEF Pcs
      <3>3. y \in CallStates /\ y.pc = "deleting" /\ y.host = h
        BY <1>2, <1>3, <3>2, MovesOn
      <3> HIDE DEF y
      <3> QED BY <3>1, <3>3
    <2>2. CASE call[c].pc = "closing_reconnect"
      <3> DEFINE y == [Idle EXCEPT !.pc = "reconnect", !.host = h]
      <3>1. Goto(c, y) /\ gate' = [gate EXCEPT ![h] = Free]
        BY <1>2, <2>2 DEF DisconnectFinish
      <3>2. y \in CallStates /\ y.pc = "reconnect" /\ y.host = h
        BY IdleIsCall DEF Idle, CallStates, Pcs
      <3> HIDE DEF y
      <3> QED BY <3>1, <3>2, <2>2
    <2>3. CASE call[c].pc = "closing"
      <3>1. Goto(c, Idle) /\ gate' = [gate EXCEPT ![h] = Free]
        BY <1>2, <2>3 DEF DisconnectFinish, Done
      <3> QED BY <3>1, IdleIsCall
    <2> QED BY <1>1, <2>1, <2>2, <2>3 DEF ClosingPc
  <1>6. /\ slot[h] \in Slots /\ HostInv(h)
        /\ slot[h].token \in Numbers /\ slot[h].refreshing \in BOOLEAN
    BY HostInHand
  <1>7. /\ slot'[h].state = "Disconnected" /\ slot'[h].connection = 0
        /\ slot'[h].generation = slot[h].generation /\ slot'[h].token = slot[h].token
        /\ slot'[h].refreshing = slot[h].refreshing
    BY <1>4, <1>6 DEF DisconnectedSlot, Slots, SessionInv, SessionTypeOK
  <1>8. slot' \in [Hosts -> Slots] /\ \A k \in Hosts \ {h} : slot'[k] = slot[k]
    BY <1>4, <1>6, IdleIsCall
       DEF DisconnectedSlot, Slots, SessionStates, SessionErrors, SessionInv, SessionTypeOK
  <1>9. /\ call' \in [Calls -> CallStates]
        /\ \A d \in Calls : call'[d].pc # "idle" => call'[d].host \in Hosts
        /\ call'[c] = x
        /\ \A d \in Calls \ {c} : call'[d] = call[d]
    BY <1>5, CallStepTyped DEF SessionInv
  <1>10. /\ cancelled' \in [Hosts -> SUBSET Numbers]
         /\ \A k \in Hosts \ {h} : cancelled'[k] = cancelled[k]
    BY <1>4, <1>6 DEF Cancel, SessionInv, SessionTypeOK
  <1>11. /\ gate' \in [Hosts -> Calls \cup {Free}]
         /\ \A k \in Hosts \ {h} : gate'[k] = gate[k]
    BY <1>5 DEF SessionInv, SessionTypeOK
  <1>12. /\ sftp' \in [Hosts -> Numbers]
         /\ \A k \in Hosts \ {h} : sftp'[k] = sftp[k]
         /\ sftp'[h] # 0 => sftp'[h] = sftp[h] /\ (sftp[h] # call[c].conn)
    <2>1. sftp \in [Hosts -> Numbers]
      BY DEF SessionInv, SessionTypeOK
    <2>2. CASE call[c].conn # 0
      BY <1>4, <2>1, <2>2, IdleIsCall DEF CloseSftp
    <2>3. CASE call[c].conn = 0
      BY <1>4, <2>1, <2>3
    <2> QED BY <2>2, <2>3
  <1>13. SessionTypeOK'
    BY <1>4, <1>8, <1>9, <1>10, <1>11, <1>12 DEF SessionInv, SessionTypeOK
  <1>14. Quiet'
    BY <1>3, <1>4, CallsAreLate
  <1>15. Elsewhere(h, {c})
    BY <1>2, <1>4, <1>5, <1>8, <1>9, <1>10, <1>11, <1>12 DEF Elsewhere
  <1>16. Current(h)' /\ Cleared(h)'
    BY <1>7 DEF Current, Cleared
  <1>17. Refreshed(h)'
    BY <1>3, <1>6, <1>7 DEF HostInv, Refreshed
  <1>18. SftpOwned(h)'
    BY <1>3, <1>4, <1>6, <1>7, <1>12 DEF HostInv, SftpOwned
  <1>19. AttemptsOwn(h)'
    <2>1. \A d \in Calls : Attempts(d, h)' => Attempts(d, h) /\ call'[d] = call[d]
      BY <1>5, <1>9 DEF Attempts
    <2>2. \A d \in Calls : Attempts(d, h) => call[d].gen # slot[h].generation
      BY <1>3, <1>6 DEF HostInv, AttemptsOwn
    <2> QED BY <1>6, <1>7, <2>1, <2>2 DEF HostInv, AttemptsOwn
  <1>20. ClosersHold(h)'
    <2>1. \A d \in Calls \ {c} : call[d].host = h => call[d].pc \notin GatePc
      BY <1>3, <1>6 DEF HostInv, ClosersHold
    <2> QED BY <1>3, <1>5, <1>9, <2>1 DEF ClosersHold, GatePc, ClosingPc
  <1>21. RoomLeft(h)'
    <2>1. Bumping(h)' \subseteq Bumping(h)
      BY <1>2, <1>5, <1>9 DEF Bumping
    <2> QED BY <1>7, <2>1, RoomKept
  <1>22. HostInv(h)'
    BY <1>16, <1>17, <1>18, <1>19, <1>20, <1>21 DEF HostInv
  <1> QED BY <1>13, <1>14, <1>15, <1>22, HostStepKeeps

\* get_session fails the session whose transport it finds closed, or finds
\* another session under the gate and leaves it alone.
LEMMA SessionCloseKeeps ==
    ASSUME SessionInv, NEW c \in Calls, SessionClose(c)
    PROVE  SessionInv'
  <1>1. /\ call[c].pc = "session_close" /\ call[c].pc # "idle" /\ call[c].pc # "refreshing"
        /\ UNCHANGED <<saved, closed, startup, sftp, shutdown>>
    BY DEF SessionClose
  <1>2. PICK h \in Hosts : h = call[c].host
    BY <1>1 DEF SessionInv, SessionTypeOK
  <1>3. gate[h] = Free
    BY <1>2 DEF SessionClose
  <1>4. CASE ~RemotelyClosed(h)
    <2>1. Goto(c, Idle) /\ UNCHANGED <<slot, cancelled, gate>>
      BY <1>2, <1>4 DEF SessionClose, Done
    <2> QED BY <1>1, <1>2, <2>1, IdleIsCall, CallStepKeeps
               DEF SessionInv, SessionTypeOK, SameSession, GatePc, ClosingPc
  <1>5. CASE RemotelyClosed(h)
    <2> DEFINE x == [call[c] EXCEPT !.pc = "session_revoke", !.conn = slot[h].connection]
               s == [slot[h] EXCEPT !.state = "Failed", !.error = "other", !.transport = 0,
                                    !.generation = slot[h].generation + 1, !.connection = 0,
                                    !.refreshing = FALSE]
    <2>1. /\ slot' = [slot EXCEPT ![h] = s]
          /\ Cancel(h) /\ gate' = [gate EXCEPT ![h] = c] /\ Goto(c, x)
      BY <1>2, <1>5 DEF SessionClose
    <2>2. /\ slot[h] \in Slots /\ HostInv(h) /\ slot[h].token \in Numbers
          /\ slot[h].connection \in Numbers /\ slot[h].generation \in Nat
      BY HostInHand
    <2>3. x \in CallStates /\ x.pc = "session_revoke" /\ x.host = h
      <3>1. call[c] \in CallStates /\ "session_revoke" \in Pcs
        BY DEF SessionInv, SessionTypeOK, Pcs
      <3> QED BY <1>2, <2>2, <3>1 DEF CallStates
    <2> HIDE DEF x
    <2>4. /\ slot'[h].state = "Failed" /\ slot'[h].connection = 0
          /\ slot'[h].generation = slot[h].generation + 1 /\ slot'[h].refreshing = FALSE
          /\ \A k \in Hosts \ {h} : slot'[k] = slot[k]
      <3>1. /\ s.state = "Failed" /\ s.connection = 0 /\ s.refreshing = FALSE
            /\ s.generation = slot[h].generation + 1
        BY <2>2 DEF Slots
      <3> HIDE DEF s
      <3> QED BY <2>1, <3>1 DEF SessionInv, SessionTypeOK
    <2>5. slot[h].state = "Connected" /\ slot[h].transport \in closed[h]
      BY <1>5 DEF RemotelyClosed
    <2>6. /\ call' \in [Calls -> CallStates]
          /\ \A d \in Calls : call'[d].pc # "idle" => call'[d].host \in Hosts
          /\ call'[c] = x
          /\ \A d \in Calls \ {c} : call'[d] = call[d]
      BY <2>1, <2>3, CallStepTyped DEF SessionInv
    <2>7. RoomLeft(h)'
      <3>1. c \in Bumping(h) /\ Bumping(h)' \subseteq Bumping(h) \ {c}
        BY <1>1, <1>2, <2>3, <2>6 DEF Bumping
      <3> QED BY <2>4, <3>1, RoomReserved
    <2>8. slot[h].generation + 1 \in Numbers
      BY <2>2, <2>4, <2>7, RoomBounds
    <2>9. slot' \in [Hosts -> Slots]
      <3>1. s \in Slots
        BY <2>2, <2>8, IdleIsCall DEF Slots, SessionStates, SessionErrors
      <3> HIDE DEF s
      <3> QED BY <2>1, <3>1 DEF SessionInv, SessionTypeOK
    <2>10. /\ cancelled' \in [Hosts -> SUBSET Numbers] /\ gate' \in [Hosts -> Calls \cup {Free}]
           /\ gate'[h] = c
           /\ \A k \in Hosts \ {h} : cancelled'[k] = cancelled[k] /\ gate'[k] = gate[k]
      BY <2>1, <2>2 DEF Cancel, SessionInv, SessionTypeOK
    <2>11. SessionTypeOK'
      BY <1>1, <2>6, <2>9, <2>10 DEF SessionInv, SessionTypeOK
    <2>12. Quiet'
      BY <1>1, CallsAreLate
    <2>13. Elsewhere(h, {c})
      BY <1>1, <1>2, <2>3, <2>4, <2>6, <2>10 DEF Elsewhere
    <2>14. Current(h)' /\ Cleared(h)' /\ Refreshed(h)'
      BY <2>4 DEF Current, Cleared, Refreshed
    <2>15. SftpOwned(h)'
      BY <1>1, <2>2, <2>4, <2>5 DEF HostInv, SftpOwned, Current
    <2>16. AttemptsOwn(h)'
      <3>1. \A d \in Calls : Attempts(d, h)' => Attempts(d, h) /\ call'[d] = call[d]
        BY <2>3, <2>6 DEF Attempts
      <3>2. \A d \in Calls : call[d].gen \in Nat
        BY DEF SessionInv, SessionTypeOK, CallStates, Numbers
      <3>3. \A d \in Calls : Attempts(d, h) => call[d].gen < slot'[h].generation
        BY <2>2, <2>4, <3>2 DEF HostInv, AttemptsOwn
      <3> QED BY <2>2, <2>4, <3>1, <3>2, <3>3 DEF HostInv, AttemptsOwn
    <2>17. ClosersHold(h)'
      BY <1>3, <2>3, <2>6, <2>10, FreeGateNobodyCloses DEF ClosersHold, ClosingPc
    <2>18. HostInv(h)'
      BY <2>7, <2>14, <2>15, <2>16, <2>17 DEF HostInv
    <2> QED BY <2>11, <2>12, <2>13, <2>18, HostStepKeeps
  <1> QED BY <1>4, <1>5

\* Only the refreshing flag of a connected session changes.
LEMMA RefreshKeeps ==
    ASSUME SessionInv, NEW c \in Calls, NEW h \in Hosts, NEW x \in CallStates, NEW f \in BOOLEAN,
           Goto(c, x), MayStart(c) \/ call[c].pc # "idle",
           call[c].host \in {h, NoHost}, x.host \in {h, NoHost},
           x.pc # "idle" => x.host \in Hosts,
           x.pc \in {"idle", "refreshing"},
           slot' = [slot EXCEPT ![h].refreshing = f],
           f => /\ slot[h].state = "Connected" /\ x.pc = "refreshing" /\ x.host = h
                /\ x.gen = slot[h].generation /\ x.conn = slot[h].token,
           UNCHANGED <<saved, cancelled, closed, gate, startup, sftp, shutdown>>
    PROVE  SessionInv'
  <1>1. slot[h] \in Slots /\ HostInv(h) /\ slot[h].generation \in Nat
    BY HostInHand
  <1>2. /\ slot' \in [Hosts -> Slots] /\ \A k \in Hosts \ {h} : slot'[k] = slot[k]
    BY <1>1 DEF SessionInv, SessionTypeOK, Slots
  <1>3. /\ slot'[h].state = slot[h].state /\ slot'[h].generation = slot[h].generation
        /\ slot'[h].token = slot[h].token /\ slot'[h].transport = slot[h].transport
        /\ slot'[h].connection = slot[h].connection /\ slot'[h].refreshing = f
    BY <1>1 DEF SessionInv, SessionTypeOK, Slots
  <1>4. /\ call' \in [Calls -> CallStates]
        /\ \A d \in Calls : call'[d].pc # "idle" => call'[d].host \in Hosts
        /\ call'[c] = x
        /\ \A d \in Calls \ {c} : call'[d] = call[d]
    BY CallStepTyped DEF SessionInv
  <1>5. SessionTypeOK'
    BY <1>2, <1>4 DEF SessionInv, SessionTypeOK
  <1>6. Quiet'
    BY CallsAreLate
  <1>7. Elsewhere(h, {c})
    BY <1>2, <1>4 DEF Elsewhere
  <1>8. Current(h)' /\ Cleared(h)' /\ SftpOwned(h)'
    BY <1>1, <1>3 DEF HostInv, Current, Cleared, SftpOwned
  <1>9. Refreshed(h)'
    <2>1. CASE f
      <3>1. ~Overtaken(c)'
        BY <2>1, <1>1, <1>3, <1>4 DEF Overtaken, HostInv, Current
      <3> QED BY <2>1, <3>1, <1>3, <1>4 DEF Refreshed
    <2>2. CASE ~f
      BY <2>2, <1>3 DEF Refreshed
    <2> QED BY <2>1, <2>2
  <1>10. AttemptsOwn(h)'
    <2>1. \A d \in Calls : Attempts(d, h)' => Attempts(d, h) /\ call'[d] = call[d]
      BY <1>4 DEF Attempts
    <2> QED BY <1>1, <1>3, <2>1 DEF HostInv, AttemptsOwn
  <1>11. ClosersHold(h)'
    <2>1. \A d \in Calls : call'[d].pc \in GatePc => call'[d] = call[d]
      BY <1>4 DEF GatePc, ClosingPc
    <2> QED BY <1>1, <1>3, <2>1 DEF HostInv, ClosersHold
  <1>12. RoomLeft(h)'
    <2>1. Bumping(h)' \subseteq Bumping(h)
      BY <1>4 DEF Bumping
    <2> QED BY <1>3, <2>1, RoomKept
  <1>13. HostInv(h)'
    BY <1>8, <1>9, <1>10, <1>11, <1>12 DEF HostInv
  <1> QED BY <1>5, <1>6, <1>7, <1>13, HostStepKeeps

\* refresh_host marks the slot as its own,
LEMMA RefreshBeginKeeps ==
    ASSUME SessionInv, NEW c \in Calls, NEW h \in Hosts, RefreshBegin(c, h)
    PROVE  SessionInv'
  <1> DEFINE x == [Idle EXCEPT !.pc = "refreshing", !.host = h,
                               !.gen = slot[h].generation, !.conn = slot[h].token]
  <1>1. Goto(c, x)
    BY DEF RefreshBegin
  <1>2. /\ MayStart(c) /\ slot[h].state = "Connected"
        /\ slot' = [slot EXCEPT ![h].refreshing = TRUE]
        /\ UNCHANGED <<saved, cancelled, closed, gate, startup, sftp, shutdown>>
    BY DEF RefreshBegin
  <1>3. /\ x \in CallStates /\ x.pc = "refreshing" /\ x.host = h
        /\ x.gen = slot[h].generation /\ x.conn = slot[h].token
    BY HostInHand, IdleIsCall DEF Idle, CallStates, Pcs
  <1>4. call[c].host = NoHost
    BY <1>2, IdleIsCall DEF MayStart
  <1> HIDE DEF x
  <1> QED BY <1>1, <1>2, <1>3, <1>4, RefreshKeeps

\* and clears the mark unless it has been overtaken.
LEMMA RefreshFinishKeeps ==
    ASSUME SessionInv, NEW c \in Calls, RefreshFinish(c)
    PROVE  SessionInv'
  <1>1. /\ call[c].pc = "refreshing" /\ call[c].pc # "idle" /\ Goto(c, Idle)
        /\ slot' = IF Overtaken(c) THEN slot
                   ELSE [slot EXCEPT ![call[c].host].refreshing = FALSE]
        /\ UNCHANGED <<saved, cancelled, closed, gate, startup, sftp, shutdown>>
    BY DEF RefreshFinish, Done
  <1>2. PICK h \in Hosts : h = call[c].host
    BY <1>1 DEF SessionInv, SessionTypeOK
  <1>3. CASE Overtaken(c)
    BY <1>1, <1>2, <1>3, IdleIsCall, CallStepKeeps
       DEF SessionInv, SessionTypeOK, SameSession, GatePc, ClosingPc
  <1>4. CASE ~Overtaken(c)
    BY <1>1, <1>2, <1>4, IdleIsCall, RefreshKeeps
  <1> QED BY <1>3, <1>4

\* save_host of an existing host resets a session that is not in use.
LEMMA SaveHostKeeps ==
    ASSUME SessionInv, NEW h \in Hosts, SaveHost(h)
    PROVE  SessionInv'
  <1> DEFINE s == [DisconnectedSlot(slot[h]) EXCEPT !.generation = slot[h].generation + 1]
  <1>1. /\ slot' = [slot EXCEPT ![h] = s] /\ Room(h) /\ gate[h] = Free /\ ~InUse(h) /\ Cancel(h)
        /\ UNCHANGED <<saved, closed, gate, startup, sftp, call, shutdown>>
    BY DEF SaveHost
  <1>2. slot[h] \in Slots /\ slot[h].generation \in Nat
    BY HostInHand
  <1>3. /\ s.state = "Disconnected" /\ s.connection = 0 /\ s.refreshing = slot[h].refreshing
        /\ s.generation = slot[h].generation + 1
    BY <1>2 DEF DisconnectedSlot, Slots
  <1>4. s.generation \in Numbers
    BY <1>1, <1>2, <1>3, RoomIsRoom
  <1>5. s \in Slots
    BY <1>2, <1>3, <1>4, IdleIsCall DEF DisconnectedSlot, Slots, SessionStates, SessionErrors
  <1> HIDE DEF s
  <1> QED BY <1>1, <1>3, <1>5, ResetKeeps

\* trust_host_key takes the challenge off the view.
LEMMA TrustHostKeyKeeps ==
    ASSUME SessionInv, NEW h \in Hosts, TrustHostKey(h)
    PROVE  SessionInv'
  <1> DEFINE s == [slot[h] EXCEPT !.state = "Disconnected", !.error = "none"]
  <1>1. /\ slot' = [slot EXCEPT ![h].state = "Disconnected", ![h].error = "none"]
        /\ gate[h] = Free /\ slot[h].state = "AwaitingTrust"
        /\ UNCHANGED <<saved, cancelled, closed, gate, startup, sftp, call, shutdown>>
    BY DEF TrustHostKey
  <1>2. slot[h] \in Slots /\ HostInv(h)
    BY HostInHand
  <1>3. /\ s.state = "Disconnected" /\ s.connection = slot[h].connection
        /\ s.refreshing = slot[h].refreshing /\ s.generation = slot[h].generation /\ s \in Slots
    BY <1>2 DEF Slots, SessionStates, SessionErrors
  <1>4. slot' = [slot EXCEPT ![h] = s]
    BY <1>1, <1>2 DEF SessionInv, SessionTypeOK, Slots
  <1>5. s.connection = 0 /\ ~InUse(h)
    BY <1>1, <1>2, <1>3 DEF HostInv, Cleared, InUse
  <1> HIDE DEF s
  <1> QED BY <1>1, <1>3, <1>4, <1>5, ResetKeeps

\* execute_host_key_rotation resets a session that failed on its host key.
LEMMA ExecuteRotationKeeps ==
    ASSUME SessionInv, NEW h \in Hosts, ExecuteRotation(h)
    PROVE  SessionInv'
  <1>1. /\ Room(h) /\ gate[h] = Free
        /\ UNCHANGED <<saved, closed, gate, startup, sftp, call, shutdown>>
    BY DEF ExecuteRotation
  <1>2. CASE slot' = slot /\ cancelled' = cancelled
    BY <1>1, <1>2, SessionUnchanged DEF sessionFrame
  <1>3. CASE ~(slot' = slot /\ cancelled' = cancelled)
    <2> DEFINE s == [DisconnectedSlot(slot[h]) EXCEPT !.generation = slot[h].generation + 1,
                                                      !.transport = 0, !.refreshing = FALSE]
    <2>1. slot' = [slot EXCEPT ![h] = s] /\ Cancel(h) /\ ChangedKey(h)
      BY <1>3 DEF ExecuteRotation
    <2>2. slot[h] \in Slots /\ slot[h].generation \in Nat
      BY HostInHand
    <2>3. /\ s.state = "Disconnected" /\ s.connection = 0 /\ s.refreshing = FALSE
          /\ s.generation = slot[h].generation + 1
      BY <2>2 DEF DisconnectedSlot, Slots
    <2>4. s.generation \in Numbers
      BY <1>1, <2>2, <2>3, RoomIsRoom
    <2>5. s \in Slots
      BY <2>2, <2>3, <2>4, IdleIsCall DEF DisconnectedSlot, Slots, SessionStates, SessionErrors
    <2>6. ~InUse(h)
      BY <2>1 DEF ChangedKey, InUse
    <2> HIDE DEF s
    <2> QED BY <1>1, <2>1, <2>3, <2>5, <2>6, ResetKeeps
  <1> QED BY <1>2, <1>3

\* The remote host closes a transport.
LEMMA TransportClosesKeeps ==
    ASSUME SessionInv, NEW h \in Hosts, TransportCloses(h)
    PROVE  SessionInv'
  <1>1. /\ closed' = [closed EXCEPT ![h] = @ \cup {slot[h].transport}]
        /\ UNCHANGED <<saved, slot, cancelled, gate, startup, sftp, call, shutdown>>
    BY DEF TransportCloses
  <1>2. slot[h].transport \in Numbers /\ HostInv(h)
    BY HostInHand
  <1>3. SessionTypeOK' /\ Quiet'
    BY <1>1, <1>2 DEF SessionInv, SessionTypeOK, Quiet
  <1>4. Elsewhere(h, {})
    BY <1>1 DEF Elsewhere, SessionInv, SessionTypeOK
  <1>5. SftpOwned(h)'
    BY <1>1, <1>2 DEF HostInv, SftpOwned, SessionInv, SessionTypeOK
  <1>6. HostInv(h)'
    BY <1>1, <1>2, <1>5
       DEF HostInv, Current, Cleared, Refreshed, Overtaken, AttemptsOwn, Attempts, ClosersHold,
           RoomLeft, Bumping
  <1> QED BY <1>3, <1>4, <1>6, HostStepKeeps

\* Shutdown marks every session for closing once the commands are drained,
LEMMA ShutdownMarkKeeps ==
    ASSUME SessionInv, ShutdownMark
    PROVE  SessionInv'
  <1>1. /\ \A c \in Calls : call[c] = Idle
        /\ \A h \in Hosts : slot[h].generation < MaxGen
        /\ UNCHANGED <<saved, closed, gate, startup, sftp, call>>
    BY DEF ShutdownMark
  <1>2. slot' = [h \in Hosts |->
                   [slot[h] EXCEPT !.generation = @ + 1, !.refreshing = FALSE,
                                   !.state = IF @ = "Connected" THEN "Disconnecting" ELSE @]]
    BY DEF ShutdownMark
  <1>3. ASSUME NEW h \in Hosts
        PROVE  /\ slot'[h] \in Slots
               /\ slot'[h].generation = slot[h].generation + 1 /\ slot'[h].refreshing = FALSE
               /\ slot'[h].connection = slot[h].connection
               /\ slot'[h].state = IF slot[h].state = "Connected" THEN "Disconnecting"
                                   ELSE slot[h].state
    <2>1. slot[h] \in Slots /\ slot[h].generation \in Nat /\ slot[h].state \in SessionStates
      BY HostInHand
    <2>2. slot[h].generation + 1 \in Numbers
      BY <1>1, <2>1, SessionAssumption DEF Numbers
    <2>3. (IF slot[h].state = "Connected" THEN "Disconnecting" ELSE slot[h].state) \in SessionStates
      BY <2>1 DEF SessionStates
    <2> QED BY <1>2, <2>1, <2>2, <2>3 DEF Slots
  <1>4. cancelled' \in [Hosts -> SUBSET Numbers]
    <2>1. \A h \in Hosts : slot[h].token \in Numbers
      BY HostInHand
    <2>2. cancelled' = [h \in Hosts |-> IF slot[h].state = "Connecting"
                                        THEN cancelled[h] \cup {slot[h].token} ELSE cancelled[h]]
      BY DEF ShutdownMark
    <2> QED BY <2>1, <2>2 DEF SessionInv, SessionTypeOK
  <1>5. slot' \in [Hosts -> Slots]
    BY <1>2, <1>3
  <1>6. SessionTypeOK' /\ Quiet'
    BY <1>1, <1>4, <1>5 DEF SessionInv, SessionTypeOK, Quiet
  <1>7. ASSUME NEW h \in Hosts PROVE HostInv(h)'
    <2>1. HostInv(h) /\ slot[h].generation \in Nat
      BY HostInHand
    <2>2. Current(h)' /\ Cleared(h)' /\ Refreshed(h)' /\ SftpOwned(h)'
      BY <1>1, <1>3, <2>1 DEF HostInv, Current, Cleared, Refreshed, SftpOwned
    <2>3. AttemptsOwn(h)' /\ ClosersHold(h)'
      BY <1>1, IdleIsCall DEF AttemptsOwn, Attempts, ClosersHold, GatePc, ClosingPc
    <2>4. RoomLeft(h)'
      <3>1. Bumping(h)' = {}
        BY <1>1, IdleIsCall DEF Bumping
      <3>2. Cardinality(Bumping(h)') = 0
        BY <3>1, FS_EmptySet, Zenon
      <3>3. slot'[h].generation <= MaxGen /\ slot'[h].generation \in Nat
        <4>1. slot[h].generation < MaxGen /\ slot'[h].generation = slot[h].generation + 1
          BY <1>1, <1>3
        <4>2. MaxGen \in Nat
          BY SessionAssumption
        <4> QED BY <2>1, <4>1, <4>2
      <3> QED BY <3>2, <3>3 DEF RoomLeft
    <2> QED BY <2>2, <2>3, <2>4 DEF HostInv
  <1> QED BY <1>6, <1>7 DEF SessionInv

\* closes the SFTP sessions one by one, starting over when one does not close,
LEMMA ShutdownSftpKeeps ==
    ASSUME SessionInv, NEW h \in Hosts, ShutdownSftp(h)
    PROVE  SessionInv'
  <1>1. /\ UNCHANGED <<saved, slot, cancelled, closed, gate, startup, call>>
        /\ shutdown' \in {shutdown, "sealed"}
        /\ sftp' = sftp \/ CloseSftp(h, sftp[h])
    BY DEF ShutdownSftp
  <1>2. /\ sftp' \in [Hosts -> Numbers] /\ \A k \in Hosts \ {h} : sftp'[k] = sftp[k]
        /\ sftp'[h] \in {sftp[h], 0}
    BY <1>1, IdleIsCall DEF CloseSftp, SessionInv, SessionTypeOK
  <1>3. SessionTypeOK' /\ Quiet'
    BY <1>1, <1>2 DEF SessionInv, SessionTypeOK, Quiet
  <1>4. Elsewhere(h, {})
    BY <1>1, <1>2 DEF Elsewhere
  <1>5. HostInv(h)
    BY HostInHand
  <1>6. SftpOwned(h)'
    BY <1>1, <1>2, <1>5 DEF HostInv, SftpOwned
  <1>7. HostInv(h)'
    BY <1>1, <1>5, <1>6
       DEF HostInv, Current, Cleared, Refreshed, Overtaken, AttemptsOwn, Attempts, ClosersHold,
           RoomLeft, Bumping
  <1> QED BY <1>3, <1>4, <1>7, HostStepKeeps

\* and drops every session.
LEMMA ShutdownFinishKeeps ==
    ASSUME SessionInv, ShutdownFinish
    PROVE  SessionInv'
  <1>1. /\ \A c \in Calls : call[c] = Idle
        /\ \A h \in Hosts : sftp[h] = 0
        /\ UNCHANGED <<saved, closed, gate, startup, sftp, call>>
    BY DEF ShutdownFinish, SessionInv, Quiet
  <1>2. slot' = [h \in Hosts |->
                   [DisconnectedSlot(slot[h]) EXCEPT !.refreshing = FALSE, !.transport = 0]]
    BY DEF ShutdownFinish
  <1>3. ASSUME NEW h \in Hosts
        PROVE  /\ slot'[h] \in Slots
               /\ slot'[h].generation = slot[h].generation /\ slot'[h].refreshing = FALSE
               /\ slot'[h].connection = 0 /\ slot'[h].state = "Disconnected"
    <2>1. slot[h] \in Slots
      BY HostInHand
    <2> QED BY <1>2, <2>1, IdleIsCall DEF DisconnectedSlot, Slots, SessionStates, SessionErrors
  <1>4. cancelled' \in [Hosts -> SUBSET Numbers]
    <2>1. \A h \in Hosts : slot[h].token \in Numbers
      BY HostInHand
    <2>2. cancelled' = [h \in Hosts |-> cancelled[h] \cup {slot[h].token}]
      BY DEF ShutdownFinish
    <2> QED BY <2>1, <2>2 DEF SessionInv, SessionTypeOK
  <1>5. slot' \in [Hosts -> Slots]
    BY <1>2, <1>3
  <1>6. SessionTypeOK' /\ Quiet'
    BY <1>1, <1>4, <1>5 DEF SessionInv, SessionTypeOK, Quiet
  <1>7. ASSUME NEW h \in Hosts PROVE HostInv(h)'
    <2>1. Current(h)' /\ Cleared(h)' /\ Refreshed(h)' /\ SftpOwned(h)'
      BY <1>1, <1>3 DEF Current, Cleared, Refreshed, SftpOwned
    <2>2. AttemptsOwn(h)' /\ ClosersHold(h)'
      BY <1>1, IdleIsCall DEF AttemptsOwn, Attempts, ClosersHold, GatePc, ClosingPc
    <2>3. RoomLeft(h)'
      <3>1. Bumping(h)' = Bumping(h)
        BY <1>1 DEF Bumping
      <3> QED BY <1>3, <3>1, RoomKept
    <2> QED BY <2>1, <2>2, <2>3 DEF HostInv
  <1> QED BY <1>6, <1>7 DEF SessionInv

\* Every step of the life cycle keeps the invariant.
LEMMA HostStepsKeep ==
    ASSUME SessionInv, HostNext
    PROVE  SessionInv'
  <1>1. ASSUME NEW c \in Calls, SessionStep(c) PROVE SessionInv'
    BY <1>1, ConnectBeginKeeps, ConnectRefusedKeeps, ConnectFinishKeeps, DisconnectFinishKeeps,
       DisconnectFailsKeeps, DeleteCommitKeeps, SessionCloseKeeps, SessionRevokeKeeps,
       SessionSftpKeeps, RefreshFinishKeeps, OpenSftpFinishKeeps
       DEF SessionStep
  <1>2. ASSUME NEW h \in Hosts, PlanRotation(h) PROVE SessionInv'
    <2>1. UNCHANGED sessionFrame /\ shutdown' = shutdown
      BY <1>2 DEF PlanRotation, sessionFrame
    <2> QED BY <2>1, SessionUnchanged
  <1>3. ASSUME SessionCommands PROVE SessionInv'
    BY <1>2, <1>3, ConnectBeginKeeps, ConnectRefusedKeeps, DisconnectBeginKeeps, SessionPollKeeps,
       RefreshBeginKeeps, OpenSftpBeginKeeps, SaveHostKeeps, TrustHostKeyKeeps,
       ExecuteRotationKeeps
       DEF SessionCommands
  <1>4. ASSUME ShutdownSeal PROVE SessionInv'
    <2>1. UNCHANGED sessionFrame /\ shutdown' = "sealed"
      BY <1>4 DEF ShutdownSeal, sessionFrame
    <2> QED BY <2>1, SessionUnchanged
  <1>5. ASSUME SessionStart PROVE SessionInv'
    BY <1>3, <1>4, <1>5, TransportClosesKeeps, ShutdownSftpKeeps, ShutdownMarkKeeps,
       ShutdownFinishKeeps
       DEF SessionStart
  <1> QED BY <1>1, <1>5 DEF HostNext

\* The application starts with no session, no call and nothing open.
LEMMA SessionInitially == SessionInit => SessionInv
  <1> SUFFICES ASSUME SessionInit PROVE SessionInv
    OBVIOUS
  <1> DEFINE s == [state |-> "Disconnected", error |-> "none", generation |-> 0, token |-> 0,
                   transport |-> 0, connection |-> 0, refreshing |-> FALSE]
  <1>1. s \in Slots
    BY IdleIsCall DEF Slots, SessionStates, SessionErrors
  <1>2. /\ \A h \in Hosts : slot[h] = s /\ sftp[h] = 0
        /\ \A c \in Calls : call[c] = Idle
        /\ shutdown = "running"
    BY DEF SessionInit
  <1>3. SessionTypeOK /\ Quiet
    BY <1>1, <1>2, IdleIsCall DEF SessionInit, SessionTypeOK, Quiet
  <1>4. ASSUME NEW h \in Hosts PROVE HostInv(h)
    <2>1. /\ slot[h].state = "Disconnected" /\ slot[h].connection = 0 /\ slot[h].generation = 0
          /\ slot[h].refreshing = FALSE
      BY <1>2
    <2>2. Current(h) /\ Cleared(h) /\ Refreshed(h) /\ SftpOwned(h)
      BY <1>2, <2>1 DEF Current, Cleared, Refreshed, SftpOwned
    <2>3. AttemptsOwn(h) /\ ClosersHold(h)
      BY <1>2, IdleIsCall DEF AttemptsOwn, Attempts, ClosersHold, GatePc, ClosingPc
    <2>4. RoomLeft(h)
      <3>1. Bumping(h) = {}
        BY <1>2, IdleIsCall DEF Bumping
      <3> QED BY <2>1, <3>1, FS_EmptySet, SessionAssumption DEF RoomLeft
    <2> QED BY <2>2, <2>3, <2>4 DEF HostInv
  <1> QED BY <1>3, <1>4 DEF SessionInv

-----------------------------------------------------------------------------
\* A read begins, ends or is answered: the life cycle does not see it.
LEMMA ReadStepsKeep ==
    ASSUME SessionInv, NEW c \in Calls,
           \/ \E h \in Hosts : ReadCommands(c, h)
           \/ SampleFinish(c)
           \/ ReadFinish(c)
    PROVE  SessionInv'
  <1>1. ASSUME NEW h \in Hosts, NEW what \in Listings \cup {"monitor"}, ReadBegin(c, h, what)
        PROVE  SessionInv'
    <2> DEFINE x == [Idle EXCEPT !.pc = what, !.host = h,
                                 !.gen = slot[h].generation, !.conn = slot[h].connection]
    <2>1. Goto(c, x)
      BY <1>1 DEF ReadBegin
    <2>2. MayStart(c) /\ UNCHANGED <<saved, slot, cancelled, closed, gate, startup, sftp, shutdown>>
      BY <1>1 DEF ReadBegin
    <2>3. x \in CallStates /\ x.pc = what /\ x.host = h
      BY HostInHand, IdleIsCall DEF Idle, CallStates, Pcs
    <2>4. /\ what \notin GatePc
          /\ what \notin {"establishing", "refreshing", "reconnect", "session_close"}
      BY ReadAssumption DEF GatePc, ClosingPc
    <2>5. call[c].host = NoHost /\ call[c].pc = "idle"
      BY <2>2, IdleIsCall DEF MayStart
    <2> HIDE DEF x
    <2> QED BY <2>1, <2>2, <2>3, <2>4, <2>5, CallStepKeeps
               DEF SessionInv, SessionTypeOK, SameSession
  <1>2. ASSUME call[c].pc \in Listings \cup {"monitor"}, Done(c),
               UNCHANGED <<saved, slot, cancelled, closed, gate, startup, sftp, shutdown>>
        PROVE  SessionInv'
    <2>1. call[c].pc # "idle" /\ call[c].pc # "refreshing" /\ Goto(c, Idle)
      BY <1>2, ReadAssumption DEF Done
    <2>2. PICK h \in Hosts : h = call[c].host
      BY <2>1 DEF SessionInv, SessionTypeOK
    <2> QED BY <1>2, <2>1, <2>2, IdleIsCall, CallStepKeeps
               DEF SessionInv, SessionTypeOK, SameSession, GatePc, ClosingPc
  <1>3. CASE \E h \in Hosts : ReadCommands(c, h)
    BY <1>1, <1>3 DEF ReadCommands, SampleHostMonitor, ListHost
  <1>4. CASE SampleFinish(c)
    BY <1>2, <1>4 DEF SampleFinish
  <1>5. CASE ReadFinish(c)
    BY <1>2, <1>5 DEF ReadFinish
  <1> QED BY <1>3, <1>4, <1>5

\* Every step of the composition is a step of the life cycle or a read.
LEMMA ObservedStepsKeepSession ==
    ASSUME SessionInv, [ObservedNext]_observedVars
    PROVE  SessionInv'
  <1>1. CASE UNCHANGED observedVars
    <2>1. UNCHANGED sessionFrame /\ shutdown' = shutdown
      BY <1>1 DEF observedVars, hostVars, sessionVars, sessionFrame
    <2> QED BY <2>1, SessionUnchanged
  <1>2. CASE ObservedStart
    <2>1. HostNext \/ \E c \in Calls, h \in Hosts : ReadCommands(c, h)
      BY <1>2
         DEF ObservedStart, ObservedConnect, ObservedDisconnect, ObservedSave, ObservedShutdown,
             HostNext, SessionStart, SessionCommands
    <2> QED BY <2>1, HostStepsKeep, ReadStepsKeep
  <1>3. ASSUME NEW c \in Calls, ObservedStep(c) PROVE SessionInv'
    <2>1. HostNext \/ SampleFinish(c) \/ ReadFinish(c)
      BY <1>3
         DEF ObservedStep, ObservedConnect, ObservedRevoke, ObservedDelete, HostNext, SessionStep
    <2> QED BY <2>1, HostStepsKeep, ReadStepsKeep
  <1> QED BY <1>1, <1>2, <1>3 DEF ObservedNext

-----------------------------------------------------------------------------
\* What baselines, plans, observations and executions are bound to: a connected
\* session that stays,
SessionKept(h) ==
    slot[h].state = "Connected" =>
        /\ slot'[h].state = "Connected"
        /\ slot'[h].connection = slot[h].connection
        /\ slot'[h].generation = slot[h].generation

\* and the calls that hold a gate to clean up or to execute.
HolderPc == ExecutionPc \cup {"session_revoke"}

\* No holder is disturbed.
HoldersKept ==
    \A d \in Calls : call[d].pc \in HolderPc /\ gate[call[d].host] = d =>
        call'[d] = call[d] /\ gate'[call[d].host] = d

\* Another call that takes a free gate or gives up its own disturbs no holder.
LEMMA HoldersStay ==
    ASSUME SessionInv, NEW c \in Calls, NEW h \in Hosts, call[c].pc \notin HolderPc,
           \A d \in Calls \ {c} : call'[d] = call[d],
           \A k \in Hosts \ {h} : gate'[k] = gate[k],
           gate'[h] = gate[h] \/ gate[h] \in {c, Free}
    PROVE  HoldersKept
  <1> SUFFICES ASSUME NEW d \in Calls, call[d].pc \in HolderPc, gate[call[d].host] = d
               PROVE  call'[d] = call[d] /\ gate'[call[d].host] = d
    BY DEF HoldersKept
  <1>1. call[d].host \in Hosts /\ d # c
    BY DEF HolderPc, ExecutionPc, SessionInv, SessionTypeOK
  <1> QED BY <1>1, SessionAssumption

\* No session is disturbed by a step that leaves the slots of others alone and
\* whose own host is not connected.
LEMMA SessionsStay ==
    ASSUME NEW h \in Hosts, \A k \in Hosts \ {h} : slot'[k] = slot[k],
           slot[h].state # "Connected" \/ slot'[h] = slot[h]
    PROVE  \A k \in Hosts : SessionKept(k)
  BY DEF SessionKept

\* The commands that disturb no connected session and no holder of a gate.
LEMMA CommandsDisturbNothing ==
    ASSUME SessionInv, NEW c \in Calls, NEW h \in Hosts,
           \/ ConnectBegin(c, h)
           \/ ConnectRefused(c, h)
           \/ SessionPoll(c, h)
           \/ RefreshBegin(c, h)
           \/ OpenSftpBegin(c, h)
    PROVE  HoldersKept /\ \A k \in Hosts : SessionKept(k)
  <1>1. call[c].pc \notin HolderPc
    BY IdleIsCall
       DEF ConnectBegin, ConnectRefused, ConnectEntry, SessionPoll, RefreshBegin, OpenSftpBegin,
           MayStart, HolderPc, ExecutionPc
  <1>2. gate' = gate /\ \E x : Goto(c, x)
    BY DEF ConnectBegin, ConnectRefused, SessionPoll, RefreshBegin, OpenSftpBegin, Done
  <1>3. \A d \in Calls \ {c} : call'[d] = call[d]
    BY <1>2 DEF Goto, SessionInv, SessionTypeOK
  <1>4. HoldersKept
    BY <1>1, <1>2, <1>3, HoldersStay
  <1>5. CASE ConnectBegin(c, h)
    <2>1. slot[h].state # "Connected" /\ \E s : slot' = [slot EXCEPT ![h] = s]
      BY <1>5 DEF ConnectBegin, InUse
    <2>2. \A k \in Hosts \ {h} : slot'[k] = slot[k]
      BY <2>1 DEF SessionInv, SessionTypeOK
    <2> QED BY <1>4, <2>1, <2>2, SessionsStay
  <1>6. CASE RefreshBegin(c, h)
    <2>1. slot' = [slot EXCEPT ![h].refreshing = TRUE]
      BY <1>6 DEF RefreshBegin
    <2>2. \A k \in Hosts : SessionKept(k)
      BY <2>1, HostInHand DEF SessionKept, SessionInv, SessionTypeOK, Slots
    <2> QED BY <1>4, <2>2
  <1>7. CASE ConnectRefused(c, h) \/ SessionPoll(c, h) \/ OpenSftpBegin(c, h)
    <2>1. slot' = slot
      BY <1>7 DEF ConnectRefused, SessionPoll, OpenSftpBegin
    <2> QED BY <1>4, <2>1 DEF SessionKept
  <1> QED BY <1>5, <1>6, <1>7

\* The same of the commands that are single sections, and of the remote host.
LEMMA SectionsDisturbNothing ==
    ASSUME SessionInv, NEW h \in Hosts,
           \/ SaveHost(h)
           \/ TrustHostKey(h)
           \/ PlanRotation(h)
           \/ ExecuteRotation(h)
           \/ TransportCloses(h)
           \/ ShutdownSftp(h)
           \/ ShutdownSeal
    PROVE  HoldersKept /\ \A k \in Hosts : SessionKept(k)
  <1>1. gate' = gate /\ call' = call
    BY DEF SaveHost, TrustHostKey, PlanRotation, ExecuteRotation, TransportCloses, ShutdownSftp,
           ShutdownSeal
  <1>2. HoldersKept
    BY <1>1 DEF HoldersKept
  <1>3. slot' = slot \/ (slot[h].state # "Connected" /\ \E s : slot' = [slot EXCEPT ![h] = s])
    <2>1. CASE SaveHost(h)
      BY <2>1 DEF SaveHost, InUse
    <2>2. CASE TrustHostKey(h)
      <3>1. slot' = [slot EXCEPT ![h] = [@ EXCEPT !.state = "Disconnected", !.error = "none"]]
        BY <2>2 DEF TrustHostKey, SessionInv, SessionTypeOK
      <3> QED BY <2>2, <3>1 DEF TrustHostKey
    <2>3. CASE ExecuteRotation(h)
      BY <2>3 DEF ExecuteRotation, ChangedKey
    <2>4. CASE PlanRotation(h) \/ TransportCloses(h) \/ ShutdownSftp(h) \/ ShutdownSeal
      BY <2>4 DEF PlanRotation, TransportCloses, ShutdownSftp, ShutdownSeal
    <2> QED BY <2>1, <2>2, <2>3, <2>4
  <1>4. \A k \in Hosts \ {h} : slot'[k] = slot[k]
    BY <1>3 DEF SessionInv, SessionTypeOK
  <1> QED BY <1>2, <1>3, <1>4, SessionsStay

\* The same of the steps of calls that have begun, but for get_session's.
LEMMA StepsDisturbNothing ==
    ASSUME SessionInv, NEW c \in Calls,
           \/ ConnectFinish(c)
           \/ DisconnectFinish(c)
           \/ DisconnectFails(c)
           \/ DeleteCommit(c)
           \/ SessionSftp(c)
           \/ RefreshFinish(c)
           \/ OpenSftpFinish(c)
    PROVE  HoldersKept /\ \A k \in Hosts : SessionKept(k)
  <1>1. call[c].pc \in ClosingPc \cup {"establishing", "deleting", "session_sftp", "refreshing",
                                      "opening_sftp"}
    BY DEF ConnectFinish, DisconnectFinish, DisconnectFails, DeleteCommit, SessionSftp,
           RefreshFinish, OpenSftpFinish
  <1>2. call[c].pc \notin HolderPc /\ call[c].pc # "idle"
    BY <1>1 DEF HolderPc, ExecutionPc, ClosingPc
  <1>3. PICK h \in Hosts : h = call[c].host
    BY <1>2 DEF SessionInv, SessionTypeOK
  <1>4. \E x : Goto(c, x)
    BY DEF ConnectFinish, DisconnectFinish, DisconnectFails, DeleteCommit, SessionSftp,
           RefreshFinish, OpenSftpFinish, Done
  <1>5. \A d \in Calls \ {c} : call'[d] = call[d]
    BY <1>4 DEF Goto, SessionInv, SessionTypeOK
  <1>6. gate' = gate \/ (gate' = [gate EXCEPT ![h] = Free] /\ call[c].pc \in GatePc)
    BY <1>3
       DEF ConnectFinish, DisconnectFinish, DisconnectFails, DeleteCommit, SessionSftp,
           RefreshFinish, OpenSftpFinish, GatePc
  <1>7. /\ \A k \in Hosts \ {h} : gate'[k] = gate[k]
        /\ gate'[h] = gate[h] \/ gate[h] \in {c, Free}
    BY <1>3, <1>6, HolderInHand DEF SessionInv, SessionTypeOK
  <1>8. HoldersKept
    BY <1>2, <1>5, <1>7, HoldersStay
  <1>9. CASE DeleteCommit(c) \/ SessionSftp(c) \/ OpenSftpFinish(c)
    <2>1. slot' = slot
      BY <1>9 DEF DeleteCommit, SessionSftp, OpenSftpFinish
    <2> QED BY <1>8, <2>1 DEF SessionKept
  <1>10. CASE RefreshFinish(c)
    <2>1. slot' = slot \/ slot' = [slot EXCEPT ![h].refreshing = FALSE]
      BY <1>3, <1>10 DEF RefreshFinish
    <2>2. \A k \in Hosts : SessionKept(k)
      BY <2>1, HostInHand DEF SessionKept, SessionInv, SessionTypeOK, Slots
    <2> QED BY <1>8, <2>2
  <1>11. CASE DisconnectFinish(c) \/ DisconnectFails(c)
    <2>1. call[c].pc \in ClosingPc /\ call[c].pc \in GatePc
      BY <1>11 DEF DisconnectFinish, DisconnectFails, GatePc
    <2>2. slot[h].state # "Connected"
      BY <1>3, <2>1, HolderInHand
    <2>3. \A k \in Hosts \ {h} : slot'[k] = slot[k]
      BY <1>3, <1>11 DEF DisconnectFinish, DisconnectFails, SessionInv, SessionTypeOK
    <2> QED BY <1>8, <2>2, <2>3, SessionsStay
  <1>12. CASE ConnectFinish(c)
    <2>1. slot' = slot \/ ~Overtaken(c)
      BY <1>12 DEF ConnectFinish
    <2>2. \A k \in Hosts \ {h} : slot'[k] = slot[k]
      BY <1>3, <1>12 DEF ConnectFinish, SessionInv, SessionTypeOK
    <2>3. slot' # slot => slot[h].state # "Connected"
      BY <1>3, <1>12, <2>1
         DEF ConnectFinish, Overtaken, SessionInv, HostInv, AttemptsOwn, Attempts
    <2> QED BY <1>8, <2>2, <2>3, SessionsStay
  <1> QED BY <1>9, <1>10, <1>11, <1>12

\* A step that leaves the baseline alone must leave its session, or the call
\* that is cleaning up after it, or hand it from one to the other.
LEMMA BaselineKept ==
    ASSUME ObservedInv, UNCHANGED baseline,
           \A h \in Hosts :
               \/ SessionKept(h)
               \/ \E c \in Calls : call'[c].pc = "session_revoke" /\ call'[c].host = h
               \/ shutdown' \in {"sealed", "marked"},
           \A c \in Calls : call[c].pc = "session_revoke" => call'[c] = call[c],
           shutdown \in {"sealed", "marked"} => shutdown' \in {"sealed", "marked"},
           shutdown' = "done" => shutdown = "done"
    PROVE  /\ baseline' \in [Hosts -> Numbers]
           /\ shutdown' = "done" => \A h \in Hosts : baseline'[h] = 0
           /\ BaselineOwned'
  <1>1. baseline' \in [Hosts -> Numbers]
    BY DEF ObservedInv
  <1>2. shutdown' = "done" => \A h \in Hosts : baseline'[h] = 0
    BY DEF ObservedInv
  <1>3. ASSUME NEW h \in Hosts, baseline'[h] # 0
        PROVE  \/ slot'[h].state = "Connected" /\ slot'[h].connection = baseline'[h]
               \/ \E c \in Calls : call'[c].pc = "session_revoke" /\ call'[c].host = h
               \/ shutdown' \in {"sealed", "marked"}
    <2>1. \/ slot[h].state = "Connected" /\ slot[h].connection = baseline[h]
          \/ \E c \in Calls : call[c].pc = "session_revoke" /\ call[c].host = h
          \/ shutdown \in {"sealed", "marked"}
      BY <1>3 DEF ObservedInv, BaselineOwned
    <2>2. CASE slot[h].state = "Connected" /\ slot[h].connection = baseline[h]
      BY <2>2 DEF SessionKept
    <2>3. CASE \E c \in Calls : call[c].pc = "session_revoke" /\ call[c].host = h
      BY <2>3
    <2>4. CASE shutdown \in {"sealed", "marked"}
      BY <2>4
    <2> QED BY <2>1, <2>2, <2>3, <2>4
  <1>4. BaselineOwned'
    BY <1>3 DEF BaselineOwned
  <1> QED BY <1>1, <1>2, <1>4

\* A step that clears the baseline of host h may do with its session as it
\* likes.
LEMMA BaselineCleared ==
    ASSUME ObservedInv, NEW h \in Hosts, ClearMonitor(h),
           \A k \in Hosts \ {h} : slot'[k] = slot[k],
           \A c \in Calls : call[c].pc = "session_revoke" /\ call[c].host # h =>
               call'[c] = call[c],
           shutdown' = shutdown
    PROVE  /\ baseline' \in [Hosts -> Numbers]
           /\ shutdown' = "done" => \A k \in Hosts : baseline'[k] = 0
           /\ BaselineOwned'
  <1>1. /\ baseline' \in [Hosts -> Numbers] /\ baseline'[h] = 0
        /\ \A k \in Hosts \ {h} : baseline'[k] = baseline[k]
    BY IdleIsCall DEF ObservedInv, ClearMonitor
  <1>2. shutdown' = "done" => \A k \in Hosts : baseline'[k] = 0
    BY <1>1 DEF ObservedInv
  <1>3. ASSUME NEW k \in Hosts, baseline'[k] # 0
        PROVE  \/ slot'[k].state = "Connected" /\ slot'[k].connection = baseline'[k]
               \/ \E c \in Calls : call'[c].pc = "session_revoke" /\ call'[c].host = k
               \/ shutdown' \in {"sealed", "marked"}
    <2>1. k # h /\ baseline'[k] = baseline[k]
      BY <1>1, <1>3
    <2>2. \/ slot[k].state = "Connected" /\ slot[k].connection = baseline[k]
          \/ \E c \in Calls : call[c].pc = "session_revoke" /\ call[c].host = k
          \/ shutdown \in {"sealed", "marked"}
      BY <1>3, <2>1 DEF ObservedInv, BaselineOwned
    <2> QED BY <2>1, <2>2
  <1>4. BaselineOwned'
    BY <1>3 DEF BaselineOwned
  <1> QED BY <1>1, <1>2, <1>4

\* A call that is cleaning up after a closed transport holds the gate.
LEMMA RevokersHold ==
    ASSUME SessionInv, NEW c \in Calls, call[c].pc = "session_revoke"
    PROVE  call[c].pc \in HolderPc /\ gate[call[c].host] = c /\ call[c].host \in Hosts
  BY HolderInHand DEF HolderPc, GatePc

\* A step that disturbs nothing and leaves the baseline alone.
LEMMA UndisturbedBaseline ==
    ASSUME ObservedInv, KeepMonitor, HoldersKept, \A k \in Hosts : SessionKept(k),
           shutdown \in {"sealed", "marked"} => shutdown' \in {"sealed", "marked"},
           shutdown' = "done" => shutdown = "done"
    PROVE  /\ baseline' \in [Hosts -> Numbers]
           /\ shutdown' = "done" => \A h \in Hosts : baseline'[h] = 0
           /\ BaselineOwned'
  <1>1. \A c \in Calls : call[c].pc = "session_revoke" => call'[c] = call[c]
    BY RevokersHold DEF HoldersKept, ObservedInv
  <1> QED BY <1>1, BaselineKept DEF KeepMonitor

\* The baseline follows its session through every command,
LEMMA StartsKeepBaseline ==
    ASSUME ObservedInv, ObservedStart
    PROVE  /\ baseline' \in [Hosts -> Numbers]
           /\ shutdown' = "done" => \A h \in Hosts : baseline'[h] = 0
           /\ BaselineOwned'
  <1> DEFINE Goal == /\ baseline' \in [Hosts -> Numbers]
                     /\ shutdown' = "done" => \A h \in Hosts : baseline'[h] = 0
                     /\ BaselineOwned'
  <1>0. SessionInv /\ slot \in [Hosts -> Slots] /\ call \in [Calls -> CallStates]
    BY DEF ObservedInv, SessionInv, SessionTypeOK
  <1>1. ASSUME NEW c \in Calls, NEW h \in Hosts,
               ConnectRefused(c, h) \/ SessionPoll(c, h) \/ RefreshBegin(c, h)
               \/ OpenSftpBegin(c, h), KeepMonitor
        PROVE  Goal
    <2>1. shutdown' = shutdown
      BY <1>1 DEF ConnectRefused, SessionPoll, RefreshBegin, OpenSftpBegin
    <2>2. HoldersKept /\ \A k \in Hosts : SessionKept(k)
      BY <1>0, <1>1, CommandsDisturbNothing
    <2> QED BY <1>1, <2>1, <2>2, UndisturbedBaseline
  <1>2. ASSUME NEW h \in Hosts,
               TrustHostKey(h) \/ PlanRotation(h) \/ ExecuteRotation(h) \/ TransportCloses(h)
               \/ ShutdownSftp(h), KeepMonitor
        PROVE  Goal
    <2>1. shutdown' = shutdown \/ (shutdown = "marked" /\ shutdown' = "sealed")
      BY <1>2 DEF TrustHostKey, PlanRotation, ExecuteRotation, TransportCloses, ShutdownSftp
    <2>2. HoldersKept /\ \A k \in Hosts : SessionKept(k)
      BY <1>0, <1>2, SectionsDisturbNothing
    <2> QED BY <1>2, <2>1, <2>2, UndisturbedBaseline
  <1>3. ASSUME ShutdownSeal \/ ShutdownMark, KeepMonitor
        PROVE  Goal
    <2>1. call' = call /\ shutdown' \in {"sealed", "marked"}
      BY <1>3 DEF ShutdownSeal, ShutdownMark
    <2> QED BY <1>3, <2>1, BaselineKept DEF KeepMonitor
  <1>4. ASSUME ObservedShutdown
        PROVE  Goal
    BY <1>4, IdleIsCall DEF ObservedShutdown, BaselineOwned
  <1>5. ASSUME NEW c \in Calls, NEW h \in Hosts, ObservedConnect(c, h)
        PROVE  Goal
    <2>1. /\ \E s : slot' = [slot EXCEPT ![h] = s]
          /\ \E x : Goto(c, x)
          /\ call[c].pc # "session_revoke"
          /\ shutdown' = shutdown
      BY <1>5, IdleIsCall DEF ObservedConnect, ConnectBegin, ConnectEntry, MayStart
    <2> QED BY <1>0, <1>5, <2>1, BaselineCleared DEF ObservedConnect, Goto
  <1>6. ASSUME NEW c \in Calls, NEW h \in Hosts, NEW pc \in ClosingPc, ObservedDisconnect(c, h, pc)
        PROVE  Goal
    <2>1. /\ \E x : Goto(c, x)
          /\ call[c].pc # "session_revoke"
          /\ shutdown' = shutdown
      BY <1>6, IdleIsCall DEF ObservedDisconnect, DisconnectBegin, MayStart
    <2>2. \A k \in Hosts \ {h} : slot'[k] = slot[k]
      BY <1>0, <1>6 DEF ObservedDisconnect, DisconnectBegin
    <2>3. \A d \in Calls \ {c} : call'[d] = call[d]
      BY <1>0, <2>1 DEF Goto
    <2> QED BY <1>6, <2>1, <2>2, <2>3, BaselineCleared DEF ObservedDisconnect
  <1>7. ASSUME NEW h \in Hosts, ObservedSave(h)
        PROVE  Goal
    <2>1. (\E s : slot' = [slot EXCEPT ![h] = s]) /\ call' = call /\ shutdown' = shutdown
      BY <1>7 DEF ObservedSave, SaveHost
    <2> QED BY <1>0, <1>7, <2>1, BaselineCleared DEF ObservedSave
  <1>8. ASSUME NEW c \in Calls, NEW h \in Hosts, ReadCommands(c, h)
        PROVE  Goal
    <2>1. PICK what : ReadBegin(c, h, what)
      BY <1>8 DEF ReadCommands, SampleHostMonitor, ListHost
    <2>2. /\ KeepMonitor /\ slot' = slot /\ gate' = gate /\ shutdown' = shutdown
          /\ call[c].pc = "idle" /\ \E x : Goto(c, x)
      BY <2>1, IdleIsCall DEF ReadBegin, MayStart
    <2>3. call[c].pc \notin HolderPc /\ \A d \in Calls \ {c} : call'[d] = call[d]
      BY <1>0, <2>2 DEF Goto, HolderPc, ExecutionPc
    <2>4. HoldersKept /\ \A k \in Hosts : SessionKept(k)
      BY <1>0, <2>2, <2>3, HoldersStay DEF SessionKept
    <2> QED BY <2>2, <2>4, UndisturbedBaseline
  <1> HIDE DEF Goal
  <1>9. Goal
    BY <1>1, <1>2, <1>3, <1>4, <1>5, <1>6, <1>7, <1>8 DEF ObservedStart
  <1> QED BY <1>9 DEF Goal

\* and through every step of a call that has begun.
LEMMA StepsKeepBaseline ==
    ASSUME ObservedInv, NEW c \in Calls, ObservedStep(c)
    PROVE  /\ baseline' \in [Hosts -> Numbers]
           /\ shutdown' = "done" => \A h \in Hosts : baseline'[h] = 0
           /\ BaselineOwned'
  <1> DEFINE Goal == /\ baseline' \in [Hosts -> Numbers]
                     /\ shutdown' = "done" => \A h \in Hosts : baseline'[h] = 0
                     /\ BaselineOwned'
  <1>0. SessionInv /\ slot \in [Hosts -> Slots] /\ call \in [Calls -> CallStates]
    BY DEF ObservedInv, SessionInv, SessionTypeOK
  <1>1. ASSUME NEW h \in Hosts, ConnectRefused(c, h), KeepMonitor
        PROVE  Goal
    <2>1. shutdown' = shutdown
      BY <1>1 DEF ConnectRefused
    <2>2. HoldersKept /\ \A k \in Hosts : SessionKept(k)
      BY <1>0, <1>1, CommandsDisturbNothing
    <2> QED BY <1>1, <2>1, <2>2, UndisturbedBaseline
  <1>2. ASSUME NEW h \in Hosts, ObservedConnect(c, h)
        PROVE  Goal
    <2>1. ObservedStart
      BY <1>2 DEF ObservedStart
    <2> QED BY <2>1, StartsKeepBaseline
  <1>3. ASSUME KeepMonitor,
               \/ ConnectFinish(c) \/ DisconnectFinish(c) \/ DisconnectFails(c)
               \/ DeleteCommit(c) \/ SessionSftp(c) \/ RefreshFinish(c) \/ OpenSftpFinish(c)
        PROVE  Goal
    <2>1. shutdown' = shutdown
      BY <1>3
         DEF ConnectFinish, DisconnectFinish, DisconnectFails, DeleteCommit, SessionSftp,
             RefreshFinish, OpenSftpFinish
    <2>2. HoldersKept /\ \A k \in Hosts : SessionKept(k)
      BY <1>0, <1>3, StepsDisturbNothing
    <2> QED BY <1>3, <2>1, <2>2, UndisturbedBaseline
  <1>4. ASSUME SessionClose(c), KeepMonitor
        PROVE  Goal
    <2>1. call[c].pc = "session_close" /\ shutdown' = shutdown /\ \E x : Goto(c, x)
      BY <1>4 DEF SessionClose, Done
    <2>2. PICK h \in Hosts : h = call[c].host
      BY <1>0, <2>1 DEF SessionInv, SessionTypeOK
    <2>3. \A d \in Calls \ {c} : call'[d] = call[d]
      BY <1>0, <2>1 DEF Goto
    <2>4. \A k \in Hosts \ {h} : slot'[k] = slot[k]
      BY <1>0, <1>4, <2>2 DEF SessionClose
    <2>5. slot' = slot \/ (call'[c].pc = "session_revoke" /\ call'[c].host = h)
      BY <1>0, <1>4, <2>2, ZenonT(60) DEF SessionClose, Goto, CallStates
    <2>6. \A k \in Hosts : \/ SessionKept(k)
                           \/ \E d \in Calls : call'[d].pc = "session_revoke" /\ call'[d].host = k
      BY <2>4, <2>5 DEF SessionKept
    <2> QED BY <1>4, <2>1, <2>3, <2>6, BaselineKept DEF KeepMonitor
  <1>5. ASSUME ObservedRevoke(c)
        PROVE  Goal
    <2>1. /\ call[c].pc = "session_revoke" /\ shutdown' = shutdown /\ slot' = slot
          /\ \E x : Goto(c, x)
      BY <1>5 DEF ObservedRevoke, SessionRevoke
    <2>2. PICK h \in Hosts : h = call[c].host
      BY <1>0, <2>1 DEF SessionInv, SessionTypeOK
    <2>3. \A d \in Calls \ {c} : call'[d] = call[d]
      BY <1>0, <2>1 DEF Goto
    <2> QED BY <1>5, <2>1, <2>2, <2>3, BaselineCleared DEF ObservedRevoke
  <1>6. ASSUME ObservedDelete(c)
        PROVE  Goal
    <2>1. CASE KeepMonitor
      BY <1>3, <1>6, <2>1 DEF ObservedDelete
    <2>2. CASE ~KeepMonitor
      <3>1. /\ call[c].pc = "deleting" /\ shutdown' = shutdown /\ slot' = slot
            /\ \E x : Goto(c, x)
        BY <1>6 DEF ObservedDelete, DeleteCommit, Done
      <3>2. PICK h \in Hosts : h = call[c].host
        BY <1>0, <3>1 DEF SessionInv, SessionTypeOK
      <3>3. \A d \in Calls \ {c} : call'[d] = call[d]
        BY <1>0, <3>1 DEF Goto
      <3>4. ClearMonitor(h)
        BY <1>6, <2>2, <3>2 DEF ObservedDelete
      <3> QED BY <3>1, <3>3, <3>4, BaselineCleared
    <2> QED BY <2>1, <2>2
  <1>7. ASSUME SampleFinish(c) \/ ReadFinish(c)
        PROVE  Goal
    <2>1. /\ call[c].pc \in Listings \cup {"monitor"}
          /\ slot' = slot /\ gate' = gate /\ shutdown' = shutdown /\ Goto(c, Idle)
      BY <1>7 DEF SampleFinish, ReadFinish, Done
    <2>2. call[c].pc \notin HolderPc /\ call[c].pc # "idle"
      BY <2>1, ReadAssumption DEF HolderPc, ExecutionPc
    <2>3. \A d \in Calls \ {c} : call'[d] = call[d]
      BY <1>0, <2>1 DEF Goto
    <2>4. PICK h \in Hosts : h = call[c].host
      BY <1>0, <2>2 DEF SessionInv, SessionTypeOK
    <2>5. HoldersKept /\ \A k \in Hosts : SessionKept(k)
      BY <1>0, <2>1, <2>2, <2>3, <2>4, HoldersStay DEF SessionKept
    <2>6. CASE ReadFinish(c)
      BY <2>1, <2>5, <2>6, UndisturbedBaseline DEF ReadFinish
    <2>7. CASE SampleFinish(c)
      <3>1. /\ baseline' = [baseline EXCEPT ![h] = call[c].conn]
            /\ slot[h].state = "Connected" /\ slot[h].connection = call[c].conn
        BY <2>4, <2>7 DEF SampleFinish, SampleIsCurrent
      <3>2. call[c].conn \in Numbers /\ baseline \in [Hosts -> Numbers]
        BY <1>0 DEF CallStates, ObservedInv
      <3>3. /\ baseline' \in [Hosts -> Numbers] /\ baseline'[h] = call[c].conn
            /\ \A k \in Hosts \ {h} : baseline'[k] = baseline[k]
        BY <3>1, <3>2
      <3>4. shutdown' # "done"
        BY <1>0, <2>1, <2>2, IdleIsCall DEF SessionInv, Quiet
      <3>5. \A d \in Calls : call[d].pc = "session_revoke" => call'[d] = call[d]
        BY <2>3, <2>2 DEF HolderPc
      <3>6. BaselineOwned'
        BY <2>1, <3>1, <3>3, <3>5 DEF BaselineOwned, ObservedInv
      <3> QED BY <3>3, <3>4, <3>6
    <2> QED BY <1>7, <2>6, <2>7
  <1> HIDE DEF Goal
  <1>8. Goal
    BY <1>1, <1>2, <1>3, <1>4, <1>5, <1>6, <1>7 DEF ObservedStep
  <1> QED BY <1>8 DEF Goal

\* The invariant of the composition is inductive.
LEMMA ObservedInvHolds == ObservedSpec => []ObservedInv
  <1>1. ObservedInit => ObservedInv
    <2> SUFFICES ASSUME ObservedInit PROVE ObservedInv
      OBVIOUS
    <2> QED BY SessionInitially, IdleIsCall DEF ObservedInit, HostInit, ObservedInv, BaselineOwned
  <1>2. ObservedInv /\ [ObservedNext]_observedVars => ObservedInv'
    <2> SUFFICES ASSUME ObservedInv, [ObservedNext]_observedVars PROVE ObservedInv'
      OBVIOUS
    <2>1. SessionInv'
      BY ObservedStepsKeepSession DEF ObservedInv
    <2>2. CASE ObservedNext
      BY <2>1, <2>2, StartsKeepBaseline, StepsKeepBaseline DEF ObservedNext, ObservedInv
    <2>3. CASE UNCHANGED observedVars
      <3>1. /\ baseline' = baseline /\ slot' = slot /\ call' = call /\ shutdown' = shutdown
        BY <2>3 DEF observedVars, hostVars, sessionVars
      <3> QED BY <2>1, <3>1 DEF ObservedInv, BaselineOwned
    <2> QED BY <2>2, <2>3
  <1> QED BY <1>1, <1>2, PTL DEF ObservedSpec

\* What the view shows as connected is the session that the last attempt has
\* published, for any number of hosts, commands and reconnections: no late
\* result of connect_host gets past a disconnect, an edit or a newer attempt.
THEOREM ConnectedAlwaysCurrent == ObservedSpec => []ConnectedIsCurrent
  <1>1. ObservedInv => ConnectedIsCurrent
    BY DEF ObservedInv, SessionInv, HostInv, Current, ConnectedIsCurrent
  <1> QED BY <1>1, ObservedInvHolds, PTL

\* The refreshing flag never gets stuck: whoever overtakes refresh_host clears it.
THEOREM RefreshingAlwaysOwned == ObservedSpec => []RefreshingIsOwned
  <1>1. ObservedInv => RefreshingIsOwned
    BY DEF ObservedInv, SessionInv, HostInv, Refreshed, RefreshingIsOwned
  <1> QED BY <1>1, ObservedInvHolds, PTL

\* No SFTP session survives the connection it was opened on, unless the remote
\* host has closed that connection's transport.
THEOREM SftpAlwaysBelongs == ObservedSpec => []SftpBelongsToSession
  <1>1. ObservedInv => SftpBelongsToSession
    BY DEF ObservedInv, SessionInv, HostInv, SftpOwned, SftpBelongsToSession
  <1> QED BY <1>1, ObservedInvHolds, PTL

\* No baseline of the monitor survives its session.
THEOREM BaselineAlwaysCurrent == ObservedSpec => []BaselineIsCurrent
  <1>1. ObservedInv => BaselineIsCurrent
    BY DEF ObservedInv, BaselineOwned, BaselineIsCurrent
  <1> QED BY <1>1, ObservedInvHolds, PTL

-----------------------------------------------------------------------------
\* The steps at which a call of the life cycle waits.
SessionPcs ==
    GatePc \cup {"idle", "establishing", "reconnect", "session_close", "refreshing", "opening_sftp"}

\* Only the life cycle's own calls move.
SessionOnly == \A d \in Calls : call'[d] = call[d] \/ call'[d].pc \in SessionPcs

\* A call that goes to one of those steps.
LEMMA SessionGoto ==
    ASSUME SessionInv, NEW c \in Calls, NEW x, Goto(c, x), x.pc \in SessionPcs
    PROVE  SessionOnly
  BY DEF SessionOnly, Goto, SessionInv, SessionTypeOK

\* The life cycle neither plans nor executes.
LEMMA LifeCycleMovesItsOwn ==
    ASSUME SessionInv, HostNext
    PROVE  SessionOnly
  <1>1. CASE UNCHANGED call
    BY <1>1 DEF SessionOnly
  <1>2. ASSUME NEW c \in Calls, Done(c) PROVE SessionOnly
    BY <1>2, SessionGoto, IdleIsCall DEF Done, SessionPcs
  <1>3. ASSUME NEW c \in Calls, NEW h \in Hosts, ConnectBegin(c, h) PROVE SessionOnly
    <2> DEFINE x == [Idle EXCEPT !.pc = "establishing", !.host = h,
                                 !.gen = slot[h].generation + 1, !.conn = slot[h].generation + 1]
    <2>1. Goto(c, x)
      BY <1>3 DEF ConnectBegin
    <2>2. x.pc \in SessionPcs
      BY DEF Idle, SessionPcs
    <2> HIDE DEF x
    <2> QED BY <2>1, <2>2, SessionGoto
  <1>4. ASSUME NEW c \in Calls, NEW h \in Hosts, NEW pc \in ClosingPc, DisconnectBegin(c, h, pc)
        PROVE  SessionOnly
    <2> DEFINE x == [Idle EXCEPT !.pc = pc, !.host = h, !.conn = slot[h].connection]
    <2>1. Goto(c, x)
      BY <1>4 DEF DisconnectBegin
    <2>2. x.pc \in SessionPcs
      BY DEF Idle, SessionPcs, GatePc
    <2> HIDE DEF x
    <2> QED BY <2>1, <2>2, SessionGoto
  <1>5. ASSUME NEW c \in Calls, NEW h \in Hosts, SessionPoll(c, h) PROVE SessionOnly
    <2> DEFINE x == [Idle EXCEPT !.pc = "session_close", !.host = h]
    <2>1. Goto(c, x)
      BY <1>5 DEF SessionPoll
    <2>2. x.pc \in SessionPcs
      BY DEF Idle, SessionPcs
    <2> HIDE DEF x
    <2> QED BY <2>1, <2>2, SessionGoto
  <1>6. ASSUME NEW c \in Calls, NEW h \in Hosts, RefreshBegin(c, h) PROVE SessionOnly
    <2> DEFINE x == [Idle EXCEPT !.pc = "refreshing", !.host = h,
                                 !.gen = slot[h].generation, !.conn = slot[h].token]
    <2>1. Goto(c, x)
      BY <1>6 DEF RefreshBegin
    <2>2. x.pc \in SessionPcs
      BY DEF Idle, SessionPcs
    <2> HIDE DEF x
    <2> QED BY <2>1, <2>2, SessionGoto
  <1>7. ASSUME NEW c \in Calls, NEW h \in Hosts, OpenSftpBegin(c, h) PROVE SessionOnly
    <2> DEFINE x == [Idle EXCEPT !.pc = "opening_sftp", !.host = h,
                                 !.gen = slot[h].generation, !.conn = slot[h].connection]
    <2>1. Goto(c, x)
      BY <1>7 DEF OpenSftpBegin
    <2>2. x.pc \in SessionPcs
      BY DEF Idle, SessionPcs
    <2> HIDE DEF x
    <2> QED BY <2>1, <2>2, SessionGoto
  <1>8. ASSUME NEW c \in Calls, SessionRevoke(c) PROVE SessionOnly
    <2> DEFINE x == [call[c] EXCEPT !.pc = "session_sftp"]
    <2>1. Goto(c, x)
      BY <1>8 DEF SessionRevoke
    <2>2. x.pc \in SessionPcs
      BY DEF SessionPcs, GatePc, SessionInv, SessionTypeOK, CallStates
    <2> HIDE DEF x
    <2> QED BY <2>1, <2>2, SessionGoto
  <1>9. ASSUME NEW c \in Calls, SessionClose(c) PROVE SessionOnly
    <2> DEFINE x == [call[c] EXCEPT !.pc = "session_revoke",
                                    !.conn = slot[call[c].host].connection]
    <2>1. Goto(c, x) \/ Done(c)
      BY <1>9 DEF SessionClose
    <2>2. x.pc \in SessionPcs
      BY DEF SessionPcs, GatePc, SessionInv, SessionTypeOK, CallStates
    <2> HIDE DEF x
    <2> QED BY <1>2, <2>1, <2>2, SessionGoto
  <1>10. ASSUME NEW c \in Calls, DisconnectFinish(c) PROVE SessionOnly
    <2> DEFINE x == [call[c] EXCEPT !.pc = "deleting"]
               y == [Idle EXCEPT !.pc = "reconnect", !.host = call[c].host]
    <2>1. Goto(c, x) \/ Goto(c, y) \/ Done(c)
      BY <1>10 DEF DisconnectFinish
    <2>2. x.pc \in SessionPcs /\ y.pc \in SessionPcs
      BY DEF SessionPcs, GatePc, SessionInv, SessionTypeOK, CallStates, Idle
    <2> HIDE DEF x, y
    <2> QED BY <1>2, <2>1, <2>2, SessionGoto
  <1>11. ASSUME NEW c \in Calls, SessionStep(c) PROVE SessionOnly
    BY <1>2, <1>3, <1>8, <1>9, <1>10, <1>11
       DEF SessionStep, ConnectRefused, ConnectFinish, DisconnectFails, DeleteCommit, SessionSftp,
           RefreshFinish, OpenSftpFinish
  <1>12. ASSUME SessionCommands PROVE SessionOnly
    BY <1>1, <1>2, <1>3, <1>4, <1>5, <1>6, <1>7, <1>12
       DEF SessionCommands, ConnectRefused, SaveHost, TrustHostKey, PlanRotation, ExecuteRotation
  <1>13. ASSUME SessionStart PROVE SessionOnly
    BY <1>1, <1>12, <1>13
       DEF SessionStart, TransportCloses, ShutdownSftp, ShutdownSeal, ShutdownMark, ShutdownFinish
  <1> QED BY <1>11, <1>13 DEF HostNext

\* A binding stays live while its session stays and no holder is disturbed.
LEMMA BindingStaysLive ==
    ASSUME SessionInv, HoldersKept, NEW b \in Binding, LiveBinding(b), SessionKept(b.host)
    PROVE  LiveBinding(b)'
  <1>1. b.host \in Hosts
    BY DEF Binding
  <1>2. CASE slot[b.host].state = "Connected" /\ b = CurrentBinding(b.host)
    <2>1. slot'[b.host].state = "Connected" /\ b = CurrentBinding(b.host)'
      BY <1>1, <1>2 DEF SessionKept, CurrentBinding
    <2> QED BY <2>1 DEF LiveBinding
  <1>3. CASE RevokingFor(b.host, b.session)
    <2>1. PICK c \in Calls : /\ gate[b.host] = c /\ call[c].pc = "session_revoke"
                             /\ call[c].host = b.host /\ call[c].conn = b.session
      BY <1>3 DEF RevokingFor
    <2>2. call'[c] = call[c] /\ gate'[b.host] = c
      BY <2>1 DEF HoldersKept, HolderPc
    <2> QED BY <2>1, <2>2 DEF LiveBinding, RevokingFor
  <1> QED BY <1>2, <1>3 DEF LiveBinding

\* Nothing is added to either store.
PlansShrink == \A p \in Plans : IsPending(p)' => IsPending(p) /\ pending'[p] = pending[p]

\* The same of the observations.
ObservationsShrink == \A h \in Hosts : obs_sets'[h] = NoSet \/ obs_sets'[h] = obs_sets[h]

\* What is still pending or observed has kept its session.
BoundKept ==
    /\ \A p \in Plans : IsPending(p)' => SessionKept(pending[p].binding.host)
    /\ \A h \in Hosts : obs_sets'[h] # NoSet => SessionKept(h)

\* The bindings of the two stores are bindings.
LEMMA BindingsTyped ==
    ASSUME StoreTypeOK, ObsTypeOK
    PROVE  /\ \A p \in Plans : IsPending(p) => pending[p].binding \in Binding
           /\ \A h \in Hosts : obs_sets[h] # NoSet => obs_sets[h].binding \in Binding
  BY DEF StoreTypeOK, ObsTypeOK, StoredAuthority, ObservationSet, IsPending

\* Plans that stay pending on a session that stays are live.
LEMMA PlansStayLive ==
    ASSUME SessionInv, StoreTypeOK, ObsTypeOK, PlansLive, HoldersKept, PlansShrink,
           \A p \in Plans : IsPending(p)' => SessionKept(pending[p].binding.host)
    PROVE  PlansLive'
  <1> SUFFICES ASSUME NEW p \in Plans, IsPending(p)' PROVE LiveBinding(pending[p].binding)'
    BY DEF PlansLive
  <1>1. IsPending(p) /\ pending'[p] = pending[p]
    BY DEF PlansShrink
  <1>2. PICK b \in Binding : b = pending[p].binding
    BY <1>1, BindingsTyped
  <1>3. LiveBinding(b)
    BY <1>1, <1>2 DEF PlansLive
  <1>4. LiveBinding(b)'
    BY <1>2, <1>3, BindingStaysLive
  <1> QED BY <1>1, <1>2, <1>4

\* So are observations.
LEMMA ObservationsStayLive ==
    ASSUME SessionInv, StoreTypeOK, ObsTypeOK, ObservationsLive, HoldersKept, ObservationsShrink,
           \A h \in Hosts : obs_sets'[h] # NoSet => SessionKept(h)
    PROVE  ObservationsLive'
  <1> SUFFICES ASSUME NEW h \in Hosts, obs_sets'[h] # NoSet
               PROVE  obs_sets'[h].binding.host = h /\ LiveBinding(obs_sets[h].binding)'
    BY DEF ObservationsLive
  <1>1. obs_sets[h] # NoSet /\ obs_sets'[h] = obs_sets[h]
    BY DEF ObservationsShrink
  <1>2. PICK b \in Binding : b = obs_sets[h].binding
    BY <1>1, BindingsTyped
  <1>3. b.host = h /\ LiveBinding(b)
    BY <1>1, <1>2 DEF ObservationsLive
  <1>4. LiveBinding(b)'
    BY <1>3, BindingStaysLive
  <1> QED BY <1>1, <1>2, <1>3, <1>4

\* Executions that hold their gate go on undisturbed by the life cycle.
LEMMA ExecutionsGoOn ==
    ASSUME SessionInv, ExecutionsBound, SessionOnly, granted \subseteq granted',
           \A c \in Executing : gate[call[c].host] = c => gate'[call[c].host] = c,
           \A c \in Executing : SessionKept(call[c].host),
           UNCHANGED <<permit, dispatches>>
    PROVE  ExecutionsBound'
  <1> SUFFICES ASSUME NEW c \in Calls, call'[c].pc \in ExecutionPc
               PROVE  /\ permit' = c
                      /\ gate'[call'[c].host] = c
                      /\ slot'[call'[c].host].state = "Connected"
                      /\ BoundTo(c)' = CurrentBinding(call[c].host)'
                      /\ call'[c].plan \in granted'
                      /\ call'[c].pc # "dispatching" => dispatches'[call'[c].plan] = 0
    BY DEF ExecutionsBound, Executing
  <1>1. call'[c] = call[c]
    BY DEF SessionOnly, SessionPcs, GatePc, ClosingPc, ExecutionPc
  <1>2. PICK h \in Hosts : h = call[c].host
    BY <1>1 DEF SessionInv, SessionTypeOK, ExecutionPc
  <1>3. /\ permit = c /\ gate[h] = c /\ slot[h].state = "Connected"
        /\ BoundTo(c) = CurrentBinding(h) /\ call[c].plan \in granted
        /\ call[c].pc # "dispatching" => dispatches[call[c].plan] = 0
    BY <1>1, <1>2 DEF ExecutionsBound, Executing
  <1>4. gate'[h] = c
    BY <1>1, <1>2, <1>3 DEF Executing
  <1>5. SessionKept(h)
    BY <1>1, <1>2 DEF Executing
  <1>6. slot'[h].state = "Connected" /\ CurrentBinding(h)' = CurrentBinding(h)
    BY <1>3, <1>5 DEF SessionKept, CurrentBinding
  <1>7. BoundTo(c)' = BoundTo(c)
    BY <1>1 DEF BoundTo
  <1> QED BY <1>1, <1>2, <1>3, <1>4, <1>6, <1>7

\* A step of the life cycle keeps the service invariant if it keeps the session
\* of everything it leaves behind.
LEMMA LifeCycleKeepsServices ==
    ASSUME ServiceInv, HostNext, UNCHANGED <<serviceLocks, dispatches>>,
           StoreInv', ObsTypeOK', Sealing', HoldersKept, PlansShrink, ObservationsShrink, BoundKept,
           granted' = granted, \A c \in Executing : SessionKept(call[c].host)
    PROVE  ServiceInv'
  <1>1. SessionInv' /\ SessionOnly
    BY HostStepsKeep, LifeCycleMovesItsOwn DEF ServiceInv
  <1>2. PlansLive'
    BY PlansStayLive DEF ServiceInv, StoreInv, BoundKept
  <1>3. ObservationsLive'
    BY ObservationsStayLive DEF ServiceInv, StoreInv, BoundKept
  <1>4. \A c \in Executing : gate[call[c].host] = c => gate'[call[c].host] = c
    BY DEF Executing, HoldersKept, HolderPc
  <1>8. ExecutionsBound'
    BY <1>1, <1>4, ExecutionsGoOn DEF ServiceInv, serviceLocks
  <1>5. DispatchesCounted'
    BY DEF ServiceInv, DispatchesCounted
  <1>6. CallsCarry'
    BY <1>1 DEF ServiceInv, CallsCarry, SessionOnly, SessionPcs, GatePc, ClosingPc
  <1>7. permit' \in Calls \cup {Free}
    BY DEF ServiceInv, serviceLocks
  <1> QED BY <1>1, <1>2, <1>3, <1>5, <1>6, <1>7, <1>8 DEF ServiceInv

\* revoke_host of the two stores leaves nothing of the host.
LEMMA RevokedHostHasNothing ==
    ASSUME ServiceInv, NEW h \in Hosts, RevokeHostAuthority(h), shutdown' = shutdown
    PROVE  /\ StoreNext /\ StoreInv' /\ ObsTypeOK' /\ Sealing' /\ granted' = granted
           /\ PlansShrink /\ ObservationsShrink
           /\ \A p \in Plans : IsPending(p)' => pending[p].binding.host # h
           /\ obs_sets'[h] = NoSet
  <1>1. StoreNext /\ StoreInv'
    BY StoreInvInductive DEF RevokeHostAuthority, StoreNext, ServiceInv
  <1>2. StoreTypeOK /\ IndexConsistent /\ ObsTypeOK /\ Sealing
    BY DEF ServiceInv, StoreInv
  <1>3. /\ pending' = [p \in Plans |-> IF p = by_host[h] THEN NoAuthority ELSE pending[p]]
        /\ UNCHANGED <<sealed, clock, minted, granted>>
    BY DEF RevokeHostAuthority, RevokeHost
  <1>4. PlansShrink /\ \A p \in Plans : IsPending(p)' => p # by_host[h]
    BY <1>2, <1>3 DEF PlansShrink, IsPending, StoreTypeOK
  <1>5. \A p \in Plans : IsPending(p)' => pending[p].binding.host # h
    BY <1>2, <1>4 DEF IndexConsistent, PlansShrink
  <1>6. /\ obs_sets' = [obs_sets EXCEPT ![h] = NoSet] /\ obs_sealed' = obs_sealed
        /\ newest_request' = [newest_request EXCEPT ![h] = @ + 1]
    BY DEF RevokeHostAuthority, ObsRevokeHost, BumpRequest
  <1>7. ObsTypeOK' /\ ObservationsShrink /\ obs_sets'[h] = NoSet
    BY <1>2, <1>6 DEF ObsTypeOK, ObservationsShrink
  <1>8. Sealing'
    BY <1>2, <1>3, <1>6, <1>7 DEF Sealing, ObservationsShrink
  <1> QED BY <1>1, <1>3, <1>4, <1>5, <1>7, <1>8

\* A step that keeps both stores.
LEMMA KeptAuthority ==
    ASSUME ServiceInv, KeepAuthority, shutdown' # "running" => shutdown # "running"
    PROVE  /\ StoreInv' /\ ObsTypeOK' /\ Sealing' /\ granted' = granted
           /\ PlansShrink /\ ObservationsShrink
  <1>1. StoreInv'
    BY StoreInvInductive DEF KeepAuthority, ServiceInv
  <1> QED BY <1>1
             DEF KeepAuthority, storeVars, obsVars, ServiceInv, ObsTypeOK, Sealing, PlansShrink,
                 ObservationsShrink, IsPending

\* The life cycle is one of its steps.
LEMMA LifeCycleSteps ==
    /\ \A c \in Calls : SessionStep(c) => HostNext
    /\ SessionStart => HostNext
  BY DEF HostNext

\* A step that disturbs nothing and keeps the stores keeps the invariant.
LEMMA UndisturbedServices ==
    ASSUME ServiceInv, HostNext, UNCHANGED <<serviceLocks, dispatches>>, KeepAuthority,
           HoldersKept, \A k \in Hosts : SessionKept(k),
           shutdown' # "running" => shutdown # "running"
    PROVE  ServiceInv'
  <1>1. /\ StoreInv' /\ ObsTypeOK' /\ Sealing' /\ granted' = granted
        /\ PlansShrink /\ ObservationsShrink
    BY KeptAuthority
  <1>2. BoundKept
    <2>1. \A p \in Plans : IsPending(p)' => pending[p].binding.host \in Hosts
      BY <1>1, BindingsTyped DEF PlansShrink, ServiceInv, StoreInv, Binding
    <2> QED BY <2>1 DEF BoundKept
  <1>3. \A c \in Executing : SessionKept(call[c].host)
    BY DEF Executing, ExecutionPc, ServiceInv, SessionInv, SessionTypeOK
  <1> QED BY <1>1, <1>2, <1>3, LifeCycleKeepsServices

\* A step that revokes a host may disturb that host.
LEMMA RevokingKeepsServices ==
    ASSUME ServiceInv, HostNext, UNCHANGED <<serviceLocks, dispatches>>,
           NEW h \in Hosts, gate[h] = Free, RevokeHostAuthority(h), HoldersKept,
           \A k \in Hosts \ {h} : SessionKept(k), shutdown' = shutdown
    PROVE  ServiceInv'
  <1>1. /\ StoreInv' /\ ObsTypeOK' /\ Sealing' /\ granted' = granted
        /\ PlansShrink /\ ObservationsShrink
        /\ \A p \in Plans : IsPending(p)' => pending[p].binding.host # h
        /\ obs_sets'[h] = NoSet
    BY RevokedHostHasNothing
  <1>2. BoundKept
    <2>1. \A p \in Plans : IsPending(p)' => pending[p].binding.host \in Hosts
      BY <1>1, BindingsTyped DEF PlansShrink, ServiceInv, StoreInv, Binding
    <2> QED BY <1>1, <2>1 DEF BoundKept
  <1>3. ASSUME NEW c \in Executing PROVE SessionKept(call[c].host)
    <2>1. call[c].host \in Hosts /\ gate[call[c].host] = c /\ c \in Calls
      BY DEF Executing, ExecutionPc, ServiceInv, SessionInv, SessionTypeOK, ExecutionsBound
    <2> QED BY <2>1, SessionAssumption
  <1> QED BY <1>1, <1>2, <1>3, LifeCycleKeepsServices

\* What was live stays live.
LiveStay == \A b \in Binding : LiveBinding(b) => LiveBinding(b)'

\* What stays in the stores stays live.
LEMMA StoresStayLive ==
    ASSUME StoreTypeOK, ObsTypeOK, LiveStay
    PROVE  /\ PlansLive /\ PlansShrink => PlansLive'
           /\ ObservationsLive /\ ObservationsShrink => ObservationsLive'
  <1>1. ASSUME PlansLive, PlansShrink PROVE PlansLive'
    <2> SUFFICES ASSUME NEW p \in Plans, IsPending(p)' PROVE LiveBinding(pending[p].binding)'
      BY DEF PlansLive
    <2>1. IsPending(p) /\ pending'[p] = pending[p]
      BY <1>1 DEF PlansShrink
    <2>2. PICK b \in Binding : b = pending[p].binding
      BY <2>1, BindingsTyped
    <2>3. LiveBinding(b)
      BY <1>1, <2>1, <2>2 DEF PlansLive
    <2>4. LiveBinding(b)'
      BY <2>3 DEF LiveStay
    <2> QED BY <2>1, <2>2, <2>4
  <1>2. ASSUME ObservationsLive, ObservationsShrink PROVE ObservationsLive'
    <2> SUFFICES ASSUME NEW k \in Hosts, obs_sets'[k] # NoSet
                 PROVE  obs_sets'[k].binding.host = k /\ LiveBinding(obs_sets[k].binding)'
      BY DEF ObservationsLive
    <2>1. obs_sets[k] # NoSet /\ obs_sets'[k] = obs_sets[k]
      BY <1>2 DEF ObservationsShrink
    <2>2. PICK b \in Binding : b = obs_sets[k].binding
      BY <2>1, BindingsTyped
    <2>3. b.host = k /\ LiveBinding(b)
      BY <1>2, <2>1, <2>2 DEF ObservationsLive
    <2>4. LiveBinding(b)'
      BY <2>3 DEF LiveStay
    <2> QED BY <2>1, <2>2, <2>3, <2>4
  <1> QED BY <1>1, <1>2

\* get_session fails a session: what was bound to it is now being revoked.
LEMMA SessionCloseKeepsServices ==
    ASSUME ServiceInv, NEW c \in Calls, SessionClose(c), UNCHANGED <<serviceLocks, dispatches>>
    PROVE  ServiceInv'
  <1>1. /\ call[c].pc = "session_close" /\ shutdown' = shutdown /\ KeepAuthority
        /\ \E x : Goto(c, x)
    BY DEF SessionClose, Done
  <1>2. PICK h \in Hosts : h = call[c].host
    BY <1>1 DEF ServiceInv, SessionInv, SessionTypeOK
  <1>3. gate[h] = Free /\ HostNext
    BY <1>2, LifeCycleSteps DEF SessionClose, SessionStep
  <1>4. \A d \in Calls \ {c} : call'[d] = call[d]
    BY <1>1 DEF Goto, ServiceInv, SessionInv, SessionTypeOK
  <1>5. \A k \in Hosts \ {h} : slot'[k] = slot[k] /\ gate'[k] = gate[k]
    BY <1>2 DEF SessionClose, ServiceInv, SessionInv, SessionTypeOK
  <1>6. HoldersKept
    <2>1. call[c].pc \notin HolderPc
      BY <1>1 DEF HolderPc, ExecutionPc
    <2> QED BY <1>3, <1>4, <1>5, <2>1, HoldersStay DEF ServiceInv
  <1>7. CASE slot' = slot
    BY <1>1, <1>3, <1>6, <1>7, UndisturbedServices DEF SessionKept
  <1>8. CASE slot' # slot
    <2>1. /\ call'[c].pc = "session_revoke" /\ call'[c].host = h
          /\ call'[c].conn = slot[h].connection /\ gate'[h] = c
      <3> DEFINE x == [call[c] EXCEPT !.pc = "session_revoke", !.conn = slot[h].connection]
      <3>1. Goto(c, x) /\ gate' = [gate EXCEPT ![h] = c]
        BY <1>2, <1>8 DEF SessionClose
      <3>2. x.pc = "session_revoke" /\ x.host = h /\ x.conn = slot[h].connection
        BY <1>2 DEF CallStates, ServiceInv, SessionInv, SessionTypeOK
      <3> HIDE DEF x
      <3> QED BY <3>1, <3>2 DEF Goto, ServiceInv, SessionInv, SessionTypeOK
    <2>2. /\ StoreInv' /\ ObsTypeOK' /\ Sealing' /\ granted' = granted
          /\ PlansShrink /\ ObservationsShrink
      BY <1>1, KeptAuthority
    <2>3. SessionInv' /\ SessionOnly /\ SessionInv
      BY <1>3, HostStepsKeep, LifeCycleMovesItsOwn DEF ServiceInv
    <2>4. ASSUME NEW b \in Binding, LiveBinding(b) PROVE LiveBinding(b)'
      <3>1. CASE b.host # h
        <4>1. SessionKept(b.host)
          BY <1>5, <3>1 DEF SessionKept, Binding
        <4> QED BY <1>6, <2>3, <2>4, <4>1, BindingStaysLive
      <3>2. CASE b.host = h
        <4>1. b = CurrentBinding(h)
          BY <1>3, <2>4, <3>2, SessionAssumption DEF LiveBinding, RevokingFor
        <4>2. b.session = slot[h].connection
          BY <4>1 DEF CurrentBinding
        <4> QED BY <2>1, <3>2, <4>2 DEF LiveBinding, RevokingFor
      <3> QED BY <3>1, <3>2
    <2>5. LiveStay
      BY <2>4 DEF LiveStay
    <2>6. PlansLive' /\ ObservationsLive'
      BY <2>2, <2>5, StoresStayLive DEF ServiceInv, StoreInv
    <2>7. ASSUME NEW d \in Executing PROVE SessionKept(call[d].host)
      <3>1. call[d].host \in Hosts /\ gate[call[d].host] = d /\ d \in Calls
        BY DEF Executing, ExecutionPc, ServiceInv, SessionInv, SessionTypeOK, ExecutionsBound
      <3>2. call[d].host # h
        BY <1>3, <3>1, SessionAssumption
      <3> QED BY <1>5, <3>1, <3>2 DEF SessionKept
    <2>8. ExecutionsBound'
      <3>1. \A d \in Executing : gate[call[d].host] = d => gate'[call[d].host] = d
        BY <1>6 DEF Executing, HoldersKept, HolderPc
      <3> QED BY <2>2, <2>3, <2>7, <3>1, ExecutionsGoOn DEF ServiceInv, serviceLocks
    <2>9. DispatchesCounted' /\ permit' \in Calls \cup {Free}
      BY <2>2 DEF ServiceInv, DispatchesCounted, serviceLocks
    <2>10. CallsCarry'
      BY <2>3 DEF ServiceInv, CallsCarry, SessionOnly, SessionPcs, GatePc, ClosingPc
    <2> QED BY <2>2, <2>3, <2>6, <2>8, <2>9, <2>10 DEF ServiceInv
  <1> QED BY <1>7, <1>8

\* get_session has revoked the plan and the observations of the session.
LEMMA SessionRevokeKeepsServices ==
    ASSUME ServiceInv, NEW c \in Calls, SessionRevoke(c), UNCHANGED <<serviceLocks, dispatches>>
    PROVE  ServiceInv'
  <1>1. /\ call[c].pc = "session_revoke" /\ UNCHANGED <<slot, gate, shutdown>>
        /\ RevokeSession(call[c].host, call[c].conn)
        /\ ObsRevokeSession(call[c].host, call[c].conn)
        /\ \E x : Goto(c, x)
    BY DEF SessionRevoke
  <1>2. PICK h \in Hosts : h = call[c].host
    BY <1>1 DEF ServiceInv, SessionInv, SessionTypeOK
  <1>3. PICK s \in Sessions : s = call[c].conn
    BY SessionAssumption DEF ServiceInv, SessionInv, SessionTypeOK, CallStates, Numbers
  <1>4. SessionInv' /\ SessionOnly /\ SessionInv
    <2>1. HostNext
      BY LifeCycleSteps DEF SessionStep
    <2> QED BY <2>1, HostStepsKeep, LifeCycleMovesItsOwn DEF ServiceInv
  <1>5. gate[h] = c
    BY <1>1, <1>2, <1>4, HolderInHand DEF GatePc
  <1>6. \A d \in Calls \ {c} : call'[d] = call[d]
    BY <1>1 DEF Goto, ServiceInv, SessionInv, SessionTypeOK
  <1>7. StoreInv' /\ granted' = granted
    <2>1. StoreNext
      BY <1>1, <1>2, <1>3 DEF StoreNext
    <2> QED BY <1>1, <2>1, StoreInvInductive DEF ServiceInv, RevokeSession
  <1>8. StoreTypeOK /\ IndexConsistent /\ ObsTypeOK
    BY DEF ServiceInv, StoreInv
  <1>9. PlansShrink /\ \A p \in Plans : IsPending(p)' =>
                          pending[p].binding.host # h \/ pending[p].binding.session # s
    <2> DEFINE S == {p \in Plans : p = by_host[h] /\ IsPending(p) /\ pending[p].binding.session = s}
    <2>1. RemoveIds(S)
      BY <1>1, <1>2, <1>3 DEF RevokeSession
    <2>2. \A p \in Plans : /\ IsPending(p)' <=> IsPending(p) /\ p \notin S
                           /\ IsPending(p)' => pending'[p] = pending[p]
      BY <1>8, <2>1, RemoveIdsKeepsIndex
    <2> QED BY <1>8, <2>2 DEF PlansShrink, IndexConsistent
  <1>10. /\ obs_sealed' = obs_sealed
         /\ newest_request' = [newest_request EXCEPT ![h] = @ + 1]
         /\ obs_sets' = [obs_sets EXCEPT ![h] =
                           IF @ # NoSet /\ @.binding.session = s THEN NoSet ELSE @]
    BY <1>1, <1>2, <1>3 DEF ObsRevokeSession, BumpRequest
  <1>11. /\ ObsTypeOK' /\ ObservationsShrink
         /\ obs_sets'[h] # NoSet => obs_sets[h].binding.session # s
    BY <1>8, <1>10 DEF ObsTypeOK, ObservationsShrink
  <1>12. Sealing'
    BY <1>1, <1>7, <1>10, <1>11 DEF ServiceInv, Sealing, ObservationsShrink, RevokeSession
  <1>13. ASSUME NEW b \in Binding, LiveBinding(b), b.host # h \/ b.session # s
         PROVE  LiveBinding(b)'
    <2>1. CASE slot[b.host].state = "Connected" /\ b = CurrentBinding(b.host)
      BY <1>1, <2>1 DEF LiveBinding, CurrentBinding
    <2>2. CASE RevokingFor(b.host, b.session)
      <3>1. PICK d \in Calls : /\ gate[b.host] = d /\ call[d].pc = "session_revoke"
                               /\ call[d].host = b.host /\ call[d].conn = b.session
        BY <2>2 DEF RevokingFor
      <3>2. d # c
        BY <1>2, <1>3, <1>13, <3>1
      <3> QED BY <1>1, <1>6, <3>1, <3>2 DEF LiveBinding, RevokingFor
    <2> QED BY <1>13, <2>1, <2>2 DEF LiveBinding
  <1>14. PlansLive'
    <2> SUFFICES ASSUME NEW p \in Plans, IsPending(p)' PROVE LiveBinding(pending[p].binding)'
      BY DEF PlansLive
    <2>1. IsPending(p) /\ pending'[p] = pending[p]
      BY <1>9 DEF PlansShrink
    <2>2. PICK b \in Binding : b = pending[p].binding
      BY <1>8, <2>1, BindingsTyped
    <2>3. LiveBinding(b) /\ (b.host # h \/ b.session # s)
      BY <1>9, <2>1, <2>2 DEF PlansLive, ServiceInv
    <2>4. LiveBinding(b)'
      BY <1>13, <2>3
    <2> QED BY <2>1, <2>2, <2>4
  <1>15. ObservationsLive'
    <2> SUFFICES ASSUME NEW k \in Hosts, obs_sets'[k] # NoSet
                 PROVE  obs_sets'[k].binding.host = k /\ LiveBinding(obs_sets[k].binding)'
      BY DEF ObservationsLive
    <2>1. obs_sets[k] # NoSet /\ obs_sets'[k] = obs_sets[k]
      BY <1>11 DEF ObservationsShrink
    <2>2. PICK b \in Binding : b = obs_sets[k].binding
      BY <1>8, <2>1, BindingsTyped
    <2>3. b.host = k /\ LiveBinding(b) /\ (b.host # h \/ b.session # s)
      BY <1>11, <2>1, <2>2 DEF ObservationsLive, ServiceInv
    <2>4. LiveBinding(b)'
      BY <1>13, <2>3
    <2> QED BY <2>1, <2>2, <2>3, <2>4
  <1>16. ExecutionsBound'
    <2>1. \A d \in Executing : gate[call[d].host] = d => gate'[call[d].host] = d
      BY <1>1
    <2>2. \A d \in Executing : SessionKept(call[d].host)
      BY <1>1 DEF SessionKept
    <2> QED BY <1>4, <1>7, <2>1, <2>2, ExecutionsGoOn DEF ServiceInv, serviceLocks
  <1>17. DispatchesCounted' /\ permit' \in Calls \cup {Free}
    BY <1>7 DEF ServiceInv, DispatchesCounted, serviceLocks
  <1>18. CallsCarry'
    BY <1>4 DEF ServiceInv, CallsCarry, SessionOnly, SessionPcs, GatePc, ClosingPc
  <1> QED BY <1>4, <1>7, <1>11, <1>12, <1>14, <1>15, <1>16, <1>17, <1>18 DEF ServiceInv

\* Once the stores are sealed and empty, the teardown has nothing to revoke.
LEMMA SealedKeepsServices ==
    ASSUME ServiceInv, HostNext, UNCHANGED <<serviceLocks, dispatches, call>>,
           StoreInv', ObsTypeOK',
           sealed', obs_sealed', \A h \in Hosts : obs_sets'[h] = NoSet, granted' = granted,
           ExecutionsBound'
    PROVE  ServiceInv'
  <1>1. SessionInv' /\ SessionOnly /\ SessionInv
    BY HostStepsKeep, LifeCycleMovesItsOwn DEF ServiceInv
  <1>2. PlansLive' /\ ObservationsLive' /\ Sealing'
    BY DEF StoreInv, SealedIsEmpty, PlansLive, ObservationsLive, Sealing
  <1>3. DispatchesCounted' /\ permit' \in Calls \cup {Free} /\ CallsCarry'
    BY DEF ServiceInv, DispatchesCounted, serviceLocks, CallsCarry
  <1> QED BY <1>1, <1>2, <1>3 DEF ServiceInv

\* Application::shutdown.
LEMMA ShutdownKeepsServices ==
    ASSUME ServiceInv, ShutdownSeal \/ ShutdownMark \/ ShutdownFinish,
           UNCHANGED <<serviceLocks, dispatches>>
    PROVE  ServiceInv'
  <1>1. HostNext /\ UNCHANGED call
    BY DEF HostNext, SessionStart, ShutdownSeal, ShutdownMark, ShutdownFinish
  <1>2. CASE ShutdownSeal
    <2>1. sealed' /\ obs_sealed' /\ (\A h \in Hosts : obs_sets'[h] = NoSet) /\ granted' = granted
          /\ gate' = gate /\ slot' = slot
      BY <1>2 DEF ShutdownSeal, SealAndRevokeAll, ObsSealAndRevokeAll
    <2>2. StoreInv'
      BY <1>2, StoreInvInductive DEF ShutdownSeal, StoreNext, ServiceInv
    <2>3. ObsTypeOK'
      BY <1>2 DEF ShutdownSeal, ObsSealAndRevokeAll, ObsTypeOK
    <2>5. SessionOnly
      BY <1>1, LifeCycleMovesItsOwn DEF ServiceInv
    <2>6. \A c \in Executing : SessionKept(call[c].host)
      BY <2>1 DEF SessionKept
    <2>7. ExecutionsBound'
      BY <2>1, <2>5, <2>6, ExecutionsGoOn DEF ServiceInv, serviceLocks
    <2> QED BY <1>1, <2>1, <2>2, <2>3, <2>7, SealedKeepsServices
  <1>3. CASE ShutdownMark \/ ShutdownFinish
    <2>1. KeepAuthority /\ shutdown # "running"
      BY <1>3 DEF ShutdownMark, ShutdownFinish
    <2>2. StoreInv' /\ ObsTypeOK' /\ Sealing' /\ granted' = granted
      BY <2>1, KeptAuthority
    <2>3. sealed' /\ obs_sealed' /\ \A h \in Hosts : obs_sets'[h] = NoSet
      BY <2>1 DEF KeepAuthority, storeVars, obsVars, ServiceInv, Sealing
    <2>4. \A c \in Calls : call[c] = Idle
      BY <1>3 DEF ShutdownMark, ShutdownFinish, ServiceInv, SessionInv, Quiet
    <2>5. ExecutionsBound'
      BY <1>1, <2>4, IdleIsCall DEF ExecutionsBound, Executing, ExecutionPc
    <2> QED BY <1>1, <2>2, <2>3, <2>5, SealedKeepsServices
  <1> QED BY <1>2, <1>3

\* Every step of the life cycle keeps what the services rely on.
LEMMA HostStepsKeepServices ==
    ASSUME ServiceInv, HostNext, UNCHANGED <<serviceLocks, dispatches>>
    PROVE  ServiceInv'
  <1>0. SessionInv
    BY DEF ServiceInv
  <1>1. ASSUME NEW c \in Calls, NEW h \in Hosts,
               ConnectBegin(c, h) \/ ConnectRefused(c, h)
        PROVE  ServiceInv'
    <2>1. gate[h] = Free /\ RevokeHostAuthority(h) /\ shutdown' = shutdown
      BY <1>1 DEF ConnectBegin, ConnectRefused, ConnectEntry
    <2>2. HoldersKept /\ \A k \in Hosts : SessionKept(k)
      BY <1>0, <1>1, CommandsDisturbNothing
    <2> QED BY <2>1, <2>2, RevokingKeepsServices
  <1>2. ASSUME NEW h \in Hosts, SaveHost(h) PROVE ServiceInv'
    <2>1. gate[h] = Free /\ RevokeHostAuthority(h) /\ shutdown' = shutdown
      BY <1>2 DEF SaveHost
    <2>2. HoldersKept /\ \A k \in Hosts : SessionKept(k)
      BY <1>0, <1>2, SectionsDisturbNothing
    <2> QED BY <2>1, <2>2, RevokingKeepsServices
  <1>3. ASSUME NEW c \in Calls, NEW h \in Hosts, NEW pc \in ClosingPc, DisconnectBegin(c, h, pc)
        PROVE  ServiceInv'
    <2>1. /\ gate[h] = Free /\ RevokeHostAuthority(h) /\ shutdown' = shutdown /\ MayStart(c)
          /\ \E x : Goto(c, x)
      BY <1>3 DEF DisconnectBegin
    <2>2. \A d \in Calls \ {c} : call'[d] = call[d]
      BY <1>0, <2>1 DEF Goto, SessionInv, SessionTypeOK
    <2>3. \A k \in Hosts \ {h} : slot'[k] = slot[k] /\ gate'[k] = gate[k]
      BY <1>0, <1>3 DEF DisconnectBegin, SessionInv, SessionTypeOK
    <2>4. call[c].pc \notin HolderPc
      BY <2>1, IdleIsCall DEF MayStart, HolderPc, ExecutionPc
    <2>5. HoldersKept
      BY <1>0, <2>1, <2>2, <2>3, <2>4, HoldersStay
    <2>6. \A k \in Hosts \ {h} : SessionKept(k)
      BY <2>3 DEF SessionKept
    <2> QED BY <2>1, <2>5, <2>6, RevokingKeepsServices
  <1>4. ASSUME NEW c \in Calls, NEW h \in Hosts,
               SessionPoll(c, h) \/ RefreshBegin(c, h) \/ OpenSftpBegin(c, h)
        PROVE  ServiceInv'
    <2>1. KeepAuthority /\ shutdown' = shutdown
      BY <1>4 DEF SessionPoll, RefreshBegin, OpenSftpBegin
    <2>2. HoldersKept /\ \A k \in Hosts : SessionKept(k)
      BY <1>0, <1>4, CommandsDisturbNothing
    <2> QED BY <2>1, <2>2, UndisturbedServices
  <1>5. ASSUME NEW h \in Hosts,
               TrustHostKey(h) \/ PlanRotation(h) \/ ExecuteRotation(h) \/ TransportCloses(h)
               \/ ShutdownSftp(h)
        PROVE  ServiceInv'
    <2>1. KeepAuthority /\ (shutdown' = shutdown \/ shutdown = "marked")
      BY <1>5 DEF TrustHostKey, PlanRotation, ExecuteRotation, TransportCloses, ShutdownSftp
    <2>2. HoldersKept /\ \A k \in Hosts : SessionKept(k)
      BY <1>0, <1>5, SectionsDisturbNothing
    <2> QED BY <2>1, <2>2, UndisturbedServices
  <1>6. ASSUME NEW c \in Calls,
               ConnectFinish(c) \/ DisconnectFinish(c) \/ DisconnectFails(c) \/ DeleteCommit(c)
               \/ SessionSftp(c) \/ RefreshFinish(c) \/ OpenSftpFinish(c)
        PROVE  ServiceInv'
    <2>1. KeepAuthority /\ shutdown' = shutdown
      BY <1>6
         DEF ConnectFinish, DisconnectFinish, DisconnectFails, DeleteCommit, SessionSftp,
             RefreshFinish, OpenSftpFinish
    <2>2. HoldersKept /\ \A k \in Hosts : SessionKept(k)
      BY <1>0, <1>6, StepsDisturbNothing
    <2> QED BY <2>1, <2>2, UndisturbedServices
  <1>7. ASSUME NEW c \in Calls, SessionStep(c) PROVE ServiceInv'
    BY <1>1, <1>6, <1>7, SessionCloseKeepsServices, SessionRevokeKeepsServices DEF SessionStep
  <1>8. ASSUME SessionCommands PROVE ServiceInv'
    BY <1>1, <1>2, <1>3, <1>4, <1>5, <1>8 DEF SessionCommands
  <1>9. ASSUME SessionStart PROVE ServiceInv'
    BY <1>5, <1>8, <1>9, ShutdownKeepsServices DEF SessionStart
  <1> QED BY <1>7, <1>9 DEF HostNext

-----------------------------------------------------------------------------
\* The steps at which a service command waits.
ServicePcs ==
    ExecutionPc \cup
    {"listing", "publishing", "planning", "plan_publishing", "admitting", "post_list"}

\* Call c, which has begun or begins a service command on host h, moves to x.
ServiceCallMoves(c, h, x) ==
    /\ x \in CallStates
    /\ Goto(c, x)
    /\ MayStart(c) \/ call[c].pc \in ServicePcs
    /\ call[c].host \in {h, NoHost}
    /\ x = Idle \/ (x.pc \in ServicePcs /\ x.host = h)
    /\ KeepSessions

\* It takes a free gate, gives up its own, or leaves it alone.
GateMoves(c, h) ==
    /\ gate' \in [Hosts -> Calls \cup {Free}]
    /\ \A k \in Hosts \ {h} : gate'[k] = gate[k]
    /\ gate'[h] = gate[h] \/ gate[h] \in {c, Free}

\* A service command keeps the life cycle's invariant and revokes nothing.
LEMMA ServiceCallKeepsSession ==
    ASSUME SessionInv, NEW c \in Calls, NEW h \in Hosts, NEW x,
           ServiceCallMoves(c, h, x), GateMoves(c, h)
    PROVE  /\ SessionInv' /\ LiveStay /\ call'[c] = x
           /\ \A d \in Calls \ {c} : call'[d] = call[d]
  <1>1. /\ x \in CallStates /\ Goto(c, x)
        /\ MayStart(c) \/ call[c].pc \in ServicePcs
        /\ call[c].host \in {h, NoHost}
        /\ UNCHANGED <<saved, slot, cancelled, closed, rotation, startup, sftp, shutdown>>
    BY DEF ServiceCallMoves, KeepSessions
  <1>2. x.host \in {h, NoHost} /\ (x.pc = "idle" \/ (x.pc \in ServicePcs /\ x.host = h))
    BY IdleIsCall DEF ServiceCallMoves
  <1>3. /\ call[c].pc \notin GatePc /\ call[c].pc # "refreshing"
        /\ MayStart(c) \/ call[c].pc # "idle"
    BY <1>1, IdleIsCall DEF MayStart, ServicePcs, ExecutionPc, GatePc, ClosingPc
  <1>4. /\ x.pc \notin GatePc /\ x.pc # "establishing" /\ x.pc \notin {"reconnect", "session_close"}
        /\ x.pc # "idle" => x.host \in Hosts
    BY <1>2 DEF ServicePcs, ExecutionPc, GatePc, ClosingPc
  <1>5. SameSession(h)
    BY <1>1 DEF SameSession
  <1>6. /\ saved' \subseteq Hosts /\ slot' \in [Hosts -> Slots] /\ sftp' \in [Hosts -> Numbers]
        /\ startup' \in [Hosts -> Calls \cup {Free}]
    BY <1>1 DEF SessionInv, SessionTypeOK
  <1>7. SessionInv'
    BY <1>1, <1>2, <1>3, <1>4, <1>5, <1>6, CallStepKeeps DEF GateMoves
  <1>8. call'[c] = x /\ \A d \in Calls \ {c} : call'[d] = call[d]
    BY <1>1 DEF Goto, SessionInv, SessionTypeOK
  <1>9. ASSUME NEW b \in Binding, LiveBinding(b) PROVE LiveBinding(b)'
    <2>1. CASE slot[b.host].state = "Connected" /\ b = CurrentBinding(b.host)
      BY <1>1, <2>1 DEF LiveBinding, CurrentBinding
    <2>2. CASE RevokingFor(b.host, b.session)
      <3>1. PICK d \in Calls : /\ gate[b.host] = d /\ call[d].pc = "session_revoke"
                               /\ call[d].host = b.host /\ call[d].conn = b.session
        BY <2>2 DEF RevokingFor
      <3>2. d # c /\ b.host \in Hosts
        BY <1>3, <3>1 DEF GatePc, Binding
      <3>3. gate'[b.host] = d
        BY <3>1, <3>2, SessionAssumption DEF GateMoves
      <3> QED BY <1>8, <3>1, <3>2, <3>3 DEF LiveBinding, RevokingFor
    <2> QED BY <1>9, <2>1, <2>2 DEF LiveBinding
  <1> QED BY <1>7, <1>8, <1>9 DEF LiveStay

\* The part of the invariant that is about the calls, for a command that does
\* not execute.
LEMMA OrdinaryCallKeeps ==
    ASSUME ServiceInv, NEW c \in Calls, NEW h \in Hosts, NEW x, ServiceCallMoves(c, h, x),
           UNCHANGED <<gate, permit, dispatches>>, granted' = granted,
           call[c].pc \notin ExecutionPc, x.pc \notin ExecutionPc,
           x.pc \in {"planning", "plan_publishing"} => x.op \in Ops,
           x.pc = "admitting" => x.plan \in Plans
    PROVE  /\ SessionInv' /\ LiveStay /\ ExecutionsBound' /\ DispatchesCounted' /\ CallsCarry'
           /\ permit' \in Calls \cup {Free}
  <1>1. SessionInv /\ GateMoves(c, h) /\ slot' = slot
    BY DEF ServiceInv, SessionInv, SessionTypeOK, GateMoves, ServiceCallMoves, KeepSessions
  <1>2. /\ SessionInv' /\ LiveStay /\ call'[c] = x
        /\ \A d \in Calls \ {c} : call'[d] = call[d]
    BY <1>1, ServiceCallKeepsSession
  <1>3. ExecutionsBound'
    <2> SUFFICES ASSUME NEW d \in Calls, call'[d].pc \in ExecutionPc
                 PROVE  /\ permit' = d
                        /\ gate'[call'[d].host] = d
                        /\ slot'[call'[d].host].state = "Connected"
                        /\ BoundTo(d)' = CurrentBinding(call[d].host)'
                        /\ call'[d].plan \in granted'
                        /\ call'[d].pc # "dispatching" => dispatches'[call'[d].plan] = 0
      BY DEF ExecutionsBound, Executing
    <2>1. call'[d] = call[d] /\ d \in Executing
      BY <1>2 DEF Executing
    <2>2. BoundTo(d)' = BoundTo(d) /\ CurrentBinding(call[d].host)' = CurrentBinding(call[d].host)
      BY <1>1, <2>1 DEF BoundTo, CurrentBinding
    <2> QED BY <1>1, <2>1, <2>2 DEF ServiceInv, ExecutionsBound
  <1>4. CallsCarry'
    BY <1>2 DEF ServiceInv, CallsCarry
  <1>5. DispatchesCounted' /\ permit' \in Calls \cup {Free}
    BY DEF ServiceInv, DispatchesCounted
  <1> QED BY <1>2, <1>3, <1>4, <1>5

\* The whole of it, if nothing is added to the stores.
LEMMA OrdinaryStepKeeps ==
    ASSUME ServiceInv, NEW c \in Calls, NEW h \in Hosts, NEW x, ServiceCallMoves(c, h, x),
           UNCHANGED <<gate, permit, dispatches>>, granted' = granted,
           call[c].pc \notin ExecutionPc, x.pc \notin ExecutionPc,
           x.pc \in {"planning", "plan_publishing"} => x.op \in Ops,
           x.pc = "admitting" => x.plan \in Plans,
           StoreInv', ObsTypeOK', PlansShrink, ObservationsShrink,
           sealed' = sealed, obs_sealed' = obs_sealed
    PROVE  ServiceInv'
  <1>1. /\ SessionInv' /\ LiveStay /\ ExecutionsBound' /\ DispatchesCounted' /\ CallsCarry'
        /\ permit' \in Calls \cup {Free}
    BY OrdinaryCallKeeps
  <1>2. PlansLive' /\ ObservationsLive'
    BY <1>1, StoresStayLive DEF ServiceInv, StoreInv
  <1>3. Sealing'
    BY DEF ServiceInv, Sealing, ServiceCallMoves, KeepSessions, ObservationsShrink
  <1> QED BY <1>1, <1>2, <1>3 DEF ServiceInv

\* A step that moves no call.
LEMMA StoreStepKeeps ==
    ASSUME ServiceInv, UNCHANGED sessionVars, UNCHANGED <<permit, dispatches>>, granted' = granted,
           StoreInv', ObsTypeOK', PlansShrink, ObservationsShrink,
           sealed' = sealed, obs_sealed' = obs_sealed
    PROVE  ServiceInv'
  <1>1. UNCHANGED <<saved, slot, cancelled, closed, gate, startup, sftp, call, shutdown>>
    BY DEF sessionVars
  <1>2. SessionInv'
    BY <1>1, SessionUnchanged DEF ServiceInv, sessionFrame
  <1>3. LiveStay
    BY <1>1 DEF LiveStay, LiveBinding, RevokingFor, CurrentBinding
  <1>4. PlansLive' /\ ObservationsLive'
    BY <1>3, StoresStayLive DEF ServiceInv, StoreInv
  <1>5. Sealing'
    BY <1>1 DEF ServiceInv, Sealing, ObservationsShrink
  <1>6. ExecutionsBound'
    BY <1>1 DEF ServiceInv, ExecutionsBound, Executing, BoundTo, CurrentBinding
  <1>7. CallsCarry' /\ DispatchesCounted' /\ permit' \in Calls \cup {Free}
    BY <1>1 DEF ServiceInv, CallsCarry, DispatchesCounted
  <1> QED BY <1>2, <1>4, <1>5, <1>6, <1>7 DEF ServiceInv

\* The stores when a step leaves them alone,
LEMMA StoresKept ==
    ASSUME ServiceInv
    PROVE  /\ UNCHANGED storeVars =>
                 StoreInv' /\ PlansShrink /\ granted' = granted /\ sealed' = sealed
           /\ UNCHANGED obsVars => ObsTypeOK' /\ ObservationsShrink /\ obs_sealed' = obs_sealed
  <1>1. UNCHANGED storeVars => StoreInv'
    BY StoreInvInductive DEF ServiceInv
  <1>2. UNCHANGED storeVars => PlansShrink /\ granted' = granted /\ sealed' = sealed
    BY DEF storeVars, PlansShrink, IsPending
  <1>3. UNCHANGED obsVars => ObsTypeOK' /\ ObservationsShrink /\ obs_sealed' = obs_sealed
    BY DEF obsVars, ServiceInv, ObsTypeOK, ObservationsShrink
  <1> QED BY <1>1, <1>2, <1>3

\* and the observations when begin_request counts or resolve purges.
LEMMA ObservationsPurged ==
    ASSUME ObsTypeOK
    PROVE  /\ \A t : Resolve(t) => ObsTypeOK' /\ ObservationsShrink /\ obs_sealed' = obs_sealed
           /\ \A h \in Hosts : BeginRequest(h) =>
                 /\ ObsTypeOK' /\ ObservationsShrink /\ obs_sealed' = obs_sealed
                 /\ newest_request'[h] \in Nat
  <1>1. ASSUME NEW t, Resolve(t)
        PROVE  ObsTypeOK' /\ ObservationsShrink /\ obs_sealed' = obs_sealed
    BY <1>1 DEF Resolve, Unexpired, ObsTypeOK, ObservationsShrink
  <1>2. ASSUME NEW h \in Hosts, BeginRequest(h)
        PROVE  /\ ObsTypeOK' /\ ObservationsShrink /\ obs_sealed' = obs_sealed
               /\ newest_request'[h] \in Nat
    BY <1>2 DEF BeginRequest, BumpRequest, ObsTypeOK, ObservationsShrink
  <1> QED BY <1>1, <1>2

\* A command that captures the session of host h.
LEMMA CapturedIsCall ==
    ASSUME SessionInv, NEW h \in Hosts
    PROVE  /\ Captured(h) \in CallStates /\ Captured(h).host = h
           /\ Captured(h).gen = slot[h].generation /\ Captured(h).conn = slot[h].connection
  BY HostInHand, IdleIsCall DEF Captured, Idle, CallStates

\* A service command on host h starts from scratch or goes on.
LEMMA ServiceCallHost ==
    ASSUME SessionInv, NEW c \in Calls
    PROVE  /\ MayStart(c) => call[c].host = NoHost /\ call[c].pc = "idle"
           /\ call[c].pc \in ServicePcs => call[c].host \in Hosts
           /\ call[c] \in CallStates
  BY IdleIsCall DEF MayStart, SessionInv, SessionTypeOK, ServicePcs, ExecutionPc

\* A waiting service command that does not execute ends or moves on.
LEMMA WaitingStepKeeps ==
    ASSUME ServiceInv, NEW c \in Calls,
           call[c].pc \in ServicePcs \ ExecutionPc,
           \/ Done(c)
           \/ /\ call[c].pc = "listing"
              /\ Goto(c, [call[c] EXCEPT !.pc = "publishing"])
           \/ /\ call[c].pc = "planning"
              /\ Goto(c, [call[c] EXCEPT !.pc = "plan_publishing"]),
           KeepSessions, UNCHANGED <<gate, permit, dispatches>>, granted' = granted,
           StoreInv', ObsTypeOK', PlansShrink, ObservationsShrink,
           sealed' = sealed, obs_sealed' = obs_sealed
    PROVE  ServiceInv'
  <1>0. SessionInv /\ call[c] \in CallStates
    BY ServiceCallHost DEF ServiceInv
  <1>1. PICK h \in Hosts : h = call[c].host
    BY <1>0, ServiceCallHost
  <1>2. CASE Done(c)
    <2>1. ServiceCallMoves(c, h, Idle) /\ Idle.pc = "idle"
      BY <1>1, <1>2, IdleIsCall DEF ServiceCallMoves, Done
    <2> QED BY <2>1, OrdinaryStepKeeps DEF ExecutionPc
  <1>3. ASSUME NEW pc \in {"publishing", "plan_publishing"},
               Goto(c, [call[c] EXCEPT !.pc = pc]),
               pc = "plan_publishing" => call[c].pc = "planning"
        PROVE  ServiceInv'
    <2> DEFINE x == [call[c] EXCEPT !.pc = pc]
    <2>1. pc \in Pcs
      BY DEF Pcs
    <2>2. x \in CallStates /\ x.pc = pc /\ x.host = h /\ x.op = call[c].op
      BY <1>0, <1>1, <2>1, MovesOn
    <2>3. Goto(c, x)
      BY <1>3
    <2> HIDE DEF x
    <2>4. ServiceCallMoves(c, h, x)
      BY <1>1, <2>2, <2>3 DEF ServiceCallMoves, ServicePcs
    <2>5. x.pc = "plan_publishing" => x.op \in Ops
      BY <1>3, <2>2 DEF ServiceInv, CallsCarry
    <2> QED BY <2>2, <2>4, <2>5, OrdinaryStepKeeps DEF ExecutionPc
  <1> QED BY <1>2, <1>3

\* list_host_services begins.
LEMMA ListBeginKeeps ==
    ASSUME ServiceInv, NEW c \in Calls, NEW h \in Hosts, ListBegin(c, h)
    PROVE  ServiceInv'
  <1>0. SessionInv /\ ObsTypeOK
    BY DEF ServiceInv
  <1>1. /\ StoreInv' /\ PlansShrink /\ granted' = granted /\ sealed' = sealed
        /\ ObsTypeOK' /\ ObservationsShrink /\ obs_sealed' = obs_sealed
        /\ newest_request'[h] \in Nat
    BY <1>0, StoresKept, ObservationsPurged DEF ListBegin
  <1>2. /\ KeepSessions /\ UNCHANGED <<gate, permit, dispatches>>
        /\ MayStart(c) \/ (call[c].pc = "post_list" /\ call[c].host = h)
    BY DEF ListBegin
  <1>3. /\ call[c].host \in {h, NoHost} /\ call[c].pc \notin ExecutionPc
        /\ MayStart(c) \/ call[c].pc \in ServicePcs
    BY <1>0, <1>2, ServiceCallHost DEF ServicePcs, ExecutionPc
  <1> DEFINE x == [Captured(h) EXCEPT !.pc = "listing", !.seq = newest_request'[h]]
  <1>4. Goto(c, x) \/ Done(c)
    BY DEF ListBegin
  <1>5. x \in CallStates /\ x.pc = "listing" /\ x.host = h
    BY <1>0, <1>1, CapturedIsCall, ZenonT(60) DEF CallStates, Pcs
  <1> HIDE DEF x
  <1>6. CASE Goto(c, x)
    <2>1. ServiceCallMoves(c, h, x)
      BY <1>2, <1>3, <1>5, <1>6 DEF ServiceCallMoves, ServicePcs
    <2> QED BY <1>1, <1>2, <1>3, <1>5, <2>1, OrdinaryStepKeeps DEF ExecutionPc
  <1>7. CASE Done(c)
    <2>1. ServiceCallMoves(c, h, Idle) /\ Idle.pc = "idle"
      BY <1>2, <1>3, <1>7, IdleIsCall DEF ServiceCallMoves, Done
    <2> QED BY <1>1, <1>2, <1>3, <2>1, OrdinaryStepKeeps DEF ExecutionPc
  <1> QED BY <1>4, <1>6, <1>7

\* plan_service_* begins.
LEMMA PlanBeginKeeps ==
    ASSUME ServiceInv, NEW c \in Calls, NEW h \in Hosts, NEW op \in Ops, PlanBegin(c, h, op)
    PROVE  ServiceInv'
  <1>0. SessionInv /\ ObsTypeOK
    BY DEF ServiceInv
  <1>1. /\ StoreInv' /\ PlansShrink /\ granted' = granted /\ sealed' = sealed
        /\ ObsTypeOK' /\ ObservationsShrink /\ obs_sealed' = obs_sealed
    BY <1>0, StoresKept, ObservationsPurged DEF PlanBegin
  <1>2. KeepSessions /\ UNCHANGED <<gate, permit, dispatches>> /\ MayStart(c)
    BY DEF PlanBegin
  <1>3. call[c].host \in {h, NoHost} /\ call[c].pc \notin ExecutionPc
    BY <1>0, <1>2, ServiceCallHost DEF ExecutionPc
  <1> DEFINE x == [Captured(h) EXCEPT !.pc = "planning", !.op = op, !.seq = obs_sets[h].sequence]
  <1>4. Goto(c, x) \/ UNCHANGED call
    BY DEF PlanBegin
  <1>5. obs_sets[h].sequence \in Nat
    BY <1>0 DEF PlanBegin, ObsTypeOK, ObservationSet
  <1>6. x \in CallStates /\ x.pc = "planning" /\ x.host = h /\ x.op = op
    BY <1>0, <1>5, CapturedIsCall, ZenonT(60) DEF CallStates, Pcs
  <1> HIDE DEF x
  <1>7. CASE Goto(c, x)
    <2>1. ServiceCallMoves(c, h, x)
      BY <1>2, <1>3, <1>6, <1>7 DEF ServiceCallMoves, ServicePcs
    <2> QED BY <1>1, <1>2, <1>3, <1>6, <2>1, OrdinaryStepKeeps DEF ExecutionPc
  <1>8. CASE UNCHANGED call
    <2>1. UNCHANGED sessionVars
      BY <1>2, <1>8 DEF sessionVars, KeepSessions
    <2> QED BY <1>1, <1>2, <2>1, StoreStepKeeps
  <1> QED BY <1>4, <1>7, <1>8

\* execute_service_* begins.
LEMMA ExecuteBeginKeeps ==
    ASSUME ServiceInv, NEW c \in Calls, NEW h \in Hosts, NEW p \in Plans, NEW op \in Ops,
           ExecuteBegin(c, h, p, op)
    PROVE  ServiceInv'
  <1>0. SessionInv
    BY DEF ServiceInv
  <1>1. /\ StoreInv' /\ PlansShrink /\ granted' = granted /\ sealed' = sealed
        /\ ObsTypeOK' /\ ObservationsShrink /\ obs_sealed' = obs_sealed
    BY StoresKept DEF ExecuteBegin, KeepAuthority
  <1>2. KeepSessions /\ UNCHANGED <<gate, permit, dispatches>> /\ MayStart(c)
    BY DEF ExecuteBegin, serviceLocks
  <1>3. call[c].host \in {h, NoHost} /\ call[c].pc \notin ExecutionPc
    BY <1>0, <1>2, ServiceCallHost DEF ExecutionPc
  <1> DEFINE x == [Captured(h) EXCEPT !.pc = "admitting", !.op = op, !.plan = p]
  <1>4. Goto(c, x)
    BY DEF ExecuteBegin
  <1>5. x \in CallStates /\ x.pc = "admitting" /\ x.host = h /\ x.plan = p
    BY <1>0, CapturedIsCall, ZenonT(60) DEF CallStates, Pcs
  <1> HIDE DEF x
  <1>6. ServiceCallMoves(c, h, x)
    BY <1>2, <1>3, <1>4, <1>5 DEF ServiceCallMoves, ServicePcs
  <1> QED BY <1>1, <1>2, <1>3, <1>5, <1>6, OrdinaryStepKeeps DEF ExecutionPc

\* The steps that add nothing to the stores.
LEMMA WaitingStepsKeep ==
    ASSUME ServiceInv, NEW c \in Calls,
           \/ ListRefused(c)
           \/ ListObserved(c)
           \/ ListFails(c)
           \/ PlanObserved(c)
           \/ PlanFails(c)
           \/ ExecuteRefused(c)
    PROVE  ServiceInv'
  <1>1. CASE ListRefused(c) \/ ListObserved(c) \/ ListFails(c) \/ PlanObserved(c)
             \/ ExecuteRefused(c)
    <2>1. KeepAuthority /\ KeepSessions /\ UNCHANGED <<gate, permit, dispatches>>
      BY <1>1 DEF ListRefused, ListObserved, ListFails, PlanObserved, ExecuteRefused, serviceLocks
    <2>2. /\ StoreInv' /\ PlansShrink /\ granted' = granted /\ sealed' = sealed
          /\ ObsTypeOK' /\ ObservationsShrink /\ obs_sealed' = obs_sealed
      BY <2>1, StoresKept DEF KeepAuthority
    <2>3. call[c].pc \in ServicePcs \ ExecutionPc
      BY <1>1
         DEF ListRefused, ListObserved, ListFails, PlanObserved, ExecuteRefused, ServicePcs,
             ExecutionPc
    <2>4. \/ Done(c)
          \/ /\ call[c].pc = "listing"
             /\ Goto(c, [call[c] EXCEPT !.pc = "publishing"])
          \/ /\ call[c].pc = "planning"
             /\ Goto(c, [call[c] EXCEPT !.pc = "plan_publishing"])
      BY <1>1 DEF ListRefused, ListObserved, ListFails, PlanObserved, ExecuteRefused
    <2> QED BY <2>1, <2>2, <2>3, <2>4, WaitingStepKeeps
  <1>2. CASE PlanFails(c)
    <2>1. KeepSessions /\ UNCHANGED storeVars /\ UNCHANGED <<gate, permit, dispatches>> /\ Done(c)
      BY <1>2 DEF PlanFails, serviceLocks
    <2>2. UNCHANGED obsVars \/ \E t \in ReadInstants : Resolve(t)
      BY <1>2 DEF PlanFails
    <2>3. /\ StoreInv' /\ PlansShrink /\ granted' = granted /\ sealed' = sealed
          /\ ObsTypeOK' /\ ObservationsShrink /\ obs_sealed' = obs_sealed
      BY <2>1, <2>2, StoresKept, ObservationsPurged DEF ServiceInv
    <2>4. call[c].pc \in ServicePcs \ ExecutionPc
      BY <1>2 DEF PlanFails, ServicePcs, ExecutionPc
    <2> QED BY <2>1, <2>3, <2>4, WaitingStepKeeps
  <1> QED BY <1>1, <1>2

\* A command that finds its session current is bound to it.
LEMMA CurrentIsBound ==
    ASSUME ServiceInv, NEW c \in Calls, call[c].pc \in ServicePcs
    PROVE  /\ BoundTo(c) \in Binding /\ BoundTo(c).host = call[c].host
           /\ StillCurrent(c) => /\ slot[call[c].host].state = "Connected"
                                 /\ BoundTo(c) = CurrentBinding(call[c].host)
  <1>1. call[c].host \in Hosts /\ call[c].conn \in Sessions /\ call[c].gen \in Generations
    <2>1. call[c] \in CallStates /\ call[c].host \in Hosts
      BY ServiceCallHost DEF ServiceInv
    <2> QED BY <2>1, SessionAssumption DEF CallStates, Numbers
  <1>2. BoundTo(c) \in Binding /\ BoundTo(c).host = call[c].host
    BY <1>1 DEF BoundTo, Binding
  <1>3. ASSUME StillCurrent(c)
        PROVE  slot[call[c].host].state = "Connected" /\ BoundTo(c) = CurrentBinding(call[c].host)
    BY <1>3 DEF StillCurrent, BoundTo, CurrentBinding
  <1> QED BY <1>2, <1>3

\* What is bound to the session of its host is live.
LEMMA CurrentIsLive ==
    ASSUME NEW h, slot'[h].state = "Connected", NEW b, b = CurrentBinding(h)', b.host = h
    PROVE  LiveBinding(b)'
  BY DEF LiveBinding

\* The calls when a command that waited for its turn to publish ends.
LEMMA PublisherEnds ==
    ASSUME ServiceInv, NEW c \in Calls, call[c].pc \in {"publishing", "plan_publishing"}, Done(c),
           KeepSessions, UNCHANGED <<gate, permit, dispatches>>, granted' = granted
    PROVE  /\ SessionInv' /\ LiveStay /\ ExecutionsBound' /\ DispatchesCounted' /\ CallsCarry'
           /\ permit' \in Calls \cup {Free}
  <1>1. call[c].pc \in ServicePcs /\ call[c].pc \notin ExecutionPc
    BY DEF ServicePcs, ExecutionPc
  <1>2. PICK h \in Hosts : h = call[c].host
    BY <1>1, ServiceCallHost DEF ServiceInv
  <1>3. ServiceCallMoves(c, h, Idle) /\ Idle.pc = "idle"
    BY <1>1, <1>2, IdleIsCall DEF ServiceCallMoves, Done
  <1> QED BY <1>1, <1>3, OrdinaryCallKeeps DEF ExecutionPc

\* A listing publishes what it observed.
LEMMA ListPublishKeeps ==
    ASSUME ServiceInv, NEW c \in Calls, ListPublish(c)
    PROVE  ServiceInv'
  <1>1. /\ call[c].pc = "publishing" /\ StillCurrent(c) /\ Done(c) /\ KeepSessions
        /\ UNCHANGED storeVars /\ UNCHANGED <<gate, permit, dispatches>>
    BY DEF ListPublish, serviceLocks
  <1>2. StoreInv' /\ PlansShrink /\ granted' = granted /\ sealed' = sealed
    BY <1>1, StoresKept
  <1>3. /\ SessionInv' /\ LiveStay /\ ExecutionsBound' /\ DispatchesCounted' /\ CallsCarry'
        /\ permit' \in Calls \cup {Free}
    BY <1>1, <1>2, PublisherEnds
  <1>4. PICK h \in Hosts : h = call[c].host
    BY <1>1, ServiceCallHost DEF ServiceInv, ServicePcs
  <1>5. PICK b \in Binding : b = BoundTo(c) /\ b.host = h /\ b = CurrentBinding(h)
                             /\ slot[h].state = "Connected"
    BY <1>1, <1>4, CurrentIsBound DEF ServicePcs
  <1>6. PICK u \in Observable, out \in SUBSET Hosts, t \in ReadInstants :
            Publish(b, call[c].seq, Actionable(u), out, t)
    BY <1>5 DEF ListPublish
  <1> DEFINE new == [binding |-> b, sequence |-> call[c].seq, issued_at |-> t,
                     entries |-> Actionable(u)]
  <1>7. new \in ObservationSet /\ new.binding = b
    <2>1. t \in Nat /\ call[c].seq \in Nat
      BY ServiceCallHost DEF ReadInstants, ServiceInv, StoreInv, StoreTypeOK, CallStates
    <2>2. Actionable(u) \subseteq Keys
      BY ServiceAssumption DEF Actionable
    <2> QED BY <2>1, <2>2 DEF ObservationSet
  <1>8. /\ ~obs_sealed /\ obs_sealed' = obs_sealed /\ newest_request' = newest_request
        /\ obs_sets' = [k \in Hosts |->
                          IF k = h THEN new
                          ELSE IF k \in out THEN NoSet
                          ELSE [Unexpired(t) EXCEPT ![h] = NoSet][k]]
    BY <1>5, <1>6 DEF Publish
  <1> HIDE DEF new
  <1>9. obs_sets'[h] = new /\ \A k \in Hosts \ {h} : obs_sets'[k] \in {NoSet, obs_sets[k]}
    BY <1>8 DEF Unexpired
  <1>10. ObsTypeOK'
    BY <1>7, <1>8, <1>9 DEF ServiceInv, ObsTypeOK
  <1>11. ObservationsLive'
    <2> SUFFICES ASSUME NEW k \in Hosts, obs_sets'[k] # NoSet
                 PROVE  obs_sets'[k].binding.host = k /\ LiveBinding(obs_sets[k].binding)'
      BY DEF ObservationsLive
    <2>1. CASE k = h
      <3>1. slot'[h].state = "Connected" /\ b = CurrentBinding(h)'
        BY <1>1, <1>5 DEF KeepSessions, CurrentBinding
      <3>2. LiveBinding(b)'
        BY <1>5, <3>1, CurrentIsLive
      <3> QED BY <1>5, <1>7, <1>9, <2>1, <3>2
    <2>2. CASE k # h
      <3>1. obs_sets[k] # NoSet /\ obs_sets'[k] = obs_sets[k]
        BY <1>9, <2>2
      <3>2. PICK d \in Binding : d = obs_sets[k].binding
        BY <3>1, BindingsTyped DEF ServiceInv, StoreInv
      <3>3. d.host = k /\ LiveBinding(d)
        BY <3>1, <3>2 DEF ServiceInv, ObservationsLive
      <3>4. LiveBinding(d)'
        BY <1>3, <3>3 DEF LiveStay
      <3> QED BY <3>1, <3>2, <3>3, <3>4
    <2> QED BY <2>1, <2>2
  <1>12. PlansLive'
    BY <1>2, <1>3, StoresStayLive DEF ServiceInv, StoreInv
  <1>13. Sealing'
    BY <1>1, <1>8 DEF ServiceInv, Sealing, KeepSessions
  <1> QED BY <1>2, <1>3, <1>10, <1>11, <1>12, <1>13 DEF ServiceInv

\* plan_service_* publishes the authority it asked for.
LEMMA PlanPublishKeeps ==
    ASSUME ServiceInv, NEW c \in Calls, PlanPublish(c)
    PROVE  ServiceInv' /\ StoreNext
  <1>1. /\ call[c].pc = "plan_publishing" /\ StillCurrent(c) /\ Done(c) /\ KeepSessions
        /\ UNCHANGED <<gate, permit, dispatches>>
        /\ \E t \in ReadInstants : Resolve(t)
    BY DEF PlanPublish, serviceLocks
  <1>2. PICK h \in Hosts : h = call[c].host
    BY <1>1, ServiceCallHost DEF ServiceInv, ServicePcs
  <1>3. PICK b \in Binding : b = BoundTo(c) /\ b.host = h /\ b = CurrentBinding(h)
                             /\ slot[h].state = "Connected"
    BY <1>1, <1>2, CurrentIsBound DEF ServicePcs
  <1>4. PICK p \in Plans, t \in ReadInstants : Insert(p, b, b, call[c].op, t)
    BY <1>3 DEF PlanPublish
  <1>5. call[c].op \in Ops
    BY <1>1 DEF ServiceInv, CallsCarry
  <1>6. StoreNext /\ StoreInv'
    <2>1. StoreNext
      BY <1>4, <1>5 DEF StoreNext
    <2> QED BY <2>1, StoreInvInductive DEF ServiceInv
  <1>7. granted' = granted /\ sealed' = sealed
    BY <1>4 DEF Insert
  <1>8. ObsTypeOK' /\ ObservationsShrink /\ obs_sealed' = obs_sealed
    BY <1>1, ObservationsPurged DEF ServiceInv
  <1>9. /\ SessionInv' /\ LiveStay /\ ExecutionsBound' /\ DispatchesCounted' /\ CallsCarry'
        /\ permit' \in Calls \cup {Free}
    BY <1>1, <1>7, PublisherEnds
  <1>10. ObservationsLive'
    BY <1>8, <1>9, StoresStayLive DEF ServiceInv, StoreInv
  <1>11. /\ pending'[p].binding = b
         /\ \A q \in Plans \ {p} : IsPending(q)' => IsPending(q) /\ pending'[q] = pending[q]
    BY <1>4 DEF Insert, IsPending
  <1>12. PlansLive'
    <2> SUFFICES ASSUME NEW q \in Plans, IsPending(q)' PROVE LiveBinding(pending[q].binding)'
      BY DEF PlansLive
    <2>1. CASE q = p
      <3>1. slot'[h].state = "Connected" /\ b = CurrentBinding(h)'
        BY <1>1, <1>3 DEF KeepSessions, CurrentBinding
      <3>2. LiveBinding(b)'
        BY <1>3, <3>1, CurrentIsLive
      <3> QED BY <1>11, <2>1, <3>2
    <2>2. CASE q # p
      <3>1. IsPending(q) /\ pending'[q] = pending[q]
        BY <1>11, <2>2
      <3>2. PICK d \in Binding : d = pending[q].binding
        BY <3>1, BindingsTyped DEF ServiceInv, StoreInv
      <3>3. LiveBinding(d)
        BY <3>1, <3>2 DEF ServiceInv, PlansLive
      <3>4. LiveBinding(d)'
        BY <1>9, <3>3 DEF LiveStay
      <3> QED BY <3>1, <3>2, <3>4
    <2> QED BY <2>1, <2>2
  <1>13. Sealing'
    BY <1>1, <1>7, <1>8 DEF ServiceInv, Sealing, KeepSessions, ObservationsShrink
  <1> QED BY <1>6, <1>8, <1>9, <1>10, <1>12, <1>13 DEF ServiceInv

\* A removal takes plans away and changes none.
LEMMA RemovalShrinks ==
    ASSUME StoreTypeOK, IndexConsistent, NEW S, S \subseteq Plans, RemoveIds(S)
    PROVE  PlansShrink /\ \A p \in S : ~IsPending(p)'
  <1>1. /\ \A p \in Plans : IsPending(p)' <=> IsPending(p) /\ p \notin S
        /\ \A p \in Plans : IsPending(p)' => pending'[p] = pending[p]
    BY RemoveIdsKeepsIndex
  <1> QED BY <1>1 DEF PlansShrink

\* discard_service_*
LEMMA DiscardPlanKeeps ==
    ASSUME ServiceInv, NEW h \in Hosts, NEW op \in Ops, DiscardPlan(h, op)
    PROVE  ServiceInv' /\ StoreNext
  <1>1. /\ UNCHANGED <<obsVars, gate, call, permit, dispatches>> /\ KeepSessions
    BY DEF DiscardPlan, serviceLocks
  <1>2. CurrentBinding(h) \in Binding
    <2>1. SessionInv
      BY DEF ServiceInv
    <2>2. slot[h].connection \in Sessions /\ slot[h].generation \in Generations
      BY <2>1, HostInHand, SessionAssumption DEF Numbers
    <2> QED BY <2>2 DEF CurrentBinding, Binding
  <1>3. PICK p \in Plans, t \in ReadInstants : Discard(p, CurrentBinding(h), op, t)
    BY DEF DiscardPlan
  <1>4. StoreNext /\ StoreInv'
    <2>1. StoreNext
      BY <1>2, <1>3 DEF StoreNext
    <2> QED BY <2>1, StoreInvInductive DEF ServiceInv
  <1>5. RemoveIds({p}) /\ UNCHANGED <<sealed, granted>>
    BY <1>3 DEF Discard
  <1>6. PlansShrink
    <2>1. {p} \subseteq Plans
      OBVIOUS
    <2> QED BY <1>5, <2>1, RemovalShrinks DEF ServiceInv, StoreInv
  <1>7. ObsTypeOK' /\ ObservationsShrink /\ obs_sealed' = obs_sealed
    BY <1>1, StoresKept
  <1>8. UNCHANGED sessionVars
    BY <1>1 DEF KeepSessions, sessionVars
  <1> QED BY <1>1, <1>4, <1>5, <1>6, <1>7, <1>8, StoreStepKeeps

\* Time passes, and timers remove what has expired.
LEMMA TimersKeep ==
    ASSUME ServiceInv, Timers
    PROVE  ServiceInv' /\ StoreNext
  <1>1. UNCHANGED <<obsVars, sessionVars, permit, dispatches>>
    BY DEF Timers, serviceLocks
  <1>2. StoreNext
    BY DEF Timers, StoreNext
  <1>3. StoreInv' /\ granted' = granted /\ sealed' = sealed
    <2>1. StoreInv'
      BY <1>2, StoreInvInductive DEF ServiceInv
    <2>2. granted' = granted /\ sealed' = sealed
      BY DEF Timers, StoreTick, ExpiryTimer
    <2> QED BY <2>1, <2>2
  <1>4. PlansShrink
    <2>1. CASE StoreTick
      BY <2>1 DEF StoreTick, PlansShrink, IsPending
    <2>2. ASSUME NEW p \in Plans, ExpiryTimer(p) PROVE PlansShrink
      <3>1. RemoveIds({p}) /\ {p} \subseteq Plans
        BY <2>2 DEF ExpiryTimer
      <3> QED BY <3>1, RemovalShrinks DEF ServiceInv, StoreInv
    <2> QED BY <2>1, <2>2 DEF Timers
  <1>5. ObsTypeOK' /\ ObservationsShrink /\ obs_sealed' = obs_sealed
    BY <1>1, StoresKept
  <1> QED BY <1>1, <1>2, <1>3, <1>4, <1>5, StoreStepKeeps

-----------------------------------------------------------------------------
\* The one call that has the permit, or takes it, moves to x.
LEMMA ExecutorKeeps ==
    ASSUME ServiceInv, NEW c \in Calls, NEW h \in Hosts, NEW x, ServiceCallMoves(c, h, x),
           GateMoves(c, h), permit \in {c, Free}, permit' \in {c, Free},
           x.pc \notin {"planning", "plan_publishing", "admitting"},
           x.pc \in ExecutionPc =>
               /\ permit' = c /\ gate'[h] = c /\ x.host = h
               /\ slot[h].state = "Connected"
               /\ [host |-> x.host, session |-> x.conn, generation |-> x.gen] = CurrentBinding(h)
               /\ x.plan \in granted'
               /\ x.pc # "dispatching" => dispatches'[x.plan] = 0,
           StoreInv', ObsTypeOK', PlansShrink, ObservationsShrink,
           sealed' = sealed, obs_sealed' = obs_sealed, DispatchesCounted'
    PROVE  ServiceInv'
  <1>1. /\ SessionInv' /\ LiveStay /\ call'[c] = x
        /\ \A d \in Calls \ {c} : call'[d] = call[d]
    BY ServiceCallKeepsSession DEF ServiceInv
  <1>2. slot' = slot /\ shutdown' = shutdown
    BY DEF ServiceCallMoves, KeepSessions
  <1>3. ExecutionsBound'
    <2> SUFFICES ASSUME NEW d \in Calls, call'[d].pc \in ExecutionPc
                 PROVE  /\ permit' = d
                        /\ gate'[call'[d].host] = d
                        /\ slot'[call'[d].host].state = "Connected"
                        /\ BoundTo(d)' = CurrentBinding(call[d].host)'
                        /\ call'[d].plan \in granted'
                        /\ call'[d].pc # "dispatching" => dispatches'[call'[d].plan] = 0
      BY DEF ExecutionsBound, Executing
    <2>1. d = c
      <3>1. d # c => permit = d
        BY <1>1 DEF ServiceInv, ExecutionsBound, Executing
      <3> QED BY <3>1, SessionAssumption
    <2>2. call'[d] = x /\ x.host = h
      BY <1>1, <2>1
    <2>3. BoundTo(d)' = CurrentBinding(h)
      BY <1>1, <2>1, <2>2 DEF BoundTo
    <2>4. CurrentBinding(call[d].host)' = CurrentBinding(h)
      BY <1>2, <2>2 DEF CurrentBinding
    <2> QED BY <1>1, <1>2, <2>1, <2>2, <2>3, <2>4
  <1>4. PlansLive' /\ ObservationsLive'
    BY <1>1, StoresStayLive DEF ServiceInv, StoreInv
  <1>5. Sealing'
    BY <1>2 DEF ServiceInv, Sealing, ObservationsShrink
  <1>6. CallsCarry'
    BY <1>1 DEF ServiceInv, CallsCarry
  <1>7. permit' \in Calls \cup {Free}
    OBVIOUS
  <1> QED BY <1>1, <1>3, <1>4, <1>5, <1>6, <1>7 DEF ServiceInv

\* What a running execution has in hand.
LEMMA ExecutionInHand ==
    ASSUME ServiceInv, NEW c \in Calls, call[c].pc \in ExecutionPc
    PROVE  /\ call[c].host \in Hosts /\ call[c] \in CallStates /\ call[c].pc \in ServicePcs
           /\ permit = c /\ gate[call[c].host] = c
           /\ slot[call[c].host].state = "Connected"
           /\ BoundTo(c) = CurrentBinding(call[c].host)
           /\ call[c].plan \in granted /\ call[c].plan \in Plans
           /\ call[c].pc # "dispatching" => dispatches[call[c].plan] = 0
  <1>1. c \in Executing /\ call[c].pc \in ServicePcs
    BY DEF Executing, ServicePcs
  <1>2. call[c].host \in Hosts /\ call[c] \in CallStates
    BY <1>1, ServiceCallHost DEF ServiceInv
  <1>3. granted \subseteq Plans
    BY DEF ServiceInv, StoreInv, StoreTypeOK
  <1> QED BY <1>1, <1>2, <1>3 DEF ServiceInv, ExecutionsBound

\* An execution ends and gives everything up.
LEMMA EndExecutionKeeps ==
    ASSUME ServiceInv, NEW c \in Calls, call[c].pc \in ExecutionPc, EndExecution(c),
           KeepSessions, KeepAuthority, UNCHANGED dispatches
    PROVE  ServiceInv'
  <1>1. PICK h \in Hosts : h = call[c].host
    BY ExecutionInHand
  <1>2. permit = c /\ gate[h] = c /\ call[c] \in CallStates /\ call[c].pc \in ServicePcs
    BY <1>1, ExecutionInHand
  <1> DEFINE x == [Idle EXCEPT !.pc = "post_list", !.host = h, !.conn = call[c].conn]
  <1>3. Goto(c, x) /\ gate' = [gate EXCEPT ![h] = Free] /\ permit' = Free
    BY <1>1 DEF EndExecution
  <1>4. x \in CallStates /\ x.pc = "post_list" /\ x.host = h
    BY <1>2, IdleIsCall DEF Idle, CallStates, Pcs
  <1> HIDE DEF x
  <1>5. GateMoves(c, h)
    BY <1>2, <1>3 DEF GateMoves, ServiceInv, SessionInv, SessionTypeOK
  <1>6. ServiceCallMoves(c, h, x)
    BY <1>1, <1>2, <1>3, <1>4 DEF ServiceCallMoves, ServicePcs
  <1>7. /\ StoreInv' /\ PlansShrink /\ granted' = granted /\ sealed' = sealed
        /\ ObsTypeOK' /\ ObservationsShrink /\ obs_sealed' = obs_sealed
    BY StoresKept DEF KeepAuthority
  <1>8. DispatchesCounted'
    BY <1>7 DEF ServiceInv, DispatchesCounted
  <1>9. x.pc \notin ExecutionPc
    BY <1>4 DEF ExecutionPc
  <1> QED BY <1>2, <1>3, <1>4, <1>5, <1>6, <1>7, <1>8, <1>9, ExecutorKeeps

\* An execution goes on to its next step.
LEMMA ExecutionGoesOn ==
    ASSUME ServiceInv, NEW c \in Calls, call[c].pc \in ExecutionPc,
           NEW pc \in ExecutionPc, Goto(c, [call[c] EXCEPT !.pc = pc]),
           KeepSessions, KeepAuthority, UNCHANGED <<gate, permit>>,
           pc # "dispatching" => dispatches'[call[c].plan] = 0, DispatchesCounted'
    PROVE  ServiceInv'
  <1>1. PICK h \in Hosts : h = call[c].host
    BY ExecutionInHand
  <1>2. /\ permit = c /\ gate[h] = c /\ call[c] \in CallStates /\ call[c].pc \in ServicePcs
        /\ slot[h].state = "Connected" /\ BoundTo(c) = CurrentBinding(h)
        /\ call[c].plan \in granted
    BY <1>1, ExecutionInHand
  <1> DEFINE x == [call[c] EXCEPT !.pc = pc]
  <1>3. pc \in Pcs /\ pc \in ServicePcs /\ pc \notin {"planning", "plan_publishing", "admitting"}
    BY DEF Pcs, ExecutionPc, ServicePcs
  <1>4. /\ x \in CallStates /\ x.pc = pc /\ x.host = h /\ x.conn = call[c].conn
        /\ x.gen = call[c].gen /\ x.plan = call[c].plan
    BY <1>1, <1>2, <1>3, MovesOn
  <1>5. Goto(c, x)
    OBVIOUS
  <1> HIDE DEF x
  <1>6. GateMoves(c, h)
    BY DEF GateMoves, ServiceInv, SessionInv, SessionTypeOK
  <1>7. ServiceCallMoves(c, h, x)
    BY <1>1, <1>2, <1>3, <1>4, <1>5 DEF ServiceCallMoves
  <1>8. /\ StoreInv' /\ PlansShrink /\ granted' = granted /\ sealed' = sealed
        /\ ObsTypeOK' /\ ObservationsShrink /\ obs_sealed' = obs_sealed
    BY StoresKept DEF KeepAuthority
  <1>9. [host |-> x.host, session |-> x.conn, generation |-> x.gen] = CurrentBinding(h)
    BY <1>1, <1>2, <1>4 DEF BoundTo
  <1> QED BY <1>2, <1>3, <1>4, <1>6, <1>7, <1>8, <1>9, ExecutorKeeps

\* RemoteOperations::execute admits a call and consumes its plan.
LEMMA ExecuteAdmitKeeps ==
    ASSUME ServiceInv, NEW c \in Calls, ExecuteAdmit(c)
    PROVE  ServiceInv' /\ StoreNext
  <1>1. /\ call[c].pc = "admitting" /\ permit = Free /\ KeepSessions
        /\ UNCHANGED <<obsVars, dispatches>>
    BY DEF ExecuteAdmit, Admits
  <1>2. call[c].pc \in ServicePcs /\ call[c].pc \notin ExecutionPc
    BY <1>1 DEF ServicePcs, ExecutionPc
  <1>3. PICK h \in Hosts : h = call[c].host
    BY <1>2, ServiceCallHost DEF ServiceInv
  <1>4. PICK p \in Plans : p = call[c].plan
    BY <1>1 DEF ServiceInv, CallsCarry
  <1>5. call[c] \in CallStates /\ gate[h] = Free
    BY <1>3, ServiceCallHost DEF ExecuteAdmit, Admits, ServiceInv
  <1>6. ObsTypeOK' /\ ObservationsShrink /\ obs_sealed' = obs_sealed
    BY <1>1, StoresKept
  <1>7. StoreTypeOK /\ IndexConsistent /\ ConsumedNeverPending /\ {p} \subseteq Plans
    BY DEF ServiceInv, StoreInv
  <1>8. ASSUME NEW t \in ReadInstants, Consume(p, BoundTo(c), call[c].op, t),
               gate' = [gate EXCEPT ![h] = c], permit' = c,
               Goto(c, [call[c] EXCEPT !.pc = "consumed"])
        PROVE  ServiceInv' /\ StoreNext
    <2>1. /\ IsPending(p) /\ pending[p].binding = BoundTo(c) /\ pending[p].op = call[c].op
          /\ RemoveIds({p}) /\ granted' = granted \cup {p} /\ sealed' = sealed
      BY <1>8 DEF Consume, Matches
    <2>2. BoundTo(c) \in Binding /\ call[c].op \in Ops
      BY <1>7, <2>1 DEF StoreTypeOK, StoredAuthority, IsPending
    <2>3. StoreNext /\ StoreInv'
      <3>1. StoreNext
        BY <1>8, <2>2 DEF StoreNext
      <3> QED BY <3>1, StoreInvInductive DEF ServiceInv
    <2>4. PlansShrink
      BY <1>7, <2>1, RemovalShrinks
    <2>5. slot[h].state = "Connected" /\ BoundTo(c) = CurrentBinding(h)
      <3>1. PICK b \in Binding : b = BoundTo(c)
        BY <2>2
      <3>2. LiveBinding(b) /\ b.host = h
        BY <1>3, <2>1, <3>1 DEF ServiceInv, PlansLive, BoundTo
      <3>3. ~RevokingFor(h, b.session)
        BY <1>5, SessionAssumption DEF RevokingFor
      <3> QED BY <3>1, <3>2, <3>3 DEF LiveBinding
    <2>6. p \notin granted /\ dispatches[p] = 0
      BY <1>7, <2>1 DEF ConsumedNeverPending, ServiceInv, DispatchesCounted
    <2>7. DispatchesCounted'
      BY <1>1, <2>1 DEF ServiceInv, DispatchesCounted
    <2> DEFINE x == [call[c] EXCEPT !.pc = "consumed"]
    <2>8. "consumed" \in Pcs /\ "consumed" \in ServicePcs
      BY DEF Pcs, ServicePcs, ExecutionPc
    <2>9. /\ x \in CallStates /\ x.pc = "consumed" /\ x.host = h /\ x.conn = call[c].conn
          /\ x.gen = call[c].gen /\ x.plan = p
      BY <1>3, <1>4, <1>5, <2>8, MovesOn
    <2>10. Goto(c, x)
      BY <1>8
    <2> HIDE DEF x
    <2>11. GateMoves(c, h) /\ gate'[h] = c
      BY <1>5, <1>8 DEF GateMoves, ServiceInv, SessionInv, SessionTypeOK
    <2>12. ServiceCallMoves(c, h, x)
      BY <1>1, <1>2, <1>3, <2>8, <2>9, <2>10 DEF ServiceCallMoves
    <2>13. [host |-> x.host, session |-> x.conn, generation |-> x.gen] = CurrentBinding(h)
      BY <1>3, <2>5, <2>9 DEF BoundTo
    <2>14. x.plan \in granted' /\ dispatches'[x.plan] = 0
      BY <1>1, <2>1, <2>6, <2>9
    <2>15. ServiceInv'
      BY <1>1, <1>6, <1>8, <2>1, <2>3, <2>4, <2>5, <2>7, <2>9, <2>11, <2>12, <2>13, <2>14,
         ExecutorKeeps
    <2> QED BY <2>3, <2>15
  <1>9. ASSUME NEW t \in ReadInstants, ConsumeExpired(p, t), Done(c), UNCHANGED <<gate, permit>>
        PROVE  ServiceInv' /\ StoreNext
    <2>1. StoreNext /\ StoreInv'
      <3>1. StoreNext
        BY <1>9 DEF StoreNext
      <3> QED BY <3>1, StoreInvInductive DEF ServiceInv
    <2>2. RemoveIds({p}) /\ granted' = granted /\ sealed' = sealed
      BY <1>9 DEF ConsumeExpired
    <2>3. PlansShrink
      BY <1>7, <2>2, RemovalShrinks
    <2>4. call[c].pc \in ServicePcs \ ExecutionPc
      BY <1>2
    <2>5. ServiceInv'
      BY <1>1, <1>6, <1>9, <2>1, <2>2, <2>3, <2>4, WaitingStepKeeps
    <2> QED BY <2>1, <2>5
  <1> QED BY <1>3, <1>4, <1>8, <1>9 DEF ExecuteAdmit

\* revalidate, dispatch and the end of an execution.
LEMMA ExecutionStepsKeep ==
    ASSUME ServiceInv, NEW c \in Calls,
           ExecuteRevalidate(c) \/ ExecuteObserved(c) \/ ExecuteDispatch(c) \/ ExecuteFinish(c)
    PROVE  ServiceInv'
  <1>1. /\ KeepSessions /\ KeepAuthority /\ call[c].pc \in ExecutionPc
    BY DEF ExecuteRevalidate, ExecuteObserved, ExecuteDispatch, ExecuteFinish, ExecutionPc
  <1>2. CASE EndExecution(c) /\ UNCHANGED dispatches
    BY <1>1, <1>2, EndExecutionKeeps
  <1>3. ASSUME NEW pc \in {"revalidating", "ready"}, Goto(c, [call[c] EXCEPT !.pc = pc]),
               call[c].pc # "dispatching", UNCHANGED <<gate, permit, dispatches>>
        PROVE  ServiceInv'
    <2>1. dispatches'[call[c].plan] = 0 /\ pc \in ExecutionPc
      BY <1>1, <1>3, ExecutionInHand DEF ExecutionPc
    <2>2. DispatchesCounted'
      BY <1>1, <1>3 DEF ServiceInv, DispatchesCounted, KeepAuthority, storeVars
    <2> QED BY <1>1, <1>3, <2>1, <2>2, ExecutionGoesOn
  <1>4. CASE ExecuteRevalidate(c)
    BY <1>2, <1>3, <1>4 DEF ExecuteRevalidate
  <1>5. CASE ExecuteObserved(c)
    BY <1>2, <1>3, <1>5 DEF ExecuteObserved, serviceLocks
  <1>6. CASE ExecuteDispatch(c)
    <2>1. CASE sealed \/ call[c].conn \in cancelled[call[c].host]
      BY <1>2, <1>6, <2>1 DEF ExecuteDispatch
    <2>2. CASE ~(sealed \/ call[c].conn \in cancelled[call[c].host])
      <3>1. /\ dispatches' = [dispatches EXCEPT ![call[c].plan] = @ + 1]
            /\ Goto(c, [call[c] EXCEPT !.pc = "dispatching"])
            /\ UNCHANGED <<gate, permit>> /\ call[c].pc = "ready"
        BY <1>6, <2>2 DEF ExecuteDispatch, serviceLocks
      <3>2. PICK p \in Plans : p = call[c].plan /\ p \in granted /\ dispatches[p] = 0
        BY <1>1, <3>1, ExecutionInHand
      <3>3. granted' = granted
        BY <1>1 DEF KeepAuthority, storeVars
      <3>4. DispatchesCounted'
        <4>1. dispatches \in [Plans -> {0, 1}] /\ dispatches' = [dispatches EXCEPT ![p] = 0 + 1]
          BY <3>1, <3>2 DEF ServiceInv, DispatchesCounted
        <4>2. dispatches' = [dispatches EXCEPT ![p] = 1]
          BY <4>1
        <4>3. dispatches' \in [Plans -> {0, 1}]
          BY <4>1, <4>2
        <4>4. \A q \in Plans : dispatches'[q] # 0 => q = p \/ dispatches[q] # 0
          BY <4>1, <4>2
        <4> QED BY <3>2, <3>3, <4>3, <4>4 DEF ServiceInv, DispatchesCounted
      <3>5. "dispatching" \in ExecutionPc
        BY DEF ExecutionPc
      <3> QED BY <1>1, <3>1, <3>4, <3>5, ExecutionGoesOn
    <2> QED BY <2>1, <2>2
  <1>7. CASE ExecuteFinish(c)
    BY <1>2, <1>7 DEF ExecuteFinish
  <1> QED BY <1>4, <1>5, <1>6, <1>7

-----------------------------------------------------------------------------
\* Seen from the authority store, the life cycle only revokes.
LEMMA LifeCycleStoreSteps ==
    ASSUME SessionInv, HostNext
    PROVE  [StoreNext]_storeVars
  <1>1. CASE KeepAuthority
    BY <1>1 DEF KeepAuthority
  <1>2. ASSUME NEW h \in Hosts, RevokeHostAuthority(h) PROVE StoreNext
    BY <1>2 DEF RevokeHostAuthority, StoreNext
  <1>3. ASSUME NEW c \in Calls, SessionRevoke(c) PROVE StoreNext
    <2>1. call[c].pc \in GatePc
      BY <1>3 DEF SessionRevoke, GatePc
    <2>2. call[c].host \in Hosts /\ call[c].conn \in Sessions
      BY <2>1, HolderInHand, SessionAssumption DEF Numbers
    <2> QED BY <1>3, <2>2 DEF SessionRevoke, StoreNext
  <1>4. ASSUME NEW c \in Calls, SessionStep(c) PROVE [StoreNext]_storeVars
    BY <1>1, <1>2, <1>3, <1>4
       DEF SessionStep, ConnectBegin, ConnectRefused, ConnectEntry, ConnectFinish,
           DisconnectFinish, DisconnectFails, DeleteCommit, SessionClose, SessionSftp,
           RefreshFinish, OpenSftpFinish
  <1>5. ASSUME SessionCommands PROVE [StoreNext]_storeVars
    <2>1. ASSUME NEW c \in Calls, NEW h \in Hosts,
                 ConnectBegin(c, h) \/ ConnectRefused(c, h) \/
                 (\E pc \in ClosingPc : DisconnectBegin(c, h, pc))
          PROVE  StoreNext
      BY <1>2, <2>1 DEF ConnectBegin, ConnectRefused, ConnectEntry, DisconnectBegin
    <2>2. ASSUME NEW h \in Hosts, SaveHost(h) PROVE StoreNext
      BY <1>2, <2>2 DEF SaveHost
    <2>3. ASSUME NEW c \in Calls, NEW h \in Hosts,
                 SessionPoll(c, h) \/ RefreshBegin(c, h) \/ OpenSftpBegin(c, h)
          PROVE  KeepAuthority
      BY <2>3 DEF SessionPoll, RefreshBegin, OpenSftpBegin
    <2>4. ASSUME NEW h \in Hosts, TrustHostKey(h) \/ PlanRotation(h) \/ ExecuteRotation(h)
          PROVE  KeepAuthority
      BY <2>4 DEF TrustHostKey, PlanRotation, ExecuteRotation
    <2> QED BY <1>1, <1>5, <2>1, <2>2, <2>3, <2>4 DEF SessionCommands
  <1>6. ASSUME SessionStart PROVE [StoreNext]_storeVars
    BY <1>1, <1>5, <1>6
       DEF SessionStart, TransportCloses, ShutdownSftp, ShutdownSeal, ShutdownMark,
           ShutdownFinish, StoreNext
  <1> QED BY <1>4, <1>6 DEF HostNext

\* The commands the interface may invoke keep the invariant,
LEMMA ServiceCommandsKeep ==
    ASSUME ServiceInv, ServiceCommands
    PROVE  ServiceInv' /\ [StoreNext]_storeVars
  <1>1. ASSUME NEW c \in Calls, NEW h \in Hosts, ListBegin(c, h)
        PROVE  ServiceInv' /\ [StoreNext]_storeVars
    BY <1>1, ListBeginKeeps DEF ListBegin
  <1>2. ASSUME NEW op \in Ops, Plan(op) PROVE ServiceInv' /\ [StoreNext]_storeVars
    <2>1. ASSUME NEW c \in Calls, NEW h \in Hosts, PlanBegin(c, h, op)
          PROVE  ServiceInv' /\ [StoreNext]_storeVars
      BY <2>1, PlanBeginKeeps DEF PlanBegin
    <2>2. ASSUME NEW h \in Hosts, DiscardPlan(h, op)
          PROVE  ServiceInv' /\ [StoreNext]_storeVars
      BY <2>2, DiscardPlanKeeps
    <2> QED BY <1>2, <2>1, <2>2 DEF Plan
  <1>3. ASSUME NEW op \in Ops, Execute(op) PROVE ServiceInv' /\ [StoreNext]_storeVars
    <2>1. PICK c \in Calls, h \in Hosts, p \in Plans : ExecuteBegin(c, h, p, op)
      BY <1>3 DEF Execute
    <2>2. UNCHANGED storeVars
      BY <2>1 DEF ExecuteBegin, KeepAuthority
    <2> QED BY <2>1, <2>2, ExecuteBeginKeeps
  <1>4. \A op : Plan(op) \/ Execute(op) => op \in Ops
    BY DEF Plan, Execute
  <1> QED BY <1>1, <1>2, <1>3, <1>4
             DEF ServiceCommands, PlanResetFailed, PlanTryRestart, PlanReload, PlanStart,
                 ExecuteResetFailed, ExecuteTryRestart, ExecuteReload, ExecuteStart

\* and so do the steps of the commands that have begun.
LEMMA ServiceStepsKeep ==
    ASSUME ServiceInv, NEW c \in Calls, ServiceStep(c)
    PROVE  ServiceInv' /\ [StoreNext]_storeVars
  <1>1. CASE \E h \in Hosts : ListBegin(c, h)
    BY <1>1, ListBeginKeeps DEF ListBegin
  <1>2. CASE ListRefused(c) \/ ListObserved(c) \/ ListFails(c) \/ PlanObserved(c) \/ PlanFails(c)
             \/ ExecuteRefused(c)
    <2>1. UNCHANGED storeVars
      BY <1>2
         DEF ListRefused, ListObserved, ListFails, PlanObserved, PlanFails, ExecuteRefused,
             KeepAuthority
    <2> QED BY <1>2, <2>1, WaitingStepsKeep
  <1>3. CASE ListPublish(c)
    <2>1. UNCHANGED storeVars
      BY <1>3 DEF ListPublish
    <2> QED BY <1>3, <2>1, ListPublishKeeps
  <1>4. CASE PlanPublish(c)
    BY <1>4, PlanPublishKeeps
  <1>5. CASE ExecuteAdmit(c)
    BY <1>5, ExecuteAdmitKeeps
  <1>6. CASE ExecuteRevalidate(c) \/ ExecuteObserved(c) \/ ExecuteDispatch(c) \/ ExecuteFinish(c)
    <2>1. UNCHANGED storeVars
      BY <1>6
         DEF ExecuteRevalidate, ExecuteObserved, ExecuteDispatch, ExecuteFinish, KeepAuthority
    <2> QED BY <1>6, <2>1, ExecutionStepsKeep
  <1> QED BY <1>1, <1>2, <1>3, <1>4, <1>5, <1>6 DEF ServiceStep

\* The service invariant is inductive, and every step is one of the authority
\* store's or leaves it alone.
LEMMA ServiceNextKeeps ==
    ASSUME ServiceInv, [ServiceNext]_serviceVars
    PROVE  ServiceInv' /\ [StoreNext]_storeVars
  <1>1. ASSUME HostNext, UNCHANGED <<serviceLocks, dispatches>>
        PROVE  ServiceInv' /\ [StoreNext]_storeVars
    BY <1>1, HostStepsKeepServices, LifeCycleStoreSteps DEF ServiceInv
  <1>2. CASE UNCHANGED serviceVars
    <2>1. /\ UNCHANGED storeVars /\ UNCHANGED obsVars /\ UNCHANGED sessionVars
          /\ UNCHANGED <<permit, dispatches>>
      BY <1>2 DEF serviceVars, hostVars, serviceLocks
    <2>2. /\ StoreInv' /\ PlansShrink /\ granted' = granted /\ sealed' = sealed
          /\ ObsTypeOK' /\ ObservationsShrink /\ obs_sealed' = obs_sealed
      BY <2>1, StoresKept
    <2> QED BY <2>1, <2>2, StoreStepKeeps
  <1>3. CASE SessionStart /\ UNCHANGED <<serviceLocks, dispatches>>
    BY <1>1, <1>3, LifeCycleSteps
  <1>4. CASE ServiceCommands
    BY <1>4, ServiceCommandsKeep
  <1>5. CASE Timers
    BY <1>5, TimersKeep
  <1>6. ASSUME NEW c \in Calls, Advance(c) PROVE ServiceInv' /\ [StoreNext]_storeVars
    <2>1. CASE SessionStep(c) /\ UNCHANGED <<serviceLocks, dispatches>>
      BY <1>1, <2>1, LifeCycleSteps
    <2>2. CASE ServiceStep(c)
      BY <2>2, ServiceStepsKeep
    <2> QED BY <1>6, <2>1, <2>2 DEF Advance
  <1> QED BY <1>2, <1>3, <1>4, <1>5, <1>6 DEF ServiceNext

\* It holds initially.
LEMMA ServiceInitially ==
    ASSUME ServiceInit
    PROVE  ServiceInv
  <1>1. SessionInv /\ StoreInv
    BY SessionInitially, StoreInvInitially DEF ServiceInit, HostInit
  <1>2. ObsTypeOK /\ permit \in Calls \cup {Free} /\ Sealing
    BY DEF ServiceInit, HostInit, ObsInit, ObsTypeOK, Sealing, SessionInit
  <1>3. PlansLive /\ ObservationsLive
    BY DEF ServiceInit, HostInit, StoreInit, ObsInit, PlansLive, ObservationsLive, IsPending
  <1>4. \A c \in Calls : call[c].pc = "idle"
    BY IdleIsCall DEF ServiceInit, HostInit, SessionInit
  <1>5. ExecutionsBound /\ CallsCarry
    BY <1>4 DEF ExecutionsBound, Executing, ExecutionPc, CallsCarry
  <1>6. DispatchesCounted
    BY DEF ServiceInit, DispatchesCounted
  <1> QED BY <1>1, <1>2, <1>3, <1>5, <1>6 DEF ServiceInv

\* Whatever the interface invokes, whatever fails and in whatever order.
LEMMA ServiceInvHolds == ServiceSpec => []ServiceInv
  <1>1. ServiceInit => ServiceInv
    BY ServiceInitially
  <1>2. ServiceInv /\ [ServiceNext]_serviceVars => ServiceInv'
    BY ServiceNextKeeps
  <1> QED BY <1>1, <1>2, PTL DEF ServiceSpec

\* While nobody holds its gate, a host has no call that revokes.
LEMMA FreeGateRevokesNothing ==
    ASSUME NEW h, gate[h] = Free, NEW s
    PROVE  ~RevokingFor(h, s)
  BY SessionAssumption DEF RevokingFor

\* No order of connects, disconnects, edits, deletions, lost transports and late
\* plan_service_* results leaves service authority behind for a session that is
\* gone.
THEOREM AuthorityAlwaysCurrent == ServiceSpec => []AuthorityIsCurrent
  <1>1. ASSUME ServiceInv PROVE AuthorityIsCurrent
    <2> SUFFICES ASSUME NEW p \in Plans, IsPending(p), gate[pending[p].binding.host] = Free
                 PROVE  /\ slot[pending[p].binding.host].state = "Connected"
                        /\ pending[p].binding = CurrentBinding(pending[p].binding.host)
      BY DEF AuthorityIsCurrent
    <2>1. LiveBinding(pending[p].binding)
      BY <1>1 DEF ServiceInv, PlansLive
    <2> QED BY <2>1, FreeGateRevokesNothing DEF LiveBinding
  <1> QED BY <1>1, ServiceInvHolds, PTL

\* Nor does a listing that holds no lock while it waits for the remote host leave
\* observations behind.
THEOREM ObservationAlwaysCurrent == ServiceSpec => []ObservationIsCurrent
  <1>1. ASSUME ServiceInv PROVE ObservationIsCurrent
    <2> SUFFICES ASSUME NEW h \in Hosts, obs_sets[h] # NoSet, gate[h] = Free
                 PROVE  slot[h].state = "Connected" /\ obs_sets[h].binding = CurrentBinding(h)
      BY DEF ObservationIsCurrent
    <2>1. obs_sets[h].binding.host = h /\ LiveBinding(obs_sets[h].binding)
      BY <1>1 DEF ServiceInv, ObservationsLive
    <2> QED BY <2>1, FreeGateRevokesNothing DEF LiveBinding
  <1> QED BY <1>1, ServiceInvHolds, PTL

\* From consume to the transport's answer, an execution runs on the session its
\* plan was bound to.
THEOREM ExecutionsOnBoundSession == ServiceSpec => []ExecutesOnBoundSession
  <1>1. ServiceInv => ExecutesOnBoundSession
    BY DEF ServiceInv, ExecutionsBound, ExecutesOnBoundSession
  <1> QED BY <1>1, ServiceInvHolds, PTL

\* However often and from however many commands it is executed, a plan reaches the
\* remote host at most once.
THEOREM PlansDispatchedAtMostOnce == ServiceSpec => []DispatchedAtMostOnce
  <1>1. ServiceInv => DispatchedAtMostOnce
    BY DEF ServiceInv, DispatchesCounted, DispatchedAtMostOnce
  <1> QED BY <1>1, ServiceInvHolds, PTL

\* The application as a whole, and not only the store on its own, keeps the
\* one-shot promise: every command, revocation and timer is a step of it.
THEOREM ServicesImplementOneShot == ServiceSpec => ImplementsOneShot
  <1>1. ServiceInit => OneShot!Init
    BY DEF ServiceInit, HostInit, StoreInit, OneShot!Init
  <1>2. ServiceInv /\ [ServiceNext]_serviceVars => [OneShot!Next]_(OneShot!vars)
    BY ServiceNextKeeps, StoreStepIsOneShotStep DEF ServiceInv
  <1> QED BY <1>1, <1>2, ServiceInvHolds, PTL DEF ServiceSpec, OneShot!Spec, ImplementsOneShot
====
