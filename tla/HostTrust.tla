------------------------------ MODULE HostTrust ------------------------------
(***************************************************************************)
(* Which server key a host is trusted for: the pins of KnownHosts          *)
(* (nexus-ssh, known_hosts.rs), the check russh makes of a server's key    *)
(* before it authenticates (handler.rs), and the commands by which a user  *)
(* decides about a key, trust_host_key (application/identity.rs) and the   *)
(* rotation of a changed key (rotation.rs).  Composed with HostRecords:    *)
(* the record a connection attempt works from says which endpoint is       *)
(* dialled and which credential is sent there.                             *)
(*                                                                         *)
(* A pin belongs to an endpoint, so two hosts with the same endpoint share *)
(* it.  A server may present any key at any handshake.  A generation is    *)
(* only ever compared with the current one, so an attempt carries a flag   *)
(* that says whether it still is; a plan needs none, as every step that    *)
(* raises the generation of its host drops it.  How a session is opened    *)
(* and closed in detail is HostSessions.                                   *)
(***************************************************************************)
EXTENDS HostRecords

CONSTANTS
    Endpoints,   \* canonical hostname and port
    ServerKeys,  \* fingerprints (algorithm and SHA-256) a server may present
    Attempts     \* connect_host commands in flight

ASSUME TrustAssumption == Nothing \notin Endpoints \cup ServerKeys \cup Attempts

VARIABLES
    pin,       \* ssh_host_keys: the pinned key of each endpoint
    view,      \* HostSession of each host: its state and its challenge
    session,   \* the endpoint and the key of each host's transport
    plan,      \* rotation_plans: what the plan of each host would change
    attempt,   \* connect_host after the release of the gate
    endpoint,  \* hosts table: the endpoint of each host
    approved   \* endpoints and keys the user has accepted

trustOnlyVars == <<pin, view, session, plan, attempt, endpoint, approved>>
trustVars == <<recordVars, trustOnlyVars>>

NoChange == [endpoint |-> Nothing, from |-> Nothing, to |-> Nothing]
Disconnected == [state |-> "Disconnected", challenge |-> NoChange]
NoSession == [endpoint |-> Nothing, key |-> Nothing]
NoAttempt == [pc |-> "idle", host |-> Nothing, endpoint |-> Nothing, credential |-> Nothing,
              live |-> FALSE, key |-> Nothing]

TrustInit ==
    /\ RecordsInit
    /\ pin = [e \in Endpoints |-> Nothing]
    /\ view = [h \in Hosts |-> Disconnected]
    /\ session = [h \in Hosts |-> NoSession]
    /\ plan = [h \in Hosts |-> NoChange]
    /\ attempt = [a \in Attempts |-> NoAttempt]
    /\ endpoint = [h \in Hosts |-> Nothing]
    /\ approved = {}

InUse(h) == view[h].state \in {"Connecting", "Connected"}

\* A lifecycle command that holds its locks for one step only.
Enter(h) == gate[h] = Nothing /\ mutation = Nothing

\* data.generation += 1 (and the token of the attempt is cancelled).
Overtake(h) ==
    attempt' = [a \in Attempts |->
                  IF attempt[a].host = h THEN [attempt[a] EXCEPT !.live = FALSE] ELSE attempt[a]]

DropPlan(h) == plan' = [plan EXCEPT ![h] = NoChange]

Reset(h) ==
    /\ view' = [view EXCEPT ![h] = Disconnected]
    /\ session' = [session EXCEPT ![h] = NoSession]

-----------------------------------------------------------------------------
(***************************************************************************)
(* KnownHosts                                                              *)
(***************************************************************************)
\* verify and compare_pin: nothing to report, or a challenge that says which
\* pin the presented key is at odds with; connect_host turns it into a state.
Verify(e, k) ==
    IF pin[e] = k THEN Disconnected
    ELSE [state |-> IF pin[e] = Nothing THEN "AwaitingTrust" ELSE "Failed",
          challenge |-> [endpoint |-> e, from |-> pin[e], to |-> k]]

\* trust: a pin that is already there must be the same.
Trustable(ch) == pin[ch.endpoint] \in {Nothing, ch.to}

\* Fault variant of Rotatable: whatever is pinned by now is replaced.
RotatableAnyPin(ch) == ch.from # ch.to

\* rotate: compare and swap.
Rotatable(ch) == pin[ch.endpoint] = ch.from /\ ch.from # ch.to

Pin(ch) ==
    /\ pin' = [pin EXCEPT ![ch.endpoint] = ch.to]
    /\ approved' = approved \cup {<<ch.endpoint, ch.to>>}

-----------------------------------------------------------------------------
(***************************************************************************)
(* connect_host and establish                                              *)
(***************************************************************************)
ConnectBegin(a, h) ==
    /\ attempt[a] = NoAttempt
    /\ Enter(h) /\ h \in Saved /\ ~InUse(h)
    /\ DropPlan(h)
    /\ view' = [view EXCEPT ![h] = [Disconnected EXCEPT !.state = "Connecting"]]
    /\ session' = [session EXCEPT ![h] = NoSession]
    /\ attempt' = [b \in Attempts |->
                     IF b = a
                     THEN [NoAttempt EXCEPT !.pc = "secret", !.host = h, !.live = TRUE,
                                           !.endpoint = endpoint[h], !.credential = record[h]]
                     ELSE IF attempt[b].host = h THEN [attempt[b] EXCEPT !.live = FALSE]
                     ELSE attempt[b]]
    /\ UNCHANGED <<recordVars, pin, endpoint, approved>>

\* Fault variant of Current: an attempt that was overtaken still counts.
CurrentAlways(a) == TRUE

\* The recheck of connect_host: same generation, not cancelled.
Current(a) == attempt[a].live

\* The end of connect_host: what became of the attempt is published on the
\* host's slot, unless the attempt was overtaken.
Publish(a, v, s) ==
    /\ view' = IF Current(a) THEN [view EXCEPT ![attempt[a].host] = v] ELSE view
    /\ session' = IF Current(a) THEN [session EXCEPT ![attempt[a].host] = s] ELSE session
    /\ attempt' = [attempt EXCEPT ![a] = NoAttempt]

\* secrets.get: a credential that cannot be read ends the attempt, as may
\* anything on the way to the handshake and after it.
ReadSecret(a) ==
    /\ attempt[a].pc = "secret" /\ Readable(attempt[a].credential)
    /\ attempt' = [attempt EXCEPT ![a].pc = "handshake"]
    /\ UNCHANGED <<recordVars, pin, view, session, plan, endpoint, approved>>

AttemptFails(a) ==
    /\ attempt[a].pc # "idle"
    /\ Publish(a, [Disconnected EXCEPT !.state = "Failed"], NoSession)
    /\ UNCHANGED <<recordVars, pin, plan, endpoint, approved>>

\* check_server_key: the key the server presents is looked up under the
\* endpoint of the record the attempt began with.
CheckServerKey(a) ==
    /\ attempt[a].pc = "handshake"
    /\ \E k \in ServerKeys :
          LET verdict == Verify(attempt[a].endpoint, k)
          IN  IF verdict = Disconnected
              THEN /\ attempt' = [attempt EXCEPT ![a].pc = "verified", ![a].key = k]
                   /\ UNCHANGED <<view, session>>
              ELSE Publish(a, verdict, NoSession)
    /\ UNCHANGED <<recordVars, pin, plan, endpoint, approved>>

\* The credential goes to the server, and is accepted.
Authenticate(a) ==
    /\ attempt[a].pc = "verified"
    /\ attempt' = [attempt EXCEPT ![a].pc = "authenticated"]
    /\ UNCHANGED <<recordVars, pin, view, session, plan, endpoint, approved>>

\* Discovery has succeeded as well.
ConnectFinish(a) ==
    /\ attempt[a].pc = "authenticated"
    /\ Publish(a, [Disconnected EXCEPT !.state = "Connected"],
                  [endpoint |-> attempt[a].endpoint, key |-> attempt[a].key])
    /\ UNCHANGED <<recordVars, pin, plan, endpoint, approved>>

\* disconnect_host, or get_session that finds the transport closed, here in one step.
Disconnect(h) ==
    /\ Enter(h) /\ h \in Saved
    /\ view[h] # Disconnected
    /\ Reset(h) /\ Overtake(h) /\ DropPlan(h)
    /\ UNCHANGED <<recordVars, pin, endpoint, approved>>

-----------------------------------------------------------------------------
\* trust_host_key: accepts the challenge on the view of a host that awaits
\* trust, and no other; a key that KnownHosts refuses changes nothing.
TrustHostKey(h) ==
    LET ch == view[h].challenge
    IN  /\ Enter(h) /\ h \in Saved
        /\ view[h].state = "AwaitingTrust" /\ ch.from = Nothing
        /\ Trustable(ch)
        /\ Pin(ch)
        /\ DropPlan(h)
        /\ view' = [view EXCEPT ![h] = Disconnected]
        /\ UNCHANGED <<recordVars, session, attempt, endpoint>>

\* changed_challenge: the session failed at a key that is at odds with the pin
\* of the endpoint the host still has.
Changed(h) ==
    /\ view[h].state = "Failed" /\ session[h] = NoSession
    /\ view[h].challenge # NoChange /\ view[h].challenge.from # Nothing
    /\ view[h].challenge.endpoint = endpoint[h]

\* plan_host_key_rotation retires the plan before it; the pin must be the one
\* the handshake was at odds with, and still at odds with the presented key.
PlanRotation(h) ==
    /\ Enter(h) /\ h \in Saved
    /\ LET ch == view[h].challenge
           ok == Changed(h) /\ pin[ch.endpoint] = ch.from /\ ch.from # ch.to
       IN  plan' = [plan EXCEPT ![h] = IF ok THEN ch ELSE NoChange]
    /\ UNCHANGED <<recordVars, pin, view, session, attempt, endpoint, approved>>

\* execute_host_key_rotation consumes the plan, then checks it; it may also
\* have expired, or the database may fail.
ExecuteRotation(h) ==
    /\ Enter(h)
    /\ plan[h] # NoChange
    /\ DropPlan(h)
    /\ \/ UNCHANGED <<pin, view, session, attempt, approved>>
       \/ /\ h \in Saved
          /\ Changed(h) /\ view[h].challenge = plan[h]
          /\ Rotatable(plan[h])
          /\ Pin(plan[h])
          /\ Reset(h) /\ Overtake(h)
    /\ UNCHANGED <<recordVars, endpoint>>

-----------------------------------------------------------------------------
(***************************************************************************)
(* save_host and delete_host on this side: an edit is refused while the    *)
(* session is in use, and the pending trust of a host goes as soon as its  *)
(* record has changed.                                                     *)
(***************************************************************************)
SaveHost(c, h, renew) == SaveBegin(c, h, renew) /\ ~InUse(h) /\ UNCHANGED trustOnlyVars

Invalidate(h) == Reset(h) /\ Overtake(h) /\ DropPlan(h)

HostSaved(c, e) ==
    /\ RecordSaved(c)
    /\ endpoint' = [endpoint EXCEPT ![call[c].host] = e]
    /\ Invalidate(call[c].host)
    /\ UNCHANGED <<pin, approved>>

\* delete_host ends the session of the host first.
DeleteHost(c, h) ==
    /\ DeleteBegin(c, h)
    /\ Reset(h) /\ Overtake(h) /\ DropPlan(h)
    /\ UNCHANGED <<pin, endpoint, approved>>

HostDeleted(c) ==
    /\ RecordDeleted(c)
    /\ endpoint' = [endpoint EXCEPT ![call[c].host] = Nothing]
    /\ UNCHANGED <<pin, view, session, plan, attempt, approved>>

SecretStep(c) == PutKey(c) \/ PutFails(c) \/ PutCommit(c) \/ RecordRefused(c)
                 \/ DeleteFails(c) \/ RemoveSecret(c)

\* A restart forgets the views, the attempts and the plans.
Restart ==
    /\ Crash
    /\ view' = [h \in Hosts |-> Disconnected]
    /\ session' = [h \in Hosts |-> NoSession]
    /\ plan' = [h \in Hosts |-> NoChange]
    /\ attempt' = [a \in Attempts |-> NoAttempt]
    /\ UNCHANGED <<pin, endpoint, approved>>

TrustNext ==
    \/ \E a \in Attempts :
          \/ \E h \in Hosts : ConnectBegin(a, h)
          \/ ReadSecret(a)
          \/ AttemptFails(a)
          \/ CheckServerKey(a)
          \/ Authenticate(a)
          \/ ConnectFinish(a)
    \/ \E h \in Hosts :
          \/ Disconnect(h)
          \/ TrustHostKey(h)
          \/ PlanRotation(h)
          \/ ExecuteRotation(h)
    \/ \E c \in Calls :
          \/ \E h \in Hosts, renew \in BOOLEAN : SaveHost(c, h, renew)
          \/ \E h \in Hosts : DeleteHost(c, h)
          \/ \E e \in Endpoints : HostSaved(c, e)
          \/ HostDeleted(c)
          \/ SecretStep(c) /\ UNCHANGED trustOnlyVars
    \/ KeyLost /\ UNCHANGED trustOnlyVars
    \/ Restart

TrustSpec == TrustInit /\ [][TrustNext]_trustVars

-----------------------------------------------------------------------------
\* A pin only changes in a way some user is looking at: an unknown key on an
\* endpoint without a pin, or the exact pair of keys of a pending rotation plan,
\* although another host with the same endpoint may have changed the pin since.
PinChangesAsShown ==
    [][\A e \in Endpoints : pin'[e] # pin[e] =>
          \E h \in Hosts :
             LET change == [endpoint |-> e, from |-> pin[e], to |-> pin'[e]]
             IN  \/ view[h] = [state |-> "AwaitingTrust", challenge |-> change]
                 \/ plan[h] = change]_trustVars

\* A connected session goes to the endpoint the host's record names now, and its
\* server showed a key the user has accepted for that endpoint, however many edits,
\* deletions and overtaken attempts came between; an attempt that may yet be
\* published finds its credential in the vault, and no credential is sent to a
\* server whose key has not been accepted.
ConnectedIsTrusted ==
    /\ \A h \in Hosts : view[h].state = "Connected" =>
          /\ h \in Saved /\ session[h].endpoint = endpoint[h]
          /\ <<session[h].endpoint, session[h].key>> \in approved
    /\ \A a \in Attempts :
          /\ attempt[a].live => attempt[a].credential \in Stored
          /\ attempt[a].pc = "authenticated" =>
                <<attempt[a].endpoint, attempt[a].key>> \in approved
=============================================================================
