--------------------------- MODULE SessionBindings ---------------------------
(***************************************************************************)
(* What the authority store and the observation store share: the binding   *)
(* of a plan or an observation to one authenticated session, and the       *)
(* clock.  Both stores read Instant::now() before they take their mutex,   *)
(* so the instant a method works with may lag behind the clock.            *)
(***************************************************************************)
EXTENDS Integers

CONSTANTS
    Hosts,        \* HostId
    Sessions,     \* HostSessionId
    Generations,  \* values of SessionData.generation
    LockLag,      \* ticks that may pass between Instant::now() and lock()
    MaxTime       \* bound on the clock

ASSUME ClockAssumption ==
    /\ LockLag \in Nat
    /\ MaxTime \in Nat
    /\ Generations \subseteq Nat

VARIABLE clock

Binding == [host : Hosts, session : Sessions, generation : Generations]

\* The instants a method may have read before it got the lock.
ReadInstants == {t \in 0..clock : clock - t <= LockLag}

Tick ==
    /\ clock < MaxTime
    /\ clock' = clock + 1
=============================================================================
