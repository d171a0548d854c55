-------------------------- MODULE OneShotAuthority --------------------------
(***************************************************************************)
(* What the authority store promises its callers: a host has at most one   *)
(* live plan, a plan is issued once, a live plan is granted to exactly one *)
(* caller or ends, neither can be undone, and once closed nothing is       *)
(* issued or granted.                                                      *)
(***************************************************************************)
CONSTANTS Hosts, Plans, NoPlan

VARIABLES live, issued, taken, closed

vars == <<live, issued, taken, closed>>

Init ==
    /\ live = [h \in Hosts |-> NoPlan]
    /\ issued = {}
    /\ taken = {}
    /\ closed = FALSE

(***************************************************************************)
(* Issuing a plan for h ends the one h had; plans of the hosts in `ended`  *)
(* may end at the same moment because they have expired.                   *)
(***************************************************************************)
Issue(p, h, ended) ==
    /\ ~closed
    /\ p \notin issued
    /\ live' = [g \in Hosts |-> IF g = h THEN p
                                ELSE IF g \in ended THEN NoPlan ELSE live[g]]
    /\ issued' = issued \cup {p}
    /\ UNCHANGED <<taken, closed>>

Grant(h) ==
    /\ ~closed
    /\ live[h] \in issued \ taken
    /\ live' = [live EXCEPT ![h] = NoPlan]
    /\ taken' = taken \cup {live[h]}
    /\ UNCHANGED <<issued, closed>>

End(ended) ==
    /\ live' = [h \in Hosts |-> IF h \in ended THEN NoPlan ELSE live[h]]
    /\ UNCHANGED <<issued, taken, closed>>

Close ==
    /\ closed' = TRUE
    /\ live' = [h \in Hosts |-> NoPlan]
    /\ UNCHANGED <<issued, taken>>

Next ==
    \/ \E p \in Plans, h \in Hosts, ended \in SUBSET Hosts : Issue(p, h, ended)
    \/ \E h \in Hosts : Grant(h)
    \/ \E ended \in SUBSET Hosts : End(ended)
    \/ Close

Spec == Init /\ [][Next]_vars
=============================================================================
