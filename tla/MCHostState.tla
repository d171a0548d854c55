----------------------------- MODULE MCHostState -----------------------------
(***************************************************************************)
(* Two components that share no state, checked side by side: a behaviour   *)
(* is one of HostTrust (two hosts, two endpoints, three server keys, a     *)
(* save or delete and a connection attempt in flight, crashes, a keychain  *)
(* that loses its key) or one of LocalGrants (two hosts, two pickers, a    *)
(* full store, sessions that end under an open picker).                    *)
(***************************************************************************)
EXTENDS HostTrust, LocalGrants, TLC

VARIABLE part

StateInit == TrustInit /\ GrantsInit /\ part \in {"trust", "grants"}

StateNext ==
    /\ \/ part = "trust" /\ TrustNext /\ UNCHANGED grantVars
       \/ part = "grants" /\ GrantsNext /\ UNCHANGED trustVars
    /\ UNCHANGED part

StateSpec == StateInit /\ [][StateNext]_<<trustVars, grantVars, part>>

Alike == Permutations(Hosts) \cup Permutations(Endpoints) \cup Permutations(Credentials)
         \cup Permutations(VaultKeys) \cup Permutations(ServerKeys)
=============================================================================
