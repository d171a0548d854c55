----------------------------- MODULE HostRecords -----------------------------
(***************************************************************************)
(* What survives the process: the host records of HostRepository           *)
(* (nexus-core, repository.rs) and the credentials of EncryptedSecretStore *)
(* (nexus-secrets, vault.rs), two databases that save_host and delete_host *)
(* (application/hosts.rs) keep in step, and the vault's key, which lives   *)
(* in a third place, the keychain of the operating system.                 *)
(*                                                                         *)
(* Credential ids and vault keys are drawn at random: an id is any one     *)
(* that nothing refers to, a key any one under which nothing is encrypted. *)
(* The process may crash between any two steps, a statement on a database  *)
(* may fail, and the keychain may lose its entry or refuse to open.        *)
(***************************************************************************)
EXTENDS HostIds, Naturals, FiniteSets

CONSTANTS
    Credentials,  \* ids a stored credential may get
    VaultKeys,    \* keys the keychain may hold
    Calls         \* save_host and delete_host commands in flight

ASSUME RecordsAssumption ==
    Nothing \notin Credentials \cup VaultKeys \cup Calls

VARIABLES
    record,    \* hosts table: the credential_id of each host
    secrets,   \* secrets table: the key each credential is encrypted with
    marker,    \* vault_state: the vault has been initialised
    keychain,  \* the key in the operating system's keychain
    mutation,  \* Application::mutation: the call that holds it
    gate,      \* the lifecycle gate of each host
    call,      \* the local state of each call
    orphans    \* credentials a crash or a failed clean-up has left behind

recordVars == <<record, secrets, marker, keychain, mutation, gate, call, orphans>>

\* old: the credential to be removed; new: the one the record is to have.
Idle == [pc |-> "idle", host |-> Nothing, new |-> Nothing, old |-> Nothing, key |-> Nothing]

RecordsInit ==
    /\ record = [h \in Hosts |-> Nothing]
    /\ secrets = [i \in Credentials |-> Nothing]
    /\ marker = FALSE
    /\ keychain = Nothing
    /\ mutation = Nothing
    /\ gate = [h \in Hosts |-> Nothing]
    /\ call = [c \in Calls |-> Idle]
    /\ orphans = {}

Saved == {h \in Hosts : record[h] # Nothing}
Stored == {i \in Credentials : secrets[i] # Nothing}
Referenced == {record[h] : h \in Saved}
InHand == {call[c].new : c \in Calls} \cup {call[c].old : c \in Calls}

\* HostId::new for a credential.
FreshCredentials == Credentials \ (Stored \cup Referenced \cup InHand)

\* getrandom::fill for a vault key.
FreshKeys == VaultKeys \ ({secrets[i] : i \in Stored} \cup {call[c].key : c \in Calls})

\* Everything a call still holds, given back as it returns.
Return(c) ==
    /\ call' = [call EXCEPT ![c] = Idle]
    /\ gate' = [h \in Hosts |-> IF gate[h] = c THEN Nothing ELSE gate[h]]
    /\ mutation' = IF mutation = c THEN Nothing ELSE mutation

Goto(c, pc) == call' = [call EXCEPT ![c].pc = pc] /\ UNCHANGED <<gate, mutation>>

-----------------------------------------------------------------------------
(***************************************************************************)
(* save_host                                                               *)
(***************************************************************************)
\* Takes the gate of the host if it edits one, then the mutation lock, and
\* reads the previous record.  Without a new credential the old one stays.
SaveBegin(c, h, renew) ==
    /\ call[c] = Idle
    /\ gate[h] = Nothing /\ mutation = Nothing
    /\ \A d \in Calls : call[d].host # h
    /\ h \notin Saved => renew
    /\ \E i \in IF renew THEN FreshCredentials ELSE {record[h]} :
          call' = [call EXCEPT ![c] = [pc |-> IF renew THEN "key" ELSE "saving", host |-> h,
                                       new |-> i, old |-> record[h], key |-> Nothing]]
    /\ gate' = IF h \in Saved THEN [gate EXCEPT ![h] = c] ELSE gate
    /\ mutation' = c
    /\ UNCHANGED <<record, secrets, marker, keychain, orphans>>

\* Fault variant of MayInitialise: any put may create a key.
MayAlwaysInitialise == TRUE

\* The marker decides whether a missing key may be created.
MayInitialise == ~marker

\* put, up to the key: `initialize` creates one, `key` only loads it.  The
\* keychain is written at once, whatever becomes of the transaction.
PutKey(c) ==
    /\ call[c].pc = "key"
    /\ \/ /\ keychain # Nothing
          /\ call' = [call EXCEPT ![c].pc = "put", ![c].key = keychain]
          /\ UNCHANGED keychain
       \/ /\ keychain = Nothing /\ MayInitialise
          /\ \E k \in FreshKeys :
                /\ keychain' = k
                /\ call' = [call EXCEPT ![c].pc = "put", ![c].key = k]
    /\ UNCHANGED <<record, secrets, marker, mutation, gate, orphans>>

\* put fails, at the key or in the transaction: the save ends.
PutFails(c) ==
    /\ call[c].pc \in {"key", "put"}
    /\ Return(c)
    /\ UNCHANGED <<record, secrets, marker, keychain, orphans>>

\* The transaction of put commits secret and marker together.
PutCommit(c) ==
    /\ call[c].pc = "put"
    /\ secrets' = [secrets EXCEPT ![call[c].new] = call[c].key]
    /\ marker' = TRUE
    /\ Goto(c, "saving")
    /\ UNCHANGED <<record, keychain, orphans>>

\* HostRepository::save succeeds; a replaced credential is still to go.
RecordSaved(c) ==
    /\ call[c].pc = "saving"
    /\ record' = [record EXCEPT ![call[c].host] = call[c].new]
    /\ IF call[c].old \in {Nothing, call[c].new}
       THEN Return(c)
       ELSE Goto(c, "removing")
    /\ UNCHANGED <<secrets, marker, keychain, orphans>>

\* Fault variant of RecordRefused: the credential just put is forgotten.
RecordRefusedKeeps(c) ==
    /\ call[c].pc = "saving"
    /\ Return(c)
    /\ UNCHANGED <<record, secrets, marker, keychain, orphans>>

\* HostRepository::save fails; a credential just put is taken back.
RecordRefused(c) ==
    /\ call[c].pc = "saving"
    /\ IF call[c].old = call[c].new
       THEN Return(c)
       ELSE /\ call' = [call EXCEPT ![c].pc = "removing", ![c].old = call[c].new]
            /\ UNCHANGED <<gate, mutation>>
    /\ UNCHANGED <<record, secrets, marker, keychain, orphans>>

-----------------------------------------------------------------------------
(***************************************************************************)
(* delete_host.  The session ends between the two sections that hold the   *)
(* mutation lock; the gate is held throughout.                             *)
(***************************************************************************)
DeleteBegin(c, h) ==
    /\ call[c] = Idle
    /\ gate[h] = Nothing /\ mutation = Nothing
    /\ h \in Saved
    /\ gate' = [gate EXCEPT ![h] = c]
    /\ call' = [call EXCEPT ![c] = [Idle EXCEPT !.pc = "deleting", !.host = h, !.old = record[h]]]
    /\ UNCHANGED <<record, secrets, marker, keychain, mutation, orphans>>

\* The session cannot be closed, or HostRepository::delete fails.
DeleteFails(c) ==
    /\ call[c].pc = "deleting"
    /\ Return(c)
    /\ UNCHANGED <<record, secrets, marker, keychain, orphans>>

RecordDeleted(c) ==
    /\ call[c].pc = "deleting" /\ mutation = Nothing
    /\ record' = [record EXCEPT ![call[c].host] = Nothing]
    /\ Goto(c, "removing")
    /\ UNCHANGED <<secrets, marker, keychain, orphans>>

-----------------------------------------------------------------------------
\* remove_secret, the last step of either command; an error leaves an orphan.
RemoveSecret(c) ==
    /\ call[c].pc = "removing"
    /\ \/ secrets' = [secrets EXCEPT ![call[c].old] = Nothing] /\ UNCHANGED orphans
       \/ orphans' = orphans \cup {call[c].old} /\ UNCHANGED secrets
    /\ Return(c)
    /\ UNCHANGED <<record, marker, keychain>>

\* The process ends at any point and is started again: the tables are opened
\* (a vault that has secrets counts as initialised) and nothing is in flight.
Crash ==
    /\ call' = [c \in Calls |-> Idle]
    /\ gate' = [h \in Hosts |-> Nothing]
    /\ mutation' = Nothing
    /\ marker' = (marker \/ Stored # {})
    /\ orphans' = orphans \cup (Stored \ Referenced)
    /\ UNCHANGED <<record, secrets, keychain>>

\* The user or the system removes the entry from the keychain.
KeyLost ==
    /\ keychain # Nothing
    /\ keychain' = Nothing
    /\ UNCHANGED <<record, secrets, marker, mutation, gate, call, orphans>>

\* SecretStore::get: the credential is there, and the key it was put under.
Readable(i) == i \in Stored /\ secrets[i] = keychain

RecordsNext ==
    \/ \E c \in Calls :
          \/ \E h \in Hosts, renew \in BOOLEAN : SaveBegin(c, h, renew)
          \/ PutKey(c)
          \/ PutFails(c)
          \/ PutCommit(c)
          \/ RecordSaved(c)
          \/ RecordRefused(c)
          \/ \E h \in Hosts : DeleteBegin(c, h)
          \/ DeleteFails(c)
          \/ RecordDeleted(c)
          \/ RemoveSecret(c)
    \/ Crash
    \/ KeyLost

RecordsSpec == RecordsInit /\ [][RecordsNext]_recordVars

-----------------------------------------------------------------------------
\* No record refers to a credential that is gone, whichever of the two
\* databases a crash or an error has left behind; and what no record refers to
\* is about to be used or removed by a call, or is an orphan of such an accident.
RecordsMatchSecrets ==
    /\ Referenced \subseteq Stored
    /\ Stored \ Referenced \subseteq orphans \cup InHand
    /\ \A g, h \in Saved : record[g] = record[h] => g = h

\* Every stored credential is encrypted under one key, and a keychain that has
\* an entry has that key: neither a crash between the keychain and the vault nor
\* a lost entry makes a second one.
OneVaultKey ==
    /\ \A i, j \in Stored : secrets[i] = secrets[j]
    /\ \A i \in Stored : keychain \in {Nothing, secrets[i]}
=============================================================================
