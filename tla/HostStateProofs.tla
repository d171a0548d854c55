--------------------------- MODULE HostStateProofs ---------------------------
(***************************************************************************)
(* The state of a host that outlives a session, for any sets of hosts,     *)
(* credentials, keys, endpoints, grants and commands in flight: records,   *)
(* secrets and the vault key stay in step (HostRecords), pins change only  *)
(* as shown and a connected session is a trusted one (HostTrust), and no   *)
(* grant is left without an owner (LocalGrants).                           *)
(***************************************************************************)
EXTENDS HostTrust, LocalGrants, TLAPS

MaybeCredential == Credentials \cup {Nothing}
MaybeKey == VaultKeys \cup {Nothing}

Call == [pc : {"idle", "key", "put", "saving", "deleting", "removing"},
         host : Hosts \cup {Nothing}, new : MaybeCredential, old : MaybeCredential,
            key : MaybeKey]

RecordsTypeOK ==
    /\ record \in [Hosts -> MaybeCredential]
    /\ secrets \in [Credentials -> MaybeKey]
    /\ marker \in BOOLEAN
    /\ keychain \in MaybeKey
    /\ mutation \in Calls \cup {Nothing}
    /\ gate \in [Hosts -> Calls \cup {Nothing}]
    /\ call \in [Calls -> Call]
    /\ orphans \in SUBSET Credentials

Busy(c) == call[c].pc # "idle"
Saving(c) == call[c].pc \in {"key", "put", "saving"}

\* A command holds what keeps others off its host: the gate if there is a record,
\* the mutation lock while it saves.
LocksHeld ==
    \A c \in Calls :
        /\ ~Busy(c) => call[c] = Idle
        /\ Busy(c) => call[c].host \in Hosts
        /\ Busy(c) /\ call[c].host \in Saved => gate[call[c].host] = c
        /\ Saving(c) => mutation = c
        /\ \A d \in Calls : Busy(c) /\ Busy(d) /\ call[c].host = call[d].host => c = d

\* Which credentials a command has in hand at each of its steps.
CredentialsInHand ==
    \A c \in Calls :
        /\ Saving(c) => call[c].new \in Credentials /\ call[c].old = record[call[c].host]
        /\ call[c].pc \in {"key", "put"} => call[c].new \notin Stored \cup Referenced
        /\ call[c].pc = "saving" =>
              /\ call[c].new \in Stored
              /\ call[c].new = call[c].old \/ call[c].new \notin Referenced
        /\ call[c].pc = "deleting" =>
              call[c].host \in Saved /\ call[c].old = record[call[c].host] /\ call[c].new = Nothing
        /\ call[c].pc = "removing" =>
              /\ call[c].old \in Credentials \ Referenced
              /\ call[c].new \in {Nothing, call[c].old, record[call[c].host]}
        /\ \A d \in Calls : Saving(c) /\ call[d].pc = "removing" => call[c].new # call[d].old

\* The key a command is about to encrypt with is the one everything is under.
KeyInHand ==
    /\ Stored # {} => marker
    /\ \A c \in Calls : call[c].pc = "put" =>
          /\ call[c].key \in VaultKeys
          /\ keychain \in {Nothing, call[c].key}
          /\ \A i \in Stored : secrets[i] = call[c].key

\* The inductive invariant of HostRecords.
RecordsInv ==
    /\ RecordsTypeOK
    /\ LocksHeld
    /\ CredentialsInHand
    /\ KeyInHand
    /\ RecordsMatchSecrets
    /\ OneVaultKey

\* save_host takes the lock of the repository and the gate of a host that is saved.
LEMMA SaveBeginKeepsRecords ==
    ASSUME RecordsInv, NEW c \in Calls, NEW h \in Hosts, NEW renew \in BOOLEAN,
           SaveBegin(c, h, renew)
    PROVE  RecordsInv'
  <1> USE RecordsAssumption, HostIdsAssumption DEF RecordsInv, RecordsTypeOK, Call,
     MaybeCredential, MaybeKey
  <1>1. RecordsTypeOK'
    BY DEF SaveBegin, FreshCredentials, InHand, Idle
  <1>2. LocksHeld'
    BY SMTT(30) DEF SaveBegin, FreshCredentials, InHand, Idle, LocksHeld, Busy, Saving, Saved
  <1>3. CredentialsInHand'
    BY SMTT(30) DEF SaveBegin, FreshCredentials, InHand, Idle, CredentialsInHand, LocksHeld,
           RecordsMatchSecrets, Busy, Saving, Saved, Stored, Referenced
  <1>4. KeyInHand'
    BY SMTT(30)
    DEF SaveBegin, FreshCredentials, InHand, Idle, KeyInHand, OneVaultKey, LocksHeld, Saving,
           Busy, Stored
  <1>5. RecordsMatchSecrets'
    BY SMTT(30)
    DEF SaveBegin, FreshCredentials, InHand, Idle, RecordsMatchSecrets, CredentialsInHand,
           LocksHeld, Saved, Stored, Referenced, Busy, Saving
  <1>6. OneVaultKey'
    BY DEF SaveBegin, FreshCredentials, InHand, Idle, OneVaultKey, KeyInHand, Stored
  <1> QED BY <1>1, <1>2, <1>3, <1>4, <1>5, <1>6

\* put obtains the vault key: the one everything is under, or a new one while nothing is
\* stored under another.
LEMMA PutKeyKeepsRecords ==
    ASSUME RecordsInv, NEW c \in Calls, PutKey(c)
    PROVE  RecordsInv'
  <1> USE RecordsAssumption, HostIdsAssumption DEF RecordsInv, RecordsTypeOK, Call,
     MaybeCredential, MaybeKey
  <1>1. RecordsTypeOK'
    BY DEF PutKey, FreshKeys, MayInitialise
  <1>2. LocksHeld'
    BY SMTT(30) DEF PutKey, FreshKeys, MayInitialise, LocksHeld, Busy, Saving, Saved
  <1>3. CredentialsInHand'
    BY SMTT(30)
    DEF PutKey, FreshKeys, MayInitialise, CredentialsInHand, LocksHeld, RecordsMatchSecrets,
           Busy, Saving, Saved, Stored, Referenced
  <1>4. KeyInHand'
    BY SMTT(30)
    DEF PutKey, FreshKeys, MayInitialise, KeyInHand, OneVaultKey, LocksHeld, Saving, Busy,
           Stored
  <1>5. RecordsMatchSecrets'
    BY SMTT(30) DEF PutKey, FreshKeys, MayInitialise, RecordsMatchSecrets, CredentialsInHand,
           LocksHeld, Saved, Stored, Referenced, InHand, Busy, Saving
  <1>6. OneVaultKey'
    BY DEF PutKey, FreshKeys, MayInitialise, OneVaultKey, KeyInHand, Stored
  <1> QED BY <1>1, <1>2, <1>3, <1>4, <1>5, <1>6

\* put fails: no ciphertext was written, and the locks are given back.
LEMMA PutFailsKeepsRecords ==
    ASSUME RecordsInv, NEW c \in Calls, PutFails(c)
    PROVE  RecordsInv'
  <1> USE RecordsAssumption, HostIdsAssumption DEF RecordsInv, RecordsTypeOK, Call,
     MaybeCredential, MaybeKey
  <1>1. RecordsTypeOK'
    BY DEF PutFails, Return, Idle
  <1>2. LocksHeld'
    BY SMTT(30) DEF PutFails, Return, Idle, LocksHeld, Busy, Saving, Saved
  <1>3. CredentialsInHand'
    BY SMTT(30)
    DEF PutFails, Return, Idle, CredentialsInHand, LocksHeld, RecordsMatchSecrets, Busy,
           Saving, Saved, Stored, Referenced
  <1>4. KeyInHand'
    BY SMTT(30)
    DEF PutFails, Return, Idle, KeyInHand, OneVaultKey, LocksHeld, Saving, Busy, Stored
  <1>5. RecordsMatchSecrets'
    BY SMTT(30)
    DEF PutFails, Return, Idle, RecordsMatchSecrets, CredentialsInHand, LocksHeld, Saved,
           Stored, Referenced, InHand, Busy, Saving
  <1>6. OneVaultKey'
    BY DEF PutFails, Return, Idle, OneVaultKey, KeyInHand, Stored
  <1> QED BY <1>1, <1>2, <1>3, <1>4, <1>5, <1>6

\* put commits the ciphertext before the record can refer to it.
LEMMA PutCommitKeepsRecords ==
    ASSUME RecordsInv, NEW c \in Calls, PutCommit(c)
    PROVE  RecordsInv'
  <1> USE RecordsAssumption, HostIdsAssumption DEF RecordsInv, RecordsTypeOK, Call,
     MaybeCredential, MaybeKey
  <1>1. RecordsTypeOK'
    <2>1. UNCHANGED <<record, keychain, mutation, gate, orphans>> /\ marker' = TRUE
      BY DEF PutCommit, Goto
    <2>2. secrets' \in [Credentials -> MaybeKey]
      BY DEF PutCommit
    <2>3. call' = [call EXCEPT ![c].pc = "saving"]
      BY DEF PutCommit, Goto
    <2>4. call' \in [Calls -> Call]
      BY <2>3
    <2> QED BY <2>1, <2>2, <2>4
  <1>2. LocksHeld'
    BY SMTT(30) DEF PutCommit, Goto, LocksHeld, Busy, Saving, Saved
  <1>3. CredentialsInHand'
    <2>1. /\ record' = record /\ Saved' = Saved /\ Referenced' = Referenced
          /\ Stored' = Stored \cup {call[c].new}
      BY DEF PutCommit, Goto, CredentialsInHand, Saving, KeyInHand, Stored, Saved, Referenced
    <2>2. /\ call[c].pc = "put" /\ call' = [call EXCEPT ![c].pc = "saving"] /\ mutation = c
      BY DEF PutCommit, Goto, LocksHeld, Saving
    <2>3. \A d \in Calls : d # c => call'[d] = call[d] /\ ~Saving(d)
      BY <2>2 DEF LocksHeld
    <2> QED BY <2>1, <2>2, <2>3 DEF CredentialsInHand, Saving
  <1>4. KeyInHand'
    BY SMTT(30) DEF PutCommit, Goto, KeyInHand, OneVaultKey, LocksHeld, Saving, Busy, Stored
  <1>5. RecordsMatchSecrets'
    BY SMTT(30)
    DEF PutCommit, Goto, RecordsMatchSecrets, CredentialsInHand, LocksHeld, Saved, Stored,
           Referenced, InHand, Busy, Saving
  <1>6. OneVaultKey'
    BY DEF PutCommit, Goto, OneVaultKey, KeyInHand, Stored
  <1> QED BY <1>1, <1>2, <1>3, <1>4, <1>5, <1>6

\* The record is written: its new credential is stored, and only the old one is left to
\* remove.
LEMMA RecordSavedKeepsRecords ==
    ASSUME RecordsInv, NEW c \in Calls, RecordSaved(c)
    PROVE  RecordsInv'
  <1> USE RecordsAssumption, HostIdsAssumption DEF RecordsInv, RecordsTypeOK, Call,
     MaybeCredential, MaybeKey
  <1>a. /\ Saving(c) /\ call[c].host \in Hosts /\ call[c].new \in Credentials
        /\ call[c].old = record[call[c].host] /\ call[c].new \in Stored
        /\ call[c].new = call[c].old \/ call[c].new \notin Referenced
    BY DEF RecordSaved, LocksHeld, CredentialsInHand, Saving, Busy
  <1>1. RecordsTypeOK'
    BY <1>a DEF RecordSaved, Return, Goto, Idle
  <1>2. LocksHeld'
    <2>1. \A h \in Hosts : h # call[c].host => (h \in Saved' <=> h \in Saved)
      BY DEF RecordSaved, Saved
    <2>2. \A d \in Calls : d # c /\ Busy(d) => call[d].host # call[c].host
      BY <1>a DEF LocksHeld, Busy, Saving
    <2>3. CASE call[c].old \in {Nothing, call[c].new}
      BY <2>1, <2>2, <2>3 DEF RecordSaved, Return, Idle, LocksHeld, Busy, Saving
    <2>4. CASE call[c].old \notin {Nothing, call[c].new}
      BY <2>1, <2>2, <2>4, <1>a DEF RecordSaved, Goto, LocksHeld, Busy, Saving, Saved
    <2> QED BY <2>3, <2>4
  <1>3. CredentialsInHand'
    BY SMTT(30) DEF RecordSaved, Return, Goto, Idle, CredentialsInHand, LocksHeld,
           RecordsMatchSecrets, Busy, Saving, Saved, Stored, Referenced
  <1>4. KeyInHand'
    BY SMTT(30)
    DEF RecordSaved, Return, Goto, Idle, KeyInHand, OneVaultKey, LocksHeld, Saving, Busy,
           Stored
  <1>5. RecordsMatchSecrets'
    <2>1. /\ \A h \in Hosts : record'[h] = IF h = call[c].host THEN call[c].new ELSE record[h]
          /\ Stored' = Stored /\ orphans' = orphans
      BY <1>a DEF RecordSaved, Stored
    <2>2. Referenced' \subseteq Referenced \cup {call[c].new}
      BY <2>1, <1>a DEF Referenced, Saved
    <2>3. \A g, h \in Saved' : record'[g] = record'[h] => g = h
      BY <2>1, <1>a DEF RecordsMatchSecrets, Saved, Referenced
    <2>4. Referenced \subseteq Referenced' \cup {call[c].old} /\ call[c].new \in Referenced'
      BY <2>1, <1>a DEF Referenced, Saved
    <2>5. InHand \subseteq InHand' \cup {call[c].new, call[c].old}
      BY DEF InHand, RecordSaved, Return, Goto
    <2>6. call[c].old \in Referenced' \cup InHand' \cup {Nothing}
      <3>1. CASE call[c].old \in {Nothing, call[c].new}
        BY <3>1, <2>4
      <3>2. CASE call[c].old \notin {Nothing, call[c].new}
        BY <3>2 DEF RecordSaved, Goto, InHand
      <3> QED BY <3>1, <3>2
    <2>7. Nothing \notin Stored
      BY DEF Stored
    <2> QED BY <2>1, <2>2, <2>3, <2>4, <2>5, <2>6, <2>7, <1>a DEF RecordsMatchSecrets
  <1>6. OneVaultKey'
    BY DEF RecordSaved, Return, Goto, Idle, OneVaultKey, KeyInHand, Stored
  <1> QED BY <1>1, <1>2, <1>3, <1>4, <1>5, <1>6

\* The record is refused: the credential that was just stored is left to remove.
LEMMA RecordRefusedKeepsRecords ==
    ASSUME RecordsInv, NEW c \in Calls, RecordRefused(c)
    PROVE  RecordsInv'
  <1> USE RecordsAssumption, HostIdsAssumption DEF RecordsInv, RecordsTypeOK, Call,
     MaybeCredential, MaybeKey
  <1>1. RecordsTypeOK'
    BY DEF RecordRefused, Return, Idle
  <1>2. LocksHeld'
    BY SMTT(30) DEF RecordRefused, Return, Idle, LocksHeld, Busy, Saving, Saved
  <1>3. CredentialsInHand'
    BY SMTT(30)
    DEF RecordRefused, Return, Idle, CredentialsInHand, LocksHeld, RecordsMatchSecrets, Busy,
           Saving, Saved, Stored, Referenced
  <1>a. Saving(c) /\ mutation = c /\ \A d \in Calls : call'[d].pc = "put" => call'[d] = call[d]
    BY DEF RecordRefused, Return, Idle, LocksHeld, Saving
  <1>4. KeyInHand'
    BY <1>a DEF RecordRefused, KeyInHand, Stored
  <1>5. RecordsMatchSecrets'
    <2>1. /\ record' = record /\ Saved' = Saved /\ Referenced' = Referenced
          /\ Stored' = Stored /\ orphans' = orphans
      BY DEF RecordRefused, Saved, Referenced, Stored
    <2>2. call[c].old \in Referenced \cup {Nothing}
      BY <1>a DEF CredentialsInHand, LocksHeld, Saving, Busy, Referenced, Saved
    <2>3. call[c].new \in Referenced \cup InHand' \cup {Nothing}
      BY <1>a, <2>2 DEF RecordRefused, InHand
    <2>4. InHand \subseteq InHand' \cup {call[c].new, call[c].old}
      BY DEF InHand, RecordRefused, Return
    <2>5. Nothing \notin Stored
      BY DEF Stored
    <2> QED BY <2>1, <2>2, <2>3, <2>4, <2>5 DEF RecordsMatchSecrets
  <1>6. OneVaultKey'
    BY DEF RecordRefused, Return, Idle, OneVaultKey, KeyInHand, Stored
  <1> QED BY <1>1, <1>2, <1>3, <1>4, <1>5, <1>6

\* delete_host takes the gate of its host and reads the credential of its record.
LEMMA DeleteBeginKeepsRecords ==
    ASSUME RecordsInv, NEW c \in Calls, NEW h \in Hosts, DeleteBegin(c, h)
    PROVE  RecordsInv'
  <1> USE RecordsAssumption, HostIdsAssumption DEF RecordsInv, RecordsTypeOK, Call,
     MaybeCredential, MaybeKey
  <1>1. RecordsTypeOK'
    <2>1. [Idle EXCEPT !.pc = "deleting", !.host = h, !.old = record[h]] \in Call
      BY DEF Idle
    <2> QED BY <2>1 DEF DeleteBegin
  <1>2. LocksHeld'
    BY SMTT(30) DEF DeleteBegin, Idle, LocksHeld, Busy, Saving, Saved
  <1>3. CredentialsInHand'
    BY SMTT(30)
    DEF DeleteBegin, Idle, CredentialsInHand, LocksHeld, RecordsMatchSecrets, Busy, Saving,
           Saved, Stored, Referenced
  <1>4. KeyInHand'
    BY SMTT(30) DEF DeleteBegin, Idle, KeyInHand, OneVaultKey, LocksHeld, Saving, Busy, Stored
  <1>5. RecordsMatchSecrets'
    BY SMTT(30)
    DEF DeleteBegin, Idle, RecordsMatchSecrets, CredentialsInHand, LocksHeld, Saved, Stored,
           Referenced, InHand, Busy, Saving
  <1>6. OneVaultKey'
    BY DEF DeleteBegin, Idle, OneVaultKey, KeyInHand, Stored
  <1> QED BY <1>1, <1>2, <1>3, <1>4, <1>5, <1>6

\* A record that cannot be deleted keeps its credential.
LEMMA DeleteFailsKeepsRecords ==
    ASSUME RecordsInv, NEW c \in Calls, DeleteFails(c)
    PROVE  RecordsInv'
  <1> USE RecordsAssumption, HostIdsAssumption DEF RecordsInv, RecordsTypeOK, Call,
     MaybeCredential, MaybeKey
  <1>1. RecordsTypeOK'
    BY DEF DeleteFails, Return, Idle
  <1>2. LocksHeld'
    BY SMTT(30) DEF DeleteFails, Return, Idle, LocksHeld, Busy, Saving, Saved
  <1>3. CredentialsInHand'
    BY SMTT(30)
    DEF DeleteFails, Return, Idle, CredentialsInHand, LocksHeld, RecordsMatchSecrets, Busy,
           Saving, Saved, Stored, Referenced
  <1>4. KeyInHand'
    BY SMTT(30)
    DEF DeleteFails, Return, Idle, KeyInHand, OneVaultKey, LocksHeld, Saving, Busy, Stored
  <1>5. RecordsMatchSecrets'
    BY SMTT(30)
    DEF DeleteFails, Return, Idle, RecordsMatchSecrets, CredentialsInHand, LocksHeld, Saved,
           Stored, Referenced, InHand, Busy, Saving
  <1>6. OneVaultKey'
    BY DEF DeleteFails, Return, Idle, OneVaultKey, KeyInHand, Stored
  <1> QED BY <1>1, <1>2, <1>3, <1>4, <1>5, <1>6

\* The record goes first; its credential is left to remove.
LEMMA RecordDeletedKeepsRecords ==
    ASSUME RecordsInv, NEW c \in Calls, RecordDeleted(c)
    PROVE  RecordsInv'
  <1> USE RecordsAssumption, HostIdsAssumption DEF RecordsInv, RecordsTypeOK, Call,
     MaybeCredential, MaybeKey
  <1>1. RecordsTypeOK'
    <2>1. UNCHANGED <<secrets, marker, keychain, mutation, gate, orphans>>
      BY DEF RecordDeleted, Goto
    <2>2. record' \in [Hosts -> MaybeCredential]
      BY DEF RecordDeleted
    <2>3. call' = [call EXCEPT ![c].pc = "removing"]
      BY DEF RecordDeleted, Goto
    <2>4. call' \in [Calls -> Call]
      BY <2>3
    <2> QED BY <2>1, <2>2, <2>4
  <1>2. LocksHeld'
    BY SMTT(30) DEF RecordDeleted, Goto, LocksHeld, Busy, Saving, Saved
  <1>3. CredentialsInHand'
    BY SMTT(30)
    DEF RecordDeleted, Goto, CredentialsInHand, LocksHeld, RecordsMatchSecrets, Busy, Saving,
           Saved, Stored, Referenced
  <1>4. KeyInHand'
    BY SMTT(30) DEF RecordDeleted, Goto, KeyInHand, OneVaultKey, LocksHeld, Saving, Busy, Stored
  <1>5. RecordsMatchSecrets'
    <2>a. /\ call[c].host \in Hosts /\ call[c].old = record[call[c].host]
      BY DEF RecordDeleted, CredentialsInHand, LocksHeld, Busy
    <2>1. /\ \A h \in Hosts : record'[h] = IF h = call[c].host THEN Nothing ELSE record[h]
          /\ Stored' = Stored /\ orphans' = orphans /\ InHand' = InHand
      BY <2>a DEF RecordDeleted, Stored, Goto, InHand
    <2>2. Referenced' \subseteq Referenced /\ Referenced \subseteq Referenced' \cup {call[c].old}
      BY <2>1, <2>a DEF Referenced, Saved
    <2>3. call[c].old \in InHand
      BY DEF InHand
    <2>4. \A g, h \in Saved' : record'[g] = record'[h] => g = h
      BY <2>1, <2>a DEF RecordsMatchSecrets, Saved
    <2> QED BY <2>1, <2>2, <2>3, <2>4 DEF RecordsMatchSecrets
  <1>6. OneVaultKey'
    BY DEF RecordDeleted, Goto, OneVaultKey, KeyInHand, Stored
  <1> QED BY <1>1, <1>2, <1>3, <1>4, <1>5, <1>6

\* The removal of a secret, or its failure, never reaches one a record refers to.
LEMMA RemoveSecretKeepsRecords ==
    ASSUME RecordsInv, NEW c \in Calls, RemoveSecret(c)
    PROVE  RecordsInv'
  <1> USE RecordsAssumption, HostIdsAssumption DEF RecordsInv, RecordsTypeOK, Call,
     MaybeCredential, MaybeKey
  <1>1. RecordsTypeOK'
    BY DEF RemoveSecret, Return, Idle, CredentialsInHand
  <1>2. LocksHeld'
    BY SMTT(30) DEF RemoveSecret, Return, Idle, LocksHeld, Busy, Saving, Saved
  <1>3. CredentialsInHand'
    BY SMTT(30)
    DEF RemoveSecret, Return, Idle, CredentialsInHand, LocksHeld, RecordsMatchSecrets, Busy,
           Saving, Saved, Stored, Referenced
  <1>4. KeyInHand'
    BY SMTT(30)
    DEF RemoveSecret, Return, Idle, KeyInHand, OneVaultKey, LocksHeld, Saving, Busy, Stored
  <1>5. RecordsMatchSecrets'
    BY SMTT(30)
    DEF RemoveSecret, Return, Idle, RecordsMatchSecrets, CredentialsInHand, LocksHeld, Saved,
           Stored, Referenced, InHand, Busy, Saving
  <1>6. OneVaultKey'
    BY DEF RemoveSecret, Return, Idle, OneVaultKey, KeyInHand, Stored
  <1> QED BY <1>1, <1>2, <1>3, <1>4, <1>5, <1>6

\* A crash leaves records and secrets as committed: what no record refers to is an orphan.
LEMMA CrashKeepsRecords ==
    ASSUME RecordsInv, Crash
    PROVE  RecordsInv'
  <1> USE RecordsAssumption, HostIdsAssumption DEF RecordsInv, RecordsTypeOK, Call,
     MaybeCredential, MaybeKey
  <1>1. RecordsTypeOK'
    BY DEF Crash, Idle, Stored
  <1>2. LocksHeld'
    BY SMTT(30) DEF Crash, Idle, LocksHeld, Busy, Saving, Saved
  <1>3. CredentialsInHand'
    BY SMTT(30)
    DEF Crash, Idle, CredentialsInHand, LocksHeld, RecordsMatchSecrets, Busy, Saving, Saved,
           Stored, Referenced
  <1>4. KeyInHand'
    BY SMTT(30) DEF Crash, Idle, KeyInHand, OneVaultKey, LocksHeld, Saving, Busy, Stored
  <1>5. RecordsMatchSecrets'
    BY SMTT(30) DEF Crash, Idle, RecordsMatchSecrets, CredentialsInHand, LocksHeld, Saved, Stored,
           Referenced, InHand, Busy, Saving
  <1>6. OneVaultKey'
    BY DEF Crash, Idle, OneVaultKey, KeyInHand, Stored
  <1> QED BY <1>1, <1>2, <1>3, <1>4, <1>5, <1>6

\* The key ring loses the key: what is stored stays under the one key it was put under.
LEMMA KeyLostKeepsRecords ==
    ASSUME RecordsInv, KeyLost
    PROVE  RecordsInv'
  <1> USE RecordsAssumption, HostIdsAssumption DEF RecordsInv, RecordsTypeOK, Call,
     MaybeCredential, MaybeKey
  <1>1. RecordsTypeOK'
    BY DEF KeyLost
  <1>2. LocksHeld'
    BY SMTT(30) DEF KeyLost, LocksHeld, Busy, Saving, Saved
  <1>3. CredentialsInHand'
    BY SMTT(30)
    DEF KeyLost, CredentialsInHand, LocksHeld, RecordsMatchSecrets, Busy, Saving, Saved,
           Stored, Referenced
  <1>4. KeyInHand'
    BY SMTT(30) DEF KeyLost, KeyInHand, OneVaultKey, LocksHeld, Saving, Busy, Stored
  <1>5. RecordsMatchSecrets'
    BY SMTT(30)
    DEF KeyLost, RecordsMatchSecrets, CredentialsInHand, LocksHeld, Saved, Stored, Referenced,
           InHand, Busy, Saving
  <1>6. OneVaultKey'
    BY DEF KeyLost, OneVaultKey, KeyInHand, Stored
  <1> QED BY <1>1, <1>2, <1>3, <1>4, <1>5, <1>6

\* Nothing is saved and nothing is stored to begin with.
LEMMA RecordsInitially == RecordsInit => RecordsInv
  <1> SUFFICES ASSUME RecordsInit
               PROVE  RecordsInv
    OBVIOUS
  <1>1. Idle \in Call /\ Idle.pc = "idle"
    BY DEF Idle, Call, MaybeCredential, MaybeKey
  <1>2. RecordsTypeOK
    BY <1>1 DEF RecordsInit, RecordsTypeOK, MaybeCredential, MaybeKey
  <1>3. Saved = {} /\ Stored = {} /\ Referenced = {}
    BY DEF RecordsInit, Saved, Stored, Referenced
  <1> QED BY <1>1, <1>2, <1>3
             DEF RecordsInit, RecordsInv, LocksHeld, CredentialsInHand, KeyInHand,
                 RecordsMatchSecrets, OneVaultKey, Busy, Saving

\* Every step of the vault and of the repository keeps the invariant.
LEMMA RecordsStep == RecordsInv /\ [RecordsNext]_recordVars => RecordsInv'
  <1> SUFFICES ASSUME RecordsInv, [RecordsNext]_recordVars
               PROVE  RecordsInv'
    OBVIOUS
  <1>1. CASE UNCHANGED recordVars
    BY <1>1
       DEF recordVars, RecordsInv, RecordsTypeOK, LocksHeld, CredentialsInHand, KeyInHand,
           RecordsMatchSecrets, OneVaultKey, Busy, Saving, Saved, Stored, Referenced, InHand
  <1>2. CASE RecordsNext
    BY <1>2, SaveBeginKeepsRecords, PutKeyKeepsRecords, PutFailsKeepsRecords,
       PutCommitKeepsRecords, RecordSavedKeepsRecords, RecordRefusedKeepsRecords,
       DeleteBeginKeepsRecords, DeleteFailsKeepsRecords, RecordDeletedKeepsRecords,
       RemoveSecretKeepsRecords, CrashKeepsRecords, KeyLostKeepsRecords
       DEF RecordsNext
  <1> QED BY <1>1, <1>2

\* Every saved record refers to a secret that is stored, and all secrets are under one
\* vault key, for any number of save and delete commands crashing anywhere.
THEOREM RecordsStayInStep == RecordsSpec => [](RecordsMatchSecrets /\ OneVaultKey)
  <1>1. RecordsInv => RecordsMatchSecrets /\ OneVaultKey
    BY DEF RecordsInv
  <1> QED BY <1>1, RecordsInitially, RecordsStep, PTL DEF RecordsSpec

-----------------------------------------------------------------------------
MaybeEndpoint == Endpoints \cup {Nothing}
MaybeServerKey == ServerKeys \cup {Nothing}
Change == [endpoint : MaybeEndpoint, from : MaybeServerKey, to : MaybeServerKey]

View == [state : {"Disconnected", "Connecting", "Connected", "AwaitingTrust", "Failed"},
         challenge : Change]
Session == [endpoint : MaybeEndpoint, key : MaybeServerKey]
Attempt == [pc : {"idle", "secret", "handshake", "verified", "authenticated"},
            host : Hosts \cup {Nothing}, endpoint : MaybeEndpoint,
               credential : MaybeCredential,
            live : BOOLEAN, key : MaybeServerKey]

TrustTypeOK ==
    /\ pin \in [Endpoints -> MaybeServerKey]
    /\ view \in [Hosts -> View]
    /\ session \in [Hosts -> Session]
    /\ plan \in [Hosts -> Change]
    /\ attempt \in [Attempts -> Attempt]
    /\ endpoint \in [Hosts -> MaybeEndpoint]

\* Whatever is pinned was accepted by the user, and a record names an endpoint.
PinsApproved ==
    /\ \A e \in Endpoints : pin[e] # Nothing => <<e, pin[e]>> \in approved
    /\ \A h \in Saved : endpoint[h] \in Endpoints

\* An attempt that is still current works from the record the host has now; one
\* past the key check has an accepted key, current or not.
AttemptsBound ==
    \A a \in Attempts :
        /\ attempt[a].pc # "idle" => attempt[a].endpoint \in Endpoints
        /\ attempt[a].live => /\ attempt[a].pc # "idle"
                              /\ attempt[a].host \in Saved
                              /\ attempt[a].endpoint = endpoint[attempt[a].host]
                              /\ attempt[a].credential = record[attempt[a].host]
        /\ attempt[a].pc \in {"verified", "authenticated"} =>
              <<attempt[a].endpoint, attempt[a].key>> \in approved

\* A session that is shown belongs to the record, and a host that is being
\* deleted has none and gets none.
SessionsBound ==
    /\ \A h \in Hosts : view[h].state = "Connected" =>
          /\ h \in Saved /\ session[h].endpoint = endpoint[h]
          /\ <<session[h].endpoint, session[h].key>> \in approved
    /\ \A c \in Calls : call[c].pc = "deleting" =>
          /\ view[call[c].host].state # "Connected"
          /\ \A a \in Attempts : attempt[a].live => attempt[a].host # call[c].host

\* The inductive invariant of HostTrust.
TrustInv ==
    /\ RecordsInv
    /\ TrustTypeOK
    /\ PinsApproved
    /\ AttemptsBound
    /\ SessionsBound

\* Whatever the trust side does, the records take a step of their own or none.
LEMMA TrustStepIsRecordsStep == TrustNext => [RecordsNext]_recordVars
  <1> SUFFICES ASSUME TrustNext
               PROVE  [RecordsNext]_recordVars
    OBVIOUS
  <1>1. ASSUME NEW a \in Attempts,
               \/ \E h \in Hosts : ConnectBegin(a, h)
               \/ ReadSecret(a) \/ AttemptFails(a) \/ CheckServerKey(a)
               \/ Authenticate(a) \/ ConnectFinish(a)
        PROVE  UNCHANGED recordVars
    BY <1>1
       DEF ConnectBegin, ReadSecret, AttemptFails, CheckServerKey, Authenticate, ConnectFinish
  <1>2. ASSUME NEW h \in Hosts,
               Disconnect(h) \/ TrustHostKey(h) \/ PlanRotation(h) \/ ExecuteRotation(h)
        PROVE  UNCHANGED recordVars
    BY <1>2 DEF Disconnect, TrustHostKey, PlanRotation, ExecuteRotation
  <1>3. ASSUME NEW c \in Calls,
               \/ \E h \in Hosts, renew \in BOOLEAN : SaveHost(c, h, renew)
               \/ \E h \in Hosts : DeleteHost(c, h)
               \/ \E e \in Endpoints : HostSaved(c, e)
               \/ HostDeleted(c)
               \/ SecretStep(c)
        PROVE  RecordsNext
    BY <1>3 DEF SaveHost, DeleteHost, HostSaved, HostDeleted, SecretStep, RecordsNext
  <1>4. KeyLost \/ Restart => RecordsNext
    BY DEF Restart, RecordsNext
  <1> QED BY <1>1, <1>2, <1>3, <1>4 DEF TrustNext

\* The values the actions write are of their types.
LEMMA WrittenValues ==
    /\ Disconnected \in View /\ NoSession \in Session /\ NoChange \in Change
    /\ NoAttempt \in Attempt
    /\ \A s \in {"Connecting", "Connected", "Failed"} : [Disconnected EXCEPT !.state = s] \in View
    /\ \A x \in Attempt : [x EXCEPT !.live = FALSE] \in Attempt
    /\ \A x \in Attempt : [x EXCEPT !.pc = "handshake"] \in Attempt
    /\ \A x \in Attempt : [x EXCEPT !.pc = "authenticated"] \in Attempt
    /\ \A x \in Attempt, k \in ServerKeys : [x EXCEPT !.pc = "verified", !.key = k] \in Attempt
  BY DEF View, Session, Change, Attempt, MaybeEndpoint, MaybeServerKey, MaybeCredential,
         Disconnected, NoSession, NoChange, NoAttempt

\* Overtaking a host ends the authority of its attempts and changes nothing else.
LEMMA OvertakenAttempts ==
    ASSUME TrustTypeOK, NEW h \in Hosts, Overtake(h)
    PROVE  /\ attempt' \in [Attempts -> Attempt]
           /\ \A a \in Attempts :
                 /\ attempt'[a].pc = attempt[a].pc /\ attempt'[a].host = attempt[a].host
                 /\ attempt'[a].endpoint = attempt[a].endpoint
                 /\ attempt'[a].credential = attempt[a].credential
                 /\ attempt'[a].key = attempt[a].key
                 /\ attempt'[a].live => attempt[a].live /\ attempt[a].host # h
  <1>1. attempt' \in [Attempts -> Attempt]
    BY WrittenValues DEF TrustTypeOK, Overtake
  <1> QED BY <1>1 DEF TrustTypeOK, Overtake, Attempt

\* connect_host: a new attempt overtakes the one before it and copies endpoint and
\* credential of the record.
LEMMA ConnectBeginKeepsTrust ==
    ASSUME TrustInv, NEW a \in Attempts, NEW h \in Hosts, ConnectBegin(a, h)
    PROVE  TrustTypeOK' /\ PinsApproved' /\ AttemptsBound' /\ SessionsBound'
  <1> USE RecordsAssumption, TrustAssumption, HostIdsAssumption DEF TrustInv, RecordsInv,
     RecordsTypeOK, TrustTypeOK, recordVars
  <1>1. TrustTypeOK'
    <2>1. [NoAttempt EXCEPT !.pc = "secret", !.host = h, !.live = TRUE,
                            !.endpoint = endpoint[h], !.credential = record[h]] \in Attempt
      BY DEF NoAttempt, Attempt, MaybeServerKey
    <2> QED BY <2>1, WrittenValues DEF ConnectBegin, DropPlan
  <1>2. PinsApproved'
    BY DEF ConnectBegin, Enter, InUse, DropPlan, NoAttempt, Disconnected, NoSession, NoChange,
           PinsApproved, Saved
  <1>3. AttemptsBound'
    BY DEF ConnectBegin, Enter, InUse, DropPlan, NoAttempt, Disconnected, NoSession, NoChange,
           AttemptsBound, PinsApproved, Saved, LocksHeld, Busy
  <1>4. SessionsBound'
    <2>1. /\ gate[h] = Nothing /\ UNCHANGED <<recordVars, pin, endpoint, approved>>
          /\ view'[h].state = "Connecting"
          /\ \A g \in Hosts : g # h => view'[g] = view[g] /\ session'[g] = session[g]
      BY DEF ConnectBegin, Enter, Disconnected
    <2>2. \A b \in Attempts : attempt'[b].live =>
            \/ attempt[b].live /\ attempt'[b].host = attempt[b].host
            \/ attempt'[b].host = h
      BY DEF ConnectBegin, NoAttempt, Attempt
    <2>3. \A c \in Calls : call[c].pc = "deleting" => call[c].host \in Hosts /\ call[c].host # h
      BY <2>1, RecordsAssumption DEF LocksHeld, CredentialsInHand, Busy
    <2> QED BY <2>1, <2>2, <2>3 DEF SessionsBound, Saved
  <1> QED BY <1>1, <1>2, <1>3, <1>4

\* The secret is read from the vault under the attempt.
LEMMA ReadSecretKeepsTrust ==
    ASSUME TrustInv, NEW a \in Attempts, ReadSecret(a)
    PROVE  TrustTypeOK' /\ PinsApproved' /\ AttemptsBound' /\ SessionsBound'
  <1> USE RecordsAssumption, TrustAssumption, HostIdsAssumption DEF TrustInv, RecordsInv,
     RecordsTypeOK, TrustTypeOK, recordVars
  <1>1. TrustTypeOK'
    BY WrittenValues DEF ReadSecret
  <1>2. PinsApproved'
    BY DEF ReadSecret, PinsApproved, Saved
  <1>3. AttemptsBound'
    BY DEF ReadSecret, AttemptsBound, PinsApproved, Saved, LocksHeld, Busy
  <1>4. SessionsBound'
    BY DEF ReadSecret, SessionsBound, AttemptsBound, LocksHeld, CredentialsInHand, Busy, Saved
  <1> QED BY <1>1, <1>2, <1>3, <1>4

\* An attempt fails: only the current one publishes it.
LEMMA AttemptFailsKeepsTrust ==
    ASSUME TrustInv, NEW a \in Attempts, AttemptFails(a)
    PROVE  TrustTypeOK' /\ PinsApproved' /\ AttemptsBound' /\ SessionsBound'
  <1> USE RecordsAssumption, TrustAssumption, HostIdsAssumption DEF TrustInv, RecordsInv,
     RecordsTypeOK, TrustTypeOK, recordVars
  <1>1. TrustTypeOK'
    BY WrittenValues DEF AttemptFails, Publish
  <1>2. PinsApproved'
    BY DEF AttemptFails, Publish, Current, NoAttempt, Disconnected, NoSession, NoChange,
           PinsApproved, Saved
  <1>3. AttemptsBound'
    BY DEF AttemptFails, Publish, Current, NoAttempt, Disconnected, NoSession, NoChange,
           AttemptsBound, PinsApproved, Saved, LocksHeld, Busy
  <1>4. SessionsBound'
    BY DEF AttemptFails, Publish, Current, NoAttempt, Disconnected, NoSession, NoChange,
           SessionsBound, AttemptsBound, LocksHeld, CredentialsInHand, Busy, Saved
  <1> QED BY <1>1, <1>2, <1>3, <1>4

\* check_server_key: an attempt goes on only with a key that is pinned, hence approved.
LEMMA CheckServerKeyKeepsTrust ==
    ASSUME TrustInv, NEW a \in Attempts, CheckServerKey(a)
    PROVE  TrustTypeOK' /\ PinsApproved' /\ AttemptsBound' /\ SessionsBound'
  <1> USE RecordsAssumption, TrustAssumption, HostIdsAssumption DEF TrustInv, RecordsInv,
     RecordsTypeOK, TrustTypeOK, recordVars
  <1> PICK k \in ServerKeys :
         IF Verify(attempt[a].endpoint, k) = Disconnected
         THEN /\ attempt' = [attempt EXCEPT ![a].pc = "verified", ![a].key = k]
              /\ UNCHANGED <<view, session>>
         ELSE Publish(a, Verify(attempt[a].endpoint, k), NoSession)
    BY DEF CheckServerKey
  <1>a. /\ attempt[a].pc = "handshake" /\ attempt[a].endpoint \in Endpoints
        /\ UNCHANGED <<recordVars, pin, plan, endpoint, approved>>
    BY DEF CheckServerKey, AttemptsBound
  <1>b. CASE pin[attempt[a].endpoint] = k
    <2>1. /\ attempt' = [attempt EXCEPT ![a].pc = "verified", ![a].key = k]
          /\ UNCHANGED <<view, session>>
      BY <1>b DEF Verify
    <2>2. <<attempt[a].endpoint, k>> \in approved
      BY <1>a, <1>b, TrustAssumption DEF PinsApproved
    <2>3. TrustTypeOK'
      BY <1>a, <2>1, WrittenValues
    <2>4. \A b \in Attempts :
             /\ b # a => attempt'[b] = attempt[b]
             /\ attempt'[b].host = attempt[b].host /\ attempt'[b].endpoint = attempt[b].endpoint
             /\ attempt'[b].credential = attempt[b].credential /\ attempt'[b].live = attempt[b].live
      BY <2>1 DEF Attempt
    <2>5. attempt'[a].pc = "verified" /\ attempt'[a].key = k
      BY <2>1 DEF Attempt
    <2>6. AttemptsBound'
      <3>1. record' = record /\ endpoint' = endpoint /\ approved' = approved /\ Saved' = Saved
        BY <1>a DEF Saved
      <3>2. \A b \in Attempts : attempt'[b].pc = IF b = a THEN "verified" ELSE attempt[b].pc
        BY <2>4, <2>5
      <3>3. \A b \in Attempts : attempt'[b].key = IF b = a THEN k ELSE attempt[b].key
        BY <2>4, <2>5
      <3>4. ASSUME NEW b \in Attempts, attempt'[b].pc \in {"verified", "authenticated"}
            PROVE  <<attempt'[b].endpoint, attempt'[b].key>> \in approved
        BY <2>2, <2>4, <3>2, <3>3, <3>4 DEF AttemptsBound
      <3>5. ASSUME NEW b \in Attempts
            PROVE  /\ attempt'[b].pc # "idle" => attempt'[b].endpoint \in Endpoints
                   /\ attempt'[b].live => attempt'[b].pc # "idle"
        BY <1>a, <2>4, <3>2, ZenonT(60) DEF AttemptsBound
      <3>6. ASSUME NEW b \in Attempts, attempt'[b].live
            PROVE  /\ attempt[b].live
                   /\ attempt'[b].host = attempt[b].host
                   /\ attempt'[b].endpoint = attempt[b].endpoint
                   /\ attempt'[b].credential = attempt[b].credential
        BY <2>4, <3>6
      <3> QED BY <3>1, <3>4, <3>5, <3>6 DEF AttemptsBound
    <2> QED BY <1>a, <2>1, <2>3, <2>4, <2>6 DEF PinsApproved, SessionsBound, Saved
  <1>c. CASE pin[attempt[a].endpoint] # k
    <2> DEFINE v == Verify(attempt[a].endpoint, k)
    <2>1. v \in View /\ v.state \in {"AwaitingTrust", "Failed"} /\ v # Disconnected
      BY <1>a, <1>c DEF Verify, View, Change, MaybeEndpoint, MaybeServerKey, Disconnected
    <2>2. Publish(a, v, NoSession)
      BY <2>1
    <2> HIDE DEF v
    <2>3. TrustTypeOK'
      BY <1>a, <2>1, <2>2, WrittenValues DEF Publish
    <2>4. AttemptsBound'
      BY <1>a, <2>2 DEF Publish, NoAttempt, AttemptsBound, Saved
    <2>5. SessionsBound'
      BY <1>a, <2>1, <2>2 DEF Publish, NoAttempt, SessionsBound, Saved
    <2> QED BY <1>a, <2>3, <2>4, <2>5 DEF PinsApproved, Saved
  <1> QED BY <1>b, <1>c

\* Authentication follows verification and changes nothing that was verified.
LEMMA AuthenticateKeepsTrust ==
    ASSUME TrustInv, NEW a \in Attempts, Authenticate(a)
    PROVE  TrustTypeOK' /\ PinsApproved' /\ AttemptsBound' /\ SessionsBound'
  <1> USE RecordsAssumption, TrustAssumption, HostIdsAssumption DEF TrustInv, RecordsInv,
     RecordsTypeOK, TrustTypeOK, recordVars
  <1>1. TrustTypeOK'
    BY WrittenValues DEF Authenticate
  <1>2. PinsApproved'
    BY DEF Authenticate, PinsApproved, Saved
  <1>3. AttemptsBound'
    BY DEF Authenticate, AttemptsBound, PinsApproved, Saved, LocksHeld, Busy
  <1>4. SessionsBound'
    BY DEF Authenticate, SessionsBound, AttemptsBound, LocksHeld, CredentialsInHand, Busy, Saved
  <1> QED BY <1>1, <1>2, <1>3, <1>4

\* The end of connect_host: the session the view shows has the endpoint and the key of
\* the attempt that was verified, and is published only while the attempt is current.
LEMMA ConnectFinishKeepsTrust ==
    ASSUME TrustInv, NEW a \in Attempts, ConnectFinish(a)
    PROVE  TrustTypeOK' /\ PinsApproved' /\ AttemptsBound' /\ SessionsBound'
  <1> USE RecordsAssumption, TrustAssumption, HostIdsAssumption DEF TrustInv, RecordsInv,
     RecordsTypeOK, TrustTypeOK, recordVars
  <1>1. TrustTypeOK'
    <2>1. [endpoint |-> attempt[a].endpoint, key |-> attempt[a].key] \in Session
      BY DEF Attempt, Session
    <2> QED BY <2>1, WrittenValues DEF ConnectFinish, Publish
  <1>2. PinsApproved'
    BY DEF ConnectFinish, Publish, Current, NoAttempt, Disconnected, NoSession, NoChange,
           PinsApproved, Saved
  <1>3. AttemptsBound'
    BY DEF ConnectFinish, Publish, Current, NoAttempt, Disconnected, NoSession, NoChange,
           AttemptsBound, PinsApproved, Saved, LocksHeld, Busy
  <1>4. SessionsBound'
    BY DEF ConnectFinish, Publish, Current, NoAttempt, Disconnected, NoSession, NoChange,
           SessionsBound, AttemptsBound, LocksHeld, CredentialsInHand, Busy, Saved
  <1> QED BY <1>1, <1>2, <1>3, <1>4

\* disconnect_host: the session goes with the view, and no attempt is live.
LEMMA DisconnectKeepsTrust ==
    ASSUME TrustInv, NEW h \in Hosts, Disconnect(h)
    PROVE  TrustTypeOK' /\ PinsApproved' /\ AttemptsBound' /\ SessionsBound'
  <1> USE RecordsAssumption, TrustAssumption, HostIdsAssumption DEF TrustInv, RecordsInv,
     RecordsTypeOK, TrustTypeOK, recordVars
  <1>1. TrustTypeOK'
    BY WrittenValues, OvertakenAttempts DEF Disconnect, Reset, DropPlan
  <1>2. PinsApproved'
    BY DEF Disconnect, Reset, Overtake, DropPlan, Disconnected, NoSession, NoChange, PinsApproved,
           Saved
  <1>3. AttemptsBound'
    BY DEF Disconnect, Reset, Overtake, DropPlan, Disconnected, NoSession, NoChange,
           AttemptsBound, PinsApproved, Saved, LocksHeld, Busy
  <1>4. SessionsBound'
    BY DEF Disconnect, Reset, Overtake, DropPlan, Disconnected, NoSession, NoChange,
           SessionsBound, AttemptsBound, LocksHeld, CredentialsInHand, Busy, Saved
  <1> QED BY <1>1, <1>2, <1>3, <1>4

\* trust_host_key: the key shown for the pending endpoint is pinned and thereby approved.
LEMMA TrustHostKeyKeepsTrust ==
    ASSUME TrustInv, NEW h \in Hosts, TrustHostKey(h)
    PROVE  TrustTypeOK' /\ PinsApproved' /\ AttemptsBound' /\ SessionsBound'
  <1> USE RecordsAssumption, TrustAssumption, HostIdsAssumption DEF TrustInv, RecordsInv,
     RecordsTypeOK, TrustTypeOK, recordVars
  <1>1. TrustTypeOK'
    BY WrittenValues DEF TrustHostKey, Pin, DropPlan, View, Change
  <1>2. PinsApproved'
    BY DEF TrustHostKey, Pin, DropPlan, Disconnected, NoChange, PinsApproved, Saved
  <1>3. AttemptsBound'
    BY DEF TrustHostKey, Pin, DropPlan, Disconnected, NoChange, AttemptsBound, PinsApproved,
           Saved, LocksHeld, Busy
  <1>4. SessionsBound'
    BY DEF TrustHostKey, Pin, DropPlan, Disconnected, NoChange, SessionsBound, AttemptsBound,
           LocksHeld, CredentialsInHand, Busy, Saved
  <1> QED BY <1>1, <1>2, <1>3, <1>4

\* A rotation plan records the keys that were shown.
LEMMA PlanRotationKeepsTrust ==
    ASSUME TrustInv, NEW h \in Hosts, PlanRotation(h)
    PROVE  TrustTypeOK' /\ PinsApproved' /\ AttemptsBound' /\ SessionsBound'
  <1> USE RecordsAssumption, TrustAssumption, HostIdsAssumption DEF TrustInv, RecordsInv,
     RecordsTypeOK, TrustTypeOK, recordVars
  <1>1. TrustTypeOK'
    BY WrittenValues DEF PlanRotation, View
  <1>2. PinsApproved'
    BY DEF PlanRotation, NoChange, PinsApproved, Saved
  <1>3. AttemptsBound'
    BY DEF PlanRotation, NoChange, AttemptsBound, PinsApproved, Saved, LocksHeld, Busy
  <1>4. SessionsBound'
    BY DEF PlanRotation, NoChange, SessionsBound, AttemptsBound, LocksHeld, CredentialsInHand,
           Busy, Saved
  <1> QED BY <1>1, <1>2, <1>3, <1>4

\* execute_host_key_rotation: the pin changes to a key the user has approved, and the host
\* starts over without a session or a live attempt.
LEMMA ExecuteRotationKeepsTrust ==
    ASSUME TrustInv, NEW h \in Hosts, ExecuteRotation(h)
    PROVE  TrustTypeOK' /\ PinsApproved' /\ AttemptsBound' /\ SessionsBound'
  <1> USE RecordsAssumption, TrustAssumption, HostIdsAssumption DEF TrustInv, RecordsInv,
     RecordsTypeOK, TrustTypeOK, recordVars
  <1>a. \/ UNCHANGED <<pin, view, session, attempt, approved>>
        \/ Pin(plan[h]) /\ Reset(h) /\ Overtake(h)
    BY DEF ExecuteRotation
  <1>1. TrustTypeOK'
    <2>1. plan' \in [Hosts -> Change] /\ endpoint' = endpoint
      BY WrittenValues DEF ExecuteRotation, DropPlan
    <2>2. CASE UNCHANGED <<pin, view, session, attempt, approved>>
      BY <2>1, <2>2
    <2>3. CASE Pin(plan[h]) /\ Reset(h) /\ Overtake(h)
      <3>1. plan[h].to \in MaybeServerKey
        BY DEF Change
      <3> QED BY <2>1, <2>3, <3>1, WrittenValues, OvertakenAttempts DEF Pin, Reset
    <2> QED BY <1>a, <2>2, <2>3
  <1>2. PinsApproved'
    BY DEF ExecuteRotation, Pin, Reset, Overtake, DropPlan, Disconnected, NoSession, NoChange,
           PinsApproved, Saved
  <1>3. AttemptsBound'
    <2>1. CASE UNCHANGED <<pin, view, session, attempt, approved>>
      BY <2>1 DEF ExecuteRotation, AttemptsBound, Saved
    <2>2. CASE Pin(plan[h]) /\ Reset(h) /\ Overtake(h)
      BY <2>2, OvertakenAttempts DEF ExecuteRotation, Pin, AttemptsBound, Saved
    <2> QED BY <1>a, <2>1, <2>2
  <1>4. SessionsBound'
    <2>1. CASE UNCHANGED <<view, session, attempt, approved>>
      BY <2>1 DEF ExecuteRotation, SessionsBound, Saved
    <2>2. CASE Reset(h) /\ Overtake(h) /\ Pin(plan[h])
      BY <2>2, OvertakenAttempts
         DEF ExecuteRotation, Reset, Pin, Disconnected, SessionsBound, LocksHeld, Busy, Saved
    <2> QED BY <2>1, <2>2 DEF ExecuteRotation
  <1> QED BY <1>1, <1>2, <1>3, <1>4

\* save_host begins: nothing of the connection changes yet.
LEMMA SaveHostKeepsTrust ==
    ASSUME TrustInv, NEW c \in Calls, NEW h \in Hosts, NEW renew \in BOOLEAN, SaveHost(c, h, renew)
    PROVE  TrustTypeOK' /\ PinsApproved' /\ AttemptsBound' /\ SessionsBound'
  <1> USE RecordsAssumption, TrustAssumption, HostIdsAssumption DEF TrustInv, RecordsInv,
     RecordsTypeOK, TrustTypeOK, recordVars
  <1>1. TrustTypeOK'
    BY DEF SaveHost, SaveBegin, trustOnlyVars
  <1>2. PinsApproved'
    BY DEF SaveHost, SaveBegin, trustOnlyVars, PinsApproved, Saved
  <1>3. AttemptsBound'
    BY DEF SaveHost, SaveBegin, trustOnlyVars, AttemptsBound, PinsApproved, Saved, LocksHeld, Busy
  <1>4. SessionsBound'
    BY DEF SaveHost, SaveBegin, trustOnlyVars, SessionsBound, AttemptsBound, LocksHeld,
           CredentialsInHand, Busy, Saved
  <1> QED BY <1>1, <1>2, <1>3, <1>4

\* delete_host ends the session of its host before it goes on.
LEMMA DeleteHostKeepsTrust ==
    ASSUME TrustInv, NEW c \in Calls, NEW h \in Hosts, DeleteHost(c, h)
    PROVE  TrustTypeOK' /\ PinsApproved' /\ AttemptsBound' /\ SessionsBound'
  <1> USE RecordsAssumption, TrustAssumption, HostIdsAssumption DEF TrustInv, RecordsInv,
     RecordsTypeOK, TrustTypeOK, recordVars
  <1>1. TrustTypeOK'
    BY WrittenValues, OvertakenAttempts DEF DeleteHost, Reset, DropPlan
  <1>2. PinsApproved'
    BY DEF DeleteHost, DeleteBegin, Reset, Overtake, DropPlan, Disconnected, NoSession, NoChange,
           Idle, PinsApproved, Saved
  <1>3. AttemptsBound'
    BY DEF DeleteHost, DeleteBegin, Reset, Overtake, DropPlan, Disconnected, NoSession, NoChange,
           Idle, AttemptsBound, PinsApproved, Saved, LocksHeld, Busy
  <1>4. SessionsBound'
    BY DEF DeleteHost, DeleteBegin, Reset, Overtake, DropPlan, Disconnected, NoSession, NoChange,
           Idle, SessionsBound, AttemptsBound, LocksHeld, CredentialsInHand, Busy, Saved
  <1> QED BY <1>1, <1>2, <1>3, <1>4

\* A record that is written resets the view of its host and overtakes every attempt that
\* was made for the record before it.
LEMMA HostSavedKeepsTrust ==
    ASSUME TrustInv, NEW c \in Calls, NEW e \in Endpoints, HostSaved(c, e)
    PROVE  TrustTypeOK' /\ PinsApproved' /\ AttemptsBound' /\ SessionsBound'
  <1> USE RecordsAssumption, TrustAssumption, HostIdsAssumption DEF TrustInv, RecordsInv,
     RecordsTypeOK, TrustTypeOK, recordVars
  <1>a. call[c].host \in Hosts /\ Saving(c)
    BY DEF HostSaved, RecordSaved, LocksHeld, Busy, Saving
  <1>b. /\ Overtake(call[c].host) /\ Reset(call[c].host) /\ DropPlan(call[c].host)
        /\ endpoint' = [endpoint EXCEPT ![call[c].host] = e]
        /\ record' = [record EXCEPT ![call[c].host] = call[c].new]
        /\ UNCHANGED <<pin, approved>>
    BY DEF HostSaved, RecordSaved, Invalidate
  <1>c. /\ \A d \in Calls : d # c => call'[d] = call[d]
        /\ call'[c].pc # "deleting"
    <2>1. call' = [call EXCEPT ![c] = Idle] \/ call' = [call EXCEPT ![c].pc = "removing"]
      BY DEF HostSaved, RecordSaved, Return, Goto
    <2> QED BY <2>1 DEF Idle, Call
  <1>d. \A d \in Calls : d # c /\ Busy(d) => call[d].host # call[c].host
    BY <1>a DEF LocksHeld, Busy, Saving
  <1>1. TrustTypeOK'
    BY <1>a, <1>b, WrittenValues, OvertakenAttempts DEF Reset, DropPlan, MaybeEndpoint
  <1>2. PinsApproved'
    BY DEF HostSaved, RecordSaved, Return, Goto, Invalidate, Reset, Overtake, DropPlan,
           Disconnected, NoSession, NoChange, Idle, PinsApproved, Saved
  <1>3. AttemptsBound'
    BY DEF HostSaved, RecordSaved, Return, Goto, Invalidate, Reset, Overtake, DropPlan,
           Disconnected, NoSession, NoChange, Idle, AttemptsBound, PinsApproved, Saved, LocksHeld,
           Busy
  <1>4. SessionsBound'
    <2>1. \A h \in Hosts : h # call[c].host =>
             /\ view'[h] = view[h] /\ session'[h] = session[h] /\ endpoint'[h] = endpoint[h]
             /\ h \in Saved' <=> h \in Saved
      BY <1>a, <1>b DEF Reset, Saved
    <2>2. view'[call[c].host].state = "Disconnected"
      BY <1>a, <1>b DEF Reset, Disconnected
    <2>3. \A d \in Calls : call[d].pc = "deleting" => call[d].host \in Hosts
      BY DEF LocksHeld, Busy
    <2> QED BY <1>a, <1>b, <1>c, <1>d, <2>1, <2>2, <2>3, OvertakenAttempts DEF SessionsBound, Busy
  <1> QED BY <1>1, <1>2, <1>3, <1>4

\* The record of a host goes only after its session.
LEMMA HostDeletedKeepsTrust ==
    ASSUME TrustInv, NEW c \in Calls, HostDeleted(c)
    PROVE  TrustTypeOK' /\ PinsApproved' /\ AttemptsBound' /\ SessionsBound'
  <1> USE RecordsAssumption, TrustAssumption, HostIdsAssumption DEF TrustInv, RecordsInv,
     RecordsTypeOK, TrustTypeOK, recordVars
  <1>1. TrustTypeOK'
    BY DEF HostDeleted, MaybeEndpoint
  <1>2. PinsApproved'
    BY DEF HostDeleted, RecordDeleted, Goto, PinsApproved, Saved
  <1>3. AttemptsBound'
    <2>1. /\ call[c].pc = "deleting" /\ call[c].host \in Hosts
          /\ attempt' = attempt /\ approved' = approved
          /\ endpoint' = [endpoint EXCEPT ![call[c].host] = Nothing]
          /\ record' = [record EXCEPT ![call[c].host] = Nothing]
      BY DEF HostDeleted, RecordDeleted, LocksHeld, Busy
    <2>2. \A a \in Attempts : attempt[a].live => attempt[a].host \in Hosts /\ attempt[a].host # call[c].host
      BY <2>1 DEF SessionsBound, AttemptsBound, Saved
    <2> QED BY <2>1, <2>2 DEF AttemptsBound, Saved
  <1>4. SessionsBound'
    BY DEF HostDeleted, RecordDeleted, Goto, SessionsBound, AttemptsBound, LocksHeld,
           CredentialsInHand, Busy, Saved
  <1> QED BY <1>1, <1>2, <1>3, <1>4

\* What happens in the vault alone does not reach a session.
LEMMA SecretStepKeepsTrust ==
    ASSUME TrustInv, NEW c \in Calls, SecretStep(c), UNCHANGED trustOnlyVars
    PROVE  TrustTypeOK' /\ PinsApproved' /\ AttemptsBound' /\ SessionsBound'
  <1> USE RecordsAssumption, TrustAssumption, HostIdsAssumption DEF TrustInv, RecordsInv,
     RecordsTypeOK, TrustTypeOK, recordVars
  <1>1. TrustTypeOK'
    BY DEF SecretStep, PutKey, PutFails, PutCommit, RecordRefused, DeleteFails, RemoveSecret,
           Return, Goto, Idle, trustOnlyVars
  <1>2. PinsApproved'
    BY DEF SecretStep, PutKey, PutFails, PutCommit, RecordRefused, DeleteFails, RemoveSecret,
           Return, Goto, Idle, trustOnlyVars, PinsApproved, Saved
  <1>3. AttemptsBound'
    BY DEF SecretStep, PutKey, PutFails, PutCommit, RecordRefused, DeleteFails, RemoveSecret,
           Return, Goto, Idle, trustOnlyVars, AttemptsBound, PinsApproved, Saved, LocksHeld, Busy
  <1>4. SessionsBound'
    <2>1. /\ record' = record
          /\ \A d \in Calls : call'[d].pc = "deleting" =>
                call[d].pc = "deleting" /\ call'[d].host = call[d].host
      BY SMTT(30) DEF SecretStep, PutKey, PutFails, PutCommit, RecordRefused, DeleteFails,
             RemoveSecret, Return, Goto, Idle, Call
    <2> QED BY <2>1 DEF trustOnlyVars, SessionsBound, Saved
  <1> QED BY <1>1, <1>2, <1>3, <1>4

\* Nor does the loss of the vault key.
LEMMA KeyLossKeepsTrust ==
    ASSUME TrustInv, KeyLost, UNCHANGED trustOnlyVars
    PROVE  TrustTypeOK' /\ PinsApproved' /\ AttemptsBound' /\ SessionsBound'
  <1> USE RecordsAssumption, TrustAssumption, HostIdsAssumption DEF TrustInv, RecordsInv,
     RecordsTypeOK, TrustTypeOK, recordVars
  <1>1. TrustTypeOK'
    BY DEF KeyLost, trustOnlyVars
  <1>2. PinsApproved'
    BY DEF KeyLost, trustOnlyVars, PinsApproved, Saved
  <1>3. AttemptsBound'
    BY DEF KeyLost, trustOnlyVars, AttemptsBound, PinsApproved, Saved, LocksHeld, Busy
  <1>4. SessionsBound'
    BY DEF KeyLost, trustOnlyVars, SessionsBound, AttemptsBound, LocksHeld, CredentialsInHand,
           Busy, Saved
  <1> QED BY <1>1, <1>2, <1>3, <1>4

\* A restart begins without sessions, with the pins that were written.
LEMMA RestartKeepsTrust ==
    ASSUME TrustInv, Restart
    PROVE  TrustTypeOK' /\ PinsApproved' /\ AttemptsBound' /\ SessionsBound'
  <1> USE RecordsAssumption, TrustAssumption, HostIdsAssumption DEF TrustInv, RecordsInv,
     RecordsTypeOK, TrustTypeOK, recordVars
  <1>1. TrustTypeOK'
    BY WrittenValues DEF Restart
  <1>2. PinsApproved'
    BY DEF Restart, Crash, Disconnected, NoSession, NoChange, NoAttempt, Idle, PinsApproved, Saved
  <1>3. AttemptsBound'
    BY DEF Restart, Crash, Disconnected, NoSession, NoChange, NoAttempt, Idle, AttemptsBound,
           PinsApproved, Saved, LocksHeld, Busy
  <1>4. SessionsBound'
    BY DEF Restart, Crash, Disconnected, NoSession, NoChange, NoAttempt, Idle, SessionsBound,
           AttemptsBound, LocksHeld, CredentialsInHand, Busy, Saved
  <1> QED BY <1>1, <1>2, <1>3, <1>4

\* No pin, no attempt, no session to begin with.
LEMMA TrustInitially == TrustInit => TrustInv
  <1> SUFFICES ASSUME TrustInit
               PROVE  TrustInv
    OBVIOUS
  <1>1. RecordsInv
    BY RecordsInitially DEF TrustInit
  <1>2. TrustTypeOK
    BY WrittenValues DEF TrustInit, TrustTypeOK, MaybeServerKey, MaybeEndpoint
  <1>3. Saved = {} /\ \A c \in Calls : call[c].pc = "idle"
    BY DEF TrustInit, RecordsInit, Saved, Idle
  <1> QED BY <1>1, <1>2, <1>3
             DEF TrustInit, TrustInv, PinsApproved, AttemptsBound, SessionsBound, NoAttempt,
                 Disconnected

\* Every step of a connection, of the trust store and of the records keeps the invariant.
LEMMA TrustStep == TrustInv /\ [TrustNext]_trustVars => TrustInv'
  <1> SUFFICES ASSUME TrustInv, [TrustNext]_trustVars
               PROVE  TrustInv'
    OBVIOUS
  <1>1. CASE UNCHANGED trustVars
    <2>1. RecordsInv'
      BY <1>1, RecordsStep DEF TrustInv, trustVars
    <2> QED BY <1>1, <2>1
               DEF trustVars, trustOnlyVars, recordVars, TrustInv, TrustTypeOK, PinsApproved,
                   AttemptsBound, SessionsBound, Saved
  <1>2. CASE TrustNext
    <2>1. RecordsInv'
      BY <1>2, TrustStepIsRecordsStep, RecordsStep DEF TrustInv
    <2>2. TrustTypeOK' /\ PinsApproved' /\ AttemptsBound' /\ SessionsBound'
      BY <1>2, ConnectBeginKeepsTrust, ReadSecretKeepsTrust, AttemptFailsKeepsTrust,
         CheckServerKeyKeepsTrust, AuthenticateKeepsTrust, ConnectFinishKeepsTrust,
         DisconnectKeepsTrust, TrustHostKeyKeepsTrust, PlanRotationKeepsTrust,
         ExecuteRotationKeepsTrust, SaveHostKeepsTrust, DeleteHostKeepsTrust, HostSavedKeepsTrust,
         HostDeletedKeepsTrust, SecretStepKeepsTrust, KeyLossKeepsTrust, RestartKeepsTrust
         DEF TrustNext
    <2> QED BY <2>1, <2>2 DEF TrustInv
  <1> QED BY <1>1, <1>2

\* A host shown as connected has a session to the endpoint its record names now, whose
\* server showed a key the user has accepted for that endpoint; an attempt that may yet be
\* published finds its credential in the vault, and no credential goes to a server whose
\* key was not accepted: however attempts, saves, deletions and rotations interleave.
THEOREM TrustConnectedIsTrusted == TrustSpec => []ConnectedIsTrusted
  <1>1. TrustInv => ConnectedIsTrusted
    BY DEF TrustInv, RecordsInv, RecordsMatchSecrets, AttemptsBound, SessionsBound, Referenced,
           ConnectedIsTrusted
  <1> QED BY <1>1, TrustInitially, TrustStep, PTL DEF TrustSpec

\* A saved record always refers to a secret that is stored, with connections using the
\* records at the same time.
THEOREM TrustRecordsMatchSecrets == TrustSpec => []RecordsMatchSecrets
  <1>1. TrustInv => RecordsMatchSecrets
    BY DEF TrustInv, RecordsInv
  <1> QED BY <1>1, TrustInitially, TrustStep, PTL DEF TrustSpec

\* All stored secrets are under one vault key, with connections reading them at the same
\* time.
THEOREM TrustOneVaultKey == TrustSpec => []OneVaultKey
  <1>1. TrustInv => OneVaultKey
    BY DEF TrustInv, RecordsInv
  <1> QED BY <1>1, TrustInitially, TrustStep, PTL DEF TrustSpec

\* No step changes a pin of the trust store but to the key of a challenge some host's view
\* shows for an endpoint without a pin, or along the pair of keys of a pending rotation plan.
THEOREM TrustPinChangesAsShown == TrustSpec => PinChangesAsShown
  <1> DEFINE Shown ==
        \A e \in Endpoints : pin'[e] # pin[e] =>
          \E h \in Hosts :
             LET change == [endpoint |-> e, from |-> pin[e], to |-> pin'[e]]
             IN  \/ view[h] = [state |-> "AwaitingTrust", challenge |-> change]
                 \/ plan[h] = change
  <1>1. TrustInv /\ [TrustNext]_trustVars => [Shown]_trustVars
    <2> SUFFICES ASSUME TrustInv, TrustNext
                 PROVE  Shown
      OBVIOUS
    <2> USE DEF TrustInv, TrustTypeOK
    <2>1. CASE UNCHANGED pin
      BY <2>1
    <2>2. ASSUME NEW h \in Hosts, TrustHostKey(h)
          PROVE  Shown
      <3>1. /\ view[h].state = "AwaitingTrust" /\ view[h].challenge.from = Nothing
            /\ pin[view[h].challenge.endpoint] \in {Nothing, view[h].challenge.to}
            /\ pin' = [pin EXCEPT ![view[h].challenge.endpoint] = view[h].challenge.to]
        BY <2>2 DEF TrustHostKey, Trustable, Pin
      <3> SUFFICES ASSUME NEW e \in Endpoints, pin'[e] # pin[e]
                   PROVE  view[h] = [state |-> "AwaitingTrust",
                                     challenge |-> [endpoint |-> e, from |-> pin[e],
                                        to |-> pin'[e]]]
        OBVIOUS
      <3>2. /\ e = view[h].challenge.endpoint /\ pin[e] = view[h].challenge.from
            /\ pin'[e] = view[h].challenge.to
        BY <3>1
      <3> QED BY <3>1, <3>2 DEF View, Change
    <2>3. ASSUME NEW h \in Hosts, ExecuteRotation(h)
          PROVE  Shown
      <3>1. CASE UNCHANGED pin
        BY <3>1
      <3>2. CASE Rotatable(plan[h]) /\ Pin(plan[h])
        <4> SUFFICES ASSUME NEW e \in Endpoints, pin'[e] # pin[e]
                     PROVE  plan[h] = [endpoint |-> e, from |-> pin[e], to |-> pin'[e]]
          OBVIOUS
        <4>1. /\ e = plan[h].endpoint /\ pin[e] = plan[h].from /\ pin'[e] = plan[h].to
          BY <3>2 DEF Rotatable, Pin
        <4> QED BY <4>1 DEF Change
      <3> QED BY <2>3, <3>1, <3>2 DEF ExecuteRotation
    <2>4. UNCHANGED pin \/ \E h \in Hosts : TrustHostKey(h) \/ ExecuteRotation(h)
      BY DEF TrustNext, ConnectBegin, ReadSecret, AttemptFails, CheckServerKey, Authenticate,
             ConnectFinish, Disconnect, PlanRotation, SaveHost, DeleteHost, HostSaved,
             HostDeleted, SecretStep, Restart, trustOnlyVars
    <2> QED BY <2>1, <2>2, <2>3, <2>4
  <1> QED BY <1>1, TrustInitially, TrustStep, PTL DEF TrustSpec, PinChangesAsShown

-----------------------------------------------------------------------------
Grant == [scope : Scope, expired : BOOLEAN, handed : BOOLEAN]
Picker == [pc : {"idle", "open", "chosen"}, scope : Scope \cup {Nothing},
           grant : GrantIds \cup {Nothing}]

GrantsTypeOK ==
    /\ grants \in [DOMAIN grants -> Grant] /\ DOMAIN grants \subseteq GrantIds
    /\ picker \in [Pickers -> Picker]

\* A picker's grant is one of its own scope, so that revoking the scope removes
\* it, and only a picker that has chosen has one.
GrantsInScope ==
    \A p \in Pickers :
        /\ picker[p].pc = "idle" => picker[p] = NoPicker
        /\ picker[p].pc = "open" => picker[p].grant = Nothing
        /\ picker[p].pc # "idle" => picker[p].scope \in Scope
        /\ picker[p].grant \in DOMAIN grants => grants[picker[p].grant].scope = picker[p].scope

\* The inductive invariant of LocalGrants.
GrantsInv ==
    /\ GrantsTypeOK
    /\ GrantsInScope
    /\ GrantAccountedFor
    /\ process = "revoked" => \A p \in Pickers : picker[p] = NoPicker

\* Grants that go, by whatever way, disturb nothing.
LEMMA RemovalKeepsGrants ==
    ASSUME GrantsInv, NEW kept \in SUBSET DOMAIN grants, Keep(kept), UNCHANGED <<picker, process>>
    PROVE  GrantsInv'
  <1>1. DOMAIN grants' = kept /\ \A g \in kept : grants'[g] = grants[g]
    BY DEF Keep
  <1>2. GrantsTypeOK'
    BY <1>1 DEF GrantsInv, GrantsTypeOK, Keep
  <1> QED BY <1>1, <1>2 DEF GrantsInv, GrantsInScope, GrantAccountedFor

\* Each step of a picker keeps the invariant; the recheck is the one that decides.
LEMMA PickerKeepsGrants ==
    ASSUME GrantsInv, NEW p \in Pickers,
           \/ \E scope \in Scope : PickBegin(p, scope)
           \/ PickRefused(p) \/ PickCancelled(p) \/ PickInsert(p) \/ PickRecheck(p)
    PROVE  GrantsInv'
  <1> USE HostIdsAssumption, GrantsAssumption DEF GrantsInv
  <1>0. Nothing \notin GrantIds /\ Nothing \notin DOMAIN grants /\ NoPicker \in Picker
    BY DEF GrantsTypeOK, NoPicker, Picker
  <1>1. ASSUME NEW scope \in Scope, PickBegin(p, scope)
        PROVE  GrantsInv'
    <2>1. [NoPicker EXCEPT !.pc = "open", !.scope = scope] \in Picker
      BY DEF NoPicker, Picker
    <2>2. GrantsTypeOK'
      BY <1>1, <2>1 DEF PickBegin, GrantsTypeOK
    <2>a. /\ process = "running" /\ process' = process /\ grants' = grants
          /\ picker[p] = NoPicker
          /\ picker'[p] = [NoPicker EXCEPT !.pc = "open", !.scope = scope]
          /\ \A q \in Pickers : q # p => picker'[q] = picker[q]
      BY <1>1 DEF PickBegin, GrantsTypeOK
    <2>3. /\ picker[p].grant = Nothing
          /\ picker'[p].pc = "open" /\ picker'[p].grant = Nothing /\ picker'[p].scope = scope
      BY <2>a DEF NoPicker
    <2>4. GrantsInScope'
      <3>1. picker'[p].pc # "idle" /\ picker'[p].grant \notin DOMAIN grants
        BY <1>0, <2>3
      <3>2. ASSUME NEW q \in Pickers, q # p
            PROVE  picker'[q] = picker[q] /\ grants' = grants
        BY <2>a, <3>2
      <3> QED BY <1>1, <2>a, <2>3, <3>1, <3>2, ZenonT(60) DEF GrantsInScope
    <2>5. GrantAccountedFor'
      BY <1>0, <2>a, <2>3 DEF GrantAccountedFor
    <2> QED BY <2>2, <2>a, <2>4, <2>5
  <1>2. CASE PickRefused(p)
    <2>1. GrantsTypeOK'
      BY <1>0, <1>2 DEF PickRefused, GrantsTypeOK
    <2> QED BY <1>0, <1>2, <2>1
               DEF PickRefused, NoPicker, GrantsTypeOK, GrantsInScope, GrantAccountedFor
  <1>3. CASE PickCancelled(p)
    <2>1. GrantsTypeOK'
      BY <1>3 DEF PickCancelled, GrantsTypeOK, Picker
    <2> QED BY <1>3, <2>1
               DEF PickCancelled, NoPicker, GrantsTypeOK, GrantsInScope, GrantAccountedFor, Picker
  <1>4. CASE PickInsert(p)
    <2>1. PICK g \in GrantIds \ (DOMAIN grants \cup {picker[q].grant : q \in Pickers}) :
             /\ Insert(g, picker[p].scope)
             /\ picker' = [picker EXCEPT ![p].pc = "chosen", ![p].grant = g]
      BY <1>4 DEF PickInsert
    <2> DEFINE fresh == {i \in DOMAIN grants : ~grants[i].expired}
    <2>2. /\ DOMAIN grants' = fresh \cup {g}
          /\ grants'[g] = [scope |-> picker[p].scope, expired |-> FALSE, handed |-> FALSE]
          /\ \A i \in fresh : i # g /\ grants'[i] = grants[i]
          /\ grants' = [i \in DOMAIN grants' |-> grants'[i]]
      BY <2>1 DEF Insert
    <2>3. picker[p].pc = "open" /\ picker[p].scope \in Scope /\ picker[p].grant = Nothing
          /\ process' = process
      BY <1>4 DEF PickInsert, GrantsInScope
    <2>4. GrantsTypeOK'
      <3>1. grants'[g] \in Grant /\ \A i \in fresh : grants'[i] \in Grant
        BY <2>2, <2>3 DEF GrantsTypeOK, Grant
      <3>2. \A i \in DOMAIN grants' : grants'[i] \in Grant
        BY <2>2, <3>1
      <3>3. picker' \in [Pickers -> Picker]
        BY <2>1 DEF GrantsTypeOK, Picker
      <3> QED BY <2>2, <3>2, <3>3 DEF GrantsTypeOK
    <2>5. /\ \A q \in Pickers : q # p => picker'[q] = picker[q] /\ picker[q].grant # g
          /\ picker'[p].pc = "chosen" /\ picker'[p].grant = g /\ picker'[p].scope = picker[p].scope
      BY <2>1 DEF GrantsTypeOK, Picker
    <2>6. GrantsInScope'
      BY <2>2, <2>3, <2>5 DEF GrantsInScope
    <2>7. GrantAccountedFor'
      BY <1>4, <2>2, <2>3, <2>5, <1>0 DEF GrantAccountedFor, NoPicker
    <2> QED BY <2>3, <2>4, <2>5, <2>6, <2>7, <1>0 DEF NoPicker
  <1>5. CASE PickRecheck(p)
    <2>1. /\ picker[p].pc = "chosen" /\ picker' = [picker EXCEPT ![p] = NoPicker]
          /\ process' = process /\ picker[p].scope \in Scope
          /\ picker' \in [Pickers -> Picker]
      BY <1>0, <1>5 DEF PickRecheck, GrantsInScope, GrantsTypeOK
    <2>2. CASE Valid(picker[p].scope)
      <3>1. grants' = [g \in DOMAIN grants |-> [grants[g] EXCEPT !.handed = @ \/ g = picker[p].grant]]
        BY <1>5, <2>2 DEF PickRecheck
      <3>2. \A g \in DOMAIN grants : /\ grants'[g] \in Grant /\ grants'[g].scope = grants[g].scope
                                     /\ grants'[g].handed = (grants[g].handed \/ g = picker[p].grant)
        BY <3>1 DEF GrantsTypeOK, Grant
      <3>3. DOMAIN grants' = DOMAIN grants /\ GrantsTypeOK'
        BY <2>1, <3>1, <3>2 DEF GrantsTypeOK
      <3>4. picker'[p] = NoPicker /\ \A q \in Pickers : q # p => picker'[q] = picker[q]
        BY <2>1 DEF GrantsTypeOK
      <3>5. GrantsInScope'
        BY <1>0, <3>2, <3>3, <3>4 DEF GrantsInScope, NoPicker
      <3>6. process' # "revoked"
        BY <2>1 DEF NoPicker
      <3>7. GrantAccountedFor'
        <4>1. ASSUME NEW g \in DOMAIN grants, ~grants'[g].handed
              PROVE  \E q \in Pickers : picker'[q].grant = g
          <5>1. ~grants[g].handed /\ g # picker[p].grant
            BY <3>2, <4>1
          <5>2. PICK q \in Pickers : picker[q].grant = g
            BY <5>1 DEF GrantAccountedFor
          <5> QED BY <5>1, <5>2, <3>4
        <4> QED BY <2>1, <3>3, <3>6, <4>1 DEF GrantAccountedFor
      <3> QED BY <3>3, <3>5, <3>7, <3>6
    <2>3. CASE ~Valid(picker[p].scope)
      <3>1. grants' = [g \in {i \in DOMAIN grants : grants[i].scope # picker[p].scope} |-> grants[g]]
        BY <1>5, <2>3 DEF PickRecheck, RevokeSession, Keep
      <3>2. /\ \A g \in DOMAIN grants' : g \in DOMAIN grants /\ grants'[g] = grants[g]
            /\ picker[p].grant \notin DOMAIN grants'
        BY <3>1 DEF GrantsInScope
      <3>3. GrantsTypeOK'
        BY <2>1, <3>1 DEF GrantsTypeOK
      <3> QED BY <1>0, <2>1, <3>2, <3>3 DEF GrantsInScope, GrantAccountedFor, NoPicker
    <2> QED BY <2>2, <2>3
  <1> QED BY <1>1, <1>2, <1>3, <1>4, <1>5

\* No grant and no picker to begin with.
LEMMA GrantsInitially == GrantsInit => GrantsInv
  BY DEF GrantsInit, GrantsInv, GrantsTypeOK, GrantsInScope, GrantAccountedFor, NoPicker, Picker

\* Every step of a picker, of a grant and of a session keeps the invariant.
LEMMA GrantsStep == GrantsInv /\ [GrantsNext]_grantVars => GrantsInv'
  <1> SUFFICES ASSUME GrantsInv, [GrantsNext]_grantVars
               PROVE  GrantsInv'
    OBVIOUS
  <1>1. CASE UNCHANGED <<grants, picker, process>>
    BY <1>1 DEF GrantsInv, GrantsTypeOK, GrantsInScope, GrantAccountedFor
  <1>2. ASSUME NEW p \in Pickers,
               \/ \E scope \in Scope : PickBegin(p, scope)
               \/ PickRefused(p) \/ PickCancelled(p) \/ PickInsert(p) \/ PickRecheck(p)
        PROVE  GrantsInv'
    BY <1>2, PickerKeepsGrants
  <1>3. ASSUME NEW g \in GrantIds,
               PlanFromGrant(g) \/ ExpiryTimer(g) \/ \E scope \in Scope : DiscardLocalGrant(g, scope)
        PROVE  GrantsInv'
    <2>1. Keep(DOMAIN grants \ {g}) /\ UNCHANGED <<picker, process>>
      BY <1>3 DEF PlanFromGrant, ExpiryTimer, DiscardLocalGrant, Consume, Discard
    <2> QED BY <2>1, RemovalKeepsGrants
  <1>4. ASSUME NEW g \in GrantIds, Expire(g)
        PROVE  GrantsInv'
    <2>1. /\ g \in DOMAIN grants /\ grants' = [grants EXCEPT ![g].expired = TRUE]
          /\ UNCHANGED <<picker, process>>
      BY <1>4 DEF Expire
    <2>2. /\ DOMAIN grants' = DOMAIN grants
          /\ \A i \in DOMAIN grants : /\ grants'[i] \in Grant /\ grants'[i].scope = grants[i].scope
                                       /\ grants'[i].handed = grants[i].handed
      BY <2>1 DEF GrantsInv, GrantsTypeOK, Grant
    <2>3. GrantsTypeOK'
      BY <2>1, <2>2 DEF GrantsInv, GrantsTypeOK
    <2> QED BY <2>1, <2>2, <2>3 DEF GrantsInv, GrantsInScope, GrantAccountedFor
  <1>5. ASSUME NEW h \in Hosts, CloseBegin(h)
        PROVE  GrantsInv'
    BY <1>5, RemovalKeepsGrants DEF CloseBegin, RevokeHost
  <1>6. CASE Seal
    BY <1>6 DEF Seal, GrantsInv, GrantsTypeOK, GrantsInScope, GrantAccountedFor
  <1>7. CASE RevokeAll
    <2>1. DOMAIN grants' = {} /\ grants' = [g \in {} |-> grants[g]] /\ picker' = picker
          /\ \A p \in Pickers : picker[p] = NoPicker
      BY <1>7 DEF RevokeAll, Keep
    <2> QED BY <2>1 DEF GrantsInv, GrantsTypeOK, GrantsInScope, GrantAccountedFor
  <1>8. ASSUME NEW h \in Hosts, SessionBegins(h) \/ CloseFinish(h) \/ SessionEnds(h)
        PROVE  UNCHANGED <<grants, picker, process>>
    BY <1>8 DEF SessionBegins, CloseFinish, SessionEnds
  <1> QED BY <1>1, <1>2, <1>3, <1>4, <1>5, <1>6, <1>7, <1>8 DEF GrantsNext, grantVars

\* A grant on record is with the picker that made it or was returned while its session was
\* valid, and none is left once all are revoked, for any number of pickers, grants and
\* sessions.
THEOREM GrantsAccountedFor == GrantsSpec => []GrantAccountedFor
  <1>1. GrantsInv => GrantAccountedFor
    BY DEF GrantsInv
  <1> QED BY <1>1, GrantsInitially, GrantsStep, PTL DEF GrantsSpec
=============================================================================
