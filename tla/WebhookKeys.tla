---------------------------- MODULE WebhookKeys ----------------------------
(***************************************************************************)
(* The master key that seals webhook secrets (secrets.rs, the registry     *)
(* half of webhooks.rs, and the rotation endpoint in rest/admin.rs).  A    *)
(* subscription's secret is sealed under the key that is current when it   *)
(* is added; a delivery carries a copy of the sealed secret; rotation      *)
(* re-seals the subscriptions in one transaction, then swaps the key in    *)
(* memory, then rewrites the key file.                                     *)
(*                                                                         *)
(* The registry's lock() hands out a pooled connection: it excludes nobody.*)
(* What excludes is SQLite: one writer at a time, and a transaction that   *)
(* has read and then writes fails if another one has committed in between. *)
(* A sealed value is modelled by the key it is sealed under: unsealing     *)
(* succeeds with that key only.                                            *)
(***************************************************************************)
EXTENDS Integers, FiniteSets

CONSTANTS Hook,       \* subscriptions with a secret; each is added at most once
          Rotators,   \* rotation requests
          Key,        \* master keys, never drawn twice
          None,
          MaxKeyFaults   \* crashes and failed file writes in a behaviour

ASSUME KeyAssumption == None \notin Key /\ MaxKeyFaults \in Nat

VARIABLES current,   \* the key in memory; None: the server does not start
          keyFile,   \* the key file; None: it is there but empty
          drawn,     \* the keys drawn so far
          row,       \* the webhooks table: the key of each row, and whether it is revoked
          sealed,    \* add: the key its secret was sealed under, before the insert
          pending,   \* webhook_deliveries: the key of each hook's delivery
          fresh,     \* history: hooks whose delivery was enqueued since the last rotation
          rot,       \* the state of each rotation
          stale,     \* the rotations whose snapshot is out of date
          raced,     \* history: hooks whose add overlapped a swap of the key
          torn,      \* history: why memory, file and table no longer agree
          keyFaults

keysVars == <<current, keyFile, drawn, row, sealed, pending, fresh, rot, stale, raced, torn, keyFaults>>

NoRow == [key |-> None, state |-> "absent"]
RowType == [key : Key \cup {None}, state : {"absent", "live", "revoked"}]
RotType == [pc : {"idle", "read", "swap", "file", "done"}, old : Key \cup {None},
            new : Key \cup {None}, rows : SUBSET Hook, result : {"none", "ok", "error"}]
NoRot == [pc |-> "idle", old |-> None, new |-> None, rows |-> {}, result |-> "none"]

Rows == {h \in Hook : row[h].state # "absent"}
LiveHooks == {h \in Hook : row[h].state = "live"}

(* MasterKey::load_or_generate on the first start: a key is drawn and      *)
(* written to the file.                                                    *)
KeysInit ==
    /\ current \in Key
    /\ keyFile = current
    /\ drawn = {current}
    /\ row = [h \in Hook |-> NoRow]
    /\ sealed = [h \in Hook |-> None]
    /\ pending = [h \in Hook |-> None]
    /\ fresh = {}
    /\ rot = [r \in Rotators |-> NoRot]
    /\ stale = {}
    /\ raced = {}
    /\ torn = FALSE
    /\ keyFaults = 0

(* A write commits: a transaction that has read before cannot write.       *)
Commit == stale' = {r \in Rotators : rot[r].pc = "read"}

----------------------------------------------------------------------------
(* add: the key is read and the secret sealed ...                          *)
SealSecret(h) ==
    /\ row[h] = NoRow /\ sealed[h] = None
    /\ sealed' = [sealed EXCEPT ![h] = current]
    /\ UNCHANGED <<current, keyFile, drawn, row, pending, fresh, rot, stale, raced, torn, keyFaults>>

(* ... and only then the connection is taken and the row inserted.         *)
InsertRow(h) ==
    /\ sealed[h] # None
    /\ row' = [row EXCEPT ![h] = [key |-> sealed[h], state |-> "live"]]
    /\ sealed' = [sealed EXCEPT ![h] = None]
    /\ raced' = IF sealed[h] = current THEN raced ELSE raced \cup {h}
    /\ Commit
    /\ UNCHANGED <<current, keyFile, drawn, pending, fresh, rot, torn, keyFaults>>

(* remove: the row is marked, its secret stays in the table.               *)
RemoveHook(h) ==
    /\ h \in LiveHooks
    /\ row' = [row EXCEPT ![h].state = "revoked"]
    /\ Commit
    /\ UNCHANGED <<current, keyFile, drawn, sealed, pending, fresh, rot, raced, torn, keyFaults>>

EnqueueResealed(h) ==
    /\ h \in LiveHooks /\ pending[h] = None
    /\ pending' = [pending EXCEPT ![h] = current]
    /\ fresh' = fresh \cup {h}
    /\ Commit
    /\ UNCHANGED <<current, keyFile, drawn, row, sealed, rot, raced, torn, keyFaults>>

(* enqueue_delivery copies the sealed secret of a subscription.            *)
EnqueueDeliverySealed(h) ==
    /\ h \in LiveHooks /\ pending[h] = None
    /\ pending' = [pending EXCEPT ![h] = row[h].key]
    /\ fresh' = fresh \cup {h}
    /\ Commit
    /\ UNCHANGED <<current, keyFile, drawn, row, sealed, rot, raced, torn, keyFaults>>

(* claim_pending_deliveries unseals under the current key; when that fails *)
(* the body goes out unsigned.  The delivery ends, or comes due again.     *)
ClaimDelivery(h) ==
    /\ pending[h] # None
    /\ \/ pending' = [pending EXCEPT ![h] = None] /\ fresh' = fresh \ {h}
       \/ UNCHANGED <<pending, fresh>>
    /\ Commit
    /\ UNCHANGED <<current, keyFile, drawn, row, sealed, rot, raced, torn, keyFaults>>

----------------------------------------------------------------------------
(* rotate_master_key.  The transaction begins and reads every row with a   *)
(* secret, revoked ones as well; the old key is read before that.          *)
BeginRotation(r) ==
    /\ rot[r].pc = "idle"
    /\ \E k \in Key \ drawn :
          /\ drawn' = drawn \cup {k}
          /\ rot' = [rot EXCEPT ![r] = [pc |-> "read", old |-> current, new |-> k, rows |-> Rows,
                                        result |-> "none"]]
    /\ stale' = stale \ {r}
    /\ UNCHANGED <<current, keyFile, row, sealed, pending, fresh, raced, torn, keyFaults>>

Refuse(r) == rot' = [rot EXCEPT ![r] = [NoRot EXCEPT !.pc = "done", !.result = "error"]]

(* Every row of the snapshot opens with the old key.                       *)
Unseals(r) == \A h \in rot[r].rows : row[h].key = rot[r].old

CommitLiveOnly(r) ==
    /\ rot[r].pc = "read"
    /\ IF Unseals(r) /\ (rot[r].rows = {} \/ r \notin stale)
       THEN /\ row' = [h \in Hook |-> IF h \in rot[r].rows \cap LiveHooks
                                      THEN [row[h] EXCEPT !.key = rot[r].new] ELSE row[h]]
            /\ rot' = [rot EXCEPT ![r].pc = "swap"]
            /\ fresh' = {}
            /\ Commit
       ELSE /\ Refuse(r)
            /\ UNCHANGED <<row, fresh, stale>>
    /\ UNCHANGED <<current, keyFile, drawn, sealed, pending, raced, torn, keyFaults>>

(* The rows are opened with the old key and sealed with the new one, and   *)
(* the transaction commits.  One row that does not open, or any commit     *)
(* since the snapshot if there is something to write, fails it all.        *)
CommitRotation(r) ==
    /\ rot[r].pc = "read"
    /\ IF Unseals(r) /\ (rot[r].rows = {} \/ r \notin stale)
       THEN /\ row' = [h \in Hook |-> IF h \in rot[r].rows
                                      THEN [row[h] EXCEPT !.key = rot[r].new] ELSE row[h]]
            /\ rot' = [rot EXCEPT ![r].pc = "swap"]
            /\ fresh' = {}
            /\ IF rot[r].rows = {} THEN UNCHANGED stale ELSE Commit
       ELSE /\ Refuse(r)
            /\ UNCHANGED <<row, fresh, stale>>
    /\ UNCHANGED <<current, keyFile, drawn, sealed, pending, raced, torn, keyFaults>>

(* The key in memory is replaced.  Rows that came in since the snapshot    *)
(* are under the key it replaces.                                          *)
SwapKey(r) ==
    /\ rot[r].pc = "swap"
    /\ current' = rot[r].new
    /\ raced' = raced \cup (Rows \ rot[r].rows)
    /\ torn' = (torn \/ current # rot[r].old)
    /\ rot' = [rot EXCEPT ![r].pc = "file"]
    /\ UNCHANGED <<keyFile, drawn, row, sealed, pending, fresh, stale, keyFaults>>

WriteOldKey(r) ==
    /\ rot[r].pc = "file"
    /\ keyFile' = rot[r].old
    /\ torn' = (torn \/ current # rot[r].new)
    /\ rot' = [rot EXCEPT ![r] = [NoRot EXCEPT !.pc = "done", !.result = "ok"]]
    /\ UNCHANGED <<current, drawn, row, sealed, pending, fresh, stale, raced, keyFaults>>

(* admin_rotate_webhook_key rewrites the key file, which fs::write empties *)
(* first; a failure is logged.                                             *)
WriteKeyFile(r) ==
    /\ rot[r].pc = "file"
    /\ \/ /\ keyFile' = rot[r].new
          /\ torn' = (torn \/ current # rot[r].new)
          /\ UNCHANGED keyFaults
       \/ /\ keyFaults < MaxKeyFaults
          /\ keyFaults' = keyFaults + 1
          /\ torn' = TRUE
          /\ keyFile' \in {keyFile, None}
    /\ rot' = [rot EXCEPT ![r] = [NoRot EXCEPT !.pc = "done", !.result = "ok"]]
    /\ UNCHANGED <<current, drawn, row, sealed, pending, fresh, stale, raced>>

(* The process dies and starts again: load_or_generate reads the file, and *)
(* fails on an empty one.  A transaction that has not committed is rolled  *)
(* back; a file that was being written may be empty.                       *)
KeysCrash ==
    /\ keyFaults < MaxKeyFaults
    /\ keyFaults' = keyFaults + 1
    /\ keyFile' \in IF \E r \in Rotators : rot[r].pc = "file" THEN {keyFile, None} ELSE {keyFile}
    /\ current' = keyFile'
    /\ torn' = (torn \/ \E r \in Rotators : rot[r].pc \in {"swap", "file"})
    /\ sealed' = [h \in Hook |-> None]
    /\ rot' = [r \in Rotators |-> IF rot[r].pc \in {"idle", "done"} THEN rot[r]
                                  ELSE [NoRot EXCEPT !.pc = "done", !.result = "error"]]
    /\ stale' = {}
    /\ UNCHANGED <<drawn, row, pending, fresh, raced>>

HookStep(h) ==
    \/ SealSecret(h) \/ InsertRow(h) \/ RemoveHook(h) \/ EnqueueDeliverySealed(h) \/ ClaimDelivery(h)
RotationStep(r) == BeginRotation(r) \/ CommitRotation(r) \/ SwapKey(r) \/ WriteKeyFile(r)

KeysNext ==
    /\ current # None
    /\ \/ \E h \in Hook : HookStep(h)
       \/ \E r \in Rotators : RotationStep(r)
       \/ KeysCrash

KeysSpec == KeysInit /\ [][KeysNext]_keysVars

----------------------------------------------------------------------------
(* Every variable has its type; in particular no row, delivery or key file *)
(* ever holds a key that was not drawn, and every row a secret.            *)
KeysTypeOK ==
    /\ drawn \in SUBSET Key
    /\ current \in drawn \cup {None} /\ keyFile \in drawn \cup {None}
    /\ \A h \in Hook : row[h].key = None <=> row[h].state = "absent"
    /\ fresh \in SUBSET Hook
    /\ row \in [Hook -> [key : drawn \cup {None}, state : {"absent", "live", "revoked"}]]
    /\ sealed \in [Hook -> drawn \cup {None}]
    /\ pending \in [Hook -> drawn \cup {None}]
    /\ rot \in [Rotators -> RotType]
    /\ stale \in SUBSET Rotators
    /\ raced \in SUBSET Hook
    /\ torn \in BOOLEAN
    /\ keyFaults \in 0 .. MaxKeyFaults

Settled == \A r \in Rotators : rot[r].pc \in {"idle", "read", "done"}

(* A stored secret can be opened with the current key, through any number  *)
(* of rotations, refused ones included, with two exceptions: its own add   *)
(* overlapped a swap of the key, or memory, file and table were torn apart *)
(* by a crash inside a rotation, a failed file write or two crossing       *)
(* rotations.                                                              *)
SecretsReadable ==
    Settled /\ ~torn => \A h \in Rows \ raced : row[h].key = current

(* Unless they were torn apart, a restart comes up with the key that is in *)
(* memory, and so with the one the rows are sealed under.                  *)
RestartKeepsKey == Settled /\ ~torn => keyFile = current

(* Only deliveries that were waiting while a rotation committed go out     *)
(* unsigned: rotation does not re-seal webhook_deliveries, but what is     *)
(* enqueued afterwards, from before the swap in memory even, can be signed.*)
DeliveriesSigned ==
    Settled /\ ~torn => \A h \in fresh \ raced : pending[h] = current

(* webhooks.rs, current_key: "`add` and `rotate_master_key` both take the  *)
(* conn-mutex first to serialize"; rotate_master_key: "concurrent `add`    *)
(* and `list` block until it completes -- they then see the new key".       *)
AddsAreSerialized == raced = {}
============================================================================
