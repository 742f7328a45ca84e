------------------------------ MODULE ProxyKeys ------------------------------
(***************************************************************************)
(* The proxy-facing API keys of main.py: created, rotated and revoked by   *)
(* administrators, each in a transaction on api_keys that may belong to    *)
(* another proxy process.  A key stands for its row, its plaintext and its *)
(* hash; SELECT ... FOR UPDATE waits for the row lock and then reads the   *)
(* row as committed.                                                       *)
(***************************************************************************)
EXTENDS Naturals, FiniteSets

CONSTANTS
  ApiKeys,       \* values of _new_proxy_key, never generated twice
  Tenants,    \* rows of tenants
  Admins,     \* callers with the admin token, each with a connection of its own
  NoKey,      \* value of a key that has no row, or of an administrator who is idle
  NoAdmin     \* nobody holds the row lock, or revoked_at is null

Status == {"active", "rotated", "revoked"}

\* A row of api_keys; revokedAt is the revocation that set the timestamp.
KeyRow == [tenant : Tenants, status : Status, revokedAt : Admins \cup {NoAdmin}]

ASSUME NullsAreNoValues ==
  NoKey \notin ApiKeys /\ NoKey \notin KeyRow /\ NoAdmin \notin Admins

VARIABLES
  rows,       \* api_keys: the committed row of each key, or NoKey
  lock,       \* lock[k]: the administrator whose transaction holds the row lock
  task,       \* task[a]: what a's open transaction does, to which key
  root        \* history: root[k] is the key that k descends from by rotation

keyVars == <<rows, lock, task, root>>

Idle == [op |-> "none", key |-> NoKey]

KeysInit ==
  /\ rows = [k \in ApiKeys |-> NoKey]
  /\ lock = [k \in ApiKeys |-> NoAdmin]
  /\ task = [a \in Admins |-> Idle]
  /\ root = [k \in ApiKeys |-> NoKey]

Exists(k) == rows[k] # NoKey

Active(k) == Exists(k) /\ rows[k].status = "active"

NewRow(t) == [tenant |-> t, status |-> "active", revokedAt |-> NoAdmin]

-----------------------------------------------------------------------------
\* create_api_key
Create(t) ==
  \E k \in ApiKeys :
    /\ ~Exists(k)
    /\ rows' = [rows EXCEPT ![k] = NewRow(t)]
    /\ root' = [root EXCEPT ![k] = k]
    /\ UNCHANGED <<lock, task>>

\* SELECT ... FOR UPDATE has the row lock.  A key that does not exist, or is
\* not active when it is to be rotated, is refused with 400: no lock is kept.
LockedWithoutWaiting(a, k, op) ==      \* SELECT without FOR UPDATE
  /\ task[a] = Idle
  /\ Exists(k)
  /\ lock' = [lock EXCEPT ![k] = a]
  /\ task' = [task EXCEPT ![a] = [op |-> op, key |-> k]]
  /\ UNCHANGED <<rows, root>>
Locked(a, k, op) ==
  /\ task[a] = Idle
  /\ Exists(k)
  /\ lock[k] = NoAdmin
  /\ lock' = [lock EXCEPT ![k] = a]
  /\ task' = [task EXCEPT ![a] = [op |-> op, key |-> k]]
  /\ UNCHANGED <<rows, root>>

RotateBegins(a, k) == Active(k) /\ Locked(a, k, "rotate")

RevokeBegins(a, k) == Locked(a, k, "revoke")

Ends(a) ==
  /\ lock' = [lock EXCEPT ![task[a].key] = NoAdmin]
  /\ task' = [task EXCEPT ![a] = Idle]

\* UPDATE, INSERT and COMMIT of rotate_api_key.
RotateCommitsAnyTenant(a) ==           \* the tenant is not copied
  LET old == task[a].key IN
  /\ task[a].op = "rotate"
  /\ \E new \in ApiKeys, t \in Tenants :
       /\ ~Exists(new)
       /\ rows' = [rows EXCEPT ![old].status = "rotated", ![new] = NewRow(t)]
       /\ root' = [root EXCEPT ![new] = root[old]]
  /\ Ends(a)
RotateCommits(a) ==
  LET old == task[a].key IN
  /\ task[a].op = "rotate"
  /\ \E new \in ApiKeys :
       /\ ~Exists(new)
       /\ rows' = [rows EXCEPT ![old].status = "rotated", ![new] = NewRow(rows[old].tenant)]
       /\ root' = [root EXCEPT ![new] = root[old]]
  /\ Ends(a)

\* revoke_api_key: a second revocation finds the timestamp of the first.
RevokedAgain(a) ==                     \* the timestamp is set every time
  [rows[task[a].key] EXCEPT !.status = "revoked", !.revokedAt = a]
Revoked(a) ==
  LET row == rows[task[a].key] IN
  IF row.status = "revoked" THEN row
  ELSE [row EXCEPT !.status = "revoked", !.revokedAt = a]

RevokeCommits(a) ==
  /\ task[a].op = "revoke"
  /\ rows' = [rows EXCEPT ![task[a].key] = Revoked(a)]
  /\ UNCHANGED root
  /\ Ends(a)

\* A lost connection or a crash before COMMIT: PostgreSQL rolls back.
RollsBack(a) ==
  /\ task[a] # Idle
  /\ Ends(a)
  /\ UNCHANGED <<rows, root>>

KeysNext ==
  \/ \E t \in Tenants : Create(t)
  \/ \E a \in Admins, k \in ApiKeys : RotateBegins(a, k) \/ RevokeBegins(a, k)
  \/ \E a \in Admins : RotateCommits(a) \/ RevokeCommits(a) \/ RollsBack(a)

KeysSpec == KeysInit /\ [][KeysNext]_keyVars

-----------------------------------------------------------------------------
(***************************************************************************)
(* Type correctness of the keys and of the open transactions.              *)
(***************************************************************************)
KeysTypeOK ==
  /\ rows \in [ApiKeys -> KeyRow \cup {NoKey}]
  /\ lock \in [ApiKeys -> Admins \cup {NoAdmin}]
  /\ task \in [Admins -> [op : {"none", "rotate", "revoke"}, key : ApiKeys \cup {NoKey}]]
  /\ root \in [ApiKeys -> ApiKeys \cup {NoKey}]

(***************************************************************************)
(* "Atomically replace an active key and immediately retire its            *)
(* predecessor" (rotate_api_key): of a key and all that it was rotated     *)
(* into at most one is active, and all belong to the same tenant, however  *)
(* many administrators rotate and revoke it at once.                       *)
(***************************************************************************)
OneActivePerLineage ==
  \A j, k \in ApiKeys : Exists(j) /\ Exists(k) /\ root[j] = root[k] =>
    /\ rows[j].tenant = rows[k].tenant
    /\ Active(j) /\ Active(k) => j = k

(***************************************************************************)
(* "Revoke a key idempotently, preserving its original revocation          *)
(* timestamp": the row of a revoked key never changes again, and no        *)
(* retired key becomes active again.                                       *)
(***************************************************************************)
RetiredForGood ==
  [][\A k \in ApiKeys : Exists(k) =>
       /\ rows[k].status = "revoked" => rows'[k] = rows[k]
       /\ rows[k].status # "active" => rows'[k].status # "active"]_rows
=============================================================================
