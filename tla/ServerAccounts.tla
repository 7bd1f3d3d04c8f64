--------------------------- MODULE ServerAccounts ---------------------------
(***************************************************************************)
(* web/secret_store.py under web/routes/accounts.py and the start of the   *)
(* service in web/main.py.  Each method of the store is a transaction of   *)
(* its own; create_account awaits four things in turn (the verification,   *)
(* the insert, the update of the permissions, the list) and other requests *)
(* run in between.  The worker can die between any two steps; on its start *)
(* it loads the master key, which an operator may have replaced.           *)
(*                                                                         *)
(* A permission report is represented by the key it speaks of, a           *)
(* ciphertext by the master key that made it.  lifespan leaves             *)
(* active_version at 1, so every row and the canary are of version 1 and   *)
(* master_key_prev, loaded as version 0, decrypts none of them.            *)
(***************************************************************************)
CONSTANTS
  Names,       \* account names
  GoodKeys,    \* keys with which the exchange lets the balance be read
  BadKeys,     \* other keys
  MasterKeys,  \* values of the file master_key
  Reqs,        \* concurrent POST requests
  NoKey        \* no key

ASSUME KeysAssumption == NoKey \notin GoodKeys \cup BadKeys \cup MasterKeys

VARIABLES
  keyFile,  \* the master key in the credentials directory
  loaded,   \* the key the worker runs with, NoKey while it is down
  canary,   \* the key of the canary row, NoKey before the first start
  rows,     \* table accounts: name -> [key, enc, perms], key = NoKey if absent
  reqs,     \* create_account: [at, name, key]
  crossed,  \* auxiliary: requests whose row was deleted before they were done
  spoiled,  \* auxiliary: names whose permissions a crossed request wrote
  orphans   \* auxiliary: names whose creator ended between the row and its permissions

vars == <<keyFile, loaded, canary, rows, reqs, crossed, spoiled, orphans>>

Keys == GoodKeys \cup BadKeys
Up == loaded # NoKey
NoRow == [key |-> NoKey, enc |-> NoKey, perms |-> NoKey]
Idle == [at |-> "idle", name |-> NoKey, key |-> NoKey]
Exists(n) == rows[n] # NoRow
Decrypts(key, enc) == key = enc
Goto(r, at) == reqs' = [reqs EXCEPT ![r].at = at]
Done(r) == reqs' = [reqs EXCEPT ![r] = Idle] /\ crossed' = crossed \ {r}

-----------------------------------------------------------------------------
(* create_account *)

\* Mutant: the key is stored first and verified by whoever uses it.
CreateUnverified(r) ==
  /\ Up /\ reqs[r] = Idle
  /\ \E n \in Names, k \in Keys :
       reqs' = [reqs EXCEPT ![r] = [at |-> "add", name |-> n, key |-> k]]
  /\ UNCHANGED <<keyFile, loaded, canary, rows, crossed, spoiled, orphans>>

Create(r) ==
  /\ Up /\ reqs[r] = Idle
  /\ \E n \in Names, k \in Keys :
       reqs' = [reqs EXCEPT ![r] = [at |-> "verify", name |-> n, key |-> k]]
  /\ UNCHANGED <<keyFile, loaded, canary, rows, crossed, spoiled, orphans>>

Verified(r) ==
  /\ reqs[r].at = "verify" /\ reqs[r].key \in GoodKeys
  /\ Goto(r, "add")
  /\ UNCHANGED <<keyFile, loaded, canary, rows, crossed, spoiled, orphans>>

\* 502 after the 10 s of wait_for or a NetworkError, else the error of the key.
NotVerified(r) ==
  /\ reqs[r].at = "verify"
  /\ Done(r)
  /\ UNCHANGED <<keyFile, loaded, canary, rows, spoiled, orphans>>

NewRow(k) == [key |-> k, enc |-> loaded, perms |-> NoKey]

\* Mutant: INSERT OR REPLACE.
AddOrReplace(r) ==
  /\ reqs[r].at = "add"
  /\ rows' = [rows EXCEPT ![reqs[r].name] = NewRow(reqs[r].key)]
  /\ Goto(r, "perms")
  /\ UNCHANGED <<keyFile, loaded, canary, crossed, spoiled, orphans>>

\* Mutant: the 409 is not raised; the request goes on.
AddOrGoOn(r) ==
  /\ reqs[r].at = "add"
  /\ rows' = IF Exists(reqs[r].name) THEN rows
             ELSE [rows EXCEPT ![reqs[r].name] = NewRow(reqs[r].key)]
  /\ Goto(r, "perms")
  /\ UNCHANGED <<keyFile, loaded, canary, crossed, spoiled, orphans>>

\* Mutant: the permissions are not written back.
AddOnly(r) ==
  /\ reqs[r].at = "add" /\ ~Exists(reqs[r].name)
  /\ rows' = [rows EXCEPT ![reqs[r].name] = NewRow(reqs[r].key)]
  /\ Goto(r, "list")
  /\ UNCHANGED <<keyFile, loaded, canary, crossed, spoiled, orphans>>

\* add_account, or 409 for a name that is taken.
AddAccount(r) ==
  /\ reqs[r].at = "add"
  /\ IF Exists(reqs[r].name)
     THEN Done(r) /\ UNCHANGED rows
     ELSE /\ rows' = [rows EXCEPT ![reqs[r].name] = NewRow(reqs[r].key)]
          /\ Goto(r, "perms") /\ UNCHANGED crossed
  /\ UNCHANGED <<keyFile, loaded, canary, spoiled, orphans>>

\* Mutant: an upsert, which makes a row of permissions alone.
UpsertPermissions(r) ==
  /\ reqs[r].at = "perms"
  /\ rows' = [rows EXCEPT ![reqs[r].name].perms = reqs[r].key]
  /\ orphans' = orphans \ {reqs[r].name}
  /\ Goto(r, "list")
  /\ UNCHANGED <<keyFile, loaded, canary, crossed, spoiled>>

\* UPDATE ... WHERE name: whatever row has the name by now, or none.
UpdatePermissions(r) ==
  /\ reqs[r].at = "perms"
  /\ LET n == reqs[r].name IN
       /\ rows' = IF Exists(n) THEN [rows EXCEPT ![n].perms = reqs[r].key] ELSE rows
       /\ spoiled' = IF r \in crossed /\ Exists(n) THEN spoiled \cup {n}
                     ELSE spoiled \ {n}
       /\ orphans' = IF r \in crossed THEN orphans ELSE orphans \ {n}
  /\ Goto(r, "list")
  /\ UNCHANGED <<keyFile, loaded, canary, crossed>>

\* A statement fails (locked for longer than busy_timeout, disk full): nobody catches
\* it, the request ends with 500, and what it committed before stays.
StoreFails(r) ==
  /\ reqs[r].at \in {"add", "perms", "list"}
  /\ orphans' = IF reqs[r].at = "perms" /\ r \notin crossed
                THEN orphans \cup {reqs[r].name} ELSE orphans
  /\ Done(r)
  /\ UNCHANGED <<keyFile, loaded, canary, rows, spoiled>>

\* 201 with the row of that name, or 500 if there is none.
AnswerCreated(r) ==
  /\ reqs[r].at = "list"
  /\ Done(r)
  /\ UNCHANGED <<keyFile, loaded, canary, rows, spoiled, orphans>>

\* DELETE /accounts/{name}; 404 changes nothing.
DeleteAccount(n) ==
  /\ Up /\ Exists(n)
  /\ rows' = [rows EXCEPT ![n] = NoRow]
  /\ crossed' = crossed \cup {r \in Reqs : reqs[r].name = n
                                           /\ reqs[r].at \in {"perms", "list"}}
  /\ spoiled' = spoiled \ {n} /\ orphans' = orphans \ {n}
  /\ UNCHANGED <<keyFile, loaded, canary, reqs>>

-----------------------------------------------------------------------------
(* The service and its key *)

\* Stopped, killed or crashed; what is committed stays.
Stop ==
  /\ Up
  /\ loaded' = NoKey
  /\ reqs' = [r \in Reqs |-> Idle] /\ crossed' = {}
  /\ orphans' = orphans \cup {n \in Names : Exists(n) /\ \E r \in Reqs :
                                reqs[r].name = n /\ reqs[r].at = "perms"}
  /\ UNCHANGED <<keyFile, canary, rows, spoiled>>

\* The operator replaces the file, and keeps the old key as master_key_prev.
RotateKey ==
  /\ \E k \in MasterKeys : keyFile' = k
  /\ UNCHANGED <<loaded, canary, rows, reqs, crossed, spoiled, orphans>>

\* Mutant: every start writes the canary anew.
StartNewCanary ==
  /\ ~Up
  /\ canary' = keyFile /\ loaded' = keyFile
  /\ UNCHANGED <<keyFile, rows, reqs, crossed, spoiled, orphans>>

\* init_schema writes a canary if there is none.
InitSchema == canary' = IF canary = NoKey THEN keyFile ELSE canary

\* lifespan: with a key that does not decrypt the canary, verify_canary raises and
\* the service does not start.
Start ==
  /\ ~Up
  /\ InitSchema
  /\ loaded' = IF Decrypts(keyFile, canary') THEN keyFile ELSE NoKey
  /\ UNCHANGED <<keyFile, rows, reqs, crossed, spoiled, orphans>>

-----------------------------------------------------------------------------
Init ==
  /\ keyFile \in MasterKeys /\ loaded = NoKey /\ canary = NoKey
  /\ rows = [n \in Names |-> NoRow]
  /\ reqs = [r \in Reqs |-> Idle]
  /\ crossed = {} /\ spoiled = {} /\ orphans = {}

Handle(r) ==
  \/ Create(r) \/ Verified(r) \/ NotVerified(r)
  \/ AddAccount(r) \/ UpdatePermissions(r) \/ StoreFails(r) \/ AnswerCreated(r)

Next ==
  \/ \E r \in Reqs : Handle(r)
  \/ \E n \in Names : DeleteAccount(n)
  \/ Stop \/ RotateKey \/ Start

Spec == Init /\ [][Next]_vars

-----------------------------------------------------------------------------
(* Properties *)

TypeOK ==
  /\ keyFile \in MasterKeys
  /\ loaded \in MasterKeys \cup {NoKey} /\ canary \in MasterKeys \cup {NoKey}
  /\ rows \in [Names -> {NoRow} \cup
                 [key : Keys, enc : MasterKeys, perms : Keys \cup {NoKey}]]
  /\ reqs \in [Reqs -> {Idle} \cup
                 [at : {"verify", "add", "perms", "list"}, name : Names, key : Keys]]
  /\ crossed \subseteq Reqs /\ spoiled \subseteq Names /\ orphans \subseteq Names

\* A worker that runs can decrypt every account it lists, whatever became of the
\* key file: with another key than that of the canary it does not start.
UpMeansReadable == Up => \A n \in Names : Exists(n) => Decrypts(loaded, rows[n].enc)

\* The permissions an account shows are those of the key it stores, unless the
\* name was deleted and registered again while its first creation was under way.
PermsBelong ==
  \A n \in Names \ spoiled : Exists(n) => rows[n].perms \in {NoKey, rows[n].key}

\* An account without permissions is one whose creator is about to write them, or
\* was stopped or failed just before: no overlap of requests and deletions makes one
\* (create_account commits the row and its permissions one after the other).
UnknownIsTransient ==
  \A n \in Names \ orphans :
    Exists(n) /\ rows[n].perms = NoKey =>
      \E r \in Reqs : reqs[r].name = n /\ reqs[r].at = "perms"

\* The routes implement the registry: a name stands for one accepted key until it
\* is deleted, whatever requests overlap and wherever the worker dies.
Registry == INSTANCE AccountRegistry WITH registry <- [n \in Names |-> rows[n].key]
KeepsRegistry == Registry!Spec
=============================================================================
