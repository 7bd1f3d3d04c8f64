------------------------ MODULE ServerAccounts_proofs ------------------------
(***************************************************************************)
(* ServerAccounts: its invariants, and that it implements AccountRegistry, *)
(* for any number of names, keys, master keys and concurrent requests.     *)
(***************************************************************************)
EXTENDS ServerAccounts, TLAPS

\* The next-state relation, flat.
LEMMA NextCases ==
  ASSUME Next
  PROVE  \/ \E r \in Reqs : \/ Create(r) \/ Verified(r) \/ NotVerified(r)
                            \/ AddAccount(r) \/ UpdatePermissions(r) \/ StoreFails(r)
                            \/ AnswerCreated(r)
         \/ \E n \in Names : DeleteAccount(n)
         \/ Stop \/ RotateKey \/ Start
BY DEF Next, Handle

-----------------------------------------------------------------------------
\* No request outlives the worker that serves it.
DownIsIdle == ~Up => \A r \in Reqs : reqs[r].at = "idle"

TypeInv == TypeOK /\ DownIsIdle

\* Every step keeps the types, and leaves no request behind a stopped worker.
LEMMA TypeInvStep == TypeInv /\ [Next]_vars => TypeInv'
<1> SUFFICES ASSUME TypeInv, [Next]_vars PROVE TypeInv'
  OBVIOUS
<1> USE KeysAssumption DEF TypeInv, DownIsIdle, TypeOK, Keys, NoRow, Idle, Goto, Done,
                           Exists, Up
<1>1. ASSUME NEW r \in Reqs, Create(r) PROVE TypeInv'
  BY <1>1 DEF Create
<1>2. ASSUME NEW r \in Reqs, Verified(r) PROVE TypeInv'
  BY <1>2 DEF Verified
<1>3. ASSUME NEW r \in Reqs, NotVerified(r) PROVE TypeInv'
  BY <1>3 DEF NotVerified
<1>4. ASSUME NEW r \in Reqs, AddAccount(r) PROVE TypeInv'
  BY <1>4 DEF AddAccount, NewRow
<1>5. ASSUME NEW r \in Reqs, UpdatePermissions(r) PROVE TypeInv'
  BY <1>5 DEF UpdatePermissions
<1>6. ASSUME NEW r \in Reqs, AnswerCreated(r) PROVE TypeInv'
  BY <1>6 DEF AnswerCreated
<1>12. ASSUME NEW r \in Reqs, StoreFails(r) PROVE TypeInv'
  BY <1>12 DEF StoreFails
<1>7. ASSUME NEW n \in Names, DeleteAccount(n) PROVE TypeInv'
  BY <1>7 DEF DeleteAccount
<1>8. CASE Stop
  BY <1>8 DEF Stop
<1>9. CASE RotateKey
  BY <1>9 DEF RotateKey
<1>10. CASE Start
  BY <1>10 DEF Start, InitSchema, Decrypts
<1>11. CASE UNCHANGED vars
  BY <1>11 DEF vars
<1> QED
  BY NextCases, <1>1, <1>2, <1>3, <1>4, <1>5, <1>6, <1>7, <1>8, <1>9, <1>10, <1>11,
     <1>12

\* The same of every behaviour.
LEMMA AlwaysTypeInv == Spec => []TypeInv
<1>1. Init => TypeInv
  BY KeysAssumption DEF Init, TypeInv, DownIsIdle, TypeOK, NoRow, Idle
<1> QED
  BY <1>1, TypeInvStep, PTL DEF Spec

\* Types are kept: whoever stores an account has a key to encrypt it with, and a
\* row is complete or absent.
THEOREM TypeCorrect == Spec => []TypeOK
<1>1. TypeInv => TypeOK
  BY DEF TypeInv
<1> QED
  BY <1>1, AlwaysTypeInv, PTL

-----------------------------------------------------------------------------
\* The worker runs with the key of the canary, and so does every row: a start
\* under another key fails, and a row is written by a worker that runs.
OneKey ==
  /\ Up => loaded = canary
  /\ \A n \in Names : Exists(n) => rows[n].enc = canary /\ canary # NoKey

\* Every step keeps all rows under the key of the canary.
LEMMA OneKeyStep == TypeInv /\ OneKey /\ [Next]_vars => OneKey'
<1> SUFFICES ASSUME TypeInv, OneKey, [Next]_vars PROVE OneKey'
  OBVIOUS
<1> USE KeysAssumption DEF TypeInv, DownIsIdle, OneKey, TypeOK, Keys, NoRow, Idle, Goto,
                           Done, Exists, Up
<1>1. ASSUME NEW r \in Reqs, Create(r) PROVE OneKey'
  BY <1>1 DEF Create
<1>2. ASSUME NEW r \in Reqs, Verified(r) PROVE OneKey'
  BY <1>2 DEF Verified
<1>3. ASSUME NEW r \in Reqs, NotVerified(r) PROVE OneKey'
  BY <1>3 DEF NotVerified
<1>4. ASSUME NEW r \in Reqs, AddAccount(r) PROVE OneKey'
  BY <1>4 DEF AddAccount, NewRow
<1>5. ASSUME NEW r \in Reqs, UpdatePermissions(r) PROVE OneKey'
  BY <1>5 DEF UpdatePermissions
<1>6. ASSUME NEW r \in Reqs, AnswerCreated(r) PROVE OneKey'
  BY <1>6 DEF AnswerCreated
<1>12. ASSUME NEW r \in Reqs, StoreFails(r) PROVE OneKey'
  BY <1>12 DEF StoreFails
<1>7. ASSUME NEW n \in Names, DeleteAccount(n) PROVE OneKey'
  BY <1>7 DEF DeleteAccount
<1>8. CASE Stop
  BY <1>8 DEF Stop
<1>9. CASE RotateKey
  BY <1>9 DEF RotateKey
<1>10. CASE Start
  BY <1>10 DEF Start, InitSchema, Decrypts
<1>11. CASE UNCHANGED vars
  BY <1>11 DEF vars
<1> QED
  BY NextCases, <1>1, <1>2, <1>3, <1>4, <1>5, <1>6, <1>7, <1>8, <1>9, <1>10, <1>11,
     <1>12

\* A running worker decrypts every account, for any number of key files, starts
\* and crashes (init_schema, verify_canary, add_account).
THEOREM RunningReadsAll == Spec => []UpMeansReadable
<1>1. Init => OneKey
  BY DEF Init, OneKey, Up, Exists
<1>2. OneKey => UpMeansReadable
  BY DEF OneKey, UpMeansReadable, Decrypts
<1> QED
  BY <1>1, <1>2, OneKeyStep, AlwaysTypeInv, PTL DEF Spec

-----------------------------------------------------------------------------
\* What create_account knows between its awaits: the key is accepted, and its
\* row is there until somebody deletes it.
OnlyGood ==
  \A r \in Reqs : reqs[r].at \in {"add", "perms", "list"} => reqs[r].key \in GoodKeys

OwnRow ==
  /\ \A r \in crossed : reqs[r].at \in {"perms", "list"}
  /\ \A r \in Reqs \ crossed :
       reqs[r].at = "perms" => rows[reqs[r].name].key = reqs[r].key

RequestInv == TypeInv /\ OnlyGood /\ OwnRow

\* Every step keeps what a request knows.
LEMMA RequestStep == RequestInv /\ [Next]_vars => OnlyGood' /\ OwnRow'
<1> SUFFICES ASSUME RequestInv, [Next]_vars PROVE OnlyGood' /\ OwnRow'
  OBVIOUS
<1> USE KeysAssumption DEF RequestInv, TypeInv, OnlyGood, OwnRow, TypeOK, Keys, NoRow,
                           Idle, Goto, Done, Exists
<1>1. ASSUME NEW r \in Reqs, Create(r) PROVE OnlyGood' /\ OwnRow'
  BY <1>1 DEF Create
<1>2. ASSUME NEW r \in Reqs, Verified(r) PROVE OnlyGood' /\ OwnRow'
  BY <1>2 DEF Verified
<1>3. ASSUME NEW r \in Reqs, NotVerified(r) PROVE OnlyGood' /\ OwnRow'
  BY <1>3 DEF NotVerified
<1>4. ASSUME NEW r \in Reqs, AddAccount(r) PROVE OnlyGood' /\ OwnRow'
  BY <1>4 DEF AddAccount, NewRow
<1>5. ASSUME NEW r \in Reqs, UpdatePermissions(r) PROVE OnlyGood' /\ OwnRow'
  BY <1>5 DEF UpdatePermissions
<1>6. ASSUME NEW r \in Reqs, AnswerCreated(r) PROVE OnlyGood' /\ OwnRow'
  BY <1>6 DEF AnswerCreated
<1>12. ASSUME NEW r \in Reqs, StoreFails(r) PROVE OnlyGood' /\ OwnRow'
  BY <1>12 DEF StoreFails
<1>7. ASSUME NEW n \in Names, DeleteAccount(n) PROVE OnlyGood' /\ OwnRow'
  BY <1>7 DEF DeleteAccount
<1>8. CASE Stop
  BY <1>8 DEF Stop
<1>9. CASE RotateKey
  BY <1>9 DEF RotateKey
<1>10. CASE Start
  BY <1>10 DEF Start, InitSchema, Decrypts
<1>11. CASE UNCHANGED vars
  BY <1>11 DEF vars
<1> QED
  BY NextCases, <1>1, <1>2, <1>3, <1>4, <1>5, <1>6, <1>7, <1>8, <1>9, <1>10, <1>11,
     <1>12

\* The same of every behaviour.
LEMMA AlwaysRequestInv == Spec => []RequestInv
<1>1. Init => OnlyGood /\ OwnRow
  BY DEF Init, OnlyGood, OwnRow, Idle
<1>2. RequestInv /\ [Next]_vars => RequestInv'
  BY RequestStep, TypeInvStep DEF RequestInv
<1>3. Init => TypeInv
  BY KeysAssumption DEF Init, TypeInv, DownIsIdle, TypeOK, NoRow, Idle
<1>4. Init => RequestInv
  BY <1>1, <1>3 DEF RequestInv
<1> QED
  BY <1>2, <1>4, PTL DEF Spec

-----------------------------------------------------------------------------
\* Permissions are those of the stored key unless deletions crossed a creation
\* (create_account writes them in a transaction of its own).
THEOREM PermissionsBelong == Spec => []PermsBelong
<1>1. Init => PermsBelong
  BY DEF Init, PermsBelong, Exists
<1>2. RequestInv /\ PermsBelong /\ [Next]_vars => PermsBelong'
  <2> SUFFICES ASSUME RequestInv, PermsBelong, [Next]_vars PROVE PermsBelong'
    OBVIOUS
  <2> USE KeysAssumption DEF RequestInv, TypeInv, OwnRow, PermsBelong, TypeOK, Keys, NoRow,
                             Idle, Goto, Done, Exists
  <2>1. ASSUME NEW r \in Reqs, Create(r) PROVE PermsBelong'
    BY <2>1 DEF Create
  <2>2. ASSUME NEW r \in Reqs, Verified(r) PROVE PermsBelong'
    BY <2>2 DEF Verified
  <2>3. ASSUME NEW r \in Reqs, NotVerified(r) PROVE PermsBelong'
    BY <2>3 DEF NotVerified
  <2>4. ASSUME NEW r \in Reqs, AddAccount(r) PROVE PermsBelong'
    BY <2>4 DEF AddAccount, NewRow
  <2>5. ASSUME NEW r \in Reqs, UpdatePermissions(r) PROVE PermsBelong'
    BY <2>5 DEF UpdatePermissions
  <2>6. ASSUME NEW r \in Reqs, AnswerCreated(r) PROVE PermsBelong'
    BY <2>6 DEF AnswerCreated
  <2>12. ASSUME NEW r \in Reqs, StoreFails(r) PROVE PermsBelong'
    BY <2>12 DEF StoreFails
  <2>7. ASSUME NEW n \in Names, DeleteAccount(n) PROVE PermsBelong'
    BY <2>7 DEF DeleteAccount
  <2>8. CASE Stop
    BY <2>8 DEF Stop
  <2>9. CASE RotateKey
    BY <2>9 DEF RotateKey
  <2>10. CASE Start
    BY <2>10 DEF Start, InitSchema, Decrypts
  <2>11. CASE UNCHANGED vars
    BY <2>11 DEF vars
  <2> QED
    BY NextCases, <2>1, <2>2, <2>3, <2>4, <2>5, <2>6, <2>7, <2>8, <2>9, <2>10, <2>11,
       <2>12
<1> QED
  BY <1>1, <1>2, AlwaysRequestInv, PTL DEF Spec

\* The creator whose permissions are awaited is the one of this very row.
Awaited ==
  \A n \in Names \ orphans :
    Exists(n) /\ rows[n].perms = NoKey =>
      \E r \in Reqs \ crossed : reqs[r].name = n /\ reqs[r].at = "perms"

\* An account without permissions waits for its creator, or lost it when the worker
\* stopped or its UPDATE failed; overlapping requests never leave one.
THEOREM UnknownPermissionsAwaited == Spec => []UnknownIsTransient
<1>1. Init => Awaited
  BY DEF Init, Awaited, Exists
<1>2. RequestInv /\ Awaited /\ [Next]_vars => Awaited'
  <2> SUFFICES ASSUME RequestInv, Awaited, [Next]_vars
               PROVE Awaited'
    OBVIOUS
  <2> USE KeysAssumption DEF RequestInv, TypeInv, OwnRow, Awaited, TypeOK, Keys,
                             NoRow, Idle, Goto, Done, Exists
  <2>1. ASSUME NEW r \in Reqs, Create(r) PROVE Awaited'
    BY <2>1 DEF Create
  <2>2. ASSUME NEW r \in Reqs, Verified(r) PROVE Awaited'
    BY <2>2 DEF Verified
  <2>3. ASSUME NEW r \in Reqs, NotVerified(r) PROVE Awaited'
    BY <2>3 DEF NotVerified
  <2>4. ASSUME NEW r \in Reqs, AddAccount(r) PROVE Awaited'
    <3>1. r \notin crossed
      BY <2>4 DEF AddAccount
    <3> QED
      BY <2>4, <3>1 DEF AddAccount, NewRow
  <2>5. ASSUME NEW r \in Reqs, UpdatePermissions(r) PROVE Awaited'
    BY <2>5 DEF UpdatePermissions
  <2>6. ASSUME NEW r \in Reqs, AnswerCreated(r) PROVE Awaited'
    BY <2>6 DEF AnswerCreated
  <2>12. ASSUME NEW r \in Reqs, StoreFails(r) PROVE Awaited'
    <3> SUFFICES ASSUME NEW n \in Names \ orphans', Exists(n)', rows'[n].perms = NoKey
                 PROVE  \E q \in Reqs \ crossed' :
                          reqs'[q].name = n /\ reqs'[q].at = "perms"
      OBVIOUS
    <3>1. /\ rows' = rows /\ reqs' = [reqs EXCEPT ![r] = Idle]
          /\ crossed' = crossed \ {r} /\ n \notin orphans
          /\ reqs[r].at = "perms" /\ r \notin crossed => n # reqs[r].name
      BY <2>12 DEF StoreFails
    <3>2. PICK q \in Reqs \ crossed : reqs[q].name = n /\ reqs[q].at = "perms"
      BY <3>1
    <3>3. q # r
      BY <3>1, <3>2
    <3> QED
      BY <3>1, <3>2, <3>3
  <2>7. ASSUME NEW n \in Names, DeleteAccount(n) PROVE Awaited'
    BY <2>7 DEF DeleteAccount
  <2>8. CASE Stop
    BY <2>8 DEF Stop
  <2>9. CASE RotateKey
    BY <2>9 DEF RotateKey
  <2>10. CASE Start
    BY <2>10 DEF Start, InitSchema, Decrypts
  <2>11. CASE UNCHANGED vars
    BY <2>11 DEF vars
  <2> QED
    BY NextCases, <2>1, <2>2, <2>3, <2>4, <2>5, <2>6, <2>7, <2>8, <2>9, <2>10, <2>11,
       <2>12
<1>3. Awaited => UnknownIsTransient
  BY DEF Awaited, UnknownIsTransient
<1> QED
  BY <1>1, <1>2, <1>3, AlwaysRequestInv, PTL DEF Spec

-----------------------------------------------------------------------------
\* The registry that the rows stand for.
Held == [n \in Names |-> rows[n].key]

\* A step of the routes is a registration, a deregistration or a stutter.
LEMMA RegistryStep ==
  RequestInv /\ [Next]_vars => [Registry!Next]_Held
<1> SUFFICES ASSUME RequestInv, [Next]_vars PROVE [Registry!Next]_Held
  OBVIOUS
<1> USE KeysAssumption DEF RequestInv, TypeInv, OnlyGood, TypeOK, Keys, NoRow, Idle, Goto,
                           Done, Exists, Held
<1>1. ASSUME NEW r \in Reqs, Create(r) PROVE [Registry!Next]_Held
  BY <1>1 DEF Create
<1>2. ASSUME NEW r \in Reqs, Verified(r) PROVE [Registry!Next]_Held
  BY <1>2 DEF Verified
<1>3. ASSUME NEW r \in Reqs, NotVerified(r) PROVE [Registry!Next]_Held
  BY <1>3 DEF NotVerified
<1>4. ASSUME NEW r \in Reqs, AddAccount(r) PROVE [Registry!Next]_Held
  <2>1. CASE Exists(reqs[r].name)
    BY <1>4, <2>1 DEF AddAccount
  <2>2. CASE ~Exists(reqs[r].name)
    <3>1. PICK n \in Names, k \in GoodKeys : n = reqs[r].name /\ k = reqs[r].key
      BY <1>4 DEF AddAccount
    <3>2. rows' = [rows EXCEPT ![n] = NewRow(k)] /\ NewRow(k).key = k
      BY <1>4, <2>2, <3>1 DEF AddAccount, NewRow
    <3>3. Held[n] = NoKey
      BY <2>2, <3>1
    <3>4. \A m \in Names : rows'[m].key = IF m = n THEN k ELSE rows[m].key
      BY <3>2
    <3>5. Held' = [Held EXCEPT ![n] = k]
      BY <3>4
    <3>6. Registry!Register(n, k)
      BY <3>3, <3>5 DEF Registry!Register
    <3>7. Registry!Next
      BY <3>6 DEF Registry!Next
    <3> QED
      BY <3>7
  <2> QED
    BY <2>1, <2>2
<1>5. ASSUME NEW r \in Reqs, UpdatePermissions(r) PROVE [Registry!Next]_Held
  BY <1>5 DEF UpdatePermissions
<1>6. ASSUME NEW r \in Reqs, AnswerCreated(r) PROVE [Registry!Next]_Held
  BY <1>6 DEF AnswerCreated
<1>12. ASSUME NEW r \in Reqs, StoreFails(r) PROVE [Registry!Next]_Held
  BY <1>12 DEF StoreFails
<1>7. ASSUME NEW n \in Names, DeleteAccount(n) PROVE [Registry!Next]_Held
  <2>1. Held' = [Held EXCEPT ![n] = NoKey]
    BY <1>7 DEF DeleteAccount
  <2>2. Registry!Deregister(n)
    BY <2>1 DEF Registry!Deregister
  <2> QED
    BY <2>2 DEF Registry!Next
<1>8. CASE Stop
  BY <1>8 DEF Stop
<1>9. CASE RotateKey
  BY <1>9 DEF RotateKey
<1>10. CASE Start
  BY <1>10 DEF Start, InitSchema, Decrypts
<1>11. CASE UNCHANGED vars
  BY <1>11 DEF vars
<1> QED
  BY NextCases, <1>1, <1>2, <1>3, <1>4, <1>5, <1>6, <1>7, <1>8, <1>9, <1>10, <1>11,
     <1>12

\* ServerAccounts implements AccountRegistry (accounts.py create_account,
\* delete_account).
THEOREM RoutesKeepRegistry == Spec => KeepsRegistry
<1>1. Init => Registry!Init
  BY DEF Init, Registry!Init, NoRow
<1>2. RequestInv /\ [Next]_vars => [Registry!Next]_Held
  BY RegistryStep
<1> QED
  BY <1>1, <1>2, AlwaysRequestInv, PTL DEF Spec, KeepsRegistry, Registry!Spec, Held
=============================================================================
