-------------------------- MODULE AccountRegistry --------------------------
(***************************************************************************)
(* What the account routes promise: a name stands for one key that Binance *)
(* has accepted, from the moment it is registered until it is deleted,     *)
(* whoever else asks for the name (web/routes/accounts.py: "bad keys never *)
(* reach the encrypted store", 409 for a name that is taken).              *)
(***************************************************************************)
CONSTANTS
  Names,     \* account names
  GoodKeys,  \* keys with which the exchange lets the balance be read
  NoKey      \* a name that is not registered

VARIABLE registry

Init == registry = [n \in Names |-> NoKey]

Register(n, k) == registry[n] = NoKey /\ registry' = [registry EXCEPT ![n] = k]

Deregister(n) == registry' = [registry EXCEPT ![n] = NoKey]

Next == \E n \in Names : Deregister(n) \/ \E k \in GoodKeys : Register(n, k)

Spec == Init /\ [][Next]_registry
=============================================================================
