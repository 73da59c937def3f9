----------------------------- MODULE MCSessions -----------------------------
(* Small instances of Sessions; the .cfg files give the sets.              *)
EXTENDS Sessions, TLC

Symmetry == Permutations(Requests) \union Permutations(Tokens)
              \union Permutations(Browsers)

(* Runs that are not about signing up and rehashing start with users whose *)
(* hash is up to date.                                                     *)
CurrentInit ==
  /\ clock = 0
  /\ account = [u \in Users |-> "active"]
  /\ stale = {}
  /\ password \in [Users -> Passwords]
  /\ token = [t \in Tokens |-> NoRow]
  /\ cookie = [b \in Browsers |-> None]
  /\ access = [b \in Browsers |-> {}]
  /\ request = [r \in Requests |-> IdleRequest]
  /\ born = [t \in Tokens |-> Unborn]
  /\ chosen = password

CurrentSpec == CurrentInit /\ [][Next]_vars
=============================================================================
