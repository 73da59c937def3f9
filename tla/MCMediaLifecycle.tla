-------------------------- MODULE MCMediaLifecycle --------------------------
(* Small instances of MediaLifecycle; the .cfg files give the sets.         *)
EXTENDS MediaLifecycle, TLC

Symmetry ==
  Permutations(Workers) \union Permutations(Requests) \union Permutations(Janitors)
    \union Permutations(Posts)

(* What Presign, Upload, the worker and Age make of the initial state when  *)
(* every image has been uploaded and processed and its URL has expired.     *)
(* Runs that are not about uploading start here.                            *)
ReadyInit ==
  /\ status = [m \in Media |-> "processed"]
  /\ owner \in [Media -> Users]
  /\ post = [m \in Media |-> None]
  /\ variants = [m \in Media |-> Kinds]
  /\ age = [m \in Media |-> Settled]
  /\ author = [p \in Posts |-> None]
  /\ avatar = [u \in Users |-> None]
  /\ account = [u \in Users |-> "active"]
  /\ objects = Objects /\ kept = {} /\ broken = {}
  /\ events = [m \in Media |-> 0]
  /\ worker = [w \in Workers |-> IdleWorker]
  /\ request = [r \in Requests |-> IdleRequest]
  /\ janitor = [j \in Janitors |-> IdleJanitor]
  /\ pending = {} /\ logged = {}

ReadySpec == ReadyInit /\ [][Next]_vars

(* One image is to be uploaded; the first id belonged to an upload that was *)
(* given up and cleaned away.                                               *)
UploadInit ==
  /\ status = [m \in Media |-> IF m = 1 THEN "gone" ELSE "unused"]
  /\ owner \in [Media -> Users \union {None}]
  /\ \A m \in Media : owner[m] = None <=> status[m] = "unused"
  /\ post = [m \in Media |-> None]
  /\ variants = [m \in Media |-> {}]
  /\ age = [m \in Media |-> IF m = 1 THEN Retired ELSE Uploading]
  /\ author = [p \in Posts |-> None]
  /\ avatar = [u \in Users |-> None]
  /\ account = [u \in Users |-> "active"]
  /\ objects = {} /\ kept = {} /\ broken = {}
  /\ events = [m \in Media |-> 0]
  /\ worker = [w \in Workers |-> IdleWorker]
  /\ request = [r \in Requests |-> IdleRequest]
  /\ janitor = [j \in Janitors |-> IdleJanitor]
  /\ pending = {} /\ logged = {}

(* Uploading with all its races, and the life of two uploaded images: the   *)
(* two never meet, and both at once would be too many states.               *)
ImagesSpec == (UploadInit \/ ReadyInit) /\ [][Next]_vars
=============================================================================
