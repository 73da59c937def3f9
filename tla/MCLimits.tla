------------------------------- MODULE MCLimits -------------------------------
(* Small instances of Limits; the .cfg file gives the constants.            *)
EXTENDS Limits, TLC

CONSTANTS
  o1, o2,
  MaxKeys   \* how many keys of a process are followed

NoClaimOrAnother == {<<>>, <<o2>>}

RequestSymmetry == Permutations(Requests)

(* Few keys are in use at a time, and attempts are not followed far beyond  *)
(* the limit of an open window.                                             *)
KeysOf(s) == UNION {{l} \X DOMAIN attempts[s][l] : l \in Limiters}
Few == \A s \in Servers :
         /\ Cardinality(KeysOf(s)) <= MaxKeys
         /\ \A e \in KeysOf(s) : attempts[s][e[1]][e[2]].count <= Limit + 1
=============================================================================
