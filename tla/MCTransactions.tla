---------------------------- MODULE MCTransactions ----------------------------
(* Small instances of Transactions; the .cfg files give the sets.           *)
EXTENDS Transactions, TLC

CONSTANTS u1, u2, p1, c1, c2, s1, s2, t1, t2

MCOwner == [p \in Posts |-> u1]
MCAuthor == [c \in Comments |-> IF c = c1 THEN u2 ELSE u1]
MCOn == [c \in Comments |-> p1]
MCTagList == [s \in Texts |-> IF s = s1 THEN <<t1, t2>> ELSE <<t2>>]

Symmetry == Permutations(Workers)
=============================================================================
