---------------------------- MODULE MCClientSession ----------------------------
(* Small instances of ClientSession; the .cfg file gives the constants.     *)
EXTENDS ClientSession, TLC

Symmetric == Permutations(Calls) \union Permutations(Tokens) \union Permutations(Keys)
=============================================================================
