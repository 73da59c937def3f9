----------------------------- MODULE ReactionData -----------------------------
(***************************************************************************)
(* What Reactions and Transactions have in common: the users, and the      *)
(* posts and comments that may come to be written.  Every post and every   *)
(* comment has one author for good, and ids are never reused, so Owner,    *)
(* Author and On are constants.                                            *)
(***************************************************************************)
EXTENDS Naturals, Sequences, FiniteSets

CONSTANTS
  Users,      \* rows of users
  Posts,      \* ids of posts
  Comments,   \* ids of comments
  Texts,      \* what a post may say
  NoText,     \* no post to say anything
  Tags,       \* rows of tags
  Owner,      \* posts.user_id
  Author,     \* comments.user_id
  On,         \* comments.post_id
  TagList     \* the tags sent along with a text, in their order

ASSUME FiniteAssumption == IsFiniteSet(Users) /\ IsFiniteSet(Comments)
ASSUME OwnerAssumption == Owner \in [Posts -> Users]
ASSUME AuthorAssumption == Author \in [Comments -> Users]
ASSUME OnAssumption == On \in [Comments -> Posts]
ASSUME TagAssumption == TagList \in [Texts -> Seq(Tags)]

TagsOf == [t \in Texts |-> {TagList[t][i] : i \in DOMAIN TagList[t]}]

(* UNSIGNED columns that the statements keep from going below zero. *)
Less(n, k) == IF n > k THEN n - k ELSE 0
=============================================================================
