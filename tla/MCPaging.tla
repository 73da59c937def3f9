------------------------------- MODULE MCPaging -------------------------------
(* Small instances of Paging; the .cfg files give the constants.            *)
EXTENDS Paging

CONSTANT MaxShown   \* how long the lists on the screen are followed

Short == Len(shown) <= MaxShown
=============================================================================
