-------------------------- MODULE MCFilterAndBrowse --------------------------
(***************************************************************************)
(* Instances of FilterAndBrowse for TLC: two levels of content.            *)
(***************************************************************************)
EXTENDS FilterAndBrowse

CONSTANTS artists, albums, a1, a2, a3, b1, b2, few, wrong

MCRows == [ct \in {artists, albums} |-> IF ct = artists THEN <<a1, a2, a3>> ELSE <<b1, b2>>]
MCChild == [r \in {a1, a2, a3, b1, b2} |-> IF r \in {a2, a3} THEN albums ELSE NoChild]
MCParent == [ct \in {artists, albums} |-> IF ct = albums THEN artists ELSE NoType]
MCUses == [q \in {NoQuery, few, wrong} |-> IF q = few THEN {"name"} ELSE {}]
MCPasses == [q \in {NoQuery, few, wrong} |-> {a2, a3, b2}]
MCIdentifiers == [ct \in {artists, albums} |-> IF ct = artists THEN {"name"} ELSE {"title"}]
=============================================================================
