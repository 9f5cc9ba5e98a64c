---------------------------- MODULE MCDirtyTree ----------------------------
(***************************************************************************)
(* A document of one pair whose value is an array of one element, and one  *)
(* header; two nodes to be built, an array (or inline table) and a scalar. *)
(***************************************************************************)
EXTENDS DirtyTree

CONSTANTS doc, tbl, kv, key, arr, elem, list, leaf

MCParsed == {doc, tbl, kv, key, arr, elem}
MCNodes == MCParsed \cup {list, leaf}
MCParents == [n \in MCParsed |->
  CASE n = doc -> NoNode
    [] n \in {tbl, kv} -> doc
    [] n \in {key, arr} -> kv
    [] n = elem -> arr]
MCHeaders == {doc, tbl}
MCLists == {arr, list}
MCPairs == {kv}
MCKeys == {key}
=============================================================================
