CONSTANTS
  doc = doc
  tbl = tbl
  kv = kv
  key = key
  arr = arr
  elem = elem
  list = list
  leaf = leaf
  Nodes <- MCNodes
  NoNode = NoNode
  Parsed <- MCParsed
  Root <- doc
  Parents <- MCParents
  Headers <- MCHeaders
  Lists <- MCLists
  Pairs <- MCPairs
  Keys <- MCKeys
SPECIFICATION Spec
INVARIANTS NoStaleSplice NothingElseRendered
CHECK_DEADLOCK FALSE
