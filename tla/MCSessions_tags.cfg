\* Searches of a tag file while the memory that held the name is used again.
CONSTANTS
  Buffer = {b1, b2, b3}
  View = {v1, v2, v3}
  File = {f1}
  NewName = {n1, n2}
  Directory = {}
  NoBuffer = NoBuffer
  NoView = NoView
  NoName = NoName
  MaxLine = 1
  fileA = fileA
  fileB = fileB
  fileBC = fileBC
  Entry = {e1}
  Null = Null
  Blank = Blank
  t1 = t1
  NoMatch = NoMatch
  p1 = p1
  p2 = p2
  p3 = p3
  MaxKept = 2
  MaxDepth = 2
  MaxTagLines = 6
SPECIFICATION MCSpec
INVARIANT EveryTagIsFound
CHECK_DEADLOCK FALSE
