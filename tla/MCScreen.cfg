SPECIFICATION MCSpec
CONSTANTS
  lineA = lineA
  lineB = lineB
  lineC = lineC
  wrapped = wrapped
  Lines = {lineA, lineB, lineC, wrapped}
  LineHeight <- RowsOf
  Heights = {2, 3}
  MaxLines = 4
  Texts <- SmallTexts
  MaxLevel = 1
SYMMETRY Symmetry
CHECK_DEADLOCK FALSE
INVARIANTS
  CacheIsSound
PROPERTIES
  TerminalShowsText
  PaintingResumes
  ScreenFollowsCursor
