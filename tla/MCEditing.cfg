SPECIFICATION MCSpec
CONSTANTS
  Texts <- AllTexts
  Counts = {1, 2}
  Chars = {"a", " "}
  EditChars = {"a", " "}
  FindChars = {"a"}
  Brackets <- Quotes
  MotionNames = {"w", "b", "e", "$", "j", "k", "n", "N", ";", "*"}
  ReadLength = 3
  ReadLines = 2
  Tabstops = {2, 3}
  Ranges <- SomeRanges
  Replacements <- SomeReplacements
  CommandNames <- Commands
  FileNames <- Files
  Prefix <- Here
  LineChars = {"a", "b", " "}
  MaxLine = 4
  MaxEntries = 2
  CompleteOption <- Sources
  OtherTexts <- Others
  TagNames <- Tags
INVARIANTS
  MotionsFindWords
  AreasAreEdited
  SubstituteReplaces
  ColumnsAreKept
  CompletionComesBack
PROPERTY LinesRemovedAreKept
