\* Texts of up to three lines of two characters (highlighted ones: of four in all), numbers of up to four, drawn
\* lines of four (two lines: two) on three columns, areas of three rows of two;
\* every two changes of options.
SPECIFICATION TextsSpec
CONSTANTS
    Definition <- C
    Char <- CommentChars
    MaxLines = 3
    MaxLength = 2
    MaxChars = 4
    x = x
    y = y
    LineBreakChar = LineBreakChar
    NumberChar = {"0", "8", "X", "A", "E", "F", ".", "L", "-"}
    MaxDigits = 4
    LetterA = "a"
    Tab = "T"
    Blank = " "
    MaxChanges = 2
INVARIANTS
    EditsAreSplices
    NumbersAreFound
    LinesAreDrawn
    AreasAreCollected
    OptionsAreScoped
    OptionsAreKept
PROPERTIES
    HighlightFollowsEdits
CHECK_DEADLOCK FALSE
