----------------------------- MODULE MCSessions -----------------------------
(***************************************************************************)
(* What is open (Session) and what is remembered of it (the modules of     *)
(* MCJumps).  They share no state, so a behaviour moves one of them.       *)
(***************************************************************************)
EXTENDS MCSession

CONSTANTS
    fileA, fileB, fileBC, Entry, Null, Blank, t1, NoMatch, p1, p2, p3, MaxKept, MaxDepth, MaxTagLines

VARIABLES
    moving,
    mStartPosition, mJumpList, mCurrentJumpListItem,
    exHistory, searchHistory, mRegisters, file,
    current, opened, cursor, modified, mStack, mCurrentTags,
    tagLines, closings

jumpVars == << moving, mStartPosition, mJumpList, mCurrentJumpListItem,
               exHistory, searchHistory, mRegisters, file,
               current, opened, cursor, modified, mStack, mCurrentTags,
               tagLines, closings >>
allVars == << session, jumpVars >>

Jumps == INSTANCE MCJumps

ASSUME Jumps!Assumptions

MCInit ==
    \/ Jumps!InitOf("session") /\ current = fileA /\ Init
    \/ \E part \in {"info", "tags", "file"} :
         /\ Jumps!InitOf(part)
         /\ session = Started([f \in File |-> 0], <<>>, CHOOSE temp \in TempNames : TRUE)

MCNext ==
    \/ moving = "session" /\ Next /\ UNCHANGED jumpVars
    \/ Jumps!Next /\ UNCHANGED session

MCSpec == MCInit /\ [][MCNext]_allVars

(* The properties of MCJumps, which belong to this run with those of       *)
(* MCSession.                                                              *)
JumpsAreReached == Jumps!JumpsAreReached
NextSessionKnows == Jumps!NextSessionKnows
FirstTagIsFound == Jumps!FirstTagIsFound
EveryTagIsFound == Jumps!EveryTagIsFound
PositionsAreKept == Jumps!PositionsAreKept
TagsAreFollowed == [][moving = "tags" => Jumps!TagsAreFollowed]_allVars
=============================================================================
