# Verification of yzis

yzis is a vi engine: a library, `libyzis`, that front ends (curses, Qt, KDE)
drive by sending it keys, and that draws through callbacks they implement.
These modules model the library's core: how a key becomes a command, what a
command does to the text and to the screen, how changes are undone, journaled
and recovered, and what buffers, views and files there are. TLC checks the
modules on small instances; about undo lists, texts, buffers with their journal,
and the way from keys to modes, TLAPS proves the properties for instances of any
size. Source paths are relative to `src/libyzis/` unless they say more.

## 1. The system

The library has one thread. A front end calls `YSession::sendKey`, which runs a
command to its end, with everything it calls, before it returns. Plugins in Lua
run inside such a call. Concurrency in this code is therefore re-entrance: a
method that calls out (a view that asks the user, a mode that sends keys, an
undo that makes the buffer report new operations) is called back before it has
returned. The other source of trouble is the disk: the swap file outlives a
crash, and what a session remembers goes through a text file to the next one.

| Component | State | Operations | Calls | Hard | Correct when |
|---|---|---|---|---|---|
| Lines and regions (`buffer.cpp`, `line.cpp`) | the lines | `insertRegion`, `deleteRegion`, `dataRegion` and the line and character operations built on them | undo, swap file, views | ends of lines, the last line, the only line, intervals that end past the text | every edit is a splice; an operation's inverse takes it back |
| Undo (`undo.cpp`) | list of items, index, item being recorded, "inside undo" flag | `addBufferOperation`, `commitUndoItem`, `undo`, `redo` | buffer, view cursor | replay calls back into recording; commits come from many places | undo and redo restore the texts between items |
| Swap file (`swapfile.cpp`) | operations in memory, file name, two flags; files on disk | `setFileName`, `init`, `flush`, `addToSwap`, `reset`, `unlink`, `recover` | buffer | crash, renames, files of earlier sessions | what a crash leaves, replayed, is the text but for the last few operations |
| Buffer (`buffer.cpp`) | all of the above, modified flag, path, views | `load`, `save`, `setState`, `checkRecover`, `clearText` | undo, swap file, views, session | orders of these calls | an unmodified buffer has the text of its file |
| Edits (`action.cpp`) | none | some forty operations on characters, lines and areas | buffer, view | areas that begin or end at an end of a line or of the text | an area is changed and nothing else; what is deleted can be put back |
| Modes (`mode*.cpp`, `mode_pool.cpp`) | stack of modes per view, tables of mappings in force, selections | `push`, `pop`, `change`, `sendKey` | everything | a mode that sends keys; a mode left in the middle of a command | Escape always leads back to command mode |
| Mappings, input buffer, macros (`mapping.cpp`, `view.cpp`) | tables, keys typed so far, registers being recorded | `applyMappings`, `sendMultipleKeys`, `recordMacro` | modes | keys produce keys | keys that are not to be remapped are not; the user gets the keyboard back |
| Search and motions (`search.cpp`, `mode_command.cpp`) | last pattern, last character | words, characters, patterns, lines | view, buffer | counts, empty lines, the text's ends | a motion goes where reading the text goes |
| Ex mode (`mode_ex.cpp`, `history.cpp`) | command line, proposals of a completion, commands entered | some forty commands; completion | everything | ranges, walking along lines that change | `:s` and `:retab` change what they should |
| Session (`session.cpp`) | buffers, views, current view | create, delete, find, save all, leave | buffers, views | a command that closes its own view | every view has a listed buffer; no text is lost unasked |
| View and screen (`view.cpp`, `drawbuffer*.cpp`, `viewcursor.cpp`) | cursor, screen origin, cache of drawn lines, paint counter, areas to paint | motions, scrolling, `commitPaintEvent`, edits reported by the buffer | buffer, front end | deltas on caches; counters raised and lowered by nested calls | cache and terminal show the text; the cursor is on the screen |
| Drawing (`drawcell.cpp`, `drawline.cpp`) | cells of a line | arranging a line in rows, marking a selection | options | tabs cut by the edge | positions and columns agree |
| Selections (`selection.cpp`) | sorted intervals | add, remove, clip, test | | intervals that touch or overlap, open and closed ends | the set is that of its cells |
| Highlighting (`kate/`) | contexts at the end of each line | highlight a line, highlight again after an edit | buffer | stopping too early | lines are as if all had been highlighted anew |
| Jumps, histories, registers kept (`yzisinfo.cpp`) | lists with an index, saved positions; a file | record, back, forward, write, read | session | one text file for all, an index at the ends | what is written is what is read; each jump is reached |
| Tags (`tags_interface.cpp`, `tags_stack.cpp`, `readtags/`) | stack of jumps and of lists of matching tags; a position in the tag file | jump, next, previous, pop; binary search | session, search | seeking into the middle of lines | pop comes back; the tags of a name are found |
| Options (`internal_options.cpp`) | entries in groups by scope | get, set, read and write the configuration, rename | views | scope decided by name | an entry reaches its scope and no other |
| Folding, events, resources, Lua, printing, front ends | - | - | - | - | outside (section 6) |

`PROJECT.json` lists every component with its files and what is modelled of it,
and every hazard with its line and the properties that watch it.

## 2. The modules

| Module | Models |
|---|---|
| `TextRegion` | The primitives `insertRegion`, `deleteRegion`, `dataRegion` and the arguments the line operations give them, as operators on a text. No state. |
| `UndoHistory` | Abstract: two stacks of changes and the change in progress. |
| `UndoBuffer` | `YZUndoBuffer`, one action per method; `undo` and `redo` are a start, one step per operation and a finish, because the buffer calls back in between. |
| `SwapFile` | `YSwapFile` as operators from the state before a call to the one after it. |
| `Buffer` | The composition of these: the text, an `UndoBuffer`, a `SwapFile`, the edited file, the calls that reach the buffer from `YZAction` and the modes, and the end and next start of the program. |
| `KeyInput` | From a key to a command: `YSession::sendKey` and `sendMultipleKeys`, the mappings, recorded macros, the input buffer and the stack of modes. |
| `Motions` | Where words, lines, characters and patterns are found (`mode_command.cpp`, `search.cpp`), as operators. |
| `Editing` | One action per command of command, insert and replace mode on a text with a cursor and the unnamed register. |
| `Completion` | The words that are completed while typing, forward and backward through the buffers; extends `Editing`. |
| `VisualMode` | The selection, the commands on it, and indenting; extends `Editing`. |
| `ExCommands` | Ranges, `:s`, `:>`, `:<`, `:retab`; extends `VisualMode`. |
| `CommandLine` | The line ex commands are typed on, its completion and the commands entered before. |
| `Screen` | A view's cursor and screen, the cache of drawn lines, pending paint events and a terminal that they paint (`nyzis`), under motions, scrolling, edits here and in another view, and selections. |
| `Cells` | A line as rows of cells, columns of positions, marking a selection. |
| `Selection` | `YInterval` and `YSelectionMap` as operators on lists of intervals. |
| `HlItems`, `Highlight` | The rules of a syntax definition; highlighting a line and, after an edit, those the edit changed. |
| `Session` | Buffers and views, and every command that opens, saves, switches or closes them. |
| `YzisInfo` | What is remembered from one session to the next, the file it goes through, the jump list. |
| `TagStack`, `TagFile` | Following tags; the search of a tag file, by halves and from the top. |
| `Options` | Entries, groups and scopes, `:set` and its operators, the configuration file, renaming. |
| `MC*` | Instances for TLC, reference definitions, history variables and the properties that need them. |
| `UndoBuffer_proofs`, `TextRegion_proofs`, `Buffer_proofs`, `BufferUndo_proofs`, `KeyInput_proofs`, `Session_proofs`, `Screen_proofs`, `InductionLemmas` | The theorems (section 5). |

How the modules fit together: `Buffer` is composed of `TextRegion`, an INSTANCE of
`UndoBuffer` and one of `SwapFile`; `UndoBuffer` implements `UndoHistory`.
`ExCommands`, `VisualMode`, `Editing` and `Motions` extend one another down to
`TextRegion`, `Completion` extends `Editing`, as do `Cells` and `Highlight`: all edits of all modules are those of
`TextRegion`. `KeyInput` ends where a command begins, and the others begin there;
`Screen` takes an edit as the call the buffer makes of its views. Between these
parts runs no state but what a call hands over, so each is checked by itself.

How `Buffer` corresponds to the code:

* One step is one call of `insertRegion` or `deleteRegion`, with all it does:
  the text, `addBufferOperation`, `addToSwap` and the modified flag. A method
  that makes several such calls makes the first in its own action and leaves
  the others in `calls`; `CallRegion`, `CallDeleteLine`, `CallCommit`,
  `CallLoad` and `CallRecovered` take them off. While `calls` is not empty no
  other method starts (one thread), but the program may die.
* A line is a sequence of characters and an operation a record of its kind, its
  data and its interval, as in `YBufferOperation`. Columns are counted from 0.
  `QString::left`, `QString::mid` and the detached line that `yzline()` returns
  for a line number out of range are modelled by what they do.
* A file is represented by what matters of it: the edited file by the lines
  `load()` reads back, the swap file by its sequence of entries. `recover()`
  reads lines; how many lines each entry is written as, and which of them
  `recover()` takes for the start of an entry, is modelled in `Recovered`.
* The swap file can have three names: beside the edited file, in the root
  directory (which is where `setFileName` puts the swap file of a path without a
  directory) or none. The user may write only to the first.
* A change of cursor is kept as its line, which is what an undo item keeps.

How `KeyInput` corresponds to the code:

* `sendKey` calls itself, through `sendMultipleKeys` (mappings, macros, scripts)
  and `replayKey` (a completion or the intro that ends). The stack of these calls
  is `frames`, the innermost first: `keys` is the loop of `sendMultipleKeys` with
  the keys it has left, `exec` a key that is in the input buffer and about to be
  executed, and the others are commands that wait for the keys they sent.
* `SendKey` is the part of a `sendKey` before the mode executes the key (record,
  map, append to the input buffer). One action per command does the rest, and
  `Finish` is the end of `YModePool::sendKey`, which purges or keeps the input
  buffer by the state the command returned.
* A key is a string. `q` and `@` stand for themselves with the register `a`, and
  `@` also has a count. One command of each kind is modelled: the ones that push a
  mode, that change it, that move, that delete, the operators with a motion, with
  a text object or doubled, and the ones that send keys. Of the view's text only
  the column of the cursor is kept, since modes read and move it; where a motion
  goes is any column.
* A mapping is a sequence of keys and its replacement. A register is `<<>>` or one
  line of keys.
* Each visual mode object keeps a start per view (`start`); that is not the same
  as one start for the selection (section 4).

How the others correspond:

* `Editing`, `VisualMode` and `ExCommands` have one action per command, which makes
  all the calls the command makes, in their order. Numbers are the code's: a cursor
  that can be behind the last character, `qMin` where the code has it, searches that
  go by the column on the screen where they do in the code.
* In `Screen` a line is how many rows it takes and what identifies it; the cache
  is a sequence of such lines with their marks, a paint event a set of rows. The
  counter that suspends painting is `view.level`; a method that returns without
  lowering it is an action that leaves it raised.
* In `Session` a buffer has a name, a modified flag, a flag for "never named" and its
  views; what text it has is in `Buffer`. `lost` remembers that unsaved text went. A
  freed buffer or view can be allocated again. Asking the user for a name and saving
  to disk can end either way.
* In `YzisInfo` a file is a sequence of lines of a kind, and reading one is what
  the parser makes of it: names are cut at a blank, registers counted by lines.
* In `TagFile` a file is lines with lengths in bytes, because the search seeks to
  bytes and reads the line after the one it landed in. The name searched for is only
  pointed to; each call of `findNext` may find there what `held` says, and what is found
  is a set of lists of lines.

Definitions marked *Slip* are mistaken versions of the definition that follows
them (a dropped guard, an off-by-one, a lost reset). Nothing uses them; they
are there so that each property can be shown to notice a mistake: put in the
place of the original, the run that lists the property must fail. The list
`mutants` in `PROJECT.json` pairs them.

## 3. The runs

| Run | Question | Bounds, and why they are enough |
|---|---|---|
| `undo_buffer` | Does the undo list implement two stacks of changes (`HistorySpec`), whatever is recorded, committed, undone and redone in whatever order? Is a replay never recorded (`ReplayKeepsRecord`), and does `u` find an item that is not empty (`ItemsAreReplayable`)? | Two operations, three items of up to two: an edit can drop some undone items and keep others. The theorems have no bounds. |
| `buffer_edits` | After any edits, undos and redos, is the text exactly the one the current items made (`UndoRestoresText`), and is every operation replayed at a line and a column that exist (`ReplayInText`)? | Three lines, two items of up to two operations begun by the user (a merge of lines has three of its own). Commands that make an item each and insert mode, where many keys make one. A character, a line break, a whole line are inserted, deleted and joined, and undone in the middle of others; the theorems have all edits and no bounds. The last line is deleted in the next run. |
| `undo_last_line` | A counterexample is expected: the same where the last line may be deleted. | One line, `dd`, `u`. |
| `buffer_files` | Does the journal, in file and memory, replay to the text at every rest, and are fewer than `updatecount` operations in memory only (`JournalIsKept`)? Does an unmodified buffer always have the text of its file (`UnmodifiedIsSaved`)? Across save, preserve, `:e`, quit, a crash at every step, start and recovery. | `updatecount` 2, the first value for which memory and file both matter; one item; both ways to name the file; the deletion of the last line included. |
| `keys_modes` | Is a mode always over one it returns to, and has a visual mode its start (`ModesAreStacked`)? Does Escape lead back (`EscReturns`)? Is a register what was typed (`RecordsWhatIsTyped`)? | From the intro, no mapping, script or operator; a stack of 3 modes (completion over insert over command, ex over visual over command), two columns, 2 recorded keys (enter a mode and leave it). |
| `keys_sent` | Do keys that send keys (mappings in four tables, a macro with a count, a script, a completion that gives its key back) come to an end (`KeysAreProcessed`), and leave nothing for the next mode (`InputIsFresh`)? | 8 nested calls, more than these mappings and macros nest. |
| `editing` | Do motions go where reading the text goes (`MotionsFindWords`), are areas deleted, yanked, put and changed as they lie in the text (`AreasAreEdited`), no deleted line lost (`LinesRemovedAreKept`), do `:s`, `:retab`, `<` and `>` change what they should (`SubstituteReplaces`, `ColumnsAreKept`), does completion, of a command line and of a word in the text, come back to what was typed (`CompletionComesBack`)? | Texts of two lines of 2 to 3 characters (a letter, a blank; quotes and brackets for text objects), counts 1 and 2: every combination of first, middle and last position with an empty line. Lines of five with tabs, tabstops 2 and 3. |
| `screen` | Is the cache that rows are drawn from the text with its selection (`CacheIsSound`), does the terminal follow (`TerminalShowsText`), is a suspended painting resumed (`PaintingResumes`), is the cursor on the screen (`ScreenFollowsCursor`)? | Screens of 2 and 3 rows, texts of up to 4 lines, so that text is above and below the screen; a line that wraps. Symmetry in two plain lines, which are alike. `MCNext` leaves out the steps that leave old lines in the cache (`LeavesLines`, section 4): the deletion of a selection that began below the screen, and edits of lines that wrap which push cached ones off it. |
| `sessions` | Do lists of buffers and views agree (`ViewsAreSound`); is text lost only by a command told to (`LossIsAskedFor`); one buffer per file (`OneBufferPerFile`); is the position of a file recorded when it is closed (`ClosedAreRemembered`) and that record kept, through closings of others and over sessions (`PositionsAreKept`); does the next session know what was written (`NextSessionKnows`); is each jump reached (`JumpsAreReached`); do tags lead there and back (`TagsAreFollowed`); is the first tag of a name found, and the others as long as the name is in memory (`FirstTagIsFound`)? | Three buffers and views (close one of several, or the last but one), one file and two made-up names; symmetry in buffers and views, which the allocator chooses. Two jumps, stacks of two, two positions kept of which one is written, tag files of six lines. |
| `tags_next` | A counterexample is expected: are all tags of a name found, whatever is in the memory that held it (`EveryTagIsFound`)? | The tag files of `sessions`; the memory holds the name, nothing, or another name. |
| `texts` | Are edits splices (`EditsAreSplices`); are changed lines highlighted again (`HighlightFollowsEdits`) and numbers recognised (`NumbersAreFound`); are lines drawn in rows that agree with positions (`LinesAreDrawn`); are areas to paint joined and cut right (`AreasAreCollected`); do option entries reach their scope (`OptionsAreScoped`) and last (`OptionsAreKept`)? | Every text of three lines of two characters, every edit; numbers of four characters; lines of four on three columns with tabstop 2; all intervals in three rows of two; every two changes of options, three views, two buffers. |
| `selection_marks` | A counterexample is expected: is exactly the selection marked, wherever it begins? | One line of four characters. |

Three runs end in a counterexample, each where the code does not do what a test or a
comment of it says.

* `undo_last_line`: `tests/scripts/test_undo.lua:42-48` types a line, `dd` and `u`, and
  asserts that the text is the line again. `deleteLine` on the last line deletes up to
  the start of a line that does not exist (`buffer.cpp:204`, `:206`), `dataRegion` copies
  that as one more line break (`buffer.cpp:418`), and the undo inserts it: an empty line
  is left behind the text.
* `tags_next`: the comment at `tags_interface.cpp:50-51` says that `lastsearch` is there
  because `readtags` keeps a pointer to the name, and that the next tag is not found
  otherwise. What is passed is `lastsearch.toUtf8()` (`:245`), itself a temporary;
  `findNext` (`readtags.c:693`, `:698`) compares with it after it was freed. `TagFile`
  gives each call of `findNext` a name that memory may hold then.
* `selection_marks`: `drawbuffer.h:211` says of `addSelection` that it marks the given
  interval as selected; one that begins inside a run of characters of one colour is
  marked beyond its end, because the cell is cut there and the offset into it is kept
  (`drawbufferiterators.cpp:273`). `LinesAreDrawn` has the same statement for selections
  that begin with a line, where it holds.

Other disagreements, which no run asserts, are in section 4.

Bounds. The bounds of `KeyInput` are on the user: with `MaxStack` modes on the stack
only Escape is typed, with `MaxRegister` keys recorded the user leaves the mode and
stops the recording (`Leaving`), and nothing is typed while `MaxInput` keys wait
in the input buffer. A sent key is never dropped by a bound, except that no more
than `MaxFrames` calls nest. A macro that plays itself and a mapping that contains
itself send keys for ever in the code too; the runs leave them out. In `Buffer` an
edit is not begun that would make the text, the list or the journal larger than
`MaxLines`, `MaxLength`, `MaxItems`, `MaxPending` and `MaxJournal`; what was begun
is always finished. An undo is not begun on a text that earlier ones, after `:e` or of
a last line, have made larger than twice that. `:e` is given before the first edit only
(`ReadEarly`), since each later one, undone, would make the text grow. The other modules bound texts, stacks and lists in the guards
of the actions that make them grow.

Parts. `editing`, `sessions` and `texts` each check several parts that share no
state. A behaviour moves one part, the one `part` or `moving` names from the start,
so the parts' states add up and do not multiply; nothing is lost by it because no
action and no property reads two of them.

Fairness. There is one liveness property, `KeysAreProcessed`: the call of `sendKey`
returns. It assumes weak fairness of `Process`, the steps of that call: the program's
only thread runs it to its end, and the front end waits for it and runs nothing else
meanwhile. No fairness is assumed of what the user does of their own accord.

Deadlock is checked except in `screen`, `sessions`, `tags_next`, `texts` and `selection_marks`. In
`screen` a view whose painting is suspended for good (section 4) is followed no
further; in `sessions` the tag file is only written and searched and the
last of the files ends the part; in `texts` and `selection_marks` an input
grows to its bound and stops. In the others the user can do something in every
state.

## 4. Seen while modelling

What the models show of the code. Each is described so that it can be followed in
the source; where a property would have said the opposite, the property of the run
says what does hold, and its comment names the exception.

Undo, journal and buffer:

* Undoing the deletion of the last line leaves an empty line (`undo_last_line`). Since
  that is a defect, the deletion of the last line (and the join with it, which ends in
  one) has command names of its own in `Buffer`, `deleteLastLine` and `mergeLastLine`,
  and the properties about exact texts are checked and proved without them, not weakened
  by what it leaves.
* Undo and redo put the cursor on the line of an earlier commit, which may be gone
  (`undo.cpp:139`, `:208`; `view.cpp:356` asserts that it exists).
* Recovery replays nothing: `recover()` takes a line for the bounds of an operation
  only if it is the last of the file (`swapfile.cpp:200`; the comment at `:170` says
  what is meant). This is proved (`NothingIsRecovered`).
* A path with a directory: `setPath` names the swap file, `load` names it again,
  and `setFileName` (`swapfile.cpp:58`) unlinks the file of the name before, so
  the file a crash left is removed before `buffer.cpp:642` looks for it.
* A swap file whose recovery was declined is appended to by the session that
  declined it (`swapfile.cpp:157` returns, `flush` writes all the same). So is one
  found under a bare name.
* `flush()` forgets its operations if the file cannot be opened (`swapfile.cpp:115`).
* `adjustNumber` (`<C-a>`, `mode_command.cpp:2449`) does not commit its change:
  `u` undoes the change before it, and the next command's item has both. The user
  guide (`userguide.docbook:398`) has `<C-a>` among the changes.
* `:e` of the file being edited reads it anew and keeps the undo list and the journal
  of the text before (`mode_ex.cpp:804`).
* A failed save leaves highlighting suspended (`buffer.cpp:723`); `save()` and
  `setState()` use the first view of a buffer that may have none (`buffer.cpp:738`).
* The position saved for a file is not applied when it is opened, nor when `:e` reads it
  again: the cursor is on the first line (`buffer.cpp:756-770`). `PositionsAreKept`
  and `ClosedAreRemembered` are about the records only. `:e` in a buffer without a name
  empties it, `load()` returning at once.

Keys and modes:

* A noremap mapping is not remapped in its first key only (`mapping.cpp:95`, against
  `luafuncs.h:496`).
* `i` in visual mode waits for a second key, and with Escape it is an unknown
  command: visual mode stays. `EscReturns` is therefore about an Escape typed into
  an empty input buffer; and it needs an Escape that is not mapped.
* `d v Escape` leaves the operator pending for good: `interval`
  (`mode_command.cpp:1682`) gives up only if it read nothing, and `v` was read.
* `replayMacro` (`mode_command.cpp:2210`) takes `CmdOk` of the last key for a stop:
  the count of `@` is used only while macros end in an error.
* `v V` and `V v` begin the selection anew, and a start left from such a change is
  used again later: each visual mode object keeps its own (`mode_visual.cpp:66`).
* A key that ends a completion is recorded twice, and so is a mapped key and what
  it is mapped to (`session.cpp:717`, called again by `replayKey` and
  `sendMultipleKeys`).
* Keys sent from a command line over a visual mode, by a script or a mapping
  of the command line, put command mode over the visual mode (`session.cpp:682`).
  From there a second visual mode, or insert mode, comes to lie over the first, and
  a visual mode without a start, which `mode_visual.cpp:75` asserts it has.
  `ModesStacked` is proved for the keys that do not do this, `StackGrounded` for all.
* A mapping of insert mode or of the command line longer than one key leaves the keys
  before its last in the input buffer when it does not match (`InputFresh`'s
  hypothesis).
* A mapping that contains itself and a macro that plays itself never end
  (`mode_pool.cpp:80`).
* The view is used after the command it ran may have closed it (`session.cpp:753`).
* Stopping to record takes the first line of a register that may have none
  (`view.cpp:802`). `registerModifierKeys` has no effect in any front end.

Motions and edits:

* `+` and Enter take the larger of the last line and the next, `-` the smaller of 0
  and the one before; `%` never moves; `b` with a count sticks on an empty line; a
  word at column 0 is counted as empty after a line break; `W` at the end of a line
  skips the first word of the next; `gE` from a leading blank goes a line up; `F`
  never reaches column 0 from column 1.
* A search within a line goes by the column on the screen; with nothing between
  begin and end it goes forward; a match at the text's very end is not found from
  other lines; a backward match after wrapping is shifted. `i(` overwrites the pattern.
* `yG` and `cG` go to line 0, `d*` searches backward: `interval` passes on the
  name of the operator.
* `dj` and `dk` that reach the last line put a copy of the line before the area in
  its place (`action.cpp:270-283`). `cc` on the last line opens above the one before.
  `3x` keeps one character in the register; what `dj` takes is pasted by characters;
  a yank of lines to the end loses the last one when pasted; `P` of lines on line 0
  merges. Backspace at column 0 joins with a blank; `J` of an empty line adds one.
  `gUU` with a count puts the cursor behind the text; `dl` on the last character
  deletes nothing; `5>>` indents one line five times; marks never move with edits.
* `VS` deletes a line too many, `VU` and `Vu` on the last line add one and stay
  in visual mode; `A` inserts before the last selected character; after `v` to a
  line's end and `d`, or `v$` and Escape, the cursor is behind the last character.

Ex mode:

* A range alone and `:>` swap column and line (`mode_ex.cpp`, near 525 and 1205);
  ranges with `'<` fail; `?pat?` searches forward; numbers are not clamped; `:w` of a
  range runs twice.
* `:s` on the last line appends an empty line (`setTextline`, `buffer.cpp:434`), and its
  first search misses a match at column 0 and one in the last line, where
  `userguide.docbook:456-468` says that it replaces the occurrences in the lines given.
  `SubstituteReplaces` says nothing of these cases;
  without a closing delimiter the whole command is read as options; an empty match
  with `g` never ends. `:retab N` measures old columns with the new tabstop.
* Completing backward (C-p) looks for words up to the start of the text and stops there
  (`i >= 0`); the comment at `mode_complete.cpp:310-313` says that it goes on from the
  end of the text, as forward completion does from the start. `CompletionComesBack`
  leaves open whether the words behind the cursor are proposed after a first C-p.
* Completing two words with a trailing blank garbles the line. Going back in the
  history and executing an entry drops the later ones.
* Folds can be made and nothing reads them.

Screen and drawing:

* Scrolling to the cursor adds up heights of the wrong lines
  (`drawbuffer.cpp:273-277`); an edit that also scrolls leaves stale rows; the
  selection of the pool is never cleared (`view.cpp:583-596`); a line higher than the
  screen puts the top below the cursor.
* An update after an edit stops at the first line below the screen
  (`view.cpp:944-948`), but `squeeze` keeps cached lines further down as far as the
  line a selection started in (`drawbuffer.cpp:614-617`). Deleting a selection that was
  made upwards from below the screen therefore leaves lines of the old text in the
  cache, which are drawn when the screen scrolls to them. With lines that wrap, an edit
  that pushes several cached lines off the screen leaves them in the same way.
* An edit in another view leaves this view's cursor and screen beyond the text;
  an insertion there returns between `configureViews` and `commitViewsChanges`
  (`action.cpp:68`) and painting stays suspended. Lines that do not exist are drawn
  when the text is cut above the screen (`buffer.cpp:1172`, `drawbuffer.cpp:246-251`).
* Marking a selection that begins inside a cell marks beyond its end (the run
  `selection_marks`); one that ends at a line's end leaves an empty cell. `arrange()`
  splits a cell only once. A column inside a tab is the position after it. Two cells
  that differ in font only are not drawn again.
* `addInterval` and `delInterval` remove one interval too many and do not tell an
  interval's ends apart; `clip` closes open ends.
* After a join, a split or a paste the line behind the last one highlighted again may
  stay wrong (`buffer.cpp:281`, `:349`). `1F` is never a float of C, hexadecimal
  needs `0X`, and `07U` is cut short (`syntaxhighlight.cpp:845`, `:900`).

Sessions, tags, options:

* `:wqa` and `ZZ` leave out buffers that were never named; `:bd` asks nothing; `:w
  name` can give two buffers one name and keeps it when saving fails; `:e name` of an
  open buffer resets its cursor.
* The tag reader compares with a freed name in `findNext` (`tags_next`).
* The binary search of a tag file misses tags if a line is longer than a third of
  `JUMP_BACK`. A jump searches the pattern in the buffer it comes from
  (`tags_interface.cpp:129`); the next tag before any jump takes the last of an empty
  list (`tags_stack.cpp:73`); a jump leaves a modified file where a pop refuses.
* The search history is written with `:` and comes back among the commands; registers
  of three and more strings and some of lines do not come back; names with blanks
  are cut; an empty jump list is read out of its range (`yzisinfo.cpp:440`).
* Options of a view or a buffer have no value before one is set
  (`internal_options.cpp:259-268`): without a configuration file the tabstop reads 0,
  and a tab divides by it (`view.cpp:128`, `:975`). Reading the configuration puts all
  entries in the global group; `:set` of a list without a value sets it to its own
  name; an empty list comes back as one empty string; renaming a file moves also the
  options of files whose name begins with its path; `^=` multiplies a number.

## 5. The proofs

TLAPS checks 29 theorems named below, and the lemmas they rest on, for every value
of the constants: any characters, commands, keys, mappings and scripts, texts, lists,
stacks and journals of any length. Crashes and restarts happen at any step. The bounds of the
runs are constants of the modules (`MaxItems` and so on) of which the proofs assume
only what the ASSUMEs of the modules say. What is assumed beyond that is a hypothesis
of the theorem, and is listed here with the reason the theorem is false without it.

**The undo list** (`UndoBuffer_proofs`): `TypeCorrect`, `ItemsAreReplayableHolds`,
`ReplayKeepsRecordHolds`, `ImplementsHistory`. The invariant `IInv` adds to the types
what links them: while a replay runs, the item it runs on exists, and recording is
switched off exactly then. Without that link the type of `mCurrentIndex` could
not be shown to survive `FinishUndo` (it is decremented there), nor could
`Perform`, which calls back into `addBufferOperation`, be shown to leave the
list alone. The refinement cuts the list at `mCurrentIndex` into the two stacks of
`UndoHistory` and is proved action by action from `IInv`.

**Texts** (`TextRegion_proofs`): `InsertIsUndone`, `DeleteIsUndone`: deleting the region
of an insertion and inserting the copy of a deletion give the text back, for any
text, position and data. A text is cut in three (the lines before, those the
operation works on, those behind), and each primitive is shown to work on the middle
part whatever the others are. This also gives what `BufferUndo_proofs` needs: lines
added behind an operation's lines make no difference to it.

**The buffer, its file and its journal** (`Buffer_proofs`). The invariant `TInv` is: the
types; `IInv` of the buffer's undo list, taken over from `UndoBuffer_proofs` through an
INSTANCE of that module, step by step; which sequences of calls may wait in `calls`
(a method leaves certain calls behind, and only those); and that fewer than
`updatecount` operations are in memory. There is one lemma per action. On it:

* `TypeCorrect`; `CrashLosesFewHolds`, without hypotheses.
* `UnmodifiedIsSavedHolds`, without hypotheses: inductive over `TInv`, in the middle of
  commands too, because every call that changes the text sets the flag in the same
  step, and because what `save` writes is what `load` reads back.
* `JournalIsKeptHolds`: the entries on disk and in memory, replayed on the file, give
  the text. The invariant says it of every state of a running program, in the middle of a
  command too; the proof uses that the replay of a sequence of entries is that of its beginning followed by that of
  the rest, by induction over the journal. Hypotheses: swap files can be written
  (otherwise `flush` forgets, section 4), names are not bare (otherwise the session
  appends to a file that an earlier one left) and the file is not read anew (`:e` keeps
  the journal of the old text).
* `NothingIsRecovered`: `recover()` finds no operation in any journal. The runs restart
  after crashes on this ground: the text is then that of the file.

**What undo restores** (`BufferUndo_proofs`): `ReplayInTextHolds`,
`UndoRestoresTextHolds`, `UndoOfLastLineIsBounded`. The history variable `snap` of `MCBuffer` remembers the text after each
item. The invariant `UInv`, over `TInv`, says: every recorded operation is a *Step*, it
leads from a text to another and its opposite leads back, whatever empty lines follow
the text; the operations of an item are a *Chain* from the text before the item to the
one after it; the remembered texts are linked by these chains (*Past*); a replay under
way is at the right place on its chain (*Now*); and the calls that wait will find
the line and column they were made for. The empty lines are needed because of the
deletion of the last line, the one edit undone inexactly: it records an interval that
ends on a line that does not exist, and undoing it leaves an empty line. From then
on the texts of the list are known only up to empty lines at their end, and so every
step has to be valid whatever number of them follows; without that command the number
is shown to stay 0. That an operation is always applied at a line and a column that exist is part of the
invariant and is `ReplayInText`. Hypotheses: no command changes the text without
recording it where undo looks for it (`<C-a>` does not commit, `:e` replaces the text and
keeps the list); for the exact theorem, no command deletes the last line
(`undo_last_line`). `UndoOfLastLineIsBounded` says what is left of it otherwise: all that may
be wrong with the text are empty lines at its end.

**Keys and modes** (`KeyInput_proofs`): `TypeCorrect`, `StackGrounded`, `ModesStacked`,
`InputFresh`, `EscLeads`. Every command is made of two steps, a key that is sent and a
command that returns, and the lemmas follow that: first the operators from the stack up
to the mappings, then these two steps, then one lemma per action. The invariant `Inv`
(at the end of `KeyInput`, by parts) links the stack of calls with the stack of modes:
only the innermost call executes a key, and that key is in the input buffer; a command
that waits for more keys has a mode that reads them; a command line looks up no tables
but its own; a mode that takes keys one by one is executed with that one key. `StackGrounded` (command mode is at the bottom
and every mode lies over one it is entered from) holds without hypotheses;
`ModesStacked` needs that no keys are sent from a command line, `InputFresh` that
mappings of insert mode and the command line are of one key, `EscLeads` that Escape is
not mapped: section 4 has the behaviours that show why.

**Buffers and views** (`Session_proofs`): `ViewsAreSoundHolds`, `LossIsAskedForHolds`,
`OneBufferPerFileHolds`, `ClosedAreRememberedHolds`. The invariant `Good` is stronger than
`ViewsAreSound`: a listed view has a listed buffer and is in that buffer's list, every
view in a buffer's list is listed and is a view of this buffer, a buffer or view that is
not listed is freed, nothing is listed twice, and the current view is one of the listed
ones unless there is none. Without the direction from the buffers' lists to the views
`deleteBuffer`, which deletes the views it finds there, could not be shown to leave a
sound list. `saveAll` and `exitRequest` walk over the buffers; the models are folds,
and the proof unfolds them one buffer at a time, each step being a save or a deletion for
which the facts are known. Assumed are three distinct buffers and views in the
allocator's pool and that the first buffer and view are what the start allocates, as
`YSession`'s start makes them.

**The cache of a view** (`Screen_proofs`): `TypeCorrect`, `MarksAreSelectionHolds`,
`CacheIsSoundHolds`, `PaintingResumesHolds`, `CursorIsShownHolds`, `ScreenFollowsCursorHolds`.
The proof is about sets of lines: those that are cached (`Cached`),
those of them that are marked (`Marks`) and those that are not the text's (`Wrong`).
Every operator of the view is shown to be a move (`Moved`): it adds to neither of the last
two. `targetBufferLine`, `fill`, `squeeze`, scrolling and painting are moves as they stand; an
update takes from `Wrong` what it was asked to update, but for lines cached below the
one after the screen. That needs the sums of rows that `screenBottomBufferLine` goes by: they are
a recursive function over the cache, shown to grow with every line.
The invariant `Inv` says of a view at rest (`Settled`) that it is locked, meaning the cache begins no later
than the line where the selection started, that all marks lie in the selection the view remembers, and that they
are those of the selection; and that a cursor that ends a selection is no lower than the last
row. The second conjunct is what lets `setSelection` take old marks off without
knowing the cursor they were made for; within a command only the first two hold (`Moving`).
`TypeCorrect` and `MarksAreSelectionHolds` follow without hypotheses, for lines of any height.
For `CacheIsSoundHolds` the invariant adds that `Wrong` is empty. Hypotheses: no line
takes more than one row, and no selection is deleted that started further below the
screen; without either, old lines stay in the cache (section 4). Then an update cannot leave more
than one line cached below the screen, and that is the line at which it stops.
`PaintingResumesHolds` follows the count of suspensions through every operator (`Balanced`): the loops
of `updateBufferInterval` and of scrolling suspend once for all their lines, and what they leave
pending is painted when the last of them resumes. `CursorIsShownHolds` needs the sums of rows
again: an update below the cursor changes no row above it (`ShownStays`), and
`ScrollForViewCursor` brings any line of the text on a window of at least one row (`ScrollForCursorShows`).
`ScreenFollowsCursorHolds` adds that a command draws a line which does not exist only where
the text has lost the line of the cursor, of the screen's top or of a remembered selection.
Its invariant adds `Exist`: a cache that has not drawn such a line holds none behind the end of the
text (`Within`) and goes on from the top of the screen without a gap (`Reaches`). Without the first,
an update could meet lines the text has lost; without the second, `targetBufferLine` would fill a gap
that may lie behind the text. Every step keeps both, whatever the text has lost
(`Spares`); an update for an edit keeps the first because an edit that takes a line away names
all lines from it to the end (`Local`, `KeptOutlives`).

**Induction.** Induction schemes with an operator as a parameter are beyond the
provers here. Induction is therefore done over a set: a set of numbers that contains 0
and the successors of its members contains all of them (`SetInduction` in `InductionLemmas`,
from the well-foundedness of the order); and a recursive function is shown to exist
from its approximations (`RecursionExists` in `Buffer_proofs`, `SumsExist` and others in `Screen_proofs`) before its equation is used. The modules
that are proved about define nothing with RECURSIVE.

**Only model-checked.** Liveness (`KeysAreProcessed`) is out of the
provers' reach. `RecordsWhatIsTyped` compares two sequences through the whole stack
of calls and has not been proved. Of `screen`, what the terminal shows (`TerminalShowsText`) is an action property of a terminal that is often not repainted, and
is not proved; nor is the cache with lines that wrap. The properties of `editing` and `texts`, and those
of `sessions` about jumps and tags, are not proved: many of them compare what the code computes with a reference
definition by a fold or by recursion, for every input of a bounded size, and what these
compute for every input is an induction of its own per property. The search of a tag
file (`TagFile`) is a RECURSIVE operator.

## 6. Not modelled

Of the keys: `<Script>` mappings (Lua), the option `rightleft`, the names of keys
and how a mapping matches inside such a name, and counts and registers other than
those of `q` and `@`. Of the modes: visual block mode, which selects as visual mode
does in this version, and the search that moves while its pattern is typed. Of the
commands: formatting and re-indentation of lines, folds, marks,
registers other than the unnamed one, `:hardcopy`, `:lua`, `:source`, `:cd`,
`:registers`, `:highlight`. Of the screen: fonts, colours, right-to-left text. Of
highlighting: rules included from other contexts (`IncludeRules`), embedded definitions,
dynamic contexts, regular expressions, the reading of the definitions. Of files: encodings, and a write that fails after the file was opened.
`clearUndo`, `clearRedo` and an interval with an open start have no caller in the
library. Regular expressions run in Lua; patterns are strings or whole words.

Folding has no behaviour (nothing reads the folds made). Events and the Lua interface
hand calls to plugins outside the program; resources are paths looked up in a fixed
order; printing, colours, fonts and debugging are output. The front ends translate
between a toolkit and the library; of the text front end, what painting and scrolling
do to the terminal is in `Screen`.

## 7. What comes next

1. Proofs about `YzisInfo` and `TagStack`: the index of the jump list, the two stacks of
   tags.
2. Proofs about `Screen`: `TerminalShowsText`; about `CommandLine`: `CompletionComesBack`;
   about `Options`: `OptionsAreScoped`.
3. `RecordsWhatIsTyped`, over the invariant of `KeyInput_proofs`.
