# A verification project for embedded-vi

embedded-vi is a small modal text editor in C. This directory holds TLA+ modules
translated from its source, TLC configurations that check them on small instances,
and proofs that TLAPS checks for every instance. The reference is the code; where the
comments, headers and `journal.txt` say something else, a run shows it.

Paths below are relative to the repository: `src/fb.c` is the C file, `include/fb.h`
its header.

## 1. Inventory

| component | state | operations | what makes it correct |
|---|---|---|---|
| undo ring, `src/ring.c` | `head`, `tail`, `buffer` | `next`, `commit`, `pop`, `destroy` | a bounded stack; an item is handed to the deallocator once, and not while it can be popped |
| gap-buffer line, `src/fb.c` | `sog`, `eog`, `size`, `data_n`, `data` of `struct vi_line` | `insert_char`, `backspace_char`, `cursor_left/right`, `move_gap_to_cursor`, the split in `insert_line_after` | gap at the cursor, text unchanged by growth and moves, every index inside the allocation |
| framebuffer, `src/fb.c` | linked lines, `headl`, `taill`, `currentl`, `scroll`, row, column, `scroll_r`, `buffer_n`, `refs` of each line | `insert_line_after`, `cutl`, `merge_lines_up`, `cursor_up/down`, `seek_line` | one well-linked list, the row is the row of the current line, the cursor is on the screen, a text with a cursor |
| undo history, `src/history.c` | the ring of `struct cmd_s` | `add_undoable_at_loc`, `undo` (five commands), `deallocate_cmd` | undo restores text and cursor; a line lives as long as the text or a record holds it |
| key handling, `src/vi.c` | `mode`, `cmdbuf` | one handler per mode, `redraw_buffer`, `exit_vi` | each key keeps all of the above together, in every mode and order; exit frees everything once |
| terminal, `src/native/linux/term.c` | terminal cursor, saved cursor, size | escape sequences | the cursor row the scroll tests read is the cursor's |
| input, `src/native/linux/input.c` | `key` of the previous poll, the terminal's queue | `poll_char`, raw mode, reset | each key reaches a handler once and in order, and the NUL of a timeout becomes no text |
| status line, `src/vi.c` | `statusbuf`, `keep_status` | the end of `keypress_handler`, `write_status` | written inside its allocation, the position is not hidden |
| hash table, `src/hasht.c` | buckets, `buckets_used`, `buckets_n` | `put`, `get`, `remove`, doubling | a set or a map; a member is found, a lookup ends |
| logging, `src/native/linux/env.c` | the log file | `printlog`, `stop_logging` | reads only lines that are alive |
| memory, files, libc stubs | none | wrappers | |

How they meet: everything hangs off the global `vi`. `poll_char` calls
`keypress_handler`, which calls the handler of the mode; that calls the framebuffer
through function pointers, records the edit with `add_undoable*` and redraws. The
history shares lines with the framebuffer: a record holds a pointer to a line, and
`refs` counts the holders. The ring calls back `deallocate_cmd` from inside `next`.
`exit_vi` tears the history down first, then logs the lines, then frees them.

The hash table stands alone: the editor links it and uses none.

The program has one thread and keeps nothing on disk but a log, so there is no
recovery, and the only concurrency is with the user: keys come at any time, also between
an ESC and the read that waits for what follows it. What is hard is of another kind:

- **long legal key sequences.** Edit, move and undo in any order; each handler relies on
  five or six fields agreeing, which others update by hand.
- **lifetimes.** A line is in the text, in a record, in both, in two records, or in a
  slot of the ring nobody can pop any more, and four functions change its `refs`.
- **two copies of one thing.** The terminal cursor beside the cursor of the framebuffer, and
  a status line of which each key overwrites a part.
- **tombstones.** A count of used buckets that never falls, and probes that end only at an
  empty bucket.
- **stale values.** Undo finds lines by a row number saved earlier, and neighbours by the
  links a cut line still has. The gap stays where the cursor last was in the line.
- **boundaries.** Unsigned wrap of rows, columns and ring indices, the last two bytes of a
  gap, a full ring, the first, last and only line.

`PROJECT.json` lists these one by one under `hazards`.

## 2. Modules

```
 UndoStack <-- Ring ----- RingOps                      TextBuffer <-- FrameBuffer
               RingProofs    \                                          |
                              HistoryOps -------------------------- FrameOps
 TextLine <--- GapLine -------- LineOps ---------------------------/    FrameProofs
               GapLineProofs    LineProofs                              FrameBufferProofs

                              Vi = HistoryOps + modes + exit
                              ViProofs, over FrameProofs

 KeyMap <----- HashTable ------ HashOps                KeyQueue <-- Session
               HashProofs                                           SessionProofs
```

An arrow is a refinement, checked as a property and, but for `Session`, proved. The
pure functions of a C file are operators on a record (`...Ops`), so that the module that
studies the part alone and the module that composes it use the same definitions.

- **RingOps, Ring.** `r = [head, tail, buffer]`. `PushItem` is `next`, the write through
  the pointer and `commit`, which the code always runs together; `NextDisposes` tells
  whether `next` calls the deallocator. `Ring` adds history variables: how often the
  deallocator got each item. **UndoStack** is the promise of `ring.h`.
- **LineOps, GapLine.** One line with all its bytes, the gap included. `GapLine` follows one
  line: the cursor enters and leaves it, a newline splits it into the part kept and the
  part moved. **TextLine** is the promise: a sequence of characters and a column.
- **FrameOps, FrameBuffer.** All lines by id, the heap (`alive`, ids are never reused so that a stale
  pointer is noticed) and the operations of `fb.c` on them, then the keys of `vi.c` as far as
  they touch the framebuffer. Undefined behaviour is explicit: an operation that follows
  NULL, follows a freed pointer or leaves an array sets `fault`, and the run ends. A byte
  array is separate from the struct, because dd of the only line copies the struct.
  **TextBuffer** is the promise: a list of texts with a cursor.
- **HistoryOps.** Records, `deallocate_cmd`, `add_undoable_at_loc`, and one operator for each case of
  `undo`, over FrameOps and RingOps.
- **Vi.** One action for each key in each mode, from the key to the redrawn screen, including
  that the status line reads the current line, the command line, and exit. History
  variables: `text` as drawn, `saved` (text and cursor before each record in the ring).
- **HashOps, HashTable.** Buckets are an array of `[key, value]`, the hash is any function of the key, chosen
  once. The probe loops of `put`, `get` and `remove_hashed` and the copying loop of `upsize_table` take one step
  for each bucket, because whether they end is the question; the `put` into the temporary table is one
  step (`PutInto`), its loop being the same. Sets (`HASH_ENTRY_TABL`) have no values and otherwise the same code twice.
  **KeyMap** is the promise of `hasht.h`: a finite map, with calls and answers.
- **Session.** A key from the terminal's queue through `poll_char` (with the static `key` that remembers an ESC) and
  the handler of the mode to the status line. The framebuffer is open here: a key that reaches it may leave
  any cursor and any current line, and `FrameBuffer` and `Vi` say which. Of
  `statusbuf` the module keeps the columns that hold a NUL, which is what decides how much of it is shown; a
  write outside of it ends the run in phase `undefined`. **KeyQueue** is the promise of `input.h`: "Whenever a keypress is made,
  the passed function pointer gets invoked".
- **MC...** give TLC symmetry and, for `Session`, the set of framebuffers; all other constants are in the `.cfg` files.

What the models do not look at: the bytes of the status line other than NUL, escape sequences, log
text, `buffer_scroll` and `lines_in_use` (never used), keys a mode ignores.
`redraw` as a command redraws and leaves the state alone, like an unknown command.
In `FrameBuffer` and `Vi` the terminal cursor is not a variable: the scroll tests read
`CursorR`, which is `buffer_r - scroll_r`. That the two agree whenever a key is handled is
`CursorFollows` of `Session`.
Rows are integers where C has `uint32_t`: a row that wraps is negative here, and no line is
at such a row in either. Columns and counts that would wrap are a fault.

## 3. Runs

Fairness is assumed in two modules, and only of the program: `HashTable` lets a call that was made go on (`WF` of
`Step`), `Session` lets the one thread go on and a read return, by a key or after `VTIME` (`WF` of
`System`). Nobody is obliged to call or to press a key, so `Client` and `Press` have none. Both are what the
operating system gives any process, and they are used for `CallsReturn` and for the liveness of `KeyQueue` (`WF` of `Handle`). The
other modules state safety only: they wait for a key. Where a run says `CHECK_DEADLOCK FALSE`, the system stops: the ring
was destroyed, the program exited or faulted, or (only `MCFrameCareful`) the bounds are used up.

Passing runs:

| run | bounds | what it shows |
|---|---|---|
| `ring` | 3 slots, 6 items | two laps of the ring with pops in between; an item evicted in one lap is disposed of in the next. Implements `UndoStack` of capacity `ItemCount - 1` |
| `gap_line` | 2 characters, gap of 3, at most 4 in the text | the line grows several times with the gap at the start, middle and end. Implements `TextLine` |
| `frame_any_key` | 3 lines, 2 rows of text, 2 characters | every key sequence: the list stays linked, row and current line agree, `refs` tells who is in the list, dd takes one line |
| `frame_careful` | the same with 3 characters | the careful keys (section 4): no fault, gap at the cursor, cursor on the screen. Implements `TextBuffer` |
| `vi_edits` | 4 lines, 4 edits, 3 slots | every key but u in every mode, command line and exit: up to a fault no line that can be reached is freed, `refs` never falls short of the places a line is held, exit frees each line once, and a fault has one of the causes `FaultsHaveCause` names |
| `vi_careful` | 5 lines, 3 rows of text, 4 edits, 3 slots | careful keys with undo, records evicted and their lines freed: no fault, gap at the cursor, list linked, the screen begins with the line of its row, lines alive and counted, u restores text and cursor |
| `hash_table` | 3 keys, every hash function into 2 values, 2 values to store, capacities 1 and 4, 5 buckets counted | `put`, `get` and `remove` in any order, set and dictionary: members are found, some bucket is empty whenever a probe runs, calls return. Implements `KeyMap` until a key is stored twice or a dictionary is doubled |
| `session` | 9 kinds of byte, 2 typed ahead, 2 cursors, lines of 5 and 8 bytes, 48 columns, a counter of 3 bits | every key, timeouts included: cursor in step, position shown, no write outside `statusbuf`, NUL becomes no text. Implements `KeyQueue`, liveness included |

Why the bounds are enough. Three lines are a first, a middle and a last one; two rows
of text make them scroll; `TabWidth` 2 makes a tab more than one edit. A gap of 2 is the smallest the code can work with and
makes the second character grow the line. Three slots hold two records, so the third push
evicts one (into a slot that next disposes of) and the fourth disposes of a real record, with
two undos in a row in between. In `vi_careful` five lines leave room for the two that an o and a newline add and the two that
undoing a join after each of them makes. The characters are never compared with each
other, so one or two are as good as many. Three keys and two hash values (1 and 3: one collides with the other's
second probe, and wraps) give chains with a tombstone in the middle; five counted buckets double a table of one
three times (1, 2, 4, 8) and one of four once. In `session` the counter of the status loop is scaled down with the line: 8 bytes is
the longest line 3 bits can count, as 256 is for 8 bits, and the first two sizes of a line are 5 and
8; with 48 columns the longest message ends before the position begins. Two bytes
typed ahead are an ESC and what follows it. `FaultsHaveCause` holds with a fifth edit too (3.9 million states, too many
for a run): its clause on joins is for that fifth edit, each of the others is needed with four.

Runs that TLC must find violated, each a sentence of the repository that the code does not keep:

| run | the sentence | keys | what happens |
|---|---|---|---|
| `frame_tail` | fb.h: cutl "Deletes line properly if deleting tail" | dd on the last line when the screen begins with it | `cutl` moves up twice and follows NULL (`fb.c:281`, `286-289`) |
| `vi_tail` | fb.h: `taill` is "pointer to last line in fb"; journal: lines "must be freed if and only if they do not exist anywhere else" | o ESC k dd u dd i tab | undo of dd on the first of two lines makes `taill` the first (`fb.c:224`); the next dd cuts that line, its record is disposed of, and `taill` points to freed memory |
| `vi_exit` | journal: the same | o ESC dd u, exit | freed through the popped record, then used and freed with the text |
| `vi_undo_text` | journal: "undo them properly" | o newline DEL DEL ESC u u | the first u puts a new line where the second join left its own; the second u hangs a new line behind the one that is gone (`history.c:119`), and the text is not restored |

`vi_tail` and `vi_undo_text` came out of larger bounds: with three lines `ReachableAlive` holds with u too, and a careful
user who takes two joins back in a row was thought to be careful. `TakesBack` (section 4) has been narrowed since.

Further disagreements, seen with these modules and not kept as runs. In the framebuffer and the history: undo of an o between two lines (o ESC k o ESC u) leaves the current line below the row that
`buffer_r` says (`history.c:96`, `fb.c:275`); a join ("Essentially remove the newline
character", fb.h:98) leaves the cursor in the line below the joined one when there is one, with the upper
one's column (`fb.c:71`, `275`); dd of a line whose `o` is the record being evicted frees the line in `next` and records the
freed pointer (`history.c:8`, against journal.txt:94-96); `item_count`
is not the "number of items this buffer stores" but one more (`UndoStack` has `Capacity <- ItemCount
- 1`); `buffer_n` is not the "number of vi_line* objects in list" once one was cut (`fb.c:247-300` never
counts down); `data_n` and `eog` do not describe the text after dd of the only line
(`vi.c:351`); the record of a join
holds the surviving line, not the "deleted line" of history.h (`vi.c:279`), and so the deleted one is never
freed; nor is the emptied line's copy after undo.
In the status line: `statusbuf` has `cols` bytes, not "term->rows" (vi.h:49-53, `vi.c:96`); "not to
overdraw the current status" (vi.h:55) keeps the first ten columns only, as the same key writes the line's bytes from
column 10 (`vi.c:408-411`); the NUL of "-- No lines in buffer --" is in column 24, of which 20 are blanked (`vi.c:396`), and
hides the position from then on until a line reaches it. The 20 columns are blanked in a `statusbuf`
of fewer, too: in a terminal of 18 or 19 columns the first key that ends in command mode writes behind it (`Ends`). With a line of more than 256 bytes the loop at `vi.c:408` does not
end and no further key is handled. In the hash table: the load factor of 75 % (journal.txt:118-120) or 0.70
(`hasht.c:172`) is an integer division and the table doubles at 100 %; `put` over a tombstone stores a key twice
(`hasht.c:107`, `135`), which comes back after a remove; doubling a dictionary gives every key the first bucket's value
(`hasht.c:58`); `put` returns a pointer into buckets that the doubling has freed (`176-179`); a capacity of 0 passes
the test of `init_hasht` and divides by zero.

Each property of a passing run has a mutant: an operator next to a definition, changed the way a
plausible bug would change it, under which TLC finds the property violated. They are marked `mutant of` in the modules.

## 4. The careful user

The framebuffer does not implement a text editor for all keys. `CarefulSpec` says exactly when
it does, and each of its conditions was found by a counterexample without it:

- *join and dd only on the last line*: elsewhere `cutl` leaves the gap of the next line alone (the
  next character goes astray), and a join leaves the cursor in the line below;
- *not on a line the screen begins with*: `cutl` moves up twice;
- *no dd of the only line*: its `eog` ends up on the NUL and the record shares its bytes;
- FrameBuffer only: *no newline key in command mode*: it leaves the screen without scrolling.
  Vi keeps it, since `CursorVisible` is not asked there;
- Vi only: *dd only with the cursor inside the width of the line above*: undo sets the recorded column without moving
  the gap;
- Vi only: *no dd of a line whose other record is about to be evicted* (section 3);
- Vi only, `TakesBack`: *u after o or newline only if that line is the last one*, and *u after a join only while
  the line in its record is still in that row, with its gap at the place of the join*.

`frame_any_key` and `vi_edits` drop all of these and keep what is true of any key. For all keys but u `FaultsHaveCause`
is the converse: whenever something undefined happens, one of these conditions was not kept, by this key or by one before it
(the screen, the gap or the current line are amiss when the key comes), or `cmdbuf` was full. Of `Vi` with u and any key little is true, as
`vi_tail`, `vi_exit` and `vi_undo_text` show.

## 5. Proofs

All theorems are checked by TLAPS without anything assumed but the constants'
named assumptions: `ItemCountAssumption` (at least two slots; with one, the code's own `next` would
dispose of its only slot), `ZeroItemAssumption` (an all-zero record is not an item),
`InitGapSizeAssumption` (at least 2: `insert_char` leaves two bytes of gap alone and uses
one), `NULAssumption` (NUL is not typed), `MarksAssumption` (the addresses 0 and 1 are not keys), `CapacityAssumption` (not
zero), `TerminalAssumption` (18 columns: with fewer the position goes before the start of `statusbuf`), `RowsAssumption` (a row of text, the row below it and the status
line), `MaxLinesAssumption` and `NULLAssumption` (NULL is no line), `HistorySizeAssumption` (two slots, as for the ring),
`CommandAssumption` (q is a command letter and `cmdbuf` has a byte), `TabAssumption` (a space is a character), and the
types of the others. `MaxLines` bounds the ids, so the theorems hold for texts of any size.

**Ring.** Four theorems say `Spec => []P` for the invariants of the run, `RingImplementsUndoStack` the
refinement. None of the invariants is inductive alone. `LiveNeverDisposed` needs to
know of the slot that `next` disposes of that it is not live, and `DisposedAtMostOnce` that it
was not disposed of before although eviction leaves it in the array. The inductive invariant `IInv`
therefore speaks of slots: until `destroy` every item in a slot is pushed and not yet disposed of, no item is in two
slots, live slots hold items, and what was pushed and is in no live slot or `tail` slot was
popped or disposed of. The proof goes action by action (`PushInvariant`, `PopInvariant`,
`DestroyInvariant`). For the refinement, `PushLiveItems` and `PopLiveItems` say what a push and a pop do to
the live items as a sequence, with the wrap of `head` and `tail` by cases (`SuccValue`, `AboveTail`).

**GapLine.** The inductive invariant is the shape of the line, the gap at the cursor while the cursor is in the line, and
`Good`, which adds that all bytes outside the gap and before the NUL are characters: without it
`TextOfChars` (every byte shown is a character, which no run needs to check as `ImplementsTextLine` implies it) is not preserved by a split, which copies bytes. One lemma for each operation of `LineOps` (in `LineProofs`, as the
framebuffer needs them too)
gives its shape and its text (`GrowGood`: growing changes no character; `MoveGap` in both
directions), and the theorems and the refinement of `TextLine` follow by cases on `Next`.

**HashTable.** `MembersFound` needs of a probe that it has passed no empty bucket and not the key it looks for
(`PassedNone`), of every member that it is in a bucket with none empty before it on its probe (`Findable`: in the new
buckets too, for what has been copied while the table doubles), and, so that a free bucket is always found, that the buckets
that are not empty are fewer than the array has (`Counted`, from the count that never falls). That is `IInv`; `AtRest` says what the variables of a loop
are outside of it. The wrap of a probe is arithmetic on its own: `AtValue` and `ProbeSeesAll` say that the buckets at distances
`0 .. n-1` are in the array and are all of them. `PutPlaceExists` finds the bucket where the copying `put` stops as the least
distance that stops it (`LeastElement`). The refinement adds `Exact`, for as long as no key was stored twice: each
member is in one bucket, so that the map behind the array is a function of the array, and a `put` changes
it at its key only.

**Session.** Four of the properties speak of the moment between two keys; `IInv` says for the other phases too where the cursor is (`CursorInv`), that after a lone ESC the mode is `COMMAND` (`EscapeInv`, which makes
`NULIsNoText` inductive), and which NULs each mode can leave in which columns (`StatusInv`). `WritesInside` has an
invariant of its own, `BInv`, under the assumption `Fits` of the property: 30 columns, a position of at most 17, lines that end before the
right margin and within the counter.

**FrameBuffer, any keys.** `IInv` has two parts. `Sound` holds of every framebuffer, faulted ones too: every
line of the heap has bytes of its own, as many as its `size`, with `sog < eog < size` (`Shaped`), and `headl`,
`taill`, `currentl` and `scroll` are lines that were allocated. It is weaker than being well-formed because dd of the only line and a
gap moved from a stale place leave lines of which more cannot be said. `Tracks` holds until a fault: the sequence `s` of lines
from `headl` along `nextl` has no line twice, begins at `headl` and ends at `taill` (`Chain`), `prevl` mirrors it, exactly its lines
have a reference, and `currentl` is its element `buffer_r + 1` (`OnList`). None of `Linked`, `RowOfCurrent` and `CountsHold` is
inductive alone: `cutl` compares with `headl` and `taill` to decide which links to write, and a join
adds the length of a line that has to be in the list. `FrameProofs` says what each function of `fb.c` does to the two parts: `ChainInsert`
and `ChainRemove` say that the links `insert_line_after` and `cutl` write are those of `InsertAt` and `RemoveAt`, and `TypeFrame` that the
loop of a join keeps every line. The loops are recursive functions (`Walk`, `InsertText`), so what they compute is proved by a least counterexample
(`LeastNumber`) rather than by an induction rule. That `LinesOf`, which the properties are stated with, is the
sequence `s` and `SeekLine` its element follows from `WalkChain`. The actions then go key by key. `DeletesOneLine` is an action property: dd takes element
`buffer_r + 1` out of the texts, or empties the only line, and no character of another line changes, if the lines were
well-formed before (section 4 says when they are not).

**FrameBuffer, careful keys.** `CInv` is `Ready`: sound, no fault, all lines well-formed (`Good`, of `LineProofs`), the gap of the current line at
the cursor, and the screen (`Seen`): `scroll` is the element `scroll_r + 1` of the list and the cursor's row on the screen is between 0
and `Rows - 2`. Each careful key leads from a ready framebuffer to a ready one, which is where each of the conditions of section 4 is
used; `NeverFaults`, `GapAtCursor` and `CursorVisible` follow. Each key's lemma also says what it did to the
texts, so that `CarefulKeepsText` (`CarefulSpec => ImplementsTextBuffer`) needs only the lemmas on sequences that
turn `InsertAt`, `RemoveAt` and `\o` into the operators of `TextBuffer`.

**Vi, every key but u.** `ReachableAlive`, `RefsCoverPlaces`, `ExitIsClean` and `Linked` of `EditSpec` come from one
invariant, and none of them is inductive: that no line is freed too early needs the counts, the counts need the list to be well-linked, and
a clean exit needs both, of more slots than the properties speak of. `IInv` has two parts.
`Fit` holds whatever happened. It is weaker than `Sound` of the framebuffer: a struct's bytes may be any array of the heap or none
(`Dangling`), and only structs with bytes of their own (`Own`) are `Shaped`, because dd of the only line copies a struct and the record's copy
shares its bytes, which a growth may move away from under it.
`Kept` holds while the program runs: there is a list `s` from `headl` to `taill` (`Held`: well-linked, all its lines alive and with
bytes of their own, the cursor in one of them), every record in *any* slot of the ring holds NULL or a line that is not freed, and the
`refs` of a line are at least the records that hold it, plus one if it is in the list, plus one if it borrowed its bytes (`Accounted`). All
slots, and not only those that can still be undone, because `next` and `destroy` hand the others to `deallocate_cmd` too; the last summand, because
a copied struct takes over the `refs` of the original and the record adds one, so that disposing of the record does not free the copy, and with it the
bytes of a line still in the text.
A key moves the cursor (`Stays`), adds one line to the list (`Grows`) or takes one out (`Shrinks`); for each of these one lemma carries
`Kept` over, and `DisposeKept`, `NotedKept` and `PushRing` do so for what recording an edit does: the oldest record disposed of, the reference of the
new one counted, the slot written. The loops (`Spaces` of a tab, `DestroyRing`, `FreeLines`) are by least counterexample. At exit `DestroyHeld` shows that
after every slot is disposed of the lines of the list are alive, and `FreeLinesFit` that freeing them one after the other frees each once.
The step of each key, or of keys alike, is a lemma (`AddKeeps`, `JoinKeeps`, ... `ExitKeeps`), and the theorems then only read the invariant.

**Vi, careful keys but u.** `CarefulEditSpec` is `CarefulSpec` without u; its invariant `Care` adds to `IInv` that the
framebuffer is `Ready`, as in `FrameBuffer`, where however no line is freed, the list alone refers to lines, and the cursor never leaves the
screen. So `Sound`, `Tracks` and `Seen` have a parameter `ext` for what else there is: which lines are gone, how many references of a
line are not the list's, how far down the cursor may be (the return key of command mode does not scroll). The lemmas of
`FrameProofs` on the keys hold for any `ext`, and serve both modules. What remains is what the history does between them:
`ReadyBeside` says that a framebuffer stays ready whatever happens to lines outside its list, `DisposeReady` that disposing of a record
does not touch the list (a line of the list that a record holds has two references, by `Accounted`), and `AddUndoableReady` that the new record can
count its reference, because its line is in the list or was not freed a moment before (`Holdable`): this is where the condition on dd and the record about to be evicted
is needed. `DrawnReady` shows that redrawing reads nothing it may not. `NeverFaults`, `GapAtCursor` and `ScreenFollows` follow.

Only model-checked: `Vi` with u. `UndoRestores`, and the other properties of `CarefulSpec` as far as u is pressed, need an invariant that says of
every record what the list will be when the records above it have been taken back, texts and gaps included. So is `FaultsHaveCause`: the
lemmas on any key say what holds until a fault, not when there is none.
Out of the prover's reach: liveness (`CallsReturn`, and `KeyQueue` as a whole, whose state is a `SelectSeq`) and `ENABLED`.

## 6. Plan

Done: 1. Ring and its proofs. 2. GapLine and its proofs. 3. FrameBuffer. 4. History and Vi. 5. HashTable and
its proofs. 6. Input, the status line and the byte widths, as Session, and its proofs.

7. The framebuffer's proofs: types, links, rows, counts and dd for any keys; no fault, gap, screen and the
refinement of `TextBuffer` for the careful ones.

8. Vi without u: types, links, what is reachable is alive, counts, exit for every key; no fault, the gap and the screen for the careful ones.

Left, and checked by `vi_careful` only:

9. `UndoRestores`, `NeverFaults`, `GapAtCursor`, `Linked` and `ScreenFollows` of `Vi` under `CarefulSpec`, with u: what a u may assume is what its record says of a list that later
   records have changed.

Not modelled and why: `fs.c` and `vilib.c` are stateless wrappers, but for what `strcpy` does to `statusbuf` (`Copied`); `term.c` is output except
for the cursor and the size; out of memory, an `ioctl` or a log file that fails are not tested for anywhere, and `fatal` runs only before the
first key, through a `statusbuf` that does not exist yet (`vi.c:93-96`); the column clamp through 16 bits (`fb.c:131`) cannot be reached, as the loop at `vi.c:408` does not end with more than 256 bytes;
the byte 0xFF (`vi.c:269`) is not among the models' bytes; the unit tests are disabled editor backups; the
build is a makefile.
