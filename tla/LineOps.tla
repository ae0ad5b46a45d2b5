------------------------------ MODULE LineOps ------------------------------
(***************************************************************************)
(* One line of the editor, struct vi_line of src/include/fb.h, as a gap    *)
(* buffer: the operators of src/src/fb.c that read and write one line.     *)
(*                                                                         *)
(*     l = [sog, eog, size, data_n, data]      data : 0 .. size-1 -> Byte  *)
(*                                                                         *)
(* The gap is data[sog .. eog], the byte at size-1 is the terminating NUL, *)
(* and c is the cursor column (fb->buffer_c).                              *)
(***************************************************************************)
EXTENDS Integers

CONSTANTS Char,         \* the characters that can be typed
          NUL,          \* '\0'
          InitGapSize   \* INIT_GAP_SIZE, 4 in fb.h

\* insert_char() leaves a gap of two bytes alone and then needs one of them, so
\* the gap a new line starts with has two bytes at least.
ASSUME InitGapSizeAssumption == InitGapSize \in Nat /\ InitGapSize >= 2
ASSUME NULAssumption == NUL \notin Char

Byte == Char \cup {NUL}

Line(sog, eog, size, data_n, data) ==
    [sog |-> sog, eog |-> eog, size |-> size, data_n |-> data_n, data |-> data]

\* alloc_emptyl(): nothing but the gap and the NUL.
EmptyLine == Line(0, InitGapSize - 1, InitGapSize + 1, 0, [i \in 0 .. InitGapSize |-> NUL])

\* memmove(data + to, data + from, n)
Memmove(data, to, from, n) ==
    [i \in DOMAIN data |-> IF to <= i /\ i < to + n THEN data[from + (i - to)] ELSE data[i]]

\* mutant of MoveGap: the bytes from the gap's last one on are moved.
MoveGapOffByOne(l, c) ==
    IF c <= l.sog THEN l
    ELSE Line(c, c + (l.eog - l.sog), l.size, l.data_n, Memmove(l.data, l.sog, l.eog, c - l.sog))

\* move_gap_to_cursor(): the characters between gap and column change sides.
MoveGap(l, c) ==
    LET moved == IF c > l.sog
                 THEN Memmove(l.data, l.sog, l.eog + 1, c - l.sog)
                 ELSE Memmove(l.data, l.eog - (l.sog - c) + 1, c, l.sog - c)
    IN  IF c = l.sog THEN l
        ELSE Line(c, c + (l.eog - l.sog), l.size, l.data_n, moved)

\* cursor_left() and cursor_right(): one character hops over the gap.
GapLeft(l, c) ==
    Line(l.sog - 1, l.eog - 1, l.size, l.data_n, [l.data EXCEPT ![l.eog] = l.data[c - 1]])
GapRight(l, c) ==
    Line(l.sog + 1, l.eog + 1, l.size, l.data_n, [l.data EXCEPT ![c] = l.data[l.eog + 1]])

\* mutant of NeedsGrowth: the gap is used up to its last byte.
NeedsGrowthLate(l) == l.sog = l.eog

\* The growth step of insert_char(): realloc, zero the new bytes, move the tail.
NeedsGrowth(l) == l.sog + 1 = l.eog
Grow(l) ==
    LET by == InitGapSize - 1
    IN  Line(l.sog, l.eog + by, l.size + by, l.data_n,
             [i \in 0 .. l.size + by - 1 |-> IF i > l.eog + by THEN l.data[i - by]
                                             ELSE IF i >= l.size THEN NUL ELSE l.data[i]])

\* insert_char()
InsertInGap(l, c, ch) ==
    LET g == IF NeedsGrowth(l) THEN Grow(l) ELSE l
    IN  Line(g.sog + 1, g.eog, g.size, g.data_n + 1, [g.data EXCEPT ![c] = ch])

\* mutant of Backspace: the gap does not widen to the left.
BackspaceKeepsGap(l) == Line(l.sog, l.eog, l.size, l.data_n - 1, l.data)

\* backspace_char(), for c # 0: it returns the character and widens the gap.
ErasedChar(l, c) == l.data[c - 1]
Backspace(l) == Line(l.sog - 1, l.eog, l.size, l.data_n - 1, l.data)

\* insert_line_after(parent, NULL): a newline at column c.  What follows the
\* cursor becomes a line of its own, and the gap swallows it in the old one.
AfterCursor(l, c) ==
    LET diff == l.data_n - c
        size == diff + InitGapSize + 1
    IN  IF diff <= 0 THEN EmptyLine
        ELSE Line(0, InitGapSize - 1, size, diff,
                  [i \in 0 .. size - 1 |-> IF i < InitGapSize \/ i = size - 1 THEN NUL
                                           ELSE l.data[l.eog + 1 + (i - InitGapSize)]])
BeforeCursor(l, c) ==
    IF l.data_n - c <= 0 THEN l ELSE Line(l.sog, l.size - 2, l.size, c, l.data)

-----------------------------------------------------------------------------
\* What redraw_buffer() shows of a line: every byte but the gap and the last one.
ShownAfterGap(l) == IF l.eog < l.size - 1 THEN l.size - 2 - l.eog ELSE 0
Text(l) == [k \in 1 .. l.sog + ShownAfterGap(l) |->
              IF k <= l.sog THEN l.data[k - 1] ELSE l.data[l.eog + (k - l.sog)]]

\* A line as the operations keep it: a gap of two bytes or more, the characters
\* around it, and the NUL that ends it.
WellFormed(l) ==
    /\ l = Line(l.sog, l.eog, l.size, l.data_n, l.data)
    /\ l.sog \in Nat /\ l.eog \in Nat /\ l.size \in Nat /\ l.data_n \in Nat
    /\ l.data \in [0 .. l.size - 1 -> Byte]
    /\ l.sog < l.eog
    /\ l.eog <= l.size - 2
    /\ l.data_n = l.size - 2 - (l.eog - l.sog)
    /\ l.data[l.size - 1] = NUL
=============================================================================
