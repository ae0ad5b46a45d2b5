------------------------------ MODULE ViProofs ------------------------------
(***************************************************************************)
(* The memory of the editor under every key but u: what can still be       *)
(* reached is not freed, reference counts cover the places that hold a     *)
(* line, and exit frees every line once.  And of the careful keys but u:   *)
(* nothing undefined happens, and the gap is at the cursor.                *)
(*                                                                         *)
(* FrameProofs speaks of framebuffers in which every struct has bytes of   *)
(* its own.  With every key that is not so, as dd of the only line makes a *)
(* struct that shares its bytes with another, and less can be said of a    *)
(* struct (Fit, Kept); but the lines of the list all have their own bytes. *)
(* With the careful keys it is so, and what has to be shown is what the    *)
(* ring does to a framebuffer that is Ready for the next key: it frees and *)
(* refers to lines beside the list.                                        *)
(***************************************************************************)
EXTENDS Vi, FrameProofs

\* The bytes of the struct are its own, not those of the struct it was copied from.
Own(f, id) == f.line[id].data = id

LooseStruct == [sog : Nat, eog : Nat, size : Nat, data_n : Nat, data : LineId \cup {Dangling},
                prevl : Link, nextl : Link, refs : Nat]
LooseFrame ==
    [line : [LineId -> LooseStruct], bytes : [LineId -> ByteArray], alive : SUBSET LineId,
     fresh : 1 .. MaxLines + 1, headl : LineId, taill : LineId, currentl : LineId,
     scroll : Link, scroll_r : Int, buffer_r : Int, buffer_c : Nat, buffer_n : Nat,
     fault : BOOLEAN]

\* What holds of a framebuffer whatever happened to it.
Fit(f) ==
    /\ f \in LooseFrame
    /\ f.alive \subseteq 1 .. f.fresh - 1
    /\ \A id \in LineId : Own(f, id) => Shaped(View(f, id))

\* g is such a framebuffer, with the lines of f and their references.
Steady(f, g) ==
    /\ Fit(g) /\ SameList(f, g)
    /\ \A id \in LineId : Own(g, id) <=> Own(f, id)

-----------------------------------------------------------------------------
(* Fields *)

\* The types of the fields ...
LEMMA FitFields ==
    ASSUME NEW f, Fit(f)
    PROVE  /\ f \in LooseFrame
           /\ f.line \in [LineId -> LooseStruct] /\ f.bytes \in [LineId -> ByteArray]
           /\ f.alive \subseteq LineId /\ f.fresh \in 1 .. MaxLines + 1
           /\ f.headl \in LineId /\ f.taill \in LineId /\ f.currentl \in LineId
           /\ f.scroll \in Link /\ f.scroll_r \in Int /\ f.buffer_r \in Int
           /\ f.buffer_c \in Nat /\ f.buffer_n \in Nat /\ f.fault \in BOOLEAN
BY DEF Fit, LooseFrame

\* ... and of a struct.
LEMMA LooseFields ==
    ASSUME NEW f, Fit(f), NEW id \in LineId
    PROVE  /\ f.line[id] \in LooseStruct
           /\ f.line[id].sog \in Nat /\ f.line[id].eog \in Nat /\ f.line[id].size \in Nat
           /\ f.line[id].data_n \in Nat /\ f.line[id].refs \in Nat
           /\ f.line[id].data \in LineId \cup {Dangling}
           /\ f.line[id].prevl \in Link /\ f.line[id].nextl \in Link
<1>1. f.line[id] \in LooseStruct  BY FitFields
<1> QED  BY <1>1 DEF LooseStruct

\* The line that a struct with bytes of its own makes.
LEMMA OwnFields ==
    ASSUME NEW f, Fit(f), NEW id \in LineId, Own(f, id)
    PROVE  /\ View(f, id).sog = f.line[id].sog /\ View(f, id).eog = f.line[id].eog
           /\ View(f, id).size = f.line[id].size /\ View(f, id).data_n = f.line[id].data_n
           /\ View(f, id).data = f.bytes[id] /\ Shaped(View(f, id))
           /\ id # NULL /\ f.line[id].data # Dangling
           /\ id \in f.alive => Usable(f, id) /\ Readable(f, id)
<1>1. id # NULL /\ id # Dangling
      BY NULLAssumption, MaxLinesAssumption DEF LineId, Dangling
<1>2. f.line[id].data # Dangling  BY <1>1 DEF Own
<1> QED  BY <1>1, <1>2 DEF Fit, View, Line, Own, Usable, Readable

\* Where neither structs nor bytes change, nor what is allocated, nothing is lost.
LEMMA SteadyFields ==
    ASSUME NEW f, Fit(f), NEW g \in LooseFrame, g.line = f.line, g.bytes = f.bytes,
           g.alive = f.alive, g.fresh = f.fresh, g.headl = f.headl, g.taill = f.taill
    PROVE  Steady(f, g)
<1>1. \A id \in LineId : View(g, id) = View(f, id) /\ (Own(g, id) <=> Own(f, id))
      BY DEF View, Own
<1>2. Fit(g)  BY <1>1 DEF Fit
<1> QED  BY <1>1, <1>2 DEF Steady, SameList

\* Doing nothing loses nothing ...
LEMMA SteadyReflexive == ASSUME NEW f, Fit(f) PROVE Steady(f, f)
BY DEF Steady, SameList

\* ... nor do two steps in a row.
LEMMA SteadyTransitive ==
    ASSUME NEW f, NEW g, NEW h, Steady(f, g), Steady(g, h)
    PROVE  Steady(f, h)
BY DEF Steady, SameList

\* g points with its cursor where f does.
SameCursor(f, g) == g.currentl = f.currentl /\ g.buffer_r = f.buffer_r /\ g.buffer_c = f.buffer_c

\* A fault changes nothing but the flag.
LEMMA FaultSteady ==
    ASSUME NEW f, Fit(f)
    PROVE  LET g == [f EXCEPT !.fault = TRUE]
           IN  Steady(f, g) /\ SameCursor(f, g) /\ SameScroll(f, g) /\ g.fault
<1> DEFINE g == [f EXCEPT !.fault = TRUE]
<1>0. f \in LooseFrame  BY DEF Fit
<1>1. /\ g \in LooseFrame /\ g.line = f.line /\ g.bytes = f.bytes /\ g.alive = f.alive
      /\ g.fresh = f.fresh /\ g.headl = f.headl /\ g.taill = f.taill
      /\ g.currentl = f.currentl /\ g.scroll = f.scroll /\ g.scroll_r = f.scroll_r
      /\ g.buffer_r = f.buffer_r /\ g.buffer_c = f.buffer_c /\ g.fault = TRUE
      BY <1>0 DEF LooseFrame
<1> HIDE DEF g
<1> QED  BY <1>1, SteadyFields DEF SameCursor, SameScroll, g

\* h is f with the flag set.
Stopped(f, h) == h.fault /\ Steady(f, h) /\ SameCursor(f, h) /\ SameScroll(f, h)

\* What a check leaves: g where all is well, and otherwise f with the flag set.
LEMMA CheckCases ==
    ASSUME NEW f, Fit(f), NEW ok, NEW g
    PROVE  \/ ~f.fault /\ ok /\ Check(f, ok, g) = g
           \/ (f.fault \/ ~ok) /\ Stopped(f, Check(f, ok, g))
<1>1. CASE f.fault  BY <1>1, SteadyReflexive DEF Check, Stopped, SameCursor, SameScroll
<1>2. CASE ~f.fault /\ ok  BY <1>2 DEF Check
<1>3. CASE ~f.fault /\ ~ok  BY <1>3, FaultSteady DEF Check, Stopped
<1> QED  BY <1>1, <1>2, <1>3

\* A line with bytes of its own written back, and a column.
LEMMA PutSteady ==
    ASSUME NEW f, Fit(f), NEW id \in LineId, Own(f, id), NEW l, Shaped(l), NEW d \in Nat
    PROVE  LET g == [Put(f, id, l) EXCEPT !.buffer_c = d]
           IN  /\ Steady(f, g) /\ g.currentl = f.currentl /\ g.buffer_r = f.buffer_r
               /\ g.buffer_c = d /\ SameScroll(f, g) /\ g.fault = f.fault
               /\ View(g, id) = l
<1> DEFINE s == [f.line[id] EXCEPT !.sog = l.sog, !.eog = l.eog,
                                   !.size = l.size, !.data_n = l.data_n]
           lines == [f.line EXCEPT ![id] = s]
           arrays == [f.bytes EXCEPT ![id] = l.data]
           g == [Put(f, id, l) EXCEPT !.buffer_c = d]
<1>0. /\ f \in LooseFrame /\ f.line \in [LineId -> LooseStruct] /\ f.line[id] \in LooseStruct
      /\ f.bytes \in [LineId -> ByteArray] /\ f.line[id].data = id
      BY FitFields, LooseFields DEF Own
<1>1. /\ s \in LooseStruct /\ s.sog = l.sog /\ s.eog = l.eog /\ s.size = l.size
      /\ s.data_n = l.data_n /\ s.data = id /\ s.prevl = f.line[id].prevl
      /\ s.nextl = f.line[id].nextl /\ s.refs = f.line[id].refs
      BY <1>0 DEF LooseStruct, Shaped
<1>2. l.data \in ByteArray  BY DEF ByteArray, Shaped
<1>3. arrays \in [LineId -> ByteArray] /\ arrays[id] = l.data
      /\ \A j \in LineId : j # id => arrays[j] = f.bytes[j]
      BY <1>0, <1>2
<1>4. g = [f EXCEPT !.line = lines, !.bytes = arrays, !.buffer_c = d]
      BY <1>0 DEF Put, LooseFrame
<1> HIDE DEF s
<1>5. lines \in [LineId -> LooseStruct] /\ lines[id] = s
      /\ \A j \in LineId : j # id => lines[j] = f.line[j]
      BY <1>0, <1>1
<1> HIDE DEF lines, arrays, g
<1>6. /\ g \in LooseFrame /\ g.line = lines /\ g.bytes = arrays /\ g.alive = f.alive
      /\ g.fresh = f.fresh /\ g.headl = f.headl /\ g.taill = f.taill
      /\ g.currentl = f.currentl /\ g.scroll = f.scroll /\ g.scroll_r = f.scroll_r
      /\ g.buffer_r = f.buffer_r /\ g.buffer_c = d /\ g.fault = f.fault
      BY <1>0, <1>3, <1>4, <1>5 DEF LooseFrame
<1>7. View(g, id) = l
  <2>1. l = Line(l.sog, l.eog, l.size, l.data_n, l.data)  BY DEF Shaped
  <2> QED  BY <2>1, <1>1, <1>3, <1>5, <1>6 DEF View
<1>a. /\ \A j \in LineId : Own(f, j) => Shaped(View(f, j))
      /\ f.alive \subseteq 1 .. f.fresh - 1
      BY DEF Fit
<1>8. \A j \in LineId : /\ Own(g, j) <=> Own(f, j)
                        /\ Own(g, j) => Shaped(View(g, j))
                        /\ g.line[j].prevl = f.line[j].prevl
                        /\ g.line[j].nextl = f.line[j].nextl
                        /\ g.line[j].refs = f.line[j].refs
  <2> TAKE j \in LineId
  <2>1. CASE j = id  BY <2>1, <1>0, <1>1, <1>5, <1>6, <1>7 DEF Own
  <2>2. CASE j # id
    <3>1. g.line[j] = f.line[j]  BY <2>2, <1>5, <1>6
    <3>2. Own(g, j) => View(g, j) = View(f, j)
          BY <2>2, <3>1, <1>3, <1>6 DEF View, Own
    <3> QED  BY <3>1, <3>2, <1>a DEF Own
  <2> QED  BY <2>1, <2>2
<1>9. Fit(g)  BY <1>6, <1>8, <1>a DEF Fit
<1> QED  BY <1>6, <1>7, <1>8, <1>9 DEF Steady, SameList, SameScroll, g

\* The structs that shared the bytes of id have nothing to point to any more.
LEMMA AbandonSteady ==
    ASSUME NEW f, Fit(f), NEW id \in LineId, Own(f, id)
    PROVE  LET g == Abandon(f, id)
           IN  /\ Steady(f, g) /\ SameCursor(f, g) /\ SameScroll(f, g) /\ g.fault = f.fault
               /\ \A j \in LineId : Own(g, j) => g.line[j] = f.line[j]
               /\ g.bytes = f.bytes
<1> DEFINE g == Abandon(f, id)
           lines == [k \in LineId |-> IF k # id /\ f.line[k].data = id
                                      THEN [f.line[k] EXCEPT !.data = Dangling] ELSE f.line[k]]
<1>0. f \in LooseFrame /\ f.line \in [LineId -> LooseStruct] /\ f.line[id].data = id
      BY FitFields DEF Own
<1>1. g = [f EXCEPT !.line = lines]  BY <1>0 DEF Abandon
<1>2. ASSUME NEW j \in LineId
      PROVE  /\ lines[j] \in LooseStruct /\ lines[j].prevl = f.line[j].prevl
             /\ lines[j].nextl = f.line[j].nextl /\ lines[j].refs = f.line[j].refs
             /\ lines[j].data = j <=> f.line[j].data = j
             /\ lines[j].data = j => lines[j] = f.line[j]
  <2>1. f.line[j] \in LooseStruct  BY <1>0
  <2>2. CASE j # id /\ f.line[j].data = id
    <3>1. lines[j] = [f.line[j] EXCEPT !.data = Dangling] /\ j # Dangling
          BY <2>2, MaxLinesAssumption DEF LineId, Dangling
    <3> HIDE DEF lines
    <3> QED  BY <3>1, <2>1, <2>2 DEF LooseStruct
  <2>3. CASE ~(j # id /\ f.line[j].data = id)  BY <2>1, <2>3
  <2> QED  BY <2>2, <2>3
<1>3. lines = [k \in LineId |-> lines[k]]  OBVIOUS
<1> HIDE DEF lines
<1>4. lines \in [LineId -> LooseStruct]  BY <1>2, <1>3
<1> HIDE DEF g
<1>5. /\ g \in LooseFrame /\ g.line = lines /\ g.bytes = f.bytes /\ g.alive = f.alive
      /\ g.fresh = f.fresh /\ g.headl = f.headl /\ g.taill = f.taill
      /\ g.currentl = f.currentl /\ g.scroll = f.scroll /\ g.scroll_r = f.scroll_r
      /\ g.buffer_r = f.buffer_r /\ g.buffer_c = f.buffer_c /\ g.fault = f.fault
      BY <1>0, <1>1, <1>4 DEF LooseFrame
<1>6. \A j \in LineId : (Own(g, j) <=> Own(f, j)) /\ (Own(g, j) => g.line[j] = f.line[j])
      BY <1>2, <1>5 DEF Own
<1>7. \A j \in LineId : Own(g, j) => Shaped(View(g, j))
      BY <1>5, <1>6 DEF View, Fit
<1>8. Fit(g)  BY <1>5, <1>7 DEF Fit
<1> QED  BY <1>2, <1>5, <1>6, <1>8 DEF Steady, SameList, SameScroll, SameCursor, g

-----------------------------------------------------------------------------
(* The operators on the current line *)

\* move_gap_to_cursor()
LEMMA MoveGapSteady ==
    ASSUME NEW f, Fit(f), Own(f, f.currentl)
    PROVE  LET g == MoveGapToCursor(f) IN Steady(f, g) /\ SameCursor(f, g) /\ SameScroll(f, g)
<1> DEFINE id == f.currentl
           l == View(f, id)
           c == f.buffer_c
           inside == \/ c > l.sog /\ l.eog + (c - l.sog) \in DOMAIN l.data
                     \/ c < l.sog /\ l.eog - (l.sog - c) + 1 >= 0 /\ l.eog \in DOMAIN l.data
           ok == Usable(f, id) /\ (c = f.line[id].sog \/ (Readable(f, id) /\ inside))
           body == IF c = f.line[id].sog THEN f ELSE Put(f, id, MoveGap(l, c))
           g == MoveGapToCursor(f)
<1>0. /\ id \in LineId /\ c \in Nat /\ Shaped(l) /\ f.line[id].sog = l.sog /\ f \in LooseFrame
      BY FitFields, OwnFields
<1>1. g = Check(f, ok, body)  BY DEF MoveGapToCursor
<1>2. ASSUME ok PROVE Steady(f, body) /\ SameCursor(f, body) /\ SameScroll(f, body)
  <2>1. CASE c = l.sog
        BY <1>0, <2>1, SteadyReflexive DEF SameCursor, SameScroll
  <2>2. CASE c # l.sog
    <3>1. inside /\ l.sog \in Nat  BY <1>0, <1>2, <2>2, ShapedFields
    <3>2. Shaped(MoveGap(l, c))  BY <1>0, <3>1, MoveGapShaped
    <3> DEFINE put == Put(f, id, MoveGap(l, c))
    <3>3. put = [put EXCEPT !.buffer_c = c]
          BY <1>0 DEF LooseFrame, Put
    <3>4. LET h == [put EXCEPT !.buffer_c = c]
          IN  /\ Steady(f, h) /\ h.currentl = f.currentl /\ h.buffer_r = f.buffer_r
              /\ h.buffer_c = c /\ SameScroll(f, h)
          BY <1>0, <3>2, PutSteady
    <3>5. body = put  BY <1>0, <2>2
    <3> HIDE DEF put, body
    <3> QED  BY <3>3, <3>4, <3>5 DEF SameCursor
  <2> QED  BY <2>1, <2>2
<1> HIDE DEF ok, body, g
<1> QED  BY <1>1, <1>2, CheckCases DEF Stopped, g

\* The column changes with the line: what the rest of them have in common.
LEMMA KeySteady ==
    ASSUME NEW f, Fit(f), NEW id \in LineId, Own(f, id), NEW ok, NEW l, ok => Shaped(l),
           NEW d, ok => d \in Nat, NEW g,
           g = Check(f, ok, [Put(f, id, l) EXCEPT !.buffer_c = d])
    PROVE  /\ Steady(f, g) /\ g.currentl = f.currentl /\ g.buffer_r = f.buffer_r
           /\ SameScroll(f, g)
           /\ ~g.fault => ok /\ ~f.fault
<1> DEFINE body == [Put(f, id, l) EXCEPT !.buffer_c = d]
<1>1. ASSUME ok
      PROVE  /\ Steady(f, body) /\ body.currentl = f.currentl /\ body.buffer_r = f.buffer_r
             /\ SameScroll(f, body)
      BY <1>1, PutSteady
<1>2. g = Check(f, ok, body)  OBVIOUS
<1> HIDE DEF body
<1> QED  BY <1>1, <1>2, CheckCases DEF Stopped, SameCursor

\* The key h.
LEMMA LeftSteady ==
    ASSUME NEW f, Fit(f), Own(f, f.currentl)
    PROVE  LET g == CursorLeft(f) IN Steady(f, g) /\ g.currentl = f.currentl
<1> DEFINE id == f.currentl
           l == View(f, id)
           c == f.buffer_c
           put == Put(f, id, GapLeft(l, c))
           ok == /\ Readable(f, id)
                 /\ l.sog > 0 /\ l.eog \in DOMAIN l.data /\ c - 1 \in DOMAIN l.data
<1>0. /\ id \in LineId /\ c \in Nat /\ Shaped(l) /\ f \in LooseFrame
      /\ DOMAIN l.data = 0 .. l.size - 1 /\ l.size \in Nat
      BY FitFields, OwnFields, ShapedFields
<1>1. put.buffer_c = c  BY <1>0 DEF LooseFrame, Put
<1> DEFINE d == c - 1
           new == GapLeft(l, c)
<1>2. CursorLeft(f) = Check(f, ok, [put EXCEPT !.buffer_c = d])  BY <1>1 DEF CursorLeft
<1>3. ok => d \in Nat  BY <1>0
<1>4. ok => Shaped(new)  BY <1>0, LeftShaped
<1>5. CursorLeft(f) = Check(f, ok, [Put(f, id, new) EXCEPT !.buffer_c = d])  BY <1>2
<1> DEFINE g == CursorLeft(f)
<1> HIDE DEF ok, d, new, g
<1>6. g = Check(f, ok, [Put(f, id, new) EXCEPT !.buffer_c = d])  BY <1>5 DEF g
<1>7. Steady(f, g) /\ g.currentl = f.currentl  BY <1>0, <1>3, <1>4, <1>6, KeySteady
<1> QED  BY <1>7 DEF g

\* The key l.
LEMMA RightSteady ==
    ASSUME NEW f, Fit(f), Own(f, f.currentl)
    PROVE  LET g == CursorRight(f) IN Steady(f, g) /\ g.currentl = f.currentl
<1> DEFINE id == f.currentl
           l == View(f, id)
           c == f.buffer_c
           put == Put(f, id, GapRight(l, c))
           ok == /\ Readable(f, id)
                 /\ l.eog + 1 \in DOMAIN l.data /\ c \in DOMAIN l.data
<1>0. id \in LineId /\ c \in Nat /\ c + 1 \in Nat /\ Shaped(l) /\ f \in LooseFrame
      BY FitFields, OwnFields
<1>1. put.buffer_c = c  BY <1>0 DEF LooseFrame, Put
<1>2. CursorRight(f) = Check(f, ok, [put EXCEPT !.buffer_c = c + 1])  BY <1>1 DEF CursorRight
<1>3. ok => Shaped(GapRight(l, c))  BY <1>0, RightShaped
<1> HIDE DEF ok
<1> QED  BY <1>0, <1>2, <1>3, KeySteady

\* Typing, whether the realloc moves the array or not.
LEMMA InsertSteady ==
    ASSUME NEW f, Fit(f), NEW id \in LineId, Own(f, id), NEW ch \in Byte, NEW moves
    PROVE  LET g == InsertChar(f, id, ch, moves)
           IN  /\ Steady(f, g) /\ g.currentl = f.currentl /\ g.buffer_r = f.buffer_r
               /\ f.fault => g = f
<1> DEFINE l == View(f, id)
           c == f.buffer_c
           grows == NeedsGrowth(l)
           room == IF grows THEN l.size + InitGapSize - 1 ELSE l.size
           base == IF grows /\ moves THEN Abandon(f, id) ELSE f
           put == Put(base, id, InsertInGap(l, c, ch))
           ok == /\ Readable(f, id)
                 /\ 0 .. l.size - 1 \subseteq DOMAIN l.data
                 /\ l.eog < l.size /\ c < room
           body == [put EXCEPT !.buffer_c = @ + 1]
           g == InsertChar(f, id, ch, moves)
<1>0. c \in Nat /\ c + 1 \in Nat /\ Shaped(l)  BY FitFields, OwnFields
<1>1. g = Check(f, ok, body)  BY DEF InsertChar
<1>2. Steady(f, base) /\ SameCursor(f, base)
      BY SteadyReflexive, AbandonSteady DEF SameCursor
<1>3. Fit(base) /\ Own(base, id) /\ base.buffer_c = c /\ base \in LooseFrame
      BY <1>2 DEF Steady, SameCursor, Fit
<1> HIDE DEF base
<1>4. put.buffer_c = c  BY <1>3 DEF LooseFrame, Put
<1>5. body = [put EXCEPT !.buffer_c = c + 1]  BY <1>4
<1>6. Shaped(InsertInGap(l, c, ch))  BY <1>0, InsertShaped
<1>7. /\ Steady(base, body) /\ body.currentl = base.currentl /\ body.buffer_r = base.buffer_r
      BY <1>0, <1>3, <1>5, <1>6, PutSteady
<1> HIDE DEF ok, body, g
<1>8. Steady(f, body) /\ body.currentl = f.currentl /\ body.buffer_r = f.buffer_r
      BY <1>2, <1>7, SteadyTransitive DEF SameCursor
<1>9. f.fault => g = f  BY <1>1 DEF Check
<1> QED  BY <1>1, <1>8, <1>9, CheckCases DEF Stopped, SameCursor, g

\* Erasing the character left of the cursor; what it returns was in the array.
LEMMA BackspaceSteady ==
    ASSUME NEW f, Fit(f), Own(f, f.currentl)
    PROVE  LET g == BackspaceChar(f, f.currentl)
           IN  /\ Steady(f, g) /\ g.currentl = f.currentl
               /\ ~g.fault => Backspaced(f) \in Byte
<1> DEFINE id == f.currentl
           l == View(f, id)
           c == f.buffer_c
           put == Put(f, id, Backspace(l))
           ok == /\ Readable(f, id)
                 /\ l.sog > 0 /\ l.data_n > 0 /\ c - 1 \in DOMAIN l.data
           g == BackspaceChar(f, id)
<1>0. /\ id \in LineId /\ c \in Nat /\ Shaped(l) /\ f \in LooseFrame
      /\ DOMAIN l.data = 0 .. l.size - 1 /\ l.data \in [0 .. l.size - 1 -> Byte]
      /\ l.size \in Nat
      BY FitFields, OwnFields, ShapedFields
<1>a. id \in LineId  BY <1>0
<1>1. put.buffer_c = c  BY <1>0 DEF LooseFrame, Put
<1> DEFINE d == c - 1
           new == Backspace(l)
<1>2. g = Check(f, ok, [put EXCEPT !.buffer_c = d])  BY <1>1 DEF BackspaceChar
<1>3. ok => d \in Nat  BY <1>0
<1>4. ok => Shaped(new)  BY <1>0, BackspaceShaped
<1>5. ok => Backspaced(f) \in Byte  BY <1>0 DEF Backspaced, ErasedChar
<1>6. g = Check(f, ok, [Put(f, id, new) EXCEPT !.buffer_c = d])  BY <1>2
<1> HIDE DEF ok, d, new, g
<1>7. Steady(f, g) /\ g.currentl = f.currentl /\ (~g.fault => ok /\ ~f.fault)
      BY <1>a, <1>3, <1>4, <1>6, KeySteady
<1> QED  BY <1>5, <1>7 DEF g

\* The cursor put elsewhere.
LEMMA PlacedSteady ==
    ASSUME NEW f, Fit(f), NEW id \in LineId, NEW r \in Int, NEW c \in Nat
    PROVE  LET g == Placed(f, id, r, c)
           IN  /\ Steady(f, g) /\ SameScroll(f, g) /\ g.fault = f.fault
               /\ g.currentl = id /\ g.buffer_r = r /\ g.buffer_c = c
<1> DEFINE g == Placed(f, id, r, c)
<1>0. f \in LooseFrame  BY DEF Fit
<1>1. /\ g \in LooseFrame /\ g.line = f.line /\ g.bytes = f.bytes /\ g.alive = f.alive
      /\ g.fresh = f.fresh /\ g.headl = f.headl /\ g.taill = f.taill
      /\ g.currentl = id /\ g.scroll = f.scroll /\ g.scroll_r = f.scroll_r
      /\ g.buffer_r = r /\ g.buffer_c = c /\ g.fault = f.fault
      BY <1>0 DEF LooseFrame, Placed
<1> HIDE DEF g
<1> QED  BY <1>1, SteadyFields DEF SameScroll, g

\* The screen put elsewhere.
LEMMA ScrolledSteady ==
    ASSUME NEW f, Fit(f), NEW id \in Link, NEW r \in Int
    PROVE  LET g == Scrolled(f, id, r)
           IN  Steady(f, g) /\ SameCursor(f, g) /\ g.fault = f.fault
<1> DEFINE g == Scrolled(f, id, r)
<1>0. f \in LooseFrame  BY DEF Fit
<1>1. /\ g \in LooseFrame /\ g.line = f.line /\ g.bytes = f.bytes /\ g.alive = f.alive
      /\ g.fresh = f.fresh /\ g.headl = f.headl /\ g.taill = f.taill
      /\ g.currentl = f.currentl /\ g.fault = f.fault
      /\ g.buffer_r = f.buffer_r /\ g.buffer_c = f.buffer_c
      BY <1>0 DEF LooseFrame, Scrolled
<1> HIDE DEF g
<1> QED  BY <1>1, SteadyFields DEF SameCursor, g

\* A fault stays.
LEMMA FaultStays ==
    ASSUME NEW f, NEW ok, NEW g, f.fault
    PROVE  Check(f, ok, g) = f
BY DEF Check

\* What cursor_up() and cursor_down() share: the cursor enters a line.
LEMMA EnterSteady ==
    ASSUME NEW f, Fit(f), NEW id \in Link, id \in f.alive => Own(f, id), NEW r \in Int
    PROVE  LET g == EnterLine(f, id, r)
           IN  /\ Steady(f, g)
               /\ f.fault => g = f
               /\ ~g.fault => id \in f.alive /\ g.currentl = id
<1> DEFINE c == Clamp(f, id)
           p == Placed(f, id, r, c)
           body == MoveGapToCursor(p)
           ok == Usable(f, id)
           g == EnterLine(f, id, r)
<1>1. g = Check(f, ok, body)  BY DEF EnterLine, Placed
<1>2. ASSUME ok PROVE Steady(f, body) /\ body.currentl = id /\ id \in f.alive
  <2>1. id \in LineId /\ id \in f.alive  BY <1>2 DEF Usable, Link
  <2>2. f.line[id].data_n \in Nat /\ f.buffer_c \in Nat  BY <2>1, LooseFields, FitFields
  <2>3. c \in Nat  BY <2>2 DEF Clamp
  <2> HIDE DEF c
  <2>4. Steady(f, p) /\ p.currentl = id  BY <2>1, <2>3, PlacedSteady
  <2> HIDE DEF p
  <2>5. Fit(p) /\ Own(p, p.currentl)  BY <2>1, <2>4 DEF Steady
  <2>6. Steady(p, body) /\ body.currentl = id  BY <2>4, <2>5, MoveGapSteady DEF SameCursor
  <2> QED  BY <2>1, <2>4, <2>6, SteadyTransitive
<1> HIDE DEF ok, body, g
<1>3. f.fault => g = f  BY <1>1, FaultStays
<1> QED  BY <1>1, <1>2, <1>3, CheckCases DEF Stopped, g

-----------------------------------------------------------------------------
(* The list of lines *)

\* s is the list, every line of it has its own bytes, and the cursor is in one.
Held(f, s) ==
    /\ Chain(f, s)
    /\ \A k \in 1 .. Len(s) : Own(f, s[k])
    /\ \E k \in 1 .. Len(s) : f.currentl = s[k]

\* From f to g nothing is lost, and where no fault happened s is still the list.
Stays(f, g, s) == Steady(f, g) /\ (~g.fault => Held(g, s))

\* A line of the list, and its neighbours.
LEMMA HeldFields ==
    ASSUME NEW f, NEW s, Held(f, s)
    PROVE  /\ f.currentl \in f.alive /\ f.currentl \in LineId /\ Own(f, f.currentl)
           /\ \E k \in 1 .. Len(s) :
                 /\ k \in Nat /\ f.currentl = s[k]
                 /\ f.line[f.currentl].nextl = IF k = Len(s) THEN NULL ELSE s[k + 1]
                 /\ f.line[f.currentl].prevl = IF k = 1 THEN NULL ELSE s[k - 1]
<1>1. PICK k \in 1 .. Len(s) : f.currentl = s[k]  BY DEF Held
<1>2. Len(s) \in Nat /\ k \in Nat /\ s \in Seq(LineId)  BY <1>1 DEF Held, Chain
<1>3. s[k] \in LineId /\ s[k] \in f.alive /\ Own(f, s[k])  BY <1>1, <1>2 DEF Held, Chain
<1>4. /\ f.line[s[k]].nextl = IF k = Len(s) THEN NULL ELSE s[k + 1]
      /\ f.line[s[k]].prevl = IF k = 1 THEN NULL ELSE s[k - 1]
      BY <1>1, <1>2 DEF Held, Chain
<1> QED  BY <1>1, <1>2, <1>3, <1>4

\* The neighbours of the current line are lines of the list.
LEMMA Neighbours ==
    ASSUME NEW f, NEW s, Held(f, s), NEW id,
           id = f.line[f.currentl].nextl \/ id = f.line[f.currentl].prevl
    PROVE  /\ id \in Link
           /\ id # NULL => \E k \in 1 .. Len(s) : id = s[k]
           /\ id # NULL => Own(f, id) /\ id \in f.alive /\ id \in LineId
<1>1. PICK k \in 1 .. Len(s) :
         /\ k \in Nat /\ f.currentl = s[k]
         /\ f.line[f.currentl].nextl = IF k = Len(s) THEN NULL ELSE s[k + 1]
         /\ f.line[f.currentl].prevl = IF k = 1 THEN NULL ELSE s[k - 1]
      BY HeldFields
<1>2. Len(s) \in Nat /\ s \in Seq(LineId)  BY DEF Held, Chain
<1>3. ASSUME id # NULL PROVE \E j \in 1 .. Len(s) : id = s[j]
  <2>1. CASE id = f.line[f.currentl].nextl
    <3>1. k # Len(s) /\ id = s[k + 1] /\ k + 1 \in 1 .. Len(s)  BY <1>1, <1>2, <1>3, <2>1
    <3> QED  BY <3>1
  <2>2. CASE id = f.line[f.currentl].prevl
    <3>1. k # 1 /\ id = s[k - 1] /\ k - 1 \in 1 .. Len(s)  BY <1>1, <1>2, <1>3, <2>2
    <3> QED  BY <3>1
  <2> QED  BY <2>1, <2>2
<1>4. \A j \in 1 .. Len(s) : s[j] \in LineId /\ s[j] \in f.alive /\ Own(f, s[j])
      BY <1>2 DEF Held, Chain
<1> QED  BY <1>3, <1>4 DEF Link

\* The list does not change where the links do not.
LEMMA SteadyHeld ==
    ASSUME NEW f, NEW g, Steady(f, g), NEW s, Held(f, s),
           \E k \in 1 .. Len(s) : g.currentl = s[k]
    PROVE  Held(g, s)
<1>1. SameList(f, g) /\ Chain(f, s)  BY DEF Steady, Held
<1>2. Chain(g, s)  BY <1>1, SameListChain
<1>3. \A k \in 1 .. Len(s) : s[k] \in LineId  BY <1>1 DEF Chain
<1> QED  BY <1>2, <1>3 DEF Held, Steady

\* Where the cursor stays in its line, so does the list.
LEMMA SameLineStays ==
    ASSUME NEW f, NEW g, Steady(f, g), g.currentl = f.currentl, NEW s, ~g.fault => Held(f, s)
    PROVE  Stays(f, g, s)
<1>1. ASSUME ~g.fault PROVE Held(g, s)
  <2>1. \E k \in 1 .. Len(s) : g.currentl = s[k]  BY <1>1 DEF Held
  <2> QED  BY <1>1, <2>1, SteadyHeld
<1> QED  BY <1>1 DEF Stays

\* cursor_up() and cursor_down()
LEMMA UpDownStays ==
    ASSUME NEW f, Fit(f), NEW s, ~f.fault => Held(f, s)
    PROVE  Stays(f, CursorUp(f), s) /\ Stays(f, CursorDown(f), s)
<1>1. ASSUME f.fault
      PROVE  Stays(f, CursorUp(f), s) /\ Stays(f, CursorDown(f), s)
      BY <1>1, FaultStays, SteadyReflexive DEF CursorUp, CursorDown, Stays
<1>2. ASSUME ~f.fault, NEW id, NEW r \in Int,
             id = f.line[f.currentl].nextl \/ id = f.line[f.currentl].prevl,
             NEW ok, NEW g, g = Check(f, ok, EnterLine(f, id, r))
      PROVE  Stays(f, g, s)
  <2> DEFINE h == EnterLine(f, id, r)
  <2>1. Held(f, s)  BY <1>2
  <2>2. id \in Link /\ (id # NULL => \E k \in 1 .. Len(s) : id = s[k]) /\ (id # NULL => Own(f, id))
        BY <1>2, <2>1, Neighbours
  <2>3. f.alive \subseteq LineId  BY FitFields
  <2>4. Steady(f, h) /\ (~h.fault => id \in f.alive /\ h.currentl = id)
        BY <1>2, <2>2, <2>3, NULLAssumption, EnterSteady
  <2> HIDE DEF h
  <2>5. ~h.fault => Held(h, s)
        BY <2>1, <2>2, <2>3, <2>4, NULLAssumption, SteadyHeld
  <2>6. g = Check(f, ok, h)  BY <1>2 DEF h
  <2> QED  BY <2>4, <2>5, <2>6, CheckCases DEF Stays, Stopped
<1>3. f.buffer_r - 1 \in Int /\ f.buffer_r + 1 \in Int  BY FitFields
<1> QED  BY <1>1, <1>2, <1>3 DEF CursorUp, CursorDown

\* Two such steps in a row.
LEMMA StaysTransitive ==
    ASSUME NEW f, NEW g, NEW h, NEW s, Steady(f, g), Stays(g, h, s)
    PROVE  Stays(f, h, s)
BY SteadyTransitive DEF Stays

\* The screen one line down.
LEMMA ScrollDownSteady ==
    ASSUME NEW f, Fit(f)
    PROVE  LET g == ScrollDown(f)
           IN  Steady(f, g) /\ SameCursor(f, g) /\ (~g.fault => ~f.fault)
<1> DEFINE id == f.line[f.scroll].nextl
           r == f.scroll_r + 1
           body == Scrolled(f, id, r)
           ok == Usable(f, f.scroll)
           g == ScrollDown(f)
<1>1. g = Check(f, ok, body)  BY DEF ScrollDown, Scrolled
<1>2. ASSUME ok PROVE Steady(f, body) /\ SameCursor(f, body)
  <2>1. f.scroll \in LineId  BY <1>2, FitFields DEF Usable, Link
  <2>2. id \in Link /\ r \in Int  BY <2>1, LooseFields, FitFields
  <2> QED  BY <2>2, ScrolledSteady
<1> HIDE DEF ok, body, g
<1> QED  BY <1>1, <1>2, CheckCases DEF Stopped, g

\* The keys j and k.
LEMMA RowStays ==
    ASSUME NEW f, Fit(f), NEW s, ~f.fault => Held(f, s)
    PROVE  Stays(f, RowDown(f), s) /\ Stays(f, RowUp(f), s)
<1>1. Stays(f, RowDown(f), s)
  <2> DEFINE g == IF AtBottom(f) THEN ScrollDown(f) ELSE f
  <2>1. Steady(f, g) /\ g.currentl = f.currentl /\ (~g.fault => ~f.fault)
        BY ScrollDownSteady, SteadyReflexive DEF SameCursor
  <2> HIDE DEF g
  <2>2. Stays(f, g, s)  BY <2>1, SameLineStays
  <2>3. Fit(g) /\ (~g.fault => Held(g, s))  BY <2>1, <2>2 DEF Steady, Stays
  <2>4. Stays(g, CursorDown(g), s)  BY <2>3, UpDownStays
  <2>5. RowDown(f) = CursorDown(g)  BY DEF RowDown, g
  <2> QED  BY <2>1, <2>4, <2>5, StaysTransitive
<1>2. CASE f.currentl # f.scroll
      BY <1>1, <1>2, UpDownStays DEF RowUp
<1>3. CASE f.currentl = f.scroll
  <2> DEFINE id == f.line[f.scroll].prevl
             r == f.scroll_r - 1
             g == Scrolled(f, id, r)
  <2>1. id \in Link /\ r \in Int  BY <1>3, FitFields, LooseFields
  <2>2. RowUp(f) = CursorUp(g)  BY <1>3 DEF RowUp, Scrolled
  <2> HIDE DEF id, r
  <2>3. Steady(f, g) /\ g.currentl = f.currentl /\ g.fault = f.fault
        BY <2>1, ScrolledSteady DEF SameCursor
  <2> HIDE DEF g
  <2>4. Stays(f, g, s)  BY <2>3, SameLineStays
  <2>5. Fit(g) /\ (~g.fault => Held(g, s))  BY <2>3, <2>4 DEF Steady, Stays
  <2>6. Stays(g, CursorUp(g), s)  BY <2>5, UpDownStays
  <2> QED  BY <1>1, <2>2, <2>3, <2>6, StaysTransitive
<1> QED  BY <1>2, <1>3

\* The keys h and l.
LEMMA SidewaysStays ==
    ASSUME NEW f, Fit(f), ~f.fault, NEW s, Held(f, s)
    PROVE  Stays(f, CursorLeft(f), s) /\ Stays(f, CursorRight(f), s)
<1>1. Own(f, f.currentl)  BY HeldFields
<1> QED  BY <1>1, LeftSteady, RightSteady, SameLineStays

\* The screen and the status line read lines, and change none.
LEMMA DrawnSteady ==
    ASSUME NEW f, Fit(f)
    PROVE  LET g == Drawn(f)
           IN  Steady(f, g) /\ SameCursor(f, g) /\ (~g.fault => ~f.fault)
<1> DEFINE at == Walk(f, f.scroll, Rows - 2)
           ok == /\ Usable(f, f.currentl) /\ Legible(f, f.currentl)
                 /\ \A i \in 0 .. Rows - 2 :
                       at[i] # NULL => /\ Usable(f, at[i])
                                       /\ f.line[at[i]].data_n # 0 => Legible(f, at[i])
           g == Drawn(f)
<1>1. g = Check(f, ok, f)  BY DEF Drawn
<1>2. Steady(f, f) /\ SameCursor(f, f)  BY SteadyReflexive DEF SameCursor
<1> HIDE DEF ok, g
<1> QED  BY <1>1, <1>2, CheckCases DEF Stopped, g

-----------------------------------------------------------------------------
(* Many characters *)

\* What the recursion of InsertText says of the function it defines.
InsertsFrom(f, id, txt, moves, n, after) ==
    after = [k \in 0 .. n |-> IF k = 0 THEN f
                              ELSE InsertChar(after[k - 1], id, txt[k], moves)]

\* There is such a function for every text.
LEMMA InsertsExist ==
    ASSUME NEW f, NEW id, NEW txt, NEW moves, NEW n \in Nat
    PROVE  \E after : InsertsFrom(f, id, txt, moves, n, after)
<1> DEFINE T == {m \in Nat : ~\E after : InsertsFrom(f, id, txt, moves, m, after)}
<1> SUFFICES ASSUME T # {} PROVE FALSE  OBVIOUS
<1>1. PICK m \in T : \A y \in 0 .. m - 1 : y \notin T  BY LeastNumber
<1>2. m # 0
  <2>1. InsertsFrom(f, id, txt, moves, 0, [k \in 0 .. 0 |-> f])  BY DEF InsertsFrom
  <2> QED  BY <2>1
<1>3. m - 1 \in Nat /\ m - 1 \notin T  BY <1>1, <1>2
<1>4. PICK a : InsertsFrom(f, id, txt, moves, m - 1, a)  BY <1>3
<1> DEFINE b == [k \in 0 .. m |-> IF k = 0 THEN f
                                  ELSE InsertChar(a[k - 1], id, txt[k], moves)]
<1>b. /\ \A k \in 0 .. m : b[k] = IF k = 0 THEN f ELSE InsertChar(a[k - 1], id, txt[k], moves)
      /\ b = [k \in 0 .. m |-> b[k]]
      OBVIOUS
<1> HIDE DEF b
<1>5. ASSUME NEW k \in 0 .. m - 1 PROVE b[k] = a[k]
  <2>1. a[k] = IF k = 0 THEN f ELSE InsertChar(a[k - 1], id, txt[k], moves)
        BY <1>4 DEF InsertsFrom
  <2>2. k \in 0 .. m  BY <1>3
  <2> QED  BY <2>1, <2>2, <1>b
<1>6. InsertsFrom(f, id, txt, moves, m, b)
  <2>1. ASSUME NEW k \in 0 .. m, k # 0 PROVE b[k - 1] = a[k - 1]
    <3>1. k - 1 \in 0 .. m - 1  BY <2>1, <1>3
    <3> QED  BY <3>1, <1>5
  <2>2. \A k \in 0 .. m : b[k] = IF k = 0 THEN f
                                 ELSE InsertChar(b[k - 1], id, txt[k], moves)
        BY <2>1, <1>b
  <2> QED  BY <2>2, <1>b, Zenon DEF InsertsFrom
<1> QED  BY <1>6

\* Characters typed into a line leave everything else where it was.
LEMMA TextSteady ==
    ASSUME NEW f, Fit(f), NEW id \in LineId, Own(f, id), NEW txt \in Seq(Byte), NEW moves
    PROVE  LET g == InsertText(f, id, txt, moves)
           IN  Steady(f, g) /\ g.currentl = f.currentl /\ (~g.fault => ~f.fault)
<1> DEFINE n == Len(txt)
           after == CHOOSE a : InsertsFrom(f, id, txt, moves, n, a)
           P(k) == /\ Steady(f, after[k]) /\ after[k].currentl = f.currentl
                   /\ ~after[k].fault => ~f.fault
<1>0. n \in Nat /\ \A k \in 1 .. n : txt[k] \in Byte  OBVIOUS
<1>1. InsertsFrom(f, id, txt, moves, n, after)  BY <1>0, InsertsExist
<1>2. InsertText(f, id, txt, moves) = after[n]
      BY DEF InsertText, InsertsFrom
<1> HIDE DEF after
<1>3. \A k \in 0 .. n : after[k] = IF k = 0 THEN f
                                   ELSE InsertChar(after[k - 1], id, txt[k], moves)
      BY <1>1 DEF InsertsFrom
<1> DEFINE T == {k \in 0 .. n : ~P(k)}
<1>4. T = {}
  <2> SUFFICES ASSUME T # {} PROVE FALSE  OBVIOUS
  <2>1. T \subseteq Nat  BY <1>0
  <2>2. PICK m \in T : \A y \in 0 .. m - 1 : y \notin T  BY <2>1, LeastNumber
  <2>3. m \in 0 .. n /\ ~P(m)  BY <2>2
  <2>4. m # 0  BY <2>3, <1>0, <1>3, SteadyReflexive
  <2>5. m - 1 \in 0 .. m - 1 /\ m - 1 \in 0 .. n /\ m \in 1 .. n  BY <2>3, <2>4, <1>0
  <2>6. P(m - 1)  BY <2>2, <2>5
  <2> DEFINE h == after[m - 1]
             ch == txt[m]
  <2>7. after[m] = InsertChar(h, id, ch, moves)  BY <2>4, <2>5, <1>3
  <2>8. Fit(h) /\ Own(h, id) /\ ch \in Byte /\ Steady(f, h) /\ h.currentl = f.currentl
        /\ (~h.fault => ~f.fault)
        BY <2>5, <2>6, <1>0 DEF Steady
  <2> HIDE DEF h, ch
  <2>9. /\ Steady(h, after[m]) /\ after[m].currentl = h.currentl
        /\ h.fault => after[m] = h
        BY <2>7, <2>8, InsertSteady
  <2> QED  BY <2>3, <2>8, <2>9, SteadyTransitive
<1>5. n \in 0 .. n  BY <1>0
<1> QED  BY <1>2, <1>4, <1>5

-----------------------------------------------------------------------------
(* A line more *)

\* A line written back, and the column left as it is.
LEMMA PutOnly ==
    ASSUME NEW f, Fit(f), NEW id \in LineId, Own(f, id), NEW l, Shaped(l)
    PROVE  LET g == Put(f, id, l)
           IN  Steady(f, g) /\ SameCursor(f, g) /\ SameScroll(f, g) /\ g.fault = f.fault
<1> DEFINE c == f.buffer_c
           put == Put(f, id, l)
           g == [put EXCEPT !.buffer_c = c]
<1>0. c \in Nat /\ f \in LooseFrame  BY FitFields
<1>1. put = g  BY <1>0 DEF LooseFrame, Put
<1>2. /\ Steady(f, g) /\ g.currentl = f.currentl /\ g.buffer_r = f.buffer_r
      /\ g.buffer_c = c /\ SameScroll(f, g) /\ g.fault = f.fault
      BY <1>0, PutSteady
<1> HIDE DEF put, g
<1> QED  BY <1>1, <1>2 DEF SameCursor, put

\* alloc_emptyl()
LEMMA AllocFit ==
    ASSUME NEW f, Fit(f), f.fresh \in LineId
    PROVE  LET g == AllocEmptyl(f)
               n == f.fresh
           IN  /\ Fit(g) /\ SameCursor(f, g) /\ SameScroll(f, g) /\ g.fault = f.fault
               /\ g.headl = f.headl /\ g.taill = f.taill
               /\ n \notin f.alive /\ g.alive = f.alive \cup {n} /\ g.fresh = n + 1
               /\ Own(g, n)
               /\ g.line[n].nextl = NULL /\ g.line[n].prevl = NULL /\ g.line[n].refs = 1
               /\ \A j \in LineId : j # n => g.line[j] = f.line[j]
<1> DEFINE n == f.fresh
           struct == NewStruct(n)
           lines == [f.line EXCEPT ![n] = struct]
           arrays == [f.bytes EXCEPT ![n] = EmptyLine.data]
           alive == f.alive \cup {n}
           g == AllocEmptyl(f)
<1>a. Shaped(EmptyLine)  BY EmptyLineGood, GoodIsShaped
<1>b. InitGapSize \in Nat /\ InitGapSize >= 2 /\ MaxLines \in Nat
      BY InitGapSizeAssumption, MaxLinesAssumption
<1>c. n \in Nat /\ n >= 1 /\ n <= MaxLines /\ n \in LineId  BY <1>b DEF LineId
<1>0. /\ f \in LooseFrame /\ f.line \in [LineId -> LooseStruct]
      /\ f.bytes \in [LineId -> ByteArray] /\ f.alive \subseteq 1 .. n - 1
      /\ f.alive \subseteq LineId
      BY FitFields DEF Fit
<1>1. n \notin f.alive /\ alive \subseteq 1 .. n /\ alive \in SUBSET LineId
      BY <1>0, <1>b, <1>c
<1>2. /\ struct \in LooseStruct /\ struct.data = n
      /\ struct.sog = 0 /\ struct.eog = InitGapSize - 1 /\ struct.size = InitGapSize + 1
      /\ struct.data_n = 0
      /\ struct.nextl = NULL /\ struct.prevl = NULL /\ struct.refs = 1
      BY <1>b, <1>c DEF NewStruct, LooseStruct, Link
<1>3. /\ EmptyLine.data \in ByteArray
      /\ EmptyLine = Line(0, InitGapSize - 1, InitGapSize + 1, 0, EmptyLine.data)
  <2>1. EmptyLine.data \in [0 .. EmptyLine.size - 1 -> Byte] /\ EmptyLine.size \in Nat
        BY <1>a, ShapedFields
  <2>2. EmptyLine.data \in ByteArray  BY <2>1 DEF ByteArray
  <2> QED  BY <2>2 DEF EmptyLine, Line
<1> HIDE DEF struct
<1>4. lines \in [LineId -> LooseStruct] /\ lines[n] = struct
      /\ \A j \in LineId : j # n => lines[j] = f.line[j]
      BY <1>0, <1>2, <1>c
<1>5. arrays \in [LineId -> ByteArray] /\ arrays[n] = EmptyLine.data
      /\ \A j \in LineId : j # n => arrays[j] = f.bytes[j]
      BY <1>0, <1>3, <1>c
<1>6. n + 1 \in 1 .. MaxLines + 1  BY <1>b, <1>c
<1>7. g = [f EXCEPT !.line = lines, !.bytes = arrays, !.alive = alive, !.fresh = n + 1]
      BY <1>0 DEF AllocEmptyl, LooseFrame, struct
<1> HIDE DEF lines, arrays, alive, g, n
<1>8. /\ g \in LooseFrame /\ g.line = lines /\ g.bytes = arrays /\ g.alive = alive
      /\ g.fresh = n + 1 /\ g.headl = f.headl /\ g.taill = f.taill
      /\ g.currentl = f.currentl /\ g.scroll = f.scroll /\ g.scroll_r = f.scroll_r
      /\ g.buffer_r = f.buffer_r /\ g.buffer_c = f.buffer_c /\ g.fault = f.fault
      BY <1>0, <1>1, <1>4, <1>5, <1>6, <1>7 DEF LooseFrame
<1>9. \A j \in LineId : Own(f, j) => Shaped(View(f, j))  BY DEF Fit
<1>10. View(g, n) = EmptyLine  BY <1>2, <1>3, <1>4, <1>5, <1>8 DEF View
<1>11. \A j \in LineId : Own(g, j) => Shaped(View(g, j))
  <2> TAKE j \in LineId
  <2>1. CASE j = n  BY <2>1, <1>a, <1>10
  <2>2. CASE j # n
    <3>1. g.line[j] = f.line[j] /\ g.bytes[j] = f.bytes[j]  BY <2>2, <1>4, <1>5, <1>8
    <3>2. Own(g, j) => View(g, j) = View(f, j) /\ Own(f, j)  BY <3>1 DEF View, Own
    <3> QED  BY <3>2, <1>9
  <2> QED  BY <2>1, <2>2
<1>12. g.alive \subseteq 1 .. g.fresh - 1  BY <1>1, <1>8, <1>c
<1>13. Fit(g)  BY <1>8, <1>11, <1>12 DEF Fit
<1>14. alive = f.alive \cup {n}  BY DEF alive
<1> QED  BY <1>1, <1>2, <1>4, <1>8, <1>13, <1>14 DEF g, n, SameCursor, SameScroll, Own

\* A link of a struct set.
SetNext(h, id, x) == [h EXCEPT ![id].nextl = x]
SetPrev(h, id, x) == [h EXCEPT ![id].prevl = x]

\* b has what a has beside its links.
SameBody(a, b) ==
    /\ b.sog = a.sog /\ b.eog = a.eog /\ b.size = a.size
    /\ b.data_n = a.data_n /\ b.data = a.data /\ b.refs = a.refs

\* It is the only thing that changes, of the forward link ...
LEMMA SetNextFields ==
    ASSUME NEW h \in [LineId -> LooseStruct], NEW id \in LineId, NEW x \in Link
    PROVE  LET g == SetNext(h, id, x)
           IN  /\ g \in [LineId -> LooseStruct]
               /\ \A j \in LineId : /\ g[j].nextl = IF j = id THEN x ELSE h[j].nextl
                                    /\ g[j].prevl = h[j].prevl /\ SameBody(h[j], g[j])
<1> DEFINE s == [h[id] EXCEPT !.nextl = x]
           g == SetNext(h, id, x)
<1>1. h[id] \in LooseStruct  OBVIOUS
<1>2. /\ s \in LooseStruct /\ s.nextl = x /\ s.prevl = h[id].prevl /\ SameBody(h[id], s)
      BY <1>1 DEF LooseStruct, SameBody
<1>3. g = [h EXCEPT ![id] = s]  BY DEF SetNext
<1> HIDE DEF s, g
<1>4. g \in [LineId -> LooseStruct] /\ g[id] = s /\ \A j \in LineId : j # id => g[j] = h[j]
      BY <1>2, <1>3
<1> QED  BY <1>2, <1>4 DEF SameBody, g

\* ... and of the backward one.
LEMMA SetPrevFields ==
    ASSUME NEW h \in [LineId -> LooseStruct], NEW id \in LineId, NEW x \in Link
    PROVE  LET g == SetPrev(h, id, x)
           IN  /\ g \in [LineId -> LooseStruct]
               /\ \A j \in LineId : /\ g[j].prevl = IF j = id THEN x ELSE h[j].prevl
                                    /\ g[j].nextl = h[j].nextl /\ SameBody(h[j], g[j])
<1> DEFINE s == [h[id] EXCEPT !.prevl = x]
           g == SetPrev(h, id, x)
<1>1. h[id] \in LooseStruct  OBVIOUS
<1>2. /\ s \in LooseStruct /\ s.prevl = x /\ s.nextl = h[id].nextl /\ SameBody(h[id], s)
      BY <1>1 DEF LooseStruct, SameBody
<1>3. g = [h EXCEPT ![id] = s]  BY DEF SetPrev
<1> HIDE DEF s, g
<1>4. g \in [LineId -> LooseStruct] /\ g[id] = s /\ \A j \in LineId : j # id => g[j] = h[j]
      BY <1>2, <1>3
<1> QED  BY <1>2, <1>4 DEF SameBody, g

\* Other links and pointers, the same bytes.
LEMMA RelinkedFit ==
    ASSUME NEW f, Fit(f), NEW h \in [LineId -> LooseStruct],
           \A j \in LineId : SameBody(f.line[j], h[j]),
           NEW head \in LineId, NEW tail \in LineId, NEW here \in LineId, NEW scroll \in Link
    PROVE  LET g == Relinked(f, h, head, tail, here, scroll)
           IN  /\ Fit(g) /\ g.line = h /\ g.bytes = f.bytes /\ g.alive = f.alive
               /\ g.fresh = f.fresh /\ g.headl = head /\ g.taill = tail
               /\ g.currentl = here /\ g.scroll = scroll /\ g.scroll_r = f.scroll_r
               /\ g.buffer_r = f.buffer_r /\ g.buffer_c = f.buffer_c
               /\ g.buffer_n = f.buffer_n /\ g.fault = f.fault
               /\ \A j \in LineId : /\ Own(g, j) <=> Own(f, j)
                                    /\ g.line[j].refs = f.line[j].refs
<1> DEFINE g == Relinked(f, h, head, tail, here, scroll)
<1>0. f \in LooseFrame  BY DEF Fit
<1>1. /\ g \in LooseFrame /\ g.line = h /\ g.bytes = f.bytes /\ g.alive = f.alive
      /\ g.fresh = f.fresh /\ g.headl = head /\ g.taill = tail
      /\ g.currentl = here /\ g.scroll = scroll /\ g.scroll_r = f.scroll_r
      /\ g.buffer_r = f.buffer_r /\ g.buffer_c = f.buffer_c
      /\ g.buffer_n = f.buffer_n /\ g.fault = f.fault
      BY <1>0 DEF LooseFrame, Relinked
<1> HIDE DEF g
<1>2. \A j \in LineId : /\ Own(g, j) <=> Own(f, j)
                        /\ g.line[j].refs = f.line[j].refs
                        /\ View(g, j) = View(f, j)
      BY <1>1 DEF SameBody, Own, View
<1>3. Fit(g)  BY <1>1, <1>2 DEF Fit
<1> QED  BY <1>1, <1>2, <1>3 DEF g

\* insert_line_after() behind a line, at the tail or not.
LEMMA LinkAfterFit ==
    ASSUME NEW f, Fit(f), ~f.fault, NEW parent \in f.alive, NEW line \in f.alive,
           parent # line, f.line[line].nextl = NULL, f.line[parent].nextl # line,
           f.line[parent].nextl # parent
    PROVE  LET g == InsertLineAfter(f, parent, line)
           IN  /\ Fit(g) /\ ~g.fault /\ g.currentl = line
               /\ \A j \in LineId : /\ Own(g, j) <=> Own(f, j)
                                    /\ g.line[j].refs = f.line[j].refs
               /\ PutAfter(f, g, parent, line)
<1> DEFINE after == f.line[parent].nextl
           a == SetNext(f.line, parent, line)
           last == SetPrev(a, line, parent)
           b == SetNext(a, line, after)
           c == SetPrev(b, line, parent)
           between == SetPrev(c, after, line)
           h == IF after = NULL THEN last ELSE between
           tail == IF after = NULL THEN line ELSE f.taill
           linked == IF after = NULL THEN LinkLast(f, parent, line)
                     ELSE LinkBetween(f, parent, line)
           g == InsertLineAfter(f, parent, line)
<1>0. /\ f \in LooseFrame /\ f.line \in [LineId -> LooseStruct]
      /\ parent \in LineId /\ line \in LineId /\ parent # NULL /\ line # NULL
      /\ Usable(f, parent) /\ Usable(f, line) /\ after \in Link
      /\ parent \in Link /\ line \in Link
      /\ f.headl \in LineId /\ f.taill \in LineId /\ f.currentl \in LineId /\ f.scroll \in Link
  <2>1. f.alive \subseteq LineId  BY FitFields
  <2>2. after \in Link  BY <2>1, LooseFields
  <2> QED  BY <2>1, <2>2, FitFields, NULLAssumption DEF Fit, Usable, Link
<1>1. g = [linked EXCEPT !.currentl = line, !.buffer_n = @ + 1,
                         !.buffer_r = @ + 1, !.buffer_c = 0]
      BY <1>0 DEF InsertLineAfter, Check
<1>2. linked = Relinked(f, h, f.headl, tail, f.currentl, f.scroll)
  <2>1. CASE after = NULL
        BY <2>1, <1>0 DEF LinkLast, Relinked, SetNext, SetPrev, LooseFrame
  <2>2. CASE after # NULL
    <3>1. LinkBetween(f, parent, line) = [f EXCEPT !.line = between]
          BY DEF LinkBetween, SetNext, SetPrev
    <3>2. h = between /\ tail = f.taill  BY <2>2
    <3> HIDE DEF between, h, tail
    <3> QED  BY <2>2, <3>1, <3>2, <1>0 DEF Relinked, LooseFrame
  <2> QED  BY <2>1, <2>2
<1>3. /\ a \in [LineId -> LooseStruct]
      /\ \A j \in LineId : /\ a[j].nextl = IF j = parent THEN line ELSE f.line[j].nextl
                           /\ a[j].prevl = f.line[j].prevl /\ SameBody(f.line[j], a[j])
      BY <1>0, SetNextFields
<1> HIDE DEF a
<1>4. /\ last \in [LineId -> LooseStruct]
      /\ \A j \in LineId : /\ last[j].prevl = IF j = line THEN parent ELSE a[j].prevl
                           /\ last[j].nextl = a[j].nextl /\ SameBody(a[j], last[j])
      BY <1>0, <1>3, SetPrevFields
<1>5. /\ b \in [LineId -> LooseStruct]
      /\ \A j \in LineId : /\ b[j].nextl = IF j = line THEN after ELSE a[j].nextl
                           /\ b[j].prevl = a[j].prevl /\ SameBody(a[j], b[j])
      BY <1>0, <1>3, SetNextFields
<1> HIDE DEF b, last
<1>6. /\ c \in [LineId -> LooseStruct]
      /\ \A j \in LineId : /\ c[j].prevl = IF j = line THEN parent ELSE b[j].prevl
                           /\ c[j].nextl = b[j].nextl /\ SameBody(b[j], c[j])
      BY <1>0, <1>5, SetPrevFields
<1> HIDE DEF c
<1>7. after # NULL =>
      /\ between \in [LineId -> LooseStruct]
      /\ \A j \in LineId : /\ between[j].prevl = IF j = after THEN line ELSE c[j].prevl
                           /\ between[j].nextl = c[j].nextl /\ SameBody(c[j], between[j])
      BY <1>0, <1>6, SetPrevFields DEF Link
<1> HIDE DEF between
<1>8. h \in [LineId -> LooseStruct]  BY <1>4, <1>7
<1>9. \A j \in LineId :
         /\ SameBody(f.line[j], h[j])
         /\ h[j].nextl = IF j = parent THEN line
                         ELSE IF j = line THEN after ELSE f.line[j].nextl
         /\ h[j].prevl = IF j = line THEN parent
                         ELSE IF j = after THEN line ELSE f.line[j].prevl
  <2> TAKE j \in LineId
  <2>1. CASE after = NULL
    <3>1. h[j] = last[j] /\ j # NULL  BY <2>1, NULLAssumption
    <3>2. h[j].nextl = IF j = parent THEN line ELSE f.line[j].nextl  BY <3>1, <1>3, <1>4
    <3>3. h[j].prevl = IF j = line THEN parent ELSE f.line[j].prevl  BY <3>1, <1>3, <1>4
    <3>4. SameBody(f.line[j], h[j])  BY <3>1, <1>3, <1>4 DEF SameBody
    <3> QED  BY <3>1, <3>2, <3>3, <3>4, <2>1
  <2>2. CASE after # NULL
    <3>1. h[j] = between[j]  BY <2>2
    <3>2. h[j].nextl = IF j = line THEN after
                       ELSE IF j = parent THEN line ELSE f.line[j].nextl
          BY <3>1, <2>2, <1>3, <1>5, <1>6, <1>7
    <3>3. h[j].prevl = IF j = after THEN line
                       ELSE IF j = line THEN parent ELSE f.line[j].prevl
          BY <3>1, <2>2, <1>3, <1>5, <1>6, <1>7
    <3>4. SameBody(f.line[j], h[j])  BY <3>1, <2>2, <1>3, <1>5, <1>6, <1>7 DEF SameBody
    <3> QED  BY <3>2, <3>3, <3>4
  <2> QED  BY <2>1, <2>2
<1>10. tail \in LineId  BY <1>0
<1> HIDE DEF h, tail, linked, g
<1>11. /\ Fit(linked) /\ linked.line = h /\ linked.bytes = f.bytes /\ linked.alive = f.alive
       /\ linked.fresh = f.fresh /\ linked.headl = f.headl /\ linked.taill = tail
       /\ linked.buffer_r = f.buffer_r /\ linked.buffer_n = f.buffer_n
       /\ linked.fault = f.fault
       /\ \A j \in LineId : /\ Own(linked, j) <=> Own(f, j)
                            /\ linked.line[j].refs = f.line[j].refs
  <2>1. \A j \in LineId : SameBody(f.line[j], h[j])  BY <1>9
  <2>2. f.headl \in LineId /\ f.currentl \in LineId /\ f.scroll \in Link  BY <1>0
  <2>3. PICK head \in LineId, here \in LineId, scroll \in Link :
           head = f.headl /\ here = f.currentl /\ scroll = f.scroll
        BY <2>2
  <2>4. linked = Relinked(f, h, head, tail, here, scroll)  BY <2>3, <1>2
  <2> DEFINE x == Relinked(f, h, head, tail, here, scroll)
  <2>5. /\ Fit(x) /\ x.line = h /\ x.bytes = f.bytes /\ x.alive = f.alive
        /\ x.fresh = f.fresh /\ x.headl = head /\ x.taill = tail
        /\ x.buffer_r = f.buffer_r /\ x.buffer_n = f.buffer_n
        /\ x.fault = f.fault
        /\ \A j \in LineId : (Own(x, j) <=> Own(f, j)) /\ x.line[j].refs = f.line[j].refs
        BY <2>1, <1>8, <1>10, RelinkedFit
  <2> QED  BY <2>3, <2>4, <2>5
<1>12. linked \in LooseFrame /\ linked.buffer_n \in Nat /\ linked.buffer_r \in Int
       BY <1>11, FitFields
<1>13. PICK n \in Nat : n = linked.buffer_n + 1  BY <1>12
<1>14. PICK r \in Int : r = linked.buffer_r + 1  BY <1>12
<1>15. g = [linked EXCEPT !.currentl = line, !.buffer_n = n, !.buffer_r = r, !.buffer_c = 0]
       BY <1>1, <1>13, <1>14
<1>16. /\ g \in LooseFrame /\ g.line = linked.line /\ g.bytes = linked.bytes
       /\ g.alive = linked.alive /\ g.fresh = linked.fresh /\ g.headl = linked.headl
       /\ g.taill = linked.taill /\ g.currentl = line /\ g.fault = linked.fault
       BY <1>0, <1>12, <1>13, <1>14, <1>15 DEF LooseFrame
<1>17. Steady(linked, g)  BY <1>11, <1>16, SteadyFields
<1>18. PutAfter(f, g, parent, line)  BY <1>9, <1>11, <1>16 DEF PutAfter, tail
<1>19. \A j \in LineId : (Own(g, j) <=> Own(f, j)) /\ g.line[j].refs = f.line[j].refs
       BY <1>11, <1>17 DEF Steady, SameList
<1> QED  BY <1>11, <1>16, <1>17, <1>18, <1>19 DEF Steady, g

\* The line id is in the list s.
In(s, id) == \E k \in 1 .. Len(s) : s[k] = id

\* From f to g the list s got a new line, which the cursor is in.
Grows(f, g, s) ==
    LET n == f.fresh
    IN  /\ Fit(g)
        /\ ~g.fault =>
              /\ ~f.fault /\ n \in LineId /\ n \notin f.alive
              /\ g.alive = f.alive \cup {n} /\ g.line[n].refs = 1 /\ Own(g, n)
              /\ g.currentl = n
              /\ \A id \in f.alive : /\ g.line[id].refs = f.line[id].refs
                                     /\ Own(g, id) <=> Own(f, id)
              /\ \E t : Held(g, t) /\ \A id : In(t, id) <=> In(s, id) \/ id = n

\* A member put into a list makes it the only new one.
LEMMA InsertMembers ==
    ASSUME NEW S, NEW s \in Seq(S), NEW i \in 1 .. Len(s) + 1, NEW e \in S
    PROVE  \A id : In(InsertAt(s, i, e), id) <=> In(s, id) \/ id = e
<1> DEFINE t == InsertAt(s, i, e)
<1>0. Len(s) \in Nat /\ i \in Nat  OBVIOUS
<1>1. Len(t) = Len(s) + 1
      /\ \A k \in 1 .. Len(s) + 1 : t[k] = IF k < i THEN s[k] ELSE IF k = i THEN e ELSE s[k - 1]
      BY InsertAtValue
<1> HIDE DEF t
<1>2. ASSUME NEW id, In(t, id) PROVE In(s, id) \/ id = e
  <2>1. PICK k \in 1 .. Len(s) + 1 : t[k] = id  BY <1>1, <1>2 DEF In
  <2>2. CASE k < i
    <3>1. k \in 1 .. Len(s) /\ s[k] = id  BY <2>1, <2>2, <1>0, <1>1
    <3> QED  BY <3>1 DEF In
  <2>3. CASE k = i  BY <2>1, <2>3, <1>1
  <2>4. CASE k > i
    <3>1. k - 1 \in 1 .. Len(s) /\ s[k - 1] = id  BY <2>1, <2>4, <1>0, <1>1
    <3> QED  BY <3>1 DEF In
  <2> QED  BY <2>2, <2>3, <2>4, <1>0
<1>3. In(t, e)  BY <1>0, <1>1 DEF In
<1>4. ASSUME NEW id, In(s, id) PROVE In(t, id)
  <2>1. PICK k \in 1 .. Len(s) : s[k] = id  BY <1>4 DEF In
  <2>2. CASE k < i
    <3>1. k \in 1 .. Len(t) /\ t[k] = id  BY <2>1, <2>2, <1>0, <1>1
    <3> QED  BY <3>1 DEF In
  <2>3. CASE ~(k < i)
    <3>1. PICK j \in 1 .. Len(s) + 1 : j = k + 1  BY <2>1, <1>0
    <3>2. j \in 1 .. Len(t) /\ t[j] = s[j - 1] /\ j - 1 = k  BY <3>1, <2>1, <2>3, <1>0, <1>1
    <3> QED  BY <3>2, <2>1 DEF In
  <2> QED  BY <2>2, <2>3
<1> QED  BY <1>2, <1>3, <1>4 DEF t

\* The new line, whatever was written into it and the current one, linked in
\* behind the current one.
LEMMA LinkGrows ==
    ASSUME NEW f, Fit(f), ~f.fault, NEW s, Held(f, s), f.fresh \in LineId,
           NEW e, Steady(AllocEmptyl(f), e), ~e.fault
    PROVE  Grows(f, InsertLineAfter(e, f.currentl, f.fresh), s)
<1> DEFINE n == f.fresh
           a == AllocEmptyl(f)
           g == InsertLineAfter(e, f.currentl, n)
<1>1. /\ Fit(a) /\ a.headl = f.headl /\ a.taill = f.taill
      /\ n \notin f.alive /\ a.alive = f.alive \cup {n} /\ a.fresh = n + 1 /\ Own(a, n)
      /\ a.line[n].nextl = NULL /\ a.line[n].refs = 1
      /\ \A j \in LineId : j # n => a.line[j] = f.line[j]
      BY AllocFit
<1> HIDE DEF a
<1>2. PICK k \in 1 .. Len(s) :
         /\ k \in Nat /\ f.currentl = s[k]
         /\ f.line[f.currentl].nextl = IF k = Len(s) THEN NULL ELSE s[k + 1]
      BY HeldFields
<1>3. /\ s \in Seq(LineId) /\ Len(s) \in Nat /\ Len(s) >= 1 /\ Len(s) < n
      /\ \A j, i \in 1 .. Len(s) : s[j] = s[i] => j = i
      /\ \A j \in 1 .. Len(s) : s[j] \in f.alive
      /\ f.headl = s[1] /\ f.taill = s[Len(s)]
      /\ \A j \in 1 .. Len(s) : f.line[s[j]].nextl = IF j = Len(s) THEN NULL ELSE s[j + 1]
      /\ \A j \in 1 .. Len(s) : f.line[s[j]].prevl = IF j = 1 THEN NULL ELSE s[j - 1]
      BY DEF Held, Chain
<1>4. \A j \in 1 .. Len(s) : s[j] \in LineId /\ s[j] # n /\ s[j] # NULL /\ Own(f, s[j])
      BY <1>1, <1>3, NULLAssumption DEF Held
<1>n. n \in Nat /\ n # NULL  BY FitFields, NULLAssumption
<1>5. Chain(a, s)
  <2>1. \A j \in 1 .. Len(s) : a.line[s[j]] = f.line[s[j]]  BY <1>1, <1>4
  <2>2. Len(s) < a.fresh  BY <1>1, <1>3, <1>n
  <2>3. \A j \in 1 .. Len(s) : s[j] \in a.alive  BY <1>1, <1>3
  <2>4. /\ \A j \in 1 .. Len(s) : a.line[s[j]].nextl = IF j = Len(s) THEN NULL ELSE s[j + 1]
        /\ \A j \in 1 .. Len(s) : a.line[s[j]].prevl = IF j = 1 THEN NULL ELSE s[j - 1]
        BY <1>3, <2>1
  <2>5. a.headl = s[1] /\ a.taill = s[Len(s)]  BY <1>1, <1>3
  <2> QED  BY <1>3, <2>2, <2>3, <2>4, <2>5 DEF Chain
<1>6. Fit(e) /\ SameList(a, e) /\ \A id \in LineId : Own(e, id) <=> Own(a, id)
      BY DEF Steady, a
<1>7. Chain(e, s)  BY <1>5, <1>6, SameListChain
<1>8. /\ e.alive = f.alive \cup {n} /\ e.fresh = n + 1 /\ e.line[n].nextl = NULL
      /\ e.line[n].refs = 1 /\ Own(e, n)
      /\ \A j \in LineId : j # n =>
            /\ e.line[j].nextl = f.line[j].nextl /\ e.line[j].refs = f.line[j].refs
            /\ Own(e, j) <=> Own(f, j)
      BY <1>1, <1>6 DEF SameList, Own
<1>9. /\ s[k] \in e.alive /\ n \in e.alive /\ s[k] # n
      /\ e.line[s[k]].nextl # n /\ e.line[s[k]].nextl # s[k]
  <2>1. e.line[s[k]].nextl = IF k = Len(s) THEN NULL ELSE s[k + 1]
        BY <1>2, <1>4, <1>8
  <2>2. k # Len(s) => k + 1 \in 1 .. Len(s) /\ k + 1 # k  BY <1>2, <1>3
  <2>3. s[k] # NULL /\ s[k] # n  BY <1>2, <1>4
  <2>4. CASE k = Len(s)  BY <2>1, <2>3, <2>4, <1>2, <1>3, <1>8, <1>n
  <2>5. CASE k # Len(s)
    <3>1. s[k + 1] # n /\ s[k + 1] # s[k]  BY <2>2, <2>5, <1>2, <1>3, <1>4
    <3> QED  BY <2>1, <2>3, <2>5, <3>1, <1>2, <1>3, <1>8
  <2> QED  BY <2>4, <2>5
<1>10. /\ Fit(g) /\ ~g.fault /\ g.currentl = n
       /\ \A j \in LineId : (Own(g, j) <=> Own(e, j)) /\ g.line[j].refs = e.line[j].refs
       /\ PutAfter(e, g, s[k], n)
       BY <1>2, <1>6, <1>8, <1>9, LinkAfterFit
<1> HIDE DEF g
<1> DEFINE t == InsertAt(s, k + 1, n)
<1>11. Chain(g, t)
  <2>1. Absent(s, n)  BY <1>4 DEF Absent
  <2>2. Len(s) + 1 < e.fresh  BY <1>3, <1>8, <1>n
  <2> QED  BY <2>1, <2>2, <1>7, <1>9, <1>10, <1>n, ChainInsert
<1>12. k + 1 \in 1 .. Len(s) + 1  BY <1>2, <1>3
<1>13. \A id : In(t, id) <=> In(s, id) \/ id = n
  <2>1. s \in Seq(LineId) /\ n \in LineId  BY <1>3
  <2>2. PICK i \in 1 .. Len(s) + 1 : i = k + 1  BY <1>12
  <2>3. \A id : In(InsertAt(s, i, n), id) <=> In(s, id) \/ id = n
        BY <2>1, InsertMembers
  <2> QED  BY <2>2, <2>3
<1> HIDE DEF t
<1>14. Held(g, t)
  <2>1. ASSUME NEW j \in 1 .. Len(t) PROVE Own(g, t[j])
    <3>1. In(t, t[j])  BY DEF In
    <3>2. CASE t[j] = n  BY <3>2, <1>8, <1>10
    <3>3. CASE In(s, t[j])
      <4>1. PICK i \in 1 .. Len(s) : s[i] = t[j]  BY <3>3 DEF In
      <4> QED  BY <4>1, <1>4, <1>8, <1>10
    <3> QED  BY <3>1, <3>2, <3>3, <1>13
  <2>2. In(t, n)  BY <1>13
  <2> QED  BY <2>1, <2>2, <1>10, <1>11 DEF Held, In
<1>15. /\ g.alive = f.alive \cup {n} /\ g.line[n].refs = 1 /\ Own(g, n)
       /\ \A id \in f.alive : g.line[id].refs = f.line[id].refs /\ (Own(g, id) <=> Own(f, id))
  <2>1. \A id \in f.alive : id \in LineId /\ id # n  BY <1>1, FitFields
  <2> QED  BY <2>1, <1>8, <1>10 DEF PutAfter
<1> QED  BY <1>1, <1>10, <1>13, <1>14, <1>15 DEF Grows, g

\* What happens then without touching the list.
LEMMA GrowsSteady ==
    ASSUME NEW f, NEW g, NEW s, Grows(f, g, s), Fit(f), NEW h, Steady(g, h),
           h.currentl = g.currentl, ~h.fault => ~g.fault
    PROVE  Grows(f, h, s)
<1>1. Fit(h) /\ SameList(g, h) /\ \A id \in LineId : Own(h, id) <=> Own(g, id)  BY DEF Steady
<1>2. f.alive \subseteq LineId  BY FitFields
<1>3. ASSUME ~h.fault, NEW t, Held(g, t) PROVE Held(h, t)
  <2>1. \E k \in 1 .. Len(t) : h.currentl = t[k]  BY <1>3 DEF Held
  <2> QED  BY <2>1, <1>3, SteadyHeld
<1> QED  BY <1>1, <1>2, <1>3 DEF Grows, SameList

\* The key o.
LEMMA OpenGrows ==
    ASSUME NEW f, Fit(f), ~f.fault, NEW s, Held(f, s), f.fresh \in LineId
    PROVE  Grows(f, OpenLine(f), s)
<1> DEFINE a == AllocEmptyl(f)
           g == InsertLineAfter(a, f.currentl, f.fresh)
<1>1. Fit(a) /\ a.fault = f.fault  BY AllocFit
<1>2. Steady(a, a)  BY <1>1, SteadyReflexive
<1>3. Grows(f, g, s)  BY <1>1, <1>2, LinkGrows
<1>4. Fit(g)  BY <1>3 DEF Grows
<1>5. OpenLine(f) = IF AtBottom(f) THEN ScrollDown(g) ELSE g  BY DEF OpenLine
<1> HIDE DEF g, a
<1>6. Steady(g, ScrollDown(g)) /\ ScrollDown(g).currentl = g.currentl
      /\ (~ScrollDown(g).fault => ~g.fault)
      BY <1>4, ScrollDownSteady DEF SameCursor
<1> QED  BY <1>3, <1>5, <1>6, GrowsSteady

\* insert_line_after() at the cursor.
LEMMA BreakAfterGrows ==
    ASSUME NEW f, Fit(f), ~f.fault, NEW s, Held(f, s), f.fresh \in LineId
    PROVE  Grows(f, BreakLineAfter(f, f.currentl), s)
<1> DEFINE n == f.fresh
           id == f.currentl
           l == View(f, id)
           c == f.buffer_c
           diff == f.line[id].data_n - c
           a == AllocEmptyl(f)
           new == AfterCursor(l, c)
           old == BeforeCursor(l, c)
           split == Put(Put(a, n, new), id, old)
           e == IF diff = 0 THEN a ELSE split
           ok == /\ Usable(f, id) /\ diff >= 0
                 /\ diff > 0 => Readable(f, id) /\ l.eog + 1 + diff \in DOMAIN l.data
           g == BreakLineAfter(f, id)
<1>0. /\ id \in LineId /\ id \in f.alive /\ Own(f, id) /\ Shaped(l) /\ c \in Nat
      /\ f.line[id].data_n = l.data_n
      BY HeldFields, FitFields, OwnFields
<1>1. /\ Fit(a) /\ a.fault = f.fault /\ n \notin f.alive /\ Own(a, n)
      /\ \A j \in LineId : j # n => a.line[j] = f.line[j]
      BY AllocFit
<1>2. g = Check(f, ok, InsertLineAfter(e, id, n))  BY DEF BreakLineAfter
<1>3. ASSUME ok PROVE Steady(a, e) /\ ~e.fault
  <2>1. CASE diff = 0  BY <2>1, <1>1, SteadyReflexive
  <2>2. CASE diff # 0
    <3>1. Shaped(old) /\ Shaped(new)  BY <1>0, <1>3, SplitShaped
    <3>2. Own(a, id)  BY <1>0, <1>1 DEF Own
    <3> DEFINE p == Put(a, n, new)
    <3> HIDE DEF a, old, new
    <3>3. Steady(a, p) /\ p.fault = a.fault  BY <1>1, <3>1, PutOnly
    <3>4. Fit(p) /\ Own(p, id)  BY <1>0, <3>2, <3>3 DEF Steady
    <3>5. split = Put(p, id, old) /\ e = split  BY <2>2
    <3> HIDE DEF p, split, e
    <3>6. Steady(p, split) /\ split.fault = p.fault  BY <1>0, <3>1, <3>4, <3>5, PutOnly
    <3> QED  BY <3>3, <3>5, <3>6, <1>1, SteadyTransitive
  <2> QED  BY <2>1, <2>2
<1> HIDE DEF e, ok
<1>4. ASSUME ok PROVE Grows(f, InsertLineAfter(e, id, n), s)  BY <1>3, <1>4, LinkGrows
<1> DEFINE body == InsertLineAfter(e, id, n)
<1> HIDE DEF body, g
<1>5. \/ ok /\ g = body
      \/ g.fault /\ Fit(g)
  <2>1. g = Check(f, ok, body)  BY <1>2 DEF body
  <2> QED  BY <2>1, CheckCases DEF Stopped, Steady
<1> QED  BY <1>4, <1>5 DEF Grows, g, body

\* The newline key.
LEMMA BreakGrows ==
    ASSUME NEW f, Fit(f), ~f.fault, NEW s, Held(f, s), f.fresh \in LineId
    PROVE  Grows(f, BreakLine(f), s)
<1> DEFINE g == BreakLineAfter(f, f.currentl)
<1>1. Grows(f, g, s)  BY BreakAfterGrows
<1>2. Fit(g)  BY <1>1 DEF Grows
<1>3. BreakLine(f) = IF AtBottom(f) THEN ScrollDown(g) ELSE g  BY DEF BreakLine
<1> HIDE DEF g
<1>4. Steady(g, ScrollDown(g)) /\ ScrollDown(g).currentl = g.currentl
      /\ (~ScrollDown(g).fault => ~g.fault)
      BY <1>2, ScrollDownSteady DEF SameCursor
<1> QED  BY <1>1, <1>3, <1>4, GrowsSteady

-----------------------------------------------------------------------------
(* A line less *)

\* What cutl() has done to the links before it moves the cursor off the tail.
LEMMA DetachFit ==
    ASSUME NEW f, Fit(f), NEW before \in Link, NEW after \in Link,
           before = f.line[f.currentl].prevl, after = f.line[f.currentl].nextl,
           before # NULL \/ after # NULL
    PROVE  LET g == Detached(f)
           IN  /\ Fit(g) /\ TakenOut(f, g, f.currentl) /\ g.fault = f.fault
               /\ g.currentl = IF after = NULL THEN f.currentl ELSE after
               /\ \A j \in LineId : /\ Own(g, j) <=> Own(f, j)
                                    /\ g.line[j].refs = f.line[j].refs
               /\ Unlink(f) = IF after = NULL THEN CursorUp(g) ELSE g
<1> DEFINE a == SetNext(f.line, before, after)
           first == SetPrev(f.line, after, NULL)
           mid == SetPrev(a, after, before)
           last == SetNext(f.line, before, NULL)
           h == IF before = NULL THEN first ELSE IF after = NULL THEN last ELSE mid
           head == IF before = NULL THEN after ELSE f.headl
           tail == IF after = NULL THEN before ELSE f.taill
           here == IF after = NULL THEN f.currentl ELSE after
           scroll == IF before = NULL THEN after ELSE f.scroll
           g == Detached(f)
           x == Relinked(f, h, head, tail, here, scroll)
<1>0. /\ f \in LooseFrame /\ f.line \in [LineId -> LooseStruct] /\ NULL \notin LineId
      /\ before # NULL => before \in LineId
      /\ after # NULL => after \in LineId
      /\ NULL \in Link
      /\ f.headl \in LineId /\ f.taill \in LineId /\ f.currentl \in LineId /\ f.scroll \in Link
      BY FitFields, NULLAssumption DEF Fit, Link
<1>1. g = x
  <2>1. CASE before = NULL
    <3>1. g = [f EXCEPT !.headl = after, !.scroll = after, !.currentl = after, !.line = first]
          BY <2>1, <1>0 DEF Detached, Unlink, SetPrev
    <3>2. h = first /\ head = after /\ tail = f.taill /\ here = after /\ scroll = after
          BY <2>1
    <3> HIDE DEF first, h, head, tail, here, scroll, g
    <3> QED  BY <3>1, <3>2, <1>0 DEF Relinked, LooseFrame
  <2>2. CASE before # NULL /\ after # NULL
    <3>1. g = [f EXCEPT !.line = mid, !.currentl = after]
          BY <2>2, <1>0 DEF Detached, Unlink, SetPrev, SetNext
    <3>2. h = mid /\ head = f.headl /\ tail = f.taill /\ here = after /\ scroll = f.scroll
          BY <2>2
    <3> HIDE DEF mid, h, head, tail, here, scroll, g
    <3> QED  BY <3>1, <3>2, <1>0 DEF Relinked, LooseFrame
  <2>3. CASE before # NULL /\ after = NULL
    <3>1. g = [f EXCEPT !.line = last, !.taill = before]
          BY <2>3, <1>0 DEF Detached, SetNext
    <3>2. h = last /\ head = f.headl /\ tail = before /\ here = f.currentl /\ scroll = f.scroll
          BY <2>3
    <3> HIDE DEF last, h, head, tail, here, scroll, g
    <3> QED  BY <3>1, <3>2, <1>0 DEF Relinked, LooseFrame
  <2> QED  BY <2>1, <2>2, <2>3
<1>2. before = NULL =>
      /\ first \in [LineId -> LooseStruct]
      /\ \A j \in LineId : /\ first[j].prevl = IF j = after THEN NULL ELSE f.line[j].prevl
                           /\ first[j].nextl = f.line[j].nextl
                           /\ SameBody(f.line[j], first[j])
      BY <1>0, SetPrevFields
<1>3. before # NULL =>
      /\ a \in [LineId -> LooseStruct]
      /\ \A j \in LineId : /\ a[j].nextl = IF j = before THEN after ELSE f.line[j].nextl
                           /\ a[j].prevl = f.line[j].prevl
                           /\ SameBody(f.line[j], a[j])
      BY <1>0, SetNextFields
<1>4. before # NULL =>
      /\ last \in [LineId -> LooseStruct]
      /\ \A j \in LineId : /\ last[j].nextl = IF j = before THEN NULL ELSE f.line[j].nextl
                           /\ last[j].prevl = f.line[j].prevl
                           /\ SameBody(f.line[j], last[j])
      BY <1>0, SetNextFields
<1> HIDE DEF a
<1>5. before # NULL /\ after # NULL =>
      /\ mid \in [LineId -> LooseStruct]
      /\ \A j \in LineId : /\ mid[j].prevl = IF j = after THEN before ELSE a[j].prevl
                           /\ mid[j].nextl = a[j].nextl
                           /\ SameBody(a[j], mid[j])
  <2> SUFFICES ASSUME before # NULL, after # NULL
               PROVE  /\ mid \in [LineId -> LooseStruct]
                      /\ \A j \in LineId :
                            /\ mid[j].prevl = IF j = after THEN before ELSE a[j].prevl
                            /\ mid[j].nextl = a[j].nextl
                            /\ SameBody(a[j], mid[j])
      BY Zenon
  <2>1. a \in [LineId -> LooseStruct] /\ after \in LineId  BY <1>0, <1>3
  <2> QED  BY <2>1, SetPrevFields
<1> HIDE DEF first, mid, last
<1>6. h \in [LineId -> LooseStruct]  BY <1>0, <1>2, <1>4, <1>5
<1>7. ASSUME NEW j \in LineId
      PROVE  /\ SameBody(f.line[j], h[j])
             /\ h[j].nextl = IF j = before THEN after ELSE f.line[j].nextl
             /\ h[j].prevl = IF j = after THEN before ELSE f.line[j].prevl
  <2>0. j # NULL  BY <1>0
  <2>1. CASE before = NULL
    <3>1. h[j] = first[j]  BY <2>1
    <3> QED  BY <2>0, <2>1, <3>1, <1>2
  <2>2. CASE before # NULL /\ after = NULL
    <3>1. h[j] = last[j]  BY <2>2
    <3> QED  BY <2>0, <2>2, <3>1, <1>4
  <2>3. CASE before # NULL /\ after # NULL
    <3>1. h[j] = mid[j]  BY <2>3
    <3> QED  BY <2>0, <2>3, <3>1, <1>3, <1>5 DEF SameBody
  <2> QED  BY <2>1, <2>2, <2>3
<1>8. head \in LineId /\ tail \in LineId /\ here \in LineId /\ scroll \in Link
      BY <1>0
<1>b. /\ head = IF before = NULL THEN after ELSE f.headl
      /\ tail = IF after = NULL THEN before ELSE f.taill
      /\ here = IF after = NULL THEN f.currentl ELSE after
      OBVIOUS
<1> HIDE DEF h, head, tail, here, scroll, g
<1>9. /\ Fit(x) /\ x.line = h /\ x.alive = f.alive
      /\ x.fresh = f.fresh /\ x.headl = head /\ x.taill = tail
      /\ x.currentl = here /\ x.fault = f.fault
      /\ \A j \in LineId : (Own(x, j) <=> Own(f, j)) /\ x.line[j].refs = f.line[j].refs
      BY <1>6, <1>7, <1>8, RelinkedFit
<1> HIDE DEF x
<1>10. TakenOut(f, g, f.currentl)  BY <1>1, <1>7, <1>9, <1>b DEF TakenOut
<1>11. Unlink(f) = IF after = NULL THEN CursorUp(g) ELSE g
  <2>1. CASE after = NULL  BY <2>1 DEF Unlink, Detached, g
  <2>2. CASE after # NULL  BY <2>2 DEF Detached, g
  <2> QED  BY <2>1, <2>2
<1> QED  BY <1>1, <1>9, <1>10, <1>11, <1>b DEF g

\* cursor_up() from a line that is in the list no longer, to one that is.
LEMMA UpInto ==
    ASSUME NEW f, Fit(f), NEW t, Chain(f, t), \A k \in 1 .. Len(t) : Own(f, t[k]),
           In(t, f.line[f.currentl].prevl)
    PROVE  Stays(f, CursorUp(f), t)
<1> DEFINE id == f.line[f.currentl].prevl
           r == f.buffer_r - 1
           e == EnterLine(f, id, r)
           g == CursorUp(f)
<1>1. PICK k \in 1 .. Len(t) : id = t[k]  BY DEF In
<1>2. id \in LineId /\ id \in Link /\ Own(f, id)  BY <1>1, ChainFacts DEF Link
<1>3. r \in Int  BY FitFields
<1>4. Steady(f, e) /\ (~e.fault => e.currentl = id)  BY <1>2, <1>3, EnterSteady
<1>5. g = Check(f, Usable(f, f.currentl), e)  BY DEF CursorUp
<1> HIDE DEF e, g
<1>6. SameList(f, e)  BY <1>4 DEF Steady
<1>7. Chain(e, t)  BY <1>6, SameListChain
<1>8. \A j \in 1 .. Len(t) : Own(e, t[j])  BY <1>4, ChainFacts DEF Steady
<1>9. ~e.fault => Held(e, t)  BY <1>1, <1>4, <1>7, <1>8 DEF Held
<1> QED  BY <1>4, <1>5, <1>9, CheckCases DEF Stopped, Stays, g

\* A member taken out of a list without repetitions is the only one that goes.
LEMMA RemoveMembers ==
    ASSUME NEW S, NEW s \in Seq(S), NEW i \in 1 .. Len(s),
           \A j, k \in 1 .. Len(s) : s[j] = s[k] => j = k
    PROVE  \A id : In(RemoveAt(s, i), id) <=> In(s, id) /\ id # s[i]
<1> DEFINE t == RemoveAt(s, i)
<1>0. Len(s) \in Nat /\ i \in Nat  OBVIOUS
<1>1. Len(t) = Len(s) - 1
      /\ \A k \in 1 .. Len(s) - 1 : t[k] = IF k < i THEN s[k] ELSE s[k + 1]
      BY RemoveAtValue
<1> HIDE DEF t
<1>2. ASSUME NEW id, In(t, id) PROVE In(s, id) /\ id # s[i]
  <2>1. PICK k \in 1 .. Len(s) - 1 : t[k] = id  BY <1>1, <1>2 DEF In
  <2>2. CASE k < i
    <3>1. k \in 1 .. Len(s) /\ s[k] = id /\ k # i  BY <2>1, <2>2, <1>0, <1>1
    <3> QED  BY <3>1 DEF In
  <2>3. CASE ~(k < i)
    <3>1. PICK j \in 1 .. Len(s) : j = k + 1  BY <2>1, <1>0
    <3>2. s[j] = id /\ j # i  BY <3>1, <2>1, <2>3, <1>0, <1>1
    <3> QED  BY <3>2 DEF In
  <2> QED  BY <2>2, <2>3
<1>3. ASSUME NEW id, In(s, id), id # s[i] PROVE In(t, id)
  <2>1. PICK k \in 1 .. Len(s) : s[k] = id  BY <1>3 DEF In
  <2>2. k # i  BY <2>1, <1>3
  <2>3. CASE k < i
    <3>1. k \in 1 .. Len(t) /\ t[k] = id  BY <2>1, <2>3, <1>0, <1>1
    <3> QED  BY <3>1 DEF In
  <2>4. CASE k > i
    <3>1. PICK j \in 1 .. Len(s) - 1 : j = k - 1  BY <2>1, <2>4, <1>0
    <3>2. j \in 1 .. Len(t) /\ ~(j < i) /\ j + 1 = k  BY <3>1, <2>1, <2>4, <1>0, <1>1
    <3>3. t[j] = s[k]  BY <3>1, <3>2, <1>1
    <3> QED  BY <3>2, <3>3, <2>1 DEF In
  <2> QED  BY <2>2, <2>3, <2>4, <1>0
<1> QED  BY <1>2, <1>3 DEF t

\* From f to g the line id was taken out of the list s; the reference that the
\* list had to it is given up.
Shrinks(f, g, s, id) ==
    /\ Fit(g)
    /\ ~g.fault =>
          /\ ~f.fault /\ id \in LineId /\ g.alive = f.alive
          /\ f.line[id].refs > 0 /\ g.line[id].refs = f.line[id].refs - 1
          /\ \A j \in f.alive : /\ j # id => g.line[j].refs = f.line[j].refs
                                /\ Own(g, j) <=> Own(f, j)
          /\ \E t : Held(g, t) /\ \A j : In(t, j) <=> In(s, j) /\ j # id

\* What happens before without touching the list.
LEMMA SteadyShrinks ==
    ASSUME NEW f, NEW g, Steady(f, g), ~g.fault => ~f.fault,
           NEW h, NEW s, NEW id, Shrinks(g, h, s, id)
    PROVE  Shrinks(f, h, s, id)
<1>1. /\ Fit(g) /\ g.alive = f.alive
      /\ \A j \in LineId : g.line[j].refs = f.line[j].refs /\ (Own(g, j) <=> Own(f, j))
      BY DEF Steady, SameList
<1>2. g.alive \subseteq LineId  BY <1>1, FitFields
<1> QED  BY <1>1, <1>2 DEF Shrinks

\* What happens then without touching the list.
LEMMA ShrinksSteady ==
    ASSUME NEW f, Fit(f), NEW g, NEW s, NEW id, Shrinks(f, g, s, id), NEW h, Steady(g, h),
           h.currentl = g.currentl, ~h.fault => ~g.fault
    PROVE  Shrinks(f, h, s, id)
<1>1. Fit(h) /\ SameList(g, h) /\ \A j \in LineId : Own(h, j) <=> Own(g, j)  BY DEF Steady
<1>2. f.alive \subseteq LineId  BY FitFields
<1>3. ASSUME ~h.fault, NEW t, Held(g, t) PROVE Held(h, t)
  <2>1. \E k \in 1 .. Len(t) : h.currentl = t[k]  BY <1>3 DEF Held
  <2> QED  BY <2>1, <1>3, SteadyHeld
<1> QED  BY <1>1, <1>2, <1>3 DEF Shrinks, SameList

\* The end of cutl(): a reference less, and the column.
LEMMA ReleasedFit ==
    ASSUME NEW f, Fit(f), NEW id \in LineId, f.line[id].refs > 0, NEW c \in Nat
    PROVE  LET g == Released(f, id, c)
           IN  /\ Fit(g) /\ g.currentl = f.currentl /\ g.fault = f.fault
               /\ g.alive = f.alive /\ g.fresh = f.fresh
               /\ g.headl = f.headl /\ g.taill = f.taill
               /\ \A j \in LineId : /\ Own(g, j) <=> Own(f, j)
                                    /\ g.line[j].prevl = f.line[j].prevl
                                    /\ g.line[j].nextl = f.line[j].nextl
                                    /\ j # id => g.line[j].refs = f.line[j].refs
               /\ g.line[id].refs = f.line[id].refs - 1
<1> DEFINE r == f.line[id].refs - 1
           s == [f.line[id] EXCEPT !.refs = r]
           lines == [f.line EXCEPT ![id] = s]
           g == Released(f, id, c)
<1>0. /\ f \in LooseFrame /\ f.line \in [LineId -> LooseStruct] /\ f.line[id] \in LooseStruct
      /\ f.line[id].refs \in Nat /\ r \in Nat
      BY FitFields, LooseFields
<1>1. g = [f EXCEPT !.buffer_c = c, !.line = lines]
      BY <1>0 DEF Released, LooseFrame
<1>r. r = f.line[id].refs - 1  OBVIOUS
<1> HIDE DEF r
<1>2. /\ s \in LooseStruct /\ s.refs = r /\ s.sog = f.line[id].sog /\ s.eog = f.line[id].eog
      /\ s.size = f.line[id].size /\ s.data_n = f.line[id].data_n
      /\ s.data = f.line[id].data /\ s.prevl = f.line[id].prevl /\ s.nextl = f.line[id].nextl
      BY <1>0 DEF LooseStruct
<1> HIDE DEF s
<1>3. lines \in [LineId -> LooseStruct] /\ lines[id] = s
      /\ \A j \in LineId : j # id => lines[j] = f.line[j]
      BY <1>0, <1>2
<1> HIDE DEF lines, g
<1>4. /\ g \in LooseFrame /\ g.line = lines /\ g.bytes = f.bytes /\ g.alive = f.alive
      /\ g.fresh = f.fresh /\ g.headl = f.headl /\ g.taill = f.taill
      /\ g.currentl = f.currentl /\ g.fault = f.fault
      BY <1>0, <1>1, <1>3 DEF LooseFrame
<1>5. \A j \in LineId : /\ Own(g, j) <=> Own(f, j)
                        /\ View(g, j) = View(f, j)
                        /\ g.line[j].prevl = f.line[j].prevl
                        /\ g.line[j].nextl = f.line[j].nextl
                        /\ j # id => g.line[j].refs = f.line[j].refs
  <2> TAKE j \in LineId
  <2>1. CASE j = id  BY <2>1, <1>2, <1>3, <1>4 DEF Own, View
  <2>2. CASE j # id  BY <2>2, <1>3, <1>4 DEF Own, View
  <2> QED  BY <2>1, <2>2
<1>6. Fit(g)  BY <1>4, <1>5 DEF Fit
<1> QED  BY <1>2, <1>3, <1>4, <1>5, <1>6, <1>r DEF g

\* cutl() of the current line, which is not the only one.
LEMMA CutShrinks ==
    ASSUME NEW f, Fit(f), ~f.fault, NEW s, Held(f, s), CutlReturns(f) # "NONE_DELETED"
    PROVE  Shrinks(f, Cutl(f), s, f.currentl)
<1> DEFINE line == f.currentl
           before == f.line[line].prevl
           after == f.line[line].nextl
           d == Detached(f)
           u == Unlink(f)
           h == LeaveScroll(u, line)
           c == Clamp(h, h.currentl)
           g == Cutl(f)
<1>1. PICK k \in 1 .. Len(s) :
         /\ k \in Nat /\ line = s[k]
         /\ after = IF k = Len(s) THEN NULL ELSE s[k + 1]
         /\ before = IF k = 1 THEN NULL ELSE s[k - 1]
      BY HeldFields
<1>2. /\ before \in Link /\ after \in Link /\ line \in LineId
      /\ before # NULL => In(s, before) /\ before # line
      /\ before # NULL \/ after # NULL
  <2>1. before \in Link /\ after \in Link /\ line \in LineId  BY Neighbours, HeldFields
  <2>2. before # NULL \/ after # NULL
        BY NULLAssumption DEF CutlReturns
  <2>3. ASSUME before # NULL PROVE In(s, before) /\ before # line
    <3>1. k # 1 /\ before = s[k - 1] /\ k - 1 \in 1 .. Len(s) /\ k - 1 # k
          BY <1>1, <2>3
    <3>2. s[k - 1] # s[k]  BY <3>1, <1>1 DEF Held, Chain
    <3> QED  BY <3>1, <3>2, <1>1 DEF In
  <2> QED  BY <2>1, <2>2, <2>3
<1>3. /\ Fit(d) /\ TakenOut(f, d, line) /\ d.fault = f.fault
      /\ d.currentl = IF after = NULL THEN line ELSE after
      /\ \A j \in LineId : (Own(d, j) <=> Own(f, j)) /\ d.line[j].refs = f.line[j].refs
      /\ u = IF after = NULL THEN CursorUp(d) ELSE d
      BY <1>2, DetachFit
<1> DEFINE t == RemoveAt(s, k)
<1>4. /\ Chain(f, s) /\ s \in Seq(LineId) /\ Len(s) \in Nat /\ f.fresh \in Int
      /\ \A i, j \in 1 .. Len(s) : s[i] = s[j] => i = j
      /\ \A j \in 1 .. Len(s) : s[j] \in LineId /\ Own(f, s[j])
      BY FitFields, ChainFacts DEF Held, Chain
<1>5. Len(s) >= 2
  <2>1. k # 1 \/ k # Len(s)  BY <1>1, <1>2
  <2> QED  BY <2>1, <1>1, <1>4
<1>6. Chain(d, t)  BY <1>1, <1>3, <1>4, <1>5, ChainRemove
<1>7. \A j : In(t, j) <=> In(s, j) /\ j # line  BY <1>1, <1>4, RemoveMembers
<1> HIDE DEF d, t, u
<1>8. \A j \in 1 .. Len(t) : Own(d, t[j])
  <2> TAKE j \in 1 .. Len(t)
  <2>1. In(s, t[j])  BY <1>7 DEF In
  <2>2. PICK i \in 1 .. Len(s) : s[i] = t[j]  BY <2>1 DEF In
  <2> QED  BY <2>2, <1>3, <1>4
<1>9. Stays(d, u, t)
  <2>1. CASE after = NULL
    <3>1. before # NULL /\ In(t, before)  BY <2>1, <1>2, <1>7
    <3>2. d.line[line].prevl = before
          BY <2>1, <1>2, <1>3, NULLAssumption DEF TakenOut
    <3>3. In(t, d.line[d.currentl].prevl)  BY <2>1, <3>1, <3>2, <1>3
    <3> QED  BY <2>1, <3>3, <1>3, <1>6, <1>8, UpInto
  <2>2. CASE after # NULL
    <3>1. k + 1 \in 1 .. Len(s) /\ after = s[k + 1]  BY <2>2, <1>1, <1>4
    <3>2. after # line  BY <3>1, <1>1, <1>4
    <3>3. In(t, after)  BY <3>1, <3>2, <1>7 DEF In
    <3>4. Held(d, t)  BY <2>2, <3>3, <1>3, <1>6, <1>8 DEF Held, In
    <3>5. Steady(d, d)  BY <1>3, SteadyReflexive
    <3> QED  BY <2>2, <3>4, <3>5, <1>3 DEF Stays
  <2> QED  BY <2>1, <2>2
<1>10. Stays(d, h, t)
  <2>1. CASE u.scroll # line
    <3>1. h = u  BY <2>1 DEF LeaveScroll
    <3> QED  BY <3>1, <1>9
  <2>2. CASE u.scroll = line
    <3> DEFINE up == u.line[line].prevl
               r == u.scroll_r - 1
               e == Scrolled(u, up, r)
    <3>1. h = CursorUp(e)  BY <2>2 DEF LeaveScroll, Scrolled
    <3>2. Fit(u)  BY <1>9 DEF Stays, Steady
    <3>3. up \in Link /\ r \in Int  BY <3>2, <1>2, LooseFields, FitFields
    <3> HIDE DEF up, r
    <3>4. Steady(u, e) /\ e.currentl = u.currentl /\ e.fault = u.fault
          BY <3>2, <3>3, ScrolledSteady DEF SameCursor
    <3> HIDE DEF e, h
    <3>5. Stays(u, e, t)  BY <3>4, <1>9, SameLineStays DEF Stays
    <3>6. Fit(e) /\ (~e.fault => Held(e, t))  BY <3>4, <3>5 DEF Stays, Steady
    <3>7. Stays(e, h, t)  BY <3>1, <3>6, UpDownStays
    <3>8. Steady(d, u)  BY <1>9 DEF Stays
    <3>9. Steady(d, e)  BY <3>4, <3>8, SteadyTransitive
    <3> QED  BY <3>7, <3>9, StaysTransitive
  <2> QED  BY <2>1, <2>2
<1> HIDE DEF h
<1>11. /\ Fit(h) /\ h.alive = f.alive /\ (~h.fault => Held(h, t))
       /\ \A j \in LineId : (Own(h, j) <=> Own(f, j)) /\ h.line[j].refs = f.line[j].refs
       BY <1>3, <1>10 DEF Stays, Steady, SameList, TakenOut
<1>12. c \in Nat
  <2>1. h.currentl \in LineId /\ h.buffer_c \in Nat  BY <1>11, FitFields
  <2>2. h.line[h.currentl].data_n \in Nat  BY <1>11, <2>1, LooseFields
  <2> QED  BY <2>1, <2>2 DEF Clamp
<1> DEFINE e == Released(h, line, c)
           m == Check(h, h.line[line].refs > 0, e)
<1>13. g = Check(f, Usable(f, line), m)  BY DEF Cutl, Released, h, u
<1>14. ASSUME h.line[line].refs > 0, ~h.fault PROVE Shrinks(f, e, s, line)
  <2> HIDE DEF c
  <2>1. /\ Fit(e) /\ e.currentl = h.currentl /\ e.fault = h.fault
        /\ e.alive = h.alive /\ e.fresh = h.fresh
        /\ e.headl = h.headl /\ e.taill = h.taill
        /\ \A j \in LineId : /\ Own(e, j) <=> Own(h, j)
                             /\ e.line[j].prevl = h.line[j].prevl
                             /\ e.line[j].nextl = h.line[j].nextl
                             /\ j # line => e.line[j].refs = h.line[j].refs
        /\ e.line[line].refs = h.line[line].refs - 1
        BY <1>2, <1>11, <1>12, <1>14, ReleasedFit
  <2> HIDE DEF e
  <2>2. Held(h, t) /\ Chain(h, t)  BY <1>11, <1>14 DEF Held
  <2>3. \A j \in 1 .. Len(t) : t[j] \in LineId  BY <2>2, ChainFacts
  <2>4. Chain(e, t)
    <3>1. \A j \in 1 .. Len(t) : /\ e.line[t[j]].nextl = h.line[t[j]].nextl
                                 /\ e.line[t[j]].prevl = h.line[t[j]].prevl
          BY <2>1, <2>3
    <3>2. e.alive = h.alive /\ e.fresh = h.fresh /\ e.headl = h.headl /\ e.taill = h.taill
          BY <2>1
    <3>3. Chain(h, t)  BY <2>2
    <3> QED  BY <3>1, <3>2, <3>3 DEF Chain
  <2>5. Held(e, t)  BY <2>1, <2>2, <2>3, <2>4 DEF Held
  <2>6. f.alive \subseteq LineId  BY FitFields
  <2>7. /\ e.alive = f.alive /\ f.line[line].refs > 0
        /\ e.line[line].refs = f.line[line].refs - 1
        /\ \A j \in f.alive : /\ j # line => e.line[j].refs = f.line[j].refs
                              /\ Own(e, j) <=> Own(f, j)
        BY <2>1, <2>6, <1>2, <1>11, <1>14
  <2> QED  BY <2>1, <2>5, <2>7, <1>2, <1>7 DEF Shrinks
<1> HIDE DEF e, m, g
<1>15. (Shrinks(f, m, s, line) \/ (m.fault /\ Fit(m)))
       BY <1>11, <1>14, CheckCases DEF m, Stopped, Steady
<1>16. Shrinks(f, m, s, line)  BY <1>15 DEF Shrinks
<1>17. \/ g = m
       \/ g.fault /\ Fit(g)
       BY <1>13, CheckCases DEF Stopped, Steady
<1> QED  BY <1>16, <1>17 DEF Shrinks, g

\* merge_lines_up() of the current line, which is not the first.
LEMMA MergeShrinks ==
    ASSUME NEW f, Fit(f), ~f.fault, NEW s, Held(f, s), f.line[f.currentl].prevl # NULL,
           NEW moves
    PROVE  Shrinks(f, MergeLinesUp(f, f.currentl, moves), s, f.currentl)
<1> DEFINE lower == f.currentl
           upper == f.line[lower].prevl
           n == f.line[upper].data_n
           p == [f EXCEPT !.currentl = upper, !.buffer_c = n]
           ready == MoveGapToCursor(p)
           txt == Text(View(f, lower))
           from == IF ready.fault THEN ready ELSE [ready EXCEPT !.currentl = lower]
           moved == InsertText(from, upper, txt, moves)
           full == IF f.line[lower].data_n # 0 THEN Check(f, Readable(f, lower), moved) ELSE f
           t == full.line[upper].data_n - full.line[lower].data_n
           cut == Cutl(full)
           inner == Check(cut, TRUE, [cut EXCEPT !.buffer_c = t])
           body == Check(full, t >= 0, inner)
           g == MergeLinesUp(f, lower, moves)
<1>0. /\ lower \in LineId /\ Own(f, lower) /\ upper \in LineId /\ Own(f, upper)
      /\ Shaped(View(f, lower)) /\ f.buffer_r \in Int
      BY HeldFields, Neighbours, FitFields, OwnFields
<1>1. g = Check(f, Usable(f, lower) /\ Usable(f, upper), body)
      BY DEF MergeLinesUp
<1>2. txt \in Seq(Byte)  BY <1>0, TextOfShaped
<1>3. n \in Nat  BY <1>0, LooseFields
<1> HIDE DEF txt, n
<1>4. Steady(f, p) /\ p.currentl = upper
  <2>1. f \in LooseFrame  BY DEF Fit
  <2>2. p = Placed(f, upper, f.buffer_r, n)  BY <2>1 DEF Placed, LooseFrame
  <2> HIDE DEF p
  <2> QED  BY <2>2, <1>0, <1>3, PlacedSteady
<1> HIDE DEF p
<1>5. Fit(p) /\ Own(p, p.currentl)  BY <1>0, <1>4 DEF Steady
<1>6. Steady(f, ready)  BY <1>4, <1>5, MoveGapSteady, SteadyTransitive
<1> HIDE DEF ready
<1>7. Steady(f, from) /\ (~from.fault => from.currentl = lower)
  <2>1. CASE ready.fault  BY <2>1, <1>6
  <2>2. CASE ~ready.fault
    <3> DEFINE e == [ready EXCEPT !.currentl = lower]
    <3>1. Fit(ready) /\ ready \in LooseFrame  BY <1>6 DEF Steady, Fit
    <3>2. /\ e \in LooseFrame /\ e.line = ready.line /\ e.bytes = ready.bytes
          /\ e.alive = ready.alive /\ e.fresh = ready.fresh /\ e.headl = ready.headl
          /\ e.taill = ready.taill /\ e.currentl = lower
          BY <3>1, <1>0 DEF LooseFrame
    <3> HIDE DEF e
    <3>3. Steady(ready, e)  BY <3>1, <3>2, SteadyFields
    <3>4. from = e  BY <2>2 DEF e
    <3> QED  BY <3>2, <3>3, <3>4, <1>6, SteadyTransitive
  <2> QED  BY <2>1, <2>2
<1> HIDE DEF from
<1>8. Fit(from) /\ Own(from, upper)  BY <1>0, <1>7 DEF Steady
<1>9. Steady(f, moved) /\ (~moved.fault => moved.currentl = lower)
  <2>1. Steady(from, moved) /\ moved.currentl = from.currentl /\ (~moved.fault => ~from.fault)
        BY <1>0, <1>2, <1>8, TextSteady
  <2> QED  BY <2>1, <1>7, SteadyTransitive
<1> HIDE DEF moved
<1>10. Steady(f, full) /\ (~full.fault => full.currentl = lower)
  <2>1. Steady(f, f)  BY SteadyReflexive
  <2> QED  BY <2>1, <1>9, CheckCases DEF Stopped
<1> HIDE DEF full
<1>11. Fit(full)  BY <1>10 DEF Steady
<1>12. ~full.fault => Shrinks(full, cut, s, lower)
  <2> SUFFICES ASSUME ~full.fault PROVE Shrinks(full, cut, s, lower)  OBVIOUS
  <2>1. full.currentl = f.currentl  BY <1>10
  <2>2. Held(full, s)  BY <2>1, <1>10, SteadyHeld DEF Held
  <2>3. full.line[lower].prevl = upper  BY <1>0, <1>10 DEF Steady, SameList
  <2>4. CutlReturns(full) # "NONE_DELETED"  BY <2>1, <2>3 DEF CutlReturns
  <2> QED  BY <2>1, <2>2, <2>4, <1>11, CutShrinks
<1> HIDE DEF cut
<1>13. ~full.fault /\ t >= 0 => Shrinks(full, inner, s, lower)
  <2> SUFFICES ASSUME ~full.fault, t >= 0 PROVE Shrinks(full, inner, s, lower)  OBVIOUS
  <2>1. Fit(cut)  BY <1>12 DEF Shrinks
  <2>2. t \in Nat
    <3>1. full.line[upper].data_n \in Nat /\ full.line[lower].data_n \in Nat
          BY <1>0, <1>11, LooseFields
    <3> QED  BY <3>1
  <2> HIDE DEF t
  <2> DEFINE e == [cut EXCEPT !.buffer_c = t]
  <2>3. cut \in LooseFrame  BY <2>1 DEF Fit
  <2>4. /\ e \in LooseFrame /\ e.line = cut.line /\ e.bytes = cut.bytes
        /\ e.alive = cut.alive /\ e.fresh = cut.fresh /\ e.headl = cut.headl
        /\ e.taill = cut.taill /\ e.currentl = cut.currentl /\ e.fault = cut.fault
        BY <2>2, <2>3 DEF LooseFrame
  <2>5. inner = Check(cut, TRUE, e)  OBVIOUS
  <2> HIDE DEF e, inner
  <2>6. Steady(cut, e)  BY <2>1, <2>4, SteadyFields
  <2>7. Steady(cut, inner) /\ inner.currentl = cut.currentl /\ (~inner.fault => ~cut.fault)
    <3>1. CASE cut.fault
      <4>1. inner = cut  BY <3>1, <2>5, FaultStays
      <4> QED  BY <4>1, <3>1, <2>1, SteadyReflexive
    <3>2. CASE ~cut.fault
      <4>1. inner = e  BY <3>2, <2>5 DEF Check
      <4> QED  BY <4>1, <3>2, <2>4, <2>6
    <3> QED  BY <3>1, <3>2
  <2> QED  BY <2>7, <1>11, <1>12, ShrinksSteady
<1> HIDE DEF t, inner, body, g
<1>14. \/ Shrinks(f, body, s, lower)
       \/ body.fault /\ Fit(body)
  <2>1. \/ ~full.fault /\ t >= 0 /\ body = inner
        \/ Stopped(full, body)
        BY <1>11, CheckCases DEF body
  <2>2. ~full.fault => ~f.fault  OBVIOUS
  <2>3. CASE ~full.fault /\ t >= 0 /\ body = inner
        BY <2>3, <1>10, <1>13, SteadyShrinks
  <2>4. CASE Stopped(full, body)  BY <2>4 DEF Stopped, Steady
  <2> QED  BY <2>1, <2>3, <2>4
<1>15. \/ g = body
       \/ g.fault /\ Fit(g)
       BY <1>1, CheckCases DEF Stopped, Steady
<1> QED  BY <1>14, <1>15 DEF Shrinks, g

\* DEL at column 0.
LEMMA JoinShrinks ==
    ASSUME NEW f, Fit(f), ~f.fault, NEW s, Held(f, s), f.currentl # f.headl, NEW moves
    PROVE  Shrinks(f, JoinLine(f, moves), s, f.currentl)
<1> DEFINE m == MergeLinesUp(f, f.currentl, moves)
           g == MoveGapToCursor(m)
<1>1. f.line[f.currentl].prevl # NULL
  <2>1. PICK k \in 1 .. Len(s) :
           /\ k \in Nat /\ f.currentl = s[k]
           /\ f.line[f.currentl].prevl = IF k = 1 THEN NULL ELSE s[k - 1]
        BY HeldFields
  <2>2. s[1] = f.headl /\ Len(s) \in Nat /\ \A j \in 1 .. Len(s) : s[j] # NULL
    <3>1. Chain(f, s)  BY DEF Held
    <3>2. s[1] = f.headl  BY <3>1 DEF Chain
    <3> QED  BY <3>1, <3>2, ChainFacts
  <2>3. k # 1 /\ k - 1 \in 1 .. Len(s)  BY <2>1, <2>2
  <2> QED  BY <2>1, <2>2, <2>3
<1>2. Shrinks(f, m, s, f.currentl)  BY <1>1, MergeShrinks
<1>3. JoinLine(f, moves) = g  BY DEF JoinLine
<1> HIDE DEF m
<1>4. Fit(m)  BY <1>2 DEF Shrinks
<1>5. ASSUME m.fault PROVE g = m
      BY <1>5, FaultStays DEF MoveGapToCursor
<1>6. ASSUME ~m.fault PROVE Steady(m, g) /\ g.currentl = m.currentl
  <2>1. PICK t : Held(m, t)  BY <1>2, <1>6 DEF Shrinks
  <2>2. Own(m, m.currentl)  BY <2>1, HeldFields
  <2> QED  BY <2>2, <1>4, MoveGapSteady DEF SameCursor
<1> HIDE DEF g
<1>7. CASE m.fault  BY <1>2, <1>3, <1>5, <1>7
<1>8. CASE ~m.fault
      BY <1>2, <1>3, <1>6, <1>8, ShrinksSteady
<1> QED  BY <1>7, <1>8

-----------------------------------------------------------------------------
(* The places that hold a line *)

One(p) == IF p THEN 1 ELSE 0

\* The slots of I whose records hold the line id.
HeldBy(b, I, id) == {i \in I : b[i].dptr = id}

\* A record holds no line, or one that is not freed; and a line has a reference
\* for every record that holds it, for the list, and for the bytes it borrowed.
Accounted(f, s, b, I) ==
    /\ \A i \in I : b[i].dptr \in f.alive \cup {NULL}
    /\ \A id \in f.alive :
          f.line[id].refs >= Cardinality(HeldBy(b, I, id)) + One(In(s, id)) + One(~Own(f, id))

\* The lines of f, held by its list and by the records of I.
Kept(f, b, I) == \E s : Held(f, s) /\ Accounted(f, s, b, I)

\* Numbers of records are numbers.
LEMMA HeldByFinite ==
    ASSUME NEW b, NEW I, I \subseteq Slots, NEW id
    PROVE  IsFiniteSet(HeldBy(b, I, id)) /\ Cardinality(HeldBy(b, I, id)) \in Nat
<1>1. IsFiniteSet(Slots)  BY HistorySizeAssumption, FS_Interval DEF Slots
<1>2. HeldBy(b, I, id) \subseteq Slots  BY DEF HeldBy
<1> QED  BY <1>1, <1>2, FS_Subset, FS_CardinalityType

\* Fewer records are held by fewer.
LEMMA HeldByFewer ==
    ASSUME NEW b, NEW I, I \subseteq Slots, NEW i \in I, NEW id
    PROVE  Cardinality(HeldBy(b, I, id)) =
              Cardinality(HeldBy(b, I \ {i}, id)) + One(b[i].dptr = id)
<1> DEFINE more == HeldBy(b, I, id)
           less == HeldBy(b, I \ {i}, id)
<1>1. IsFiniteSet(less) /\ Cardinality(less) \in Nat /\ IsFiniteSet(more)
  <2>1. I \ {i} \subseteq Slots  OBVIOUS
  <2> QED  BY <2>1, HeldByFinite
<1>2. CASE b[i].dptr = id
  <2>1. more = less \cup {i} /\ i \notin less  BY <1>2 DEF HeldBy
  <2>2. Cardinality(less \cup {i}) = Cardinality(less) + 1  BY <1>1, <2>1, FS_AddElement
  <2> QED  BY <1>2, <2>1, <2>2 DEF One
<1>3. CASE b[i].dptr # id
  <2>1. more = less  BY <1>3 DEF HeldBy
  <2> QED  BY <1>1, <1>3, <2>1 DEF One
<1> QED  BY <1>2, <1>3

\* Other records in the slots outside of I change nothing.
LEMMA HeldBySame ==
    ASSUME NEW b, NEW I, NEW d, \A i \in I : d[i].dptr = b[i].dptr, NEW id
    PROVE  HeldBy(d, I, id) = HeldBy(b, I, id)
BY DEF HeldBy

\* Where links, references and what is allocated stay, the account does.
LEMMA SteadyAccounted ==
    ASSUME NEW f, Fit(f), NEW g, Steady(f, g), NEW s, NEW b, NEW I, Accounted(f, s, b, I)
    PROVE  Accounted(g, s, b, I)
<1>1. g.alive = f.alive
      /\ \A id \in LineId : g.line[id].refs = f.line[id].refs /\ (Own(g, id) <=> Own(f, id))
      BY DEF Steady, SameList
<1>2. f.alive \subseteq LineId  BY FitFields
<1> QED  BY <1>1, <1>2 DEF Accounted

\* Steps that leave the list alone ...
LEMMA StaysKept ==
    ASSUME NEW f, Fit(f), NEW b, NEW I, Kept(f, b, I), NEW g, ~g.fault,
           \A s : Held(f, s) => Stays(f, g, s)
    PROVE  Kept(g, b, I)
<1>1. PICK s : Held(f, s) /\ Accounted(f, s, b, I)  BY DEF Kept
<1>2. Steady(f, g) /\ Held(g, s)  BY <1>1 DEF Stays
<1>3. Accounted(g, s, b, I)  BY <1>1, <1>2, SteadyAccounted
<1> QED  BY <1>2, <1>3 DEF Kept

\* ... or make it longer ...
LEMMA GrowsKept ==
    ASSUME NEW f, Fit(f), NEW b, NEW I, I \subseteq Slots, Kept(f, b, I), NEW g, ~g.fault,
           \A s : Held(f, s) => Grows(f, g, s)
    PROVE  Kept(g, b, I)
<1> DEFINE n == f.fresh
<1>1. PICK s : Held(f, s) /\ Accounted(f, s, b, I)  BY DEF Kept
<1>2. Grows(f, g, s)  BY <1>1
<1>3. PICK t : Held(g, t) /\ \A id : In(t, id) <=> In(s, id) \/ id = n
      BY <1>2 DEF Grows
<1>4. /\ n \in LineId /\ n \notin f.alive
      /\ g.alive = f.alive \cup {n} /\ g.line[n].refs = 1 /\ Own(g, n)
      /\ \A id \in f.alive : /\ g.line[id].refs = f.line[id].refs
                             /\ Own(g, id) <=> Own(f, id)
      BY <1>2 DEF Grows
<1>5. \A i \in I : b[i].dptr \in f.alive \cup {NULL}  BY <1>1 DEF Accounted
<1>6. ASSUME NEW id \in g.alive
      PROVE  g.line[id].refs >= Cardinality(HeldBy(b, I, id)) + One(In(t, id)) + One(~Own(g, id))
  <2>1. CASE id = n
    <3>1. HeldBy(b, I, id) = {}  BY <2>1, <1>4, <1>5, NULLAssumption DEF HeldBy
    <3>2. Cardinality({}) = 0  BY FS_EmptySet
    <3>3. One(In(t, id)) = 1 /\ One(~Own(g, id)) = 0  BY <2>1, <1>3, <1>4 DEF One
    <3> QED  BY <2>1, <3>1, <3>2, <3>3, <1>4
  <2>2. CASE id # n
    <3>1. id \in f.alive  BY <2>2, <1>4
    <3>2. One(In(t, id)) = One(In(s, id)) /\ One(~Own(g, id)) = One(~Own(f, id))
          BY <2>2, <3>1, <1>3, <1>4 DEF One
    <3> QED  BY <3>1, <3>2, <1>1, <1>4 DEF Accounted
  <2> QED  BY <2>1, <2>2
<1>7. Accounted(g, t, b, I)  BY <1>4, <1>5, <1>6 DEF Accounted
<1> QED  BY <1>3, <1>7 DEF Kept

\* ... or shorter keep the account.
LEMMA ShrinksKept ==
    ASSUME NEW f, Fit(f), NEW b, NEW I, I \subseteq Slots, Kept(f, b, I), NEW g, ~g.fault,
           NEW line, \A s : Held(f, s) => Shrinks(f, g, s, line) /\ In(s, line)
    PROVE  Kept(g, b, I)
<1>1. PICK s : Held(f, s) /\ Accounted(f, s, b, I)  BY DEF Kept
<1>2. Shrinks(f, g, s, line) /\ In(s, line)  BY <1>1
<1>3. PICK t : Held(g, t) /\ \A id : In(t, id) <=> In(s, id) /\ id # line
      BY <1>2 DEF Shrinks
<1>4. /\ line \in LineId /\ g.alive = f.alive
      /\ f.line[line].refs > 0 /\ g.line[line].refs = f.line[line].refs - 1
      /\ \A id \in f.alive : /\ id # line => g.line[id].refs = f.line[id].refs
                             /\ Own(g, id) <=> Own(f, id)
      BY <1>2 DEF Shrinks
<1>5. \A i \in I : b[i].dptr \in g.alive \cup {NULL}  BY <1>1, <1>4 DEF Accounted
<1>6. ASSUME NEW id \in g.alive
      PROVE  g.line[id].refs >= Cardinality(HeldBy(b, I, id)) + One(In(t, id)) + One(~Own(g, id))
  <2>1. /\ id \in f.alive /\ One(~Own(g, id)) = One(~Own(f, id))
        /\ f.line[id].refs >= Cardinality(HeldBy(b, I, id)) + One(In(s, id)) + One(~Own(f, id))
        BY <1>1, <1>4 DEF Accounted, One
  <2>2. /\ Cardinality(HeldBy(b, I, id)) \in Nat /\ One(~Own(f, id)) \in Nat
        /\ f.line[id].refs \in Nat
    <3>1. id \in LineId  BY <2>1, FitFields
    <3> QED  BY <3>1, HeldByFinite, LooseFields DEF One
  <2>3. CASE id = line
    <3>1. One(In(t, id)) = 0 /\ One(In(s, id)) = 1  BY <2>3, <1>2, <1>3 DEF One
    <3> QED  BY <2>1, <2>2, <2>3, <3>1, <1>4
  <2>4. CASE id # line
    <3>1. One(In(t, id)) = One(In(s, id))  BY <2>4, <1>3 DEF One
    <3> QED  BY <2>1, <2>4, <3>1, <1>4
  <2> QED  BY <2>3, <2>4
<1>7. Accounted(g, t, b, I)  BY <1>5, <1>6 DEF Accounted
<1> QED  BY <1>3, <1>7 DEF Kept

\* g is f with r references of the line.
Recounted(f, g, id, r) ==
    /\ Fit(g) /\ g.currentl = f.currentl /\ g.fault = f.fault
    /\ g.alive = f.alive /\ g.fresh = f.fresh
    /\ g.headl = f.headl /\ g.taill = f.taill
    /\ \A j \in LineId : /\ Own(g, j) <=> Own(f, j)
                         /\ g.line[j].prevl = f.line[j].prevl
                         /\ g.line[j].nextl = f.line[j].nextl
                         /\ j # id => g.line[j].refs = f.line[j].refs
    /\ g.line[id].refs = r

\* A reference more, or less.
LEMMA RefsFit ==
    ASSUME NEW f, Fit(f), NEW id \in LineId, NEW r \in Nat
    PROVE  Recounted(f, [f EXCEPT !.line[id].refs = r], id, r)
<1> DEFINE s == [f.line[id] EXCEPT !.refs = r]
           lines == [f.line EXCEPT ![id] = s]
           g == [f EXCEPT !.line[id].refs = r]
<1>0. /\ f \in LooseFrame /\ f.line \in [LineId -> LooseStruct] /\ f.line[id] \in LooseStruct
      BY FitFields, LooseFields
<1>1. g = [f EXCEPT !.line = lines]  BY <1>0 DEF LooseFrame
<1>2. /\ s \in LooseStruct /\ s.refs = r /\ s.sog = f.line[id].sog /\ s.eog = f.line[id].eog
      /\ s.size = f.line[id].size /\ s.data_n = f.line[id].data_n
      /\ s.data = f.line[id].data /\ s.prevl = f.line[id].prevl /\ s.nextl = f.line[id].nextl
      BY <1>0 DEF LooseStruct
<1> HIDE DEF s
<1>3. lines \in [LineId -> LooseStruct] /\ lines[id] = s
      /\ \A j \in LineId : j # id => lines[j] = f.line[j]
      BY <1>0, <1>2
<1> HIDE DEF lines, g
<1>4. /\ g \in LooseFrame /\ g.line = lines /\ g.bytes = f.bytes /\ g.alive = f.alive
      /\ g.fresh = f.fresh /\ g.headl = f.headl /\ g.taill = f.taill
      /\ g.currentl = f.currentl /\ g.fault = f.fault
      BY <1>0, <1>1, <1>3 DEF LooseFrame
<1>5. \A j \in LineId : /\ Own(g, j) <=> Own(f, j)
                        /\ View(g, j) = View(f, j)
                        /\ g.line[j].prevl = f.line[j].prevl
                        /\ g.line[j].nextl = f.line[j].nextl
                        /\ j # id => g.line[j].refs = f.line[j].refs
  <2> TAKE j \in LineId
  <2>1. CASE j = id  BY <2>1, <1>2, <1>3, <1>4 DEF Own, View
  <2>2. CASE j # id  BY <2>2, <1>3, <1>4 DEF Own, View
  <2> QED  BY <2>1, <2>2
<1>6. Fit(g)  BY <1>4, <1>5 DEF Fit
<1>7. Recounted(f, g, id, r)  BY <1>2, <1>3, <1>4, <1>5, <1>6 DEF Recounted
<1> QED  BY <1>7 DEF g

\* free_line() of a line with bytes of its own.
LEMMA FreeFit ==
    ASSUME NEW f, Fit(f), ~f.fault, NEW id \in f.alive, Own(f, id)
    PROVE  LET g == FreeLine(f, id)
           IN  /\ Fit(g) /\ g.currentl = f.currentl /\ ~g.fault
               /\ g.alive = f.alive \ {id} /\ g.fresh = f.fresh
               /\ g.headl = f.headl /\ g.taill = f.taill
               /\ \A j \in LineId : j # id =>
                     /\ Own(g, j) <=> Own(f, j)
                     /\ g.line[j].prevl = f.line[j].prevl
                     /\ g.line[j].nextl = f.line[j].nextl
                     /\ g.line[j].refs = f.line[j].refs
<1> DEFINE a == Abandon(f, id)
           struct == NewStruct(id)
           lines == [a.line EXCEPT ![id] = struct]
           arrays == [a.bytes EXCEPT ![id] = EmptyLine.data]
           alive == a.alive \ {id}
           body == [a EXCEPT !.bytes = arrays, !.line = lines, !.alive = alive]
           g == FreeLine(f, id)
<1>0. id \in LineId /\ Readable(f, id) /\ f.line[id].data = id
  <2>1. id \in LineId  BY FitFields
  <2> QED  BY <2>1, OwnFields DEF Own
<1>1. /\ Steady(f, a) /\ SameCursor(f, a) /\ a.fault = f.fault /\ a.bytes = f.bytes
      /\ \A j \in LineId : Own(a, j) => a.line[j] = f.line[j]
      BY <1>0, AbandonSteady
<1>2. /\ Fit(a) /\ a \in LooseFrame /\ a.line \in [LineId -> LooseStruct]
      /\ a.bytes \in [LineId -> ByteArray] /\ a.alive = f.alive /\ a.fresh = f.fresh
      /\ a.headl = f.headl /\ a.taill = f.taill /\ a.currentl = f.currentl
      /\ f.alive \subseteq LineId
      /\ \A j \in LineId : /\ Own(a, j) <=> Own(f, j)
                           /\ a.line[j].prevl = f.line[j].prevl
                           /\ a.line[j].nextl = f.line[j].nextl
                           /\ a.line[j].refs = f.line[j].refs
  <2>1. Fit(a) /\ SameList(f, a) /\ \A j \in LineId : Own(a, j) <=> Own(f, j)
        BY <1>1 DEF Steady
  <2> HIDE DEF a
  <2> QED  BY <2>1, <1>1, FitFields DEF SameList, SameCursor
<1>3. g = body
      BY <1>0, <1>2 DEF FreeLine, Check, LooseFrame
<1> HIDE DEF a
<1>a. Shaped(EmptyLine)  BY EmptyLineGood, GoodIsShaped
<1>b. InitGapSize \in Nat /\ InitGapSize >= 2  BY InitGapSizeAssumption
<1>4. /\ struct \in LooseStruct /\ struct.data = id
      /\ struct.sog = 0 /\ struct.eog = InitGapSize - 1 /\ struct.size = InitGapSize + 1
      /\ struct.data_n = 0
      BY <1>0, <1>b DEF NewStruct, LooseStruct, Link
<1>5. /\ EmptyLine.data \in ByteArray
      /\ EmptyLine = Line(0, InitGapSize - 1, InitGapSize + 1, 0, EmptyLine.data)
  <2>1. EmptyLine.data \in [0 .. EmptyLine.size - 1 -> Byte] /\ EmptyLine.size \in Nat
        BY <1>a, ShapedFields
  <2>2. EmptyLine.data \in ByteArray  BY <2>1 DEF ByteArray
  <2> QED  BY <2>2 DEF EmptyLine, Line
<1> HIDE DEF struct
<1>6. lines \in [LineId -> LooseStruct] /\ lines[id] = struct
      /\ \A j \in LineId : j # id => lines[j] = a.line[j]
      BY <1>0, <1>2, <1>4
<1>7. arrays \in [LineId -> ByteArray] /\ arrays[id] = EmptyLine.data
      /\ \A j \in LineId : j # id => arrays[j] = a.bytes[j]
      BY <1>0, <1>2, <1>5
<1>8. alive \in SUBSET LineId /\ alive = f.alive \ {id} /\ alive \subseteq 1 .. f.fresh - 1
      BY <1>2 DEF Fit
<1> HIDE DEF lines, arrays, alive, g
<1>9. /\ g \in LooseFrame /\ g.line = lines /\ g.bytes = arrays /\ g.alive = alive
      /\ g.fresh = f.fresh /\ g.headl = f.headl /\ g.taill = f.taill
      /\ g.currentl = f.currentl /\ g.fault = a.fault
      BY <1>2, <1>3, <1>6, <1>7, <1>8 DEF LooseFrame
<1>10. View(g, id) = EmptyLine  BY <1>4, <1>5, <1>6, <1>7, <1>9 DEF View
<1>11. ASSUME NEW j \in LineId, j # id
       PROVE  /\ Own(g, j) <=> Own(a, j)
              /\ Own(g, j) => View(g, j) = View(a, j)
              /\ g.line[j].prevl = f.line[j].prevl
              /\ g.line[j].nextl = f.line[j].nextl
              /\ g.line[j].refs = f.line[j].refs
  <2>1. g.line[j] = a.line[j] /\ g.bytes[j] = a.bytes[j]  BY <1>6, <1>7, <1>9, <1>11
  <2> QED  BY <2>1, <1>2 DEF Own, View
<1>12. \A j \in LineId : Own(g, j) => Shaped(View(g, j))
  <2> TAKE j \in LineId
  <2>1. CASE j = id  BY <2>1, <1>10, <1>a
  <2>2. CASE j # id
    <3>1. Own(a, j) => Shaped(View(a, j))  BY <1>2 DEF Fit
    <3> QED  BY <2>2, <3>1, <1>11
  <2> QED  BY <2>1, <2>2
<1>13. Fit(g)  BY <1>8, <1>9, <1>12 DEF Fit
<1> QED  BY <1>1, <1>2, <1>8, <1>9, <1>11, <1>13 DEF g

\* A line that is not in the list does not matter to it.
LEMMA HeldElsewhere ==
    ASSUME NEW f, NEW s, Held(f, s), NEW g,
           g.fresh = f.fresh, g.headl = f.headl, g.taill = f.taill, g.currentl = f.currentl,
           \A k \in 1 .. Len(s) : /\ s[k] \in g.alive
                                  /\ Own(g, s[k]) <=> Own(f, s[k])
                                  /\ g.line[s[k]].prevl = f.line[s[k]].prevl
                                  /\ g.line[s[k]].nextl = f.line[s[k]].nextl
    PROVE  Held(g, s)
<1>1. Chain(f, s)  BY DEF Held
<1>2. Chain(g, s)  BY <1>1 DEF Chain
<1> QED  BY <1>2 DEF Held

\* deallocate_cmd() of one of the records: the others are accounted for.
LEMMA DisposeKept ==
    ASSUME NEW f, Fit(f), ~f.fault, NEW b, NEW I, I \subseteq Slots, Kept(f, b, I), NEW i \in I
    PROVE  LET g == DeallocateCmd(f, b[i])
           IN  Fit(g) /\ ~g.fault /\ Kept(g, b, I \ {i})
<1> DEFINE line == b[i].dptr
           J == I \ {i}
           g == DeallocateCmd(f, b[i])
           n == Cardinality(HeldBy(b, J, line))
<1>1. PICK s : Held(f, s) /\ Accounted(f, s, b, I)  BY DEF Kept
<1>2. J \subseteq Slots  OBVIOUS
<1>3. \A id : /\ Cardinality(HeldBy(b, I, id)) = Cardinality(HeldBy(b, J, id)) + One(line = id)
              /\ Cardinality(HeldBy(b, J, id)) \in Nat
      BY <1>2, HeldByFewer, HeldByFinite
<1>4. f.alive \subseteq LineId /\ NULL \notin LineId  BY FitFields, NULLAssumption
<1>5. \A k \in 1 .. Len(s) : s[k] \in f.alive /\ s[k] \in LineId
      BY <1>1, ChainFacts DEF Held, Chain
<1>6. \A id \in f.alive :
         /\ f.line[id].refs \in Nat /\ One(In(s, id)) \in Nat /\ One(~Own(f, id)) \in Nat
         /\ f.line[id].refs >= Cardinality(HeldBy(b, J, id)) + One(line = id) + One(In(s, id))
                                  + One(~Own(f, id))
  <2> TAKE id \in f.alive
  <2>1. f.line[id].refs >= Cardinality(HeldBy(b, I, id)) + One(In(s, id)) + One(~Own(f, id))
        BY <1>1 DEF Accounted
  <2>2. f.line[id].refs \in Nat  BY <1>4, LooseFields
  <2> QED  BY <2>1, <2>2, <1>3 DEF One
<1>7. CASE line = NULL
  <2>1. g = f  BY <1>7 DEF DeallocateCmd
  <2>2. \A id \in f.alive : One(line = id) = 0  BY <1>4, <1>7 DEF One
  <2>3. Accounted(f, s, b, J)
    <3>1. ASSUME NEW id \in f.alive
          PROVE  f.line[id].refs >= Cardinality(HeldBy(b, J, id)) + One(In(s, id))
                                       + One(~Own(f, id))
          BY <1>3, <1>6, <2>2
    <3> QED  BY <3>1, <1>1 DEF Accounted
  <2> QED  BY <2>1, <2>3, <1>1 DEF Kept
<1>8. CASE line # NULL
  <2>1. line \in f.alive  BY <1>1, <1>8 DEF Accounted
  <2>2. line \in LineId /\ Usable(f, line)  BY <2>1, <1>4, <1>8 DEF Usable
  <2>3. One(line = line) = 1  BY DEF One
  <2>4. f.line[line].refs >= n + 1 + One(In(s, line)) + One(~Own(f, line)) /\ n \in Nat
        BY <2>1, <2>3, <1>3, <1>6
  <2>5. CASE f.line[line].refs = 1
    <3>1. n = 0 /\ One(In(s, line)) = 0 /\ One(~Own(f, line)) = 0
          BY <2>1, <2>4, <2>5, <1>6
    <3>2. Own(f, line) /\ ~In(s, line)  BY <3>1 DEF One
    <3>3. g = FreeLine(f, line)  BY <1>8, <2>2, <2>5 DEF DeallocateCmd, Check
    <3> HIDE DEF g
    <3>4. /\ Fit(g) /\ g.currentl = f.currentl /\ ~g.fault
          /\ g.alive = f.alive \ {line} /\ g.fresh = f.fresh
          /\ g.headl = f.headl /\ g.taill = f.taill
          /\ \A j \in LineId : j # line =>
                /\ Own(g, j) <=> Own(f, j)
                /\ g.line[j].prevl = f.line[j].prevl
                /\ g.line[j].nextl = f.line[j].nextl
                /\ g.line[j].refs = f.line[j].refs
          BY <2>1, <3>2, <3>3, FreeFit
    <3>5. Held(g, s)
      <4>1. \A k \in 1 .. Len(s) : s[k] # line  BY <3>2 DEF In
      <4> QED  BY <4>1, <1>1, <1>5, <3>4, HeldElsewhere
    <3>6. \A j \in J : b[j].dptr \in g.alive \cup {NULL}
      <4> TAKE j \in J
      <4>1. HeldBy(b, J, line) = {}
        <5>1. IsFiniteSet(HeldBy(b, J, line))  BY <1>2, HeldByFinite
        <5> QED  BY <5>1, <3>1, FS_EmptySet
      <4>2. b[j].dptr # line  BY <4>1 DEF HeldBy
      <4> QED  BY <4>2, <3>4, <1>1 DEF Accounted
    <3>7. ASSUME NEW id \in g.alive
          PROVE  g.line[id].refs >= Cardinality(HeldBy(b, J, id)) + One(In(s, id))
                                       + One(~Own(g, id))
      <4>1. id \in f.alive /\ id # line /\ id \in LineId  BY <3>4, <1>4
      <4>2. g.line[id].refs = f.line[id].refs /\ One(~Own(g, id)) = One(~Own(f, id))
            BY <4>1, <3>4 DEF One
      <4>3. One(line = id) = 0  BY <4>1 DEF One
      <4>4. /\ Cardinality(HeldBy(b, J, id)) \in Nat /\ One(In(s, id)) \in Nat
            /\ One(~Own(f, id)) \in Nat /\ f.line[id].refs \in Nat
            /\ f.line[id].refs >= Cardinality(HeldBy(b, J, id)) + One(line = id)
                                     + One(In(s, id)) + One(~Own(f, id))
            BY <4>1, <1>3, <1>6
      <4> QED  BY <4>2, <4>3, <4>4
    <3>8. Accounted(g, s, b, J)  BY <3>6, <3>7 DEF Accounted
    <3> QED  BY <3>4, <3>5, <3>8 DEF Kept, g
  <2>6. CASE f.line[line].refs # 1
    <3>1. PICK r \in Nat : r = f.line[line].refs - 1
          BY <2>1, <2>4, <1>6
    <3>2. g = [f EXCEPT !.line[line].refs = r]
          BY <1>8, <2>2, <2>6, <3>1 DEF DeallocateCmd, Check
    <3> HIDE DEF g
    <3>3. /\ Fit(g) /\ g.currentl = f.currentl /\ g.fault = f.fault
          /\ g.alive = f.alive /\ g.fresh = f.fresh
          /\ g.headl = f.headl /\ g.taill = f.taill
          /\ \A j \in LineId : /\ Own(g, j) <=> Own(f, j)
                               /\ g.line[j].prevl = f.line[j].prevl
                               /\ g.line[j].nextl = f.line[j].nextl
                               /\ j # line => g.line[j].refs = f.line[j].refs
          /\ g.line[line].refs = r
      <4>1. Recounted(f, [f EXCEPT !.line[line].refs = r], line, r)  BY <2>2, RefsFit
      <4>2. Recounted(f, g, line, r)  BY <4>1, <3>2
      <4> QED  BY <4>2 DEF Recounted
    <3>4. Held(g, s)  BY <1>1, <1>5, <3>3, HeldElsewhere
    <3>5. \A j \in J : b[j].dptr \in g.alive \cup {NULL}  BY <3>3, <1>1 DEF Accounted
    <3>6. ASSUME NEW id \in g.alive
          PROVE  g.line[id].refs >= Cardinality(HeldBy(b, J, id)) + One(In(s, id))
                                       + One(~Own(g, id))
      <4>1. id \in f.alive /\ id \in LineId  BY <3>3, <1>4
      <4>2. One(~Own(g, id)) = One(~Own(f, id))  BY <4>1, <3>3 DEF One
      <4>3. CASE id = line
            BY <4>1, <4>2, <4>3, <2>4, <3>1, <3>3, <1>3, <1>6
      <4>4. CASE id # line
        <5>1. One(line = id) = 0  BY <4>4 DEF One
        <5>2. /\ Cardinality(HeldBy(b, J, id)) \in Nat /\ One(In(s, id)) \in Nat
              /\ One(~Own(f, id)) \in Nat /\ f.line[id].refs \in Nat
              /\ f.line[id].refs >= Cardinality(HeldBy(b, J, id)) + One(line = id)
                                       + One(In(s, id)) + One(~Own(f, id))
              BY <4>1, <1>3, <1>6
        <5>3. g.line[id].refs = f.line[id].refs  BY <4>1, <4>4, <3>3
        <5> QED  BY <4>2, <5>1, <5>2, <5>3
      <4> QED  BY <4>3, <4>4
    <3>7. Accounted(g, s, b, J)  BY <3>5, <3>6 DEF Accounted
    <3> QED  BY <3>3, <3>4, <3>7 DEF Kept, g
  <2> QED  BY <2>5, <2>6
<1> QED  BY <1>7, <1>8

\* A slot may also be forgotten: a reference too many does no harm.
LEMMA FewerKept ==
    ASSUME NEW f, Fit(f), NEW b, NEW I, I \subseteq Slots, Kept(f, b, I), NEW i \in I
    PROVE  Kept(f, b, I \ {i})
<1> DEFINE J == I \ {i}
<1>1. PICK s : Held(f, s) /\ Accounted(f, s, b, I)  BY DEF Kept
<1>2. J \subseteq Slots  OBVIOUS
<1>3. ASSUME NEW id \in f.alive
      PROVE  f.line[id].refs >= Cardinality(HeldBy(b, J, id)) + One(In(s, id)) + One(~Own(f, id))
  <2>1. f.line[id].refs >= Cardinality(HeldBy(b, I, id)) + One(In(s, id)) + One(~Own(f, id))
        BY <1>1 DEF Accounted
  <2>2. /\ Cardinality(HeldBy(b, I, id)) = Cardinality(HeldBy(b, J, id)) + One(b[i].dptr = id)
        /\ Cardinality(HeldBy(b, J, id)) \in Nat
        BY <1>2, HeldByFewer, HeldByFinite
  <2>3. /\ One(In(s, id)) \in Nat /\ One(~Own(f, id)) \in Nat /\ One(b[i].dptr = id) \in Nat
        /\ f.line[id].refs \in Nat
    <3>1. id \in LineId  BY FitFields
    <3> QED  BY <3>1, LooseFields DEF One
  <2> QED  BY <2>1, <2>2, <2>3
<1>4. Accounted(f, s, b, J)  BY <1>1, <1>3 DEF Accounted
<1> QED  BY <1>1, <1>4 DEF Kept

\* The reference that a new record counts.
Noted(f, id) == IF id = NULL THEN f
                ELSE Check(f, Readable(f, id), [f EXCEPT !.line[id].refs = @ + 1])

\* A record written into a slot, with its reference, is accounted for.
LEMMA NotedKept ==
    ASSUME NEW f, Fit(f), ~f.fault, NEW b, NEW n \in Slots, Kept(f, b, Slots \ {n}),
           NEW d, \A i \in Slots : i # n => d[i] = b[i]
    PROVE  LET g == Noted(f, d[n].dptr)
           IN  Fit(g) /\ (~g.fault => Kept(g, d, Slots))
<1> DEFINE line == d[n].dptr
           J == Slots \ {n}
           g == Noted(f, line)
<1>1. PICK s : Held(f, s) /\ Accounted(f, s, b, J)  BY DEF Kept
<1>2. \A id : HeldBy(d, J, id) = HeldBy(b, J, id)
  <2>1. \A i \in J : d[i].dptr = b[i].dptr  OBVIOUS
  <2> HIDE DEF J
  <2> QED  BY <2>1, HeldBySame
<1>3. ASSUME NEW id
      PROVE  /\ Cardinality(HeldBy(d, Slots, id)) = Cardinality(HeldBy(b, J, id)) + One(line = id)
             /\ Cardinality(HeldBy(b, J, id)) \in Nat
  <2>1. /\ Cardinality(HeldBy(d, Slots, id)) = Cardinality(HeldBy(d, J, id)) + One(line = id)
        BY HeldByFewer
  <2>2. J \subseteq Slots  OBVIOUS
  <2>3. Cardinality(HeldBy(b, J, id)) \in Nat  BY <2>2, HeldByFinite
  <2> QED  BY <2>1, <2>3, <1>2
<1>4. f.alive \subseteq LineId /\ NULL \notin LineId  BY FitFields, NULLAssumption
<1>5. \A k \in 1 .. Len(s) : s[k] \in f.alive /\ s[k] \in LineId
      BY <1>1, ChainFacts DEF Held, Chain
<1>6. ASSUME NEW id \in f.alive
      PROVE  /\ f.line[id].refs \in Nat /\ One(In(s, id)) \in Nat /\ One(~Own(f, id)) \in Nat
             /\ f.line[id].refs >= Cardinality(HeldBy(b, J, id)) + One(In(s, id))
                                      + One(~Own(f, id))
  <2>1. f.line[id].refs \in Nat  BY <1>4, LooseFields
  <2> QED  BY <2>1, <1>1 DEF Accounted, One
<1>7. CASE line = NULL
  <2>1. g = f  BY <1>7 DEF Noted
  <2>2. \A i \in Slots : d[i].dptr \in f.alive \cup {NULL}
        BY <1>7, <1>1 DEF Accounted
  <2>3. ASSUME NEW id \in f.alive
        PROVE  f.line[id].refs >= Cardinality(HeldBy(d, Slots, id)) + One(In(s, id))
                                     + One(~Own(f, id))
    <3>1. One(line = id) = 0  BY <1>4, <1>7 DEF One
    <3> QED  BY <3>1, <1>3, <1>6
  <2>4. Accounted(f, s, d, Slots)  BY <2>2, <2>3 DEF Accounted
  <2> QED  BY <2>1, <2>4, <1>1 DEF Kept
<1>8. CASE line # NULL /\ ~Readable(f, line)
  <2>1. Stopped(f, g)  BY <1>8, CheckCases DEF Noted
  <2> QED  BY <2>1 DEF Stopped, Steady
<1>9. CASE line # NULL /\ Readable(f, line)
  <2>1. line \in f.alive /\ line \in LineId  BY <1>4, <1>9 DEF Readable, Usable
  <2>2. f.line[line].refs \in Nat  BY <2>1, <1>6
  <2>3. PICK r \in Nat : r = f.line[line].refs + 1  BY <2>2
  <2>4. g = [f EXCEPT !.line[line].refs = r]  BY <1>9, <2>3 DEF Noted, Check
  <2> HIDE DEF g
  <2>5. /\ Fit(g) /\ g.currentl = f.currentl /\ g.fault = f.fault
        /\ g.alive = f.alive /\ g.fresh = f.fresh
        /\ g.headl = f.headl /\ g.taill = f.taill
        /\ \A j \in LineId : /\ Own(g, j) <=> Own(f, j)
                             /\ g.line[j].prevl = f.line[j].prevl
                             /\ g.line[j].nextl = f.line[j].nextl
                             /\ j # line => g.line[j].refs = f.line[j].refs
        /\ g.line[line].refs = r
    <3> PICK n0 \in LineId : n0 = line  BY <2>1
    <3> DEFINE x == [f EXCEPT !.line[n0].refs = r]
    <3> HIDE DEF line
    <3>1. Recounted(f, x, n0, r)  BY RefsFit
    <3>2. g = x  BY <2>4
    <3> HIDE DEF x
    <3>3. Recounted(f, g, line, r)  BY <3>1, <3>2
    <3> QED  BY <3>3 DEF Recounted
  <2>6. Held(g, s)  BY <1>1, <1>5, <2>5, HeldElsewhere
  <2>7. \A i \in Slots : d[i].dptr \in g.alive \cup {NULL}
        BY <2>1, <2>5, <1>1 DEF Accounted
  <2>8. ASSUME NEW id \in g.alive
        PROVE  g.line[id].refs >= Cardinality(HeldBy(d, Slots, id)) + One(In(s, id))
                                     + One(~Own(g, id))
    <3>1. id \in f.alive /\ id \in LineId  BY <2>5, <1>4
    <3>2. One(~Own(g, id)) = One(~Own(f, id))  BY <3>1, <2>5 DEF One
    <3>3. /\ f.line[id].refs \in Nat /\ One(In(s, id)) \in Nat /\ One(~Own(f, id)) \in Nat
          /\ Cardinality(HeldBy(b, J, id)) \in Nat
          /\ f.line[id].refs >= Cardinality(HeldBy(b, J, id)) + One(In(s, id))
                                   + One(~Own(f, id))
          /\ Cardinality(HeldBy(d, Slots, id)) = Cardinality(HeldBy(b, J, id)) + One(line = id)
          BY <3>1, <1>3, <1>6
    <3>4. CASE id = line
      <4>1. One(line = id) = 1  BY <3>4 DEF One
      <4> QED  BY <3>2, <3>3, <3>4, <4>1, <2>3, <2>5
    <3>5. CASE id # line
      <4>1. One(line = id) = 0  BY <3>5 DEF One
      <4>2. g.line[id].refs = f.line[id].refs  BY <3>1, <3>5, <2>5
      <4> QED  BY <3>2, <3>3, <4>1, <4>2
    <3> QED  BY <3>4, <3>5
  <2>9. Accounted(g, s, d, Slots)  BY <2>7, <2>8 DEF Accounted
  <2> QED  BY <2>5, <2>6, <2>9 DEF Kept, g
<1> QED  BY <1>7, <1>8, <1>9

-----------------------------------------------------------------------------
(* The ring *)

CmdStruct == [cmd : CmdName, arg : Char \cup {NUL}, dptr : LineId \cup {NULL},
              row : Int, col : Nat, scroll_r : Int]
UndoRing == [head : Slots, tail : Slots, buffer : [Slots -> CmdStruct]]

\* The slot after another.
LEMMA SuccSlot ==
    ASSUME NEW i \in Slots
    PROVE  R!Succ(i) \in Slots /\ R!Succ(i) = IF i = HistorySize - 1 THEN 0 ELSE i + 1
<1>0. HistorySize \in Nat /\ HistorySize >= 2 /\ i \in Nat /\ i < HistorySize
      BY HistorySizeAssumption DEF Slots
<1>1. CASE i = HistorySize - 1
  <2>1. i + 1 = HistorySize  BY <1>0, <1>1
  <2>2. HistorySize % HistorySize = 0  BY <1>0
  <2> QED  BY <1>0, <1>1, <2>1, <2>2 DEF R!Succ, Slots
<1>2. CASE i # HistorySize - 1
  <2>1. i + 1 \in 0 .. HistorySize - 1  BY <1>0, <1>2
  <2>2. (i + 1) % HistorySize = i + 1  BY <1>0, <2>1
  <2> QED  BY <1>0, <1>2, <2>1, <2>2 DEF R!Succ, Slots
<1> QED  BY <1>1, <1>2

\* Pushing a record: where it goes, and how many there are.
LEMMA PushRing ==
    ASSUME NEW r \in UndoRing, NEW cmd \in CmdStruct
    PROVE  LET p == R!PushItem(r, cmd)
               n == R!NextSlot(r)
           IN  /\ p \in UndoRing /\ n \in Slots /\ p.buffer[n] = cmd
               /\ \A i \in Slots : i # n => p.buffer[i] = r.buffer[i]
               /\ R!Depth(r) \in 0 .. HistorySize - 1
               /\ R!Depth(p) = IF R!Depth(r) + 1 = HistorySize THEN R!Depth(r)
                               ELSE R!Depth(r) + 1
<1> DEFINE n == R!NextSlot(r)
           b == [r.buffer EXCEPT ![n] = cmd]
           tail == IF n = r.tail THEN R!Succ(r.tail) ELSE r.tail
           p == R!PushItem(r, cmd)
<1>0. /\ r.head \in Slots /\ r.tail \in Slots /\ r.buffer \in [Slots -> CmdStruct]
      BY DEF UndoRing
<1>1. n \in Slots /\ n = IF r.head = HistorySize - 1 THEN 0 ELSE r.head + 1
      BY <1>0, SuccSlot DEF R!NextSlot
<1>2. tail \in Slots
      /\ tail = IF n = r.tail THEN (IF r.tail = HistorySize - 1 THEN 0 ELSE r.tail + 1) ELSE r.tail
      BY <1>0, SuccSlot
<1>3. b \in [Slots -> CmdStruct] /\ b[n] = cmd /\ \A i \in Slots : i # n => b[i] = r.buffer[i]
      BY <1>0, <1>1
<1>4. p = [r EXCEPT !.head = n, !.tail = tail, !.buffer = b]
      BY <1>0 DEF R!PushItem, R!Commit, R!NextSlot, UndoRing
<1> HIDE DEF n, b, tail, p
<1>5. p \in UndoRing /\ p.head = n /\ p.tail = tail /\ p.buffer = b
      BY <1>1, <1>2, <1>3, <1>4 DEF UndoRing
<1>6. HistorySize \in Nat /\ HistorySize >= 2
      /\ r.head \in Nat /\ r.tail \in Nat /\ r.head < HistorySize /\ r.tail < HistorySize
      BY <1>0, HistorySizeAssumption DEF Slots
<1>7. R!Depth(r) \in 0 .. HistorySize - 1
      BY <1>6 DEF R!Depth
<1>8. R!Depth(p) = IF R!Depth(r) + 1 = HistorySize THEN R!Depth(r) ELSE R!Depth(r) + 1
      BY <1>1, <1>2, <1>5, <1>6 DEF R!Depth
<1> QED  BY <1>1, <1>3, <1>5, <1>7, <1>8 DEF n, p

\* add_undoable_at_loc() keeps the account.
LEMMA AddKept ==
    ASSUME NEW f, Fit(f), ~f.fault, NEW r \in UndoRing, Kept(f, r.buffer, Slots),
           NEW cmd \in CmdStruct
    PROVE  LET g == AddUndoable(f, r, cmd)
           IN  Fit(g) /\ (~g.fault => Kept(g, R!PushItem(r, cmd).buffer, Slots))
<1> DEFINE n == R!NextSlot(r)
           d == R!PushItem(r, cmd).buffer
           m == IF R!NextDisposes(r) THEN DeallocateCmd(f, r.buffer[n]) ELSE f
           g == AddUndoable(f, r, cmd)
<1>1. n \in Slots /\ d[n] = cmd /\ \A i \in Slots : i # n => d[i] = r.buffer[i]
      BY PushRing
<1>2. g = Noted(m, cmd.dptr)  BY DEF AddUndoable, Noted
<1>3. Fit(m) /\ ~m.fault /\ Kept(m, r.buffer, Slots \ {n})
  <2>1. CASE R!NextDisposes(r)
    <3>1. m = DeallocateCmd(f, r.buffer[n])  BY <2>1
    <3> HIDE DEF m, n
    <3> QED  BY <1>1, <3>1, DisposeKept
  <2>2. CASE ~R!NextDisposes(r)
    <3>1. m = f  BY <2>2
    <3> HIDE DEF m, n
    <3> QED  BY <1>1, <3>1, FewerKept
  <2> QED  BY <2>1, <2>2
<1> HIDE DEF m, n, d, g
<1> DEFINE x == Noted(m, d[n].dptr)
<1>4. Fit(x) /\ (~x.fault => Kept(x, d, Slots))
      BY <1>1, <1>3, NotedKept
<1>5. g = x  BY <1>1, <1>2
<1> QED  BY <1>4, <1>5 DEF g, d

-----------------------------------------------------------------------------
(* An edit *)

\* An edit in the making: of the framebuffer and the ring, and of what the ring
\* remembers there is as much as there are records.
Sane(e) ==
    /\ Fit(e.fb) /\ e.ring \in UndoRing
    /\ \E S : e.saved \in Seq(S)
    /\ Len(e.saved) = R!Depth(e.ring)
    /\ ~e.fb.fault => Kept(e.fb, e.ring.buffer, Slots)

\* What the ring remembers, with a record more.
LEMMA SavedPushed ==
    ASSUME NEW r \in UndoRing, NEW cmd \in CmdStruct, NEW S, NEW s \in Seq(S),
           Len(s) = R!Depth(r), NEW x
    PROVE  LET t == Append(s, x)
               u == IF Len(t) = HistorySize THEN Tail(t) ELSE t
           IN  (\E T : u \in Seq(T)) /\ Len(u) = R!Depth(R!PushItem(r, cmd))
<1> DEFINE t == Append(s, x)
           T == S \cup {x}
<1>1. s \in Seq(T)
  <2>1. S \subseteq T  OBVIOUS
  <2> QED  BY <2>1
<1>2. t \in Seq(T) /\ Len(t) = Len(s) + 1  BY <1>1
<1>3. /\ R!Depth(r) \in 0 .. HistorySize - 1
      /\ R!Depth(R!PushItem(r, cmd)) = IF R!Depth(r) + 1 = HistorySize THEN R!Depth(r)
                                        ELSE R!Depth(r) + 1
      BY PushRing
<1>4. HistorySize \in Nat /\ HistorySize >= 2  BY HistorySizeAssumption
<1> HIDE DEF t, T
<1>5. CASE Len(t) = HistorySize
  <2>1. t # <<>>  BY <1>4, <1>5
  <2>2. Tail(t) \in Seq(T) /\ Len(Tail(t)) = Len(t) - 1  BY <1>2, <2>1
  <2> QED  BY <1>2, <1>3, <1>4, <1>5, <2>2 DEF t
<1>6. CASE Len(t) # HistorySize
      BY <1>2, <1>3, <1>4, <1>6 DEF t
<1> QED  BY <1>5, <1>6

\* A record whose fields are of their types.
LEMMA CmdTyped ==
    ASSUME NEW f, Fit(f), NEW name \in CmdName, NEW arg \in Char \cup {NUL},
           NEW dptr \in LineId \cup {NULL}, NEW row \in Int, NEW col \in Nat
    PROVE  Cmd(name, arg, dptr, f, row, col) \in CmdStruct
<1>1. f.scroll_r \in Int  BY FitFields
<1> QED  BY <1>1 DEF Cmd, CmdStruct

\* An edit with its record.
LEMMA RecordedSane ==
    ASSUME NEW e, Sane(e), NEW f, Fit(f), ~f.fault => Kept(f, e.ring.buffer, Slots),
           NEW cmd \in CmdStruct, NEW before
    PROVE  Sane(Recorded(e, f, cmd, before))
<1> DEFINE t == Append(e.saved, before)
           u == IF Len(t) = HistorySize THEN Tail(t) ELSE t
           p == R!PushItem(e.ring, cmd)
           g == IF f.fault THEN f ELSE AddUndoable(f, e.ring, cmd)
           h == Recorded(e, f, cmd, before)
<1>1. h.fb = g /\ h.ring = p /\ h.saved = u  BY DEF Recorded
<1>2. p \in UndoRing  BY PushRing DEF Sane
<1>3. (\E T : u \in Seq(T)) /\ Len(u) = R!Depth(p)
      BY SavedPushed DEF Sane
<1>4. Fit(g) /\ (~g.fault => Kept(g, p.buffer, Slots))
  <2>1. CASE f.fault  BY <2>1
  <2>2. CASE ~f.fault
    <3>1. e.ring \in UndoRing  BY DEF Sane
    <3>2. g = AddUndoable(f, e.ring, cmd)  BY <2>2
    <3> HIDE DEF g
    <3> QED  BY <2>2, <3>1, <3>2, AddKept
  <2> QED  BY <2>1, <2>2
<1> HIDE DEF g, h, u, p
<1> QED  BY <1>1, <1>2, <1>3, <1>4 DEF Sane, h

\* Steps that leave the cursor in its line keep the account.
LEMMA SteadyKept ==
    ASSUME NEW f, Fit(f), ~f.fault, NEW b, NEW I, Kept(f, b, I), NEW g, Steady(f, g),
           g.currentl = f.currentl
    PROVE  Fit(g) /\ (~g.fault => Kept(g, b, I))
<1>1. Fit(g)  BY DEF Steady
<1>2. \A s : Held(f, s) => Stays(f, g, s)  BY SameLineStays
<1> QED  BY <1>1, <1>2, StaysKept

\* A character and its record.
LEMMA TypedSane ==
    ASSUME NEW e, Sane(e), NEW ch \in Char, NEW moves
    PROVE  Sane(Typed(e, ch, moves))
<1> DEFINE f == e.fb
           cmd == Cmd("INSERT_C", NUL, NULL, f, f.buffer_r, f.buffer_c)
           r == Recorded(e, f, cmd, Look(f))
           m == r.fb
           g == IF m.fault THEN m ELSE InsertChar(m, m.currentl, ch, moves)
           h == Typed(e, ch, moves)
<1>1. Fit(f) /\ (~f.fault => Kept(f, e.ring.buffer, Slots))  BY DEF Sane
<1>2. cmd \in CmdStruct
  <2>1. f.buffer_r \in Int /\ f.buffer_c \in Nat  BY <1>1, FitFields
  <2> QED  BY <1>1, <2>1, CmdTyped DEF CmdName
<1>3. Sane(r)
  <2> HIDE DEF cmd
  <2> QED  BY <1>1, <1>2, RecordedSane
<1>4. h = [r EXCEPT !.fb = g]  BY DEF Typed
<1>5. r = [fb |-> r.fb, ring |-> r.ring, saved |-> r.saved]  BY DEF Recorded
<1> HIDE DEF r, h
<1>6. Fit(m) /\ (~m.fault => Kept(m, r.ring.buffer, Slots))  BY <1>3 DEF Sane
<1>7. Fit(g) /\ (~g.fault => Kept(g, r.ring.buffer, Slots))
  <2>1. CASE m.fault  BY <2>1, <1>6
  <2>2. CASE ~m.fault
    <3> DEFINE x == InsertChar(m, m.currentl, ch, moves)
    <3>1. PICK s : Held(m, s)  BY <2>2, <1>6 DEF Kept
    <3>2. m.currentl \in LineId /\ Own(m, m.currentl) /\ ch \in Byte
          BY <3>1, HeldFields DEF Byte
    <3>3. Steady(m, x) /\ x.currentl = m.currentl  BY <3>2, <1>6, InsertSteady
    <3>4. g = x  BY <2>2
    <3> HIDE DEF x, m, g
    <3> QED  BY <2>2, <3>3, <3>4, <1>6, SteadyKept
  <2> QED  BY <2>1, <2>2
<1> HIDE DEF g
<1>8. h.fb = g /\ h.ring = r.ring /\ h.saved = r.saved  BY <1>4, <1>5
<1> QED  BY <1>3, <1>7, <1>8 DEF Sane, h

\* What the recursion of Spaces says of the function it defines.
SpacesFrom(e, moves, n, typed) ==
    typed = [k \in 0 .. n |-> IF k = 0 THEN e ELSE Typed(typed[k - 1], Space, moves)]

\* There is such a function for every number of spaces.
LEMMA SpacesExist ==
    ASSUME NEW e, NEW moves, NEW n \in Nat
    PROVE  \E typed : SpacesFrom(e, moves, n, typed)
<1> DEFINE T == {m \in Nat : ~\E typed : SpacesFrom(e, moves, m, typed)}
<1> SUFFICES ASSUME T # {} PROVE FALSE  OBVIOUS
<1>1. PICK m \in T : \A y \in 0 .. m - 1 : y \notin T  BY LeastNumber
<1>2. m # 0
  <2>1. SpacesFrom(e, moves, 0, [k \in 0 .. 0 |-> e])  BY DEF SpacesFrom
  <2> QED  BY <2>1
<1>3. m - 1 \in Nat /\ m - 1 \notin T  BY <1>1, <1>2
<1>4. PICK a : SpacesFrom(e, moves, m - 1, a)  BY <1>3
<1> DEFINE b == [k \in 0 .. m |-> IF k = 0 THEN e ELSE Typed(a[k - 1], Space, moves)]
<1>b. /\ \A k \in 0 .. m : b[k] = IF k = 0 THEN e ELSE Typed(a[k - 1], Space, moves)
      /\ b = [k \in 0 .. m |-> b[k]]
      OBVIOUS
<1> HIDE DEF b
<1>5. ASSUME NEW k \in 0 .. m - 1 PROVE b[k] = a[k]
  <2>1. a[k] = IF k = 0 THEN e ELSE Typed(a[k - 1], Space, moves)
        BY <1>4 DEF SpacesFrom
  <2>2. k \in 0 .. m  BY <1>3
  <2> QED  BY <2>1, <2>2, <1>b
<1>6. SpacesFrom(e, moves, m, b)
  <2>1. ASSUME NEW k \in 0 .. m, k # 0 PROVE b[k - 1] = a[k - 1]
    <3>1. k - 1 \in 0 .. m - 1  BY <2>1, <1>3
    <3> QED  BY <3>1, <1>5
  <2>2. \A k \in 0 .. m : b[k] = IF k = 0 THEN e ELSE Typed(b[k - 1], Space, moves)
        BY <2>1, <1>b
  <2> QED  BY <2>2, <1>b, Zenon DEF SpacesFrom
<1> QED  BY <1>6

\* The tab key.
LEMMA SpacesSane ==
    ASSUME Sane(Now), NEW moves
    PROVE  Sane(Spaces(moves))
<1> DEFINE n == TabWidth
           e == Now
           typed == CHOOSE a : SpacesFrom(e, moves, n, a)
<1>0. n \in Nat /\ Space \in Char  BY TabAssumption
<1>1. SpacesFrom(e, moves, n, typed)  BY <1>0, SpacesExist
<1>2. Spaces(moves) = typed[n]  BY DEF Spaces, SpacesFrom
<1> HIDE DEF typed, e
<1>3. \A k \in 0 .. n : typed[k] = IF k = 0 THEN e ELSE Typed(typed[k - 1], Space, moves)
      BY <1>1 DEF SpacesFrom
<1> DEFINE T == {k \in 0 .. n : ~Sane(typed[k])}
<1>4. T = {}
  <2> SUFFICES ASSUME T # {} PROVE FALSE  OBVIOUS
  <2>1. T \subseteq Nat  BY <1>0
  <2>2. PICK m \in T : \A y \in 0 .. m - 1 : y \notin T  BY <2>1, LeastNumber
  <2>3. m \in 0 .. n /\ ~Sane(typed[m])  BY <2>2
  <2>4. m # 0  BY <2>3, <1>0, <1>3 DEF e
  <2>5. m - 1 \in 0 .. m - 1 /\ m - 1 \in 0 .. n  BY <2>3, <2>4, <1>0
  <2>6. Sane(typed[m - 1])  BY <2>2, <2>5
  <2>7. typed[m] = Typed(typed[m - 1], Space, moves)  BY <2>3, <2>4, <1>3
  <2> QED  BY <1>0, <2>3, <2>6, <2>7, TypedSane
<1>5. n \in 0 .. n  BY <1>0
<1> QED  BY <1>2, <1>4, <1>5

-----------------------------------------------------------------------------
(* The only line deleted *)

\* The copy of the struct borrows the bytes of the current line.
LEMMA CopiedKept ==
    ASSUME NEW f, Fit(f), ~f.fault, f.fresh \in LineId,
           NEW b, NEW I, I \subseteq Slots, Kept(f, b, I)
    PROVE  LET g == Copied(f)
           IN  /\ Fit(g) /\ ~g.fault /\ Kept(g, b, I) /\ g.currentl = f.currentl
               /\ g.line[g.currentl] = f.line[f.currentl]
<1> DEFINE n == f.fresh
           id == f.currentl
           lines == [f.line EXCEPT ![n] = f.line[id]]
           alive == f.alive \cup {n}
           g == Copied(f)
<1>1. PICK s : Held(f, s) /\ Accounted(f, s, b, I)  BY DEF Kept
<1>2. /\ f \in LooseFrame /\ f.line \in [LineId -> LooseStruct] /\ f.bytes \in [LineId -> ByteArray]
      /\ f.alive \subseteq LineId /\ n \in LineId /\ f.alive \subseteq 1 .. n - 1
      BY FitFields DEF Fit
<1>3. id \in LineId /\ id \in f.alive /\ f.line[id].data = id /\ f.line[id] \in LooseStruct
      BY <1>1, HeldFields, LooseFields DEF Own
<1>4. n \notin f.alive /\ n \in Nat /\ n + 1 \in 1 .. MaxLines + 1 /\ alive \subseteq 1 .. n
      BY <1>2, MaxLinesAssumption DEF LineId
<1>5. n # id  BY <1>3, <1>4
<1>6. lines \in [LineId -> LooseStruct] /\ lines[n] = f.line[id]
      /\ \A j \in LineId : j # n => lines[j] = f.line[j]
      BY <1>2, <1>3
<1>7. g = [f EXCEPT !.line = lines, !.alive = alive, !.fresh = n + 1]
      BY <1>2 DEF Copied, LooseFrame
<1>8. alive \in SUBSET LineId  BY <1>2
<1>9. n + 1 - 1 = n  BY <1>4
<1> HIDE DEF lines, alive, g
<1>10. /\ g \in LooseFrame /\ g.line = lines /\ g.bytes = f.bytes /\ g.alive = alive
       /\ g.fresh = n + 1 /\ g.headl = f.headl /\ g.taill = f.taill
       /\ g.currentl = id /\ g.fault = f.fault
       BY <1>2, <1>4, <1>6, <1>7, <1>8 DEF LooseFrame
<1>11. ~Own(g, n)  BY <1>3, <1>5, <1>6, <1>10 DEF Own
<1>12. \A j \in LineId : j # n => (Own(g, j) <=> Own(f, j)) /\ View(g, j) = View(f, j)
       BY <1>6, <1>10 DEF Own, View
<1>13. Fit(g)
  <2>1. \A j \in LineId : Own(g, j) => Shaped(View(g, j))
        BY <1>11, <1>12 DEF Fit
  <2> QED  BY <2>1, <1>4, <1>9, <1>10 DEF Fit
<1>14. \A k \in 1 .. Len(s) : s[k] \in LineId /\ s[k] \in f.alive /\ s[k] # n
       BY <1>1, <1>4, ChainFacts DEF Held, Chain
<1>15. Held(g, s)
  <2>1. Chain(f, s)  BY <1>1 DEF Held
  <2>2. Len(s) < g.fresh
    <3>1. Len(s) \in Nat /\ Len(s) < n  BY <2>1 DEF Chain
    <3> QED  BY <3>1, <1>4, <1>10
  <2>3. \A k \in 1 .. Len(s) : g.line[s[k]] = f.line[s[k]] /\ s[k] \in g.alive
        BY <1>6, <1>10, <1>14 DEF alive
  <2>4. Chain(g, s)  BY <2>1, <2>2, <2>3, <1>10 DEF Chain
  <2> QED  BY <2>4, <1>1, <1>10, <1>12, <1>14 DEF Held
<1>16. \A i \in I : b[i].dptr \in g.alive \cup {NULL}  BY <1>1, <1>10 DEF Accounted, alive
<1>17. ASSUME NEW j \in g.alive
       PROVE  g.line[j].refs >= Cardinality(HeldBy(b, I, j)) + One(In(s, j)) + One(~Own(g, j))
  <2>1. CASE j = n
    <3>1. HeldBy(b, I, j) = {}  BY <2>1, <1>1, <1>2, <1>4, NULLAssumption DEF HeldBy, Accounted
    <3>2. Cardinality({}) = 0  BY FS_EmptySet
    <3>3. One(In(s, j)) = 0 /\ One(~Own(g, j)) = 1  BY <2>1, <1>11, <1>14 DEF One, In
    <3>4. /\ f.line[id].refs >= Cardinality(HeldBy(b, I, id)) + One(In(s, id)) + One(~Own(f, id))
          BY <1>1, <1>3 DEF Accounted
    <3>5. In(s, id)  BY <1>1 DEF Held, In
    <3>6. One(In(s, id)) = 1 /\ One(~Own(f, id)) \in Nat /\ f.line[id].refs \in Nat
          /\ Cardinality(HeldBy(b, I, id)) \in Nat
          BY <3>5, <1>3, HeldByFinite, LooseFields DEF One
    <3>7. f.line[id].refs >= 1
      <4>1. One(~Own(f, id)) >= 0  BY DEF One
      <4> QED  BY <3>4, <3>6, <4>1
    <3>8. g.line[j].refs = f.line[id].refs  BY <2>1, <1>6, <1>10
    <3> QED  BY <3>1, <3>2, <3>3, <3>6, <3>7, <3>8
  <2>2. CASE j # n
    <3>1. j \in f.alive /\ j \in LineId  BY <2>2, <1>2, <1>10 DEF alive
    <3>2. g.line[j] = f.line[j] /\ One(~Own(g, j)) = One(~Own(f, j))
          BY <2>2, <3>1, <1>6, <1>10, <1>12 DEF One
    <3> QED  BY <3>1, <3>2, <1>1 DEF Accounted
  <2> QED  BY <2>1, <2>2
<1>18. Accounted(g, s, b, I)  BY <1>16, <1>17 DEF Accounted
<1>19. g.line[g.currentl] = f.line[f.currentl]  BY <1>3, <1>5, <1>6, <1>10
<1> QED  BY <1>10, <1>13, <1>15, <1>18, <1>19 DEF Kept, g

\* The only line is emptied: its gap is all of the array.
LEMMA EmptiedKept ==
    ASSUME NEW f, Fit(f), ~f.fault, CutlReturns(f) = "NONE_DELETED",
           NEW b, NEW I, Kept(f, b, I)
    PROVE  LET g == DeleteLine(f)
           IN  Fit(g) /\ (~g.fault => Kept(g, b, I))
<1> DEFINE id == f.currentl
           old == View(f, id)
           new == Line(0, old.size - 1, old.size, 0, old.data)
           x == [Put(f, id, new) EXCEPT !.buffer_c = 0]
           s == [f.line[id] EXCEPT !.sog = 0, !.eog = f.line[id].size - 1, !.data_n = 0]
           lines == [f.line EXCEPT ![id] = s]
           g == DeleteLine(f)
<1>1. id \in LineId /\ Own(f, id)  BY HeldFields DEF Kept
<1>2. /\ f \in LooseFrame /\ f.line \in [LineId -> LooseStruct] /\ f.line[id] \in LooseStruct
      /\ f.bytes \in [LineId -> ByteArray] /\ f.line[id].data = id
      BY <1>1, FitFields, LooseFields DEF Own
<1>3. old.size = f.line[id].size /\ old.data = f.bytes[id] /\ Shaped(old)
      BY <1>1, OwnFields
<1>4. Shaped(new)
  <2>1. old.size \in Nat /\ old.size >= 2 /\ old.data \in [0 .. old.size - 1 -> Byte]
        BY <1>3 DEF Shaped
  <2> HIDE DEF old
  <2> QED  BY <2>1 DEF Shaped, Line
<1>5. g = [f EXCEPT !.line = lines, !.buffer_c = 0]
  <2> DEFINE z == f.line[id].size - 1
             f1 == [f EXCEPT !.line[id].sog = 0]
             f2 == [f1 EXCEPT !.line[id].eog = z]
             f3 == [f2 EXCEPT !.line[id].data_n = 0]
             s1 == [f.line[id] EXCEPT !.sog = 0]
             s2 == [s1 EXCEPT !.eog = z]
             s3 == [s2 EXCEPT !.data_n = 0]
             l1 == [f.line EXCEPT ![id] = s1]
             l2 == [l1 EXCEPT ![id] = s2]
             l3 == [l2 EXCEPT ![id] = s3]
  <2>1. g = [f3 EXCEPT !.buffer_c = 0]  BY DEF DeleteLine
  <2>2. f1 = [f EXCEPT !.line = l1] /\ f1.line = l1  BY <1>1, <1>2 DEF LooseFrame
  <2>3. DOMAIN l1 = LineId /\ l1[id] = s1 /\ DOMAIN f1 = DOMAIN f
        BY <1>1, <1>2, <2>2 DEF LooseFrame
  <2> HIDE DEF f1, l1
  <2>4. f2 = [f1 EXCEPT !.line = l2] /\ f2.line = l2
        BY <1>1, <1>2, <2>2, <2>3 DEF LooseFrame
  <2>5. DOMAIN l2 = LineId /\ l2[id] = s2 /\ DOMAIN f2 = DOMAIN f
        BY <1>1, <1>2, <2>3, <2>4 DEF LooseFrame
  <2> HIDE DEF f2, l2
  <2>6. f3 = [f2 EXCEPT !.line = l3]  BY <1>1, <1>2, <2>4, <2>5 DEF LooseFrame
  <2> HIDE DEF f3
  <2>7. s3 = s  OBVIOUS
  <2>8. l3 = lines  BY <1>1, <1>2, <2>7 DEF l1, l2
  <2> HIDE DEF l3, s, lines, g
  <2>9. f3 = [f EXCEPT !.line = lines]  BY <1>2, <2>2, <2>4, <2>6, <2>8 DEF LooseFrame
  <2> QED  BY <1>2, <2>1, <2>9 DEF LooseFrame
<1>6. x = [f EXCEPT !.line = lines, !.buffer_c = 0]
  <2>1. [f.bytes EXCEPT ![id] = f.bytes[id]] = f.bytes  BY <1>1, <1>2
  <2>2. [f.line[id] EXCEPT !.sog = 0, !.eog = f.line[id].size - 1, !.size = f.line[id].size,
                           !.data_n = 0] = s
        BY <1>2 DEF LooseStruct
  <2>3. new.sog = 0 /\ new.eog = f.line[id].size - 1 /\ new.size = f.line[id].size
        /\ new.data_n = 0 /\ new.data = f.bytes[id]
        BY <1>3 DEF Line
  <2> HIDE DEF s, new
  <2> QED  BY <2>1, <2>2, <2>3, <1>1, <1>2 DEF Put, LooseFrame
<1> HIDE DEF g, s, lines
<1>7. g = x  BY <1>5, <1>6
<1> HIDE DEF new
<1>8. Steady(f, x) /\ x.currentl = f.currentl  BY <1>1, <1>4, PutSteady
<1> HIDE DEF x
<1>9. Steady(f, g) /\ g.currentl = f.currentl  BY <1>7, <1>8
<1> QED  BY <1>9, SteadyKept DEF g

-----------------------------------------------------------------------------
(* The exit *)

\* What the recursion of DestroyRing says of the function it defines.
DestroysFrom(f, b, n, after) ==
    after = [k \in 0 .. n |-> IF k = 0 THEN f ELSE DeallocateCmd(after[k - 1], b[k - 1])]

\* There is such a function for every number of slots.
LEMMA DestroysExist ==
    ASSUME NEW f, NEW b, NEW n \in Nat
    PROVE  \E after : DestroysFrom(f, b, n, after)
<1> DEFINE T == {m \in Nat : ~\E after : DestroysFrom(f, b, m, after)}
<1> SUFFICES ASSUME T # {} PROVE FALSE  OBVIOUS
<1>1. PICK m \in T : \A y \in 0 .. m - 1 : y \notin T  BY LeastNumber
<1>2. m # 0
  <2>1. DestroysFrom(f, b, 0, [k \in 0 .. 0 |-> f])  BY DEF DestroysFrom
  <2> QED  BY <2>1
<1>3. m - 1 \in Nat /\ m - 1 \notin T  BY <1>1, <1>2
<1>4. PICK a : DestroysFrom(f, b, m - 1, a)  BY <1>3
<1> DEFINE c == [k \in 0 .. m |-> IF k = 0 THEN f ELSE DeallocateCmd(a[k - 1], b[k - 1])]
<1>b. /\ \A k \in 0 .. m : c[k] = IF k = 0 THEN f ELSE DeallocateCmd(a[k - 1], b[k - 1])
      /\ c = [k \in 0 .. m |-> c[k]]
      OBVIOUS
<1> HIDE DEF c
<1>5. ASSUME NEW k \in 0 .. m - 1 PROVE c[k] = a[k]
  <2>1. a[k] = IF k = 0 THEN f ELSE DeallocateCmd(a[k - 1], b[k - 1])
        BY <1>4 DEF DestroysFrom
  <2>2. k \in 0 .. m  BY <1>3
  <2> QED  BY <2>1, <2>2, <1>b
<1>6. DestroysFrom(f, b, m, c)
  <2>1. ASSUME NEW k \in 0 .. m, k # 0 PROVE c[k - 1] = a[k - 1]
    <3>1. k - 1 \in 0 .. m - 1  BY <2>1, <1>3
    <3> QED  BY <3>1, <1>5
  <2>2. \A k \in 0 .. m : c[k] = IF k = 0 THEN f ELSE DeallocateCmd(c[k - 1], b[k - 1])
        BY <2>1, <1>b
  <2> QED  BY <2>2, <1>b, Zenon DEF DestroysFrom
<1> QED  BY <1>6

\* destroy() of the ring disposes of every record and of no line of the list.
LEMMA DestroyHeld ==
    ASSUME NEW f, Fit(f), ~f.fault, NEW r, Kept(f, r.buffer, Slots)
    PROVE  LET g == DestroyRing(f, r)
           IN  Fit(g) /\ ~g.fault /\ \E s : Held(g, s)
<1> DEFINE n == HistorySize
           b == r.buffer
           after == CHOOSE a : DestroysFrom(f, b, n, a)
           P(k) == Fit(after[k]) /\ ~after[k].fault /\ Kept(after[k], b, k .. n - 1)
<1>0. n \in Nat  BY HistorySizeAssumption
<1>1. DestroysFrom(f, b, n, after)  BY <1>0, DestroysExist
<1>2. DestroyRing(f, r) = after[n]  BY DEF DestroyRing, DestroysFrom
<1> HIDE DEF after, b
<1>3. \A k \in 0 .. n : after[k] = IF k = 0 THEN f ELSE DeallocateCmd(after[k - 1], b[k - 1])
      BY <1>1 DEF DestroysFrom
<1> DEFINE T == {k \in 0 .. n : ~P(k)}
<1>4. T = {}
  <2> SUFFICES ASSUME T # {} PROVE FALSE  OBVIOUS
  <2>1. T \subseteq Nat  BY <1>0
  <2>2. PICK m \in T : \A y \in 0 .. m - 1 : y \notin T  BY <2>1, LeastNumber
  <2>3. m \in 0 .. n /\ ~P(m)  BY <2>2
  <2>4. m # 0
    <3>1. after[0] = f  BY <1>0, <1>3
    <3>2. 0 .. n - 1 = Slots  BY DEF Slots
    <3> QED  BY <3>1, <3>2, <2>3 DEF b
  <2>5. m - 1 \in 0 .. m - 1 /\ m - 1 \in 0 .. n  BY <2>3, <2>4, <1>0
  <2>6. P(m - 1)  BY <2>2, <2>5
  <2> PICK i \in Nat : i = m - 1  BY <2>5
  <2> DEFINE h == after[i]
             I == i .. n - 1
  <2>7. after[m] = DeallocateCmd(h, b[i])  BY <2>3, <2>4, <1>3
  <2>8. I \subseteq Slots /\ i \in I /\ I \ {i} = m .. n - 1
        BY <2>3, <2>4, <1>0 DEF Slots
  <2>9. Fit(h) /\ ~h.fault /\ Kept(h, b, I)  BY <2>6
  <2> HIDE DEF h, I
  <2> DEFINE x == DeallocateCmd(h, b[i])
  <2>10. Fit(x) /\ ~x.fault /\ Kept(x, b, I \ {i})  BY <2>8, <2>9, DisposeKept
  <2> QED  BY <2>3, <2>7, <2>8, <2>10
<1>5. n \in 0 .. n  BY <1>0
<1>6. P(n)  BY <1>4, <1>5
<1> QED  BY <1>2, <1>6 DEF Kept

\* What the recursion of FreeLines says of the function it defines.
FreesFrom(f, ids, n, after) ==
    after = [k \in 0 .. n |-> IF k = 0 THEN f ELSE FreeLine(after[k - 1], ids[k])]

\* There is such a function for every number of lines.
LEMMA FreesExist ==
    ASSUME NEW f, NEW ids, NEW n \in Nat
    PROVE  \E after : FreesFrom(f, ids, n, after)
<1> DEFINE T == {m \in Nat : ~\E after : FreesFrom(f, ids, m, after)}
<1> SUFFICES ASSUME T # {} PROVE FALSE  OBVIOUS
<1>1. PICK m \in T : \A y \in 0 .. m - 1 : y \notin T  BY LeastNumber
<1>2. m # 0
  <2>1. FreesFrom(f, ids, 0, [k \in 0 .. 0 |-> f])  BY DEF FreesFrom
  <2> QED  BY <2>1
<1>3. m - 1 \in Nat /\ m - 1 \notin T  BY <1>1, <1>2
<1>4. PICK a : FreesFrom(f, ids, m - 1, a)  BY <1>3
<1> DEFINE c == [k \in 0 .. m |-> IF k = 0 THEN f ELSE FreeLine(a[k - 1], ids[k])]
<1>b. /\ \A k \in 0 .. m : c[k] = IF k = 0 THEN f ELSE FreeLine(a[k - 1], ids[k])
      /\ c = [k \in 0 .. m |-> c[k]]
      OBVIOUS
<1> HIDE DEF c
<1>5. ASSUME NEW k \in 0 .. m - 1 PROVE c[k] = a[k]
  <2>1. a[k] = IF k = 0 THEN f ELSE FreeLine(a[k - 1], ids[k])
        BY <1>4 DEF FreesFrom
  <2>2. k \in 0 .. m  BY <1>3
  <2> QED  BY <2>1, <2>2, <1>b
<1>6. FreesFrom(f, ids, m, c)
  <2>1. ASSUME NEW k \in 0 .. m, k # 0 PROVE c[k - 1] = a[k - 1]
    <3>1. k - 1 \in 0 .. m - 1  BY <2>1, <1>3
    <3> QED  BY <3>1, <1>5
  <2>2. \A k \in 0 .. m : c[k] = IF k = 0 THEN f ELSE FreeLine(c[k - 1], ids[k])
        BY <2>1, <1>b
  <2> QED  BY <2>2, <1>b, Zenon DEF FreesFrom
<1> QED  BY <1>6

\* The lines of a list freed one after the other: each is there when its turn comes.
LEMMA FreeLinesFit ==
    ASSUME NEW f, Fit(f), ~f.fault, NEW s, Held(f, s)
    PROVE  LET g == FreeLines(f, s) IN Fit(g) /\ ~g.fault
<1> DEFINE n == Len(s)
           after == CHOOSE a : FreesFrom(f, s, n, a)
           P(k) == /\ Fit(after[k]) /\ ~after[k].fault
                   /\ \A j \in 1 .. n : j > k => s[j] \in after[k].alive /\ Own(after[k], s[j])
<1>0. /\ n \in Nat /\ \A i, j \in 1 .. n : s[i] = s[j] => i = j
      /\ \A j \in 1 .. n : s[j] \in f.alive /\ Own(f, s[j]) /\ s[j] \in LineId
      BY ChainFacts DEF Held, Chain
<1>1. FreesFrom(f, s, n, after)  BY <1>0, FreesExist
<1>2. FreeLines(f, s) = after[n]  BY DEF FreeLines, FreesFrom
<1> HIDE DEF after
<1>3. \A k \in 0 .. n : after[k] = IF k = 0 THEN f ELSE FreeLine(after[k - 1], s[k])
      BY <1>1 DEF FreesFrom
<1> DEFINE T == {k \in 0 .. n : ~P(k)}
<1>4. T = {}
  <2> SUFFICES ASSUME T # {} PROVE FALSE  OBVIOUS
  <2>1. T \subseteq Nat  BY <1>0
  <2>2. PICK m \in T : \A y \in 0 .. m - 1 : y \notin T  BY <2>1, LeastNumber
  <2>3. m \in 0 .. n /\ ~P(m)  BY <2>2
  <2>4. m # 0
    <3>1. after[0] = f  BY <1>0, <1>3
    <3> QED  BY <3>1, <2>3, <1>0
  <2>5. m - 1 \in 0 .. m - 1 /\ m - 1 \in 0 .. n /\ m \in 1 .. n /\ m > m - 1
        BY <2>3, <2>4, <1>0
  <2>6. P(m - 1)  BY <2>2, <2>5
  <2> DEFINE h == after[m - 1]
             id == s[m]
             x == FreeLine(h, id)
  <2>7. after[m] = x  BY <2>3, <2>4, <1>3
  <2>8. Fit(h) /\ ~h.fault /\ id \in h.alive /\ Own(h, id)  BY <2>5, <2>6
  <2>9. \A j \in 1 .. n : j > m => s[j] \in h.alive /\ Own(h, s[j]) /\ s[j] # id /\ s[j] \in LineId
    <3> TAKE j \in 1 .. n
    <3> HAVE j > m
    <3>1. j > m - 1 /\ j # m  BY <2>5, <1>0
    <3> QED  BY <3>1, <2>5, <2>6, <1>0
  <2> HIDE DEF h, x
  <2> DEFINE y == FreeLine(h, id)
  <2>10. /\ Fit(y) /\ ~y.fault /\ y.alive = h.alive \ {id}
         /\ \A j \in LineId : j # id => (Own(y, j) <=> Own(h, j))
    <3> PICK e : e = id  OBVIOUS
    <3>1. e \in h.alive /\ Own(h, e)  BY <2>8
    <3> DEFINE z == FreeLine(h, e)
    <3>2. /\ Fit(z) /\ ~z.fault /\ z.alive = h.alive \ {e}
          /\ \A j \in LineId : j # e => (Own(z, j) <=> Own(h, j))
          BY <3>1, <2>8, FreeFit
    <3>3. y = z  OBVIOUS
    <3> QED  BY <3>2, <3>3
  <2>11. after[m] = y  BY <2>7 DEF x
  <2> HIDE DEF y
  <2> QED  BY <2>3, <2>9, <2>10, <2>11
<1>5. n \in 0 .. n  BY <1>0
<1> QED  BY <1>2, <1>4, <1>5

\* exit_vi() frees every line once, and reads none that it freed.
LEMMA ExitFit ==
    ASSUME NEW f, Fit(f), ~f.fault, NEW r, Kept(f, r.buffer, Slots)
    PROVE  LET g == AfterExit(f, r) IN Fit(g) /\ ~g.fault
<1> DEFINE g == DestroyRing(f, r)
           ok == /\ Usable(g, g.headl) /\ Usable(g, g.taill) /\ Readable(g, g.taill)
                 /\ Usable(g, g.currentl) /\ Readable(g, g.currentl)
                 /\ \A id \in ToSet(LinesOf(g)) : Readable(g, id)
           read == Check(g, ok, g)
<1>1. AfterExit(f, r) = FreeLines(read, LinesOf(g))  BY DEF AfterExit
<1>2. Fit(g) /\ ~g.fault  BY DestroyHeld
<1>3. PICK s : Held(g, s)  BY DestroyHeld
<1> HIDE DEF g
<1>4. \A k \in 1 .. Len(s) : Readable(g, s[k]) /\ Usable(g, s[k])
  <2> TAKE k \in 1 .. Len(s)
  <2>1. s[k] \in LineId /\ s[k] \in g.alive /\ Own(g, s[k])
        BY <1>3, ChainFacts DEF Held, Chain
  <2> QED  BY <2>1, <1>2, OwnFields
<1>5. LinesOf(g) = s  BY <1>2, <1>3, FitFields, LinesChain DEF Held
<1>6. ToSet(s) = {s[k] : k \in 1 .. Len(s)}
  <2>1. s \in Seq(LineId)  BY <1>3, ChainFacts DEF Held
  <2> QED  BY <2>1 DEF ToSet
<1>7. /\ \E k \in 1 .. Len(s) : g.headl = s[k]
      /\ \E k \in 1 .. Len(s) : g.taill = s[k]
      /\ \E k \in 1 .. Len(s) : g.currentl = s[k]
  <2>1. /\ Len(s) \in Nat /\ Len(s) >= 1 /\ g.headl = s[1] /\ g.taill = s[Len(s)]
        BY <1>3 DEF Held, Chain
  <2>2. 1 \in 1 .. Len(s) /\ Len(s) \in 1 .. Len(s)  BY <2>1
  <2> QED  BY <2>1, <2>2, <1>3 DEF Held
<1>8. ok  BY <1>4, <1>5, <1>6, <1>7
<1> HIDE DEF ok
<1>9. read = g  BY <1>8 DEF Check
<1> HIDE DEF read
<1>10. AfterExit(f, r) = FreeLines(g, s)  BY <1>1, <1>5, <1>9
<1> DEFINE x == FreeLines(g, s)
<1>11. Fit(x) /\ ~x.fault  BY <1>2, <1>3, FreeLinesFit
<1> HIDE DEF x
<1> QED  BY <1>10, <1>11 DEF x

-----------------------------------------------------------------------------
(* The beginning *)

\* init_fb_struct() allocates the first line.
LEMMA InitFit == Fit(InitFb) /\ ~InitFb.fault /\ Held(InitFb, <<1>>)
                 /\ InitFb.alive = {1} /\ InitFb.line[1].refs = 1 /\ Own(InitFb, 1)
<1> DEFINE lines == [id \in LineId |-> NewStruct(id)]
           arrays == [id \in LineId |-> EmptyLine.data]
           f == [line |-> lines, bytes |-> arrays, alive |-> {}, fresh |-> 1,
                 headl |-> 1, taill |-> 1, currentl |-> 1, scroll |-> 1,
                 scroll_r |-> 0, buffer_r |-> 0, buffer_c |-> 0, buffer_n |-> 1,
                 fault |-> FALSE]
           g == InitFb
<1>1. g = AllocEmptyl(f)  BY DEF InitFb
<1>2. Shaped(EmptyLine)  BY EmptyLineGood, GoodIsShaped
<1>3. /\ InitGapSize \in Nat /\ InitGapSize >= 2 /\ MaxLines \in Nat /\ MaxLines >= 1
      BY InitGapSizeAssumption, MaxLinesAssumption
<1>4. 1 \in LineId /\ 1 \in 1 .. MaxLines + 1  BY <1>3 DEF LineId
<1>5. ASSUME NEW id \in LineId
      PROVE  /\ NewStruct(id) \in LooseStruct
             /\ EmptyLine.data \in ByteArray
             /\ Line(0, InitGapSize - 1, InitGapSize + 1, 0, EmptyLine.data) = EmptyLine
  <2>1. NewStruct(id) \in LooseStruct  BY <1>3 DEF NewStruct, LooseStruct, Link
  <2>2. EmptyLine.size \in Nat /\ EmptyLine.data \in [0 .. EmptyLine.size - 1 -> Byte]
        BY <1>2 DEF Shaped
  <2>3. EmptyLine.data \in ByteArray
    <3> HIDE DEF EmptyLine
    <3> QED  BY <2>2 DEF ByteArray
  <2>4. Line(0, InitGapSize - 1, InitGapSize + 1, 0, EmptyLine.data) = EmptyLine
        BY DEF EmptyLine, Line
  <2> QED  BY <2>1, <2>3, <2>4
<1>6. lines \in [LineId -> LooseStruct] /\ arrays \in [LineId -> ByteArray]
  <2> HIDE DEF EmptyLine
  <2> QED  BY <1>5
<1>7. \A id \in LineId : View(f, id) = EmptyLine
  <2> TAKE id \in LineId
  <2>1. View(f, id) = Line(0, InitGapSize - 1, InitGapSize + 1, 0, EmptyLine.data)
        BY DEF View, NewStruct
  <2> QED  BY <2>1, <1>5
<1>8. f \in LooseFrame
  <2> HIDE DEF lines, arrays
  <2> QED  BY <1>4, <1>6 DEF LooseFrame, Link
<1>9. Fit(f)
  <2>1. f.alive \subseteq 1 .. f.fresh - 1  OBVIOUS
  <2>2. \A id \in LineId : Shaped(View(f, id))
    <3> HIDE DEF f
    <3> QED  BY <1>2, <1>7
  <2> HIDE DEF f
  <2> QED  BY <1>8, <2>1, <2>2 DEF Fit
<1>10. f.fresh \in LineId /\ f.fresh = 1 /\ f.alive = {} /\ ~f.fault
       /\ f.headl = 1 /\ f.taill = 1 /\ f.currentl = 1
       BY <1>4
<1> HIDE DEF f, g
<1>11. /\ Fit(g) /\ g.currentl = 1 /\ g.fault = FALSE
       /\ g.headl = 1 /\ g.taill = 1 /\ g.alive = {1} /\ g.fresh = 2 /\ Own(g, 1)
       /\ g.line[1].nextl = NULL /\ g.line[1].prevl = NULL /\ g.line[1].refs = 1
  <2> DEFINE x == AllocEmptyl(f)
  <2>0. f.fault = FALSE  BY <1>9, <1>10, FitFields
  <2>1. /\ Fit(x) /\ SameCursor(f, x) /\ x.fault = f.fault
        /\ x.headl = f.headl /\ x.taill = f.taill
        /\ x.alive = f.alive \cup {f.fresh} /\ x.fresh = f.fresh + 1
        /\ Own(x, f.fresh)
        /\ x.line[f.fresh].nextl = NULL /\ x.line[f.fresh].prevl = NULL
        /\ x.line[f.fresh].refs = 1
        BY <1>9, <1>10, AllocFit
  <2> HIDE DEF x
  <2> QED  BY <1>1, <1>10, <2>0, <2>1 DEF SameCursor, x
<1>12. Held(g, <<1>>)
  <2> DEFINE s == <<1>>
  <2>1. s \in Seq(LineId) /\ Len(s) = 1 /\ s[1] = 1  BY <1>4
  <2>2. \A k \in 1 .. Len(s) : k = 1  BY <2>1
  <2> HIDE DEF s
  <2>3. Chain(g, s)  BY <2>1, <2>2, <1>11 DEF Chain
  <2>4. 1 \in 1 .. Len(s)  BY <2>1
  <2> QED  BY <2>1, <2>2, <2>3, <2>4, <1>11 DEF Held, s
<1> QED  BY <1>11, <1>12 DEF g

\* The ring of the beginning.
LEMMA InitRingTyped ==
    /\ R!InitRing \in UndoRing /\ R!Depth(R!InitRing) = 0
    /\ \A i \in Slots : R!InitRing.buffer[i].dptr = NULL
<1>1. ZeroCmd \in CmdStruct /\ ZeroCmd.dptr = NULL  BY DEF ZeroCmd, CmdStruct, CmdName
<1>2. 0 \in Slots /\ HistorySize \in Nat  BY HistorySizeAssumption DEF Slots
<1>3. R!Slot = Slots  BY DEF R!Slot, Slots
<1> HIDE DEF ZeroCmd
<1>4. R!InitRing = [head |-> 0, tail |-> 0, buffer |-> [i \in Slots |-> ZeroCmd]]
      BY <1>3 DEF R!InitRing
<1> QED  BY <1>1, <1>2, <1>4 DEF UndoRing, R!Depth

\* Nothing but the list holds the first line.
LEMMA InitKept == Kept(InitFb, R!InitRing.buffer, Slots)
<1> DEFINE f == InitFb
           b == R!InitRing.buffer
           s == <<1>>
<1>1. Held(f, s) /\ f.alive = {1} /\ f.line[1].refs = 1 /\ Own(f, 1)  BY InitFit
<1>2. \A i \in Slots : b[i].dptr = NULL  BY InitRingTyped
<1>3. 1 \in LineId /\ NULL # 1  BY MaxLinesAssumption, NULLAssumption DEF LineId
<1> HIDE DEF f, b
<1>4. HeldBy(b, Slots, 1) = {}  BY <1>2, <1>3 DEF HeldBy
<1>5. Cardinality({}) = 0  BY FS_EmptySet
<1>6. One(In(s, 1)) \in Nat /\ One(In(s, 1)) <= 1 /\ One(~Own(f, 1)) = 0  BY <1>1 DEF One
<1>7. Accounted(f, s, b, Slots)
  <2> HIDE DEF s
  <2>1. ASSUME NEW id \in f.alive
        PROVE  f.line[id].refs >= Cardinality(HeldBy(b, Slots, id)) + One(In(s, id))
                                     + One(~Own(f, id))
    <3>1. id = 1  BY <1>1
    <3> QED  BY <3>1, <1>1, <1>4, <1>5, <1>6
  <2> QED  BY <2>1, <1>2 DEF Accounted
<1> QED  BY <1>1, <1>7 DEF Kept, f, b

-----------------------------------------------------------------------------
(* The invariant *)

Modes == {"COMMAND", "INSERT", "INSERT_COMMAND", "DEL_CMD"}

\* The lines are kept as long as nothing undefined has happened; and the program
\* has not ended in a fault.
IInv ==
    /\ Fit(fb) /\ undo_ring \in UndoRing
    /\ \E S : saved \in Seq(S)
    /\ Len(saved) = R!Depth(undo_ring)
    /\ mode \in Modes /\ cmdbuf \in Seq(Command) /\ Len(cmdbuf) <= CmdbufSize
    /\ ended \in BOOLEAN /\ edits \in 0 .. MaxEdits
    /\ Running => Kept(fb, undo_ring.buffer, Slots)
    /\ ended => ~fb.fault

\* It holds of the editor that has just started.
LEMMA InitIInv == Init => IInv
<1> SUFFICES ASSUME Init PROVE IInv  OBVIOUS
<1>1. fb = InitFb /\ undo_ring = R!InitRing /\ saved = <<>> /\ mode = "COMMAND"
      /\ cmdbuf = <<>> /\ ended = FALSE /\ edits = 0
      BY DEF Init
<1>2. Fit(fb) /\ ~fb.fault /\ Kept(fb, undo_ring.buffer, Slots)  BY <1>1, InitFit, InitKept
<1>3. undo_ring \in UndoRing /\ R!Depth(undo_ring) = 0  BY <1>1, InitRingTyped
<1>4. (\E S : saved \in Seq(S)) /\ Len(saved) = 0
  <2>1. saved \in Seq({})  BY <1>1
  <2> QED  BY <2>1, <1>1
<1>5. cmdbuf \in Seq(Command) /\ Len(cmdbuf) <= CmdbufSize /\ edits \in 0 .. MaxEdits
      BY <1>1, CommandAssumption, MaxEditsAssumption
<1> QED  BY <1>1, <1>2, <1>3, <1>4, <1>5 DEF IInv, Modes

\* The edit that a key starts from.
LEMMA NowSane ==
    ASSUME IInv, Running
    PROVE  /\ Sane(Now) /\ Now.fb = fb /\ Now.ring = undo_ring
           /\ Fit(fb) /\ ~fb.fault /\ Kept(fb, undo_ring.buffer, Slots)
<1>1. Now.fb = fb /\ Now.ring = undo_ring /\ Now.saved = saved  BY DEF Now
<1>2. ~fb.fault  BY DEF Running
<1> HIDE DEF Now
<1> QED  BY <1>1, <1>2 DEF IInv, Sane

\* A key that moves ...
LEMMA MovingKeeps ==
    ASSUME IInv, Running, NEW f, \A s : Held(fb, s) => Stays(fb, f, s),
           NEW to \in Modes, Moving(f, to)
    PROVE  IInv'
<1> DEFINE b == undo_ring.buffer
           g == Drawn(f)
<1>1. Fit(fb) /\ ~fb.fault /\ Kept(fb, b, Slots)  BY NowSane
<1>2. Steady(fb, f) /\ Fit(f)  BY <1>1 DEF Kept, Stays, Steady
<1>3. Steady(f, g) /\ g.currentl = f.currentl /\ (~g.fault => ~f.fault)
      BY <1>2, DrawnSteady DEF SameCursor
<1>4. /\ fb' = g /\ mode' = to
      /\ UNCHANGED <<undo_ring, cmdbuf, ended, saved, edits>>
      BY DEF Moving, Show
<1> HIDE DEF g, b
<1>5. ASSUME NEW s, Held(fb, s) PROVE Stays(fb, g, s)
  <2>1. ~f.fault => Held(f, s)  BY <1>5 DEF Stays
  <2>2. Stays(f, g, s)  BY <2>1, <1>3, SameLineStays
  <2> QED  BY <2>2, <1>2, StaysTransitive
<1>6. ~g.fault => Kept(g, b, Slots)  BY <1>1, <1>5, StaysKept
<1>7. Fit(g)  BY <1>3 DEF Steady
<1>8. ~ended  BY DEF Running
<1>9. fb' = g /\ undo_ring' = undo_ring /\ saved' = saved /\ mode' \in Modes
      /\ cmdbuf' = cmdbuf /\ ~ended' /\ ended' \in BOOLEAN /\ edits' = edits
      BY <1>4, <1>8 DEF IInv
<1>10. Fit(fb') /\ (~fb'.fault => Kept(fb', undo_ring'.buffer, Slots))
       BY <1>6, <1>7, <1>9 DEF b
<1> QED  BY <1>9, <1>10 DEF IInv, Running

\* ... and one that edits.
LEMMA EditingKeeps ==
    ASSUME IInv, Running, NEW e, Sane(e), NEW n \in Nat, RoomToEdit(n),
           NEW to \in Modes, Editing(e, n, to)
    PROVE  IInv'
<1> DEFINE f == e.fb
           g == Drawn(f)
<1>1. /\ fb' = g /\ mode' = to /\ undo_ring' = e.ring /\ saved' = e.saved
      /\ edits' = edits + n /\ UNCHANGED <<cmdbuf, ended>>
      BY DEF Editing, Show
<1>2. /\ Fit(f) /\ e.ring \in UndoRing /\ (\E S : e.saved \in Seq(S))
      /\ Len(e.saved) = R!Depth(e.ring)
      /\ ~f.fault => Kept(f, e.ring.buffer, Slots)
      BY DEF Sane
<1>3. Steady(f, g) /\ g.currentl = f.currentl /\ (~g.fault => ~f.fault)
      BY <1>2, DrawnSteady DEF SameCursor
<1> HIDE DEF f, g
<1>4. Fit(g)  BY <1>3 DEF Steady
<1>5. ~g.fault => Kept(g, e.ring.buffer, Slots)  BY <1>2, <1>3, SteadyKept
<1>6. edits' \in 0 .. MaxEdits
  <2>1. edits \in Nat /\ edits + n <= MaxEdits /\ n \in Nat /\ MaxEdits \in Nat
        BY MaxEditsAssumption DEF IInv, RoomToEdit
  <2> QED  BY <2>1, <1>1
<1>7. ~ended  BY DEF Running
<1>8. Fit(fb') /\ (~fb'.fault => Kept(fb', undo_ring'.buffer, Slots))
      BY <1>1, <1>4, <1>5
<1>9. undo_ring' \in UndoRing /\ (\E S : saved' \in Seq(S)) /\ Len(saved') = R!Depth(undo_ring')
      BY <1>1, <1>2
<1>10. mode' \in Modes /\ cmdbuf' = cmdbuf /\ ~ended' /\ ended' \in BOOLEAN
       BY <1>1, <1>7 DEF IInv
<1> QED  BY <1>6, <1>8, <1>9, <1>10 DEF IInv, Running

\* The editor starts anew, or is gone.
LEMMA AnewKeeps ==
    ASSUME IInv, undo_ring' = R!InitRing, saved' = <<>>, mode' = "COMMAND", cmdbuf' = <<>>,
           edits' = 0, ended' \in BOOLEAN, Fit(fb'), fb'.fault <=> ~ended'
    PROVE  IInv'
<1>1. undo_ring' \in UndoRing /\ R!Depth(undo_ring') = 0  BY InitRingTyped
<1>2. (\E S : saved' \in Seq(S)) /\ Len(saved') = 0
  <2>1. saved' \in Seq({})  OBVIOUS
  <2> QED  BY <2>1
<1>3. cmdbuf' \in Seq(Command) /\ Len(cmdbuf') <= CmdbufSize /\ edits' \in 0 .. MaxEdits
      BY CommandAssumption, MaxEditsAssumption
<1> QED  BY <1>1, <1>2, <1>3 DEF IInv, Running, Modes

-----------------------------------------------------------------------------
(* The keys *)

\* The keys that move, or only change the mode.
LEMMA MoveKeeps ==
    ASSUME IInv, EnterInsert \/ Left \/ Right \/ Down \/ Up \/ Enter \/ StartDelete
                 \/ LeaveInsert \/ LeaveDelete
    PROVE  IInv'
<1>0. Running /\ mode \in Modes
      BY DEF EnterInsert, Left, Right, Down, Up, Enter, StartDelete, LeaveInsert, LeaveDelete,
             Pressed, IInv
<1>1. Fit(fb) /\ ~fb.fault  BY <1>0, NowSane
<1>2. CASE EnterInsert \/ StartDelete \/ LeaveInsert \/ LeaveDelete
  <2>1. PICK to \in Modes : Moving(fb, to)
        BY <1>2 DEF EnterInsert, StartDelete, LeaveInsert, LeaveDelete, Modes
  <2>2. \A s : Held(fb, s) => Stays(fb, fb, s)
        BY <1>1, SteadyReflexive, SameLineStays
  <2> QED  BY <2>1, <2>2, <1>0, MovingKeeps
<1>3. CASE Left \/ Right
  <2>1. PICK f : (f = CursorLeft(fb) \/ f = CursorRight(fb)) /\ Moving(f, mode)
        BY <1>3 DEF Left, Right
  <2>2. \A s : Held(fb, s) => Stays(fb, f, s)  BY <2>1, <1>1, SidewaysStays
  <2> QED  BY <2>1, <2>2, <1>0, MovingKeeps
<1>4. CASE Down \/ Up
  <2>1. PICK f : (f = RowDown(fb) \/ f = RowUp(fb)) /\ Moving(f, mode)
        BY <1>4 DEF Down, Up
  <2>2. \A s : Held(fb, s) => Stays(fb, f, s)  BY <2>1, <1>1, RowStays
  <2> QED  BY <2>1, <2>2, <1>0, MovingKeeps
<1>5. CASE Enter
  <2>1. PICK f : f = CursorDown(fb) /\ Moving(f, mode)  BY <1>5 DEF Enter
  <2>2. \A s : Held(fb, s) => Stays(fb, f, s)  BY <2>1, <1>1, UpDownStays
  <2> QED  BY <2>1, <2>2, <1>0, MovingKeeps
<1> QED  BY <1>2, <1>3, <1>4, <1>5

\* A line opened or broken, with its record.
LEMMA AddedSane ==
    ASSUME IInv, Running, RoomToOpen, NEW f, f = OpenLine(fb) \/ f = BreakLine(fb)
    PROVE  Sane(Added(f))
<1> DEFINE cmd == Cmd("ADDL", NUL, f.currentl, f, fb.buffer_r, fb.buffer_c)
<1>1. /\ Sane(Now) /\ Now.ring = undo_ring
      /\ Fit(fb) /\ ~fb.fault /\ Kept(fb, undo_ring.buffer, Slots)
      BY NowSane
<1>2. fb.fresh \in LineId
  <2>1. fb.fresh \in 1 .. MaxLines + 1 /\ fb.fresh <= MaxLines  BY <1>1, FitFields DEF RoomToOpen
  <2> QED  BY <2>1, MaxLinesAssumption DEF LineId
<1>3. \A s : Held(fb, s) => Grows(fb, f, s)  BY <1>1, <1>2, OpenGrows, BreakGrows
<1>4. Fit(f)  BY <1>1, <1>3 DEF Kept, Grows
<1>5. ~f.fault => Kept(f, undo_ring.buffer, Slots)  BY <1>1, <1>3, GrowsKept
<1>6. f.currentl \in LineId \cup {NULL} /\ fb.buffer_r \in Int /\ fb.buffer_c \in Nat
      BY <1>1, <1>4, FitFields
<1>7. cmd \in CmdStruct  BY <1>4, <1>6, CmdTyped DEF CmdName
<1> HIDE DEF cmd
<1>8. Sane(Recorded(Now, f, cmd, Look(fb)))  BY <1>1, <1>4, <1>5, <1>7, RecordedSane
<1> QED  BY <1>8 DEF Added, cmd

\* The keys that add a line.
LEMMA AddKeeps == ASSUME IInv, Open \/ Break PROVE IInv'
<1>1. Running /\ RoomToOpen /\ RoomToEdit(1) /\ mode \in Modes
      BY DEF Open, Break, Pressed, IInv
<1>2. CASE Open
  <2>1. Editing(Added(OpenLine(fb)), 1, "INSERT") /\ "INSERT" \in Modes  BY <1>2 DEF Open, Modes
  <2>2. Sane(Added(OpenLine(fb)))  BY <1>1, AddedSane
  <2> QED  BY <1>1, <2>1, <2>2, EditingKeeps
<1>3. CASE Break
  <2>1. Editing(Added(BreakLine(fb)), 1, mode)  BY <1>3 DEF Break
  <2>2. Sane(Added(BreakLine(fb)))  BY <1>1, AddedSane
  <2> QED  BY <1>1, <2>1, <2>2, EditingKeeps
<1> QED  BY <1>2, <1>3

\* The keys that type.
LEMMA TypeKeeps == ASSUME IInv, (\E ch \in Char : Type(ch)) \/ Tab PROVE IInv'
<1>1. CASE \E ch \in Char : Type(ch)
  <2>1. PICK ch \in Char : Type(ch)  BY <1>1
  <2>2. Running /\ RoomToEdit(1) /\ mode \in Modes  BY <2>1 DEF Type, Pressed, IInv
  <2>3. PICK moves : Editing(Typed(Now, ch, moves), 1, mode)  BY <2>1 DEF Type
  <2>4. Sane(Typed(Now, ch, moves))  BY <2>2, NowSane, TypedSane
  <2> QED  BY <2>2, <2>3, <2>4, EditingKeeps
<1>2. CASE Tab
  <2>1. Running /\ RoomToEdit(TabWidth) /\ mode \in Modes  BY <1>2 DEF Tab, Pressed, IInv
  <2>2. PICK moves : Editing(Spaces(moves), TabWidth, mode)  BY <1>2 DEF Tab
  <2>3. Sane(Spaces(moves))  BY <2>1, NowSane, SpacesSane
  <2> QED  BY <2>1, <2>2, <2>3, TabAssumption, EditingKeeps
<1> QED  BY <1>1, <1>2

\* The key that erases a character.
LEMMA EraseKeeps == ASSUME IInv, Erase PROVE IInv'
<1> DEFINE f == BackspaceChar(fb, fb.currentl)
           c == IF f.fault THEN NUL ELSE Backspaced(fb)
           cmd == Cmd("BACKSPACE_C", c, NULL, f, f.buffer_r, f.buffer_c)
           e == Recorded(Now, f, cmd, Look(fb))
<1>1. Running /\ RoomToEdit(1) /\ mode \in Modes  BY DEF Erase, Pressed, IInv
<1>2. Editing(e, 1, mode)  BY DEF Erase
<1>3. /\ Sane(Now) /\ Now.ring = undo_ring
      /\ Fit(fb) /\ ~fb.fault /\ Kept(fb, undo_ring.buffer, Slots)
      BY <1>1, NowSane
<1>4. Own(fb, fb.currentl)  BY <1>3, HeldFields DEF Kept
<1>5. Steady(fb, f) /\ f.currentl = fb.currentl /\ (~f.fault => Backspaced(fb) \in Byte)
      BY <1>3, <1>4, BackspaceSteady
<1>6. c \in Char \cup {NUL}  BY <1>5 DEF Byte
<1> HIDE DEF f, c
<1>7. Fit(f) /\ (~f.fault => Kept(f, undo_ring.buffer, Slots))  BY <1>3, <1>5, SteadyKept
<1>8. f.buffer_r \in Int /\ f.buffer_c \in Nat  BY <1>7, FitFields
<1>9. cmd \in CmdStruct  BY <1>6, <1>7, <1>8, CmdTyped DEF CmdName
<1> HIDE DEF cmd
<1>10. Sane(e)  BY <1>3, <1>7, <1>9, RecordedSane
<1> HIDE DEF e
<1> QED  BY <1>1, <1>2, <1>10, EditingKeeps

\* A line joined to the one above, or deleted, with its record.
LEMMA ShortenedSane ==
    ASSUME IInv, Running, NEW f, \A s : Held(fb, s) => Shrinks(fb, f, s, fb.currentl),
           NEW name \in CmdName, NEW line \in LineId
    PROVE  Sane(Recorded(Now, f, Cmd(name, NUL, line, f, f.buffer_r, f.buffer_c), Look(fb)))
<1> DEFINE cmd == Cmd(name, NUL, line, f, f.buffer_r, f.buffer_c)
<1>1. /\ Sane(Now) /\ Now.ring = undo_ring
      /\ Fit(fb) /\ ~fb.fault /\ Kept(fb, undo_ring.buffer, Slots)
      BY NowSane
<1>2. Fit(f)  BY <1>1 DEF Kept, Shrinks
<1>3. \A s : Held(fb, s) => In(s, fb.currentl)  BY DEF Held, In
<1>4. ~f.fault => Kept(f, undo_ring.buffer, Slots)  BY <1>1, <1>3, ShrinksKept
<1>5. f.buffer_r \in Int /\ f.buffer_c \in Nat  BY <1>2, FitFields
<1>6. cmd \in CmdStruct  BY <1>2, <1>5, CmdTyped
<1> HIDE DEF cmd
<1>7. Sane(Recorded(Now, f, cmd, Look(fb)))  BY <1>1, <1>2, <1>4, <1>6, RecordedSane
<1> QED  BY <1>7 DEF cmd

\* The key that joins two lines.
LEMMA JoinKeeps == ASSUME IInv, Join PROVE IInv'
<1>1. Running /\ RoomToEdit(1) /\ mode \in Modes /\ fb.currentl # fb.headl
      BY DEF Join, Pressed, IInv
<1>2. PICK moves : LET f == JoinLine(fb, moves)
                   IN  Editing(Recorded(Now, f, Cmd("DELL", NUL, f.currentl, f, f.buffer_r,
                                                    f.buffer_c), Look(fb)), 1, mode)
      BY DEF Join
<1> DEFINE f == JoinLine(fb, moves)
           e == Recorded(Now, f, Cmd("DELL", NUL, f.currentl, f, f.buffer_r, f.buffer_c), Look(fb))
<1>3. Fit(fb) /\ ~fb.fault /\ Kept(fb, undo_ring.buffer, Slots)  BY <1>1, NowSane
<1>4. \A s : Held(fb, s) => Shrinks(fb, f, s, fb.currentl)  BY <1>1, <1>3, JoinShrinks
<1>5. Editing(e, 1, mode)  BY <1>2
<1> HIDE DEF f
<1>6. f.currentl \in LineId  BY <1>3, <1>4, FitFields DEF Kept, Shrinks
<1>7. "DELL" \in CmdName  BY DEF CmdName
<1>8. Sane(e)  BY <1>1, <1>4, <1>6, <1>7, ShortenedSane
<1> HIDE DEF e
<1> QED  BY <1>1, <1>5, <1>8, EditingKeeps

\* dd of one line of several ...
LEMMA DeleteKeeps == ASSUME IInv, Delete PROVE IInv'
<1> DEFINE f == DeleteLine(fb)
           e == Recorded(Now, f, Cmd("DD", NUL, fb.currentl, f, f.buffer_r, f.buffer_c), Look(fb))
<1>1. Running /\ RoomToEdit(1) /\ CutlReturns(fb) # "NONE_DELETED"
      BY DEF Delete, Pressed
<1>2. Editing(e, 1, "COMMAND")  BY DEF Delete
<1>3. Fit(fb) /\ ~fb.fault  BY <1>1, NowSane
<1>4. \A s : Held(fb, s) => Shrinks(fb, f, s, fb.currentl)
  <2>1. f = Cutl(fb)  BY <1>1 DEF DeleteLine
  <2> HIDE DEF f
  <2> QED  BY <2>1, <1>1, <1>3, CutShrinks
<1> HIDE DEF f
<1>5. fb.currentl \in LineId /\ "DD" \in CmdName  BY <1>3, FitFields DEF CmdName
<1>6. Sane(e)  BY <1>1, <1>4, <1>5, ShortenedSane
<1> HIDE DEF e
<1>7. "COMMAND" \in Modes  BY DEF Modes
<1> QED  BY <1>1, <1>2, <1>6, <1>7, EditingKeeps

\* ... and of the only one.
LEMMA DeleteOnlyKeeps == ASSUME IInv, DeleteOnly PROVE IInv'
<1> DEFINE g == Copied(fb)
           f == DeleteLine(g)
           cmd == Cmd("DD", NUL, fb.fresh, fb, fb.buffer_r, fb.buffer_c)
           e == Recorded(Now, f, cmd, Look(fb))
<1>1. Running /\ RoomToEdit(1) /\ RoomToOpen /\ CutlReturns(fb) = "NONE_DELETED"
      BY DEF DeleteOnly, Pressed
<1>2. Editing(e, 1, "COMMAND")  BY DEF DeleteOnly
<1>3. /\ Sane(Now) /\ Now.ring = undo_ring
      /\ Fit(fb) /\ ~fb.fault /\ Kept(fb, undo_ring.buffer, Slots)
      BY <1>1, NowSane
<1>4. fb.fresh \in LineId
  <2>1. fb.fresh \in 1 .. MaxLines + 1 /\ fb.fresh <= MaxLines
        BY <1>1, <1>3, FitFields DEF RoomToOpen
  <2> QED  BY <2>1, MaxLinesAssumption DEF LineId
<1>5. /\ Fit(g) /\ ~g.fault /\ Kept(g, undo_ring.buffer, Slots)
      /\ g.line[g.currentl] = fb.line[fb.currentl]
      BY <1>3, <1>4, CopiedKept
<1> HIDE DEF g
<1>6. CutlReturns(g) = "NONE_DELETED"  BY <1>1, <1>5 DEF CutlReturns
<1>7. Fit(f) /\ (~f.fault => Kept(f, undo_ring.buffer, Slots))  BY <1>5, <1>6, EmptiedKept
<1> HIDE DEF f
<1>8. fb.buffer_r \in Int /\ fb.buffer_c \in Nat  BY <1>3, FitFields
<1>9. cmd \in CmdStruct  BY <1>3, <1>4, <1>8, CmdTyped DEF CmdName
<1> HIDE DEF cmd
<1>10. Sane(e)  BY <1>3, <1>7, <1>9, RecordedSane
<1> HIDE DEF e
<1>11. "COMMAND" \in Modes  BY DEF Modes
<1> QED  BY <1>1, <1>2, <1>10, <1>11, EditingKeeps

\* A command typed, given up or carried out, and the write behind its buffer.
LEMMA CommandKeeps ==
    ASSUME IInv, StartCommand \/ (\E ch \in Command : TypeCommand(ch)) \/ LeaveCommand \/ DoCommand
    PROVE  IInv'
<1>0. Running
      BY DEF StartCommand, TypeCommand, LeaveCommand, DoCommand, Pressed
<1>1. ASSUME NEW s \in Seq(Command), Len(s) <= CmdbufSize, NEW to \in Modes, Commanding(s, to)
      PROVE  IInv'
  <2>1. /\ cmdbuf' = s /\ mode' = to /\ fb' = fb /\ undo_ring' = undo_ring /\ ended' = ended
        /\ saved' = saved /\ edits' = edits
        BY <1>1 DEF Commanding
  <2> QED  BY <2>1, <1>1 DEF IInv, Running
<1>2. ASSUME Overflow PROVE IInv'
  <2> DEFINE f == InitFb
             g == [f EXCEPT !.fault = TRUE]
  <2>1. Fit(f)  BY InitFit
  <2> HIDE DEF f
  <2>2. Steady(f, g) /\ g.fault  BY <2>1, FaultSteady
  <2>3. Fit(g)  BY <2>2 DEF Steady
  <2>4. /\ fb' = g /\ undo_ring' = R!InitRing /\ mode' = "COMMAND" /\ cmdbuf' = <<>>
        /\ saved' = <<>> /\ edits' = 0 /\ ended' = ended
        BY <1>2 DEF Overflow, f
  <2>5. ~ended'  BY <1>0, <2>4 DEF Running
  <2> HIDE DEF g
  <2>6. ended' \in BOOLEAN /\ Fit(fb') /\ (fb'.fault <=> ~ended')
        BY <2>2, <2>3, <2>4, <2>5 DEF IInv
  <2> QED  BY <2>4, <2>6, AnewKeeps
<1>3. /\ <<>> \in Seq(Command) /\ Len(<<>>) <= CmdbufSize
      /\ mode \in Modes /\ "COMMAND" \in Modes /\ "INSERT_COMMAND" \in Modes
      BY CommandAssumption DEF IInv, Modes
<1>4. CASE StartCommand \/ LeaveCommand \/ DoCommand
  <2>1. \/ Commanding(<<>>, "INSERT_COMMAND") \/ Commanding(<<>>, "COMMAND")
        \/ Overflow
        BY <1>4 DEF StartCommand, LeaveCommand, DoCommand
  <2> QED  BY <2>1, <1>1, <1>2, <1>3
<1>5. ASSUME NEW ch \in Command, TypeCommand(ch) PROVE IInv'
  <2>1. CASE Len(cmdbuf) < CmdbufSize
    <3> DEFINE s == Append(cmdbuf, ch)
    <3>1. s \in Seq(Command) /\ Len(s) <= CmdbufSize
      <4>1. cmdbuf \in Seq(Command) /\ CmdbufSize \in Nat  BY CommandAssumption DEF IInv
      <4>2. s \in Seq(Command) /\ Len(s) = Len(cmdbuf) + 1 /\ Len(cmdbuf) \in Nat  BY <4>1
      <4> QED  BY <4>1, <4>2, <2>1
    <3>2. Commanding(s, mode)  BY <2>1, <1>5 DEF TypeCommand
    <3> HIDE DEF s
    <3> QED  BY <3>1, <3>2, <1>1, <1>3
  <2>2. CASE ~(Len(cmdbuf) < CmdbufSize)  BY <2>2, <1>2, <1>5 DEF TypeCommand
  <2> QED  BY <2>1, <2>2
<1> QED  BY <1>4, <1>5

\* The ways out.
LEMMA ExitKeeps == ASSUME IInv, Quit \/ QuitKey \/ Abort PROVE IInv'
<1>1. Running /\ Over  BY DEF Quit, QuitKey, Abort, ExitVi, Pressed
<1>2. Fit(fb) /\ ~fb.fault /\ Kept(fb, undo_ring.buffer, Slots)  BY <1>1, NowSane
<1>3. PICK f : f = fb' /\ (f = AfterExit(fb, undo_ring) \/ f = InitFb)
      BY DEF Quit, QuitKey, Abort, ExitVi
<1>4. Fit(f) /\ ~f.fault  BY <1>2, <1>3, ExitFit, InitFit
<1>5. /\ ended' = TRUE /\ undo_ring' = R!InitRing /\ mode' = "COMMAND" /\ cmdbuf' = <<>>
      /\ saved' = <<>> /\ edits' = 0
      BY <1>1 DEF Over
<1> QED  BY <1>3, <1>4, <1>5, AnewKeeps

\* No key but u breaks the invariant.
LEMMA EditIInv == IInv /\ [EditNext]_vars => IInv'
<1> SUFFICES ASSUME IInv, EditNext \/ UNCHANGED vars PROVE IInv'  OBVIOUS
<1>1. CASE UNCHANGED vars  BY <1>1 DEF vars, IInv, Running
<1>2. CASE EditNext
      BY <1>2, MoveKeeps, AddKeeps, TypeKeeps, EraseKeeps, JoinKeeps, DeleteKeeps,
         DeleteOnlyKeeps, CommandKeeps, ExitKeeps
      DEF EditNext
<1> QED  BY <1>1, <1>2

\* It holds of every run without u.
LEMMA EditInvariance == EditSpec => []IInv
BY InitIInv, EditIInv, PTL DEF EditSpec

-----------------------------------------------------------------------------
(* The properties *)

\* Every slot holds a record of its type, the ring and what it remembers agree in
\* number, and of fb what is allocated are line ids.
THEOREM EditTypeOK == EditSpec => []TypeOK
<1>1. IInv => TypeOK
  <2> SUFFICES ASSUME IInv PROVE TypeOK  OBVIOUS
  <2>1. undo_ring.head \in Slots /\ undo_ring.tail \in Slots
        /\ \A i \in Slots : undo_ring.buffer[i] \in CmdStruct
        BY DEF IInv, UndoRing
  <2>2. fb.fault \in BOOLEAN /\ fb.alive \subseteq LineId /\ fb.fresh \in 1 .. MaxLines + 1
        BY FitFields DEF IInv
  <2> QED  BY <2>1, <2>2 DEF IInv, TypeOK, Modes, CmdStruct
<1> QED  BY <1>1, EditInvariance, PTL

\* The slots whose records can be reached are slots.
LEMMA HoldingSlots == ASSUME IInv PROVE Holding \subseteq Slots
<1>1. undo_ring.tail \in Slots  BY DEF IInv, UndoRing
<1>2. ASSUME NEW k \in 1 .. R!Depth(undo_ring) PROVE (undo_ring.tail + k) % HistorySize \in Slots
  <2>1. HistorySize \in Nat /\ HistorySize >= 2 /\ undo_ring.tail \in Nat /\ undo_ring.head \in Nat
        BY HistorySizeAssumption DEF IInv, UndoRing, Slots
  <2>2. R!Depth(undo_ring) \in Int  BY <2>1 DEF R!Depth
  <2>3. undo_ring.tail + k \in Nat  BY <2>1, <2>2
  <2> QED  BY <2>1, <2>3 DEF Slots
<1> QED  BY <1>1, <1>2 DEF Holding, Live

\* The list that the invariant speaks of is the text.
LEMMA TextOfList ==
    ASSUME NEW s, Fit(fb), Held(fb, s)
    PROVE  \A id : id \in InText <=> In(s, id)
<1>1. Chain(fb, s) /\ fb.fresh \in 1 .. MaxLines + 1  BY FitFields DEF Held
<1>2. LinesOf(fb) = s  BY <1>1, LinesChain
<1>3. s \in Seq(LineId)  BY <1>1, ChainFacts
<1> QED  BY <1>2, <1>3 DEF InText, ToSet, In

\* A line is not freed as long as the text or a record has it.
THEOREM EditReachable == EditSpec => []ReachableAlive
<1>1. IInv => ReachableAlive
  <2> SUFFICES ASSUME IInv, Running
               PROVE  /\ InText \subseteq fb.alive
                      /\ {fb.headl, fb.taill, fb.currentl} \subseteq fb.alive
                      /\ \A i \in Holding : undo_ring.buffer[i].dptr \in fb.alive \cup {NULL}
      BY DEF ReachableAlive
  <2>1. Fit(fb) /\ Kept(fb, undo_ring.buffer, Slots)  BY NowSane
  <2>2. PICK s : Held(fb, s) /\ Accounted(fb, s, undo_ring.buffer, Slots)  BY <2>1 DEF Kept
  <2>3. \A k \in 1 .. Len(s) : s[k] \in fb.alive  BY <2>2 DEF Held, Chain
  <2>4. InText \subseteq fb.alive  BY <2>1, <2>2, <2>3, TextOfList DEF In
  <2>5. {fb.headl, fb.taill, fb.currentl} \subseteq fb.alive
    <3>1. /\ Len(s) \in Nat /\ Len(s) >= 1 /\ fb.headl = s[1] /\ fb.taill = s[Len(s)]
          BY <2>2 DEF Held, Chain
    <3>2. fb.headl \in fb.alive /\ fb.taill \in fb.alive  BY <3>1, <2>3
    <3> QED  BY <3>2, <2>2, HeldFields
  <2>6. \A i \in Slots : undo_ring.buffer[i].dptr \in fb.alive \cup {NULL}
        BY <2>2 DEF Accounted
  <2> QED  BY <2>4, <2>5, <2>6, HoldingSlots
<1> QED  BY <1>1, EditInvariance, PTL

\* A line has a reference for every record that has it and one for the text.
THEOREM EditRefsCover == EditSpec => []RefsCoverPlaces
<1>1. IInv => RefsCoverPlaces
  <2> SUFFICES ASSUME IInv, Running, NEW id \in fb.alive
               PROVE  fb.line[id].refs >= Records(id) + (IF id \in InText THEN 1 ELSE 0)
      BY DEF RefsCoverPlaces
  <2> DEFINE b == undo_ring.buffer
             all == HeldBy(b, Slots, id)
             some == {i \in Holding : b[i].dptr = id}
  <2>1. Fit(fb) /\ Kept(fb, b, Slots)  BY NowSane
  <2>2. PICK s : Held(fb, s) /\ Accounted(fb, s, b, Slots)  BY <2>1 DEF Kept
  <2>3. id \in LineId /\ fb.line[id].refs \in Nat  BY <2>1, FitFields, LooseFields
  <2>4. fb.line[id].refs >= Cardinality(all) + One(In(s, id)) + One(~Own(fb, id))
        BY <2>2 DEF Accounted
  <2>5. Cardinality(some) <= Cardinality(all) /\ Cardinality(all) \in Nat
        /\ Cardinality(some) \in Nat
    <3>1. IsFiniteSet(all) /\ Cardinality(all) \in Nat  BY HeldByFinite
    <3>2. some \subseteq all  BY HoldingSlots DEF HeldBy
    <3> HIDE DEF some, all
    <3> QED  BY <3>1, <3>2, FS_Subset, FS_CardinalityType
  <2>6. One(In(s, id)) = IF id \in InText THEN 1 ELSE 0  BY <2>1, <2>2, TextOfList DEF One
  <2>7. One(~Own(fb, id)) \in Nat  BY DEF One
  <2>8. Records(id) = Cardinality(some)  BY DEF Records
  <2> HIDE DEF some, all
  <2> QED  BY <2>3, <2>4, <2>5, <2>6, <2>7, <2>8
<1> QED  BY <1>1, EditInvariance, PTL

\* Whichever way the program ends, it has freed no line twice and read none that
\* it had freed.
THEOREM EditExitsClean == EditSpec => []ExitIsClean
<1>1. IInv => ExitIsClean  BY DEF IInv, ExitIsClean
<1> QED  BY <1>1, EditInvariance, PTL

\* The lines are one doubly linked list from headl to taill, whatever was cut, joined,
\* broken or evicted from the history, and whatever a record still has.
THEOREM EditLinked == EditSpec => []Linked
<1>1. IInv => Linked
  <2> SUFFICES ASSUME IInv, Running
               PROVE  LET s == LinesOf(fb)
                      IN  /\ s[Len(s)] = fb.taill
                          /\ IsInjective(s)
                          /\ \A k \in DOMAIN s :
                                fb.line[s[k]].prevl = IF k = 1 THEN NULL ELSE s[k - 1]
      BY DEF Linked
  <2>1. Fit(fb) /\ Kept(fb, undo_ring.buffer, Slots)  BY NowSane
  <2>2. PICK s : Held(fb, s)  BY <2>1 DEF Kept
  <2>3. Chain(fb, s) /\ fb.fresh \in 1 .. MaxLines + 1  BY <2>1, <2>2, FitFields DEF Held
  <2>4. LinesOf(fb) = s  BY <2>3, LinesChain
  <2>5. DOMAIN s = 1 .. Len(s)  BY <2>3, ChainFacts
  <2>6. IsInjective(s)  BY <2>3, <2>5 DEF Chain, IsInjective
  <2> QED  BY <2>3, <2>4, <2>5, <2>6 DEF Chain
<1> QED  BY <1>1, EditInvariance, PTL

-----------------------------------------------------------------------------
(* What the ring does to a framebuffer that is ready for the next key *)

\* g has the lines of s as f has them, and its cursor and screen where f has them.
Beside(f, g, s) ==
    /\ g.fresh = f.fresh /\ g.headl = f.headl /\ g.taill = f.taill /\ g.fault = f.fault
    /\ SameCursor(f, g) /\ SameScroll(f, g)
    /\ \A i \in 1 .. Len(s) :
          /\ s[i] \in g.alive /\ View(g, s[i]) = View(f, s[i])
          /\ g.line[s[i]].nextl = f.line[s[i]].nextl
          /\ g.line[s[i]].prevl = f.line[s[i]].prevl

\* A framebuffer is still ready when something happened to its other lines.
LEMMA ReadyBeside ==
    ASSUME NEW f, NEW s, NEW ext, Ready(f, s, ext), NEW g \in Frame, Beside(f, g, s),
           NEW x, x.refs \in [LineId -> Nat], \A id \in LineId : id >= g.fresh => x.refs[id] = 0,
           x.gone \subseteq 1 .. g.fresh - 1, g.alive = (1 .. g.fresh - 1) \ x.gone,
           x.low = ext.low, Counted(g, s, x),
           \A id \in LineId : g.line[id].data = id /\ Shaped(View(g, id))
    PROVE  Ready(g, s, x)
<1>1. /\ Sound(f, ext) /\ ~f.fault /\ Chain(f, s) /\ OnList(f, s) /\ Seen(f, s, ext)
      /\ \A i \in 1 .. Len(s) : Good(View(f, s[i]))
      /\ View(f, f.currentl).sog = f.buffer_c
      BY DEF Ready, Tracks
<1>2. /\ g.fresh = f.fresh /\ g.headl = f.headl /\ g.taill = f.taill /\ ~g.fault
      /\ g.currentl = f.currentl /\ g.buffer_r = f.buffer_r /\ g.buffer_c = f.buffer_c
      /\ g.scroll = f.scroll /\ g.scroll_r = f.scroll_r
      BY <1>1 DEF Beside, SameCursor, SameScroll
<1>3. /\ Len(s) \in Nat /\ Len(s) >= 1 /\ f.headl = s[1] /\ f.taill = s[Len(s)]
      /\ 1 \in 1 .. Len(s) /\ Len(s) \in 1 .. Len(s)
      /\ f.scroll = NULL \/ \E i \in 1 .. Len(s) : f.scroll = s[i]
      BY <1>1, ChainFacts DEF Chain, OnList
<1>4. PICK k \in 1 .. Len(s) : f.currentl = s[k]  BY ReadyFields
<1>5. \A i \in 1 .. Len(s) : s[i] \in g.alive /\ View(g, s[i]) = View(f, s[i])  BY DEF Beside
<1>6. Sound(g, x)
  <2>1. /\ g.headl \in g.alive /\ g.taill \in g.alive /\ g.currentl \in g.alive
        /\ g.scroll \in g.alive \cup {NULL}
        BY <1>2, <1>3, <1>4, <1>5
  <2> QED  BY <2>1 DEF Sound
<1>7. Chain(g, s)
  <2>1. /\ s \in Seq(LineId) /\ Len(s) \in Nat /\ Len(s) >= 1 /\ Len(s) < g.fresh
        /\ \A i, j \in 1 .. Len(s) : s[i] = s[j] => i = j
        /\ g.headl = s[1] /\ g.taill = s[Len(s)]
        BY <1>1, <1>2 DEF Chain
  <2>2. \A k1 \in 1 .. Len(s) : g.line[s[k1]].nextl = IF k1 = Len(s) THEN NULL ELSE s[k1 + 1]
        BY <1>1 DEF Chain, Beside
  <2>3. \A k1 \in 1 .. Len(s) : g.line[s[k1]].prevl = IF k1 = 1 THEN NULL ELSE s[k1 - 1]
        BY <1>1 DEF Chain, Beside
  <2> QED  BY <2>1, <2>2, <2>3, <1>5 DEF Chain
<1>8. OnList(g, s) /\ Seen(g, s, x)  BY <1>1, <1>2 DEF OnList, Seen, CursorR
<1>9. View(g, g.currentl).sog = g.buffer_c  BY <1>1, <1>2, <1>4, <1>5
<1> QED  BY <1>1, <1>2, <1>5, <1>6, <1>7, <1>8, <1>9 DEF Ready, Tracks

\* References of a line counted up or down.
LEMMA RefsReady ==
    ASSUME NEW f, NEW s, NEW ext, Ready(f, s, ext), NEW id \in f.alive, NEW r \in Nat,
           NEW n \in Nat,
           f.line[id].refs + n = ext.refs[id] + r
    PROVE  \E x : Ready([f EXCEPT !.line[id].refs = r], s, x)
<1> DEFINE struct == [f.line[id] EXCEPT !.refs = r]
           lines == [f.line EXCEPT ![id] = struct]
           g == [f EXCEPT !.line[id].refs = r]
           refs == [ext.refs EXCEPT ![id] = n]
           x == [refs |-> refs, gone |-> ext.gone, low |-> ext.low]
<1>0. /\ f \in Frame /\ f.line \in [LineId -> LineStruct] /\ f.bytes \in [LineId -> ByteArray]
      /\ f.alive \subseteq LineId /\ id \in LineId /\ f.line[id] \in LineStruct
      /\ f.fresh \in Int /\ MaxLines \in Nat /\ Sound(f, ext)
      /\ ext.refs \in [LineId -> Nat] /\ \A j \in LineId : j >= f.fresh => ext.refs[j] = 0
      /\ ext.gone \subseteq 1 .. f.fresh - 1 /\ f.alive = (1 .. f.fresh - 1) \ ext.gone
      /\ Counted(f, s, ext)
      /\ \A j \in LineId : f.line[j].data = j /\ Shaped(View(f, j))
  <2>1. Sound(f, ext) /\ Counted(f, s, ext)  BY DEF Ready, Tracks
  <2>2. id \in LineId  BY <2>1, SoundFields
  <2>3. /\ f.line \in [LineId -> LineStruct] /\ f.bytes \in [LineId -> ByteArray]
        /\ f.alive \subseteq LineId /\ f.fresh \in 1 .. MaxLines + 1 /\ f.line[id] \in LineStruct
        BY <2>1, <2>2, SoundFields, StructFields
  <2> QED  BY <2>1, <2>2, <2>3, MaxLinesAssumption DEF Sound
<1>1. g = [f EXCEPT !.line = lines]  BY <1>0 DEF Frame
<1>2. /\ struct \in LineStruct /\ struct.refs = r /\ struct.sog = f.line[id].sog
      /\ struct.eog = f.line[id].eog /\ struct.size = f.line[id].size
      /\ struct.data_n = f.line[id].data_n /\ struct.data = f.line[id].data
      /\ struct.prevl = f.line[id].prevl /\ struct.nextl = f.line[id].nextl
      BY <1>0 DEF LineStruct
<1> HIDE DEF struct
<1>3. /\ lines \in [LineId -> LineStruct] /\ lines[id] = struct
      /\ \A j \in LineId : j # id => lines[j] = f.line[j]
      BY <1>0, <1>2
<1>4. refs \in [LineId -> Nat] /\ refs[id] = n /\ \A j \in LineId : j # id => refs[j] = ext.refs[j]
      BY <1>0
<1>5. x.refs = refs /\ x.gone = ext.gone /\ x.low = ext.low  OBVIOUS
<1> HIDE DEF lines, refs, g, x
<1>6. /\ g \in Frame /\ g.line = lines /\ g.bytes = f.bytes /\ g.alive = f.alive
      /\ g.fresh = f.fresh /\ g.headl = f.headl /\ g.taill = f.taill /\ g.fault = f.fault
      /\ SameCursor(f, g) /\ SameScroll(f, g)
      BY <1>0, <1>1, <1>3 DEF Frame, SameCursor, SameScroll
<1>7. \A j \in LineId : /\ View(g, j) = View(f, j) /\ g.line[j].data = j
                        /\ g.line[j].prevl = f.line[j].prevl /\ g.line[j].nextl = f.line[j].nextl
                        /\ j # id => g.line[j].refs = f.line[j].refs
  <2> TAKE j \in LineId
  <2>1. CASE j = id  BY <2>1, <1>0, <1>2, <1>3, <1>6 DEF View
  <2>2. CASE j # id  BY <2>2, <1>0, <1>3, <1>6 DEF View
  <2> QED  BY <2>1, <2>2
<1>8. Beside(f, g, s)
  <2>1. \A i \in 1 .. Len(s) : s[i] \in LineId /\ s[i] \in f.alive  BY ReadyFields
  <2> QED  BY <2>1, <1>6, <1>7 DEF Beside
<1>9. Counted(g, s, x)
  <2>1. ASSUME NEW j \in g.alive
        PROVE  g.line[j].refs = x.refs[j] + IF \E k \in 1 .. Len(s) : s[k] = j THEN 1 ELSE 0
    <3>1. /\ j \in f.alive /\ j \in LineId /\ f.line[j].refs \in Nat /\ ext.refs[j] \in Nat
          /\ f.line[j].refs = ext.refs[j] + IF \E k \in 1 .. Len(s) : s[k] = j THEN 1 ELSE 0
          BY <2>1, <1>0, <1>6, StructFields DEF Counted
    <3>2. CASE j = id
      <4>1. g.line[j].refs = r /\ x.refs[j] = n  BY <3>2, <1>2, <1>3, <1>4, <1>5, <1>6
      <4>2. PICK one \in Nat : one = IF \E k \in 1 .. Len(s) : s[k] = j THEN 1 ELSE 0  OBVIOUS
      <4>3. f.line[j].refs = ext.refs[j] + one  BY <3>1, <4>2
      <4>4. f.line[j].refs + n = ext.refs[j] + r  BY <3>2
      <4>5. r = n + one
        <5>1. PICK a \in Nat, b \in Nat : a = f.line[j].refs /\ b = ext.refs[j]  BY <3>1
        <5>2. a = b + one /\ a + n = b + r  BY <4>3, <4>4, <5>1
        <5> QED  BY <5>2
      <4> QED  BY <4>1, <4>2, <4>5
    <3>3. CASE j # id  BY <3>1, <3>3, <1>4, <1>5, <1>7
    <3> QED  BY <3>2, <3>3
  <2> QED  BY <2>1 DEF Counted
<1>10. \A j \in LineId : j >= g.fresh => x.refs[j] = 0
  <2> SUFFICES ASSUME NEW j \in LineId, j >= g.fresh PROVE x.refs[j] = 0  OBVIOUS
  <2>1. j \in Nat /\ id \in Nat  BY <1>0 DEF LineId
  <2>2. id < f.fresh  BY <1>0
  <2>3. j # id  BY <2>1, <2>2, <1>0, <1>6
  <2> QED  BY <2>3, <1>0, <1>4, <1>5, <1>6
<1>11. \A j \in LineId : g.line[j].data = j /\ Shaped(View(g, j))  BY <1>0, <1>7
<1>12. Ready(g, s, x)
       BY <1>0, <1>4, <1>5, <1>6, <1>8, <1>9, <1>10, <1>11, ReadyBeside
<1> QED  BY <1>12 DEF g

\* free_line() of a line that is not in the list.
LEMMA FreeReady ==
    ASSUME NEW f, NEW s, NEW ext, Ready(f, s, ext), NEW id \in f.alive,
           \A k \in 1 .. Len(s) : s[k] # id
    PROVE  LET g == FreeLine(f, id)
           IN  (\E x : Ready(g, s, x)) /\ g.alive = f.alive \ {id}
<1> DEFINE a == Abandon(f, id)
           struct == NewStruct(id)
           lines == [f.line EXCEPT ![id] = struct]
           arrays == [f.bytes EXCEPT ![id] = EmptyLine.data]
           alive == f.alive \ {id}
           g == FreeLine(f, id)
           x == [refs |-> ext.refs, gone |-> ext.gone \cup {id}, low |-> ext.low]
<1>0. /\ f \in Frame /\ f.line \in [LineId -> LineStruct] /\ f.bytes \in [LineId -> ByteArray]
      /\ f.alive \subseteq LineId /\ id \in LineId /\ ~f.fault
      /\ ext.refs \in [LineId -> Nat] /\ \A j \in LineId : j >= f.fresh => ext.refs[j] = 0
      /\ ext.gone \subseteq 1 .. f.fresh - 1 /\ f.alive = (1 .. f.fresh - 1) \ ext.gone
      /\ Counted(f, s, ext)
      /\ \A j \in LineId : f.line[j].data = j /\ Shaped(View(f, j))
      /\ Readable(f, id)
  <2>1. Sound(f, ext) /\ Counted(f, s, ext) /\ ~f.fault  BY DEF Ready, Tracks
  <2>2. id \in LineId /\ Readable(f, id)  BY <2>1, AliveUsable
  <2>3. /\ f.line \in [LineId -> LineStruct] /\ f.bytes \in [LineId -> ByteArray]
        /\ f.alive \subseteq LineId
        BY <2>1, SoundFields
  <2> QED  BY <2>1, <2>2, <2>3 DEF Sound
<1>1. a = f
  <2> DEFINE h == [k \in LineId |-> IF k # id /\ f.line[k].data = f.line[id].data
                                    THEN [f.line[k] EXCEPT !.data = Dangling] ELSE f.line[k]]
  <2>1. a = [f EXCEPT !.line = h]  BY DEF Abandon
  <2>2. \A k \in LineId : h[k] = f.line[k]  BY <1>0
  <2>3. h = f.line  BY <2>2, <1>0
  <2> HIDE DEF h, a
  <2> QED  BY <2>1, <2>3, <1>0 DEF Frame
<1>2. g = [f EXCEPT !.bytes = arrays, !.line = lines, !.alive = alive]
  <2>1. g = [a EXCEPT !.bytes[f.line[id].data] = EmptyLine.data, !.line[id] = NewStruct(id),
                      !.alive = @ \ {id}]
        BY <1>0 DEF FreeLine, Check
  <2> HIDE DEF a, g
  <2> QED  BY <2>1, <1>0, <1>1 DEF Frame
<1> HIDE DEF a
<1>3. /\ Shaped(EmptyLine) /\ EmptyLine.data \in ByteArray
      /\ EmptyLine = Line(0, InitGapSize - 1, InitGapSize + 1, 0, EmptyLine.data)
  <2>1. Shaped(EmptyLine)  BY EmptyLineGood, GoodIsShaped
  <2>2. EmptyLine.size \in Nat /\ EmptyLine.data \in [0 .. EmptyLine.size - 1 -> Byte]
        BY <2>1, ShapedFields
  <2>3. EmptyLine.data \in ByteArray  BY <2>2 DEF ByteArray
  <2> QED  BY <2>1, <2>3 DEF EmptyLine, Line
<1>4. /\ struct \in LineStruct /\ struct.data = id
      /\ struct.sog = 0 /\ struct.eog = InitGapSize - 1 /\ struct.size = InitGapSize + 1
      /\ struct.data_n = 0
      BY <1>0, InitGapSizeAssumption DEF NewStruct, LineStruct, Link
<1> HIDE DEF struct
<1>5. /\ lines \in [LineId -> LineStruct] /\ lines[id] = struct
      /\ \A j \in LineId : j # id => lines[j] = f.line[j]
      BY <1>0, <1>4
<1>6. /\ arrays \in [LineId -> ByteArray] /\ arrays[id] = EmptyLine.data
      /\ \A j \in LineId : j # id => arrays[j] = f.bytes[j]
      BY <1>0, <1>3
<1>7. alive \in SUBSET LineId /\ alive = (1 .. f.fresh - 1) \ (ext.gone \cup {id})
      /\ ext.gone \cup {id} \subseteq 1 .. f.fresh - 1
      BY <1>0
<1>8. x.refs = ext.refs /\ x.gone = ext.gone \cup {id} /\ x.low = ext.low  OBVIOUS
<1> HIDE DEF lines, arrays, g, x
<1>9. /\ g \in Frame /\ g.line = lines /\ g.bytes = arrays /\ g.alive = alive
      /\ g.fresh = f.fresh /\ g.headl = f.headl /\ g.taill = f.taill /\ g.fault = f.fault
      /\ SameCursor(f, g) /\ SameScroll(f, g)
      BY <1>0, <1>2, <1>5, <1>6, <1>7 DEF Frame, SameCursor, SameScroll
<1>10. \A j \in LineId : /\ j # id => View(g, j) = View(f, j) /\ g.line[j] = f.line[j]
                         /\ g.line[j].data = j /\ Shaped(View(g, j))
  <2> TAKE j \in LineId
  <2>1. CASE j = id
    <3>1. View(g, j) = EmptyLine  BY <2>1, <1>3, <1>4, <1>5, <1>6, <1>9 DEF View
    <3> QED  BY <2>1, <3>1, <1>3, <1>4, <1>5, <1>9
  <2>2. CASE j # id
    <3>1. g.line[j] = f.line[j] /\ g.bytes[j] = f.bytes[j]  BY <2>2, <1>5, <1>6, <1>9
    <3>2. f.line[j].data = j /\ Shaped(View(f, j))  BY <1>0
    <3>3. View(g, j) = View(f, j)  BY <3>1, <3>2 DEF View
    <3> QED  BY <3>1, <3>2, <3>3
  <2> QED  BY <2>1, <2>2
<1>11. Beside(f, g, s)
  <2>1. \A i \in 1 .. Len(s) : s[i] \in LineId /\ s[i] \in alive /\ s[i] # id  BY ReadyFields
  <2> HIDE DEF alive
  <2> QED  BY <2>1, <1>9, <1>10 DEF Beside
<1>12. Counted(g, s, x)
  <2>1. ASSUME NEW j \in g.alive
        PROVE  g.line[j].refs = x.refs[j] + IF \E k \in 1 .. Len(s) : s[k] = j THEN 1 ELSE 0
    <3>1. j \in f.alive /\ j \in LineId /\ j # id  BY <1>0, <1>9
    <3>2. g.line[j] = f.line[j] /\ x.refs = ext.refs  BY <3>1, <1>8, <1>10
    <3> QED  BY <3>1, <3>2, <1>0 DEF Counted
  <2> QED  BY <2>1 DEF Counted
<1>13. \E y : Ready(g, s, y)
  <2> HIDE DEF alive
  <2>1. \A j \in LineId : j >= g.fresh => x.refs[j] = 0  BY <1>0, <1>8, <1>9
  <2>2. x.gone \subseteq 1 .. g.fresh - 1 /\ g.alive = (1 .. g.fresh - 1) \ x.gone
        BY <1>7, <1>8, <1>9
  <2>3. Ready(g, s, x)  BY <1>0, <1>8, <1>9, <1>10, <1>11, <1>12, <2>1, <2>2, ReadyBeside
  <2> QED  BY <2>3
<1> QED  BY <1>9, <1>13 DEF g

\* s is the list that the records and their references are accounted for.
LEMMA ReadyAccounted ==
    ASSUME NEW f, NEW s, NEW ext, Ready(f, s, ext), NEW b, NEW I, Kept(f, b, I)
    PROVE  Accounted(f, s, b, I)
<1>1. PICK t : Held(f, t) /\ Accounted(f, t, b, I)  BY DEF Kept
<1>2. Chain(f, t) /\ Chain(f, s) /\ f.fresh \in 1 .. MaxLines + 1
      BY <1>1, SoundFields DEF Held, Ready, Tracks
<1>3. LinesOf(f) = t /\ LinesOf(f) = s  BY <1>2, LinesChain
<1> QED  BY <1>1, <1>3

\* The lines s are ready in g, and of those of f no other than line was freed.
Calms(f, g, s, line) == (\E x : Ready(g, s, x)) /\ f.alive \ {line} \subseteq g.alive

\* deallocate_cmd() of one of the records.
LEMMA DisposeReady ==
    ASSUME NEW f, NEW s, NEW ext, Ready(f, s, ext), NEW b, NEW I, I \subseteq Slots,
           Kept(f, b, I), NEW i \in I
    PROVE  Calms(f, DeallocateCmd(f, b[i]), s, b[i].dptr)
<1> DEFINE line == b[i].dptr
           g == DeallocateCmd(f, b[i])
           n == Cardinality(HeldBy(b, I \ {i}, line))
<1>1. Sound(f, ext) /\ ~f.fault /\ Counted(f, s, ext)  BY DEF Ready, Tracks
<1>2. Accounted(f, s, b, I)  BY ReadyAccounted
<1>3. line \in f.alive \cup {NULL}  BY <1>2 DEF Accounted
<1>4. Cardinality(HeldBy(b, I, line)) = n + One(line = line) /\ n \in Nat
  <2>1. I \ {i} \subseteq Slots  OBVIOUS
  <2> QED  BY <2>1, HeldByFewer, HeldByFinite
<1> HIDE DEF n
<1>5. CASE line = NULL
  <2>1. g = f  BY <1>5 DEF DeallocateCmd
  <2> QED  BY <2>1 DEF Calms
<1>6. CASE line \in f.alive
  <2>1. line \in LineId /\ line # NULL /\ Usable(f, line)  BY <1>1, <1>6, AliveUsable
  <2>2. /\ f.line[line].refs \in Nat /\ ext.refs[line] \in Nat
        /\ f.line[line].refs = ext.refs[line] + One(In(s, line))
        /\ f.line[line].refs >= n + 1 + One(In(s, line))
        /\ One(In(s, line)) \in 0 .. 1 /\ (One(In(s, line)) = 0 => ~In(s, line))
    <3>1. f.line[line].refs \in Nat  BY <1>1, <2>1, StructFields
    <3>2. ext.refs[line] \in Nat  BY <1>1, <2>1 DEF Sound
    <3>3. f.line[line].refs = ext.refs[line] + One(In(s, line))
          BY <1>1, <1>6 DEF Counted, One, In
    <3>4. f.line[line].refs >= Cardinality(HeldBy(b, I, line)) + One(In(s, line))
                                  + One(~Own(f, line))
          BY <1>2, <1>6 DEF Accounted
    <3>5. One(~Own(f, line)) \in 0 .. 1 /\ One(line = line) = 1  BY DEF One
    <3>6. One(In(s, line)) \in 0 .. 1 /\ (One(In(s, line)) = 0 => ~In(s, line))  BY DEF One
    <3>7. f.line[line].refs >= n + 1 + One(In(s, line))
          BY <3>1, <3>4, <3>5, <3>6, <1>4
    <3> QED  BY <3>1, <3>2, <3>3, <3>6, <3>7
  <2>3. g = IF f.line[line].refs = 1 THEN FreeLine(f, line)
            ELSE [f EXCEPT !.line[line].refs = @ - 1]
        BY <1>1, <2>1 DEF DeallocateCmd, Check
  <2> HIDE DEF g
  <2>4. CASE f.line[line].refs = 1
    <3>1. ~In(s, line)  BY <2>2, <2>4, <1>4
    <3>2. \A k \in 1 .. Len(s) : s[k] # line  BY <3>1 DEF In
    <3> DEFINE h == FreeLine(f, line)
    <3>3. (\E x : Ready(h, s, x)) /\ h.alive = f.alive \ {line}
      <4> PICK id \in f.alive : id = line  BY <1>6
      <4> HIDE DEF line
      <4>1. \A k \in 1 .. Len(s) : s[k] # id  BY <3>2
      <4>2. LET y == FreeLine(f, id) IN (\E x : Ready(y, s, x)) /\ y.alive = f.alive \ {id}
            BY <4>1, FreeReady
      <4> QED  BY <4>2
    <3>4. g = h  BY <2>3, <2>4
    <3> HIDE DEF h
    <3> QED  BY <3>3, <3>4 DEF Calms, g
  <2>5. CASE f.line[line].refs # 1
    <3> PICK id \in f.alive : id = line  BY <1>6
    <3>1. PICK r \in Nat : r = f.line[id].refs - 1  BY <2>2, <2>5, <1>4
    <3>2. PICK k \in Nat : k = ext.refs[id] - 1  BY <2>2, <2>5, <1>4
    <3>3. f.line[id].refs + k = ext.refs[id] + r  BY <2>2, <3>1, <3>2
    <3> DEFINE h == [f EXCEPT !.line[id].refs = r]
    <3>4. \E x : Ready(h, s, x)  BY <3>3, RefsReady
    <3>5. g = h  BY <2>3, <2>5, <3>1
    <3>6. h.alive = f.alive
      <4>1. f \in Frame  BY <1>1 DEF Sound
      <4> QED  BY <4>1 DEF Frame
    <3> HIDE DEF h
    <3> QED  BY <3>4, <3>5, <3>6 DEF Calms, g
  <2> QED  BY <2>4, <2>5
<1> QED  BY <1>3, <1>5, <1>6

\* The reference that a new record counts.
LEMMA NotedReady ==
    ASSUME NEW f, NEW s, NEW ext, Ready(f, s, ext), NEW id, id = NULL \/ id \in f.alive
    PROVE  \E x : Ready(Noted(f, id), s, x)
<1> DEFINE g == Noted(f, id)
<1>1. Sound(f, ext) /\ ~f.fault  BY DEF Ready
<1>2. CASE id = NULL  BY <1>2 DEF Noted
<1>3. CASE id # NULL
  <2>1. id \in f.alive /\ Readable(f, id) /\ id \in LineId  BY <1>1, <1>3, AliveUsable
  <2>2. PICK r \in Nat : r = f.line[id].refs + 1  BY <1>1, <2>1, StructFields
  <2>3. ext.refs[id] \in Nat /\ f.line[id].refs \in Nat  BY <1>1, <2>1, StructFields DEF Sound
  <2>4. PICK n \in Nat : n = ext.refs[id] + 1  BY <2>3
  <2>5. f.line[id].refs + n = ext.refs[id] + r  BY <2>2, <2>3, <2>4
  <2>6. g = [f EXCEPT !.line[id].refs = r]  BY <1>1, <1>3, <2>1, <2>2 DEF Noted, Check
  <2> HIDE DEF g
  <2>7. \E x : Ready([f EXCEPT !.line[id].refs = r], s, x)  BY <2>1, <2>5, RefsReady
  <2> QED  BY <2>6, <2>7 DEF g
<1> QED  BY <1>2, <1>3

\* A line that a record can hold: none, one of the list, or one that was taken out
\* of it and that the record it replaces does not hold.
Holdable(f, s, r, id) ==
    \/ id = NULL
    \/ In(s, id)
    \/ id \in f.alive /\ ~(R!NextDisposes(r) /\ r.buffer[R!NextSlot(r)].dptr = id)

\* add_undoable_at_loc()
LEMMA AddUndoableReady ==
    ASSUME NEW f, NEW s, NEW ext, Ready(f, s, ext), NEW r \in UndoRing, Kept(f, r.buffer, Slots),
           NEW cmd, Holdable(f, s, r, cmd.dptr)
    PROVE  \E x : Ready(AddUndoable(f, r, cmd), s, x)
<1> DEFINE n == R!NextSlot(r)
           id == cmd.dptr
           m == IF R!NextDisposes(r) THEN DeallocateCmd(f, r.buffer[n]) ELSE f
           g == AddUndoable(f, r, cmd)
<1>1. g = Noted(m, id)  BY DEF AddUndoable, Noted
<1>2. n \in Slots
  <2>1. r.head \in Slots  BY DEF UndoRing
  <2> QED  BY <2>1, SuccSlot DEF R!NextSlot
<1>3. (\E x : Ready(m, s, x)) /\ (id \in f.alive => id \in m.alive \/ In(s, id) \/ id = NULL)
  <2>1. CASE R!NextDisposes(r)
    <3> DEFINE h == DeallocateCmd(f, r.buffer[n])
    <3>1. Calms(f, h, s, r.buffer[n].dptr)
      <4> HIDE DEF n, h
      <4> QED  BY <1>2, DisposeReady DEF h
    <3>2. m = h  BY <2>1
    <3> HIDE DEF h, m
    <3> QED  BY <2>1, <3>1, <3>2 DEF Calms, Holdable
  <2>2. CASE ~R!NextDisposes(r)  BY <2>2
  <2> QED  BY <2>1, <2>2
<1> HIDE DEF m, g, id
<1>4. PICK y : Ready(m, s, y)  BY <1>3
<1>5. id = NULL \/ id \in m.alive
  <2>1. In(s, id) => id \in m.alive  BY <1>4, ReadyFields DEF In
  <2> QED  BY <2>1, <1>3 DEF Holdable, id
<1>6. \E x : Ready(Noted(m, id), s, x)  BY <1>4, <1>5, NotedReady
<1> QED  BY <1>1, <1>6 DEF g

\* The bytes of an allocated line are there to be read.
LEMMA LegibleLine ==
    ASSUME NEW f, NEW ext, Sound(f, ext), NEW id \in f.alive
    PROVE  Usable(f, id) /\ Legible(f, id)
<1>1. id \in LineId /\ Usable(f, id) /\ Readable(f, id)  BY AliveUsable
<1>2. f.line[id].data = id /\ View(f, id).size = f.line[id].size /\ View(f, id).data = f.bytes[id]
      /\ Shaped(View(f, id))
      BY <1>1, StructFields, ViewFields
<1>3. f.line[id].size - 1 \in DOMAIN f.bytes[id]
  <2> DEFINE l == View(f, id)
  <2>1. /\ l.sog \in Nat /\ l.eog \in Nat /\ l.size \in Nat /\ l.sog < l.eog /\ l.eog < l.size
        /\ l.data \in [0 .. l.size - 1 -> Byte]
        BY <1>2, ShapedFields
  <2>2. l.size = f.line[id].size /\ l.data = f.bytes[id]  BY <1>2
  <2> HIDE DEF l
  <2>3. l.size - 1 \in 0 .. l.size - 1  BY <2>1
  <2>4. l.size - 1 \in DOMAIN l.data  BY <2>1, <2>3
  <2> QED  BY <2>2, <2>4
<1> QED  BY <1>1, <1>2, <1>3 DEF Legible

\* The screen shows lines of the list, and the program reads nothing that it may not.
LEMMA DrawnReady ==
    ASSUME NEW f, NEW s, NEW ext, Ready(f, s, ext)
    PROVE  Drawn(f) = f
<1> DEFINE n == Rows - 2
           at == Walk(f, f.scroll, n)
           r == f.scroll_r
           T == {i \in 0 .. n : at[i] # IF r + i < Len(s) THEN s[r + i + 1] ELSE NULL}
<1>0. /\ Sound(f, ext) /\ Len(s) \in Nat /\ ~f.fault /\ n \in Nat
      /\ r \in 0 .. Len(s) - 1 /\ f.scroll = s[r + 1]
      /\ \A i \in 1 .. Len(s) : s[i] \in f.alive /\ s[i] \in LineId /\ s[i] # NULL
      /\ f.currentl \in f.alive
  <2>1. /\ Sound(f, ext) /\ ~f.fault /\ r \in 0 .. Len(s) - 1 /\ f.scroll = s[r + 1]
        BY DEF Ready, Seen
  <2> QED  BY <2>1, ReadyFields, RowsAssumption, NULLAssumption
<1>1. \A k \in 1 .. Len(s) : f.line[s[k]].nextl = IF k = Len(s) THEN NULL ELSE s[k + 1]
      BY ReadyFields DEF Chain
<1>2. \A i \in 0 .. n : at[i] = IF i = 0 THEN f.scroll
                                ELSE IF at[i - 1] = NULL THEN NULL ELSE f.line[at[i - 1]].nextl
      BY <1>0, WalkIs DEF WalkFrom
<1> HIDE DEF at, n, r
<1>3. T = {}
  <2> SUFFICES ASSUME T # {} PROVE FALSE  OBVIOUS
  <2>1. T \subseteq Nat  BY <1>0
  <2>2. PICK m \in T : \A y \in 0 .. m - 1 : y \notin T  BY <2>1, LeastNumber
  <2>3. m \in 0 .. n /\ m \in Int /\ at[m] # (IF r + m < Len(s) THEN s[r + m + 1] ELSE NULL)
        BY <2>2, <1>0
  <2>4. m # 0
    <3> SUFFICES ASSUME m = 0 PROVE FALSE  OBVIOUS
    <3>1. at[0] = s[r + 1] /\ r + 0 < Len(s) /\ r + 0 + 1 = r + 1  BY <1>0, <1>2
    <3> QED  BY <3>1, <2>3
  <2>5. m - 1 \in 0 .. n /\ m - 1 \in 0 .. m - 1 /\ r + (m - 1) + 1 = r + m /\ r + m \in Int
        BY <2>3, <2>4, <1>0
  <2>6. at[m - 1] = IF r + (m - 1) < Len(s) THEN s[r + m] ELSE NULL  BY <2>2, <2>5
  <2>7. at[m] = IF at[m - 1] = NULL THEN NULL ELSE f.line[at[m - 1]].nextl
        BY <1>2, <2>3, <2>4
  <2>8. CASE r + (m - 1) < Len(s)
    <3>1. r + m \in 1 .. Len(s)  BY <2>3, <2>4, <2>8, <1>0
    <3>2. at[m - 1] = s[r + m] /\ at[m - 1] # NULL  BY <3>1, <2>6, <2>8, <1>0
    <3>3. at[m] = IF r + m = Len(s) THEN NULL ELSE s[r + m + 1]
          BY <3>1, <3>2, <2>7, <1>1
    <3> QED  BY <3>1, <3>3, <2>3, <1>0
  <2>9. CASE ~(r + (m - 1) < Len(s))
    <3>1. at[m] = NULL /\ ~(r + m < Len(s))  BY <2>3, <2>6, <2>7, <2>9, <1>0
    <3> QED  BY <3>1, <2>3
  <2> QED  BY <2>8, <2>9
<1>4. ASSUME NEW i \in 0 .. n, at[i] # NULL PROVE at[i] \in f.alive
  <2>1. at[i] = IF r + i < Len(s) THEN s[r + i + 1] ELSE NULL  BY <1>3
  <2>2. r + i < Len(s) /\ r + i + 1 \in 1 .. Len(s)  BY <2>1, <1>0, <1>4
  <2> QED  BY <2>1, <2>2, <1>0
<1>5. \A id \in f.alive : Usable(f, id) /\ Legible(f, id)  BY <1>0, LegibleLine
<1> QED  BY <1>0, <1>4, <1>5 DEF Drawn, Check, at, n

\* No two structs share their bytes, and it does not matter where a realloc puts them.
LEMMA MovesReady ==
    ASSUME NEW s, NEW ext, Ready(fb, s, ext)
    PROVE  Moves = {FALSE}
<1>1. Sound(fb, ext) /\ fb.alive \subseteq LineId  BY SoundFields DEF Ready
<1>2. \A i \in fb.alive : fb.line[i].data = i  BY <1>1 DEF Sound
<1> QED  BY <1>2 DEF Moves, Shared

-----------------------------------------------------------------------------
(* An edit, with its record *)

\* An edit that leaves the lines s ready.
Calm(e, s) == Sane(e) /\ \E x : Ready(e.fb, s, x)

\* A record that can hold its line.
LEMMA RecordedCalm ==
    ASSUME NEW e, Sane(e), NEW f, Fit(f), Kept(f, e.ring.buffer, Slots),
           NEW s, NEW ext, Ready(f, s, ext), NEW cmd \in CmdStruct,
           Holdable(f, s, e.ring, cmd.dptr), NEW before
    PROVE  Calm(Recorded(e, f, cmd, before), s)
<1> DEFINE g == AddUndoable(f, e.ring, cmd)
           h == Recorded(e, f, cmd, before)
<1>1. ~f.fault  BY DEF Ready
<1>2. h.fb = g  BY <1>1 DEF Recorded
<1>3. Sane(h)  BY RecordedSane
<1>4. e.ring \in UndoRing  BY DEF Sane
<1>5. \E x : Ready(g, s, x)  BY <1>4, AddUndoableReady
<1> HIDE DEF g, h
<1> QED  BY <1>2, <1>3, <1>5 DEF Calm, h

\* A character and its record.
LEMMA TypedCalm ==
    ASSUME NEW e, NEW s, Calm(e, s), NEW ch \in Char
    PROVE  Calm(Typed(e, ch, FALSE), s)
<1> DEFINE f == e.fb
           cmd == Cmd("INSERT_C", NUL, NULL, f, f.buffer_r, f.buffer_c)
           r == Recorded(e, f, cmd, Look(f))
           m == r.fb
           x == InsertChar(m, m.currentl, ch, FALSE)
           h == Typed(e, ch, FALSE)
<1>1. Sane(e) /\ Fit(f)  BY DEF Calm, Sane
<1>2. PICK ext : Ready(f, s, ext)  BY DEF Calm
<1>3. Kept(f, e.ring.buffer, Slots)  BY <1>1, <1>2 DEF Sane, Ready
<1>4. cmd \in CmdStruct /\ cmd.dptr = NULL
  <2>1. f.buffer_r \in Int /\ f.buffer_c \in Nat  BY <1>1, FitFields
  <2>2. cmd \in CmdStruct  BY <1>1, <2>1, CmdTyped DEF CmdName
  <2> QED  BY <2>2 DEF Cmd
<1>5. Holdable(f, s, e.ring, cmd.dptr)  BY <1>4 DEF Holdable
<1>6. Calm(r, s)
  <2> HIDE DEF cmd
  <2> QED  BY <1>1, <1>2, <1>3, <1>4, <1>5, RecordedCalm
<1>7. PICK y : Ready(m, s, y)  BY <1>6 DEF Calm
<1>8. Ready(x, s, y)  BY <1>7, TypeReady
<1>9. h.fb = x
  <2>1. r = [fb |-> r.fb, ring |-> r.ring, saved |-> r.saved]  BY DEF Recorded
  <2>2. ~m.fault  BY <1>7 DEF Ready
  <2>3. h = [r EXCEPT !.fb = IF m.fault THEN m ELSE x]  BY DEF Typed
  <2> HIDE DEF r, x, h
  <2> QED  BY <2>1, <2>2, <2>3
<1>10. Sane(h)  BY <1>1, TypedSane
<1> HIDE DEF x, h
<1> QED  BY <1>8, <1>9, <1>10 DEF Calm, h

\* The tab key.
LEMMA SpacesCalm ==
    ASSUME NEW s, Calm(Now, s)
    PROVE  Calm(Spaces(FALSE), s)
<1> DEFINE n == TabWidth
           e == Now
           typed == CHOOSE a : SpacesFrom(e, FALSE, n, a)
<1>0. n \in Nat /\ Space \in Char  BY TabAssumption
<1>1. SpacesFrom(e, FALSE, n, typed)  BY <1>0, SpacesExist
<1>2. Spaces(FALSE) = typed[n]  BY DEF Spaces, SpacesFrom
<1> HIDE DEF typed, e
<1>3. \A k \in 0 .. n : typed[k] = IF k = 0 THEN e ELSE Typed(typed[k - 1], Space, FALSE)
      BY <1>1 DEF SpacesFrom
<1> DEFINE T == {k \in 0 .. n : ~Calm(typed[k], s)}
<1>4. T = {}
  <2> SUFFICES ASSUME T # {} PROVE FALSE  OBVIOUS
  <2>1. T \subseteq Nat  BY <1>0
  <2>2. PICK m \in T : \A y \in 0 .. m - 1 : y \notin T  BY <2>1, LeastNumber
  <2>3. m \in 0 .. n /\ ~Calm(typed[m], s)  BY <2>2
  <2>4. m # 0  BY <2>3, <1>0, <1>3 DEF e
  <2>5. m - 1 \in 0 .. m - 1 /\ m - 1 \in 0 .. n  BY <2>3, <2>4, <1>0
  <2>6. Calm(typed[m - 1], s)  BY <2>2, <2>5
  <2>7. typed[m] = Typed(typed[m - 1], Space, FALSE)  BY <2>3, <2>4, <1>3
  <2> QED  BY <1>0, <2>3, <2>6, <2>7, TypedCalm
<1>5. n \in 0 .. n  BY <1>0
<1> QED  BY <1>2, <1>4, <1>5

-----------------------------------------------------------------------------
(* The careful keys *)

\* The editor runs, and its framebuffer is ready for the next key.
ReadyNow(s, x) == Running /\ Ready(fb, s, x)

\* What holds between two careful keys.
Care == IInv /\ \E s, x : ReadyNow(s, x)

\* The edit that a careful key starts from.
LEMMA NowCalm ==
    ASSUME IInv, NEW s, NEW x, ReadyNow(s, x)
    PROVE  /\ Calm(Now, s) /\ Sane(Now) /\ Now.ring = undo_ring
           /\ Ready(fb, s, x) /\ Running /\ Fit(fb) /\ ~fb.fault
           /\ Kept(fb, undo_ring.buffer, Slots)
<1>1. Running /\ Ready(fb, s, x)  BY DEF ReadyNow
<1>2. /\ Sane(Now) /\ Now.fb = fb /\ Now.ring = undo_ring
      /\ Fit(fb) /\ ~fb.fault /\ Kept(fb, undo_ring.buffer, Slots)
      BY <1>1, NowSane
<1> QED  BY <1>1, <1>2 DEF Calm

\* What is drawn after a key that moves is what the key left ...
LEMMA MovingCalm ==
    ASSUME Running, NEW f, NEW s, NEW x, Ready(f, s, x), NEW to, Moving(f, to)
    PROVE  \E t, y : ReadyNow(t, y)'
<1>1. Drawn(f) = f /\ ~f.fault  BY DrawnReady DEF Ready
<1>2. fb' = f /\ ended' = ended  BY <1>1 DEF Moving, Show
<1>3. Running' /\ Ready(fb', s, x)  BY <1>1, <1>2 DEF Running
<1> QED  BY <1>3 DEF ReadyNow

\* ... and so it is after one that edits.
LEMMA EditingCalm ==
    ASSUME Running, NEW e, NEW s, Calm(e, s), NEW n, NEW to, Editing(e, n, to)
    PROVE  \E t, y : ReadyNow(t, y)'
<1>0. PICK x : Ready(e.fb, s, x)  BY DEF Calm
<1>1. Drawn(e.fb) = e.fb /\ ~e.fb.fault  BY <1>0, DrawnReady DEF Ready
<1>2. fb' = e.fb /\ ended' = ended  BY <1>1 DEF Editing, Show
<1>3. Running' /\ Ready(fb', s, x)  BY <1>0, <1>1, <1>2 DEF Running
<1> QED  BY <1>3 DEF ReadyNow

\* The return key of command mode goes to the next line and does not scroll.
LEMMA EnterCalm ==
    ASSUME IInv, NEW s, NEW x, ReadyNow(s, x), Current.nextl # NULL
    PROVE  \E y : Ready(CursorDown(fb), s, y)
<1> DEFINE g == CursorDown(fb)
           y == [refs |-> x.refs, gone |-> x.gone, low |-> x.low + 1]
<1>1. Ready(fb, s, x)  BY DEF ReadyNow
<1>2. PICK k \in 1 .. Len(s) :
         /\ k \in Nat /\ fb.buffer_r = k - 1 /\ fb.currentl = s[k]
         /\ fb.line[s[k]].nextl = IF k = Len(s) THEN NULL ELSE s[k + 1]
      BY <1>1, ReadyFields
<1>3. Len(s) \in Nat  BY <1>1, ReadyFields
<1>4. k # Len(s)  BY <1>2 DEF Current
<1>5. PICK j \in 1 .. Len(s) : j = k + 1 /\ j - 1 = k  BY <1>2, <1>3, <1>4
<1>6. /\ Sound(fb, x) /\ ~fb.fault /\ Tracks(fb, s, x) /\ Seen(fb, s, x)
      /\ \A i \in 1 .. Len(s) : Good(View(fb, s[i]))
      /\ View(fb, fb.currentl).sog = fb.buffer_c
      BY <1>1 DEF Ready
<1>7. y.refs = x.refs /\ y.gone = x.gone /\ y.low = x.low + 1  OBVIOUS
<1> HIDE DEF y, g
<1>8. /\ x.low \in Nat /\ x.low >= Rows - 2 /\ Rows \in Nat
      /\ fb.scroll_r \in 0 .. Len(s) - 1 /\ fb.scroll = s[fb.scroll_r + 1]
      /\ fb.buffer_r - fb.scroll_r \in 0 .. x.low
      BY <1>6, RowsAssumption DEF Seen, CursorR
<1>9. y.low \in Nat /\ y.low >= Rows - 2  BY <1>7, <1>8
<1>10. Sound(fb, y)  BY <1>6, <1>7 DEF Sound
<1>11. Tracks(fb, s, y)  BY <1>6, <1>7 DEF Tracks, Counted
<1>12. Seen(fb, s, y)
  <2>1. fb.buffer_r - fb.scroll_r \in 0 .. y.low  BY <1>7, <1>8
  <2> QED  BY <2>1, <1>8, <1>9 DEF Seen, CursorR
<1>13. Ready(fb, s, y)  BY <1>6, <1>10, <1>11, <1>12 DEF Ready
<1>14. SameList(fb, fb) /\ SameRow(fb, fb)  BY DEF SameList, SameRow
<1>15. /\ Sound(g, y) /\ SameScroll(fb, g)
       /\ ~g.fault => Tracks(g, s, y)
       /\ j \in 1 .. Len(s) /\ Good(View(fb, s[j])) => Entered(fb, g, s[j], j - 1)
  <2>1. g = CursorDown(fb) /\ j = k + 1 /\ j \in Int  BY <1>5 DEF g
  <2>2. fb.buffer_r = k - 1 /\ fb.currentl = s[k]  BY <1>2
  <2> QED  BY <2>1, <2>2, <1>6, <1>10, <1>11, <1>14, ScrolledMove
<1>16. Entered(fb, g, s[j], j - 1)  BY <1>6, <1>15
<1>17. ~g.fault /\ g.buffer_r = k  BY <1>5, <1>16 DEF Entered
<1>18. Seen(g, s, y)
  <2>1. PICK d \in 0 .. x.low : d = fb.buffer_r - fb.scroll_r  BY <1>8
  <2>2. d + 1 \in 0 .. y.low  BY <2>1, <1>7, <1>8
  <2>3. g.buffer_r - fb.scroll_r = d + 1
    <3>1. PICK r \in Int : r = fb.scroll_r  BY <1>3, <1>8
    <3>2. g.buffer_r = k /\ d = k - 1 - r /\ k \in Nat  BY <2>1, <3>1, <1>2, <1>17
    <3> QED  BY <3>1, <3>2
  <2> QED  BY <2>2, <2>3, <1>8, <1>9, <1>15 DEF Seen, CursorR, SameScroll
<1>19. Ready(g, s, y)  BY <1>13, <1>15, <1>16, <1>17, <1>18, ReadyEnter
<1> QED  BY <1>19 DEF g

\* The keys that move, or only change the mode.
LEMMA MoveCalm ==
    ASSUME IInv, NEW s, NEW x, ReadyNow(s, x),
           EnterInsert \/ Left \/ Right \/ Down \/ Up \/ Enter \/ StartDelete
           \/ LeaveInsert \/ LeaveDelete
    PROVE  \E t, y : ReadyNow(t, y)'
<1>1. Ready(fb, s, x) /\ Running  BY DEF ReadyNow
<1>2. CASE EnterInsert \/ StartDelete \/ LeaveInsert \/ LeaveDelete
  <2>1. PICK to : Moving(fb, to)
        BY <1>2 DEF EnterInsert, StartDelete, LeaveInsert, LeaveDelete
  <2> QED  BY <2>1, <1>1, MovingCalm
<1>3. CASE Left
  <2>1. Moving(CursorLeft(fb), mode) /\ fb.buffer_c # 0  BY <1>3 DEF Left
  <2>2. Ready(CursorLeft(fb), s, x)  BY <2>1, <1>1, LeftReady
  <2> QED  BY <2>1, <2>2, <1>1, MovingCalm
<1>4. CASE Right
  <2>1. Moving(CursorRight(fb), mode) /\ fb.buffer_c + 1 <= fb.line[fb.currentl].data_n
        BY <1>4 DEF Right, Current
  <2>2. View(fb, fb.currentl).data_n = fb.line[fb.currentl].data_n
        BY <1>1, SoundFields, ViewFields DEF Ready
  <2>3. fb.buffer_c + 1 <= View(fb, fb.currentl).data_n  BY <2>1, <2>2
  <2>4. Ready(CursorRight(fb), s, x)  BY <2>3, <1>1, RightReady
  <2> QED  BY <2>1, <2>4, <1>1, MovingCalm
<1>5. PICK k \in 1 .. Len(s) :
         /\ k \in Nat /\ fb.buffer_r = k - 1 /\ fb.currentl = s[k]
         /\ fb.line[s[k]].nextl = IF k = Len(s) THEN NULL ELSE s[k + 1]
         /\ fb.line[s[k]].prevl = IF k = 1 THEN NULL ELSE s[k - 1]
      BY <1>1, ReadyFields
<1>6. Len(s) \in Nat  BY <1>1, ReadyFields
<1>7. CASE Down
  <2>1. Moving(RowDown(fb), mode) /\ fb.line[s[k]].nextl # NULL  BY <1>5, <1>7 DEF Down, Current
  <2>2. k + 1 <= Len(s)  BY <2>1, <1>5, <1>6
  <2>3. fb.buffer_r = k - 1 /\ fb.currentl = s[k]  BY <1>5
  <2>4. Ready(RowDown(fb), s, x)  BY <2>2, <2>3, <1>1, DownReady
  <2> QED  BY <2>1, <2>4, <1>1, MovingCalm
<1>8. CASE Up
  <2>1. Moving(RowUp(fb), mode) /\ fb.line[s[k]].prevl # NULL  BY <1>5, <1>8 DEF Up, Current
  <2>2. k >= 2  BY <2>1, <1>5, <1>6
  <2>3. fb.buffer_r = k - 1 /\ fb.currentl = s[k]  BY <1>5
  <2>4. Ready(RowUp(fb), s, x)  BY <2>2, <2>3, <1>1, UpReady
  <2> QED  BY <2>1, <2>4, <1>1, MovingCalm
<1>9. CASE Enter
  <2>1. Moving(CursorDown(fb), mode) /\ Current.nextl # NULL  BY <1>9 DEF Enter
  <2>2. \E y : Ready(CursorDown(fb), s, y)  BY <2>1, EnterCalm
  <2> QED  BY <2>1, <2>2, <1>1, MovingCalm
<1> QED  BY <1>2, <1>3, <1>4, <1>7, <1>8, <1>9

\* An edit that leaves lines that are ready, with a record that can hold its line.
LEMMA EditCalm ==
    ASSUME IInv, Running, NEW f, Fit(f), Kept(f, undo_ring.buffer, Slots),
           NEW t, NEW y, Ready(f, t, y), NEW cmd \in CmdStruct,
           Holdable(f, t, undo_ring, cmd.dptr), NEW n, NEW to,
           Editing(Recorded(Now, f, cmd, Look(fb)), n, to)
    PROVE  \E u, z : ReadyNow(u, z)'
<1>1. Sane(Now) /\ Now.ring = undo_ring  BY NowSane
<1> HIDE DEF Now
<1>2. Calm(Recorded(Now, f, cmd, Look(fb)), t)  BY <1>1, RecordedCalm
<1> HIDE DEF Recorded
<1> QED  BY <1>2, EditingCalm

\* The current line is one of the list.
LEMMA CurrentIn ==
    ASSUME NEW f, NEW s, NEW x, Ready(f, s, x)
    PROVE  In(s, f.currentl)
BY ReadyFields DEF In

\* A line opened or broken.
LEMMA AddedCalm ==
    ASSUME IInv, NEW s, NEW x, ReadyNow(s, x), RoomToOpen,
           NEW f, f = OpenLine(fb) \/ f = BreakLine(fb), NEW to, Editing(Added(f), 1, to)
    PROVE  \E t, y : ReadyNow(t, y)'
<1> DEFINE cmd == Cmd("ADDL", NUL, f.currentl, f, fb.buffer_r, fb.buffer_c)
<1>1. /\ Ready(fb, s, x) /\ Running /\ Fit(fb) /\ ~fb.fault
      /\ Kept(fb, undo_ring.buffer, Slots)
      BY NowCalm
<1>2. fb.fresh \in LineId
  <2>1. fb.fresh \in 1 .. MaxLines + 1 /\ fb.fresh <= MaxLines  BY <1>1, FitFields DEF RoomToOpen
  <2> QED  BY <2>1, MaxLinesAssumption DEF LineId
<1>3. PICK k \in 1 .. Len(s) : fb.buffer_r = k - 1 /\ fb.currentl = s[k]  BY <1>1, ReadyFields
<1>4. \E t : Ready(f, t, x)
  <2>1. CASE f = OpenLine(fb)
    <3>1. Ready(OpenLine(fb), InsertAt(s, k + 1, fb.fresh), x)  BY <1>1, <1>2, <1>3, OpenReady
    <3> QED  BY <2>1, <3>1
  <2>2. CASE f = BreakLine(fb)
    <3>1. Ready(BreakLine(fb), InsertAt(s, k + 1, fb.fresh), x)  BY <1>1, <1>2, <1>3, BreakReady
    <3> QED  BY <2>2, <3>1
  <2> QED  BY <2>1, <2>2
<1>5. PICK t : Ready(f, t, x)  BY <1>4
<1>6. ~f.fault  BY <1>5 DEF Ready
<1>7. \A u : Held(fb, u) => Grows(fb, f, u)  BY <1>1, <1>2, OpenGrows, BreakGrows
<1>8. Fit(f)  BY <1>1, <1>7 DEF Kept, Grows
<1>9. Kept(f, undo_ring.buffer, Slots)  BY <1>1, <1>6, <1>7, GrowsKept
<1>10. f.currentl \in LineId /\ fb.buffer_r \in Int /\ fb.buffer_c \in Nat
       BY <1>1, <1>8, FitFields
<1>11. cmd \in CmdStruct /\ cmd.dptr = f.currentl
  <2>1. cmd \in CmdStruct  BY <1>8, <1>10, CmdTyped DEF CmdName
  <2> QED  BY <2>1 DEF Cmd
<1>12. Editing(Recorded(Now, f, cmd, Look(fb)), 1, to)  BY DEF Added
<1> HIDE DEF cmd
<1>13. Holdable(f, t, undo_ring, cmd.dptr)  BY <1>5, <1>11, CurrentIn DEF Holdable
<1> QED  BY <1>1, <1>5, <1>8, <1>9, <1>11, <1>12, <1>13, EditCalm

\* The keys that add a line.
LEMMA AddCalm ==
    ASSUME IInv, NEW s, NEW x, ReadyNow(s, x), Open \/ Break
    PROVE  \E t, y : ReadyNow(t, y)'
<1>1. RoomToOpen  BY DEF Open, Break
<1>2. CASE Open
  <2>1. Editing(Added(OpenLine(fb)), 1, "INSERT")  BY <1>2 DEF Open
  <2> QED  BY <1>1, <2>1, AddedCalm
<1>3. CASE Break
  <2>1. Editing(Added(BreakLine(fb)), 1, mode)  BY <1>3 DEF Break
  <2> QED  BY <1>1, <2>1, AddedCalm
<1> QED  BY <1>2, <1>3

\* The keys that type.
LEMMA TypeCalm ==
    ASSUME IInv, NEW s, NEW x, ReadyNow(s, x), (\E ch \in Char : Type(ch)) \/ Tab
    PROVE  \E t, y : ReadyNow(t, y)'
<1>1. Calm(Now, s) /\ Running /\ Ready(fb, s, x)  BY NowCalm
<1>2. Moves = {FALSE}  BY <1>1, MovesReady
<1> HIDE DEF Now
<1>3. CASE \E ch \in Char : Type(ch)
  <2>1. PICK ch \in Char : Type(ch)  BY <1>3
  <2>2. Editing(Typed(Now, ch, FALSE), 1, mode)  BY <1>2, <2>1 DEF Type
  <2>3. Calm(Typed(Now, ch, FALSE), s)  BY <1>1, TypedCalm
  <2> QED  BY <1>1, <2>2, <2>3, EditingCalm
<1>4. CASE Tab
  <2>1. Editing(Spaces(FALSE), TabWidth, mode)  BY <1>2, <1>4 DEF Tab
  <2>2. Calm(Spaces(FALSE), s)  BY <1>1, SpacesCalm
  <2> QED  BY <1>1, <2>1, <2>2, EditingCalm
<1> QED  BY <1>3, <1>4

\* The key that erases a character.
LEMMA EraseCalm ==
    ASSUME IInv, NEW s, NEW x, ReadyNow(s, x), Erase
    PROVE  \E t, y : ReadyNow(t, y)'
<1> DEFINE f == BackspaceChar(fb, fb.currentl)
           c == IF f.fault THEN NUL ELSE Backspaced(fb)
           cmd == Cmd("BACKSPACE_C", c, NULL, f, f.buffer_r, f.buffer_c)
<1>1. /\ Ready(fb, s, x) /\ Running /\ Fit(fb) /\ ~fb.fault
      /\ Kept(fb, undo_ring.buffer, Slots)
      BY NowCalm
<1>2. fb.buffer_c # 0 /\ Editing(Recorded(Now, f, cmd, Look(fb)), 1, mode)  BY DEF Erase
<1>3. Ready(f, s, x)  BY <1>1, <1>2, EraseReady
<1>4. ~f.fault  BY <1>3 DEF Ready
<1>5. Own(fb, fb.currentl)  BY <1>1, HeldFields DEF Kept
<1>6. Steady(fb, f) /\ f.currentl = fb.currentl /\ (~f.fault => Backspaced(fb) \in Byte)
      BY <1>1, <1>5, BackspaceSteady
<1>7. c \in Char \cup {NUL}  BY <1>6 DEF Byte
<1> HIDE DEF f, c
<1>8. Fit(f) /\ Kept(f, undo_ring.buffer, Slots)  BY <1>1, <1>4, <1>6, SteadyKept
<1>9. f.buffer_r \in Int /\ f.buffer_c \in Nat  BY <1>8, FitFields
<1>10. cmd \in CmdStruct /\ cmd.dptr = NULL
  <2>1. cmd \in CmdStruct  BY <1>7, <1>8, <1>9, CmdTyped DEF CmdName
  <2> QED  BY <2>1 DEF Cmd
<1> HIDE DEF cmd
<1>11. Holdable(f, s, undo_ring, cmd.dptr)  BY <1>10 DEF Holdable
<1> QED  BY <1>1, <1>2, <1>3, <1>8, <1>10, <1>11, EditCalm

\* The last line, where it is not the only one: it has one above.
LEMMA AtEndFields ==
    ASSUME NEW s, NEW x, Ready(fb, s, x), AtEnd, fb.currentl # fb.headl
    PROVE  \E k \in 1 .. Len(s) : /\ fb.buffer_r = k - 1 /\ fb.currentl = s[k]
                                  /\ k >= 2 /\ k = Len(s) /\ fb.scroll # s[k]
<1>1. PICK k \in 1 .. Len(s) :
         /\ k \in Nat /\ fb.buffer_r = k - 1 /\ fb.currentl = s[k]
         /\ fb.line[s[k]].nextl = IF k = Len(s) THEN NULL ELSE s[k + 1]
      BY ReadyFields
<1>2. /\ Len(s) \in Nat /\ fb.headl = s[1]
      /\ \A i \in 1 .. Len(s) : s[i] # NULL
  <2>1. Chain(fb, s) /\ Len(s) \in Nat /\ \A i \in 1 .. Len(s) : s[i] \in LineId  BY ReadyFields
  <2>2. fb.headl = s[1]  BY <2>1 DEF Chain
  <2> QED  BY <2>1, <2>2, NULLAssumption
<1>3. fb.line[s[k]].nextl = NULL /\ fb.scroll # s[k]  BY <1>1 DEF AtEnd, Current
<1>4. k = Len(s)
  <2> SUFFICES ASSUME k # Len(s) PROVE FALSE  OBVIOUS
  <2>1. k + 1 \in 1 .. Len(s)  BY <1>1, <1>2
  <2>2. fb.line[s[k]].nextl = s[k + 1]  BY <1>1
  <2> QED  BY <2>1, <2>2, <1>2, <1>3
<1>5. k # 1  BY <1>1, <1>2
<1>6. k >= 2  BY <1>1, <1>5
<1> QED  BY <1>1, <1>3, <1>4, <1>6

\* A line joined to the one above, or deleted, with its record.
LEMMA ShortenedCalm ==
    ASSUME IInv, Running, NEW f, \A s : Held(fb, s) => Shrinks(fb, f, s, fb.currentl),
           NEW t, NEW y, Ready(f, t, y), NEW name \in CmdName, NEW line \in LineId,
           Holdable(f, t, undo_ring, line), NEW n, NEW to,
           Editing(Recorded(Now, f, Cmd(name, NUL, line, f, f.buffer_r, f.buffer_c), Look(fb)),
                   n, to)
    PROVE  \E u, z : ReadyNow(u, z)'
<1> DEFINE cmd == Cmd(name, NUL, line, f, f.buffer_r, f.buffer_c)
<1>1. Fit(fb) /\ ~fb.fault /\ Kept(fb, undo_ring.buffer, Slots)  BY NowSane
<1>2. ~f.fault  BY DEF Ready
<1>3. Fit(f)  BY <1>1 DEF Kept, Shrinks
<1>4. \A s : Held(fb, s) => In(s, fb.currentl)  BY DEF Held, In
<1>5. Kept(f, undo_ring.buffer, Slots)  BY <1>1, <1>2, <1>4, ShrinksKept
<1>6. f.buffer_r \in Int /\ f.buffer_c \in Nat  BY <1>3, FitFields
<1>7. cmd \in CmdStruct /\ cmd.dptr = line
  <2>1. cmd \in CmdStruct  BY <1>3, <1>6, CmdTyped
  <2> QED  BY <2>1 DEF Cmd
<1>8. Editing(Recorded(Now, f, cmd, Look(fb)), n, to)  OBVIOUS
<1> HIDE DEF cmd
<1>9. Holdable(f, t, undo_ring, cmd.dptr)  BY <1>7
<1> QED  BY <1>3, <1>5, <1>7, <1>8, <1>9, EditCalm

\* The key that joins two lines, at the end of the text.
LEMMA JoinCalm ==
    ASSUME IInv, NEW s, NEW x, ReadyNow(s, x), AtEnd, Join
    PROVE  \E t, y : ReadyNow(t, y)'
<1> DEFINE f == JoinLine(fb, FALSE)
<1>1. Ready(fb, s, x) /\ Running /\ Fit(fb) /\ ~fb.fault  BY NowCalm
<1>2. Moves = {FALSE}  BY <1>1, MovesReady
<1>3. /\ fb.currentl # fb.headl
      /\ Editing(Recorded(Now, f, Cmd("DELL", NUL, f.currentl, f, f.buffer_r, f.buffer_c),
                          Look(fb)), 1, mode)
      BY <1>2 DEF Join
<1>4. PICK k \in 1 .. Len(s) : /\ fb.buffer_r = k - 1 /\ fb.currentl = s[k]
                               /\ k >= 2 /\ k = Len(s) /\ fb.scroll # s[k]
      BY <1>1, <1>3, AtEndFields
<1>5. JoinsLast(fb, JoinLine(fb, FALSE), s, k, x)  BY <1>1, <1>4, JoinReady
<1>6. \A u : Held(fb, u) => Shrinks(fb, f, u, fb.currentl)  BY <1>1, <1>3, JoinShrinks
<1> HIDE DEF f
<1>7. Ready(f, RemoveAt(s, k), x)  BY <1>5 DEF JoinsLast, f
<1> PICK t : Ready(f, t, x)  BY <1>7
<1>8. f.currentl \in LineId /\ Holdable(f, t, undo_ring, f.currentl) /\ "DELL" \in CmdName
      BY ReadyFields, CurrentIn DEF Holdable, CmdName
<1> QED  BY <1>1, <1>3, <1>6, <1>8, ShortenedCalm

\* dd of the last line, which the record about to be evicted does not hold.
LEMMA DeleteCalm ==
    ASSUME IInv, NEW s, NEW x, ReadyNow(s, x), AtEnd, fb.currentl # fb.headl,
           ~EvictsHolderOf(fb.currentl), Delete
    PROVE  \E t, y : ReadyNow(t, y)'
<1> DEFINE f == DeleteLine(fb)
<1>1. Ready(fb, s, x) /\ Running /\ Fit(fb) /\ ~fb.fault /\ Kept(fb, undo_ring.buffer, Slots)
      BY NowCalm
<1>2. /\ CutlReturns(fb) # "NONE_DELETED"
      /\ Editing(Recorded(Now, f, Cmd("DD", NUL, fb.currentl, f, f.buffer_r, f.buffer_c),
                          Look(fb)), 1, "COMMAND")
      BY DEF Delete
<1>3. PICK k \in 1 .. Len(s) : /\ fb.buffer_r = k - 1 /\ fb.currentl = s[k]
                               /\ k >= 2 /\ k = Len(s) /\ fb.scroll # s[k]
      BY <1>1, AtEndFields
<1>4. Ready(f, RemoveAt(s, k), x)  BY <1>1, <1>3, DeleteReady
<1>5. f = Cutl(fb)  BY <1>2 DEF DeleteLine
<1> HIDE DEF f
<1>6. \A u : Held(fb, u) => Shrinks(fb, f, u, fb.currentl)  BY <1>1, <1>2, <1>5, CutShrinks
<1> PICK t : Ready(f, t, x)  BY <1>4
<1>7. f.alive = fb.alive
  <2>1. ~f.fault  BY DEF Ready
  <2> QED  BY <2>1, <1>1, <1>6 DEF Kept, Shrinks
<1>8. fb.currentl \in LineId /\ fb.currentl \in fb.alive /\ "DD" \in CmdName
      BY <1>1, ReadyFields DEF CmdName
<1>9. Holdable(f, t, undo_ring, fb.currentl)  BY <1>7, <1>8 DEF Holdable, EvictsHolderOf
<1> QED  BY <1>1, <1>2, <1>6, <1>8, <1>9, ShortenedCalm

\* Every careful key but u finds and leaves a framebuffer that is ready.
LEMMA CareStep == Care /\ [CarefulEdits]_vars => Care'
<1> SUFFICES ASSUME Care, CarefulEdits \/ UNCHANGED vars PROVE Care'  OBVIOUS
<1>1. PICK s, x : ReadyNow(s, x)  BY DEF Care
<1>2. IInv  BY DEF Care
<1>3. CASE UNCHANGED vars
  <2>1. IInv'  BY <1>2, <1>3, EditIInv
  <2>2. fb' = fb /\ ended' = ended  BY <1>3 DEF vars
  <2>3. ReadyNow(s, x)'  BY <1>1, <2>2 DEF ReadyNow, Running
  <2> QED  BY <2>1, <2>3 DEF Care
<1>4. CASE CarefulEdits
  <2>1. IInv'
    <3>1. EditNext  BY <1>4 DEF CarefulEdits, EditNext
    <3> QED  BY <1>2, <3>1, EditIInv
  <2>2. \E t, y : ReadyNow(t, y)'
        BY <1>1, <1>2, <1>4, MoveCalm, AddCalm, TypeCalm, EraseCalm, JoinCalm, DeleteCalm
        DEF CarefulEdits
  <2> QED  BY <2>1, <2>2 DEF Care
<1> QED  BY <1>3, <1>4

\* The editor starts with a framebuffer that is ready.
LEMMA InitCare == Init => Care
<1> SUFFICES ASSUME Init PROVE Care  OBVIOUS
<1>1. IInv  BY InitIInv
<1>2. fb = InitFb /\ ended = FALSE  BY DEF Init
<1>3. Ready(InitFb, <<1>>, None) /\ ~InitFb.fault  BY InitReady DEF Ready
<1> HIDE DEF InitFb
<1>4. ReadyNow(<<1>>, None)  BY <1>2, <1>3 DEF ReadyNow, Running
<1> QED  BY <1>1, <1>4 DEF Care

\* Between two careful keys the framebuffer is ready for the next.
LEMMA CareInvariance == CarefulEditSpec => []Care
BY InitCare, CareStep, PTL DEF CarefulEditSpec

\* A careful user who never presses u makes nothing undefined happen, with any
\* number of lines, any screen and any history: no freed line is read or written,
\* no NULL followed, no line freed that the text or a record still has.
THEOREM CarefulEditsNeverFault == CarefulEditSpec => []NeverFaults
<1>1. Care => NeverFaults  BY DEF Care, ReadyNow, Running, NeverFaults
<1> QED  BY <1>1, CareInvariance, PTL

\* With the same keys the gap of the current line is always where the cursor is,
\* and the cursor is in the line of the list that its row says.
THEOREM CarefulEditsGap == CarefulEditSpec => []GapAtCursor
<1>1. Care => GapAtCursor
  <2> SUFFICES ASSUME Care PROVE GapAtCursor  OBVIOUS
  <2>1. PICK s, x : ReadyNow(s, x)  BY DEF Care
  <2>2. Ready(fb, s, x)  BY <2>1 DEF ReadyNow
  <2>3. /\ View(fb, fb.currentl).sog = fb.buffer_c
        /\ fb.buffer_c <= View(fb, fb.currentl).data_n
        BY <2>2, ReadyFields DEF Ready
  <2>4. /\ View(fb, fb.currentl).sog = Current.sog
        /\ View(fb, fb.currentl).data_n = Current.data_n
    <3>1. Sound(fb, x)  BY <2>2 DEF Ready
    <3>2. fb.currentl \in LineId  BY <2>2, ReadyFields
    <3> QED  BY <3>1, <3>2, ViewFields DEF Current
  <2>5. SeekLine(fb, fb.buffer_r) = fb.currentl
    <3>1. PICK k \in 1 .. Len(s) : fb.buffer_r = k - 1 /\ fb.currentl = s[k]
          BY <2>2, ReadyFields
    <3>2. Chain(fb, s) /\ fb.fresh \in 1 .. MaxLines + 1
          BY <2>2, SoundFields DEF Ready, Tracks
    <3> QED  BY <3>1, <3>2, SeekChain
  <2> QED  BY <2>3, <2>4, <2>5 DEF GapAtCursor
<1> QED  BY <1>1, CareInvariance, PTL

\* With the same keys the screen begins with a line of the text, the one that
\* scroll_r says, and the cursor is not above it.
THEOREM CarefulEditsScreen == CarefulEditSpec => []ScreenFollows
<1>1. Care => ScreenFollows
  <2> SUFFICES ASSUME Care
               PROVE  /\ fb.scroll # NULL /\ SeekLine(fb, fb.scroll_r) = fb.scroll
                      /\ CursorR(fb) >= 0
      BY DEF ScreenFollows
  <2>1. PICK s, x : ReadyNow(s, x)  BY DEF Care
  <2>2. Ready(fb, s, x)  BY <2>1 DEF ReadyNow
  <2>3. Chain(fb, s) /\ Len(s) \in Nat /\ \A k \in 1 .. Len(s) : s[k] \in LineId
        BY <2>2, ReadyFields
  <2>4. /\ fb.scroll_r \in 0 .. Len(s) - 1 /\ fb.scroll = s[fb.scroll_r + 1]
        /\ x.low \in Nat /\ CursorR(fb) \in 0 .. x.low
        BY <2>2 DEF Ready, Seen
  <2>5. PICK r \in 0 .. Len(s) - 1 : r = fb.scroll_r  BY <2>4
  <2>6. r \in Int /\ r + 1 \in 1 .. Len(s)  BY <2>3, <2>5
  <2>7. SeekLine(fb, r) = s[r + 1]  BY <2>3, <2>5, <2>6, SeekChain
  <2>8. fb.scroll # NULL  BY <2>3, <2>4, <2>5, <2>6, NULLAssumption
  <2>9. CursorR(fb) >= 0  BY <2>4
  <2> QED  BY <2>4, <2>5, <2>7, <2>8, <2>9
<1> QED  BY <1>1, CareInvariance, PTL

=============================================================================
