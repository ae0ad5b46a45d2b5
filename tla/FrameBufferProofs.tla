------------------------- MODULE FrameBufferProofs -------------------------
(***************************************************************************)
(* Proofs about FrameBuffer, from the lemmas of FrameProofs on its keys:   *)
(* first the invariants of the specification, then those of the careful    *)
(* keys and the text that they implement.                                  *)
(***************************************************************************)
EXTENDS FrameBuffer, FrameProofs

-----------------------------------------------------------------------------
(* The steps of the specification *)

\* What the specification forgets of the lines that were cut is nothing the list
\* depends on.
LEMMA ForgetFrame ==
    ASSUME NEW f, Sound(f, None), NEW s, Tracks(f, s, None)
    PROVE  LET g == Forget(f)
           IN  /\ Sound(g, None) /\ Tracks(g, s, None) /\ g.fault = f.fault
               /\ SameRow(f, g) /\ SameScroll(f, g) /\ g.buffer_c = f.buffer_c
               /\ g.fresh = f.fresh
               /\ \A i \in 1 .. Len(s) : View(g, s[i]) = View(f, s[i])
               /\ Texts(g) = Texts(f)
<1> DEFINE held == ToSet(s)
           old(id) == [NewStruct(id) EXCEPT !.refs = f.line[id].refs]
           lines == [id \in LineId |-> IF id \in held THEN f.line[id] ELSE old(id)]
           arrays == [id \in LineId |-> IF id \in held THEN f.bytes[id] ELSE EmptyLine.data]
           g == Forget(f)
<1>0. /\ f \in Frame /\ Chain(f, s) /\ Counted(f, s, None) /\ OnList(f, s) /\ LinesOf(f) = s
      /\ \A i \in 1 .. Len(s) : s[i] \in LineId
      /\ f.alive \subseteq LineId
      BY LinesTrack, ChainFacts, SoundFields DEF Sound, Tracks
<1>1. g = [f EXCEPT !.line = lines, !.bytes = arrays]
      BY <1>0 DEF Forget, Frame
<1>2. \A i \in 1 .. Len(s) : s[i] \in held
  <2>1. held = {s[i] : i \in DOMAIN s} /\ DOMAIN s = 1 .. Len(s)
        BY <1>0, ChainFacts DEF ToSet
  <2> QED  BY <2>1
<1>3. /\ Shaped(EmptyLine) /\ EmptyLine.data \in ByteArray
      /\ EmptyLine = Line(0, InitGapSize - 1, InitGapSize + 1, 0, EmptyLine.data)
  <2>1. Shaped(EmptyLine)  BY EmptyLineGood, GoodIsShaped
  <2>2. EmptyLine.data \in ByteArray
    <3>1. EmptyLine.size \in Nat /\ EmptyLine.data \in [0 .. EmptyLine.size - 1 -> Byte]
          BY <2>1, ShapedFields
    <3> QED  BY <3>1 DEF ByteArray
  <2> QED  BY <2>1, <2>2 DEF EmptyLine, Line
<1>4. ASSUME NEW id \in LineId
      PROVE  /\ old(id) \in LineStruct /\ old(id).data = id /\ old(id).refs = f.line[id].refs
             /\ old(id).sog = 0 /\ old(id).eog = InitGapSize - 1
             /\ old(id).size = InitGapSize + 1 /\ old(id).data_n = 0
  <2>1. f.line[id].refs \in Nat  BY StructFields
  <2> QED  BY <2>1, InitGapSizeAssumption DEF NewStruct, LineStruct, Link
<1>5. lines \in [LineId -> LineStruct] /\ arrays \in [LineId -> ByteArray]
  <2>1. f.line \in [LineId -> LineStruct] /\ f.bytes \in [LineId -> ByteArray]  BY SoundFields
  <2> HIDE DEF held, old
  <2> QED  BY <2>1, <1>3, <1>4
<1>6. /\ \A id \in LineId : id \in held => lines[id] = f.line[id] /\ arrays[id] = f.bytes[id]
      /\ \A id \in LineId : id \notin held => lines[id] = old(id) /\ arrays[id] = EmptyLine.data
      BY Zenon
<1> HIDE DEF lines, arrays, held, old, g
<1>7. /\ g \in Frame /\ g.line = lines /\ g.bytes = arrays /\ g.alive = f.alive
      /\ g.fresh = f.fresh /\ g.headl = f.headl /\ g.taill = f.taill
      /\ g.currentl = f.currentl /\ g.scroll = f.scroll /\ g.scroll_r = f.scroll_r
      /\ g.buffer_r = f.buffer_r /\ g.buffer_c = f.buffer_c /\ g.fault = f.fault
      BY <1>0, <1>1, <1>5 DEF Frame
<1>8. \A id \in LineId : /\ g.line[id].data = id /\ g.line[id].refs = f.line[id].refs
                         /\ id \in held => View(g, id) = View(f, id)
                         /\ id \notin held => View(g, id) = EmptyLine
  <2> SUFFICES ASSUME NEW id \in LineId
               PROVE  /\ g.line[id].data = id /\ g.line[id].refs = f.line[id].refs
                      /\ id \in held => View(g, id) = View(f, id)
                      /\ id \notin held => View(g, id) = EmptyLine
      OBVIOUS
  <2>1. f.line[id].data = id  BY StructFields
  <2>2. CASE id \in held  BY <2>1, <2>2, <1>6, <1>7 DEF View
  <2>3. CASE id \notin held
    <3>1. g.line[id] = old(id) /\ g.bytes[id] = EmptyLine.data  BY <2>3, <1>6, <1>7
    <3>2. View(g, id) = EmptyLine  BY <3>1, <1>3, <1>4 DEF View
    <3> QED  BY <3>1, <3>2, <2>3, <1>4
  <2> QED  BY <2>2, <2>3
<1>9. Sound(g, None)
  <2>1. \A id \in LineId : Shaped(View(f, id))  BY DEF Sound
  <2>2. \A id \in LineId : g.line[id].data = id /\ Shaped(View(g, id))
        BY <2>1, <1>3, <1>8
  <2> QED  BY <2>2, <1>7 DEF Sound
<1>10. Tracks(g, s, None)
  <2>1. \A i \in 1 .. Len(s) : g.line[s[i]] = f.line[s[i]]  BY <1>0, <1>2, <1>6, <1>7
  <2>2. Chain(g, s)
    <3>1. /\ s \in Seq(LineId) /\ Len(s) \in Nat /\ Len(s) >= 1 /\ Len(s) < g.fresh
          /\ \A i, j \in 1 .. Len(s) : s[i] = s[j] => i = j
          /\ \A i \in 1 .. Len(s) : s[i] \in g.alive
          /\ g.headl = s[1] /\ g.taill = s[Len(s)]
          BY <1>0, <1>7 DEF Chain
    <3>2. \A k \in 1 .. Len(s) : g.line[s[k]].nextl = IF k = Len(s) THEN NULL ELSE s[k + 1]
          BY <2>1, <1>0 DEF Chain
    <3>3. \A k \in 1 .. Len(s) : g.line[s[k]].prevl = IF k = 1 THEN NULL ELSE s[k - 1]
          BY <2>1, <1>0 DEF Chain
    <3> QED  BY <3>1, <3>2, <3>3 DEF Chain
  <2>3. Counted(g, s, None)  BY <1>0, <1>7, <1>8 DEF Counted
  <2>4. OnList(g, s)  BY <1>0, <1>7 DEF OnList
  <2> QED  BY <2>2, <2>3, <2>4 DEF Tracks
<1>11. \A i \in 1 .. Len(s) : View(g, s[i]) = View(f, s[i])  BY <1>0, <1>2, <1>8
<1>12. Texts(g) = Texts(f)
  <2>1. Texts(g) = TextsOf(g, s) /\ Texts(f) = TextsOf(f, s)  BY <1>9, <1>10, LinesTrack
  <2> QED  BY <2>1, <1>11 DEF TextsOf, TextOf
<1> QED  BY <1>7, <1>9, <1>10, <1>11, <1>12 DEF SameRow, SameScroll, g

\* The inductive invariant: the framebuffer is sound, and as long as it has not
\* done anything undefined its links are one list, with the cursor's row in it.
IInv == /\ Sound(fb, None)
        /\ Running => Tracks(fb, LinesOf(fb), None) /\ text = Texts(fb)

\* A step into a sound framebuffer whose links are a list keeps the invariant.
LEMMA StepInv ==
    ASSUME NEW g, Sound(g, None), ~g.fault => \E t : Tracks(g, t, None), Step(g)
    PROVE  IInv'
<1>1. CASE g.fault
  <2>1. fb' = g  BY <1>1 DEF Step
  <2> QED  BY <2>1, <1>1 DEF IInv, Running
<1>2. CASE ~g.fault
  <2>1. fb' = Forget(g) /\ text' = Texts(g)  BY <1>2 DEF Step
  <2>2. PICK t : Tracks(g, t, None)  BY <1>2
  <2> DEFINE h == Forget(g)
  <2>3. Sound(h, None) /\ Tracks(h, t, None) /\ Texts(h) = Texts(g)  BY <2>2, ForgetFrame
  <2> HIDE DEF h
  <2>4. LinesOf(h) = t  BY <2>3, LinesTrack
  <2> QED  BY <2>1, <2>3, <2>4 DEF IInv, Running, h
<1> QED  BY <1>1, <1>2

\* The invariant holds when the framebuffer is initialized.
LEMMA InvInit == Init => IInv
<1> SUFFICES ASSUME Init PROVE IInv  OBVIOUS
<1>1. fb = InitFb /\ text = <<<<>>>>  BY DEF Init
<1>2. Sound(fb, None) /\ Tracks(fb, <<1>>, None) /\ Texts(fb) = text  BY <1>1, InitFrame
<1>3. LinesOf(fb) = <<1>>  BY <1>2, LinesTrack
<1> QED  BY <1>2, <1>3 DEF IInv

\* What every key starts from.
LEMMA KeyFacts ==
    ASSUME IInv, Running, NEW s, s = LinesOf(fb)
    PROVE  /\ Sound(fb, None) /\ ~fb.fault /\ Tracks(fb, s, None) /\ text = TextsOf(fb, s)
           /\ \E k \in 1 .. Len(s) :
                 /\ k \in Nat /\ k = fb.buffer_r + 1 /\ fb.buffer_r = k - 1 /\ fb.currentl = s[k]
                 /\ fb.line[s[k]].nextl = IF k = Len(s) THEN NULL ELSE s[k + 1]
                 /\ fb.line[s[k]].prevl = IF k = 1 THEN NULL ELSE s[k - 1]
<1>1. Sound(fb, None) /\ ~fb.fault /\ Tracks(fb, s, None) /\ text = Texts(fb)  BY DEF IInv, Running
<1>2. text = TextsOf(fb, s)  BY <1>1, LinesTrack
<1> QED  BY <1>1, <1>2, TracksFields

\* A new line is behind the line k.
LEMMA RoomForLine ==
    ASSUME IInv, RoomToOpen
    PROVE  fb.fresh \in LineId
<1>1. fb.fresh \in 1 .. MaxLines + 1 /\ fb.fresh <= MaxLines
      BY SoundFields DEF IInv, RoomToOpen
<1>2. PICK n \in 1 .. MaxLines + 1 : n = fb.fresh /\ n <= MaxLines  BY <1>1
<1>3. n \in LineId  BY <1>2, MaxLinesAssumption DEF LineId
<1> QED  BY <1>2, <1>3

\* Every key keeps the invariant.
LEMMA KeyInv ==
    ASSUME IInv, Next
    PROVE  IInv'
<1>1. Running  BY DEF Next, Type, Erase, Left, Right, Down, Up, Enter, Break, Open, Join, Delete
<1>0. PICK s : s = LinesOf(fb)  OBVIOUS
<1>2. PICK k \in 1 .. Len(s) :
         /\ k \in Nat /\ k = fb.buffer_r + 1 /\ fb.buffer_r = k - 1 /\ fb.currentl = s[k]
         /\ fb.line[s[k]].nextl = IF k = Len(s) THEN NULL ELSE s[k + 1]
         /\ fb.line[s[k]].prevl = IF k = 1 THEN NULL ELSE s[k - 1]
      BY <1>0, <1>1, KeyFacts
<1>3. Sound(fb, None) /\ ~fb.fault /\ Tracks(fb, s, None)  BY <1>0, <1>1, KeyFacts
<1>4. Len(s) \in Nat /\ Len(s) >= 1  BY <1>3, ChainFacts DEF Tracks
<1>17. (Len(s) # 1 => Len(s) >= 2) /\ (k # 1 => k >= 2)
  <2>1. \A n \in Nat : n >= 1 /\ n # 1 => n >= 2  OBVIOUS
  <2>2. k \in Nat /\ k >= 1  BY <1>4
  <2> QED  BY <2>1, <2>2, <1>4
<1>5. \A g : Edits(fb, g, None) /\ SameRow(fb, g) => Sound(g, None) /\ Tracks(g, s, None)
      BY <1>3, EditsTracks DEF Edits
<1>6. ASSUME NEW ch \in Char, Type(ch) PROVE IInv'
  <2> DEFINE g == InsertChar(fb, fb.currentl, ch, FALSE)
  <2>1. Step(g)  BY <1>6 DEF Type, Moves
  <2>2. fb.currentl \in LineId /\ ch \in Byte  BY <1>3, SoundFields DEF Byte
  <2> HIDE DEF g
  <2>3. Sound(g, None) /\ Tracks(g, s, None)  BY <2>2, <1>3, <1>5, InsertFrame DEF g
  <2> QED  BY <2>1, <2>3, StepInv
<1>7. CASE Erase
  <2> DEFINE g == BackspaceChar(fb, fb.currentl)
  <2>1. Step(g) /\ fb.buffer_c # 0  BY <1>7 DEF Erase
  <2> HIDE DEF g
  <2>2. Sound(g, None) /\ Tracks(g, s, None)  BY <2>1, <1>3, <1>5, BackspaceFrame DEF g
  <2> QED  BY <2>1, <2>2, StepInv
<1>8. CASE Left
  <2> DEFINE g == CursorLeft(fb)
  <2>1. Step(g) /\ fb.buffer_c # 0  BY <1>8 DEF Left
  <2> HIDE DEF g
  <2>2. Sound(g, None) /\ Tracks(g, s, None)  BY <2>1, <1>3, <1>5, LeftFrame DEF g
  <2> QED  BY <2>1, <2>2, StepInv
<1>9. CASE Right
  <2> DEFINE g == CursorRight(fb)
  <2>1. Step(g)  BY <1>9 DEF Right
  <2> HIDE DEF g
  <2>2. Sound(g, None) /\ Tracks(g, s, None)  BY <1>3, <1>5, RightFrame DEF g
  <2> QED  BY <2>1, <2>2, StepInv
<1>10. CASE Down
  <2> DEFINE g == RowDown(fb)
  <2>1. Step(g)  BY <1>10 DEF Down
  <2> HIDE DEF g
  <2>2. Sound(g, None) /\ (~g.fault => Tracks(g, s, None))  BY <1>2, <1>3, RowDownFrame DEF g
  <2> QED  BY <2>1, <2>2, StepInv
<1>11. CASE Up
  <2> DEFINE g == RowUp(fb)
  <2>1. Step(g)  BY <1>11 DEF Up
  <2> HIDE DEF g
  <2>2. Sound(g, None) /\ (~g.fault => Tracks(g, s, None))  BY <1>2, <1>3, RowUpFrame DEF g
  <2> QED  BY <2>1, <2>2, StepInv
<1>12. CASE Enter
  <2> DEFINE g == CursorDown(fb)
  <2>1. Step(g)  BY <1>12 DEF Enter
  <2> HIDE DEF g
  <2>2. PICK j \in Int : j = k + 1  BY <1>2
  <2>3. SameList(fb, fb) /\ SameRow(fb, fb)  BY DEF SameList, SameRow
  <2>4. g = CursorDown(fb)  BY DEF g
  <2>5. Sound(g, None) /\ (~g.fault => Tracks(g, s, None))
        BY <1>2, <1>3, <2>2, <2>3, <2>4, ScrolledMove
  <2> QED  BY <2>1, <2>5, StepInv
<1>13. CASE Break
  <2> DEFINE g == BreakLineAfter(fb, fb.currentl)
             h == BreakLine(fb)
             t == InsertAt(s, k + 1, fb.fresh)
  <2>1. Step(h) /\ fb.fresh \in LineId  BY <1>13, RoomForLine DEF Break
  <2>2. h = IF AtBottom(fb) THEN ScrollDown(g) ELSE g  BY DEF BreakLine
  <2> HIDE DEF g, h, t
  <2>3. Sound(g, None) /\ (~g.fault => AddedLine(fb, g, s, k, None) /\ SameScroll(fb, g))
        BY <2>1, <1>2, <1>3, BreakFrame DEF g
  <2>4. CASE g.fault
    <3>1. h = g  BY <2>2, <2>4 DEF ScrollDown, Check
    <3> QED  BY <3>1, <2>1, <2>3, <2>4, StepInv
  <2>5. CASE ~g.fault
    <3>1. Sound(h, None) /\ Tracks(h, t, None)  BY <2>2, <2>3, <2>5, <1>2, <1>3, AddedScroll DEF t
    <3> QED  BY <3>1, <2>1, StepInv
  <2> QED  BY <2>4, <2>5
<1>14. CASE Open
  <2> DEFINE g == InsertLineAfter(AllocEmptyl(fb), fb.currentl, fb.fresh)
             h == OpenLine(fb)
             t == InsertAt(s, k + 1, fb.fresh)
  <2>1. Step(h) /\ fb.fresh \in LineId  BY <1>14, RoomForLine DEF Open
  <2>2. h = IF AtBottom(fb) THEN ScrollDown(g) ELSE g  BY DEF OpenLine
  <2> HIDE DEF g, h, t
  <2>3. AddedLine(fb, g, s, k, None) /\ SameScroll(fb, g)  BY <2>1, <1>2, <1>3, OpenFrame DEF g
  <2>4. Sound(h, None) /\ Tracks(h, t, None)  BY <2>2, <2>3, <1>2, <1>3, AddedScroll DEF t
  <2> QED  BY <2>1, <2>4, StepInv
<1>15. CASE Join
  <2> DEFINE g == JoinLine(fb, FALSE)
             t == RemoveAt(s, k)
  <2>1. Step(g) /\ fb.currentl # fb.headl  BY <1>15 DEF Join, Moves
  <2>2. k >= 2
    <3>1. fb.headl = s[1]  BY <1>3 DEF Tracks, Chain
    <3> QED  BY <3>1, <2>1, <1>2, <1>17
  <2> HIDE DEF g, t
  <2>3. Sound(g, None) /\ (~g.fault => Tracks(g, t, None))  BY <2>2, <1>2, <1>3, JoinFrame DEF g, t
  <2> QED  BY <2>1, <2>3, StepInv
<1>16. CASE Delete
  <2> DEFINE g == DeleteLine(fb)
  <2>1. Step(g)  BY <1>16 DEF Delete
  <2> HIDE DEF g
  <2>2. /\ Sound(g, None)
        /\ Len(s) = 1 => Tracks(g, s, None)
        /\ Len(s) # 1 => g = Cutl(fb)
        BY <1>2, <1>3, DeleteFrame DEF g
  <2>3. CASE Len(s) = 1  BY <2>1, <2>2, <2>3, StepInv
  <2>4. CASE Len(s) # 1
    <3>1. Len(s) >= 2  BY <2>4, <1>17
    <3> DEFINE c == Cutl(fb)
               t == RemoveAt(s, k)
    <3> HIDE DEF c, t
    <3>2. ~c.fault => Tracks(c, t, None)  BY <3>1, <1>2, <1>3, CutFrame DEF c, t
    <3>3. c = g  BY <2>2, <2>4 DEF c
    <3> QED  BY <3>2, <3>3, <2>1, <2>2, StepInv
  <2> QED  BY <2>3, <2>4
<1> QED  BY <1>6, <1>7, <1>8, <1>9, <1>10, <1>11, <1>12, <1>13, <1>14, <1>15, <1>16
         DEF Next

\* Every step keeps the invariant.
LEMMA InvNext == IInv /\ [Next]_vars => IInv'
<1>1. ASSUME IInv, UNCHANGED vars PROVE IInv'
  <2>1. fb' = fb /\ text' = text  BY <1>1 DEF vars
  <2> QED  BY <2>1, <1>1 DEF IInv, Running
<1> QED  BY <1>1, KeyInv

\* The framebuffer stays sound and its links stay one list, under any keys.
THEOREM FrameInvariant == Spec => []IInv
<1> QED  BY InvInit, InvNext, PTL DEF Spec

\* What the invariant says of the types.
LEMMA InvTypeOK == IInv => TypeOK
<1> SUFFICES ASSUME IInv PROVE TypeOK  OBVIOUS
<1>1. Sound(fb, None)  BY DEF IInv
<1>2. fb.line \in [LineId -> Struct]
      BY <1>1, SoundFields DEF LineStruct, Struct, Link
<1>3. ASSUME NEW id \in LineId
      PROVE  /\ DOMAIN fb.bytes[id] = 0 .. fb.line[id].size - 1
             /\ \A i \in DOMAIN fb.bytes[id] : fb.bytes[id][i] \in Char \cup {NUL}
  <2>1. View(fb, id).size = fb.line[id].size /\ View(fb, id).data = fb.bytes[id]
        BY <1>1, ViewFields
  <2>2. Shaped(View(fb, id))  BY <1>1, ViewFields
  <2>3. /\ DOMAIN View(fb, id).data = 0 .. View(fb, id).size - 1
        /\ \A i \in 0 .. View(fb, id).size - 1 : View(fb, id).data[i] \in Byte
        BY <2>2, ShapedFields
  <2> QED  BY <2>1, <2>3 DEF Byte
<1>4. /\ fb.alive = 1 .. fb.fresh - 1
      /\ {fb.headl, fb.taill, fb.currentl} \subseteq fb.alive
      /\ fb.scroll \in fb.alive \cup {NULL}
      BY <1>1, NoneFields DEF Sound
<1>5. /\ {fb.buffer_c, fb.buffer_n} \subseteq Nat /\ {fb.scroll_r, fb.buffer_r} \subseteq Int
      /\ fb.fault \in BOOLEAN
      BY <1>1, SoundFields
<1> QED  BY <1>2, <1>3, <1>4, <1>5 DEF TypeOK

\* Under any keys the fields of the framebuffer and of every struct vi_line stay in
\* range, each byte array has the size its struct says, and the pointers point to
\* lines that were allocated.
THEOREM FrameTypes == Spec => []TypeOK
<1> QED  BY FrameInvariant, InvTypeOK, PTL

\* What the invariant says of the links.
LEMMA InvLinked == IInv => Linked
<1> SUFFICES ASSUME IInv, Running
             PROVE  LET s == LinesOf(fb)
                    IN  /\ s[Len(s)] = fb.taill
                        /\ IsInjective(s)
                        /\ \A k \in DOMAIN s :
                              fb.line[s[k]].prevl = IF k = 1 THEN NULL ELSE s[k - 1]
    BY DEF Linked
<1>0. PICK s : s = LinesOf(fb)  OBVIOUS
<1>1. Chain(fb, s)  BY <1>0 DEF IInv, Tracks
<1>2. DOMAIN s = 1 .. Len(s)  BY <1>1, ChainFacts
<1>3. IsInjective(s)  BY <1>1, <1>2 DEF Chain, IsInjective
<1> QED  BY <1>0, <1>1, <1>2, <1>3 DEF Chain

\* prevl mirrors nextl from headl to taill, and no line is met twice, whatever
\* insert_line_after(), merge_lines_up() and cutl() were called with.
THEOREM ListIsLinked == Spec => []Linked
<1> QED  BY FrameInvariant, InvLinked, PTL

\* What the invariant says of the row.
LEMMA InvRow == IInv => RowOfCurrent
<1> SUFFICES ASSUME IInv, Running PROVE SeekLine(fb, fb.buffer_r) = fb.currentl
    BY DEF RowOfCurrent
<1>0. PICK s : s = LinesOf(fb)  OBVIOUS
<1>1. Chain(fb, s) /\ OnList(fb, s)  BY <1>0 DEF IInv, Tracks
<1>2. fb.buffer_r \in Int  BY SoundFields DEF IInv
<1>3. PICK r \in Int : r = fb.buffer_r  BY <1>2
<1>4. SeekLine(fb, r) = IF r \in 0 .. Len(s) - 1 THEN s[r + 1] ELSE NULL
      BY <1>1, SeekChain
<1> QED  BY <1>1, <1>3, <1>4 DEF OnList

\* buffer_r counts the lines in front of currentl: seek_line(buffer_r), by which the
\* undo records find their line, is the line the cursor was on.
THEOREM RowFindsCurrent == Spec => []RowOfCurrent
<1> QED  BY FrameInvariant, InvRow, PTL

\* What the invariant says of the reference counts.
LEMMA InvCounts == IInv => CountsHold
<1> SUFFICES ASSUME IInv, Running
             PROVE  \A id \in fb.alive : fb.line[id].refs = IF id \in Held THEN 1 ELSE 0
    BY DEF CountsHold
<1>0. PICK s : s = LinesOf(fb)  OBVIOUS
<1>1. Chain(fb, s) /\ Counted(fb, s, None)  BY <1>0 DEF IInv, Tracks
<1>2. Held = {s[i] : i \in 1 .. Len(s)}
  <2>1. DOMAIN s = 1 .. Len(s)  BY <1>1, ChainFacts
  <2> QED  BY <2>1, <1>0 DEF Held, ToSet
<1>3. \A id : id \in Held <=> \E i \in 1 .. Len(s) : s[i] = id  BY <1>2
<1>4. fb.alive \subseteq LineId  BY SoundFields DEF IInv
<1>5. ASSUME NEW id \in fb.alive PROVE fb.line[id].refs = IF id \in Held THEN 1 ELSE 0
  <2>1. id \in LineId /\ None.refs[id] = 0  BY <1>4, NoneFields
  <2> QED  BY <2>1, <1>1, <1>3 DEF Counted
<1> QED  BY <1>5

\* refs is 1 for the lines of the buffer and 0 for those that cutl() took out: no
\* key takes or drops a reference it should not.
THEOREM ReferencesCounted == Spec => []CountsHold
<1> QED  BY FrameInvariant, InvCounts, PTL

\* dd, from a framebuffer that keeps the invariant and has well-formed lines.
LEMMA DeleteText ==
    ASSUME IInv, Delete, \A id \in Held : WellFormed(View(fb, id))
    PROVE  \/ fb'.fault
           \/ text' = IF Len(text) = 1 THEN <<<<>>>> ELSE RemoveAt(text, fb.buffer_r + 1)
<1> DEFINE g == DeleteLine(fb)
<1>0. PICK s : s = LinesOf(fb)  OBVIOUS
<1>1. Running /\ Step(g)  BY DEF Delete
<1>2. PICK k \in 1 .. Len(s) :
         k \in Nat /\ k = fb.buffer_r + 1 /\ fb.buffer_r = k - 1 /\ fb.currentl = s[k]
      BY <1>0, <1>1, KeyFacts
<1>3. Sound(fb, None) /\ ~fb.fault /\ Tracks(fb, s, None) /\ text = TextsOf(fb, s)
      BY <1>0, <1>1, KeyFacts
<1>4. s \in Seq(LineId) /\ Len(s) \in Nat /\ Len(s) >= 1  BY <1>3, ChainFacts DEF Tracks
<1>5. /\ text \in Seq(Seq(Byte)) /\ Len(text) = Len(s)
      /\ \A i \in 1 .. Len(s) : text[i] = Text(View(fb, s[i]))
      BY <1>3, <1>4, TextsValue
<1>6. \A i \in 1 .. Len(s) : WellFormed(View(fb, s[i])) /\ s[i] \in LineId
  <2>1. DOMAIN s = 1 .. Len(s)  BY <1>4
  <2>2. \A i \in 1 .. Len(s) : s[i] \in Held  BY <2>1, <1>0 DEF Held, ToSet
  <2> QED  BY <2>2, <1>4
<1> HIDE DEF g
<1>7. CASE g.fault
  <2>1. fb' = g  BY <1>1, <1>7 DEF Step
  <2> QED  BY <2>1, <1>7
<1>8. CASE ~g.fault
  <2>1. text' = Texts(g)  BY <1>1, <1>8 DEF Step
  <2>2. CASE Len(s) = 1
    <3> DEFINE l == View(fb, fb.currentl)
    <3>1. /\ Sound(g, None) /\ Tracks(g, s, None)
          /\ View(g, s[1]) = Line(0, l.size - 1, l.size, 0, l.data)
      <4>1. k = 1  BY <1>2, <2>2
      <4> QED  BY <4>1, <2>2, <1>2, <1>3, DeleteFrame DEF g
    <3> HIDE DEF l
    <3>2. Text(View(g, s[1])) = <<>>
      <4>1. /\ View(g, s[1]).sog = 0 /\ View(g, s[1]).eog = l.size - 1
            /\ View(g, s[1]).size = l.size
            BY <3>1 DEF Line
      <4>2. l.size \in Nat
        <5>1. fb.currentl \in LineId  BY <1>3, SoundFields
        <5> QED  BY <5>1, <1>3, ViewFields, StructFields DEF l
      <4>3. ShownAfterGap(View(g, s[1])) = 0  BY <4>1, <4>2 DEF ShownAfterGap
      <4> QED  BY <4>1, <4>3 DEF Text
    <3>3. Texts(g) = TextsOf(g, s)  BY <3>1, LinesTrack
    <3>4. TextsOf(g, s) = [i \in 1 .. 1 |-> <<>>]
      <4>1. \A i \in 1 .. 1 : TextOf(g, s[i]) = <<>>  BY <3>2 DEF TextOf
      <4> QED  BY <4>1, <2>2 DEF TextsOf
    <3> QED  BY <3>3, <3>4, <2>1, <2>2, <1>5
  <2>3. CASE Len(s) # 1
    <3> DEFINE t == RemoveAt(s, k)
               c == Cutl(fb)
               r == RemoveAt(text, k)
    <3>0. Len(s) >= 2
      <4>1. \A n \in Nat : n >= 1 /\ n # 1 => n >= 2  OBVIOUS
      <4> QED  BY <4>1, <1>4, <2>3
    <3>1. g = c  BY <2>3, <1>2, <1>3, DeleteFrame DEF g
    <3> HIDE DEF t, c, r
    <3>2. Sound(c, None) /\ SameTexts(fb, c) /\ (~c.fault => Tracks(c, t, None))
          BY <3>0, <1>2, <1>3, CutFrame DEF c, t
    <3>3. Tracks(c, t, None)  BY <3>1, <3>2, <1>8
    <3>4. /\ t \in Seq(LineId) /\ Len(t) = Len(s) - 1
          /\ \A i \in 1 .. Len(s) - 1 : t[i] = IF i < k THEN s[i] ELSE s[i + 1]
          BY <1>4, RemoveAtValue DEF t
    <3>5. /\ r \in Seq(Seq(Byte)) /\ Len(r) = Len(s) - 1
          /\ \A i \in 1 .. Len(s) - 1 : r[i] = IF i < k THEN text[i] ELSE text[i + 1]
      <4>1. text \in Seq(Seq(Byte)) /\ Len(text) = Len(s)  BY <1>5
      <4>2. PICK x \in Seq(Seq(Byte)) : x = text  BY <4>1
      <4>3. PICK j \in 1 .. Len(x) : j = k  BY <4>1, <4>2, <1>2
      <4>4. /\ RemoveAt(x, j) \in Seq(Seq(Byte)) /\ Len(RemoveAt(x, j)) = Len(x) - 1
            /\ \A i \in 1 .. Len(x) - 1 : RemoveAt(x, j)[i] = IF i < j THEN x[i] ELSE x[i + 1]
            BY RemoveAtValue
      <4> QED  BY <4>1, <4>2, <4>3, <4>4 DEF r
    <3>6. /\ Texts(c) = TextsOf(c, t) /\ TextsOf(c, t) \in Seq(Seq(Byte))
          /\ Len(TextsOf(c, t)) = Len(t)
          /\ \A i \in 1 .. Len(t) : TextsOf(c, t)[i] = Text(View(c, t[i]))
          BY <3>2, <3>3, <3>4, LinesTrack, TextsValue
    <3>7. ASSUME NEW i \in 1 .. Len(s) - 1
          PROVE  TextsOf(c, t)[i] = r[i]
      <4>0. i \in Nat /\ i \in 1 .. Len(t) /\ i \in 1 .. Len(s) /\ i + 1 \in 1 .. Len(s)
            BY <1>4, <3>4
      <4>1. PICK j \in 1 .. Len(s) : t[i] = s[j] /\ r[i] = text[j]
        <5>1. CASE i < k  BY <5>1, <4>0, <3>4, <3>5
        <5>2. CASE ~(i < k)  BY <5>2, <4>0, <3>4, <3>5
        <5> QED  BY <5>1, <5>2
      <4>2. Text(View(c, s[j])) = Text(View(fb, s[j]))  BY <1>6, <3>2 DEF SameTexts
      <4> QED  BY <4>0, <4>1, <4>2, <1>5, <3>6
    <3>8. TextsOf(c, t) = r
      <4>1. PICK a \in Seq(Seq(Byte)), b \in Seq(Seq(Byte)) : a = TextsOf(c, t) /\ b = r
            BY <3>5, <3>6
      <4>2. Len(a) = Len(b) /\ \A i \in 1 .. Len(a) : a[i] = b[i]
            BY <4>1, <3>4, <3>5, <3>6, <3>7
      <4>3. a = b  BY <4>2, SameSeq
      <4> QED  BY <4>1, <4>3
    <3> QED  BY <3>1, <3>6, <3>8, <2>1, <2>3, <1>2, <1>5 DEF r
  <2> QED  BY <2>2, <2>3
<1> QED  BY <1>7, <1>8

\* dd takes one line away and not a character of another one, from lines that are
\* well-formed: the part of fb.h's promise about cutl() that always holds.
THEOREM DeletesOneLine == Spec => DeleteTakesOne
<1>1. IInv /\ [Next]_vars =>
         [Delete /\ (\A id \in Held : WellFormed(View(fb, id))) =>
            \/ fb'.fault
            \/ text' = IF Len(text) = 1 THEN <<<<>>>> ELSE RemoveAt(text, fb.buffer_r + 1)]_vars
      BY DeleteText
<1> QED  BY <1>1, FrameInvariant, PTL DEF Spec, DeleteTakesOne

-----------------------------------------------------------------------------
(* The steps of CarefulSpec *)

\* The inductive invariant of the careful keys: the framebuffer is ready for the
\* next one, and text is what its lines hold.
CInv == Ready(fb, LinesOf(fb), None) /\ text = Texts(fb)

\* A step into a framebuffer that is ready keeps the invariant.
LEMMA StepReady ==
    ASSUME NEW g, NEW t, Ready(g, t, None), Step(g)
    PROVE  /\ CInv' /\ text' = TextsOf(g, t)
           /\ fb'.buffer_r = g.buffer_r /\ fb'.buffer_c = g.buffer_c
<1> DEFINE h == Forget(g)
<1>0. Sound(g, None) /\ ~g.fault /\ Tracks(g, t, None)  BY DEF Ready
<1>1. fb' = h /\ text' = Texts(g)  BY <1>0 DEF Step
<1>2. /\ Sound(h, None) /\ Tracks(h, t, None) /\ h.fault = g.fault /\ SameRow(g, h)
      /\ SameScroll(g, h)
      /\ h.buffer_c = g.buffer_c /\ Texts(h) = Texts(g)
      /\ \A i \in 1 .. Len(t) : View(h, t[i]) = View(g, t[i])
      BY <1>0, ForgetFrame
<1> HIDE DEF h
<1>3. LinesOf(h) = t /\ Texts(g) = TextsOf(g, t)  BY <1>0, <1>2, LinesTrack
<1>4. Ready(h, t, None)
  <2>1. Seen(h, t, None)  BY <1>2 DEF Ready, Seen, CursorR, SameRow, SameScroll
  <2>2. PICK k \in 1 .. Len(t) : g.currentl = t[k]  BY ReadyFields
  <2>3. View(h, h.currentl).sog = h.buffer_c  BY <1>2, <2>2 DEF Ready, SameRow
  <2>4. \A i \in 1 .. Len(t) : Good(View(h, t[i]))  BY <1>2 DEF Ready
  <2> QED  BY <1>0, <1>2, <2>1, <2>3, <2>4 DEF Ready
<1>5. CInv'  BY <1>1, <1>2, <1>3, <1>4 DEF CInv
<1> QED  BY <1>1, <1>2, <1>3, <1>5 DEF SameRow

\* What the careful keys start from.
LEMMA CareFacts ==
    ASSUME CInv, NEW s, s = LinesOf(fb)
    PROVE  /\ Ready(fb, s, None) /\ text = TextsOf(fb, s) /\ Running
           /\ s \in Seq(LineId) /\ Len(s) \in Nat /\ Len(s) >= 1
           /\ \E k \in 1 .. Len(s) :
                 /\ k \in Nat /\ k = fb.buffer_r + 1 /\ fb.buffer_r = k - 1 /\ fb.currentl = s[k]
                 /\ fb.line[s[k]].nextl = IF k = Len(s) THEN NULL ELSE s[k + 1]
                 /\ fb.line[s[k]].prevl = IF k = 1 THEN NULL ELSE s[k - 1]
<1>1. Ready(fb, s, None) /\ text = Texts(fb)  BY DEF CInv
<1>2. Sound(fb, None) /\ Tracks(fb, s, None) /\ Running  BY <1>1 DEF Ready, Running
<1>3. text = TextsOf(fb, s)  BY <1>1, <1>2, LinesTrack
<1> QED  BY <1>1, <1>2, <1>3, ReadyFields

\* A key that adds a line finds an id for it.
LEMMA CareRoom ==
    ASSUME CInv, RoomToOpen
    PROVE  fb.fresh \in LineId
<1>1. fb.fresh \in 1 .. MaxLines + 1 /\ fb.fresh <= MaxLines
      BY SoundFields DEF CInv, Ready, RoomToOpen
<1>2. PICK n \in 1 .. MaxLines + 1 : n = fb.fresh /\ n <= MaxLines  BY <1>1
<1>3. n \in LineId  BY <1>2, MaxLinesAssumption DEF LineId
<1> QED  BY <1>2, <1>3

\* init_fb_struct()
LEMMA CareInit == Init => CInv
<1> SUFFICES ASSUME Init PROVE CInv  OBVIOUS
<1> DEFINE s == <<1>>
<1>1. fb = InitFb /\ text = <<<<>>>>  BY DEF Init
<1>2. /\ Sound(fb, None) /\ Tracks(fb, s, None) /\ ~fb.fault /\ View(fb, 1) = EmptyLine
      /\ fb.buffer_c = 0 /\ fb.buffer_r = 0 /\ fb.currentl = 1
      /\ fb.scroll = 1 /\ fb.scroll_r = 0 /\ Texts(fb) = text
      BY <1>1, InitFrame
<1>3. Len(s) = 1 /\ s[1] = 1 /\ \A i \in 1 .. Len(s) : i = 1  OBVIOUS
<1> HIDE DEF s
<1>4. LinesOf(fb) = s  BY <1>2, LinesTrack
<1>5. Seen(fb, s, None)
  <2>1. PICK m \in Nat : m = None.low /\ m >= Rows - 2  BY NoneFields
  <2>2. CursorR(fb) \in 0 .. m  BY <2>1, <1>2 DEF CursorR
  <2> QED  BY <2>1, <2>2, <1>2, <1>3 DEF Seen
<1>6. \A i \in 1 .. Len(s) : Good(View(fb, s[i]))  BY <1>2, <1>3, EmptyLineGood
<1>7. View(fb, fb.currentl).sog = fb.buffer_c  BY <1>2 DEF EmptyLine, Line
<1> QED  BY <1>2, <1>4, <1>5, <1>6, <1>7 DEF CInv, Ready

\* A character typed.
LEMMA TypeStep ==
    ASSUME CInv, NEW ch \in Char, Type(ch)
    PROVE  LET l == View(fb, fb.currentl)
           IN  /\ CInv' /\ fb'.buffer_r = fb.buffer_r /\ fb'.buffer_c = fb.buffer_c + 1
               /\ text' = [text EXCEPT ![fb.buffer_r + 1] = Text(InsertInGap(l, l.sog, ch))]
<1> DEFINE g == InsertChar(fb, fb.currentl, ch, FALSE)
           l == View(fb, fb.currentl)
<1>0. PICK s : s = LinesOf(fb)  OBVIOUS
<1>1. Step(g)  BY DEF Type, Moves
<1>2. Ready(fb, s, None) /\ text = TextsOf(fb, s)  BY <1>0, CareFacts
<1>3. /\ Ready(g, s, None) /\ g.buffer_r = fb.buffer_r /\ g.buffer_c = fb.buffer_c + 1
      /\ TextsOf(g, s) = [text EXCEPT ![fb.buffer_r + 1] = Text(InsertInGap(l, l.sog, ch))]
  <2>1. Ready(g, s, None) /\ g.buffer_r = fb.buffer_r /\ g.buffer_c = fb.buffer_c + 1
        BY <1>2, TypeReady
  <2>2. Retexts(fb, g, s, Text(InsertInGap(l, l.sog, ch)))  BY <1>2, TypeReady
  <2> QED  BY <2>1, <2>2, <1>2 DEF Retexts
<1> HIDE DEF g, l
<1> QED  BY <1>1, <1>3, StepReady DEF l

\* Backspace behind a character.
LEMMA EraseStep ==
    ASSUME CInv, Erase
    PROVE  LET l == View(fb, fb.currentl)
           IN  /\ CInv' /\ fb'.buffer_r = fb.buffer_r /\ fb'.buffer_c = fb.buffer_c - 1
               /\ text' = [text EXCEPT ![fb.buffer_r + 1] = Text(Backspace(l))]
<1> DEFINE g == BackspaceChar(fb, fb.currentl)
           l == View(fb, fb.currentl)
<1>0. PICK s : s = LinesOf(fb)  OBVIOUS
<1>1. Step(g) /\ fb.buffer_c # 0  BY DEF Erase
<1>2. Ready(fb, s, None) /\ text = TextsOf(fb, s)  BY <1>0, CareFacts
<1>3. /\ Ready(g, s, None) /\ g.buffer_r = fb.buffer_r /\ g.buffer_c = fb.buffer_c - 1
      /\ TextsOf(g, s) = [text EXCEPT ![fb.buffer_r + 1] = Text(Backspace(l))]
      BY <1>1, <1>2, EraseReady
<1> HIDE DEF g, l
<1> QED  BY <1>1, <1>3, StepReady DEF l

\* h
LEMMA LeftStep ==
    ASSUME CInv, Left
    PROVE  /\ CInv' /\ text' = text
           /\ fb'.buffer_r = fb.buffer_r /\ fb'.buffer_c = fb.buffer_c - 1
<1> DEFINE g == CursorLeft(fb)
<1>0. PICK s : s = LinesOf(fb)  OBVIOUS
<1>1. Step(g) /\ fb.buffer_c # 0  BY DEF Left
<1>2. Ready(fb, s, None) /\ text = TextsOf(fb, s)  BY <1>0, CareFacts
<1>3. /\ Ready(g, s, None) /\ g.buffer_r = fb.buffer_r /\ g.buffer_c = fb.buffer_c - 1
      /\ TextsOf(g, s) = text
      BY <1>1, <1>2, LeftReady
<1> HIDE DEF g
<1> QED  BY <1>1, <1>3, StepReady

\* l
LEMMA RightStep ==
    ASSUME CInv, Right
    PROVE  /\ CInv' /\ text' = text
           /\ fb'.buffer_r = fb.buffer_r /\ fb'.buffer_c = fb.buffer_c + 1
<1> DEFINE g == CursorRight(fb)
<1>0. PICK s : s = LinesOf(fb)  OBVIOUS
<1>1. Step(g) /\ fb.buffer_c + 1 <= fb.line[fb.currentl].data_n  BY DEF Right, Current
<1>2. Ready(fb, s, None) /\ text = TextsOf(fb, s)  BY <1>0, CareFacts
<1>3. View(fb, fb.currentl).data_n = fb.line[fb.currentl].data_n
      BY <1>2, ViewFields, ReadyFields DEF Ready
<1>4. /\ Ready(g, s, None) /\ g.buffer_r = fb.buffer_r /\ g.buffer_c = fb.buffer_c + 1
      /\ TextsOf(g, s) = text
      BY <1>1, <1>2, <1>3, RightReady
<1> HIDE DEF g
<1> QED  BY <1>1, <1>4, StepReady

\* The row of the cursor, and where there is a line before and behind it.
LEMMA CareRow ==
    ASSUME CInv, NEW s, s = LinesOf(fb), NEW k \in 1 .. Len(s), k = fb.buffer_r + 1
    PROVE  /\ k \in Nat /\ fb.buffer_r = k - 1 /\ fb.currentl = s[k] /\ Len(text) = Len(s)
           /\ fb.buffer_r + 1 = k /\ fb.buffer_r + 2 = k + 1 /\ Len(s) \in Nat
           /\ Current.nextl = NULL => k = Len(s)
           /\ Current.nextl # NULL => k + 1 <= Len(s)
           /\ Current.prevl # NULL => k >= 2
           /\ fb.currentl # fb.headl => k >= 2
<1>1. PICK i \in 1 .. Len(s) :
         /\ i \in Nat /\ i = fb.buffer_r + 1 /\ fb.buffer_r = i - 1 /\ fb.currentl = s[i]
         /\ fb.line[s[i]].nextl = IF i = Len(s) THEN NULL ELSE s[i + 1]
         /\ fb.line[s[i]].prevl = IF i = 1 THEN NULL ELSE s[i - 1]
      BY CareFacts
<1>2. /\ k \in Nat /\ fb.buffer_r = k - 1 /\ fb.currentl = s[k]
      /\ Current.nextl = IF k = Len(s) THEN NULL ELSE s[k + 1]
      /\ Current.prevl = IF k = 1 THEN NULL ELSE s[k - 1]
      BY <1>1 DEF Current
<1>3. s \in Seq(LineId) /\ Len(s) \in Nat /\ text = TextsOf(fb, s) /\ Sound(fb, None)
      /\ fb.headl = s[1] /\ \A j \in 1 .. Len(s) : s[j] # NULL
  <2>1. Ready(fb, s, None) /\ text = TextsOf(fb, s)  BY CareFacts
  <2>2. Chain(fb, s) /\ Sound(fb, None)  BY <2>1, ReadyFields DEF Ready
  <2>3. fb.headl = s[1]  BY <2>2 DEF Chain
  <2> QED  BY <2>1, <2>2, <2>3, ChainFacts
<1>4. Len(text) = Len(s)  BY <1>3, TextsValue
<1>5. k # Len(s) => k + 1 <= Len(s) /\ k + 1 \in 1 .. Len(s)
  <2>1. k <= Len(s) /\ k \in Nat  BY <1>2
  <2> QED  BY <2>1, <1>3
<1>6. k # 1 => k >= 2
  <2>1. \A n \in Nat : n >= 1 /\ n # 1 => n >= 2  OBVIOUS
  <2> QED  BY <2>1, <1>2
<1>7. fb.buffer_r + 1 = k /\ fb.buffer_r + 2 = k + 1
  <2>1. PICK r \in Nat : r = fb.buffer_r /\ r = k - 1  BY <1>2, <1>3
  <2> QED  BY <2>1, <1>2
<1> QED  BY <1>2, <1>3, <1>4, <1>5, <1>6, <1>7

\* j
LEMMA DownStep ==
    ASSUME CInv, Down
    PROVE  /\ CInv' /\ text' = text /\ fb.buffer_r + 1 < Len(text)
           /\ fb'.buffer_r = fb.buffer_r + 1 /\ fb'.buffer_c = ClipTo(fb, text[fb.buffer_r + 2])
<1> DEFINE g == RowDown(fb)
<1>0. PICK s : s = LinesOf(fb)  OBVIOUS
<1>1. Step(g) /\ Current.nextl # NULL  BY DEF Down
<1>2. Ready(fb, s, None) /\ text = TextsOf(fb, s)  BY <1>0, CareFacts
<1>3. PICK k \in 1 .. Len(s) : k = fb.buffer_r + 1  BY <1>0, CareFacts
<1>4. /\ fb.buffer_r = k - 1 /\ fb.currentl = s[k] /\ k + 1 <= Len(s) /\ Len(text) = Len(s)
      /\ k \in Nat /\ Len(s) \in Nat /\ fb.buffer_r + 2 = k + 1
      BY <1>0, <1>1, <1>3, CareRow
<1>5. /\ Ready(g, s, None) /\ g.buffer_r = k /\ g.buffer_c = ClipTo(fb, text[k + 1])
      /\ TextsOf(g, s) = text
      BY <1>2, <1>4, DownReady
<1> HIDE DEF g
<1>6. fb.buffer_r + 1 < Len(text)  BY <1>3, <1>4
<1> QED  BY <1>1, <1>3, <1>4, <1>5, <1>6, StepReady

\* k
LEMMA UpStep ==
    ASSUME CInv, Up
    PROVE  /\ CInv' /\ text' = text /\ fb.buffer_r > 0
           /\ fb'.buffer_r = fb.buffer_r - 1 /\ fb'.buffer_c = ClipTo(fb, text[fb.buffer_r])
<1> DEFINE g == RowUp(fb)
<1>0. PICK s : s = LinesOf(fb)  OBVIOUS
<1>1. Step(g) /\ Current.prevl # NULL  BY DEF Up
<1>2. Ready(fb, s, None) /\ text = TextsOf(fb, s)  BY <1>0, CareFacts
<1>3. PICK k \in 1 .. Len(s) : k = fb.buffer_r + 1  BY <1>0, CareFacts
<1>4. fb.buffer_r = k - 1 /\ fb.currentl = s[k] /\ k >= 2 /\ k \in Nat
      BY <1>0, <1>1, <1>3, CareRow
<1>5. /\ Ready(g, s, None) /\ g.buffer_r = k - 2 /\ g.buffer_c = ClipTo(fb, text[k - 1])
      /\ TextsOf(g, s) = text
      BY <1>2, <1>4, UpReady
<1> HIDE DEF g
<1>6. fb.buffer_r > 0 /\ fb.buffer_r - 1 = k - 2  BY <1>4
<1> QED  BY <1>1, <1>4, <1>5, <1>6, StepReady

\* Newline in insert mode.
LEMMA BreakStep ==
    ASSUME CInv, Break
    PROVE  LET l == View(fb, fb.currentl)
           IN  /\ CInv' /\ fb'.buffer_r = fb.buffer_r + 1 /\ fb'.buffer_c = 0
               /\ text' = InsertAt([text EXCEPT ![fb.buffer_r + 1] =
                                       Text(BeforeCursor(l, l.sog))],
                                   fb.buffer_r + 2, Text(AfterCursor(l, l.sog)))
<1> DEFINE g == BreakLine(fb)
           l == View(fb, fb.currentl)
<1>0. PICK s : s = LinesOf(fb)  OBVIOUS
<1>1. Step(g) /\ fb.fresh \in LineId  BY CareRoom DEF Break
<1>2. Ready(fb, s, None) /\ text = TextsOf(fb, s)  BY <1>0, CareFacts
<1>3. PICK k \in 1 .. Len(s) : k = fb.buffer_r + 1  BY <1>0, CareFacts
<1>4. fb.buffer_r = k - 1 /\ fb.currentl = s[k] /\ fb.buffer_r + 2 = k + 1
      BY <1>0, <1>3, CareRow
<1> DEFINE t == InsertAt(s, k + 1, fb.fresh)
<1>5. /\ Ready(g, t, None) /\ g.buffer_r = k /\ g.buffer_c = 0
      /\ TextsOf(g, t) = InsertAt([text EXCEPT ![k] = Text(BeforeCursor(l, l.sog))],
                                  k + 1, Text(AfterCursor(l, l.sog)))
      BY <1>1, <1>2, <1>4, BreakReady
<1> HIDE DEF g, t, l
<1>6. /\ CInv' /\ text' = TextsOf(g, t)
      /\ fb'.buffer_r = g.buffer_r /\ fb'.buffer_c = g.buffer_c
      BY <1>1, <1>5, StepReady
<1>7. /\ CInv' /\ fb'.buffer_r = fb.buffer_r + 1 /\ fb'.buffer_c = 0
      /\ text' = InsertAt([text EXCEPT ![fb.buffer_r + 1] = Text(BeforeCursor(l, l.sog))],
                          fb.buffer_r + 2, Text(AfterCursor(l, l.sog)))
      BY <1>3, <1>4, <1>5, <1>6
<1> QED  BY <1>7 DEF l

\* o
LEMMA OpenStep ==
    ASSUME CInv, Open
    PROVE  /\ CInv' /\ fb'.buffer_r = fb.buffer_r + 1 /\ fb'.buffer_c = 0
           /\ text' = InsertAt(text, fb.buffer_r + 2, <<>>)
<1> DEFINE g == OpenLine(fb)
<1>0. PICK s : s = LinesOf(fb)  OBVIOUS
<1>1. Step(g) /\ fb.fresh \in LineId  BY CareRoom DEF Open
<1>2. Ready(fb, s, None) /\ text = TextsOf(fb, s)  BY <1>0, CareFacts
<1>3. PICK k \in 1 .. Len(s) : k = fb.buffer_r + 1  BY <1>0, CareFacts
<1>4. fb.buffer_r = k - 1 /\ fb.currentl = s[k] /\ fb.buffer_r + 2 = k + 1
      BY <1>0, <1>3, CareRow
<1> DEFINE t == InsertAt(s, k + 1, fb.fresh)
<1>5. /\ Ready(g, t, None) /\ g.buffer_r = k /\ g.buffer_c = 0
      /\ TextsOf(g, t) = InsertAt(text, k + 1, <<>>)
      BY <1>1, <1>2, <1>4, OpenReady
<1> HIDE DEF g, t
<1> QED  BY <1>1, <1>3, <1>4, <1>5, StepReady

\* Backspace at the start of the last line.
LEMMA JoinStep ==
    ASSUME CInv, AtEnd, Join
    PROVE  /\ CInv' /\ fb.buffer_r > 0 /\ fb.buffer_c = 0
           /\ fb'.buffer_r = fb.buffer_r - 1 /\ fb'.buffer_c = Len(text[fb.buffer_r])
           /\ text' = JoinedTexts(text, fb.buffer_r + 1)
<1> DEFINE g == JoinLine(fb, FALSE)
<1>0. PICK s : s = LinesOf(fb)  OBVIOUS
<1>1. Step(g) /\ fb.currentl # fb.headl /\ fb.buffer_c = 0 /\ Current.nextl = NULL
      /\ fb.currentl # fb.scroll
      BY DEF Join, AtEnd, Moves
<1>2. Ready(fb, s, None) /\ text = TextsOf(fb, s)  BY <1>0, CareFacts
<1>3. PICK k \in 1 .. Len(s) : k = fb.buffer_r + 1  BY <1>0, CareFacts
<1>4. /\ k \in Nat /\ fb.buffer_r = k - 1 /\ fb.currentl = s[k] /\ k >= 2 /\ k = Len(s)
      BY <1>0, <1>1, <1>3, CareRow
<1>a. fb.scroll # s[k]  BY <1>1, <1>4
<1> DEFINE t == RemoveAt(s, k)
<1>5. /\ Ready(g, t, None) /\ g.buffer_r = k - 2 /\ g.buffer_c = Len(text[k - 1])
      /\ TextsOf(g, t) = JoinedTexts(text, k)
  <2> DEFINE T == TextsOf(fb, s)
  <2> HIDE DEF g, t, T
  <2>1. JoinsLast(fb, g, s, k, None)  BY <1>2, <1>4, <1>a, JoinReady DEF g
  <2> QED  BY <2>1, <1>2 DEF JoinsLast, T, t
<1> HIDE DEF g, t
<1>6. /\ CInv' /\ text' = TextsOf(g, t)
      /\ fb'.buffer_r = g.buffer_r /\ fb'.buffer_c = g.buffer_c
      BY <1>1, <1>5, StepReady
<1>7. fb.buffer_r > 0 /\ fb.buffer_r - 1 = k - 2  BY <1>4
<1> QED  BY <1>1, <1>3, <1>4, <1>5, <1>6, <1>7

\* dd in the last line, which is not the only one.
LEMMA DeleteStep ==
    ASSUME CInv, AtEnd, fb.currentl # fb.headl, Delete
    PROVE  /\ CInv' /\ fb.buffer_r > 0 /\ fb.buffer_r + 1 = Len(text)
           /\ fb'.buffer_r = fb.buffer_r - 1 /\ fb'.buffer_c = ClipTo(fb, text[fb.buffer_r])
           /\ text' = RemoveAt(text, fb.buffer_r + 1)
<1> DEFINE g == DeleteLine(fb)
<1>0. PICK s : s = LinesOf(fb)  OBVIOUS
<1>1. Step(g) /\ Current.nextl = NULL /\ fb.currentl # fb.scroll
      BY DEF Delete, AtEnd
<1>2. Ready(fb, s, None) /\ text = TextsOf(fb, s)  BY <1>0, CareFacts
<1>3. PICK k \in 1 .. Len(s) : k = fb.buffer_r + 1  BY <1>0, CareFacts
<1>4. /\ k \in Nat /\ fb.buffer_r = k - 1 /\ fb.currentl = s[k] /\ k >= 2 /\ k = Len(s)
      /\ Len(text) = Len(s)
      BY <1>0, <1>1, <1>3, CareRow
<1>a. fb.scroll # s[k]  BY <1>1, <1>4
<1> DEFINE t == RemoveAt(s, k)
<1>5. /\ Ready(g, t, None) /\ g.buffer_r = k - 2 /\ g.buffer_c = ClipTo(fb, text[k - 1])
      /\ TextsOf(g, t) = RemoveAt(text, k)
  <2> HIDE DEF g, t
  <2> QED  BY <1>2, <1>4, <1>a, DeleteReady DEF g, t
<1> HIDE DEF g, t
<1>6. /\ CInv' /\ text' = TextsOf(g, t)
      /\ fb'.buffer_r = g.buffer_r /\ fb'.buffer_c = g.buffer_c
      BY <1>1, <1>5, StepReady
<1>7. fb.buffer_r > 0 /\ fb.buffer_r - 1 = k - 2  BY <1>4
<1> QED  BY <1>3, <1>4, <1>5, <1>6, <1>7

-----------------------------------------------------------------------------
(* What holds under CarefulSpec *)

\* Every careful key keeps the invariant.
LEMMA CareKey ==
    ASSUME CInv, CarefulNext
    PROVE  CInv'
<1>1. ASSUME NEW ch \in Char, Type(ch) PROVE CInv'  BY <1>1, TypeStep
<1>2. CASE Erase  BY <1>2, EraseStep
<1>3. CASE Left  BY <1>3, LeftStep
<1>4. CASE Right  BY <1>4, RightStep
<1>5. CASE Down  BY <1>5, DownStep
<1>6. CASE Up  BY <1>6, UpStep
<1>7. CASE Break  BY <1>7, BreakStep
<1>8. CASE Open  BY <1>8, OpenStep
<1>9. CASE AtEnd /\ Join  BY <1>9, JoinStep
<1>10. CASE AtEnd /\ fb.currentl # fb.headl /\ Delete  BY <1>10, DeleteStep
<1> QED  BY <1>1, <1>2, <1>3, <1>4, <1>5, <1>6, <1>7, <1>8, <1>9, <1>10 DEF CarefulNext

\* So does every step of CarefulSpec.
LEMMA CareNext == CInv /\ [CarefulNext]_vars => CInv'
<1>1. ASSUME CInv, UNCHANGED vars PROVE CInv'
  <2>1. fb' = fb /\ text' = text  BY <1>1 DEF vars
  <2> QED  BY <2>1, <1>1 DEF CInv
<1> QED  BY <1>1, CareKey

\* As long as the keys are careful the framebuffer stays ready: its lines are
\* well-formed, the gap of the current one is at the cursor, and scroll is the line
\* at row scroll_r.
THEOREM CarefulInvariant == CarefulSpec => []CInv
<1> QED  BY CareInit, CareNext, PTL DEF CarefulSpec

\* A ready framebuffer is what the properties of the careful run ask for.
LEMMA CareSafe == CInv => NeverFaults /\ GapAtCursor /\ CursorVisible
<1> SUFFICES ASSUME CInv PROVE NeverFaults /\ GapAtCursor /\ CursorVisible  OBVIOUS
<1>0. PICK s : s = LinesOf(fb)  OBVIOUS
<1>1. Ready(fb, s, None)  BY <1>0, CareFacts
<1>2. NeverFaults  BY <1>1 DEF Ready, NeverFaults
<1>3. GapAtCursor
  <2>1. /\ fb.currentl \in LineId /\ fb.buffer_c <= View(fb, fb.currentl).data_n
        /\ View(fb, fb.currentl).sog = fb.buffer_c /\ Sound(fb, None)
        BY <1>1, ReadyFields DEF Ready
  <2>2. /\ View(fb, fb.currentl).sog = Current.sog
        /\ View(fb, fb.currentl).data_n = Current.data_n
        BY <2>1, ViewFields DEF Current
  <2> QED  BY <2>1, <2>2 DEF GapAtCursor
<1>4. CursorVisible
  <2>1. Seen(fb, s, None) /\ Chain(fb, s) /\ Len(s) \in Nat  BY <1>1, ReadyFields DEF Ready
  <2>2. fb.scroll_r \in Int /\ fb.scroll_r \in 0 .. Len(s) - 1 /\ fb.scroll = s[fb.scroll_r + 1]
        BY <2>1 DEF Seen
  <2>3. SeekLine(fb, fb.scroll_r) = fb.scroll  BY <2>1, <2>2, SeekChain
  <2>4. CursorR(fb) \in 0 .. Rows - 2  BY <2>1, NoneFields DEF Seen
  <2> QED  BY <2>1, <2>3, <2>4 DEF CursorVisible, Seen
<1> QED  BY <1>2, <1>3, <1>4

\* The careful keys never make the program follow NULL or a freed pointer, nor read
\* or write outside an array: cursor_up() finds its line, memmove() stays inside.
THEOREM CarefulNeverFaults == CarefulSpec => []NeverFaults
<1> QED  BY CarefulInvariant, CareSafe, PTL

\* Under the careful keys the gap is where the cursor is, so insert_char() and
\* backspace_char() edit the line where the user sees the cursor.
THEOREM CarefulGap == CarefulSpec => []GapAtCursor
<1> QED  BY CarefulInvariant, CareSafe, PTL

\* Under the careful keys the cursor is on the screen, and the row drawn there is
\* the row edited: scroll and scroll_r move together in every key.
THEOREM CarefulCursor == CarefulSpec => []CursorVisible
<1> QED  BY CarefulInvariant, CareSafe, PTL

-----------------------------------------------------------------------------
(* What the keys do to the text of the line they edit *)

\* The text of a line, its length and its characters.
LEMMA TextFacts ==
    ASSUME NEW l, Good(l)
    PROVE  /\ Text(l) \in Seq(Char) /\ Len(Text(l)) = l.data_n
           /\ l.data_n \in Nat /\ l.sog \in Nat /\ l.sog <= l.data_n
           /\ \A i \in 1 .. l.data_n : Text(l)[i] = CharAt(l, i)
BY TextOfGood, GoodFields

\* insert_char() puts the character between those left and right of the cursor.
LEMMA TypedText ==
    ASSUME NEW l, Good(l), NEW ch \in Char
    PROVE  Text(InsertInGap(l, l.sog, ch)) = InsertAt(Text(l), l.sog + 1, ch)
<1> DEFINE g == InsertInGap(l, l.sog, ch)
           a == Text(g)
           t == Text(l)
           n == l.data_n
<1>1. /\ t \in Seq(Char) /\ Len(t) = n /\ n \in Nat /\ l.sog \in Nat /\ l.sog <= n
      /\ \A i \in 1 .. n : t[i] = CharAt(l, i)
      BY TextFacts
<1>2. /\ Good(g) /\ g.data_n = n + 1
      /\ \A i \in 1 .. n + 1 :
            CharAt(g, i) = IF i <= l.sog THEN CharAt(l, i)
                           ELSE IF i = l.sog + 1 THEN ch ELSE CharAt(l, i - 1)
      BY InsertGood
<1> HIDE DEF g
<1>3. a \in Seq(Char) /\ Len(a) = n + 1 /\ \A i \in 1 .. n + 1 : a[i] = CharAt(g, i)
      BY <1>2, TextFacts
<1> HIDE DEF a, t, n
<1>4. PICK m \in 1 .. Len(t) + 1 : m = l.sog + 1  BY <1>1
<1> DEFINE b == InsertAt(t, m, ch)
<1>5. /\ b \in Seq(Char) /\ Len(b) = Len(t) + 1
      /\ \A i \in 1 .. Len(t) + 1 : b[i] = IF i < m THEN t[i] ELSE IF i = m THEN ch ELSE t[i - 1]
  <2>1. t \in Seq(Char)  BY <1>1
  <2> QED  BY <2>1, InsertAtValue
<1> HIDE DEF b
<1>6. ASSUME NEW i \in 1 .. Len(a) PROVE a[i] = b[i]
  <2>1. i \in 1 .. n + 1 /\ i \in Nat /\ i \in 1 .. Len(t) + 1  BY <1>1, <1>3
  <2>2. CASE i < m
    <3>1. i <= l.sog /\ i \in 1 .. n  BY <2>1, <2>2, <1>1, <1>4
    <3> QED  BY <3>1, <2>1, <2>2, <1>1, <1>2, <1>3, <1>5
  <2>3. CASE i = m
    <3>1. ~(i <= l.sog) /\ i = l.sog + 1  BY <2>1, <2>3, <1>1, <1>4
    <3> QED  BY <3>1, <2>1, <2>3, <1>2, <1>3, <1>5
  <2>4. CASE i > m
    <3>1. ~(i <= l.sog) /\ i # l.sog + 1 /\ ~(i < m) /\ i # m /\ i - 1 \in 1 .. n
          BY <2>1, <2>4, <1>1, <1>4
    <3>2. a[i] = CharAt(l, i - 1)  BY <3>1, <2>1, <1>2, <1>3
    <3>3. b[i] = t[i - 1]  BY <3>1, <2>1, <1>5
    <3> QED  BY <3>1, <3>2, <3>3, <1>1
  <2> QED  BY <2>1, <2>2, <2>3, <2>4, <1>4
<1>7. a = b
  <2>1. a \in Seq(Char) /\ b \in Seq(Char)  BY <1>3, <1>5
  <2>2. Len(a) = Len(b)  BY <1>1, <1>3, <1>5
  <2> QED  BY <2>1, <2>2, <1>6, SameSeq
<1> QED  BY <1>4, <1>7 DEF a, b, g, t

\* backspace_char() takes the character left of the cursor out.
LEMMA ErasedText ==
    ASSUME NEW l, Good(l), l.sog # 0
    PROVE  Text(Backspace(l)) = RemoveAt(Text(l), l.sog)
<1> DEFINE g == Backspace(l)
           a == Text(g)
           t == Text(l)
           n == l.data_n
<1>1. /\ t \in Seq(Char) /\ Len(t) = n /\ n \in Nat /\ l.sog \in Nat /\ l.sog <= n
      /\ \A i \in 1 .. n : t[i] = CharAt(l, i)
      BY TextFacts
<1>2. /\ Good(g) /\ g.data_n = n - 1
      /\ \A i \in 1 .. n - 1 :
            CharAt(g, i) = IF i < l.sog THEN CharAt(l, i) ELSE CharAt(l, i + 1)
      BY BackspaceGood
<1> HIDE DEF g
<1>3. a \in Seq(Char) /\ Len(a) = n - 1 /\ \A i \in 1 .. n - 1 : a[i] = CharAt(g, i)
      BY <1>2, TextFacts
<1> HIDE DEF a, t, n
<1>4. PICK m \in 1 .. Len(t) : m = l.sog  BY <1>1
<1> DEFINE b == RemoveAt(t, m)
<1>5. /\ b \in Seq(Char) /\ Len(b) = Len(t) - 1
      /\ \A i \in 1 .. Len(t) - 1 : b[i] = IF i < m THEN t[i] ELSE t[i + 1]
  <2>1. t \in Seq(Char)  BY <1>1
  <2> QED  BY <2>1, RemoveAtValue
<1> HIDE DEF b
<1>6. ASSUME NEW i \in 1 .. Len(a) PROVE a[i] = b[i]
  <2>1. i \in 1 .. n - 1 /\ i \in 1 .. Len(t) - 1  BY <1>1, <1>3
  <2>2. i \in 1 .. n /\ i + 1 \in 1 .. n  BY <2>1, <1>1
  <2>3. a[i] = IF i < m THEN CharAt(l, i) ELSE CharAt(l, i + 1)  BY <2>1, <1>2, <1>3, <1>4
  <2>4. b[i] = IF i < m THEN t[i] ELSE t[i + 1]  BY <2>1, <1>5
  <2> QED  BY <2>2, <2>3, <2>4, <1>1
<1>7. a = b
  <2>1. a \in Seq(Char) /\ b \in Seq(Char)  BY <1>3, <1>5
  <2>2. Len(a) = Len(b)  BY <1>1, <1>3, <1>5
  <2> QED  BY <2>1, <2>2, <1>6, SameSeq
<1> QED  BY <1>4, <1>7 DEF a, b, g, t

\* A newline leaves what is left of the cursor and takes the rest along.
LEMMA BeforeText ==
    ASSUME NEW l, Good(l)
    PROVE  Text(BeforeCursor(l, l.sog)) = SubSeq(Text(l), 1, l.sog)
<1> DEFINE g == BeforeCursor(l, l.sog)
           a == Text(g)
           t == Text(l)
           n == l.data_n
<1>1. /\ t \in Seq(Char) /\ Len(t) = n /\ n \in Nat /\ l.sog \in Nat /\ l.sog <= n
      /\ \A i \in 1 .. n : t[i] = CharAt(l, i)
      BY TextFacts
<1>2. /\ Good(g) /\ g.data_n = l.sog
      /\ \A i \in 1 .. l.sog : CharAt(g, i) = CharAt(l, i)
      BY BeforeCursorGood
<1> HIDE DEF g
<1>3. a \in Seq(Char) /\ Len(a) = l.sog /\ \A i \in 1 .. l.sog : a[i] = CharAt(g, i)
      BY <1>2, TextFacts
<1> HIDE DEF a, t, n
<1>4. PICK c \in 0 .. Len(t) : c = l.sog  BY <1>1
<1> DEFINE b == SubSeq(t, 1, c)
<1>5. b \in Seq(Char) /\ Len(b) = c /\ \A i \in 1 .. c : b[i] = t[i]
  <2>1. t \in Seq(Char) /\ c \in Nat /\ c <= Len(t)  BY <1>1, <1>4
  <2> QED  BY <2>1
<1> HIDE DEF b
<1>6. \A i \in 1 .. Len(a) : a[i] = b[i]  BY <1>1, <1>2, <1>3, <1>4, <1>5
<1>7. a = b
  <2>1. a \in Seq(Char) /\ b \in Seq(Char)  BY <1>3, <1>5
  <2>2. Len(a) = Len(b)  BY <1>1, <1>3, <1>4, <1>5
  <2> QED  BY <2>1, <2>2, <1>6, SameSeq
<1> QED  BY <1>4, <1>7 DEF a, b, g, t

\* The new line takes what was right of the cursor.
LEMMA AfterText ==
    ASSUME NEW l, Good(l)
    PROVE  Text(AfterCursor(l, l.sog)) = SubSeq(Text(l), l.sog + 1, Len(Text(l)))
<1> DEFINE g == AfterCursor(l, l.sog)
           a == Text(g)
           t == Text(l)
           n == l.data_n
<1>1. /\ t \in Seq(Char) /\ Len(t) = n /\ n \in Nat /\ l.sog \in Nat /\ l.sog <= n
      /\ \A i \in 1 .. n : t[i] = CharAt(l, i)
      BY TextFacts
<1>2. /\ Good(g) /\ g.data_n = n - l.sog
      /\ \A i \in 1 .. n - l.sog : CharAt(g, i) = CharAt(l, l.sog + i)
      BY AfterCursorGood
<1> HIDE DEF g
<1>3. a \in Seq(Char) /\ Len(a) = n - l.sog /\ \A i \in 1 .. n - l.sog : a[i] = CharAt(g, i)
      BY <1>2, TextFacts
<1> HIDE DEF a, t, n
<1>4. PICK c \in 0 .. Len(t) : c = l.sog  BY <1>1
<1> DEFINE b == SubSeq(t, c + 1, Len(t))
<1>5. b \in Seq(Char) /\ Len(b) = Len(t) - c /\ \A i \in 1 .. Len(t) - c : b[i] = t[c + i]
  <2>1. t \in Seq(Char) /\ c \in Nat /\ c <= Len(t) /\ Len(t) \in Nat  BY <1>1, <1>4
  <2> QED  BY <2>1
<1> HIDE DEF b
<1>6. ASSUME NEW i \in 1 .. Len(a) PROVE a[i] = b[i]
  <2>1. i \in 1 .. n - l.sog /\ i \in 1 .. Len(t) - c /\ l.sog + i \in 1 .. n /\ c + i = l.sog + i
        BY <1>1, <1>3, <1>4
  <2>2. a[i] = CharAt(l, l.sog + i)  BY <2>1, <1>2, <1>3
  <2>3. b[i] = t[l.sog + i]  BY <2>1, <1>5
  <2> QED  BY <2>1, <2>2, <2>3, <1>1
<1>7. a = b
  <2>1. a \in Seq(Char) /\ b \in Seq(Char)  BY <1>3, <1>5
  <2>2. Len(a) = Len(b)  BY <1>1, <1>3, <1>4, <1>5
  <2> QED  BY <2>1, <2>2, <1>6, SameSeq
<1> QED  BY <1>4, <1>7 DEF a, b, g, t

\* Taking the last element away.
LEMMA RemoveLast ==
    ASSUME NEW S, NEW s \in Seq(S), NEW k \in 1 .. Len(s), k = Len(s)
    PROVE  RemoveAt(s, k) = Front(s)
<1> DEFINE a == RemoveAt(s, k)
           b == SubSeq(s, 1, k - 1)
<1>0. k \in Nat /\ k >= 1 /\ Len(s) \in Nat  OBVIOUS
<1>1. /\ a \in Seq(S) /\ Len(a) = Len(s) - 1
      /\ \A i \in 1 .. Len(s) - 1 : a[i] = IF i < k THEN s[i] ELSE s[i + 1]
      BY RemoveAtValue
<1>2. b \in Seq(S) /\ Len(b) = k - 1 /\ \A i \in 1 .. k - 1 : b[i] = s[i]  BY <1>0
<1> HIDE DEF a, b
<1>3. Len(a) = k - 1 /\ Len(b) = k - 1  BY <1>1, <1>2
<1>a. ASSUME NEW i \in 1 .. Len(a) PROVE a[i] = b[i]
  <2>1. i \in 1 .. k - 1 /\ i \in 1 .. Len(s) - 1 /\ i < k  BY <1>0, <1>1, <1>3
  <2> QED  BY <2>1, <1>1, <1>2
<1>4. a = b
  <2>1. a \in Seq(S) /\ b \in Seq(S)  BY <1>1, <1>2
  <2> QED  BY <2>1, <1>3, <1>a, SameSeq
<1>5. Front(s) = b  BY DEF Front, b
<1> QED  BY <1>4, <1>5 DEF a

-----------------------------------------------------------------------------
(* The list of gap buffers implements the text with a cursor *)

\* The text of the current line, and the column in it.
LEMMA CareText ==
    ASSUME CInv
    PROVE  LET l == View(fb, fb.currentl)
           IN  /\ Good(l) /\ text[fb.buffer_r + 1] = Text(l) /\ fb.buffer_c = l.sog
               /\ Len(Text(l)) = l.data_n /\ fb.buffer_c \in Nat /\ fb.buffer_r \in Nat
               /\ l.data_n = Current.data_n
               /\ text \in Seq(Seq(Byte)) /\ fb.buffer_r + 1 \in 1 .. Len(text)
<1> DEFINE l == View(fb, fb.currentl)
<1>0. PICK s : s = LinesOf(fb)  OBVIOUS
<1>1. Ready(fb, s, None) /\ text = TextsOf(fb, s)  BY <1>0, CareFacts
<1>2. PICK k \in 1 .. Len(s) : k = fb.buffer_r + 1 /\ fb.buffer_r = k - 1 /\ fb.currentl = s[k]
      BY <1>0, CareFacts
<1>3. Good(l) /\ fb.buffer_c \in Nat /\ fb.currentl \in LineId /\ s \in Seq(LineId)
      /\ Len(s) \in Nat /\ fb.buffer_c = l.sog /\ Sound(fb, None)
      BY <1>1, ReadyFields DEF Ready
<1>4. text[k] = Text(l)  BY <1>1, <1>2 DEF TextsOf, TextOf
<1>5. Len(Text(l)) = l.data_n  BY <1>3, TextOfGood
<1>6. l.data_n = Current.data_n  BY <1>3, ViewFields DEF Current
<1>7. text \in Seq(Seq(Byte)) /\ Len(text) = Len(s)  BY <1>1, <1>3, TextsValue
<1> HIDE DEF l
<1>8. fb.buffer_r \in Nat  BY <1>2, <1>3
<1> QED  BY <1>2, <1>3, <1>4, <1>5, <1>6, <1>7, <1>8 DEF l

\* The definition of InsertAt, as an equation.
LEMMA InsertAtIs ==
    \A s, i, e : InsertAt(s, i, e) = SubSeq(s, 1, i - 1) \o <<e>> \o SubSeq(s, i, Len(s))
BY Zenon DEF InsertAt

\* The sequence operators mean the same in the instance of TextBuffer: InsertAt ...
LEMMA PromiseInserts ==
    \A s, i, e : Promise!InsertAt(s, i, e) = InsertAt(s, i, e)
BY Zenon DEF Promise!InsertAt, InsertAt

\* RemoveAt ...
LEMMA PromiseRemoves ==
    \A s, i : Promise!RemoveAt(s, i) = RemoveAt(s, i)
BY Zenon DEF Promise!RemoveAt, RemoveAt

\* ... and Front.
LEMMA PromiseFronts ==
    \A s : Promise!Front(s) = Front(s)
BY Zenon DEF Promise!Front, Front

\* init_fb_struct() makes an empty text with the cursor at its start.
LEMMA PromiseInit == Init => Promise!Init
BY InitFrame DEF Init, Promise!Init

\* Every careful key does to the text what a key of a text buffer does.
LEMMA PromiseKey ==
    ASSUME CInv, CarefulNext
    PROVE  Promise!Next
<1> DEFINE l == View(fb, fb.currentl)
           t == Text(l)
           r == fb.buffer_r + 1
           c == fb.buffer_c
<1>0. /\ Good(l) /\ text[r] = t /\ c = l.sog /\ Len(t) = l.data_n /\ c \in Nat
      /\ fb.buffer_r \in Nat /\ l.data_n = Current.data_n
      /\ text \in Seq(Seq(Byte)) /\ r \in 1 .. Len(text)
      BY CareText
<1> HIDE DEF l, t
<1>1. ASSUME NEW ch \in Char, Type(ch) PROVE Promise!Next
  <2>1. /\ fb'.buffer_r = fb.buffer_r /\ fb'.buffer_c = fb.buffer_c + 1
        /\ text' = [text EXCEPT ![r] = Text(InsertInGap(l, l.sog, ch))]
        BY <1>1, TypeStep DEF l
  <2>2. Text(InsertInGap(l, l.sog, ch)) = InsertAt(t, c + 1, ch)  BY <1>0, TypedText DEF t
  <2>3. InsertAt(t, c + 1, ch) = Promise!Left(t) \o <<ch>> \o Promise!Right(t)
    <3>0. PICK n : n = c + 1  OBVIOUS
    <3>1. n - 1 = c  BY <3>0, <1>0
    <3>2. InsertAt(t, n, ch) = SubSeq(t, 1, n - 1) \o <<ch>> \o SubSeq(t, n, Len(t))
          BY InsertAtIs
    <3>3. SubSeq(t, 1, n - 1) = Promise!Left(t)  BY <3>1 DEF Promise!Left
    <3>4. SubSeq(t, n, Len(t)) = Promise!Right(t)  BY <3>0 DEF Promise!Right
    <3> QED  BY <3>0, <3>2, <3>3, <3>4
  <2>4. text' = [text EXCEPT ![r] = Promise!Left(text[r]) \o <<ch>> \o Promise!Right(text[r])]
        BY <2>1, <2>2, <2>3, <1>0
  <2>5. Promise!Type(ch)  BY <2>1, <2>4 DEF Promise!Type
  <2> QED  BY <2>5 DEF Promise!Next
<1>2. CASE Erase
  <2>1. /\ fb'.buffer_r = fb.buffer_r /\ fb'.buffer_c = fb.buffer_c - 1
        /\ text' = [text EXCEPT ![r] = Text(Backspace(l))]
        BY <1>2, EraseStep DEF l
  <2>2. c # 0 /\ c > 0  BY <1>2, <1>0 DEF Erase
  <2>3. Text(Backspace(l)) = RemoveAt(text[r], c)  BY <2>2, <1>0, ErasedText DEF t
  <2>4. Promise!Erase  BY <2>1, <2>2, <2>3, PromiseRemoves DEF Promise!Erase
  <2> QED  BY <2>4 DEF Promise!Next
<1>3. CASE Left
  <2>1. c > 0  BY <1>3, <1>0 DEF Left
  <2>2. Promise!MoveLeft  BY <1>3, <2>1, LeftStep DEF Promise!MoveLeft
  <2> QED  BY <2>2 DEF Promise!Next
<1>4. CASE Right
  <2>1. c < Len(text[r])
    <3>1. c + 1 <= l.data_n  BY <1>4, <1>0 DEF Right
    <3>2. l.data_n = Len(t) /\ l.data_n \in Nat  BY <1>0, GoodFields
    <3> QED  BY <3>1, <3>2, <1>0
  <2>2. Promise!MoveRight  BY <1>4, <2>1, RightStep DEF Promise!MoveRight, Promise!Current
  <2> QED  BY <2>2 DEF Promise!Next
<1>5. CASE Down
  <2>1. Promise!MoveDown
        BY <1>5, DownStep DEF Promise!MoveDown, Promise!Clip, ClipTo
  <2> QED  BY <2>1 DEF Promise!Next
<1>6. CASE Up
  <2>1. Promise!MoveUp  BY <1>6, UpStep DEF Promise!MoveUp, Promise!Clip, ClipTo
  <2> QED  BY <2>1 DEF Promise!Next
<1>7. CASE Break
  <2>1. /\ fb'.buffer_r = fb.buffer_r + 1 /\ fb'.buffer_c = 0
        /\ text' = InsertAt([text EXCEPT ![r] = Text(BeforeCursor(l, l.sog))],
                            fb.buffer_r + 2, Text(AfterCursor(l, l.sog)))
        BY <1>7, BreakStep DEF l
  <2>2. Text(BeforeCursor(l, l.sog)) = Promise!Left(text[r])
        BY <1>0, BeforeText DEF Promise!Left, t
  <2>3. Text(AfterCursor(l, l.sog)) = Promise!Right(text[r])
        BY <1>0, AfterText DEF Promise!Right, t
  <2>4. Promise!Break
        BY <2>1, <2>2, <2>3, PromiseInserts DEF Promise!Break, Promise!Current
  <2> QED  BY <2>4 DEF Promise!Next
<1>8. CASE Open
  <2>1. Promise!Open  BY <1>8, OpenStep, PromiseInserts DEF Promise!Open
  <2> QED  BY <2>1 DEF Promise!Next
<1>9. CASE AtEnd /\ Join
  <2>1. /\ fb.buffer_r > 0 /\ fb.buffer_c = 0 /\ fb'.buffer_r = fb.buffer_r - 1
        /\ fb'.buffer_c = Len(text[fb.buffer_r]) /\ text' = JoinedTexts(text, r)
        BY <1>9, JoinStep
  <2>2. r - 1 = fb.buffer_r  BY <1>0
  <2>3. text' = RemoveAt([text EXCEPT ![fb.buffer_r] = text[fb.buffer_r] \o text[r]], r)
        BY <2>1, <2>2 DEF JoinedTexts
  <2>4. Promise!Join  BY <2>1, <2>3, PromiseRemoves DEF Promise!Join, Promise!Current
  <2> QED  BY <2>4 DEF Promise!Next
<1>10. CASE AtEnd /\ fb.currentl # fb.headl /\ Delete
  <2>1. /\ fb.buffer_r > 0 /\ r = Len(text) /\ fb'.buffer_r = fb.buffer_r - 1
        /\ fb'.buffer_c = ClipTo(fb, text[fb.buffer_r]) /\ text' = RemoveAt(text, r)
        BY <1>10, DeleteStep
  <2>2. text' = Front(text)  BY <2>1, <1>0, RemoveLast
  <2>3. fb.buffer_r # 0  BY <2>1, <1>0
  <2>4. Promise!DeleteLast
        BY <2>1, <2>2, <2>3, PromiseFronts DEF Promise!DeleteLast, Promise!Clip, ClipTo
  <2> QED  BY <2>4 DEF Promise!Next
<1> QED  BY <1>1, <1>2, <1>3, <1>4, <1>5, <1>6, <1>7, <1>8, <1>9, <1>10 DEF CarefulNext

\* Every step of CarefulSpec is a step of the text buffer, or leaves it alone.
LEMMA PromiseStep == CInv /\ [CarefulNext]_vars => [Promise!Next]_(Promise!vars)
<1>1. ASSUME CInv, CarefulNext PROVE Promise!Next  BY <1>1, PromiseKey
<1>2. ASSUME UNCHANGED vars PROVE UNCHANGED Promise!vars
      BY <1>2 DEF vars, Promise!vars
<1> QED  BY <1>1, <1>2

\* Behind the list of gap buffers there is a text with a cursor, as long as the keys
\* are careful: every key does to it what TextBuffer says, whatever the gaps, the
\* links and the screen are, for every alphabet, gap size and number of lines.
THEOREM CarefulKeepsText == CarefulSpec => ImplementsTextBuffer
<1> QED  BY PromiseInit, PromiseStep, CarefulInvariant, PTL
         DEF CarefulSpec, ImplementsTextBuffer, Promise!Spec
=============================================================================
