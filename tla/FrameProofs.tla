----------------------------- MODULE FrameProofs -----------------------------
(***************************************************************************)
(* What the operators of FrameOps do to a framebuffer, for every number of *)
(* lines and every alphabet, as long as no two structs share their bytes.  *)
(*                                                                         *)
(* What else the memory holds is a parameter: ext says which lines were    *)
(* freed (gone), how many references of a line are not of the list (refs), *)
(* and how many rows the cursor may be below the first of the screen (low).*)
(*                                                                         *)
(* There are two things to say of an operator.  Whatever the line looks    *)
(* like, the framebuffer stays sound and its list is the one it should be, *)
(* also when the operator ends in a fault.  And where the lines are        *)
(* well-formed and the gap is at the cursor, nothing is undefined, and the *)
(* line becomes what the operator of LineOps makes of it.  At the end the  *)
(* keys: a framebuffer that is Ready for a careful key is ready after it.  *)
(***************************************************************************)
EXTENDS FrameOps, LineProofs, FiniteSetTheorems, WellFoundedInduction

(***************************************************************************)
(* The doubly linked list: a sequence s of ids stands for it, and walking  *)
(* the links gives s back.  What walking computes is shown by the least    *)
(* row for which it would be wrong.                                        *)
(***************************************************************************)

\* A non-empty set of numbers has a least one.
LEMMA LeastNumber ==
    ASSUME NEW T, T \subseteq Nat, T # {}
    PROVE  \E x \in T : \A y \in 0 .. x - 1 : y \notin T
<1>1. PICK x \in T : \A y \in T : ~ (<<y, x>> \in OpToRel(<, Nat))
      BY NatLessThanWellFounded, WFMin
<1>2. \A y \in T : ~ (y < x)  BY <1>1 DEF OpToRel
<1>3. x \in Nat  OBVIOUS
<1>4. \A y \in 0 .. x - 1 : y < x  BY <1>3
<1> QED  BY <1>2, <1>4

-----------------------------------------------------------------------------
(* Sequences with an element put in or taken out, as functions *)

\* The elements of two sequences put together.
LEMMA ConcatValue ==
    ASSUME NEW S, NEW a \in Seq(S), NEW b \in Seq(S)
    PROVE  /\ a \o b \in Seq(S) /\ Len(a \o b) = Len(a) + Len(b)
           /\ \A k \in 1 .. Len(a) : (a \o b)[k] = a[k]
           /\ \A k \in 1 .. Len(b) : (a \o b)[Len(a) + k] = b[k]
OBVIOUS

\* The elements of a sequence with one put in.
LEMMA InsertAtValue ==
    ASSUME NEW S, NEW s \in Seq(S), NEW i \in 1 .. Len(s) + 1, NEW e \in S
    PROVE  /\ InsertAt(s, i, e) \in Seq(S)
           /\ Len(InsertAt(s, i, e)) = Len(s) + 1
           /\ \A k \in 1 .. Len(s) + 1 :
                 InsertAt(s, i, e)[k] = IF k < i THEN s[k] ELSE IF k = i THEN e ELSE s[k - 1]
<1> DEFINE a == SubSeq(s, 1, i - 1)
           b == SubSeq(s, i, Len(s))
<1>0. i \in Int /\ i >= 1 /\ i <= Len(s) + 1 /\ Len(s) \in Nat  OBVIOUS
<1>1. a \in Seq(S) /\ Len(a) = i - 1 /\ \A k \in 1 .. i - 1 : a[k] = s[k]  BY <1>0
<1>2. b \in Seq(S) /\ Len(b) = Len(s) - i + 1 /\ \A k \in 1 .. Len(s) - i + 1 : b[k] = s[i + k - 1]
      BY <1>0
<1> HIDE DEF a, b
<1> DEFINE c == a \o <<e>>
<1>3. c \in Seq(S) /\ Len(c) = i /\ (\A k \in 1 .. i - 1 : c[k] = s[k]) /\ c[i] = e
      BY <1>0, <1>1
<1> HIDE DEF c
<1>4. InsertAt(s, i, e) = c \o b  BY DEF InsertAt, a, b, c
<1> DEFINE d == c \o b
<1>b. b \in Seq(S) /\ c \in Seq(S)  BY <1>2, <1>3
<1>a. /\ d \in Seq(S) /\ Len(d) = Len(c) + Len(b)
      /\ \A k \in 1 .. Len(c) : d[k] = c[k]
      /\ \A k \in 1 .. Len(b) : d[Len(c) + k] = b[k]
      BY <1>b, ConcatValue
<1> HIDE DEF d
<1>5. /\ d \in Seq(S) /\ Len(d) = Len(s) + 1
      /\ \A k \in 1 .. i : d[k] = c[k]
      /\ \A k \in 1 .. Len(s) - i + 1 : d[i + k] = b[k]
      BY <1>0, <1>2, <1>3, <1>a
<1>6. ASSUME NEW k \in 1 .. Len(s) + 1
      PROVE  d[k] = IF k < i THEN s[k] ELSE IF k = i THEN e ELSE s[k - 1]
  <2>1. CASE k <= i  BY <2>1, <1>0, <1>3, <1>5
  <2>2. CASE k > i
    <3>1. k - i \in 1 .. Len(s) - i + 1 /\ i + (k - i) = k /\ i + (k - i) - 1 = k - 1
          BY <2>2, <1>0
    <3>2. d[k] = b[k - i]  BY <3>1, <1>5
    <3>3. b[k - i] = s[k - 1]  BY <3>1, <1>2
    <3> QED  BY <3>2, <3>3, <2>2, <1>0
  <2>3. k \in Int  OBVIOUS
  <2> QED  BY <2>1, <2>2, <2>3, <1>0
<1> QED  BY <1>4, <1>5, <1>6 DEF d

\* The elements of a sequence with one taken out.
LEMMA RemoveAtValue ==
    ASSUME NEW S, NEW s \in Seq(S), NEW i \in 1 .. Len(s)
    PROVE  /\ RemoveAt(s, i) \in Seq(S)
           /\ Len(RemoveAt(s, i)) = Len(s) - 1
           /\ \A k \in 1 .. Len(s) - 1 :
                 RemoveAt(s, i)[k] = IF k < i THEN s[k] ELSE s[k + 1]
<1> DEFINE a == SubSeq(s, 1, i - 1)
           b == SubSeq(s, i + 1, Len(s))
<1>0. i \in Int /\ i >= 1 /\ i <= Len(s) /\ Len(s) \in Nat  OBVIOUS
<1>1. a \in Seq(S) /\ Len(a) = i - 1 /\ \A k \in 1 .. i - 1 : a[k] = s[k]  BY <1>0
<1>2. b \in Seq(S) /\ Len(b) = Len(s) - i /\ \A k \in 1 .. Len(s) - i : b[k] = s[i + k]
      BY <1>0
<1> HIDE DEF a, b
<1>3. RemoveAt(s, i) = a \o b  BY DEF RemoveAt, a, b
<1>d. a \in Seq(S) /\ b \in Seq(S)  BY <1>1, <1>2
<1> DEFINE d == a \o b
<1>a. /\ d \in Seq(S) /\ Len(d) = Len(a) + Len(b)
      /\ \A k \in 1 .. Len(a) : d[k] = a[k]
      /\ \A k \in 1 .. Len(b) : d[Len(a) + k] = b[k]
      BY <1>d, ConcatValue
<1> HIDE DEF d
<1>b. Len(a) = i - 1 /\ Len(b) = Len(s) - i  BY <1>1, <1>2
<1>c. Len(a) + Len(b) = Len(s) - 1  BY <1>0, <1>b
<1>4. /\ d \in Seq(S) /\ Len(d) = Len(s) - 1
      /\ \A k \in 1 .. i - 1 : d[k] = a[k]
      /\ \A k \in 1 .. Len(s) - i : d[i - 1 + k] = b[k]
  <2>1. d \in Seq(S) /\ Len(d) = Len(s) - 1  BY <1>a, <1>c
  <2>2. \A k \in 1 .. i - 1 : d[k] = a[k]  BY <1>a, <1>b
  <2>3. ASSUME NEW k \in 1 .. Len(s) - i PROVE d[i - 1 + k] = b[k]
    <3>1. k \in 1 .. Len(b) /\ Len(a) + k = i - 1 + k  BY <1>b
    <3> QED  BY <3>1, <1>a
  <2> QED  BY <2>1, <2>2, <2>3
<1>5. ASSUME NEW k \in 1 .. Len(s) - 1 PROVE d[k] = IF k < i THEN s[k] ELSE s[k + 1]
  <2>1. CASE k < i  BY <2>1, <1>0, <1>1, <1>4
  <2>2. CASE k >= i
    <3>1. k - i + 1 \in 1 .. Len(s) - i /\ i - 1 + (k - i + 1) = k /\ i + (k - i + 1) = k + 1
          BY <2>2, <1>0
    <3>2. d[k] = b[k - i + 1]  BY <3>1, <1>4
    <3>3. b[k - i + 1] = s[k + 1]  BY <3>1, <1>2
    <3> QED  BY <3>2, <3>3, <2>2, <1>0
  <2>3. k \in Int  OBVIOUS
  <2> QED  BY <2>1, <2>2, <2>3, <1>0
<1> QED  BY <1>3, <1>4, <1>5 DEF d

\* Two sequences of one length that agree at each place.
LEMMA SameSeq ==
    ASSUME NEW S, NEW T, NEW s \in Seq(S), NEW t \in Seq(T), Len(s) = Len(t),
           \A k \in 1 .. Len(s) : s[k] = t[k]
    PROVE  s = t
OBVIOUS

-----------------------------------------------------------------------------
(* Walking *)

\* What the recursion of Walk says of the function it defines.
WalkFrom(f, id, n, at) ==
    at = [i \in 0 .. n |-> IF i = 0 THEN id
                           ELSE IF at[i - 1] = NULL THEN NULL ELSE f.line[at[i - 1]].nextl]

\* There is such a function for every length: the least length without one would
\* be one more than a length with one.
LEMMA WalkExists ==
    ASSUME NEW f, NEW id, NEW n \in Nat
    PROVE  \E at : WalkFrom(f, id, n, at)
<1> DEFINE T == {m \in Nat : ~\E at : WalkFrom(f, id, m, at)}
<1> SUFFICES ASSUME T # {} PROVE FALSE  OBVIOUS
<1>1. PICK m \in T : \A y \in 0 .. m - 1 : y \notin T  BY LeastNumber
<1>2. m # 0
  <2>1. WalkFrom(f, id, 0, [i \in 0 .. 0 |-> id])  BY DEF WalkFrom
  <2> QED  BY <2>1
<1>3. m - 1 \in Nat /\ m - 1 \notin T  BY <1>1, <1>2
<1>4. PICK at : WalkFrom(f, id, m - 1, at)  BY <1>3
<1> DEFINE on == [i \in 0 .. m |->
                    IF i = m THEN IF at[m - 1] = NULL THEN NULL ELSE f.line[at[m - 1]].nextl
                    ELSE at[i]]
<1>5. WalkFrom(f, id, m, on)
  <2>1. \A i \in 0 .. m - 1 : on[i] = at[i]  OBVIOUS
  <2>2. ASSUME NEW i \in 0 .. m
        PROVE  on[i] = IF i = 0 THEN id
                       ELSE IF on[i - 1] = NULL THEN NULL ELSE f.line[on[i - 1]].nextl
    <3>1. CASE i = m  BY <2>1, <3>1, <1>2, m \in Nat
    <3>2. CASE i # m
      <4>1. on[i] = at[i] /\ (i # 0 => on[i - 1] = at[i - 1])  BY <3>2, <2>1, m \in Nat
      <4>2. i \in 0 .. m - 1  BY <3>2, m \in Nat
      <4> HIDE DEF on
      <4> QED  BY <4>1, <4>2, <1>4 DEF WalkFrom
    <3> QED  BY <3>1, <3>2
  <2>3. on = [i \in 0 .. m |-> on[i]]  OBVIOUS
  <2> HIDE DEF on
  <2> QED  BY <2>2, <2>3 DEF WalkFrom
<1> QED  BY <1>1, <1>5

\* So the walk of n links is the function its definition chooses.
LEMMA WalkIs ==
    ASSUME NEW f, NEW id, NEW n \in Nat
    PROVE  WalkFrom(f, id, n, Walk(f, id, n))
<1>1. \E at : WalkFrom(f, id, n, at)  BY WalkExists
<1>2. Walk(f, id, n) = CHOOSE at : WalkFrom(f, id, n, at)  BY DEF Walk, WalkFrom
<1> QED  BY <1>1, <1>2

-----------------------------------------------------------------------------
(* The list *)

\* The lines of f are s, from the head to the tail.
Chain(f, s) ==
    /\ s \in Seq(LineId) /\ Len(s) \in Nat /\ Len(s) >= 1 /\ Len(s) < f.fresh
    /\ \A j, k \in 1 .. Len(s) : s[j] = s[k] => j = k
    /\ \A k \in 1 .. Len(s) : s[k] \in f.alive
    /\ f.headl = s[1] /\ f.taill = s[Len(s)]
    /\ \A k \in 1 .. Len(s) : f.line[s[k]].nextl = IF k = Len(s) THEN NULL ELSE s[k + 1]
    /\ \A k \in 1 .. Len(s) : f.line[s[k]].prevl = IF k = 1 THEN NULL ELSE s[k - 1]

\* refs says who is in it, and how many references there are beside the list's.
Counted(f, s, ext) ==
    \A id \in f.alive :
        f.line[id].refs = ext.refs[id] + IF \E k \in 1 .. Len(s) : s[k] = id THEN 1 ELSE 0

\* The lines of a list are allocated and it is not empty.
LEMMA ChainFacts ==
    ASSUME NEW f, NEW s, Chain(f, s)
    PROVE  /\ s \in Seq(LineId) /\ Len(s) \in Nat /\ Len(s) >= 1
           /\ \A k \in 1 .. Len(s) : s[k] \in LineId /\ s[k] # NULL
BY NULLAssumption DEF Chain

\* Walking n links from the head meets the lines of s, and NULL behind them.
LEMMA WalkChain ==
    ASSUME NEW f, NEW s, Chain(f, s), NEW n \in Nat
    PROVE  \A i \in 0 .. n : Walk(f, f.headl, n)[i] = IF i < Len(s) THEN s[i + 1] ELSE NULL
<1> DEFINE at == Walk(f, f.headl, n)
           T == {i \in 0 .. n : at[i] # IF i < Len(s) THEN s[i + 1] ELSE NULL}
<1>1. \A i \in 0 .. n : at[i] = IF i = 0 THEN f.headl
                                ELSE IF at[i - 1] = NULL THEN NULL ELSE f.line[at[i - 1]].nextl
      BY WalkIs DEF WalkFrom
<1> HIDE DEF at
<1> SUFFICES ASSUME T # {} PROVE FALSE  BY DEF at
<1>a. T \subseteq Nat  OBVIOUS
<1>2. PICK m \in T : \A y \in 0 .. m - 1 : y \notin T  BY <1>a, LeastNumber
<1>3. m \in 0 .. n /\ m \in Int /\ at[m] # (IF m < Len(s) THEN s[m + 1] ELSE NULL)  OBVIOUS
<1>b. Len(s) \in Nat /\ Len(s) >= 1 /\ \A k \in 1 .. Len(s) : s[k] # NULL  BY ChainFacts
<1>4. /\ Len(s) \in Nat /\ Len(s) >= 1 /\ f.headl = s[1]
      /\ \A k \in 1 .. Len(s) : s[k] # NULL
      /\ \A k \in 1 .. Len(s) : f.line[s[k]].nextl = IF k = Len(s) THEN NULL ELSE s[k + 1]
      BY <1>b DEF Chain
<1>5. CASE m = 0  BY <1>1, <1>3, <1>4, <1>5
<1>6. CASE m # 0
  <2>1. m - 1 \in 0 .. n /\ m - 1 \in 0 .. m - 1 /\ m - 1 + 1 = m  BY <1>3, <1>6
  <2>2. at[m - 1] = IF m - 1 < Len(s) THEN s[m] ELSE NULL  BY <2>1, <1>2
  <2>3. at[m] = IF at[m - 1] = NULL THEN NULL ELSE f.line[at[m - 1]].nextl  BY <1>1, <1>3, <1>6
  <2>4. CASE m - 1 < Len(s)
    <3>1. m \in 1 .. Len(s)  BY <2>4, <1>3, <1>4, <1>6
    <3>2. at[m] = IF m = Len(s) THEN NULL ELSE s[m + 1]  BY <3>1, <2>2, <2>3, <2>4, <1>4
    <3> QED  BY <3>1, <3>2, <1>3
  <2>5. CASE ~(m - 1 < Len(s))
    <3>1. at[m] = NULL /\ ~(m < Len(s))  BY <2>2, <2>3, <2>5, <1>3, <1>4
    <3> QED  BY <3>1, <1>3
  <2> QED  BY <2>4, <2>5
<1> QED  BY <1>5, <1>6

\* seek_line()
LEMMA SeekChain ==
    ASSUME NEW f, NEW s, Chain(f, s), NEW row \in Int
    PROVE  SeekLine(f, row) = IF row \in 0 .. Len(s) - 1 THEN s[row + 1] ELSE NULL
<1>1. CASE row < 0  BY <1>1 DEF SeekLine
<1>2. CASE row >= 0
  <2>1. row \in Nat /\ row \in 0 .. row /\ ~(row < 0)  BY <1>2
  <2>2. Walk(f, f.headl, row)[row] = IF row < Len(s) THEN s[row + 1] ELSE NULL
        BY <2>1, WalkChain
  <2>3. row < Len(s) <=> row \in 0 .. Len(s) - 1  BY <2>1, ChainFacts
  <2> QED  BY <2>1, <2>2, <2>3 DEF SeekLine
<1> QED  BY <1>1, <1>2

\* The walk that every reader of the list makes meets all of it.
LEMMA LinesChain ==
    ASSUME NEW f, NEW s, Chain(f, s), f.fresh \in 1 .. MaxLines + 1
    PROVE  LinesOf(f) = s
<1> DEFINE at == Walk(f, f.headl, MaxLines - 1)
           I == {i \in 0 .. MaxLines - 1 : at[i] # NULL}
<1>a. MaxLines \in Nat /\ MaxLines >= 1  BY MaxLinesAssumption
<1>b. f.fresh \in Int /\ f.fresh <= MaxLines + 1  BY <1>a
<1>c. Len(s) < f.fresh  BY DEF Chain
<1>d. /\ Len(s) \in Nat /\ Len(s) >= 1 /\ s \in Seq(LineId)
      /\ \A k \in 1 .. Len(s) : s[k] # NULL
      BY ChainFacts
<1>0. Len(s) - 1 <= MaxLines - 1  BY <1>a, <1>b, <1>c, <1>d
<1>1. \A i \in 0 .. MaxLines - 1 : at[i] = IF i < Len(s) THEN s[i + 1] ELSE NULL
      BY <1>a, WalkChain
<1>2. LinesOf(f) = [k \in 1 .. Cardinality(I) |-> at[k - 1]]  BY DEF LinesOf
<1> HIDE DEF at
<1>3. I = 0 .. Len(s) - 1
  <2>1. ASSUME NEW i \in 0 .. MaxLines - 1 PROVE at[i] # NULL <=> i < Len(s)
    <3>1. i < Len(s) => i + 1 \in 1 .. Len(s)  BY <1>a, <1>d
    <3> QED  BY <3>1, <1>d, <1>1
  <2> QED  BY <2>1, <1>0, <1>a, <1>d
<1> HIDE DEF I
<1>4. Cardinality(I) = Len(s)
  <2>1. Cardinality(0 .. Len(s) - 1) = IF 0 > Len(s) - 1 THEN 0 ELSE (Len(s) - 1) - 0 + 1
        BY <1>d, FS_Interval
  <2>2. (IF 0 > Len(s) - 1 THEN 0 ELSE (Len(s) - 1) - 0 + 1) = Len(s)  BY <1>d
  <2> QED  BY <2>1, <2>2, <1>3
<1>5. LinesOf(f) = [k \in 1 .. Len(s) |-> at[k - 1]]  BY <1>2, <1>4
<1>6. ASSUME NEW k \in 1 .. Len(s) PROVE at[k - 1] = s[k]
  <2>1. k - 1 \in 0 .. MaxLines - 1 /\ k - 1 < Len(s) /\ k - 1 + 1 = k  BY <1>0, <1>a, <1>d
  <2> QED  BY <2>1, <1>1
<1>7. s = [k \in 1 .. Len(s) |-> s[k]]  BY <1>d
<1> QED  BY <1>5, <1>6, <1>7

-----------------------------------------------------------------------------
(* What a framebuffer is *)

Link == LineId \cup {NULL}
LineStruct == [sog : Nat, eog : Nat, size : Nat, data_n : Nat, data : LineId,
               prevl : Link, nextl : Link, refs : Nat]
ByteArray == UNION {[0 .. n - 1 -> Byte] : n \in Nat}

Frame == [line : [LineId -> LineStruct], bytes : [LineId -> ByteArray], alive : SUBSET LineId,
          fresh : 1 .. MaxLines + 1, headl : LineId, taill : LineId, currentl : LineId,
          scroll : Link, scroll_r : Int, buffer_r : Int, buffer_c : Nat, buffer_n : Nat,
          fault : BOOLEAN]

\* Every struct describes its own bytes, and the framebuffer points to structs
\* that are allocated.  ext is what the framebuffer does not know of its lines: how
\* many references there are beside its own, and which of them were freed.
Sound(f, ext) ==
    /\ f \in Frame
    /\ ext.refs \in [LineId -> Nat] /\ \A id \in LineId : id >= f.fresh => ext.refs[id] = 0
    /\ ext.gone \subseteq 1 .. f.fresh - 1 /\ f.alive = (1 .. f.fresh - 1) \ ext.gone
    /\ f.headl \in f.alive /\ f.taill \in f.alive /\ f.currentl \in f.alive
    /\ f.scroll \in f.alive \cup {NULL}
    /\ \A id \in LineId : f.line[id].data = id /\ Shaped(View(f, id))

\* g has the same lines in the same order, the same cursor row, the same first
\* row on the screen.
SameList(f, g) ==
    /\ \A id \in LineId : /\ g.line[id].prevl = f.line[id].prevl
                          /\ g.line[id].nextl = f.line[id].nextl
                          /\ g.line[id].refs = f.line[id].refs
    /\ g.alive = f.alive /\ g.fresh = f.fresh /\ g.headl = f.headl /\ g.taill = f.taill
SameRow(f, g)    == g.currentl = f.currentl /\ g.buffer_r = f.buffer_r
SameScroll(f, g) == g.scroll = f.scroll /\ g.scroll_r = f.scroll_r

\* No line but id has changed.
Elsewhere(f, g, id) == \A j \in LineId : j # id => View(g, j) = View(f, j)

\* A well-formed line keeps its characters.
SameTexts(f, g) ==
    \A j \in LineId : WellFormed(View(f, j)) =>
        /\ WellFormed(View(g, j)) /\ View(g, j).data_n = View(f, j).data_n
        /\ Text(View(g, j)) = Text(View(f, j))

\* No line has changed but for its links.
SameLines(f, g) ==
    \A j \in LineId : View(g, j) = View(f, j) /\ g.line[j].refs = f.line[j].refs

\* What an operator on one line does to the rest, whether it ends well or not.
Edits(f, g, ext) == Sound(g, ext) /\ SameList(f, g) /\ SameScroll(f, g)

-----------------------------------------------------------------------------
(* Fields *)

\* The types of the fields of a sound framebuffer ...
LEMMA SoundFields ==
    ASSUME NEW ext, NEW f, Sound(f, ext)
    PROVE  /\ f.line \in [LineId -> LineStruct] /\ f.bytes \in [LineId -> ByteArray]
           /\ f.alive \subseteq LineId /\ f.fresh \in 1 .. MaxLines + 1
           /\ f.headl \in LineId /\ f.taill \in LineId /\ f.currentl \in LineId
           /\ f.scroll \in Link /\ f.scroll_r \in Int /\ f.buffer_r \in Int
           /\ f.buffer_c \in Nat /\ f.buffer_n \in Nat /\ f.fault \in BOOLEAN
           /\ f.currentl \in f.alive /\ f.currentl # NULL
BY NULLAssumption DEF Sound, Frame

\* ... of a struct in it ...
LEMMA StructFields ==
    ASSUME NEW ext, NEW f, Sound(f, ext), NEW id \in LineId
    PROVE  /\ f.line[id] \in LineStruct
           /\ f.line[id].sog \in Nat /\ f.line[id].eog \in Nat /\ f.line[id].size \in Nat
           /\ f.line[id].data_n \in Nat /\ f.line[id].refs \in Nat
           /\ f.line[id].prevl \in Link /\ f.line[id].nextl \in Link
           /\ f.line[id].data = id /\ f.line[id].data # Dangling
<1>1. f.line[id] \in LineStruct  BY SoundFields
<1>2. f.line[id].data = id  BY DEF Sound
<1>3. id # Dangling  BY MaxLinesAssumption DEF LineId, Dangling
<1> QED  BY <1>1, <1>2, <1>3 DEF LineStruct

\* ... and of the line such a struct and its bytes make.
LEMMA ViewFields ==
    ASSUME NEW ext, NEW f, Sound(f, ext), NEW id \in LineId
    PROVE  /\ View(f, id).sog = f.line[id].sog /\ View(f, id).eog = f.line[id].eog
           /\ View(f, id).size = f.line[id].size /\ View(f, id).data_n = f.line[id].data_n
           /\ View(f, id).data = f.bytes[id] /\ Shaped(View(f, id))
BY DEF Sound, View, Line

\* Two framebuffers with the same struct and the same bytes have the same line.
LEMMA SameView ==
    ASSUME NEW f, NEW g, NEW id \in LineId, f.line[id].data = id, g.line[id].data = id,
           g.line[id].sog = f.line[id].sog, g.line[id].eog = f.line[id].eog,
           g.line[id].size = f.line[id].size, g.line[id].data_n = f.line[id].data_n,
           g.bytes[id] = f.bytes[id]
    PROVE  View(g, id) = View(f, id)
BY DEF View

\* A line that was allocated may be read and written.
LEMMA AliveUsable ==
    ASSUME NEW ext, NEW f, Sound(f, ext), NEW id \in f.alive
    PROVE  id \in LineId /\ id # NULL /\ Usable(f, id) /\ Readable(f, id)
BY SoundFields, StructFields, NULLAssumption DEF Usable, Readable

\* Two edits of a line are one.
LEMMA EditsTransitive ==
    ASSUME NEW ext, NEW f, NEW g, NEW h, Edits(f, g, ext), Edits(g, h, ext)
    PROVE  Edits(f, h, ext)
BY DEF Edits, SameList, SameScroll

\* Doing nothing is an edit.
LEMMA EditsReflexive ==
    ASSUME NEW ext, NEW f, Sound(f, ext)
    PROVE  Edits(f, f, ext) /\ SameRow(f, f)
BY DEF Edits, SameList, SameScroll, SameRow

\* A fault changes nothing but the flag.
LEMMA FaultEdits ==
    ASSUME NEW ext, NEW f, Sound(f, ext)
    PROVE  LET g == [f EXCEPT !.fault = TRUE]
           IN  Edits(f, g, ext) /\ SameRow(f, g) /\ g.fault /\ g.buffer_c = f.buffer_c
               /\ \A id \in LineId : View(g, id) = View(f, id)
<1> DEFINE g == [f EXCEPT !.fault = TRUE]
<1>0. f \in Frame  BY DEF Sound
<1>1. /\ g \in Frame /\ g.line = f.line /\ g.bytes = f.bytes /\ g.alive = f.alive
      /\ g.fresh = f.fresh /\ g.headl = f.headl /\ g.taill = f.taill
      /\ g.currentl = f.currentl /\ g.scroll = f.scroll /\ g.scroll_r = f.scroll_r
      /\ g.buffer_r = f.buffer_r /\ g.buffer_c = f.buffer_c /\ g.fault = TRUE
      BY <1>0 DEF Frame
<1> HIDE DEF g
<1>2. \A id \in LineId : View(g, id) = View(f, id)  BY <1>1 DEF View
<1>3. Sound(g, ext)  BY <1>1, <1>2 DEF Sound
<1>4. Edits(f, g, ext) /\ SameRow(f, g)  BY <1>1, <1>3 DEF Edits, SameList, SameScroll, SameRow
<1> QED  BY <1>1, <1>2, <1>4 DEF g

\* Check ends in a fault with nothing else changed, or does what it guards.
Faulted(f, h, ext) == /\ h.fault /\ Edits(f, h, ext) /\ SameRow(f, h) /\ h.buffer_c = f.buffer_c
                 /\ \A id \in LineId : View(h, id) = View(f, id)

\* A check faults when what is checked does not hold, and changes nothing else.
LEMMA CheckFault ==
    ASSUME NEW ext, NEW f, Sound(f, ext), NEW ok, NEW g
    PROVE  \/ ~f.fault /\ ok /\ Check(f, ok, g) = g
           \/ (f.fault \/ ~ok) /\ Faulted(f, Check(f, ok, g), ext)
<1>1. CASE f.fault  BY <1>1, EditsReflexive DEF Check, Faulted
<1>2. CASE ~f.fault /\ ok  BY <1>2 DEF Check
<1>3. CASE ~f.fault /\ ~ok  BY <1>3, FaultEdits DEF Check, Faulted
<1> QED  BY <1>1, <1>2, <1>3

\* A column.
LEMMA ColumnEdits ==
    ASSUME NEW ext, NEW f, Sound(f, ext), NEW c \in Nat
    PROVE  LET g == [f EXCEPT !.buffer_c = c]
           IN  /\ Edits(f, g, ext) /\ SameRow(f, g) /\ g.buffer_c = c /\ g.fault = f.fault
               /\ \A id \in LineId : View(g, id) = View(f, id)
<1> DEFINE g == [f EXCEPT !.buffer_c = c]
<1>0. f \in Frame  BY DEF Sound
<1>1. /\ g \in Frame /\ g.line = f.line /\ g.bytes = f.bytes /\ g.alive = f.alive
      /\ g.fresh = f.fresh /\ g.headl = f.headl /\ g.taill = f.taill
      /\ g.currentl = f.currentl /\ g.scroll = f.scroll /\ g.scroll_r = f.scroll_r
      /\ g.buffer_r = f.buffer_r /\ g.buffer_c = c /\ g.fault = f.fault
      BY <1>0 DEF Frame
<1> HIDE DEF g
<1>2. \A id \in LineId : View(g, id) = View(f, id)  BY <1>1 DEF View
<1>3. Sound(g, ext)  BY <1>1, <1>2 DEF Sound
<1>4. Edits(f, g, ext) /\ SameRow(f, g)  BY <1>1, <1>3 DEF Edits, SameList, SameScroll, SameRow
<1> QED  BY <1>1, <1>2, <1>4 DEF g

\* A cursor somewhere else.
Placed(f, id, r, c) == [f EXCEPT !.currentl = id, !.buffer_r = r, !.buffer_c = c]

\* The cursor goes to another line.
LEMMA CursorEdits ==
    ASSUME NEW ext, NEW f, Sound(f, ext), NEW id \in f.alive, NEW r \in Int, NEW c \in Nat
    PROVE  LET g == Placed(f, id, r, c)
           IN  /\ Edits(f, g, ext) /\ g.fault = f.fault
               /\ g.currentl = id /\ g.buffer_r = r /\ g.buffer_c = c
               /\ \A j \in LineId : View(g, j) = View(f, j)
<1> DEFINE g == Placed(f, id, r, c)
<1>0. f \in Frame /\ id \in LineId  BY SoundFields DEF Sound
<1>1. /\ g \in Frame /\ g.line = f.line /\ g.bytes = f.bytes /\ g.alive = f.alive
      /\ g.fresh = f.fresh /\ g.headl = f.headl /\ g.taill = f.taill
      /\ g.currentl = id /\ g.scroll = f.scroll /\ g.scroll_r = f.scroll_r
      /\ g.buffer_r = r /\ g.buffer_c = c /\ g.fault = f.fault
      BY <1>0 DEF Frame, Placed
<1> HIDE DEF g
<1>2. \A j \in LineId : View(g, j) = View(f, j)  BY <1>1 DEF View
<1>3. Sound(g, ext)  BY <1>1, <1>2 DEF Sound
<1>4. Edits(f, g, ext)  BY <1>1, <1>3 DEF Edits, SameList, SameScroll
<1> QED  BY <1>1, <1>2, <1>4 DEF g

\* A line written back.
LEMMA PutLine ==
    ASSUME NEW ext, NEW f, Sound(f, ext), NEW id \in LineId, NEW l, Shaped(l)
    PROVE  LET g == Put(f, id, l)
           IN  /\ Edits(f, g, ext) /\ SameRow(f, g) /\ g.buffer_c = f.buffer_c /\ g.fault = f.fault
               /\ View(g, id) = l /\ Elsewhere(f, g, id)
<1> DEFINE s == [f.line[id] EXCEPT !.sog = l.sog, !.eog = l.eog,
                                   !.size = l.size, !.data_n = l.data_n]
           lines == [f.line EXCEPT ![id] = s]
           arrays == [f.bytes EXCEPT ![id] = l.data]
           g == Put(f, id, l)
<1>0. /\ f \in Frame /\ f.line \in [LineId -> LineStruct] /\ f.line[id] \in LineStruct
      /\ f.bytes \in [LineId -> ByteArray] /\ f.line[id].data = id
  <2>1. f \in Frame /\ f.line[id].data = id  BY DEF Sound
  <2> QED  BY <2>1, SoundFields, StructFields
<1>1. /\ s \in LineStruct /\ s.sog = l.sog /\ s.eog = l.eog /\ s.size = l.size
      /\ s.data_n = l.data_n /\ s.data = f.line[id].data /\ s.prevl = f.line[id].prevl
      /\ s.nextl = f.line[id].nextl /\ s.refs = f.line[id].refs
      BY <1>0 DEF LineStruct, Shaped
<1>2. l.data \in ByteArray  BY DEF ByteArray, Shaped
<1>3. arrays \in [LineId -> ByteArray] /\ arrays[id] = l.data
      /\ \A j \in LineId : j # id => arrays[j] = f.bytes[j]
      BY <1>0, <1>2
<1>4. g = [f EXCEPT !.line = lines, !.bytes = arrays]  BY <1>0 DEF Put, Frame
<1> HIDE DEF s
<1>5. lines \in [LineId -> LineStruct] /\ lines[id] = s
      /\ \A j \in LineId : j # id => lines[j] = f.line[j]
      BY <1>0, <1>1
<1> HIDE DEF lines, arrays, g
<1>6. /\ g \in Frame /\ g.line = lines /\ g.bytes = arrays /\ g.alive = f.alive
      /\ g.fresh = f.fresh /\ g.headl = f.headl /\ g.taill = f.taill
      /\ g.currentl = f.currentl /\ g.scroll = f.scroll /\ g.scroll_r = f.scroll_r
      /\ g.buffer_r = f.buffer_r /\ g.buffer_c = f.buffer_c /\ g.fault = f.fault
      BY <1>0, <1>3, <1>4, <1>5 DEF Frame
<1>7. View(g, id) = l
  <2>1. l = Line(l.sog, l.eog, l.size, l.data_n, l.data)  BY DEF Shaped
  <2> QED  BY <2>1, <1>0, <1>1, <1>3, <1>5, <1>6 DEF View
<1>8. Elsewhere(f, g, id)
  <2>1. \A j \in LineId : f.line[j].data = j  BY StructFields
  <2> QED  BY <2>1, <1>3, <1>5, <1>6 DEF View, Elsewhere
<1>9. \A j \in LineId : g.line[j].data = j /\ Shaped(View(g, j))
  <2>1. \A j \in LineId : f.line[j].data = j /\ Shaped(View(f, j))  BY DEF Sound
  <2> QED  BY <2>1, <1>0, <1>1, <1>5, <1>6, <1>7, <1>8 DEF Elsewhere
<1>10. Sound(g, ext)  BY <1>6, <1>9 DEF Sound
<1>11. Edits(f, g, ext) /\ SameRow(f, g)
       BY <1>1, <1>5, <1>6, <1>10 DEF Edits, SameList, SameScroll, SameRow
<1> QED  BY <1>6, <1>7, <1>8, <1>11 DEF g
\* A line written back and the column moved with it.
LEMMA PutColumn ==
    ASSUME NEW ext, NEW f, Sound(f, ext), NEW id \in LineId, NEW l, Shaped(l), NEW d \in Nat
    PROVE  LET g == [Put(f, id, l) EXCEPT !.buffer_c = d]
           IN  /\ Edits(f, g, ext) /\ SameRow(f, g) /\ g.buffer_c = d /\ g.fault = f.fault
               /\ View(g, id) = l /\ Elsewhere(f, g, id)
<1> DEFINE put == Put(f, id, l)
           g == [put EXCEPT !.buffer_c = d]
<1>1. /\ Edits(f, put, ext) /\ SameRow(f, put) /\ put.buffer_c = f.buffer_c /\ put.fault = f.fault
      /\ View(put, id) = l /\ Elsewhere(f, put, id)
      BY PutLine
<1> HIDE DEF put
<1>2. Sound(put, ext)  BY <1>1 DEF Edits
<1>3. /\ Edits(put, g, ext) /\ SameRow(put, g) /\ g.buffer_c = d /\ g.fault = put.fault
      /\ \A j \in LineId : View(g, j) = View(put, j)
      BY <1>2, ColumnEdits
<1> HIDE DEF g
<1>4. Edits(f, g, ext) /\ SameRow(f, g) /\ Elsewhere(f, g, id) /\ View(g, id) = l
      BY <1>1, <1>3, EditsTransitive DEF SameRow, Elsewhere
<1> QED  BY <1>1, <1>3, <1>4 DEF g, put

-----------------------------------------------------------------------------
(* The operators on the current line *)

\* move_gap_to_cursor()
LEMMA MoveGapFrame ==
    ASSUME NEW ext, NEW f, Sound(f, ext)
    PROVE  LET g == MoveGapToCursor(f)
               l == View(f, f.currentl)
           IN  /\ Edits(f, g, ext) /\ SameRow(f, g) /\ g.buffer_c = f.buffer_c
               /\ Elsewhere(f, g, f.currentl)
               /\ View(g, f.currentl) \in {l, MoveGap(l, f.buffer_c)}
               /\ ~f.fault /\ Good(l) /\ f.buffer_c <= l.data_n =>
                     ~g.fault /\ View(g, f.currentl) = MoveGap(l, f.buffer_c)
<1> DEFINE id == f.currentl
           l == View(f, id)
           c == f.buffer_c
           right == c > l.sog /\ l.eog + (c - l.sog) \in DOMAIN l.data
           left == c < l.sog /\ l.eog - (l.sog - c) + 1 >= 0 /\ l.eog \in DOMAIN l.data
           ok == /\ Usable(f, id)
                 /\ c = f.line[id].sog \/ (Readable(f, id) /\ (right \/ left))
           body == IF c = f.line[id].sog THEN f ELSE Put(f, id, MoveGap(l, c))
           g == MoveGapToCursor(f)
<1>0. /\ id \in LineId /\ c \in Nat /\ Usable(f, id) /\ Readable(f, id)
      /\ f.line[id].sog = l.sog /\ Shaped(l)
      BY SoundFields, AliveUsable, ViewFields
<1>1. g = Check(f, ok, body)  BY DEF MoveGapToCursor
<1>2. ASSUME ok
      PROVE  /\ Edits(f, body, ext) /\ SameRow(f, body) /\ body.buffer_c = c /\ body.fault = f.fault
             /\ Elsewhere(f, body, id) /\ View(body, id) = MoveGap(l, c)
  <2>1. CASE c = l.sog  BY <2>1, <1>0, EditsReflexive DEF MoveGap, Elsewhere
  <2>2. CASE c # l.sog
    <3>1. right \/ left  BY <1>0, <1>2, <2>2
    <3>2. l.sog \in Nat  BY <1>0, ShapedFields
    <3>3. Shaped(MoveGap(l, c))  BY <1>0, <3>1, <3>2, MoveGapShaped
    <3> QED  BY <1>0, <2>2, <3>3, PutLine
  <2> QED  BY <2>1, <2>2
<1>3. ASSUME Good(l), c <= l.data_n PROVE ok
  <2>1. /\ l.sog \in Nat /\ l.eog \in Nat /\ l.size \in Nat /\ l.data_n \in Nat
        /\ l.sog < l.eog /\ l.eog <= l.size - 2 /\ l.data_n = l.size - 2 - (l.eog - l.sog)
        BY <1>3, GoodFields
  <2>2. DOMAIN l.data = 0 .. l.size - 1  BY <1>0, ShapedFields
  <2>3. c > l.sog => l.eog + (c - l.sog) \in DOMAIN l.data  BY <1>0, <1>3, <2>1, <2>2, SMTT(30)
  <2>4. c < l.sog => l.eog - (l.sog - c) + 1 >= 0 /\ l.eog \in DOMAIN l.data
        BY <1>0, <2>1, <2>2, SMTT(30)
  <2>5. c = l.sog \/ c > l.sog \/ c < l.sog  BY <1>0, <2>1
  <2> QED  BY <1>0, <2>3, <2>4, <2>5
<1> HIDE DEF ok, body, g
<1>4. CASE ~f.fault /\ ok /\ g = body  BY <1>2, <1>4 DEF g
<1>5. CASE (f.fault \/ ~ok) /\ Faulted(f, g, ext)
  <2>1. /\ Edits(f, g, ext) /\ SameRow(f, g) /\ g.buffer_c = c /\ Elsewhere(f, g, id)
        /\ View(g, id) = l
        BY <1>0, <1>5 DEF Faulted, Elsewhere
  <2>2. ~(~f.fault /\ Good(l) /\ c <= l.data_n)  BY <1>3, <1>5
  <2> QED  BY <2>1, <2>2 DEF g
<1> QED  BY <1>1, <1>4, <1>5, CheckFault

\* The key h.
LEMMA LeftFrame ==
    ASSUME NEW ext, NEW f, Sound(f, ext), f.buffer_c # 0
    PROVE  LET g == CursorLeft(f)
               l == View(f, f.currentl)
           IN  /\ Edits(f, g, ext) /\ SameRow(f, g) /\ Elsewhere(f, g, f.currentl)
               /\ ~f.fault /\ Good(l) /\ f.buffer_c = l.sog =>
                     /\ ~g.fault /\ g.buffer_c = f.buffer_c - 1
                     /\ View(g, f.currentl) = GapLeft(l, f.buffer_c)
<1> DEFINE id == f.currentl
           l == View(f, id)
           c == f.buffer_c
           put == Put(f, id, GapLeft(l, c))
           ok == /\ Readable(f, id)
                 /\ l.sog > 0 /\ l.eog \in DOMAIN l.data /\ c - 1 \in DOMAIN l.data
           body == [put EXCEPT !.buffer_c = @ - 1]
           g == CursorLeft(f)
<1>0. /\ id \in LineId /\ c \in Nat /\ c - 1 \in Nat /\ Readable(f, id) /\ Shaped(l)
      BY SoundFields, AliveUsable, ViewFields
<1>1. g = Check(f, ok, body)  BY DEF CursorLeft
<1>2. ASSUME ok
      PROVE  /\ Edits(f, body, ext) /\ SameRow(f, body) /\ body.buffer_c = c - 1
             /\ body.fault = f.fault
             /\ Elsewhere(f, body, id) /\ View(body, id) = GapLeft(l, c)
  <2>1. Shaped(GapLeft(l, c))  BY <1>0, <1>2, LeftShaped
  <2>2. PICK d \in Nat : d = c - 1  BY <1>0
  <2>3. put.buffer_c = c  BY <1>0, <2>1, PutLine
  <2>4. body = [put EXCEPT !.buffer_c = d]  BY <2>2, <2>3
  <2> HIDE DEF body
  <2> QED  BY <1>0, <2>1, <2>2, <2>4, PutColumn
<1>3. ASSUME Good(l), c = l.sog PROVE ok
  <2>1. /\ l.sog \in Nat /\ l.eog \in Nat /\ l.size \in Nat
        /\ l.sog < l.eog /\ l.eog <= l.size - 2
        BY <1>3, GoodFields
  <2>2. DOMAIN l.data = 0 .. l.size - 1  BY <1>0, ShapedFields
  <2> QED  BY <1>0, <1>3, <2>1, <2>2
<1> HIDE DEF ok, body, g
<1>4. CASE ~f.fault /\ ok /\ g = body  BY <1>2, <1>4 DEF g
<1>5. CASE (f.fault \/ ~ok) /\ Faulted(f, g, ext)
      BY <1>3, <1>5 DEF g, Faulted, Elsewhere
<1> QED  BY <1>1, <1>4, <1>5, CheckFault

\* The key l.
LEMMA RightFrame ==
    ASSUME NEW ext, NEW f, Sound(f, ext)
    PROVE  LET g == CursorRight(f)
               l == View(f, f.currentl)
           IN  /\ Edits(f, g, ext) /\ SameRow(f, g) /\ Elsewhere(f, g, f.currentl)
               /\ ~f.fault /\ Good(l) /\ f.buffer_c = l.sog /\ f.buffer_c + 1 <= l.data_n =>
                     /\ ~g.fault /\ g.buffer_c = f.buffer_c + 1
                     /\ View(g, f.currentl) = GapRight(l, f.buffer_c)
<1> DEFINE id == f.currentl
           l == View(f, id)
           c == f.buffer_c
           put == Put(f, id, GapRight(l, c))
           ok == /\ Readable(f, id)
                 /\ l.eog + 1 \in DOMAIN l.data /\ c \in DOMAIN l.data
           body == [put EXCEPT !.buffer_c = @ + 1]
           g == CursorRight(f)
<1>0. /\ id \in LineId /\ c \in Nat /\ c + 1 \in Nat /\ Readable(f, id) /\ Shaped(l)
      BY SoundFields, AliveUsable, ViewFields
<1>1. g = Check(f, ok, body)  BY DEF CursorRight
<1>2. ASSUME ok
      PROVE  /\ Edits(f, body, ext) /\ SameRow(f, body) /\ body.buffer_c = c + 1
             /\ body.fault = f.fault
             /\ Elsewhere(f, body, id) /\ View(body, id) = GapRight(l, c)
  <2>1. Shaped(GapRight(l, c))  BY <1>0, <1>2, RightShaped
  <2>2. PICK d \in Nat : d = c + 1  BY <1>0
  <2>3. put.buffer_c = c  BY <1>0, <2>1, PutLine
  <2>4. body = [put EXCEPT !.buffer_c = d]  BY <2>2, <2>3
  <2> HIDE DEF body
  <2> QED  BY <1>0, <2>1, <2>2, <2>4, PutColumn
<1>3. ASSUME Good(l), c = l.sog, c + 1 <= l.data_n PROVE ok
  <2>1. /\ l.sog \in Nat /\ l.eog \in Nat /\ l.size \in Nat /\ l.data_n \in Nat
        /\ l.sog < l.eog /\ l.eog <= l.size - 2 /\ l.data_n = l.size - 2 - (l.eog - l.sog)
        BY <1>3, GoodFields
  <2>2. DOMAIN l.data = 0 .. l.size - 1  BY <1>0, ShapedFields
  <2> QED  BY <1>0, <1>3, <2>1, <2>2, SMTT(30)
<1> HIDE DEF ok, body, g
<1>4. CASE ~f.fault /\ ok /\ g = body  BY <1>2, <1>4 DEF g
<1>5. CASE (f.fault \/ ~ok) /\ Faulted(f, g, ext)
      BY <1>3, <1>5 DEF g, Faulted, Elsewhere
<1> QED  BY <1>1, <1>4, <1>5, CheckFault
\* Typing, with a realloc that leaves the array where it is.
LEMMA InsertFrame ==
    ASSUME NEW ext, NEW f, Sound(f, ext), NEW id \in LineId, NEW ch \in Byte
    PROVE  LET g == InsertChar(f, id, ch, FALSE)
               l == View(f, id)
           IN  /\ Edits(f, g, ext) /\ SameRow(f, g) /\ Elsewhere(f, g, id)
               /\ ~f.fault /\ id \in f.alive /\ Good(l) /\ f.buffer_c = l.sog =>
                     /\ ~g.fault /\ g.buffer_c = f.buffer_c + 1
                     /\ View(g, id) = InsertInGap(l, f.buffer_c, ch)
<1> DEFINE l == View(f, id)
           c == f.buffer_c
           grows == NeedsGrowth(l)
           room == IF grows THEN l.size + InitGapSize - 1 ELSE l.size
           put == Put(f, id, InsertInGap(l, c, ch))
           ok == /\ Readable(f, id)
                 /\ 0 .. l.size - 1 \subseteq DOMAIN l.data
                 /\ l.eog < l.size /\ c < room
           body == [put EXCEPT !.buffer_c = @ + 1]
           g == InsertChar(f, id, ch, FALSE)
<1>0. c \in Nat /\ c + 1 \in Nat /\ Shaped(l)  BY SoundFields, ViewFields
<1>1. g = Check(f, ok, body)  BY DEF InsertChar
<1>2. /\ Edits(f, body, ext) /\ SameRow(f, body) /\ body.buffer_c = c + 1 /\ body.fault = f.fault
      /\ Elsewhere(f, body, id) /\ View(body, id) = InsertInGap(l, c, ch)
  <2>1. Shaped(InsertInGap(l, c, ch))  BY <1>0, InsertShaped
  <2>2. PICK d \in Nat : d = c + 1  BY <1>0
  <2>3. put.buffer_c = c  BY <2>1, PutLine
  <2>4. body = [put EXCEPT !.buffer_c = d]  BY <2>2, <2>3
  <2> HIDE DEF body
  <2> QED  BY <2>1, <2>2, <2>4, PutColumn
<1>3. ASSUME Good(l), c = l.sog, id \in f.alive PROVE ok
  <2>1. /\ l.sog \in Nat /\ l.eog \in Nat /\ l.size \in Nat
        /\ l.sog < l.eog /\ l.eog <= l.size - 2
        BY <1>3, GoodFields
  <2>2. DOMAIN l.data = 0 .. l.size - 1 /\ Readable(f, id)  BY <1>0, <1>3, ShapedFields, AliveUsable
  <2>3. InitGapSize \in Nat /\ InitGapSize >= 2  BY InitGapSizeAssumption
  <2>4. l.eog < l.size /\ c < l.size /\ c < l.size + InitGapSize - 1  BY <1>3, <2>1, <2>3
  <2> QED  BY <2>2, <2>4
<1> HIDE DEF ok, body, g
<1>4. CASE ~f.fault /\ ok /\ g = body  BY <1>2, <1>4 DEF g
<1>5. CASE (f.fault \/ ~ok) /\ Faulted(f, g, ext)
      BY <1>3, <1>5 DEF g, Faulted, Elsewhere
<1> QED  BY <1>1, <1>4, <1>5, CheckFault

\* Erasing the character left of the cursor.
LEMMA BackspaceFrame ==
    ASSUME NEW ext, NEW f, Sound(f, ext), f.buffer_c # 0
    PROVE  LET id == f.currentl
               g == BackspaceChar(f, id)
               l == View(f, id)
           IN  /\ Edits(f, g, ext) /\ SameRow(f, g) /\ Elsewhere(f, g, id)
               /\ ~f.fault /\ Good(l) /\ f.buffer_c = l.sog =>
                     /\ ~g.fault /\ g.buffer_c = f.buffer_c - 1
                     /\ View(g, id) = Backspace(l)
<1> DEFINE id == f.currentl
           l == View(f, id)
           c == f.buffer_c
           put == Put(f, id, Backspace(l))
           ok == /\ Readable(f, id)
                 /\ l.sog > 0 /\ l.data_n > 0 /\ c - 1 \in DOMAIN l.data
           body == [put EXCEPT !.buffer_c = @ - 1]
           g == BackspaceChar(f, id)
<1>0. id \in LineId /\ c \in Nat /\ c - 1 \in Nat /\ Readable(f, id) /\ Shaped(l)
      BY SoundFields, AliveUsable, ViewFields
<1>1. g = Check(f, ok, body)  BY DEF BackspaceChar
<1>2. ASSUME ok
      PROVE  /\ Edits(f, body, ext) /\ SameRow(f, body) /\ body.buffer_c = c - 1
             /\ body.fault = f.fault
             /\ Elsewhere(f, body, id) /\ View(body, id) = Backspace(l)
  <2>1. Shaped(Backspace(l))  BY <1>0, <1>2, BackspaceShaped
  <2>2. PICK d \in Nat : d = c - 1  BY <1>0
  <2>3. put.buffer_c = c  BY <1>0, <2>1, PutLine
  <2>4. body = [put EXCEPT !.buffer_c = d]  BY <2>2, <2>3
  <2> HIDE DEF body
  <2> QED  BY <1>0, <2>1, <2>2, <2>4, PutColumn
<1>3. ASSUME Good(l), c = l.sog PROVE ok
  <2>1. /\ l.sog \in Nat /\ l.eog \in Nat /\ l.size \in Nat /\ l.data_n \in Nat
        /\ l.sog < l.eog /\ l.eog <= l.size - 2 /\ l.sog <= l.data_n
        BY <1>3, GoodFields
  <2>2. DOMAIN l.data = 0 .. l.size - 1  BY <1>0, ShapedFields
  <2> QED  BY <1>0, <1>3, <2>1, <2>2
<1> HIDE DEF ok, body, g
<1>4. CASE ~f.fault /\ ok /\ g = body  BY <1>2, <1>4 DEF g
<1>5. CASE (f.fault \/ ~ok) /\ Faulted(f, g, ext)
      BY <1>3, <1>5 DEF g, Faulted, Elsewhere
<1> QED  BY <1>1, <1>4, <1>5, CheckFault

-----------------------------------------------------------------------------
(* The cursor enters another line *)

\* The column cursor_up() and cursor_down() clip to is in the line.
LEMMA ClampValue ==
    ASSUME NEW ext, NEW f, Sound(f, ext), NEW id \in LineId
    PROVE  /\ Clamp(f, id) \in Nat /\ Clamp(f, id) <= f.line[id].data_n
           /\ Clamp(f, id) = IF f.buffer_c >= f.line[id].data_n THEN f.line[id].data_n
                             ELSE f.buffer_c
<1>1. f.buffer_c \in Nat /\ f.line[id].data_n \in Nat  BY SoundFields, StructFields
<1> QED  BY <1>1 DEF Clamp

\* The gap of the line entered goes to the cursor.
LEMMA EnterFrame ==
    ASSUME NEW ext, NEW f, Sound(f, ext), NEW id \in Link, NEW r \in Int
    PROVE  LET g == EnterLine(f, id, r)
           IN  /\ Edits(f, g, ext) /\ SameTexts(f, g)
               /\ f.fault \/ ~Usable(f, id) => Faulted(f, g, ext)
               /\ ~f.fault /\ Usable(f, id) =>
                     /\ id \in f.alive /\ g.currentl = id /\ g.buffer_r = r
                     /\ g.buffer_c = Clamp(f, id) /\ Elsewhere(f, g, id)
                     /\ Good(View(f, id)) =>
                           ~g.fault /\ View(g, id) = MoveGap(View(f, id), Clamp(f, id))
<1> DEFINE there == [f EXCEPT !.currentl = id, !.buffer_r = r, !.buffer_c = Clamp(f, id)]
           body == MoveGapToCursor(there)
           g == EnterLine(f, id, r)
<1>1. g = Check(f, Usable(f, id), body)  BY DEF EnterLine
<1>2. ASSUME ~f.fault, Usable(f, id)
      PROVE  /\ id \in f.alive /\ Edits(f, body, ext) /\ body.currentl = id /\ body.buffer_r = r
             /\ body.buffer_c = Clamp(f, id) /\ Elsewhere(f, body, id) /\ SameTexts(f, body)
             /\ Good(View(f, id)) =>
                   ~body.fault /\ View(body, id) = MoveGap(View(f, id), Clamp(f, id))
  <2>1. id \in f.alive /\ id \in LineId  BY <1>2, SoundFields DEF Usable
  <2>2. Clamp(f, id) \in Nat /\ Clamp(f, id) <= View(f, id).data_n
        BY <2>1, ClampValue, ViewFields
  <2>3. /\ Edits(f, there, ext) /\ there.fault = f.fault
        /\ there.currentl = id /\ there.buffer_r = r /\ there.buffer_c = Clamp(f, id)
        /\ \A j \in LineId : View(there, j) = View(f, j)
    <3>1. there = Placed(f, id, r, Clamp(f, id))  BY DEF Placed
    <3> HIDE DEF there
    <3> QED  BY <2>1, <2>2, <3>1, CursorEdits
  <2> HIDE DEF there
  <2>4. Sound(there, ext)  BY <2>3 DEF Edits
  <2>5. /\ Edits(there, body, ext) /\ SameRow(there, body) /\ body.buffer_c = there.buffer_c
        /\ Elsewhere(there, body, id)
        /\ View(body, id) \in {View(there, id), MoveGap(View(there, id), there.buffer_c)}
        /\ ~there.fault /\ Good(View(there, id)) /\ there.buffer_c <= View(there, id).data_n =>
              ~body.fault /\ View(body, id) = MoveGap(View(there, id), there.buffer_c)
        BY <2>3, <2>4, MoveGapFrame
  <2> HIDE DEF body
  <2>6. SameTexts(f, body)
    <3> SUFFICES ASSUME NEW j \in LineId, WellFormed(View(f, j))
                 PROVE  /\ WellFormed(View(body, j)) /\ View(body, j).data_n = View(f, j).data_n
                        /\ Text(View(body, j)) = Text(View(f, j))
        BY DEF SameTexts
    <3>1. CASE j # id  BY <3>1, <2>3, <2>5 DEF Elsewhere
    <3>2. CASE j = id
      <4> DEFINE l == View(f, id)
      <4>1. View(body, id) \in {l, MoveGap(l, Clamp(f, id))}  BY <2>1, <2>3, <2>5
      <4>2. /\ WellFormed(MoveGap(l, Clamp(f, id))) /\ MoveGap(l, Clamp(f, id)).data_n = l.data_n
            /\ Text(MoveGap(l, Clamp(f, id))) = Text(l)
            BY <3>2, <2>2, MoveGapWell
      <4> QED  BY <3>2, <4>1, <4>2
    <3> QED  BY <3>1, <3>2
  <2> QED  BY <2>6, <1>2, <2>1, <2>2, <2>3, <2>5, EditsTransitive DEF SameRow, Elsewhere
<1> HIDE DEF body, g
<1>3. CASE ~f.fault /\ Usable(f, id) /\ g = body  BY <1>2, <1>3 DEF g
<1>4. CASE (f.fault \/ ~Usable(f, id)) /\ Faulted(f, g, ext)
      BY <1>4 DEF g, Faulted, SameTexts
<1> QED  BY <1>1, <1>3, <1>4, CheckFault

\* cursor_up() and cursor_down() enter the line above and below.
LEMMA UpDownEnter ==
    ASSUME NEW ext, NEW f, Sound(f, ext)
    PROVE  /\ CursorUp(f) = EnterLine(f, f.line[f.currentl].prevl, f.buffer_r - 1)
           /\ CursorDown(f) = EnterLine(f, f.line[f.currentl].nextl, f.buffer_r + 1)
<1>1. Usable(f, f.currentl)  BY SoundFields, AliveUsable
<1> QED  BY <1>1 DEF CursorUp, CursorDown, EnterLine, Check

-----------------------------------------------------------------------------
(* Many characters *)

\* What the recursion of InsertText says of the function it defines.
TypesFrom(f, id, txt, n, after) ==
    after = [k \in 0 .. n |-> IF k = 0 THEN f
                              ELSE InsertChar(after[k - 1], id, txt[k], FALSE)]

\* Typing a text one character after another: there is such a function for every text.
LEMMA TypesExist ==
    ASSUME NEW f, NEW id, NEW txt, NEW n \in Nat
    PROVE  \E after : TypesFrom(f, id, txt, n, after)
<1> DEFINE T == {m \in Nat : ~\E after : TypesFrom(f, id, txt, m, after)}
<1> SUFFICES ASSUME T # {} PROVE FALSE  OBVIOUS
<1>1. PICK m \in T : \A y \in 0 .. m - 1 : y \notin T  BY LeastNumber
<1>2. m # 0
  <2>1. TypesFrom(f, id, txt, 0, [k \in 0 .. 0 |-> f])  BY DEF TypesFrom
  <2> QED  BY <2>1
<1>3. m - 1 \in Nat /\ m - 1 \notin T  BY <1>1, <1>2
<1>4. PICK after : TypesFrom(f, id, txt, m - 1, after)  BY <1>3
<1> DEFINE on == [k \in 0 .. m |->
                    IF k = m THEN InsertChar(after[m - 1], id, txt[m], FALSE) ELSE after[k]]
<1>5. TypesFrom(f, id, txt, m, on)
  <2>0. m \in Nat /\ m \in Int  OBVIOUS
  <2>1. /\ \A k \in 0 .. m - 1 : on[k] = after[k]
        /\ on[m] = InsertChar(after[m - 1], id, txt[m], FALSE)
        /\ on = [k \in 0 .. m |-> on[k]]
    <3>1. \A k \in 0 .. m - 1 : k \in 0 .. m /\ k # m  BY <2>0
    <3>2. m \in 0 .. m  BY <2>0
    <3> QED  BY <3>1, <3>2, Zenon
  <2> HIDE DEF on
  <2>2. ASSUME NEW k \in 0 .. m
        PROVE  on[k] = IF k = 0 THEN f ELSE InsertChar(on[k - 1], id, txt[k], FALSE)
    <3>1. CASE k = m
      <4>1. m - 1 \in 0 .. m - 1  BY <1>3
      <4>2. on[m - 1] = after[m - 1]  BY <4>1, <2>1
      <4> QED  BY <4>2, <3>1, <2>1, <1>2
    <3>2. CASE k # m
      <4>1. k \in 0 .. m - 1 /\ (k # 0 => k - 1 \in 0 .. m - 1)  BY <3>2, <2>0
      <4>2. on[k] = after[k] /\ (k # 0 => on[k - 1] = after[k - 1])  BY <4>1, <2>1
      <4> QED  BY <4>1, <4>2, <1>4 DEF TypesFrom
    <3> QED  BY <3>1, <3>2
  <2> QED  BY <2>1, <2>2, Zenon DEF TypesFrom
<1> QED  BY <1>1, <1>5

\* f has become g by typing the first k characters of txt at the end of line id.
TypedBehind(f, g, id, txt, k) ==
    LET l == View(f, id)
        m == View(g, id)
    IN  /\ ~g.fault /\ Good(m) /\ g.buffer_c = f.buffer_c + k
        /\ m.sog = g.buffer_c /\ m.data_n = g.buffer_c
        /\ \A i \in 1 .. l.data_n : CharAt(m, i) = CharAt(l, i)
        /\ \A i \in 1 .. k : CharAt(m, l.data_n + i) = txt[i]

\* merge_lines_up() types the lower line behind the upper one.
LEMMA TypeFrame ==
    ASSUME NEW ext, NEW f, Sound(f, ext), NEW id \in LineId, NEW txt \in Seq(Byte)
    PROVE  LET g == InsertText(f, id, txt, FALSE)
               l == View(f, id)
           IN  /\ Edits(f, g, ext) /\ SameRow(f, g) /\ Elsewhere(f, g, id)
               /\ f.fault => g.fault
               /\ /\ ~f.fault /\ id \in f.alive /\ Good(l) /\ txt \in Seq(Char)
                  /\ l.sog = f.buffer_c /\ l.data_n = f.buffer_c
                  => TypedBehind(f, g, id, txt, Len(txt))
<1> DEFINE after == CHOOSE a : TypesFrom(f, id, txt, Len(txt), a)
           l == View(f, id)
           easy == /\ ~f.fault /\ id \in f.alive /\ Good(l) /\ txt \in Seq(Char)
                   /\ l.sog = f.buffer_c /\ l.data_n = f.buffer_c
           Right(k) == /\ Edits(f, after[k], ext) /\ SameRow(f, after[k])
                       /\ Elsewhere(f, after[k], id)
                       /\ f.fault => after[k].fault
                       /\ easy => TypedBehind(f, after[k], id, txt, k)
           T == {k \in 0 .. Len(txt) : ~Right(k)}
<1>0. Len(txt) \in Nat /\ f.buffer_c \in Nat  BY SoundFields
<1>1. InsertText(f, id, txt, FALSE) = after[Len(txt)]  BY DEF InsertText, TypesFrom
<1>2. TypesFrom(f, id, txt, Len(txt), after)  BY <1>0, TypesExist
<1> HIDE DEF after
<1>3. \A k \in 0 .. Len(txt) :
         after[k] = IF k = 0 THEN f ELSE InsertChar(after[k - 1], id, txt[k], FALSE)
      BY <1>2 DEF TypesFrom
<1>4. Right(0)
  <2>0. 0 \in 0 .. Len(txt)  BY <1>0
  <2>1. after[0] = f  BY <2>0, <1>3, Zenon
  <2>2. easy => TypedBehind(f, f, id, txt, 0)  BY <1>0 DEF TypedBehind
  <2> HIDE DEF easy
  <2> QED  BY <2>1, <2>2, EditsReflexive DEF Elsewhere
<1>5. ASSUME NEW k \in 1 .. Len(txt), Right(k - 1) PROVE Right(k)
  <2> DEFINE b == after[k - 1]
             m == View(b, id)
             ch == txt[k]
             g == after[k]
  <2>0. k \in 0 .. Len(txt) /\ k # 0 /\ k - 1 \in Nat /\ k \in Nat  BY <1>0
  <2>1. g = InsertChar(b, id, ch, FALSE)  BY <2>0, <1>3
  <2>2. /\ Edits(f, b, ext) /\ SameRow(f, b) /\ Elsewhere(f, b, id)
        /\ f.fault => b.fault
        /\ easy => TypedBehind(f, b, id, txt, k - 1)
        BY <1>5
  <2>3. Sound(b, ext) /\ b.alive = f.alive  BY <2>2 DEF Edits, SameList
  <2>4. ch \in Byte  OBVIOUS
  <2> HIDE DEF b, ch, easy
  <2>5. /\ Edits(b, g, ext) /\ SameRow(b, g) /\ Elsewhere(b, g, id)
        /\ ~b.fault /\ id \in b.alive /\ Good(m) /\ b.buffer_c = m.sog =>
              ~g.fault /\ g.buffer_c = b.buffer_c + 1
              /\ View(g, id) = InsertInGap(m, b.buffer_c, ch)
        BY <2>1, <2>3, <2>4, InsertFrame
  <2>8. f.fault => g.fault  BY <2>1, <2>2 DEF InsertChar, Check
  <2> HIDE DEF g
  <2>6. Edits(f, g, ext) /\ SameRow(f, g) /\ Elsewhere(f, g, id)
        BY <2>2, <2>5, EditsTransitive DEF SameRow, Elsewhere
  <2>7. ASSUME easy PROVE TypedBehind(f, g, id, txt, k)
    <3>1. id \in f.alive /\ l.data_n = f.buffer_c /\ ch \in Char  BY <2>7 DEF easy, ch
    <3>2. /\ ~b.fault /\ Good(m) /\ b.buffer_c = f.buffer_c + (k - 1)
          /\ m.sog = b.buffer_c /\ m.data_n = b.buffer_c
          /\ \A i \in 1 .. l.data_n : CharAt(m, i) = CharAt(l, i)
          /\ \A i \in 1 .. k - 1 : CharAt(m, l.data_n + i) = txt[i]
          BY <2>2, <2>7 DEF TypedBehind
    <3> DEFINE v == View(g, id)
    <3>3. ~g.fault /\ g.buffer_c = b.buffer_c + 1 /\ v = InsertInGap(m, m.sog, ch)
          BY <3>1, <3>2, <2>3, <2>5
    <3> HIDE DEF v, m, l
    <3>4. /\ Good(v) /\ v.sog = m.sog + 1 /\ v.data_n = m.data_n + 1
          /\ \A i \in 1 .. m.data_n + 1 :
                CharAt(v, i) = IF i <= m.sog THEN CharAt(m, i)
                               ELSE IF i = m.sog + 1 THEN ch ELSE CharAt(m, i - 1)
          BY <3>1, <3>2, <3>3, InsertGood
    <3>5. m.sog = l.data_n + (k - 1) /\ m.data_n = l.data_n + (k - 1) /\ l.data_n \in Nat
          BY <1>0, <3>1, <3>2
    <3>6. \A i \in 1 .. l.data_n : CharAt(v, i) = CharAt(l, i)
          BY <2>0, <3>2, <3>4, <3>5
    <3>7. ASSUME NEW i \in 1 .. k PROVE CharAt(v, l.data_n + i) = txt[i]
      <4>1. i = k \/ i \in 1 .. k - 1  BY <2>0
      <4>2. CASE i = k  BY <2>0, <3>4, <3>5, <4>2 DEF ch
      <4>3. CASE i \in 1 .. k - 1
        <5>1. /\ l.data_n + i \in 1 .. m.data_n + 1 /\ l.data_n + i <= m.sog  BY <2>0, <3>5, <4>3
        <5> QED  BY <5>1, <4>3, <3>2, <3>4
      <4> QED  BY <4>1, <4>2, <4>3
    <3>8. g.buffer_c = f.buffer_c + k /\ v.sog = g.buffer_c /\ v.data_n = g.buffer_c
          BY <1>0, <2>0, <3>2, <3>3, <3>4
    <3> QED  BY <3>3, <3>4, <3>6, <3>7, <3>8 DEF TypedBehind, v, l
  <2> QED  BY <2>6, <2>7, <2>8 DEF g, easy
<1> HIDE DEF Right
<1>6. T = {}
  <2> SUFFICES ASSUME T # {} PROVE FALSE  OBVIOUS
  <2>1. T \subseteq Nat  BY <1>0
  <2>2. PICK m \in T : \A y \in 0 .. m - 1 : y \notin T  BY <2>1, LeastNumber
  <2>3. m \in 0 .. Len(txt) /\ ~Right(m)  BY <2>2
  <2>4. m # 0  BY <1>4, <2>3
  <2>5. m \in 1 .. Len(txt) /\ m - 1 \in 0 .. m - 1 /\ m - 1 \in 0 .. Len(txt)
        BY <1>0, <2>3, <2>4
  <2>6. Right(m - 1)  BY <2>2, <2>5
  <2> QED  BY <1>5, <2>3, <2>5, <2>6
<1>7. Len(txt) \in 0 .. Len(txt)  BY <1>0
<1>8. Right(Len(txt))  BY <1>6, <1>7
<1> QED  BY <1>1, <1>8 DEF Right

-----------------------------------------------------------------------------
(* Lines come and go *)

\* g has the same bytes in every line, but for those of the lines in T.
SameBytes(f, g, T) == \A j \in LineId \ T : View(g, j) = View(f, j)

\* alloc_emptyl(): the new line has no neighbours yet, and one reference.
LEMMA AllocFrame ==
    ASSUME NEW ext, NEW f, Sound(f, ext), f.fresh \in LineId
    PROVE  LET g == AllocEmptyl(f)
               n == f.fresh
           IN  /\ Sound(g, ext) /\ SameRow(f, g) /\ SameScroll(f, g)
               /\ g.buffer_c = f.buffer_c /\ g.fault = f.fault
               /\ g.headl = f.headl /\ g.taill = f.taill
               /\ n \notin f.alive /\ g.alive = f.alive \cup {n} /\ g.fresh = n + 1
               /\ View(g, n) = EmptyLine /\ SameBytes(f, g, {n})
               /\ g.line[n].nextl = NULL /\ g.line[n].prevl = NULL /\ g.line[n].refs = 1
               /\ \A j \in LineId : j # n => g.line[j] = f.line[j]
<1> DEFINE n == f.fresh
           struct == NewStruct(n)
           lines == [f.line EXCEPT ![n] = struct]
           arrays == [f.bytes EXCEPT ![n] = EmptyLine.data]
           alive == f.alive \cup {n}
           g == AllocEmptyl(f)
<1>a. Shaped(EmptyLine)  BY EmptyLineGood, GoodIsShaped
<1>b. InitGapSize \in Nat /\ InitGapSize >= 2 /\ MaxLines \in Nat
      BY InitGapSizeAssumption, MaxLinesAssumption
<1>c. n \in Nat /\ n >= 1 /\ n <= MaxLines /\ n \in LineId  BY <1>b DEF LineId
<1>0. /\ f \in Frame /\ f.line \in [LineId -> LineStruct] /\ f.bytes \in [LineId -> ByteArray]
      /\ f.alive = (1 .. n - 1) \ ext.gone /\ f.alive \subseteq LineId
      /\ ext.gone \subseteq 1 .. n - 1
      BY SoundFields DEF Sound
<1>1. n \notin f.alive /\ alive = (1 .. n) \ ext.gone /\ alive \in SUBSET LineId
  <2>1. n \notin 1 .. n - 1 /\ 1 .. n = (1 .. n - 1) \cup {n}  BY <1>c
  <2> QED  BY <2>1, <1>0, <1>c
<1>2. /\ struct \in LineStruct /\ struct.data = n
      /\ struct.sog = 0 /\ struct.eog = InitGapSize - 1 /\ struct.size = InitGapSize + 1
      /\ struct.data_n = 0
      /\ struct.nextl = NULL /\ struct.prevl = NULL /\ struct.refs = 1
      BY <1>b, <1>c DEF NewStruct, LineStruct, Link
<1>3. /\ EmptyLine.sog = 0 /\ EmptyLine.eog = InitGapSize - 1 /\ EmptyLine.size = InitGapSize + 1
      /\ EmptyLine.data_n = 0 /\ EmptyLine.data \in ByteArray
      /\ EmptyLine = Line(0, InitGapSize - 1, InitGapSize + 1, 0, EmptyLine.data)
  <2>1. EmptyLine.data \in [0 .. EmptyLine.size - 1 -> Byte] /\ EmptyLine.size \in Nat
        BY <1>a, ShapedFields
  <2>2. EmptyLine.data \in ByteArray  BY <2>1 DEF ByteArray
  <2> QED  BY <2>2 DEF EmptyLine, Line
<1> HIDE DEF struct
<1>4. lines \in [LineId -> LineStruct] /\ lines[n] = struct
      /\ \A j \in LineId : j # n => lines[j] = f.line[j]
      BY <1>0, <1>2, <1>c
<1>5. arrays \in [LineId -> ByteArray] /\ arrays[n] = EmptyLine.data
      /\ \A j \in LineId : j # n => arrays[j] = f.bytes[j]
      BY <1>0, <1>3, <1>c
<1>6. n + 1 \in 1 .. MaxLines + 1  BY <1>b, <1>c
<1>7. g = [f EXCEPT !.line = lines, !.bytes = arrays, !.alive = alive, !.fresh = n + 1]
      BY <1>0 DEF AllocEmptyl, Frame, struct
<1> HIDE DEF lines, arrays, alive, g, n
<1>8. /\ g \in Frame /\ g.line = lines /\ g.bytes = arrays /\ g.alive = alive
      /\ g.fresh = n + 1 /\ g.headl = f.headl /\ g.taill = f.taill
      /\ g.currentl = f.currentl /\ g.scroll = f.scroll /\ g.scroll_r = f.scroll_r
      /\ g.buffer_r = f.buffer_r /\ g.buffer_c = f.buffer_c /\ g.fault = f.fault
      BY <1>0, <1>1, <1>4, <1>5, <1>6, <1>7 DEF Frame
<1>9. \A j \in LineId : f.line[j].data = j /\ Shaped(View(f, j))  BY DEF Sound
<1>10. View(g, n) = EmptyLine  BY <1>2, <1>3, <1>4, <1>5, <1>8 DEF View
<1>11. SameBytes(f, g, {n})  BY <1>4, <1>5, <1>8, <1>9 DEF View, SameBytes
<1>12. \A j \in LineId : g.line[j].data = j /\ Shaped(View(g, j))
       BY <1>2, <1>4, <1>8, <1>9, <1>10, <1>11, <1>a DEF SameBytes
<1>13. Sound(g, ext)
  <2>1. /\ f.headl \in f.alive /\ f.taill \in f.alive /\ f.currentl \in f.alive
        /\ f.scroll \in f.alive \cup {NULL}
        BY DEF Sound
  <2>2. g.fresh - 1 = n  BY <1>8, <1>c
  <2>3. g.alive = (1 .. g.fresh - 1) \ ext.gone  BY <1>1, <1>8, <2>2
  <2>4. f.alive \subseteq alive  BY DEF alive
  <2>5. ext.gone \subseteq 1 .. g.fresh - 1
    <3>1. \A i \in 1 .. n - 1 : i \in 1 .. n  BY <1>c
    <3> QED  BY <3>1, <2>2, <1>0
  <2>6. ext.refs \in [LineId -> Nat] /\ \A id \in LineId : id >= g.fresh => ext.refs[id] = 0
    <3>1. ext.refs \in [LineId -> Nat] /\ \A id \in LineId : id >= n => ext.refs[id] = 0
          BY DEF Sound, n
    <3>2. \A id \in LineId : id \in Int /\ (id >= n + 1 => id >= n)  BY <1>c DEF LineId
    <3> QED  BY <3>1, <3>2, <1>8
  <2> QED  BY <2>1, <2>3, <2>4, <2>5, <2>6, <1>8, <1>12 DEF Sound
<1>14. alive = f.alive \cup {n}  BY DEF alive
<1> QED  BY <1>1, <1>2, <1>4, <1>8, <1>10, <1>11, <1>13, <1>14 DEF g, n, SameRow, SameScroll

\* The links of g are those of f with line put behind parent.
PutAfter(f, g, parent, line) ==
    LET after == f.line[parent].nextl
    IN  /\ g.alive = f.alive /\ g.fresh = f.fresh /\ g.headl = f.headl
        /\ g.taill = IF after = NULL THEN line ELSE f.taill
        /\ \A j \in LineId :
              /\ g.line[j].nextl = IF j = parent THEN line
                                   ELSE IF j = line THEN after ELSE f.line[j].nextl
              /\ g.line[j].prevl = IF j = line THEN parent
                                   ELSE IF j = after THEN line ELSE f.line[j].prevl

\* insert_line_after() behind a line, at the tail or not: what it does to the links.
LEMMA LinkAfterFrame ==
    ASSUME NEW ext, NEW f, Sound(f, ext), ~f.fault, NEW parent \in f.alive, NEW line \in f.alive,
           parent # line, f.line[line].nextl = NULL, f.line[parent].nextl # line,
           f.line[parent].nextl # parent
    PROVE  LET g == InsertLineAfter(f, parent, line)
           IN  /\ Sound(g, ext) /\ SameScroll(f, g) /\ ~g.fault
               /\ g.currentl = line /\ g.buffer_r = f.buffer_r + 1 /\ g.buffer_c = 0
               /\ \A j \in LineId : View(g, j) = View(f, j) /\ g.line[j].refs = f.line[j].refs
               /\ PutAfter(f, g, parent, line)
<1> DEFINE after == f.line[parent].nextl
           last == LinkLast(f, parent, line)
           between == LinkBetween(f, parent, line)
           linked == IF after = NULL THEN last ELSE between
           g == InsertLineAfter(f, parent, line)
           Next(j) == IF j = parent THEN line ELSE IF j = line THEN after ELSE f.line[j].nextl
           Prev(j) == IF j = line THEN parent ELSE IF j = after THEN line ELSE f.line[j].prevl
<1>0. /\ f \in Frame /\ f.line \in [LineId -> LineStruct] /\ f.bytes \in [LineId -> ByteArray]
      /\ parent \in LineId /\ line \in LineId /\ parent # NULL
      /\ Usable(f, parent) /\ Usable(f, line) /\ after \in Link
      BY SoundFields, AliveUsable, StructFields DEF Sound
<1>1. g = [linked EXCEPT !.currentl = line, !.buffer_n = @ + 1,
                         !.buffer_r = @ + 1, !.buffer_c = 0]
      BY <1>0 DEF InsertLineAfter, Check
<1>2. /\ linked \in Frame /\ linked.bytes = f.bytes /\ linked.alive = f.alive
      /\ linked.fresh = f.fresh /\ linked.headl = f.headl
      /\ linked.taill = (IF after = NULL THEN line ELSE f.taill)
      /\ linked.scroll = f.scroll /\ linked.scroll_r = f.scroll_r
      /\ linked.buffer_r = f.buffer_r /\ linked.buffer_n = f.buffer_n /\ linked.fault = f.fault
      /\ \A j \in LineId : /\ linked.line[j].nextl = Next(j) /\ linked.line[j].prevl = Prev(j)
                           /\ linked.line[j].sog = f.line[j].sog
                           /\ linked.line[j].eog = f.line[j].eog
                           /\ linked.line[j].size = f.line[j].size
                           /\ linked.line[j].data_n = f.line[j].data_n
                           /\ linked.line[j].data = f.line[j].data
                           /\ linked.line[j].refs = f.line[j].refs
  <2>1. CASE after = NULL
    <3> DEFINE mid == [f.line EXCEPT ![parent] = [@ EXCEPT !.nextl = line]]
               end == [mid EXCEPT ![line] = [@ EXCEPT !.prevl = parent]]
    <3>1. mid \in [LineId -> LineStruct]  BY <1>0 DEF LineStruct, Link
    <3>2. end \in [LineId -> LineStruct]  BY <1>0, <3>1 DEF LineStruct, Link
    <3>3. linked = [f EXCEPT !.line = end, !.taill = line]
          BY <2>1, <1>0 DEF LinkLast, Frame
    <3>4. \A j \in LineId :
             end[j] = IF j = line THEN [f.line[line] EXCEPT !.prevl = parent]
                      ELSE IF j = parent THEN [f.line[parent] EXCEPT !.nextl = line]
                      ELSE f.line[j]
          BY <1>0
    <3>5. \A j \in LineId : f.line[j] \in LineStruct /\ j # NULL  BY <1>0, NULLAssumption
    <3>6. \A j \in LineId : /\ end[j].nextl = Next(j) /\ end[j].prevl = Prev(j)
                            /\ end[j].sog = f.line[j].sog /\ end[j].eog = f.line[j].eog
                            /\ end[j].size = f.line[j].size /\ end[j].data_n = f.line[j].data_n
                            /\ end[j].data = f.line[j].data /\ end[j].refs = f.line[j].refs
      <4> HIDE DEF end
      <4> QED  BY <3>4, <3>5, <2>1, <1>0 DEF LineStruct
    <3> HIDE DEF end, linked
    <3> QED  BY <3>2, <3>3, <3>6, <2>1, <1>0 DEF Frame
  <2>2. CASE after # NULL
    <3> DEFINE a == [f.line EXCEPT ![parent] = [@ EXCEPT !.nextl = line]]
               b == [a EXCEPT ![line] = [@ EXCEPT !.nextl = after]]
               c == [b EXCEPT ![line] = [@ EXCEPT !.prevl = parent]]
               end == [c EXCEPT ![after] = [@ EXCEPT !.prevl = line]]
    <3>0. after \in LineId  BY <2>2, <1>0 DEF Link
    <3>1. a \in [LineId -> LineStruct]  BY <1>0 DEF LineStruct, Link
    <3>2. b \in [LineId -> LineStruct]
      <4> HIDE DEF a
      <4> QED  BY <1>0, <3>1 DEF LineStruct, Link
    <3>3. c \in [LineId -> LineStruct]
      <4> HIDE DEF b
      <4> QED  BY <1>0, <3>2 DEF LineStruct, Link
    <3>4. end \in [LineId -> LineStruct]
      <4> HIDE DEF c
      <4> QED  BY <1>0, <3>0, <3>3 DEF LineStruct, Link
    <3>5. linked = [f EXCEPT !.line = end]
          BY <2>2, <1>0 DEF LinkBetween, Frame
    <3>6. \A j \in LineId :
             end[j] = IF j = after THEN [f.line[after] EXCEPT !.prevl = line]
                      ELSE IF j = line
                           THEN [f.line[line] EXCEPT !.nextl = after, !.prevl = parent]
                      ELSE IF j = parent THEN [f.line[parent] EXCEPT !.nextl = line]
                      ELSE f.line[j]
          BY <1>0, <3>0
    <3>7. \A j \in LineId : f.line[j] \in LineStruct  BY <1>0
    <3>8. \A j \in LineId : /\ end[j].nextl = Next(j) /\ end[j].prevl = Prev(j)
                            /\ end[j].sog = f.line[j].sog /\ end[j].eog = f.line[j].eog
                            /\ end[j].size = f.line[j].size /\ end[j].data_n = f.line[j].data_n
                            /\ end[j].data = f.line[j].data /\ end[j].refs = f.line[j].refs
      <4> HIDE DEF end
      <4> TAKE j \in LineId
      <4>1. f.line[j] \in LineStruct /\ parent # after /\ after # line /\ parent # line
            BY <1>0
      <4>2. CASE j = after  BY <4>1, <4>2, <3>6 DEF LineStruct
      <4>3. CASE j = line  BY <4>1, <4>3, <3>6 DEF LineStruct
      <4>4. CASE j = parent  BY <4>1, <4>4, <3>6 DEF LineStruct
      <4>5. CASE j # after /\ j # line /\ j # parent  BY <4>5, <3>6
      <4> QED  BY <4>2, <4>3, <4>4, <4>5
    <3> HIDE DEF end, linked
    <3> QED  BY <3>4, <3>5, <3>8, <2>2, <1>0 DEF Frame
  <2> QED  BY <2>1, <2>2
<1> HIDE DEF linked, g
<1>3. /\ g \in Frame /\ g.line = linked.line /\ g.bytes = linked.bytes /\ g.alive = linked.alive
      /\ g.fresh = linked.fresh /\ g.headl = linked.headl /\ g.taill = linked.taill
      /\ g.currentl = line /\ g.scroll = linked.scroll /\ g.scroll_r = linked.scroll_r
      /\ g.buffer_r = linked.buffer_r + 1 /\ g.buffer_c = 0 /\ g.fault = linked.fault
  <2>1. linked.buffer_n \in Nat /\ linked.buffer_r \in Int  BY <1>2 DEF Frame
  <2>2. PICK n \in Nat : n = linked.buffer_n + 1  BY <2>1
  <2>3. PICK r \in Int : r = linked.buffer_r + 1  BY <2>1
  <2>4. g = [linked EXCEPT !.currentl = line, !.buffer_n = n, !.buffer_r = r, !.buffer_c = 0]
        BY <1>1, <2>2, <2>3
  <2> QED  BY <1>0, <1>2, <2>2, <2>3, <2>4 DEF Frame
<1>4. \A j \in LineId : f.line[j].data = j /\ Shaped(View(f, j))  BY DEF Sound
<1>5. \A j \in LineId : View(g, j) = View(f, j) /\ g.line[j].refs = f.line[j].refs
                        /\ g.line[j].data = j
      BY <1>2, <1>3, <1>4 DEF View
<1>6. Sound(g, ext)  BY <1>2, <1>3, <1>4, <1>5, <1>0 DEF Sound
<1>7. PutAfter(f, g, parent, line)  BY <1>2, <1>3 DEF PutAfter
<1> QED  BY <1>2, <1>3, <1>5, <1>6, <1>7 DEF g, SameScroll

\* A line that is not in the list.
Absent(s, line) == \A i \in 1 .. Len(s) : s[i] # line

\* Those links make a list with the line behind the k-th one.
LEMMA ChainInsert ==
    ASSUME NEW f, NEW s, Chain(f, s), NEW k \in 1 .. Len(s), NEW line \in f.alive,
           line \in LineId, line # NULL, Absent(s, line), Len(s) + 1 < f.fresh,
           NEW g, PutAfter(f, g, s[k], line)
    PROVE  Chain(g, InsertAt(s, k + 1, line))
<1> DEFINE t == InsertAt(s, k + 1, line)
           n == Len(s)
<1>0. /\ s \in Seq(LineId) /\ n \in Nat /\ n >= 1
      /\ k \in Nat /\ k >= 1 /\ k <= n
      /\ \A i \in 1 .. n : s[i] \in LineId /\ s[i] # NULL
      BY ChainFacts
<1>1. /\ t \in Seq(LineId) /\ Len(t) = n + 1
      /\ \A i \in 1 .. n + 1 :
            t[i] = IF i < k + 1 THEN s[i] ELSE IF i = k + 1 THEN line ELSE s[i - 1]
  <2>0. s \in Seq(LineId)  BY <1>0
  <2>1. PICK m \in 1 .. Len(s) + 1 : m = k + 1  BY <1>0
  <2>2. /\ InsertAt(s, m, line) \in Seq(LineId)
        /\ Len(InsertAt(s, m, line)) = Len(s) + 1
        /\ \A i \in 1 .. Len(s) + 1 :
              InsertAt(s, m, line)[i] = IF i < m THEN s[i] ELSE IF i = m THEN line ELSE s[i - 1]
        BY <2>0, InsertAtValue
  <2> QED  BY <2>1, <2>2, Zenon
<1>i. \A i, j \in 1 .. n : s[i] = s[j] => i = j  BY DEF Chain
<1>2. /\ \A i \in 1 .. n : s[i] \in f.alive
      /\ f.headl = s[1] /\ f.taill = s[n]
      /\ \A i \in 1 .. n : f.line[s[i]].nextl = IF i = n THEN NULL ELSE s[i + 1]
      /\ \A i \in 1 .. n : f.line[s[i]].prevl = IF i = 1 THEN NULL ELSE s[i - 1]
      BY DEF Chain
<1> HIDE DEF t
<1> DEFINE after == f.line[s[k]].nextl
<1>3. after = IF k = n THEN NULL ELSE s[k + 1]  BY <1>0, <1>2
<1>a. \A i \in 1 .. n : s[i] # line  BY DEF Absent
<1>l. /\ g.alive = f.alive /\ g.fresh = f.fresh /\ g.headl = f.headl
      /\ g.taill = IF after = NULL THEN line ELSE f.taill
      /\ \A j \in LineId :
            /\ g.line[j].nextl = IF j = s[k] THEN line
                                 ELSE IF j = line THEN after ELSE f.line[j].nextl
            /\ g.line[j].prevl = IF j = line THEN s[k]
                                 ELSE IF j = after THEN line ELSE f.line[j].prevl
      BY DEF PutAfter
<1> HIDE DEF n, after
<1>4. ASSUME NEW i \in 1 .. n + 1
      PROVE  \/ i \in 1 .. k /\ i \in 1 .. n /\ t[i] = s[i] /\ t[i] # line
             \/ i = k + 1 /\ t[i] = line
             \/ i \in k + 2 .. n + 1 /\ i - 1 \in 1 .. n /\ t[i] = s[i - 1] /\ t[i] # line
  <2>1. i \in Nat /\ i >= 1 /\ i <= n + 1  BY <1>0
  <2>2. CASE i <= k  BY <2>1, <2>2, <1>0, <1>1, <1>a
  <2>3. CASE i = k + 1  BY <2>1, <2>3, <1>0, <1>1
  <2>4. CASE i > k + 1
    <3>1. i \in k + 2 .. n + 1 /\ i - 1 \in 1 .. n  BY <2>1, <2>4, <1>0
    <3> QED  BY <3>1, <2>1, <2>4, <1>0, <1>1, <1>a
  <2> QED  BY <2>1, <2>2, <2>3, <2>4, <1>0
<1>5. \A i, j \in 1 .. n + 1 : t[i] = t[j] => i = j
  <2> SUFFICES ASSUME NEW i \in 1 .. n + 1, NEW j \in 1 .. n + 1, t[i] = t[j] PROVE i = j
      OBVIOUS
  <2>0. i \in Nat /\ j \in Nat  BY <1>0
  <2>1. CASE i = k + 1  BY <2>0, <2>1, <1>0, <1>4
  <2>2. CASE j = k + 1  BY <2>0, <2>2, <1>0, <1>4
  <2>3. CASE i \in 1 .. k /\ i \in 1 .. n /\ t[i] = s[i]
    <3>1. CASE j \in 1 .. k /\ j \in 1 .. n /\ t[j] = s[j]  BY <2>3, <3>1, <1>i
    <3>2. CASE j \in k + 2 .. n + 1 /\ j - 1 \in 1 .. n /\ t[j] = s[j - 1]
      <4>1. i = j - 1  BY <2>3, <3>2, <1>i
      <4> QED  BY <4>1, <2>0, <2>3, <3>2, <1>0
    <3> QED  BY <3>1, <3>2, <2>2, <1>4
  <2>4. CASE i \in k + 2 .. n + 1 /\ i - 1 \in 1 .. n /\ t[i] = s[i - 1]
    <3>1. CASE j \in 1 .. k /\ j \in 1 .. n /\ t[j] = s[j]
      <4>1. j = i - 1  BY <2>4, <3>1, <1>i
      <4> QED  BY <4>1, <2>0, <2>4, <3>1, <1>0
    <3>2. CASE j \in k + 2 .. n + 1 /\ j - 1 \in 1 .. n /\ t[j] = s[j - 1]
      <4>1. i - 1 = j - 1  BY <2>4, <3>2, <1>i
      <4> QED  BY <4>1, <2>0
    <3> QED  BY <3>1, <3>2, <2>2, <1>4
  <2> QED  BY <2>1, <2>3, <2>4, <1>4
<1>6. \A i \in 1 .. n + 1 : t[i] \in g.alive  BY <1>2, <1>4, <1>l
<1>7. g.headl = t[1]
  <2>1. 1 \in 1 .. n + 1 /\ 1 < k + 1  BY <1>0
  <2> QED  BY <2>1, <1>1, <1>2, <1>l
<1>8. g.taill = t[n + 1]
  <2>1. n + 1 \in 1 .. n + 1 /\ n + 1 - 1 = n /\ ~(n + 1 < k + 1) /\ (n + 1 = k + 1 <=> k = n)
        BY <1>0
  <2>2. t[n + 1] = IF k = n THEN line ELSE s[n]
    <3>1. PICK m \in 1 .. n + 1 : m = n + 1  BY <2>1
    <3>2. m - 1 = n /\ ~(m < k + 1) /\ (m = k + 1 <=> k = n)  BY <3>1, <2>1, <1>0
    <3>3. t[m] = IF m < k + 1 THEN s[m] ELSE IF m = k + 1 THEN line ELSE s[m - 1]  BY <1>1
    <3> QED  BY <3>1, <3>2, <3>3
  <2>3. after = NULL <=> k = n
    <3>1. k # n => k + 1 \in 1 .. n  BY <1>0
    <3> QED  BY <3>1, <1>0, <1>3
  <2> QED  BY <2>2, <2>3, <1>2, <1>l
<1>9. \A i \in 1 .. n + 1 : g.line[t[i]].nextl = IF i = n + 1 THEN NULL ELSE t[i + 1]
  <2> SUFFICES ASSUME NEW i \in 1 .. n + 1
               PROVE  g.line[t[i]].nextl = IF i = n + 1 THEN NULL ELSE t[i + 1]
      OBVIOUS
  <2>0. i \in Nat  BY <1>0
  <2>1. CASE i \in 1 .. k /\ i \in 1 .. n /\ t[i] = s[i] /\ t[i] # line
    <3>1. i + 1 \in 1 .. n + 1 /\ i # n + 1  BY <2>0, <2>1, <1>0
    <3>2. CASE i = k
      <4>1. t[i + 1] = line  BY <3>1, <3>2, <1>1, <1>0
      <4> QED  BY <2>1, <3>1, <3>2, <4>1, <1>0, <1>l
    <3>3. CASE i # k
      <4>1. i + 1 < k + 1 /\ i # n /\ k \in 1 .. n  BY <2>0, <2>1, <3>3, <1>0
      <4>2. t[i + 1] = s[i + 1]  BY <3>1, <4>1, <1>1
      <4>3. s[i] # s[k]  BY <4>1, <2>1, <3>3, <1>i
      <4>4. f.line[s[i]].nextl = s[i + 1]  BY <2>1, <4>1, <1>2
      <4>5. s[i] \in LineId  BY <2>1, <1>0
      <4> QED  BY <2>1, <3>1, <4>2, <4>3, <4>4, <4>5, <1>l
    <3> QED  BY <3>2, <3>3
  <2>2. CASE i = k + 1 /\ t[i] = line
    <3>1. k \in 1 .. n /\ line # s[k]  BY <1>0, <1>a
    <3>2. g.line[line].nextl = after  BY <3>1, <1>l
    <3>3. CASE k = n  BY <3>2, <3>3, <2>2, <1>3
    <3>4. CASE k # n
      <4>1. i + 1 \in 1 .. n + 1 /\ ~(i + 1 < k + 1) /\ i + 1 # k + 1 /\ i + 1 - 1 = k + 1
            /\ i # n + 1
            BY <2>0, <2>2, <3>4, <1>0
      <4>2. t[i + 1] = s[k + 1]  BY <4>1, <1>1
      <4> QED  BY <3>2, <3>4, <4>1, <4>2, <2>2, <1>3
    <3> QED  BY <3>3, <3>4
  <2>3. CASE i \in k + 2 .. n + 1 /\ i - 1 \in 1 .. n /\ t[i] = s[i - 1] /\ t[i] # line
    <3>1. i - 1 # k /\ k \in 1 .. n  BY <2>0, <2>3, <1>0
    <3>2. s[i - 1] # s[k] /\ s[i - 1] \in LineId  BY <3>1, <2>3, <1>0, <1>i
    <3>3. g.line[t[i]].nextl = f.line[s[i - 1]].nextl  BY <3>2, <2>3, <1>l
    <3>4. f.line[s[i - 1]].nextl = IF i - 1 = n THEN NULL ELSE s[i - 1 + 1]  BY <2>3, <1>2
    <3>5. i - 1 = n <=> i = n + 1  BY <2>0, <1>0
    <3>6. i # n + 1 => /\ i + 1 \in 1 .. n + 1 /\ ~(i + 1 < k + 1) /\ i + 1 # k + 1
                       /\ i + 1 - 1 = i /\ i - 1 + 1 = i
          BY <2>0, <2>3, <1>0
    <3>7. i # n + 1 => t[i + 1] = s[i]  BY <3>6, <1>1
    <3> QED  BY <3>3, <3>4, <3>5, <3>6, <3>7
  <2> QED  BY <2>1, <2>2, <2>3, <1>4
<1>10. \A i \in 1 .. n + 1 : g.line[t[i]].prevl = IF i = 1 THEN NULL ELSE t[i - 1]
  <2> SUFFICES ASSUME NEW i \in 1 .. n + 1
               PROVE  g.line[t[i]].prevl = IF i = 1 THEN NULL ELSE t[i - 1]
      OBVIOUS
  <2>0. i \in Nat /\ i >= 1 /\ (i # 1 => i - 1 \in 1 .. n + 1)  BY <1>0
  <2>1. CASE i \in 1 .. k /\ i \in 1 .. n /\ t[i] = s[i] /\ t[i] # line
    <3>1. s[i] # after
      <4>1. CASE k = n  BY <4>1, <2>1, <1>0, <1>3
      <4>2. CASE k # n
        <5>1. k + 1 \in 1 .. n /\ i # k + 1  BY <4>2, <2>0, <2>1, <1>0
        <5> QED  BY <5>1, <4>2, <2>1, <1>i, <1>3
      <4> QED  BY <4>1, <4>2
    <3>2. s[i] \in LineId  BY <2>1, <1>0
    <3>3. g.line[t[i]].prevl = IF i = 1 THEN NULL ELSE s[i - 1]  BY <3>1, <3>2, <2>1, <1>2, <1>l
    <3>4. i # 1 => t[i - 1] = s[i - 1]
      <4>1. i # 1 => i - 1 < k + 1  BY <2>0, <2>1, <1>0
      <4> QED  BY <4>1, <2>0, <1>1
    <3> QED  BY <3>3, <3>4
  <2>2. CASE i = k + 1 /\ t[i] = line
    <3>1. i # 1 /\ i - 1 = k /\ i - 1 < k + 1  BY <2>0, <2>2, <1>0
    <3>2. t[i - 1] = s[k]  BY <3>1, <2>0, <1>1
    <3> QED  BY <3>1, <3>2, <2>2, <1>l
  <2>3. CASE i \in k + 2 .. n + 1 /\ i - 1 \in 1 .. n /\ t[i] = s[i - 1] /\ t[i] # line
    <3>0. k # n /\ k + 1 \in 1 .. n /\ i # 1 /\ i - 1 # 1  BY <2>0, <2>3, <1>0
    <3>1. after = s[k + 1]  BY <3>0, <1>3
    <3>2. s[i - 1] \in LineId  BY <2>3, <1>0
    <3>3. CASE i = k + 2
      <4>1. i - 1 = k + 1  BY <3>3, <1>0
      <4>2. t[i - 1] = line  BY <4>1, <3>0, <2>0, <1>0, <1>1
      <4> QED  BY <4>1, <4>2, <3>0, <3>1, <3>2, <2>3, <1>a, <1>l
    <3>4. CASE i # k + 2
      <4>1. /\ i - 1 # k + 1 /\ ~(i - 1 < k + 1) /\ i - 1 \in 1 .. n + 1
            BY <3>4, <2>0, <2>3, <1>0
      <4>2. t[i - 1] = s[i - 1 - 1]  BY <4>1, <1>1
      <4>3. s[i - 1] # after  BY <4>1, <3>0, <3>1, <2>3, <1>i
      <4>4. f.line[s[i - 1]].prevl = s[i - 1 - 1]  BY <3>0, <2>3, <1>2
      <4> QED  BY <4>2, <4>3, <4>4, <3>0, <3>2, <2>3, <1>a, <1>l
    <3> QED  BY <3>3, <3>4
  <2> QED  BY <2>1, <2>2, <2>3, <1>4
<1>11. Len(t) \in Nat /\ Len(t) >= 1 /\ Len(t) < g.fresh  BY <1>0, <1>1, <1>l, <1>a DEF n
<1> QED  BY <1>1, <1>5, <1>6, <1>7, <1>8, <1>9, <1>10, <1>11 DEF Chain, t

\* The links of g are those of f without line.
TakenOut(f, g, line) ==
    LET before == f.line[line].prevl
        after  == f.line[line].nextl
    IN  /\ g.alive = f.alive /\ g.fresh = f.fresh
        /\ g.headl = IF before = NULL THEN after ELSE f.headl
        /\ g.taill = IF after = NULL THEN before ELSE f.taill
        /\ \A j \in LineId :
              /\ g.line[j].nextl = IF j = before THEN after ELSE f.line[j].nextl
              /\ g.line[j].prevl = IF j = after THEN before ELSE f.line[j].prevl

\* Links that lead around the k-th line make the list without it.
LEMMA ChainRemove ==
    ASSUME NEW f, NEW s, Chain(f, s), f.fresh \in Int, NEW k \in 1 .. Len(s), Len(s) >= 2,
           NEW g, TakenOut(f, g, s[k])
    PROVE  Chain(g, RemoveAt(s, k))
<1> DEFINE t == RemoveAt(s, k)
           n == Len(s)
           before == f.line[s[k]].prevl
           after == f.line[s[k]].nextl
<1>0. /\ s \in Seq(LineId) /\ n \in Nat /\ n >= 2
      /\ k \in Nat /\ k >= 1 /\ k <= n
      BY ChainFacts
<1>s. \A i \in 1 .. n : s[i] \in LineId /\ s[i] # NULL  BY ChainFacts
<1>1. /\ t \in Seq(LineId) /\ Len(t) = n - 1
      /\ \A i \in 1 .. n - 1 : t[i] = IF i < k THEN s[i] ELSE s[i + 1]
      BY <1>0, RemoveAtValue
<1>i. \A i, j \in 1 .. n : s[i] = s[j] => i = j  BY DEF Chain
<1>2. /\ \A i \in 1 .. n : s[i] \in f.alive
      /\ f.headl = s[1] /\ f.taill = s[n] /\ n < f.fresh
      /\ \A i \in 1 .. n : f.line[s[i]].nextl = IF i = n THEN NULL ELSE s[i + 1]
      /\ \A i \in 1 .. n : f.line[s[i]].prevl = IF i = 1 THEN NULL ELSE s[i - 1]
      BY DEF Chain
<1>3. /\ after = IF k = n THEN NULL ELSE s[k + 1]
      /\ before = IF k = 1 THEN NULL ELSE s[k - 1]
      BY <1>0, <1>2
<1>l. /\ g.alive = f.alive /\ g.fresh = f.fresh
      /\ g.headl = IF before = NULL THEN after ELSE f.headl
      /\ g.taill = IF after = NULL THEN before ELSE f.taill
      /\ \A j \in LineId :
            /\ g.line[j].nextl = IF j = before THEN after ELSE f.line[j].nextl
            /\ g.line[j].prevl = IF j = after THEN before ELSE f.line[j].prevl
      BY DEF TakenOut
<1> HIDE DEF t, n, before, after
<1> DEFINE At(i) == IF i < k THEN i ELSE i + 1
<1>4. ASSUME NEW i \in 1 .. n - 1
      PROVE  /\ i \in Nat /\ i >= 1 /\ i <= n - 1 /\ At(i) \in 1 .. n /\ At(i) # k
             /\ t[i] = s[At(i)] /\ t[i] \in LineId /\ t[i] # NULL
             /\ i < k => At(i) = i
             /\ i >= k => At(i) = i + 1
  <2>1. i \in Nat /\ i >= 1 /\ i <= n - 1  BY <1>0
  <2>2. At(i) \in 1 .. n /\ At(i) # k /\ (i < k => At(i) = i) /\ (i >= k => At(i) = i + 1)
        BY <2>1, <1>0
  <2>3. t[i] = s[At(i)]  BY <1>1
  <2> HIDE DEF At
  <2> QED  BY <2>1, <2>2, <2>3, <1>s
<1> HIDE DEF At
<1>5. \A i, j \in 1 .. n - 1 : t[i] = t[j] => i = j
  <2> SUFFICES ASSUME NEW i \in 1 .. n - 1, NEW j \in 1 .. n - 1, t[i] = t[j] PROVE i = j
      OBVIOUS
  <2>1. At(i) = At(j)  BY <1>4, <1>i
  <2>2. /\ i \in Nat /\ (i < k => At(i) = i) /\ (i >= k => At(i) = i + 1)
        /\ j \in Nat /\ (j < k => At(j) = j) /\ (j >= k => At(j) = j + 1)
        BY <1>4
  <2> QED  BY <2>1, <2>2, <1>0
<1>6. \A i \in 1 .. n - 1 : t[i] \in g.alive  BY <1>2, <1>4, <1>l
<1>7. g.headl = t[1]
  <2>1. 1 \in 1 .. n - 1 /\ 1 \in 1 .. n /\ 1 + 1 = 2  BY <1>0
  <2>2. t[1] = IF 1 < k THEN s[1] ELSE s[2]  BY <2>1, <1>1
  <2>3. CASE k = 1
    <3>1. before = NULL /\ after = s[2]  BY <2>3, <1>0, <1>3
    <3> QED  BY <3>1, <2>2, <2>3, <1>l
  <2>4. CASE k # 1
    <3>1. 1 < k /\ k - 1 \in 1 .. n  BY <2>4, <1>0
    <3>2. before # NULL  BY <3>1, <2>4, <1>3, <1>s
    <3> QED  BY <3>1, <3>2, <2>2, <1>2, <1>l
  <2> QED  BY <2>3, <2>4
<1>8. g.taill = t[n - 1]
  <2>1. PICK m \in 1 .. n - 1 : m = n - 1  BY <1>0
  <2>2. m + 1 = n /\ (m < k <=> k = n)  BY <2>1, <1>0
  <2>3. t[m] = IF m < k THEN s[m] ELSE s[m + 1]  BY <1>1
  <2>4. CASE k = n
    <3>1. k # 1 /\ k - 1 = m  BY <2>4, <2>1, <1>0
    <3>2. after = NULL /\ before = s[m]  BY <3>1, <2>4, <1>3
    <3> QED  BY <3>2, <2>1, <2>2, <2>3, <2>4, <1>l
  <2>5. CASE k # n
    <3>1. k + 1 \in 1 .. n  BY <2>5, <1>0
    <3>2. after # NULL  BY <3>1, <2>5, <1>3, <1>s
    <3> QED  BY <3>2, <2>1, <2>2, <2>3, <2>5, <1>2, <1>l
  <2> QED  BY <2>4, <2>5
<1>9. \A i \in 1 .. n - 1 : g.line[t[i]].nextl = IF i = n - 1 THEN NULL ELSE t[i + 1]
  <2> SUFFICES ASSUME NEW i \in 1 .. n - 1
               PROVE  g.line[t[i]].nextl = IF i = n - 1 THEN NULL ELSE t[i + 1]
      OBVIOUS
  <2> DEFINE a == At(i)
  <2>0. /\ i \in Nat /\ i >= 1 /\ i <= n - 1 /\ a \in 1 .. n /\ a # k /\ t[i] = s[a]
        /\ t[i] \in LineId /\ t[i] # NULL /\ (i < k => a = i) /\ (i >= k => a = i + 1)
        BY <1>4
  <2> HIDE DEF a
  <2>1. /\ a \in Nat
        /\ i # n - 1 => i + 1 \in 1 .. n - 1
        /\ i # n - 1 => t[i + 1] = IF i + 1 < k THEN s[i + 1] ELSE s[i + 1 + 1]
    <3>1. i # n - 1 => i + 1 \in 1 .. n - 1  BY <2>0, <1>0
    <3> QED  BY <3>1, <2>0, <1>0, <1>1
  <2>2. CASE k # 1 /\ a = k - 1
    <3>1. before = s[a] /\ i + 1 = k /\ (i = n - 1 <=> k = n)  BY <2>0, <2>2, <1>0, <1>3
    <3>2. g.line[t[i]].nextl = after  BY <3>1, <2>0, <1>l
    <3>3. i # n - 1 => t[i + 1] = s[k + 1]  BY <3>1, <2>1, <1>0
    <3> QED  BY <3>1, <3>2, <3>3, <1>3
  <2>3. CASE ~(k # 1 /\ a = k - 1)
    <3>1. s[a] # before
      <4>1. CASE k = 1  BY <4>1, <2>0, <1>3
      <4>2. CASE k # 1
        <5>1. k - 1 \in 1 .. n /\ a # k - 1  BY <4>2, <2>3, <1>0
        <5> QED  BY <5>1, <4>2, <2>0, <1>3, <1>i
      <4> QED  BY <4>1, <4>2
    <3>2. g.line[t[i]].nextl = IF a = n THEN NULL ELSE s[a + 1]
      <4>1. f.line[s[a]].nextl = IF a = n THEN NULL ELSE s[a + 1]  BY <2>0, <1>2
      <4>2. g.line[s[a]].nextl = f.line[s[a]].nextl  BY <3>1, <2>0, <1>l
      <4> QED  BY <4>1, <4>2, <2>0
    <3>3. a = n <=> i = n - 1  BY <2>0, <2>1, <2>3, <1>0
    <3>4. i # n - 1 => t[i + 1] = s[a + 1]
      <4>1. i # n - 1 => (i + 1 < k /\ a = i) \/ (~(i + 1 < k) /\ a = i + 1)
            BY <2>0, <2>1, <2>3, <1>0
      <4> QED  BY <4>1, <2>1
    <3> QED  BY <3>2, <3>3, <3>4
  <2> QED  BY <2>2, <2>3
<1>10. \A i \in 1 .. n - 1 : g.line[t[i]].prevl = IF i = 1 THEN NULL ELSE t[i - 1]
  <2> SUFFICES ASSUME NEW i \in 1 .. n - 1
               PROVE  g.line[t[i]].prevl = IF i = 1 THEN NULL ELSE t[i - 1]
      OBVIOUS
  <2> DEFINE a == At(i)
  <2>0. /\ i \in Nat /\ i >= 1 /\ i <= n - 1 /\ a \in 1 .. n /\ a # k /\ t[i] = s[a]
        /\ t[i] \in LineId /\ t[i] # NULL /\ (i < k => a = i) /\ (i >= k => a = i + 1)
        BY <1>4
  <2> HIDE DEF a
  <2>1. /\ a \in Nat
        /\ i # 1 => i - 1 \in 1 .. n - 1
        /\ i # 1 => t[i - 1] = IF i - 1 < k THEN s[i - 1] ELSE s[i - 1 + 1]
    <3>1. i # 1 => i - 1 \in 1 .. n - 1  BY <2>0, <1>0
    <3> QED  BY <3>1, <2>0, <1>0, <1>1
  <2>2. CASE k # n /\ a = k + 1
    <3>1. after = s[a] /\ i = k /\ i - 1 < k  BY <2>0, <2>2, <1>0, <1>3
    <3>2. g.line[t[i]].prevl = before  BY <3>1, <2>0, <1>l
    <3> QED  BY <3>1, <3>2, <2>1, <1>3
  <2>3. CASE ~(k # n /\ a = k + 1)
    <3>1. s[a] # after
      <4>1. CASE k = n  BY <4>1, <2>0, <1>3
      <4>2. CASE k # n
        <5>1. k + 1 \in 1 .. n /\ a # k + 1  BY <4>2, <2>3, <1>0
        <5> QED  BY <5>1, <4>2, <2>0, <1>3, <1>i
      <4> QED  BY <4>1, <4>2
    <3>2. g.line[t[i]].prevl = IF a = 1 THEN NULL ELSE s[a - 1]
      <4>1. f.line[s[a]].prevl = IF a = 1 THEN NULL ELSE s[a - 1]  BY <2>0, <1>2
      <4>2. g.line[s[a]].prevl = f.line[s[a]].prevl  BY <3>1, <2>0, <1>l
      <4> QED  BY <4>1, <4>2, <2>0
    <3>3. a = 1 <=> i = 1  BY <2>0, <2>1, <2>3, <1>0
    <3>4. i # 1 => t[i - 1] = s[a - 1]
      <4>1. i # 1 => (i - 1 < k /\ a = i) \/ (~(i - 1 < k) /\ a = i + 1 /\ i - 1 + 1 = a - 1)
            BY <2>0, <2>1, <2>3, <1>0
      <4> QED  BY <4>1, <2>1
    <3> QED  BY <3>2, <3>3, <3>4
  <2> QED  BY <2>2, <2>3
<1>11. Len(t) \in Nat /\ Len(t) >= 1 /\ Len(t) < g.fresh
       /\ \A i \in 1 .. Len(t) : i \in 1 .. n - 1
  <2>1. Len(t) = n - 1 /\ n < f.fresh /\ g.fresh = f.fresh  BY <1>1, <1>2, <1>l
  <2>2. n - 1 < f.fresh  BY <2>1, <1>0
  <2> QED  BY <2>1, <2>2, <1>0
<1> QED  BY <1>1, <1>5, <1>6, <1>7, <1>8, <1>9, <1>10, <1>11 DEF Chain, t

\* One link of a struct set, as fb.c does it.
LEMMA OtherNext ==
    ASSUME NEW r \in LineStruct, NEW id
    PROVE  LET x == [r EXCEPT !.nextl = id]
           IN  /\ x.nextl = id /\ x.prevl = r.prevl /\ x.sog = r.sog /\ x.eog = r.eog
               /\ x.size = r.size /\ x.data_n = r.data_n /\ x.data = r.data /\ x.refs = r.refs
BY DEF LineStruct

\* The other one.
LEMMA OtherPrev ==
    ASSUME NEW r \in LineStruct, NEW id
    PROVE  LET x == [r EXCEPT !.prevl = id]
           IN  /\ x.prevl = id /\ x.nextl = r.nextl /\ x.sog = r.sog /\ x.eog = r.eog
               /\ x.size = r.size /\ x.data_n = r.data_n /\ x.data = r.data /\ x.refs = r.refs
BY DEF LineStruct

\* The pointers that cutl() writes in struct fb_s, beside the links of the lines.
Relinked(f, h, head, tail, here, scroll) ==
    [f EXCEPT !.line = h, !.headl = head, !.taill = tail, !.currentl = here, !.scroll = scroll]

\* They are all that changes.
LEMMA PointersPut ==
    ASSUME NEW f \in Frame, NEW h \in [LineId -> LineStruct], NEW head \in LineId,
           NEW tail \in LineId, NEW here \in LineId, NEW scroll \in Link
    PROVE  LET g == Relinked(f, h, head, tail, here, scroll)
           IN  /\ g \in Frame /\ g.line = h /\ g.bytes = f.bytes /\ g.alive = f.alive
               /\ g.fresh = f.fresh /\ g.headl = head /\ g.taill = tail
               /\ g.currentl = here /\ g.scroll = scroll /\ g.scroll_r = f.scroll_r
               /\ g.buffer_r = f.buffer_r /\ g.buffer_c = f.buffer_c /\ g.fault = f.fault
BY DEF Frame, Relinked

\* What cutl() has done to the links before it moves the cursor off the tail.
Detached(f) ==
    LET c == f.line[f.currentl]
    IN  IF c.nextl # NULL THEN Unlink(f)
        ELSE [f EXCEPT !.line[c.prevl].nextl = NULL, !.taill = c.prevl]

\* cutl() takes a line out of the links.
LEMMA DetachFrame ==
    ASSUME NEW ext, NEW f, Sound(f, ext), NEW before, NEW after,
           before = f.line[f.currentl].prevl, after = f.line[f.currentl].nextl,
           before \in f.alive \cup {NULL}, after \in f.alive \cup {NULL},
           before # NULL \/ after # NULL
    PROVE  LET g == Detached(f)
           IN  /\ Sound(g, ext) /\ TakenOut(f, g, f.currentl) /\ g.fault = f.fault
               /\ g.currentl = IF after = NULL THEN f.currentl ELSE after
               /\ g.scroll = IF before = NULL THEN after ELSE f.scroll
               /\ g.scroll_r = f.scroll_r /\ g.buffer_r = f.buffer_r /\ g.buffer_c = f.buffer_c
               /\ SameLines(f, g)
               /\ Unlink(f) = IF after = NULL THEN CursorUp(g) ELSE g
<1> DEFINE cur == f.currentl
           g == Detached(f)
           Next(j) == IF j = before THEN after ELSE f.line[j].nextl
           Prev(j) == IF j = after THEN before ELSE f.line[j].prevl
           Lines(h) == /\ h \in [LineId -> LineStruct]
                       /\ \A j \in LineId :
                             /\ h[j].nextl = Next(j) /\ h[j].prevl = Prev(j)
                             /\ h[j].sog = f.line[j].sog /\ h[j].eog = f.line[j].eog
                             /\ h[j].size = f.line[j].size /\ h[j].data_n = f.line[j].data_n
                             /\ h[j].data = f.line[j].data /\ h[j].refs = f.line[j].refs
           head == IF before = NULL THEN after ELSE f.headl
           tail == IF after = NULL THEN before ELSE f.taill
           here == IF after = NULL THEN f.currentl ELSE after
           scroll == IF before = NULL THEN after ELSE f.scroll
           Made(h) == g = Relinked(f, h, head, tail, here, scroll)
<1>0. /\ f \in Frame /\ f.line \in [LineId -> LineStruct] /\ f.bytes \in [LineId -> ByteArray]
      /\ cur \in LineId /\ cur \in f.alive /\ NULL \notin LineId
      /\ \A j \in LineId : f.line[j] \in LineStruct
      /\ before \in f.alive => before \in LineId
      /\ after \in f.alive => after \in LineId
      BY SoundFields, NULLAssumption DEF Sound
<1>1. \E lines : Lines(lines) /\ Made(lines)
  <2>1. CASE before = NULL
    <3> DEFINE lines == [f.line EXCEPT ![after] = [@ EXCEPT !.prevl = NULL]]
    <3>0. after \in LineId /\ after # NULL  BY <2>1, <1>0
    <3>a. f.line[after] \in LineStruct  BY <1>0, <3>0
    <3>b. [f.line[after] EXCEPT !.prevl = NULL] \in LineStruct  BY <3>a DEF LineStruct, Link
    <3>1. lines \in [LineId -> LineStruct]  BY <1>0, <3>0, <3>b
    <3>2. \A j \in LineId : lines[j] = IF j = after THEN [f.line[after] EXCEPT !.prevl = NULL]
                                       ELSE f.line[j]
          BY <1>0, <3>0
    <3>3. g = [f EXCEPT !.line = lines, !.headl = after, !.taill = f.taill, !.currentl = after,
                        !.scroll = after]
          BY <2>1, <3>0, <1>0 DEF Detached, Unlink, Frame
    <3>5. Made(lines)  BY <2>1, <3>0, <3>3 DEF Relinked
    <3> HIDE DEF lines, g
    <3>4. Lines(lines)
      <4> SUFFICES ASSUME NEW j \in LineId
                   PROVE  /\ lines[j].nextl = Next(j) /\ lines[j].prevl = Prev(j)
                          /\ lines[j].sog = f.line[j].sog /\ lines[j].eog = f.line[j].eog
                          /\ lines[j].size = f.line[j].size
                          /\ lines[j].data_n = f.line[j].data_n
                          /\ lines[j].data = f.line[j].data /\ lines[j].refs = f.line[j].refs
          BY <3>1
      <4>1. CASE j = after
        <5>1. lines[j] = [f.line[after] EXCEPT !.prevl = NULL]  BY <4>1, <3>2
        <5>2. Next(j) = f.line[after].nextl /\ Prev(j) = NULL
              BY <4>1, <2>1, <3>0, <1>0
        <5> QED  BY <5>1, <5>2, <3>a, <4>1 DEF LineStruct
      <4>2. CASE j # after
        <5>1. Next(j) = f.line[j].nextl /\ Prev(j) = f.line[j].prevl
              BY <4>2, <2>1, <3>0, <1>0
        <5> QED  BY <4>2, <5>1, <3>2
      <4> QED  BY <4>1, <4>2
    <3> HIDE DEF Lines, Made
    <3> QED  BY <3>4, <3>5
  <2>2. CASE before # NULL /\ after # NULL
    <3> DEFINE a == [f.line EXCEPT ![before] = [@ EXCEPT !.nextl = after]]
               lines == [a EXCEPT ![after] = [@ EXCEPT !.prevl = before]]
    <3>0. after \in LineId /\ before \in LineId  BY <2>2, <1>0
    <3>a. a \in [LineId -> LineStruct]
      <4>1. after \in Link /\ f.line[before] \in LineStruct  BY <3>0, <1>0 DEF Link
      <4>2. PICK struct \in LineStruct : struct = [f.line[before] EXCEPT !.nextl = after]
            BY <4>1 DEF LineStruct
      <4>3. a = [f.line EXCEPT ![before] = struct]  BY <4>2
      <4> QED  BY <4>3, <3>0, <1>0
    <3>1. \A j \in LineId : a[j] = IF j = before THEN [f.line[before] EXCEPT !.nextl = after]
                                   ELSE f.line[j]
          BY <1>0, <3>0
    <3>2. \A j \in LineId : /\ a[j] \in LineStruct
                            /\ a[j].nextl = Next(j) /\ a[j].prevl = f.line[j].prevl
                            /\ a[j].sog = f.line[j].sog /\ a[j].eog = f.line[j].eog
                            /\ a[j].size = f.line[j].size /\ a[j].data_n = f.line[j].data_n
                            /\ a[j].data = f.line[j].data /\ a[j].refs = f.line[j].refs
      <4> HIDE DEF a
      <4> TAKE j \in LineId
      <4>1. a[j] \in LineStruct  BY <3>a
      <4>2. CASE j = before
        <5>1. a[j] = [f.line[before] EXCEPT !.nextl = after]  BY <4>2, <3>1, <3>0
        <5>6. Next(j) = after  BY <4>2
        <5>2. f.line[before] \in LineStruct  BY <3>0, <1>0
        <5> HIDE DEF Next
        <5>3. PICK r \in LineStruct : r = f.line[before]  BY <5>2
        <5>4. a[j] = [r EXCEPT !.nextl = after]  BY <5>1, <5>3
        <5>5. /\ a[j].nextl = after /\ a[j].prevl = r.prevl
              /\ a[j].sog = r.sog /\ a[j].eog = r.eog /\ a[j].size = r.size
              /\ a[j].data_n = r.data_n /\ a[j].data = r.data /\ a[j].refs = r.refs
          <6> HIDE DEF Lines, Made
          <6> QED  BY <5>4, OtherNext
        <5> QED  BY <4>1, <4>2, <5>6, <5>3, <5>5
      <4>3. CASE j # before  BY <4>1, <4>3, <3>1
      <4> QED  BY <4>2, <4>3
    <3>3. g = [f EXCEPT !.line = lines, !.headl = f.headl, !.taill = f.taill,
                        !.currentl = after, !.scroll = f.scroll]
          BY <2>2, <3>0, <1>0 DEF Detached, Unlink, Frame
    <3> HIDE DEF a
    <3>b. lines \in [LineId -> LineStruct]
      <4>1. before \in Link /\ a[after] \in LineStruct  BY <3>0, <3>a DEF Link
      <4>2. PICK struct \in LineStruct : struct = [a[after] EXCEPT !.prevl = before]
            BY <4>1 DEF LineStruct
      <4>3. lines = [a EXCEPT ![after] = struct]  BY <4>2
      <4> QED  BY <4>3, <3>0, <3>a
    <3>4. \A j \in LineId : lines[j] = IF j = after THEN [a[after] EXCEPT !.prevl = before]
                                       ELSE a[j]
          BY <3>0, <3>a
    <3> HIDE DEF lines, g
    <3>5. Lines(lines)
      <4> SUFFICES ASSUME NEW j \in LineId
                   PROVE  /\ lines[j].nextl = Next(j) /\ lines[j].prevl = Prev(j)
                          /\ lines[j].sog = f.line[j].sog /\ lines[j].eog = f.line[j].eog
                          /\ lines[j].size = f.line[j].size
                          /\ lines[j].data_n = f.line[j].data_n
                          /\ lines[j].data = f.line[j].data /\ lines[j].refs = f.line[j].refs
          BY <3>b
      <4> HIDE DEF Next
      <4>1. CASE j = after
        <5>1. lines[j] = [a[after] EXCEPT !.prevl = before] /\ Prev(j) = before
              BY <4>1, <3>4, <2>2, <3>0
        <5>2. a[after] \in LineStruct  BY <3>0, <3>a
        <5> HIDE DEF Prev
        <5>3. PICK r \in LineStruct : r = a[after]  BY <5>2
        <5>4. lines[j] = [r EXCEPT !.prevl = before]  BY <5>1, <5>3
        <5>5. /\ lines[j].prevl = before /\ lines[j].nextl = r.nextl
              /\ lines[j].sog = r.sog /\ lines[j].eog = r.eog /\ lines[j].size = r.size
              /\ lines[j].data_n = r.data_n /\ lines[j].data = r.data /\ lines[j].refs = r.refs
              BY <5>4, OtherPrev
        <5>6. /\ r.nextl = Next(j) /\ r.sog = f.line[j].sog /\ r.eog = f.line[j].eog
              /\ r.size = f.line[j].size /\ r.data_n = f.line[j].data_n
              /\ r.data = f.line[j].data /\ r.refs = f.line[j].refs
              BY <4>1, <5>3, <3>2
        <5> QED  BY <5>1, <5>5, <5>6
      <4>2. CASE j # after  BY <4>2, <3>2, <3>4
      <4> QED  BY <4>1, <4>2
    <3>6. Made(lines)  BY <2>2, <3>3 DEF Relinked
    <3> HIDE DEF Lines, Made
    <3> QED  BY <3>5, <3>6
  <2>3. CASE after = NULL
    <3> DEFINE lines == [f.line EXCEPT ![before] = [@ EXCEPT !.nextl = NULL]]
    <3>0. before \in LineId /\ before # NULL  BY <2>3, <1>0
    <3>a. f.line[before] \in LineStruct  BY <1>0, <3>0
    <3>b. [f.line[before] EXCEPT !.nextl = NULL] \in LineStruct  BY <3>a DEF LineStruct, Link
    <3>1. lines \in [LineId -> LineStruct]  BY <1>0, <3>0, <3>b
    <3>2. \A j \in LineId : lines[j] = IF j = before THEN [f.line[before] EXCEPT !.nextl = NULL]
                                       ELSE f.line[j]
          BY <1>0, <3>0
    <3>3. g = [f EXCEPT !.line = lines, !.headl = f.headl, !.taill = before,
                        !.currentl = f.currentl, !.scroll = f.scroll]
          BY <2>3, <3>0, <1>0 DEF Detached, Frame
    <3>5. Made(lines)  BY <2>3, <3>0, <3>3 DEF Relinked
    <3> HIDE DEF lines, g
    <3>4. Lines(lines)
      <4> SUFFICES ASSUME NEW j \in LineId
                   PROVE  /\ lines[j].nextl = Next(j) /\ lines[j].prevl = Prev(j)
                          /\ lines[j].sog = f.line[j].sog /\ lines[j].eog = f.line[j].eog
                          /\ lines[j].size = f.line[j].size
                          /\ lines[j].data_n = f.line[j].data_n
                          /\ lines[j].data = f.line[j].data /\ lines[j].refs = f.line[j].refs
          BY <3>1
      <4>1. CASE j = before
        <5>1. lines[j] = [f.line[before] EXCEPT !.nextl = NULL]  BY <4>1, <3>2
        <5>2. Next(j) = NULL /\ Prev(j) = f.line[before].prevl
              BY <4>1, <2>3, <3>0, <1>0
        <5> QED  BY <5>1, <5>2, <3>a, <4>1 DEF LineStruct
      <4>2. CASE j # before
        <5>1. Next(j) = f.line[j].nextl /\ Prev(j) = f.line[j].prevl
              BY <4>2, <2>3, <3>0, <1>0
        <5> QED  BY <4>2, <5>1, <3>2
      <4> QED  BY <4>1, <4>2
    <3> HIDE DEF Lines, Made
    <3> QED  BY <3>4, <3>5
  <2> QED  BY <2>1, <2>2, <2>3
<1>p. PICK lines : Lines(lines) /\ Made(lines)  BY <1>1
<1>2. Unlink(f) = IF after = NULL THEN CursorUp(g) ELSE g
      BY DEF Unlink, Detached
<1> HIDE DEF g
<1>3. /\ head \in LineId /\ tail \in LineId /\ here \in LineId /\ scroll \in Link
      /\ head \in f.alive /\ tail \in f.alive /\ here \in f.alive /\ scroll \in f.alive \cup {NULL}
      BY <1>0 DEF Sound, Frame, Link
<1>4. /\ g \in Frame /\ g.line = lines /\ g.bytes = f.bytes /\ g.alive = f.alive
      /\ g.fresh = f.fresh /\ g.headl = head /\ g.taill = tail
      /\ g.currentl = here /\ g.scroll = scroll /\ g.scroll_r = f.scroll_r
      /\ g.buffer_r = f.buffer_r /\ g.buffer_c = f.buffer_c /\ g.fault = f.fault
  <2> HIDE DEF head, tail, here, scroll
  <2>1. lines \in [LineId -> LineStruct]  BY <1>p
  <2>2. Made(lines)  BY <1>p
  <2> DEFINE h == Relinked(f, lines, head, tail, here, scroll)
  <2>3. f \in Frame /\ head \in LineId /\ tail \in LineId /\ here \in LineId /\ scroll \in Link
        BY <1>0, <1>3
  <2>4. /\ h \in Frame /\ h.line = lines /\ h.bytes = f.bytes /\ h.alive = f.alive
        /\ h.fresh = f.fresh /\ h.headl = head /\ h.taill = tail
        /\ h.currentl = here /\ h.scroll = scroll /\ h.scroll_r = f.scroll_r
        /\ h.buffer_r = f.buffer_r /\ h.buffer_c = f.buffer_c /\ h.fault = f.fault
        BY <2>1, <2>3, PointersPut
  <2>5. g = h  BY <2>2
  <2> HIDE DEF h, Lines, Made
  <2> QED  BY <2>4, <2>5
<1>5. \A j \in LineId : f.line[j].data = j /\ Shaped(View(f, j))  BY DEF Sound
<1>6. \A j \in LineId : View(g, j) = View(f, j) /\ g.line[j].refs = f.line[j].refs
                        /\ g.line[j].data = j
  <2> SUFFICES ASSUME NEW j \in LineId
               PROVE  View(g, j) = View(f, j) /\ g.line[j].refs = f.line[j].refs
                      /\ g.line[j].data = j
      OBVIOUS
  <2>1. /\ lines[j].size = f.line[j].size /\ lines[j].sog = f.line[j].sog
        /\ lines[j].eog = f.line[j].eog /\ lines[j].data_n = f.line[j].data_n
        /\ lines[j].data = f.line[j].data /\ lines[j].refs = f.line[j].refs
        BY <1>p
  <2>2. g.line[j] = lines[j] /\ g.bytes = f.bytes  BY <1>4
  <2> QED  BY <2>1, <2>2, <1>5 DEF View
<1>7. Sound(g, ext)
  <2>1. /\ ext.refs \in [LineId -> Nat] /\ \A id \in LineId : id >= f.fresh => ext.refs[id] = 0
        /\ ext.gone \subseteq 1 .. f.fresh - 1 /\ f.alive = (1 .. f.fresh - 1) \ ext.gone
        BY DEF Sound
  <2> QED  BY <2>1, <1>3, <1>4, <1>5, <1>6 DEF Sound
<1>8. TakenOut(f, g, f.currentl)
  <2>1. \A j \in LineId : /\ g.line[j].nextl = IF j = before THEN after ELSE f.line[j].nextl
                          /\ g.line[j].prevl = IF j = after THEN before ELSE f.line[j].prevl
    <3> TAKE j \in LineId
    <3>1. lines[j].nextl = Next(j) /\ lines[j].prevl = Prev(j)  BY <1>p
    <3>2. g.line = lines  BY <1>4
    <3> HIDE DEF Lines, Made
    <3> QED  BY <3>1, <3>2
  <2>2. /\ g.alive = f.alive /\ g.fresh = f.fresh
        /\ g.headl = IF before = NULL THEN after ELSE f.headl
        /\ g.taill = IF after = NULL THEN before ELSE f.taill
        BY <1>4
  <2>3. f.line[f.currentl].prevl = before /\ f.line[f.currentl].nextl = after  OBVIOUS
  <2> HIDE DEF Lines, Made, Next, Prev, head, tail, here, scroll
  <2> QED  BY <2>1, <2>2, <2>3 DEF TakenOut
<1> QED  BY <1>2, <1>4, <1>6, <1>7, <1>8 DEF g, SameLines

-----------------------------------------------------------------------------
(* The list of the lines, the cursor in it, and the first row on the screen *)

\* The cursor of f is at row buffer_r of s, and the first line on the screen is
\* one of s, or there is none.
OnList(f, s) ==
    /\ f.buffer_r \in 0 .. Len(s) - 1 /\ f.currentl = s[f.buffer_r + 1]
    /\ f.scroll = NULL \/ \E i \in 1 .. Len(s) : f.scroll = s[i]

\* The lines of f are s.
Tracks(f, s, ext) == Chain(f, s) /\ Counted(f, s, ext) /\ OnList(f, s)

\* What it means that a sequence tracks a framebuffer.
LEMMA TracksFields ==
    ASSUME NEW ext, NEW f, NEW s, Tracks(f, s, ext)
    PROVE  \E k \in 1 .. Len(s) :
              /\ k \in Nat /\ k = f.buffer_r + 1 /\ f.buffer_r = k - 1 /\ f.currentl = s[k]
              /\ f.line[s[k]].nextl = IF k = Len(s) THEN NULL ELSE s[k + 1]
              /\ f.line[s[k]].prevl = IF k = 1 THEN NULL ELSE s[k - 1]
<1>1. Len(s) \in Nat /\ f.buffer_r \in 0 .. Len(s) - 1 /\ f.currentl = s[f.buffer_r + 1]
      BY ChainFacts DEF Tracks, OnList
<1>2. PICK k \in 1 .. Len(s) : k = f.buffer_r + 1  BY <1>1
<1>3. k \in Nat /\ f.buffer_r = k - 1  BY <1>1, <1>2
<1>4. /\ f.line[s[k]].nextl = IF k = Len(s) THEN NULL ELSE s[k + 1]
      /\ f.line[s[k]].prevl = IF k = 1 THEN NULL ELSE s[k - 1]
      BY DEF Tracks, Chain
<1> QED  BY <1>1, <1>2, <1>3, <1>4

\* Where the links are the same, the list is.
LEMMA SameListChain ==
    ASSUME NEW ext, NEW f, NEW g, SameList(f, g), NEW s
    PROVE  /\ Chain(f, s) => Chain(g, s)
           /\ f.alive \subseteq LineId /\ Counted(f, s, ext) => Counted(g, s, ext)
<1>1. ASSUME Chain(f, s) PROVE Chain(g, s)
  <2>1. \A k \in 1 .. Len(s) : s[k] \in LineId  BY <1>1, ChainFacts
  <2>2. \A k \in 1 .. Len(s) : /\ g.line[s[k]].nextl = f.line[s[k]].nextl
                               /\ g.line[s[k]].prevl = f.line[s[k]].prevl
        BY <2>1 DEF SameList
  <2>3. g.alive = f.alive /\ g.fresh = f.fresh /\ g.headl = f.headl /\ g.taill = f.taill
        BY DEF SameList
  <2> QED  BY <1>1, <2>2, <2>3 DEF Chain
<1>2. f.alive \subseteq LineId /\ Counted(f, s, ext) => Counted(g, s, ext)
      BY DEF Counted, SameList
<1> QED  BY <1>1, <1>2

\* An edit of a line leaves the list alone.
LEMMA EditsTracks ==
    ASSUME NEW ext, NEW f, Sound(f, ext), NEW g, Edits(f, g, ext), SameRow(f, g), NEW s, Tracks(f,
           s, ext)
    PROVE  Tracks(g, s, ext)
BY SoundFields, SameListChain DEF Edits, SameRow, SameScroll, Tracks, OnList

\* The first row on the screen.
Scrolled(f, id, r) == [f EXCEPT !.scroll = id, !.scroll_r = r]

\* Scrolling changes neither the lines nor the list.
LEMMA ScrolledFrame ==
    ASSUME NEW ext, NEW f, Sound(f, ext), NEW id \in f.alive \cup {NULL}, NEW r \in Int
    PROVE  LET g == Scrolled(f, id, r)
           IN  /\ Sound(g, ext) /\ SameList(f, g) /\ SameRow(f, g)
               /\ g.scroll = id /\ g.scroll_r = r
               /\ g.buffer_c = f.buffer_c /\ g.fault = f.fault /\ SameLines(f, g)
<1> DEFINE g == Scrolled(f, id, r)
<1>0. f \in Frame /\ id \in Link  BY SoundFields DEF Sound, Link
<1>1. /\ g \in Frame /\ g.line = f.line /\ g.bytes = f.bytes /\ g.alive = f.alive
      /\ g.fresh = f.fresh /\ g.headl = f.headl /\ g.taill = f.taill
      /\ g.currentl = f.currentl /\ g.scroll = id /\ g.scroll_r = r
      /\ g.buffer_r = f.buffer_r /\ g.buffer_c = f.buffer_c /\ g.fault = f.fault
      BY <1>0 DEF Frame, Scrolled
<1> HIDE DEF g
<1>2. \A j \in LineId : View(g, j) = View(f, j)  BY <1>1 DEF View
<1>3. Sound(g, ext)  BY <1>1, <1>2 DEF Sound
<1>4. SameList(f, g) /\ SameRow(f, g)  BY <1>1 DEF SameList, SameRow
<1>5. SameLines(f, g)  BY <1>1, <1>2 DEF SameLines
<1> QED  BY <1>1, <1>3, <1>4, <1>5 DEF g

\* A reference given up, and a column.
Released(f, id, c) == [f EXCEPT !.buffer_c = c, !.line[id].refs = @ - 1]

\* cutl() drops the reference of the line it takes out.
LEMMA ReleasedFrame ==
    ASSUME NEW ext, NEW f, Sound(f, ext), NEW id \in LineId, f.line[id].refs > 0, NEW c \in Nat
    PROVE  LET g == Released(f, id, c)
           IN  /\ Sound(g, ext) /\ SameRow(f, g) /\ SameScroll(f, g)
               /\ g.buffer_c = c /\ g.fault = f.fault
               /\ g.alive = f.alive /\ g.fresh = f.fresh
               /\ g.headl = f.headl /\ g.taill = f.taill
               /\ \A j \in LineId : /\ View(g, j) = View(f, j)
                                    /\ g.line[j].prevl = f.line[j].prevl
                                    /\ g.line[j].nextl = f.line[j].nextl
                                    /\ j # id => g.line[j].refs = f.line[j].refs
               /\ g.line[id].refs = f.line[id].refs - 1
<1> DEFINE g == Released(f, id, c)
<1>0. /\ f \in Frame /\ f.line \in [LineId -> LineStruct] /\ f.line[id] \in LineStruct
      /\ f.line[id].refs \in Nat
  <2>1. f \in Frame  BY DEF Sound
  <2> QED  BY <2>1, SoundFields, StructFields
<1>1. PICK refs \in Nat : refs = f.line[id].refs - 1  BY <1>0
<1>2. PICK struct \in LineStruct : struct = [f.line[id] EXCEPT !.refs = refs]
      BY <1>0 DEF LineStruct
<1>3. /\ struct.prevl = f.line[id].prevl /\ struct.nextl = f.line[id].nextl /\ struct.refs = refs
      /\ struct.sog = f.line[id].sog /\ struct.eog = f.line[id].eog
      /\ struct.size = f.line[id].size /\ struct.data_n = f.line[id].data_n
      /\ struct.data = f.line[id].data
      BY <1>0, <1>2 DEF LineStruct
<1>4. PICK lines \in [LineId -> LineStruct] : lines = [f.line EXCEPT ![id] = struct]
      BY <1>0
<1>5. g = [f EXCEPT !.buffer_c = c, !.line = lines]
      BY <1>0, <1>1, <1>2, <1>4 DEF Released, Frame
<1>6. lines[id] = struct /\ \A j \in LineId : j # id => lines[j] = f.line[j]
      BY <1>0, <1>4
<1> HIDE DEF g
<1>7. /\ g \in Frame /\ g.line = lines /\ g.bytes = f.bytes /\ g.alive = f.alive
      /\ g.fresh = f.fresh /\ g.headl = f.headl /\ g.taill = f.taill
      /\ g.currentl = f.currentl /\ g.scroll = f.scroll /\ g.scroll_r = f.scroll_r
      /\ g.buffer_r = f.buffer_r /\ g.buffer_c = c /\ g.fault = f.fault
      BY <1>0, <1>4, <1>5 DEF Frame
<1>8. \A j \in LineId : f.line[j].data = j /\ Shaped(View(f, j))  BY DEF Sound
<1>9. ASSUME NEW j \in LineId
      PROVE  /\ View(g, j) = View(f, j) /\ g.line[j].data = j
             /\ g.line[j].prevl = f.line[j].prevl /\ g.line[j].nextl = f.line[j].nextl
             /\ j # id => g.line[j].refs = f.line[j].refs
  <2>1. CASE j = id  BY <2>1, <1>3, <1>6, <1>7, <1>8 DEF View
  <2>2. CASE j # id  BY <2>2, <1>6, <1>7, <1>8 DEF View
  <2> QED  BY <2>1, <2>2
<1>10. Sound(g, ext)  BY <1>7, <1>8, <1>9 DEF Sound
<1>11. g.line[id].refs = f.line[id].refs - 1  BY <1>1, <1>3, <1>6, <1>7
<1> QED  BY <1>7, <1>9, <1>10, <1>11 DEF g, SameRow, SameScroll

\* cursor_up() and cursor_down() in a list.
LEMMA UpDownFrame ==
    ASSUME NEW ext, NEW f, Sound(f, ext), ~f.fault, NEW t, Chain(f, t), NEW i \in 1 .. Len(t),
           f.currentl = t[i], f.buffer_r = i - 1, NEW g, NEW j \in Int,
           \/ g = CursorUp(f) /\ j = i - 1
           \/ g = CursorDown(f) /\ j = i + 1
    PROVE  /\ Edits(f, g, ext) /\ SameTexts(f, g)
           /\ ~g.fault => j \in 1 .. Len(t) /\ g.currentl = t[j] /\ g.buffer_r = j - 1
           /\ j \in 1 .. Len(t) =>
                 /\ g.buffer_c = Clamp(f, t[j]) /\ Elsewhere(f, g, t[j])
                 /\ g.currentl = t[j] /\ g.buffer_r = j - 1
                 /\ Good(View(f, t[j])) =>
                       ~g.fault /\ View(g, t[j]) = MoveGap(View(f, t[j]), Clamp(f, t[j]))
<1> DEFINE id == IF j \in 1 .. Len(t) THEN t[j] ELSE NULL
<1>0. /\ Len(t) \in Nat /\ i \in Nat /\ f.buffer_r \in Int
      /\ \A k \in 1 .. Len(t) : t[k] \in LineId /\ t[k] # NULL
      BY ChainFacts, SoundFields
<1>1. /\ f.line[t[i]].nextl = IF i = Len(t) THEN NULL ELSE t[i + 1]
      /\ f.line[t[i]].prevl = IF i = 1 THEN NULL ELSE t[i - 1]
      /\ \A k \in 1 .. Len(t) : t[k] \in f.alive
      BY DEF Chain
<1>2. g = EnterLine(f, id, j - 1)
  <2>1. CASE g = CursorUp(f) /\ j = i - 1
    <3>1. f.buffer_r - 1 = j - 1  BY <2>1, <1>0
    <3>2. f.line[f.currentl].prevl = id
      <4>1. i = 1 => ~(j \in 1 .. Len(t))  BY <2>1, <1>0
      <4>2. i # 1 => j \in 1 .. Len(t)  BY <2>1, <1>0
      <4> QED  BY <4>1, <4>2, <2>1, <1>1
    <3> QED  BY <3>1, <3>2, <2>1, UpDownEnter
  <2>2. CASE g = CursorDown(f) /\ j = i + 1
    <3>1. f.buffer_r + 1 = j - 1  BY <2>2, <1>0
    <3>2. f.line[f.currentl].nextl = id
      <4>1. i = Len(t) => ~(j \in 1 .. Len(t))  BY <2>2, <1>0
      <4>2. i # Len(t) => j \in 1 .. Len(t)  BY <2>2, <1>0
      <4> QED  BY <4>1, <4>2, <2>2, <1>1
    <3> QED  BY <3>1, <3>2, <2>2, UpDownEnter
  <2> QED  BY <2>1, <2>2
<1>3. id \in Link  BY <1>0 DEF Link
<1>4. PICK r \in Int : r = j - 1  OBVIOUS
<1>5. Usable(f, id) <=> j \in 1 .. Len(t)  BY <1>0, <1>1 DEF Usable
<1> HIDE DEF id
<1>6. /\ Edits(f, g, ext) /\ SameTexts(f, g)
      /\ ~Usable(f, id) => Faulted(f, g, ext)
      /\ Usable(f, id) => /\ id \in f.alive /\ g.currentl = id /\ g.buffer_r = r
                          /\ g.buffer_c = Clamp(f, id) /\ Elsewhere(f, g, id)
                          /\ Good(View(f, id)) =>
                                ~g.fault /\ View(g, id) = MoveGap(View(f, id), Clamp(f, id))
      BY <1>2, <1>3, <1>4, EnterFrame
<1>7. j \in 1 .. Len(t) => id = t[j]  BY DEF id
<1> QED  BY <1>4, <1>5, <1>6, <1>7 DEF Faulted

\* cutl() up to the reference: the list without the current line, the cursor on
\* a neighbour of it.  At the tail, with the line not the first on the screen,
\* nothing is undefined.
LEMMA CutLinks ==
    ASSUME NEW ext, NEW f, Sound(f, ext), ~f.fault, NEW s, Tracks(f, s, ext), Len(s) >= 2,
           NEW k \in 1 .. Len(s), f.buffer_r = k - 1, f.currentl = s[k]
    PROVE  LET t == RemoveAt(s, k)
               g == LeaveScroll(Unlink(f), s[k])
           IN  /\ Sound(g, ext) /\ SameTexts(f, g)
               /\ ~g.fault => /\ Chain(g, t) /\ OnList(g, t) /\ g.alive = f.alive
                              /\ \A j \in LineId : g.line[j].refs = f.line[j].refs
               /\ k = Len(s) /\ f.scroll # s[k] /\ Good(View(f, s[k - 1])) =>
                     /\ ~g.fault /\ SameScroll(f, g)
                     /\ g.buffer_r = k - 2 /\ g.currentl = s[k - 1]
                     /\ g.buffer_c = Clamp(f, s[k - 1]) /\ Elsewhere(f, g, s[k - 1])
                     /\ View(g, s[k - 1]) = MoveGap(View(f, s[k - 1]), Clamp(f, s[k - 1]))
<1> DEFINE n == Len(s)
           line == s[k]
           before == f.line[line].prevl
           after == f.line[line].nextl
           t == RemoveAt(s, k)
           u == Detached(f)
           h == Unlink(f)
           g == LeaveScroll(h, line)
<1>0. /\ n \in Nat /\ n >= 2 /\ k \in Nat /\ k >= 1 /\ k <= n /\ s \in Seq(LineId)
      /\ f.fresh \in Int /\ line = f.currentl
      BY ChainFacts, SoundFields DEF Tracks
<1>1. /\ Chain(f, s) /\ OnList(f, s)
      /\ \A i \in 1 .. n : s[i] \in LineId /\ s[i] # NULL /\ s[i] \in f.alive
      /\ \A i, j \in 1 .. n : s[i] = s[j] => i = j
      /\ before = IF k = 1 THEN NULL ELSE s[k - 1]
      /\ after = IF k = n THEN NULL ELSE s[k + 1]
  <2>1. Chain(f, s) /\ OnList(f, s)  BY DEF Tracks
  <2>2. \A i \in 1 .. n : s[i] \in LineId /\ s[i] # NULL  BY <2>1, ChainFacts
  <2>3. /\ \A i \in 1 .. n : s[i] \in f.alive
        /\ \A i, j \in 1 .. n : s[i] = s[j] => i = j
        /\ f.line[s[k]].prevl = IF k = 1 THEN NULL ELSE s[k - 1]
        /\ f.line[s[k]].nextl = IF k = n THEN NULL ELSE s[k + 1]
        BY <2>1 DEF Chain
  <2> QED  BY <2>1, <2>2, <2>3
<1>2. /\ k # 1 => k - 1 \in 1 .. n /\ k - 1 # k
      /\ k # n => k + 1 \in 1 .. n /\ k + 1 # k
      BY <1>0
<1>3. /\ before \in f.alive \cup {NULL} /\ after \in f.alive \cup {NULL}
      /\ before # line /\ after # line
      /\ before = NULL <=> k = 1
      /\ after = NULL <=> k = n
      BY <1>1, <1>2
<1>4. before # NULL \/ after # NULL  BY <1>0, <1>3
<1>5. /\ Sound(u, ext) /\ TakenOut(f, u, line) /\ ~u.fault
      /\ u.currentl = IF after = NULL THEN line ELSE after
      /\ u.scroll = IF before = NULL THEN after ELSE f.scroll
      /\ u.scroll_r = f.scroll_r /\ u.buffer_r = k - 1 /\ u.buffer_c = f.buffer_c
      /\ \A j \in LineId : View(u, j) = View(f, j) /\ u.line[j].refs = f.line[j].refs
      /\ h = IF after = NULL THEN CursorUp(u) ELSE u
  <2>1. /\ Sound(u, ext) /\ TakenOut(f, u, f.currentl) /\ u.fault = f.fault
        /\ u.currentl = IF after = NULL THEN f.currentl ELSE after
        /\ u.scroll = IF before = NULL THEN after ELSE f.scroll
        /\ u.scroll_r = f.scroll_r /\ u.buffer_r = f.buffer_r /\ u.buffer_c = f.buffer_c
        /\ SameLines(f, u) /\ h = IF after = NULL THEN CursorUp(u) ELSE u
        BY <1>0, <1>3, <1>4, DetachFrame
  <2> HIDE DEF u, h, before, after
  <2> QED  BY <2>1, <1>0 DEF SameLines
<1>6. Chain(u, t)  BY <1>0, <1>1, <1>5, ChainRemove
<1>7. Len(t) = n - 1 /\ \A i \in 1 .. n - 1 : t[i] = IF i < k THEN s[i] ELSE s[i + 1]
      BY <1>0, RemoveAtValue
<1>8. /\ u.alive = f.alive /\ u.line[line].prevl = before
      /\ after = NULL => u.line[line].nextl = NULL
      BY <1>0, <1>1, <1>3, <1>5 DEF TakenOut
<1>9. u.scroll = NULL \/ u.scroll = line \/ \E i \in 1 .. n - 1 : u.scroll = t[i]
  <2>1. CASE k = 1
    <3>1. u.scroll = s[2] /\ 1 \in 1 .. n - 1 /\ 1 + 1 = 2  BY <2>1, <1>0, <1>1, <1>3, <1>5
    <3> QED  BY <3>1, <2>1, <1>7
  <2>2. CASE k # 1
    <3>1. u.scroll = f.scroll  BY <2>2, <1>3, <1>5
    <3>2. CASE f.scroll = NULL  BY <3>1, <3>2
    <3>3. ASSUME NEW i \in 1 .. n, f.scroll = s[i]
          PROVE  f.scroll = line \/ \E m \in 1 .. n - 1 : f.scroll = t[m]
      <4>0. i \in Nat  BY <1>0
      <4>1. CASE i < k
        <5>1. i \in 1 .. n - 1  BY <4>0, <4>1, <1>0
        <5> QED  BY <5>1, <4>1, <3>3, <1>7
      <4>2. CASE i = k  BY <4>2, <3>3
      <4>3. CASE i > k
        <5>1. PICK m \in 1 .. n - 1 : m + 1 = i /\ ~(m < k)
          <6>1. i - 1 \in 1 .. n - 1 /\ i - 1 + 1 = i /\ ~(i - 1 < k)  BY <4>0, <4>3, <1>0
          <6> QED  BY <6>1
        <5> QED  BY <5>1, <3>3, <1>7
      <4> QED  BY <4>0, <4>1, <4>2, <4>3, <1>0
    <3> QED  BY <3>1, <3>2, <3>3, <1>1 DEF OnList
  <2> QED  BY <2>1, <2>2
<1> HIDE DEF t, u, n, h, g, before, after, line
<1>s. SameTexts(f, u)  BY <1>5 DEF SameTexts
\* Nothing but the cursor differs between u and h.
<1>10. /\ Edits(u, h, ext) /\ SameTexts(u, h)
       /\ ~h.fault => /\ h.buffer_r = (IF k = n THEN k - 2 ELSE k - 1)
                      /\ h.buffer_r \in 0 .. n - 2 /\ h.currentl = t[h.buffer_r + 1]
       /\ k = n => /\ h.buffer_c = Clamp(u, before) /\ Elsewhere(u, h, before)
                   /\ h.buffer_r = k - 2 /\ h.currentl = before
                   /\ Good(View(u, before)) =>
                         /\ ~h.fault
                         /\ View(h, before) = MoveGap(View(u, before), Clamp(u, before))
  <2>1. CASE k # n
    <3>1. h = u /\ u.currentl = after /\ after = s[k + 1]  BY <2>1, <1>1, <1>3, <1>5
    <3>2. k \in 1 .. n - 1 /\ ~(k < k) /\ k - 1 \in 0 .. n - 2 /\ k - 1 + 1 = k
          BY <2>1, <1>0
    <3>3. t[k] = s[k + 1]  BY <3>2, <1>7
    <3>4. Edits(u, u, ext) /\ SameTexts(u, u)  BY <1>5, EditsReflexive DEF SameTexts
    <3> QED  BY <3>1, <3>2, <3>3, <3>4, <2>1, <1>5
  <2>2. CASE k = n
    <3>1. h = CursorUp(u) /\ u.currentl = line /\ before = s[k - 1] /\ k # 1
          BY <2>2, <1>0, <1>1, <1>3, <1>5
    <3>2. /\ k - 1 \in 1 .. n - 1 /\ k - 1 < k /\ k - 2 \in Int /\ k - 2 \in 0 .. n - 2
          /\ k - 2 + 1 = k - 1 /\ k - 1 - 1 = k - 2
          BY <2>2, <1>0
    <3>3. t[k - 1] = before  BY <3>1, <3>2, <1>7
    <3>4. h = EnterLine(u, before, k - 2)  BY <3>1, <3>2, <1>5, <1>8, UpDownEnter
    <3>5. before \in f.alive /\ before \in LineId /\ before # NULL
          BY <3>1, <1>1, <1>2
    <3>6. before \in Link /\ Usable(u, before)  BY <3>5, <1>8 DEF Usable, Link
    <3>7. PICK r \in Int : r = k - 2  BY <3>2
    <3>8. /\ Edits(u, h, ext) /\ SameTexts(u, h)
          /\ h.currentl = before /\ h.buffer_r = r /\ h.buffer_c = Clamp(u, before)
          /\ Elsewhere(u, h, before)
          /\ Good(View(u, before)) =>
                ~h.fault /\ View(h, before) = MoveGap(View(u, before), Clamp(u, before))
          BY <3>4, <3>6, <3>7, <1>5, EnterFrame
    <3> QED  BY <3>2, <3>3, <3>7, <3>8, <2>2
  <2> QED  BY <2>1, <2>2
<1>11. /\ Sound(h, ext) /\ Chain(h, t) /\ h.scroll = u.scroll /\ h.scroll_r = u.scroll_r
       /\ h.alive = f.alive /\ h.line[line].prevl = before
       /\ \A j \in LineId : h.line[j].refs = f.line[j].refs
       /\ SameTexts(f, h)
  <2>1. SameList(u, h) /\ SameScroll(u, h) /\ Sound(h, ext)  BY <1>10 DEF Edits
  <2>2. Chain(h, t)  BY <2>1, <1>6, SameListChain
  <2>3. line \in LineId  BY <1>0, SoundFields
  <2>4. SameTexts(f, h)  BY <1>10, <1>s DEF SameTexts
  <2> QED  BY <2>1, <2>2, <2>3, <2>4, <1>5, <1>8 DEF SameList, SameScroll
<1>12. CASE h.scroll # line
  <2>1. g = h  BY <1>12 DEF g, LeaveScroll
  <2>2. ~h.fault => OnList(h, t)
    <3>1. ASSUME ~h.fault PROVE h.buffer_r \in 0 .. Len(t) - 1 /\ h.currentl = t[h.buffer_r + 1]
      <4>1. Len(t) - 1 = n - 2  BY <1>0, <1>7
      <4> QED  BY <4>1, <3>1, <1>10
    <3>2. h.scroll = NULL \/ \E i \in 1 .. Len(t) : h.scroll = t[i]
          BY <1>7, <1>9, <1>11, <1>12
    <3> QED  BY <3>1, <3>2 DEF OnList
  <2>3. ASSUME k = n, Good(View(f, s[k - 1]))
        PROVE  /\ ~h.fault /\ SameScroll(f, h)
               /\ h.buffer_r = k - 2 /\ h.currentl = s[k - 1]
               /\ h.buffer_c = Clamp(f, s[k - 1]) /\ Elsewhere(f, h, s[k - 1])
               /\ View(h, s[k - 1]) = MoveGap(View(f, s[k - 1]), Clamp(f, s[k - 1]))
    <3>1. before = s[k - 1] /\ k # 1 /\ before \in LineId  BY <2>3, <1>0, <1>1, <1>2
    <3>2. View(u, before) = View(f, before)  BY <3>1, <1>5
    <3>3. Clamp(u, before) = Clamp(f, before)
      <4>1. u.line[before].data_n = f.line[before].data_n  BY <3>1, <3>2, <1>5, ViewFields
      <4> QED  BY <4>1, <1>5 DEF Clamp
    <3>4. SameScroll(f, h)  BY <3>1, <1>3, <1>5, <1>11 DEF SameScroll
    <3>5. Elsewhere(f, h, before)  BY <2>3, <1>5, <1>10 DEF Elsewhere
    <3> QED  BY <2>3, <3>1, <3>2, <3>3, <3>4, <3>5, <1>10
  <2> QED  BY <2>1, <2>2, <2>3, <1>11 DEF n, t, g, h, line
<1>13. CASE h.scroll = line
  <2> DEFINE r == h.scroll_r - 1
             v == Scrolled(h, before, r)
  <2>0. before \in h.alive \cup {NULL} /\ r \in Int  BY <1>3, <1>11, SoundFields
  <2>1. g = CursorUp(v)
    <3>1. h \in Frame  BY <1>11 DEF Sound
    <3>2. [h EXCEPT !.scroll_r = @ - 1, !.scroll = h.line[line].prevl] = v
          BY <3>1, <1>11 DEF Scrolled, Frame
    <3> QED  BY <3>2, <1>13 DEF g, LeaveScroll
  <2> HIDE DEF r
  <2>2. /\ Sound(v, ext) /\ SameList(h, v) /\ SameRow(h, v) /\ v.scroll = before
        /\ v.fault = h.fault /\ v.buffer_c = h.buffer_c
        /\ \A j \in LineId : View(v, j) = View(h, j)
    <3>1. /\ Sound(v, ext) /\ SameList(h, v) /\ SameRow(h, v) /\ v.scroll = before
          /\ v.fault = h.fault /\ v.buffer_c = h.buffer_c /\ SameLines(h, v)
      <4>1. Sound(h, ext)  BY <1>11
      <4> QED  BY <4>1, <2>0, ScrolledFrame
    <3> QED  BY <3>1 DEF SameLines
  <2> HIDE DEF v
  <2>3. Chain(v, t)  BY <2>2, <1>11, SameListChain
  <2>4. SameTexts(f, v)  BY <2>2, <1>11 DEF SameTexts
  <2>5. k # 1 /\ before = s[k - 1]
    <3>1. CASE k = 1
      <4>1. u.scroll = after  BY <3>1, <1>3, <1>5
      <4> QED  BY <4>1, <1>3, <1>11, <1>13
    <3> QED  BY <3>1, <1>1
  <2>6. k - 1 \in 1 .. n - 1 /\ t[k - 1] = before
    <3>1. k - 1 \in 1 .. n - 1 /\ k - 1 < k  BY <2>5, <1>0
    <3> QED  BY <3>1, <2>5, <1>7
  <2>7. CASE v.fault
    <3>1. g = v
      <4>1. g = EnterLine(v, v.line[v.currentl].prevl, v.buffer_r - 1)
            BY <2>1, <2>2, UpDownEnter
      <4> QED  BY <4>1, <2>7 DEF EnterLine, Check
    <3>2. (g.fault /\ f.scroll = line) \/ before = NULL  BY <3>1, <2>7, <1>5, <1>11, <1>13
    <3>3. k # 1  BY <2>5
    <3> QED  BY <3>1, <3>2, <3>3, <2>2, <2>4, <2>7, <1>3 DEF n, t, g, h, line
  <2>8. CASE ~v.fault
    <3>1. /\ h.buffer_r = (IF k = n THEN k - 2 ELSE k - 1)
          /\ h.buffer_r \in 0 .. n - 2 /\ h.currentl = t[h.buffer_r + 1]
          BY <2>2, <2>8, <1>10
    <3>2. PICK i \in 1 .. n - 1 : i = h.buffer_r + 1  BY <3>1, <1>0
    <3>3. i \in 1 .. Len(t) /\ v.currentl = t[i] /\ v.buffer_r = i - 1 /\ i - 1 \in Int
          BY <3>1, <3>2, <2>2, <1>0, <1>7 DEF SameRow
    <3>4. PICK j \in Int : j = i - 1  BY <3>3
    <3>5. /\ Edits(v, g, ext) /\ SameTexts(v, g)
          /\ ~g.fault => j \in 1 .. Len(t) /\ g.currentl = t[j] /\ g.buffer_r = j - 1
      <4>1. Sound(v, ext) /\ ~v.fault /\ g = CursorUp(v)  BY <2>1, <2>2, <2>8
      <4> HIDE DEF t, g
      <4>2. Edits(v, g, ext) /\ SameTexts(v, g)  BY <4>1, <2>3, <3>3, <3>4, UpDownFrame
      <4>3. ~g.fault => j \in 1 .. Len(t) /\ g.currentl = t[j] /\ g.buffer_r = j - 1
            BY <4>1, <2>3, <3>3, <3>4, UpDownFrame
      <4> QED  BY <4>2, <4>3
    <3>6. SameTexts(f, g)  BY <3>5, <2>4 DEF SameTexts
    <3>7. Sound(g, ext) /\ SameList(v, g) /\ SameScroll(v, g)  BY <3>5 DEF Edits
    <3>8. Chain(g, t)  BY <3>7, <2>3, SameListChain
    <3>9. ~g.fault => OnList(g, t)
      <4>1. Len(t) = n - 1 /\ n \in Nat  BY <1>0, <1>7
      <4>2. ASSUME ~g.fault PROVE g.buffer_r \in 0 .. Len(t) - 1 /\ g.buffer_r + 1 = j
            BY <4>1, <4>2, <3>4, <3>5
      <4>3. g.scroll = t[k - 1] /\ k - 1 \in 1 .. Len(t)
            BY <4>1, <3>7, <2>2, <2>6 DEF SameScroll
      <4> QED  BY <4>2, <4>3, <3>5 DEF OnList
    <3>10. g.alive = f.alive /\ \A m \in LineId : g.line[m].refs = f.line[m].refs
           BY <3>7, <2>2, <1>11 DEF SameList
    <3>11. f.scroll = s[k]  BY <2>5, <1>3, <1>5, <1>11, <1>13 DEF line
    <3> QED  BY <3>6, <3>7, <3>8, <3>9, <3>10, <3>11 DEF n, t, g, h, line
  <2> QED  BY <2>7, <2>8
<1> QED  BY <1>12, <1>13

\* The last line of s is cut, and the cursor is in the line above.
CutsLast(f, g, s, k) ==
    k = Len(s) /\ f.scroll # s[k] /\ Good(View(f, s[k - 1])) =>
       /\ ~g.fault /\ SameScroll(f, g)
       /\ g.buffer_r = k - 2 /\ g.currentl = s[k - 1]
       /\ g.buffer_c = Clamp(f, s[k - 1]) /\ Elsewhere(f, g, s[k - 1])
       /\ View(g, s[k - 1]) = MoveGap(View(f, s[k - 1]), Clamp(f, s[k - 1]))

\* cutl(), where there are two lines or more.
LEMMA CutFrame ==
    ASSUME NEW ext, NEW f, Sound(f, ext), ~f.fault, NEW s, Tracks(f, s, ext), Len(s) >= 2,
           NEW k \in 1 .. Len(s), f.buffer_r = k - 1, f.currentl = s[k]
    PROVE  LET g == Cutl(f)
           IN  /\ Sound(g, ext) /\ SameTexts(f, g)
               /\ ~g.fault => Tracks(g, RemoveAt(s, k), ext)
               /\ CutsLast(f, g, s, k)
<1> DEFINE line == s[k]
           t == RemoveAt(s, k)
           h == LeaveScroll(Unlink(f), line)
           w == Released(h, line, Clamp(h, h.currentl))
           g == Cutl(f)
           easy == k = Len(s) /\ f.scroll # s[k] /\ Good(View(f, s[k - 1]))
<1>0. /\ Len(s) \in Nat /\ Len(s) >= 2 /\ k \in Nat /\ k >= 1 /\ k <= Len(s) /\ s \in Seq(LineId)
      /\ Chain(f, s) /\ line = f.currentl /\ line \in LineId /\ line \in f.alive
      BY ChainFacts, SoundFields DEF Tracks
<1>1. /\ Sound(h, ext) /\ SameTexts(f, h)
      /\ ~h.fault => /\ Chain(h, t) /\ OnList(h, t) /\ h.alive = f.alive
                     /\ \A j \in LineId : h.line[j].refs = f.line[j].refs
      /\ easy =>
            /\ ~h.fault /\ SameScroll(f, h)
            /\ h.buffer_r = k - 2 /\ h.currentl = s[k - 1]
            /\ h.buffer_c = Clamp(f, s[k - 1]) /\ Elsewhere(f, h, s[k - 1])
            /\ View(h, s[k - 1]) = MoveGap(View(f, s[k - 1]), Clamp(f, s[k - 1]))
      BY CutLinks
<1>2. CutlReturns(f) # "NONE_DELETED"
  <2>1. /\ f.line[line].nextl = IF k = Len(s) THEN NULL ELSE s[k + 1]
        /\ f.line[line].prevl = IF k = 1 THEN NULL ELSE s[k - 1]
        BY <1>0 DEF Chain
  <2>2. /\ k # 1 => k - 1 \in 1 .. Len(s)
        /\ k # Len(s) => k + 1 \in 1 .. Len(s)
        BY <1>0
  <2>3. \A i \in 1 .. Len(s) : s[i] # NULL  BY <1>0, ChainFacts
  <2>4. f.line[line].prevl # NULL \/ f.line[line].nextl # NULL
        BY <2>1, <2>2, <2>3, <1>0
  <2> HIDE DEF line
  <2> QED  BY <2>4, <1>0 DEF CutlReturns
<1>3. g = Check(h, h.line[line].refs > 0, w)
  <2>1. Usable(f, line)  BY <1>0, AliveUsable
  <2> QED  BY <2>1, <1>0, <1>2 DEF Cutl, Check, Released
<1>4. f.line[line].refs = ext.refs[line] + 1 /\ ext.refs[line] \in Nat
  <2>1. Counted(f, s, ext)  BY DEF Tracks
  <2>2. ext.refs \in [LineId -> Nat]  BY DEF Sound
  <2> QED  BY <2>1, <2>2, <1>0 DEF Counted
<1> HIDE DEF h, t, line, g
<1>5. CASE h.fault
  <2>1. g = h  BY <1>3, <1>5 DEF Check
  <2>2. CutsLast(f, h, s, k)  BY <1>1, <1>5 DEF CutsLast
  <2> QED  BY <2>1, <2>2, <1>1, <1>5 DEF g, t
<1>6. CASE ~h.fault
  <2>1. h.line[line].refs = ext.refs[line] + 1 /\ h.line[line].refs > 0
        BY <1>0, <1>1, <1>4, <1>6
  <2>2. g = w  BY <2>1, <1>3, <1>6 DEF Check
  <2>3. Clamp(h, h.currentl) \in Nat  BY <1>1, SoundFields, ClampValue
  <2>4. /\ Sound(w, ext) /\ SameRow(h, w) /\ SameScroll(h, w)
        /\ w.buffer_c = Clamp(h, h.currentl) /\ w.fault = h.fault
        /\ w.alive = h.alive /\ w.fresh = h.fresh /\ w.headl = h.headl /\ w.taill = h.taill
        /\ \A j \in LineId : /\ View(w, j) = View(h, j)
                             /\ w.line[j].prevl = h.line[j].prevl
                             /\ w.line[j].nextl = h.line[j].nextl
                             /\ j # line => w.line[j].refs = h.line[j].refs
        /\ w.line[line].refs = h.line[line].refs - 1
    <3>1. PICK c \in Nat : c = Clamp(h, h.currentl)  BY <2>3
    <3>2. w = Released(h, line, c)  BY <3>1
    <3> QED  BY <2>1, <3>1, <3>2, <1>0, <1>1, ReleasedFrame
  <2> HIDE DEF w
  <2>5. SameTexts(f, w)  BY <2>4, <1>1 DEF SameTexts
  <2>6. Chain(w, t)
    <3>1. Chain(h, t) /\ \A i \in 1 .. Len(t) : t[i] \in LineId  BY <1>1, <1>6, ChainFacts
    <3>2. /\ t \in Seq(LineId) /\ Len(t) \in Nat /\ Len(t) >= 1 /\ Len(t) < w.fresh
          /\ \A i, j \in 1 .. Len(t) : t[i] = t[j] => i = j
          /\ \A i \in 1 .. Len(t) : t[i] \in w.alive
          /\ w.headl = t[1] /\ w.taill = t[Len(t)]
          BY <3>1, <2>4 DEF Chain
    <3>3. \A i \in 1 .. Len(t) : w.line[t[i]].nextl = IF i = Len(t) THEN NULL ELSE t[i + 1]
      <4>1. \A i \in 1 .. Len(t) : h.line[t[i]].nextl = IF i = Len(t) THEN NULL ELSE t[i + 1]
            BY <3>1 DEF Chain
      <4> QED  BY <4>1, <3>1, <2>4
    <3>4. \A i \in 1 .. Len(t) : w.line[t[i]].prevl = IF i = 1 THEN NULL ELSE t[i - 1]
      <4>1. \A i \in 1 .. Len(t) : h.line[t[i]].prevl = IF i = 1 THEN NULL ELSE t[i - 1]
            BY <3>1 DEF Chain
      <4> QED  BY <4>1, <3>1, <2>4
    <3> QED  BY <3>2, <3>3, <3>4 DEF Chain
  <2>7. OnList(w, t)  BY <2>4, <1>1, <1>6 DEF OnList, SameRow, SameScroll
  <2>8. Counted(w, t, ext)
    <3>1. \A id \in f.alive : f.line[id].refs = ext.refs[id] +
                                 IF \E i \in 1 .. Len(s) : s[i] = id THEN 1 ELSE 0
          BY DEF Tracks, Counted
    <3>2. Len(t) = Len(s) - 1 /\ \A i \in 1 .. Len(s) - 1 : t[i] = IF i < k THEN s[i] ELSE s[i + 1]
          BY <1>0, RemoveAtValue DEF t
    <3>3. \A i, j \in 1 .. Len(s) : s[i] = s[j] => i = j  BY <1>0 DEF Chain
    <3>4. ASSUME NEW id \in f.alive
          PROVE  /\ id = line => ~\E i \in 1 .. Len(t) : t[i] = id
                 /\ id # line => ((\E i \in 1 .. Len(t) : t[i] = id) <=>
                                  (\E i \in 1 .. Len(s) : s[i] = id))
      <4>1. ASSUME NEW i \in 1 .. Len(t) PROVE \E j \in 1 .. Len(s) : j # k /\ t[i] = s[j]
        <5>1. i \in Nat /\ i \in 1 .. Len(s) - 1 /\ i \in 1 .. Len(s) /\ i + 1 \in 1 .. Len(s)
              BY <3>2, <1>0
        <5>2. CASE i < k  BY <5>1, <5>2, <3>2, <1>0
        <5>3. CASE ~(i < k)
          <6>1. i + 1 # k  BY <5>1, <5>3, <1>0
          <6> QED  BY <6>1, <5>1, <5>3, <3>2
        <5> QED  BY <5>2, <5>3
      <4>2. ASSUME NEW j \in 1 .. Len(s), j # k PROVE \E i \in 1 .. Len(t) : t[i] = s[j]
        <5>0. j \in Nat  BY <1>0
        <5>1. CASE j < k
          <6>1. j \in 1 .. Len(t) /\ j \in 1 .. Len(s) - 1  BY <5>0, <5>1, <3>2, <1>0
          <6> QED  BY <6>1, <5>1, <3>2
        <5>2. CASE j > k
          <6>1. PICK i \in 1 .. Len(s) - 1 : i + 1 = j /\ ~(i < k)
            <7>1. j - 1 \in 1 .. Len(s) - 1 /\ j - 1 + 1 = j /\ ~(j - 1 < k)
                  BY <5>0, <5>2, <1>0
            <7> QED  BY <7>1
          <6> QED  BY <6>1, <3>2
        <5> QED  BY <5>0, <5>1, <5>2, <4>2, <1>0
      <4>3. ASSUME id = line, NEW i \in 1 .. Len(t), t[i] = id PROVE FALSE
            BY <4>1, <4>3, <3>3 DEF line
      <4> QED  BY <4>1, <4>2, <4>3 DEF line
    <3>5. w.alive = f.alive /\ \A id \in f.alive : id \in LineId
          BY <2>4, <1>1, <1>6, SoundFields
    <3>6. /\ w.line[line].refs = ext.refs[line]
          /\ \A id \in f.alive : id # line => w.line[id].refs = f.line[id].refs
          BY <2>1, <2>4, <3>5, <1>1, <1>4, <1>6
    <3>7. \A id \in LineId : ext.refs[id] \in Nat  BY DEF Sound
    <3> QED  BY <3>1, <3>4, <3>5, <3>6, <3>7 DEF Counted
  <2>9. Tracks(w, t, ext)  BY <2>6, <2>7, <2>8 DEF Tracks
  <2>10. ASSUME easy
         PROVE  /\ ~w.fault /\ SameScroll(f, w)
                /\ w.buffer_r = k - 2 /\ w.currentl = s[k - 1]
                /\ w.buffer_c = Clamp(f, s[k - 1]) /\ Elsewhere(f, w, s[k - 1])
                /\ View(w, s[k - 1]) = MoveGap(View(f, s[k - 1]), Clamp(f, s[k - 1]))
    <3> DEFINE up == s[k - 1]
               c == Clamp(f, up)
    <3>0. up \in LineId
      <4>1. k - 1 \in 1 .. Len(s)  BY <2>10, <1>0
      <4> QED  BY <4>1, <1>0, ChainFacts
    <3> HIDE DEF up
    <3>1. /\ SameScroll(f, h) /\ h.buffer_r = k - 2 /\ h.currentl = up
          /\ h.buffer_c = c /\ Elsewhere(f, h, up)
          /\ View(h, up) = MoveGap(View(f, up), c) /\ Good(View(f, up))
          BY <2>10, <1>1 DEF up
    <3>2. c \in Nat /\ c <= View(f, up).data_n  BY <3>0, ClampValue, ViewFields
    <3>3. h.line[up].data_n = View(f, up).data_n
      <4>1. MoveGap(View(f, up), c).data_n = View(f, up).data_n  BY <3>1, <3>2, MoveGapGood
      <4> QED  BY <4>1, <3>0, <3>1, <1>1, ViewFields
    <3>4. View(f, up).data_n \in Nat  BY <3>0, ViewFields, StructFields
    <3>5. Clamp(h, up) = c
      <4> HIDE DEF c
      <4> QED  BY <3>1, <3>2, <3>3, <3>4 DEF Clamp
    <3>6. SameScroll(f, w) /\ w.buffer_r = k - 2 /\ w.currentl = up /\ w.buffer_c = c
          BY <2>4, <3>1, <3>5 DEF SameScroll, SameRow
    <3>7. Elsewhere(f, w, up) /\ View(w, up) = MoveGap(View(f, up), c)
          BY <2>4, <3>0, <3>1 DEF Elsewhere
    <3> QED  BY <3>6, <3>7, <2>4, <1>6 DEF up
  <2>11. CutsLast(f, w, s, k)  BY <2>10 DEF CutsLast
  <2> QED  BY <2>2, <2>4, <2>5, <2>9, <2>11, <1>6 DEF g, t
<1> QED  BY <1>5, <1>6

-----------------------------------------------------------------------------
(* The keys that add a line *)

\* h is f with one more line allocated, which has no neighbours yet.
Grown(f, h) ==
    LET n == f.fresh
    IN  /\ n \in LineId /\ h.alive = f.alive \cup {n} /\ h.fresh = n + 1
        /\ h.headl = f.headl /\ h.taill = f.taill /\ h.fault = f.fault
        /\ SameRow(f, h) /\ SameScroll(f, h)
        /\ h.line[n].nextl = NULL /\ h.line[n].prevl = NULL /\ h.line[n].refs = 1
        /\ \A j \in LineId : j # n => /\ h.line[j].prevl = f.line[j].prevl
                                      /\ h.line[j].nextl = f.line[j].nextl
                                      /\ h.line[j].refs = f.line[j].refs

\* The id of the next line is not one of an allocated line.
LEMMA FreshIsNew ==
    ASSUME NEW ext, NEW f, Sound(f, ext)
    PROVE  f.fresh \in Nat /\ f.fresh \notin f.alive /\ f.alive \subseteq LineId
<1>1. f.fresh \in Nat /\ f.alive \subseteq LineId  BY SoundFields, MaxLinesAssumption
<1>2. PICK n \in Nat : n = f.fresh  BY <1>1
<1>3. f.alive \subseteq 1 .. n - 1  BY <1>2 DEF Sound
<1>4. n \notin 1 .. n - 1  OBVIOUS
<1> QED  BY <1>1, <1>2, <1>3, <1>4

\* The list is not touched by the allocation.
LEMMA GrownChain ==
    ASSUME NEW ext, NEW f, Sound(f, ext), NEW h, Grown(f, h), NEW s, Chain(f, s)
    PROVE  Chain(h, s) /\ Absent(s, f.fresh) /\ Len(s) + 1 < h.fresh
<1>1. /\ f.fresh \in Nat /\ f.fresh \notin f.alive /\ Len(s) \in Nat /\ Len(s) < f.fresh
      /\ s \in Seq(LineId)
      BY FreshIsNew DEF Chain
<1>2. \A i \in 1 .. Len(s) : s[i] \in f.alive /\ s[i] \in LineId  BY ChainFacts DEF Chain
<1>3. Absent(s, f.fresh)  BY <1>1, <1>2 DEF Absent
<1>4. \A i \in 1 .. Len(s) : /\ h.line[s[i]].nextl = f.line[s[i]].nextl
                             /\ h.line[s[i]].prevl = f.line[s[i]].prevl
                             /\ s[i] \in h.alive
      BY <1>2, <1>3 DEF Grown, Absent
<1>5. Len(s) < h.fresh /\ Len(s) + 1 < h.fresh  BY <1>1 DEF Grown
<1>6. Chain(h, s)
  <2>1. \A j, k \in 1 .. Len(s) : s[j] = s[k] => j = k  BY DEF Chain
  <2>2. h.headl = s[1] /\ h.taill = s[Len(s)] /\ Len(s) >= 1  BY DEF Chain, Grown
  <2>3. \A k \in 1 .. Len(s) : h.line[s[k]].nextl = IF k = Len(s) THEN NULL ELSE s[k + 1]
        BY <1>4 DEF Chain
  <2>4. \A k \in 1 .. Len(s) : h.line[s[k]].prevl = IF k = 1 THEN NULL ELSE s[k - 1]
        BY <1>4 DEF Chain
  <2> QED  BY <1>1, <1>4, <1>5, <2>1, <2>2, <2>3, <2>4 DEF Chain
<1> QED  BY <1>3, <1>5, <1>6

\* insert_line_after() of a line just allocated.
LEMMA AddFrame ==
    ASSUME NEW ext, NEW f, Sound(f, ext), ~f.fault, NEW h, Sound(h, ext), Grown(f, h), NEW s,
           Tracks(f, s, ext),
           NEW k \in 1 .. Len(s), f.buffer_r = k - 1, f.currentl = s[k]
    PROVE  LET g == InsertLineAfter(h, f.currentl, f.fresh)
           IN  /\ Sound(g, ext) /\ SameScroll(f, g) /\ ~g.fault
               /\ Tracks(g, InsertAt(s, k + 1, f.fresh), ext)
               /\ g.currentl = f.fresh /\ g.buffer_r = k /\ g.buffer_c = 0
               /\ \A j \in LineId : View(g, j) = View(h, j)
<1> DEFINE line == f.fresh
           t == InsertAt(s, k + 1, line)
           g == InsertLineAfter(h, f.currentl, line)
<1>0. /\ Len(s) \in Nat /\ k \in Nat /\ k >= 1 /\ k <= Len(s) /\ s \in Seq(LineId)
      /\ Chain(f, s) /\ line \in LineId /\ line # NULL /\ line \in h.alive
      /\ s[k] \in f.alive /\ s[k] \in h.alive /\ s[k] \in LineId
      BY ChainFacts, NULLAssumption DEF Tracks, Chain, Grown
<1>1. Chain(h, s) /\ Absent(s, line) /\ Len(s) + 1 < h.fresh
      BY <1>0, GrownChain
<1>2. h.line[s[k]].nextl = IF k = Len(s) THEN NULL ELSE s[k + 1]  BY <1>1 DEF Chain
<1>3. s[k] # line /\ h.line[s[k]].nextl # line /\ h.line[s[k]].nextl # s[k]
  <2>1. k # Len(s) => k + 1 \in 1 .. Len(s) /\ k + 1 # k  BY <1>0
  <2>2. s[k] # line /\ (k # Len(s) => s[k + 1] # line)  BY <2>1, <1>1 DEF Absent
  <2>3. k # Len(s) => s[k + 1] # s[k]  BY <2>1, <1>1 DEF Chain
  <2> QED  BY <2>2, <2>3, <1>0, <1>2, NULLAssumption
<1>4. h.line[line].nextl = NULL /\ ~h.fault /\ h.line[line].refs = 1
      BY DEF Grown
<1>5. /\ Sound(g, ext) /\ SameScroll(h, g) /\ ~g.fault
      /\ g.currentl = line /\ g.buffer_r = h.buffer_r + 1 /\ g.buffer_c = 0
      /\ \A j \in LineId : View(g, j) = View(h, j) /\ g.line[j].refs = h.line[j].refs
      /\ PutAfter(h, g, s[k], line)
      BY <1>0, <1>3, <1>4, LinkAfterFrame
<1> HIDE DEF g, t, line
<1>6. Chain(g, t)  BY <1>0, <1>1, <1>5, ChainInsert DEF t
<1>7. SameScroll(f, g) /\ g.buffer_r = k
  <2>1. h.buffer_r = f.buffer_r /\ SameScroll(f, h)  BY DEF Grown, SameRow
  <2> QED  BY <2>1, <1>0, <1>5 DEF SameScroll
<1>8. /\ Len(t) = Len(s) + 1
      /\ \A i \in 1 .. Len(s) + 1 :
            t[i] = IF i < k + 1 THEN s[i] ELSE IF i = k + 1 THEN line ELSE s[i - 1]
  <2>1. k + 1 \in 1 .. Len(s) + 1  BY <1>0
  <2> QED  BY <2>1, <1>0, InsertAtValue, SMTT(30) DEF t
<1>9. \A i \in 1 .. Len(s) : \E j \in 1 .. Len(t) : t[j] = s[i]
  <2> SUFFICES ASSUME NEW i \in 1 .. Len(s) PROVE \E j \in 1 .. Len(t) : t[j] = s[i]
      OBVIOUS
  <2>0. i \in Nat  OBVIOUS
  <2>1. CASE i < k + 1
    <3>1. i \in 1 .. Len(s) + 1  BY <1>0
    <3> QED  BY <3>1, <2>1, <1>8
  <2>2. CASE i >= k + 1
    <3>1. PICK j \in 1 .. Len(s) + 1 : j = i + 1 /\ ~(j < k + 1) /\ j # k + 1 /\ j - 1 = i
          BY <2>0, <2>2, <1>0
    <3> QED  BY <3>1, <1>8
  <2> QED  BY <2>0, <2>1, <2>2, <1>0
<1>10. PICK p \in 1 .. Len(t) : p = k + 1  BY <1>0, <1>8
<1>11. t[p] = line
  <2>1. p \in 1 .. Len(s) + 1 /\ ~(p < k + 1) /\ p = k + 1  BY <1>10, <1>8, <1>0
  <2> QED  BY <2>1, <1>8
<1>12. OnList(g, t)
  <2>1. g.buffer_r \in 0 .. Len(t) - 1  BY <1>0, <1>7, <1>8
  <2>2. g.currentl = t[g.buffer_r + 1]  BY <1>5, <1>7, <1>10, <1>11
  <2>3. f.scroll = NULL \/ \E i \in 1 .. Len(s) : f.scroll = s[i]  BY DEF Tracks, OnList
  <2>4. g.scroll = NULL \/ \E i \in 1 .. Len(t) : g.scroll = t[i]
        BY <2>3, <1>7, <1>9 DEF SameScroll
  <2> QED  BY <2>1, <2>2, <2>4 DEF OnList
<1>13. Counted(g, t, ext)
  <2>1. \A id \in f.alive :
            f.line[id].refs = ext.refs[id] + IF \E i \in 1 .. Len(s) : s[i] = id THEN 1 ELSE 0
        BY DEF Tracks, Counted
  <2>a. ext.refs[line] = 0
    <3>1. \A id \in LineId : id >= f.fresh => ext.refs[id] = 0  BY DEF Sound
    <3>2. f.fresh \in Nat  BY FreshIsNew
    <3>3. line = f.fresh /\ line \in LineId /\ line >= f.fresh  BY <3>2, <1>0 DEF line
    <3> QED  BY <3>1, <3>3
  <2>2. /\ g.alive = f.alive \cup {line} /\ g.line[line].refs = 1 /\ line \notin f.alive
        /\ \A id \in f.alive : id # line /\ id \in LineId /\ g.line[id].refs = f.line[id].refs
    <3>1. line \notin f.alive  BY FreshIsNew DEF line
    <3> QED  BY <3>1, <1>0, <1>4, <1>5, SoundFields DEF PutAfter, Grown, line
  <2>3. ASSUME NEW id \in f.alive, NEW i \in 1 .. Len(t), t[i] = id
        PROVE  \E j \in 1 .. Len(s) : s[j] = id
    <3>0. i \in 1 .. Len(s) + 1 /\ i \in Nat  BY <1>0, <1>8
    <3>1. CASE i < k + 1  BY <3>0, <3>1, <2>3, <1>0, <1>8
    <3>2. CASE i = k + 1  BY <3>0, <3>2, <2>2, <2>3, <1>0, <1>8
    <3>3. CASE i > k + 1
      <4>1. i - 1 \in 1 .. Len(s) /\ ~(i < k + 1) /\ i # k + 1  BY <3>0, <3>3, <1>0
      <4> QED  BY <4>1, <3>0, <2>3, <1>8
    <3> QED  BY <3>0, <3>1, <3>2, <3>3, <1>0
  <2>4. \A id \in f.alive : (\E i \in 1 .. Len(t) : t[i] = id) <=>
                            (\E i \in 1 .. Len(s) : s[i] = id)
        BY <2>3, <1>9
  <2>5. ASSUME NEW id \in g.alive
        PROVE  g.line[id].refs = ext.refs[id] + IF \E i \in 1 .. Len(t) : t[i] = id THEN 1 ELSE 0
    <3>1. CASE id = line  BY <3>1, <2>2, <2>a, <1>10, <1>11
    <3>2. CASE id # line  BY <3>2, <2>1, <2>2, <2>4, <2>5
    <3> QED  BY <3>1, <3>2
  <2> QED  BY <2>5 DEF Counted
<1> QED  BY <1>5, <1>6, <1>7, <1>12, <1>13 DEF Tracks, t, line, g

\* The first row of the screen goes from a line of s to the next one.
ScrollsOn(f, g, s) ==
    \A i \in 1 .. Len(s) : f.scroll = s[i] =>
       /\ ~g.fault /\ g.scroll_r = f.scroll_r + 1
       /\ g.scroll = IF i = Len(s) THEN NULL ELSE s[i + 1]

\* The first row of the screen one line down.  At the end of the list it is NULL.
LEMMA ScrollDownFrame ==
    ASSUME NEW ext, NEW f, Sound(f, ext), NEW s, Tracks(f, s, ext)
    PROVE  LET g == ScrollDown(f)
           IN  /\ Sound(g, ext) /\ SameList(f, g) /\ SameRow(f, g) /\ g.buffer_c = f.buffer_c
               /\ f.fault => g.fault
               /\ SameBytes(f, g, {}) /\ Tracks(g, s, ext)
               /\ ~f.fault => ScrollsOn(f, g, s)
<1> DEFINE next == f.line[f.scroll].nextl
           w == Scrolled(f, next, f.scroll_r + 1)
           g == ScrollDown(f)
<1>1. /\ Chain(f, s) /\ Len(s) \in Nat /\ f.scroll_r + 1 \in Int /\ OnList(f, s)
      /\ Counted(f, s, ext)
      /\ \A i \in 1 .. Len(s) : s[i] \in f.alive /\ s[i] \in LineId
      BY SoundFields, ChainFacts DEF Tracks, Chain
<1>2. g = Check(f, Usable(f, f.scroll), w)  BY DEF ScrollDown, Scrolled
<1>3. CASE f.fault \/ ~Usable(f, f.scroll)
  <2>1. Faulted(f, g, ext)  BY <1>2, <1>3, CheckFault
  <2>2. ~f.fault => \A i \in 1 .. Len(s) : f.scroll # s[i]
        BY <1>1, <1>3, AliveUsable
  <2> HIDE DEF g
  <2>3. Tracks(g, s, ext)  BY <2>1, EditsTracks DEF Faulted
  <2>4. ~f.fault => ScrollsOn(f, g, s)  BY <2>2 DEF ScrollsOn
  <2>5. SameBytes(f, g, {})  BY <2>1 DEF Faulted, SameBytes
  <2> QED  BY <2>1, <2>3, <2>4, <2>5 DEF Faulted, Edits, g
<1>4. CASE ~f.fault /\ Usable(f, f.scroll)
  <2>1. g = w  BY <1>2, <1>4 DEF Check
  <2>2. PICK i \in 1 .. Len(s) : f.scroll = s[i]
        BY <1>1, <1>4 DEF OnList, Usable
  <2>3. next = IF i = Len(s) THEN NULL ELSE s[i + 1]  BY <2>2, <1>1 DEF Chain
  <2>4. i # Len(s) => i + 1 \in 1 .. Len(s)  BY <1>1
  <2>5. next \in f.alive \cup {NULL}  BY <2>3, <2>4, <1>1
  <2>6. PICK r \in Int : r = f.scroll_r + 1  BY <1>1
  <2>7. /\ Sound(w, ext) /\ SameList(f, w) /\ SameRow(f, w)
        /\ w.scroll = next /\ w.scroll_r = r
        /\ w.buffer_c = f.buffer_c /\ w.fault = f.fault
        /\ SameBytes(f, w, {})
    <3>1. w = Scrolled(f, next, r)  BY <2>6
    <3> HIDE DEF next, w
    <3>2. /\ Sound(w, ext) /\ SameList(f, w) /\ SameRow(f, w)
          /\ w.scroll = next /\ w.scroll_r = r
          /\ w.buffer_c = f.buffer_c /\ w.fault = f.fault /\ SameLines(f, w)
          BY <3>1, <2>5, ScrolledFrame
    <3> QED  BY <3>2 DEF SameLines, SameBytes
  <2> HIDE DEF w, g, next
  <2>8. f.alive \subseteq LineId  BY SoundFields
  <2>9. Chain(w, s) /\ Counted(w, s, ext)  BY <2>7, <2>8, <1>1, SameListChain
  <2>10. OnList(w, s)
    <3>1. w.scroll = NULL \/ \E j \in 1 .. Len(s) : w.scroll = s[j]
          BY <2>3, <2>4, <2>7
    <3> QED  BY <3>1, <2>7, <1>1 DEF OnList, SameRow
  <2>11. \A j \in 1 .. Len(s) : f.scroll = s[j] => j = i
         BY <2>2, <1>1 DEF Chain
  <2>12. ScrollsOn(f, w, s)  BY <2>3, <2>6, <2>7, <2>11, <1>4 DEF ScrollsOn
  <2> QED  BY <2>1, <2>7, <2>9, <2>10, <2>12, <1>4 DEF Tracks, g
<1> QED  BY <1>3, <1>4

\* g is f with the line f.fresh put behind the cursor's line, which is the k-th
\* one of s, and the cursor at its start.
AddedLine(f, g, s, k, ext) ==
    /\ Sound(g, ext) /\ ~g.fault /\ Tracks(g, InsertAt(s, k + 1, f.fresh), ext)
    /\ g.currentl = f.fresh /\ g.buffer_r = k /\ g.buffer_c = 0

\* The key o, but for the screen.
LEMMA OpenFrame ==
    ASSUME NEW ext, NEW f, Sound(f, ext), ~f.fault, f.fresh \in LineId, NEW s, Tracks(f, s, ext),
           NEW k \in 1 .. Len(s), f.buffer_r = k - 1, f.currentl = s[k]
    PROVE  LET g == InsertLineAfter(AllocEmptyl(f), f.currentl, f.fresh)
           IN  /\ AddedLine(f, g, s, k, ext) /\ SameScroll(f, g)
               /\ View(g, f.fresh) = EmptyLine /\ SameBytes(f, g, {f.fresh})
<1> DEFINE h == AllocEmptyl(f)
           g == InsertLineAfter(h, f.currentl, f.fresh)
<1>1. /\ Sound(h, ext) /\ Grown(f, h) /\ View(h, f.fresh) = EmptyLine /\ SameBytes(f, h, {f.fresh})
      BY AllocFrame DEF Grown
<1> HIDE DEF h
<1>2. /\ Sound(g, ext) /\ SameScroll(f, g) /\ ~g.fault
      /\ Tracks(g, InsertAt(s, k + 1, f.fresh), ext)
      /\ g.currentl = f.fresh /\ g.buffer_r = k /\ g.buffer_c = 0
      /\ \A j \in LineId : View(g, j) = View(h, j)
      BY <1>1, AddFrame
<1> HIDE DEF g
<1> QED  BY <1>1, <1>2 DEF AddedLine, SameBytes, g, h

\* The newline key of insert mode, but for the screen.
LEMMA BreakFrame ==
    ASSUME NEW ext, NEW f, Sound(f, ext), ~f.fault, f.fresh \in LineId, NEW s, Tracks(f, s, ext),
           NEW k \in 1 .. Len(s), f.buffer_r = k - 1, f.currentl = s[k]
    PROVE  LET g == BreakLineAfter(f, f.currentl)
               l == View(f, f.currentl)
               c == f.buffer_c
           IN  /\ Sound(g, ext)
               /\ ~g.fault => /\ AddedLine(f, g, s, k, ext) /\ SameScroll(f, g)
                              /\ View(g, f.fresh) = AfterCursor(l, c)
                              /\ View(g, f.currentl) = BeforeCursor(l, c)
                              /\ SameBytes(f, g, {f.fresh, f.currentl})
               /\ Good(l) /\ c = l.sog => ~g.fault
<1> DEFINE n == f.fresh
           cur == f.currentl
           l == View(f, cur)
           c == f.buffer_c
           diff == f.line[cur].data_n - c
           a == AllocEmptyl(f)
           b == Put(a, n, AfterCursor(l, c))
           h == IF diff = 0 THEN a ELSE Put(b, cur, BeforeCursor(l, c))
           ok == /\ Usable(f, cur) /\ diff >= 0
                 /\ diff > 0 => Readable(f, cur) /\ l.eog + 1 + diff \in DOMAIN l.data
           w == InsertLineAfter(h, cur, n)
           g == BreakLineAfter(f, cur)
<1>0. /\ cur \in LineId /\ cur \in f.alive /\ n \in LineId /\ c \in Nat
      /\ Usable(f, cur) /\ Readable(f, cur) /\ l.data_n = f.line[cur].data_n
      /\ l.data_n \in Nat /\ Shaped(l)
      BY SoundFields, AliveUsable, ViewFields, StructFields
<1>1. g = Check(f, ok, w)  BY DEF BreakLineAfter
<1>2. /\ Sound(a, ext) /\ SameRow(f, a) /\ SameScroll(f, a) /\ a.fault = f.fault
      /\ a.headl = f.headl /\ a.taill = f.taill
      /\ n \notin f.alive /\ a.alive = f.alive \cup {n} /\ a.fresh = n + 1
      /\ View(a, n) = EmptyLine /\ SameBytes(f, a, {n})
      /\ a.line[n].nextl = NULL /\ a.line[n].prevl = NULL /\ a.line[n].refs = 1
      /\ \A j \in LineId : j # n => a.line[j] = f.line[j]
      BY AllocFrame
<1>3. cur # n  BY <1>0, <1>2
<1>4. Good(l) /\ c = l.sog => ok
  <2> SUFFICES ASSUME Good(l), c = l.sog PROVE ok  OBVIOUS
  <2> HIDE DEF l, c, cur
  <2>1. /\ l.eog \in Nat /\ l.size \in Nat /\ l.sog \in Nat /\ l.data_n \in Nat
        /\ l.sog < l.eog /\ l.eog <= l.size - 2 /\ l.sog <= l.data_n
        /\ l.data_n = l.size - 2 - (l.eog - l.sog) /\ DOMAIN l.data = 0 .. l.size - 1
        BY GoodFields
  <2>2. diff = l.data_n - c  BY <1>0
  <2>3. diff >= 0 /\ l.eog + 1 + diff = l.size - 1
    <3> HIDE DEF diff
    <3>1. diff = l.data_n - l.sog  BY <2>2
    <3>2. diff \in Int /\ diff >= 0  BY <2>1, <3>1, SMTT(30)
    <3>3. PICK g1 \in Nat, e \in Nat, z \in Nat, d \in Nat :
             g1 = l.sog /\ e = l.eog /\ z = l.size /\ d = l.data_n
          BY <2>1
    <3>4. d = z - 2 - (e - g1)  BY <2>1, <3>3
    <3>6. e + 1 + (d - g1) = z - 1  BY <3>4
    <3>5. l.eog + 1 + diff = l.size - 1  BY <3>1, <3>3, <3>6
    <3> QED  BY <3>2, <3>5
  <2> QED  BY <2>1, <2>3, <1>0
<1>5. CASE ~ok
  <2>1. Faulted(f, g, ext)  BY <1>1, <1>5, CheckFault
  <2> QED  BY <2>1, <1>4, <1>5 DEF Faulted, Edits
<1>6. CASE ok
  <2>1. g = w  BY <1>1, <1>6 DEF Check
  <2>2. /\ diff = 0 => AfterCursor(l, c) = EmptyLine /\ BeforeCursor(l, c) = l
        /\ Shaped(BeforeCursor(l, c)) /\ Shaped(AfterCursor(l, c))
    <3>1. diff = 0 => AfterCursor(l, c) = EmptyLine /\ BeforeCursor(l, c) = l
          BY <1>0 DEF AfterCursor, BeforeCursor
    <3>2. l.data_n - c > 0 => l.eog + 1 + (l.data_n - c) \in DOMAIN l.data
          BY <1>0, <1>6
    <3> HIDE DEF l, c
    <3> QED  BY <3>1, <3>2, <1>0, SplitShaped
  <2> DEFINE before == BeforeCursor(l, c)
             behind == AfterCursor(l, c)
  <2> HIDE DEF before, behind, a, l
  <2>3. /\ Edits(a, b, ext) /\ SameRow(a, b) /\ b.fault = a.fault
        /\ View(b, n) = behind /\ Elsewhere(a, b, n)
        BY <2>2, <1>0, <1>2, PutLine DEF behind
  <2> HIDE DEF b
  <2>4. LET p == Put(b, cur, before)
        IN  /\ Edits(b, p, ext) /\ SameRow(b, p) /\ p.fault = b.fault
            /\ View(p, cur) = before /\ Elsewhere(b, p, cur)
        BY <2>2, <2>3, <1>0, PutLine DEF before, Edits
  <2>5. /\ Edits(a, h, ext) /\ SameRow(a, h) /\ h.fault = a.fault
        /\ View(h, n) = behind /\ View(h, cur) = before
        /\ SameBytes(f, h, {n, cur})
    <3>1. CASE diff = 0
      <4>1. h = a  BY <3>1
      <4>2. View(a, cur) = l  BY <1>0, <1>2, <1>3 DEF SameBytes, l
      <4>3. View(a, n) = behind /\ View(a, cur) = before
            BY <4>2, <2>2, <3>1, <1>2 DEF behind, before
      <4>4. Edits(a, a, ext) /\ SameRow(a, a)  BY <1>2, EditsReflexive
      <4> QED  BY <4>1, <4>3, <4>4, <1>2 DEF SameBytes
    <3>2. CASE diff # 0
      <4> DEFINE p == Put(b, cur, before)
      <4>1. h = p  BY <3>2 DEF before, b
      <4> HIDE DEF p, h
      <4>2. /\ Edits(b, p, ext) /\ SameRow(b, p) /\ p.fault = b.fault
            /\ View(p, cur) = before /\ Elsewhere(b, p, cur)
            BY <2>4 DEF p
      <4>3. Edits(a, p, ext)  BY <4>2, <2>3, EditsTransitive
      <4>4. SameRow(a, p)  BY <4>2, <2>3 DEF SameRow
      <4>5. View(p, n) = behind  BY <4>2, <2>3, <1>0, <1>3 DEF Elsewhere
      <4>6. SameBytes(f, p, {n, cur})
            BY <4>2, <2>3, <1>2 DEF Elsewhere, SameBytes
      <4> QED  BY <4>1, <4>2, <4>3, <4>4, <4>5, <4>6, <2>3
    <3> QED  BY <3>1, <3>2
  <2> HIDE DEF h, diff
  <2>6. Sound(h, ext) /\ Grown(f, h)
    <3>1. Sound(h, ext) /\ SameList(a, h) /\ SameScroll(a, h)  BY <2>5 DEF Edits
    <3>2. SameRow(f, h) /\ SameScroll(f, h)
          BY <3>1, <2>5, <1>2 DEF SameRow, SameScroll
    <3>3. /\ h.alive = f.alive \cup {n} /\ h.fresh = n + 1
          /\ h.headl = f.headl /\ h.taill = f.taill /\ h.fault = f.fault
          BY <3>1, <2>5, <1>2 DEF SameList
    <3>4. /\ h.line[n].nextl = NULL /\ h.line[n].prevl = NULL /\ h.line[n].refs = 1
          /\ \A j \in LineId : j # n => /\ h.line[j].prevl = f.line[j].prevl
                                        /\ h.line[j].nextl = f.line[j].nextl
                                        /\ h.line[j].refs = f.line[j].refs
          BY <3>1, <1>0, <1>2 DEF SameList
    <3> QED  BY <3>1, <3>2, <3>3, <3>4, <1>0 DEF Grown
  <2>7. /\ Sound(w, ext) /\ SameScroll(f, w) /\ ~w.fault
        /\ Tracks(w, InsertAt(s, k + 1, n), ext)
        /\ w.currentl = n /\ w.buffer_r = k /\ w.buffer_c = 0
        /\ \A j \in LineId : View(w, j) = View(h, j)
        BY <2>6, AddFrame
  <2> HIDE DEF w
  <2>8. AddedLine(f, w, s, k, ext) /\ SameScroll(f, w)  BY <2>7 DEF AddedLine
  <2>9. View(w, n) = behind /\ View(w, cur) = before /\ SameBytes(f, w, {n, cur})
        BY <2>5, <2>7, <1>0 DEF SameBytes
  <2> QED  BY <2>1, <2>7, <2>8, <2>9 DEF before, behind, l
<1> QED  BY <1>5, <1>6

\* The screen begins at row scroll_r of s, and the cursor is not above it.  ext says
\* how far down it may be: not below the screen, but for the keys that do not scroll.
Seen(f, s, ext) ==
    /\ f.scroll_r \in 0 .. Len(s) - 1 /\ f.scroll = s[f.scroll_r + 1]
    /\ ext.low \in Nat /\ ext.low >= Rows - 2 /\ CursorR(f) \in 0 .. ext.low

\* The keys that add a line, with the screen: what scrolling adds to the above.
LEMMA AddedScroll ==
    ASSUME NEW ext, NEW f, Sound(f, ext), NEW s, Tracks(f, s, ext), NEW k \in 1 .. Len(s),
           f.buffer_r = k - 1,
           NEW g, AddedLine(f, g, s, k, ext), SameScroll(f, g)
    PROVE  LET w == IF AtBottom(f) THEN ScrollDown(g) ELSE g
               t == InsertAt(s, k + 1, f.fresh)
           IN  /\ Sound(w, ext) /\ Tracks(w, t, ext)
               /\ SameRow(g, w) /\ w.buffer_c = g.buffer_c /\ SameBytes(g, w, {})
               /\ Seen(f, s, ext) /\ f.fresh \in LineId => ~w.fault /\ Seen(w, t, ext)
<1> DEFINE w == IF AtBottom(f) THEN ScrollDown(g) ELSE g
           d == ScrollDown(g)
           t == InsertAt(s, k + 1, f.fresh)
<1>0. /\ Sound(g, ext) /\ Tracks(g, t, ext) /\ ~g.fault /\ g.buffer_r = k
      /\ g.scroll = f.scroll /\ g.scroll_r = f.scroll_r
      /\ Len(s) \in Nat /\ s \in Seq(LineId) /\ k \in Nat /\ k >= 1 /\ k <= Len(s)
      /\ f.scroll_r \in Int
      BY ChainFacts, SoundFields DEF AddedLine, SameScroll, Tracks
<1>1. /\ Sound(d, ext) /\ Tracks(d, t, ext) /\ SameRow(g, d) /\ d.buffer_c = g.buffer_c
      /\ SameBytes(g, d, {}) /\ ScrollsOn(g, d, t)
  <2> HIDE DEF d, t
  <2> QED  BY <1>0, ScrollDownFrame DEF d
<1> HIDE DEF d
<1>2. /\ Sound(w, ext) /\ Tracks(w, t, ext)
      /\ SameRow(g, w) /\ w.buffer_c = g.buffer_c /\ SameBytes(g, w, {})
  <2> HIDE DEF t
  <2>1. CASE AtBottom(f)
    <3>1. w = d  BY <2>1 DEF d
    <3> HIDE DEF w
    <3> QED  BY <3>1, <1>1
  <2>2. CASE ~AtBottom(f)
    <3>1. w = g  BY <2>2
    <3> HIDE DEF w
    <3> QED  BY <3>1, <1>0 DEF SameRow, SameBytes
  <2> QED  BY <2>1, <2>2
<1>3. ASSUME Seen(f, s, ext), f.fresh \in LineId PROVE ~w.fault /\ Seen(w, t, ext)
  <2>1. PICK r \in Nat, m \in Nat :
           /\ r = f.scroll_r /\ r <= k - 1 /\ (k - 1) - r <= m /\ r + 1 <= Len(s)
           /\ m = ext.low /\ m >= Rows - 2
        BY <1>0, <1>3 DEF Seen, CursorR
  <2>2. /\ Len(t) = Len(s) + 1
        /\ \A i \in 1 .. Len(s) + 1 :
              t[i] = IF i < k + 1 THEN s[i] ELSE IF i = k + 1 THEN f.fresh ELSE s[i - 1]
    <3> HIDE DEF t
    <3>1. PICK p \in 1 .. Len(s) + 1 : p = k + 1  BY <1>0
    <3>4. PICK n \in LineId : n = f.fresh  BY <1>3
    <3>2. t = InsertAt(s, p, n)  BY <3>1, <3>4 DEF t
    <3>3. /\ Len(t) = Len(s) + 1
          /\ \A i \in 1 .. Len(s) + 1 :
                t[i] = IF i < p THEN s[i] ELSE IF i = p THEN n ELSE s[i - 1]
      <4>1. s \in Seq(LineId)  BY <1>0
      <4>2. /\ Len(InsertAt(s, p, n)) = Len(s) + 1
            /\ \A i \in 1 .. Len(s) + 1 :
                  InsertAt(s, p, n)[i] =
                     IF i < p THEN s[i] ELSE IF i = p THEN n ELSE s[i - 1]
        <5>1. p \in 1 .. Len(s) + 1 /\ n \in LineId  OBVIOUS
        <5>2. Len(InsertAt(s, p, n)) = Len(s) + 1  BY <4>1, <5>1, InsertAtValue
        <5>3. \A i \in 1 .. Len(s) + 1 :
                 InsertAt(s, p, n)[i] = IF i < p THEN s[i] ELSE IF i = p THEN n ELSE s[i - 1]
              BY <4>1, <5>1, InsertAtValue
        <5> QED  BY <5>2, <5>3
      <4> QED  BY <4>2, <3>2
    <3> QED  BY <3>1, <3>3, <3>4
  <2> HIDE DEF t
  <2>3. PICK i \in 1 .. Len(t) : i = r + 1 /\ i < Len(t)
    <3>1. Len(t) = Len(s) + 1 /\ Len(s) \in Nat /\ r \in Nat /\ r + 1 <= Len(s)
          BY <1>0, <2>1, <2>2
    <3>2. r + 1 \in 1 .. Len(t) /\ r + 1 < Len(t)  BY <3>1
    <3> QED  BY <3>2
  <2>4. g.scroll = t[i]
    <3>1. i \in 1 .. Len(s) + 1 /\ i < k + 1  BY <1>0, <2>1, <2>2, <2>3
    <3>2. t[i] = s[i]  BY <3>1, <2>2
    <3> QED  BY <3>2, <2>1, <2>3, <1>0, <1>3 DEF Seen
  <2>5. Rows \in Nat /\ Rows >= 3  BY RowsAssumption
  <2>6. CASE AtBottom(f)
    <3>1. w = d  BY <2>6 DEF d
    <3> HIDE DEF w
    <3>2. ~w.fault /\ w.scroll_r = r + 1 /\ w.scroll = t[i + 1] /\ w.buffer_r = k
      <4>1. i # Len(t)  BY <2>2, <2>3, <1>0
      <4>2. ~d.fault /\ d.scroll_r = g.scroll_r + 1 /\ d.scroll = t[i + 1]
            BY <4>1, <2>4, <1>1 DEF ScrollsOn
      <4> QED  BY <4>2, <3>1, <2>1, <1>0, <1>1 DEF SameRow
    <3>3. CursorR(w) \in 0 .. m
          BY <3>2, <2>1, <2>5, <1>0, SMTT(30) DEF CursorR
    <3>4. w.scroll_r \in 0 .. Len(t) - 1  BY <3>2, <2>1, <2>2, <2>3, <1>0
    <3> QED  BY <3>2, <3>3, <3>4, <2>1, <2>3 DEF Seen
  <2>7. CASE ~AtBottom(f)
    <3>1. w = g  BY <2>7
    <3> HIDE DEF w
    <3>2. (k - 1) - r + 1 <= Rows - 2
          BY <2>7, <2>1, <2>5, <1>0 DEF AtBottom, CursorR
    <3>3. CursorR(w) \in 0 .. m
          BY <3>1, <3>2, <2>1, <2>5, <1>0, SMTT(30) DEF CursorR
    <3>4. w.scroll_r \in 0 .. Len(t) - 1  BY <3>1, <2>1, <2>2, <1>0
    <3> QED  BY <3>1, <3>3, <3>4, <2>1, <2>3, <2>4, <1>0 DEF Seen
  <2> QED  BY <2>6, <2>7
<1> QED  BY <1>2, <1>3

(* The keys that move the cursor to another row *)

\* The cursor of g has gone from f to line id, at row r.
Entered(f, g, id, r) ==
    /\ ~g.fault /\ g.currentl = id /\ g.buffer_r = r /\ g.buffer_c = Clamp(f, id)
    /\ Elsewhere(f, g, id) /\ View(g, id) = MoveGap(View(f, id), Clamp(f, id))

\* cursor_up() and cursor_down() after the screen was scrolled from f to e.
LEMMA ScrolledMove ==
    ASSUME NEW ext, NEW f, Sound(f, ext), NEW e, Sound(e, ext), SameList(f, e), SameRow(f, e),
           e.buffer_c = f.buffer_c, \A j \in LineId : View(e, j) = View(f, j),
           ~e.fault, NEW s, Tracks(e, s, ext),
           NEW k \in 1 .. Len(s), f.buffer_r = k - 1, f.currentl = s[k], NEW g, NEW j \in Int,
           \/ g = CursorUp(e) /\ j = k - 1
           \/ g = CursorDown(e) /\ j = k + 1
    PROVE  /\ Sound(g, ext) /\ SameTexts(f, g) /\ SameScroll(e, g)
           /\ ~g.fault => Tracks(g, s, ext)
           /\ j \in 1 .. Len(s) /\ Good(View(f, s[j])) => Entered(f, g, s[j], j - 1)
<1>1. e.currentl = s[k] /\ e.buffer_r = k - 1 /\ Chain(e, s) /\ Counted(e, s, ext) /\ OnList(e, s)
      BY DEF SameRow, Tracks
<1>2. /\ Edits(e, g, ext) /\ SameTexts(e, g)
      /\ ~g.fault => j \in 1 .. Len(s) /\ g.currentl = s[j] /\ g.buffer_r = j - 1
      /\ j \in 1 .. Len(s) =>
            /\ g.buffer_c = Clamp(e, s[j]) /\ Elsewhere(e, g, s[j])
            /\ g.currentl = s[j] /\ g.buffer_r = j - 1
            /\ Good(View(e, s[j])) =>
                  ~g.fault /\ View(g, s[j]) = MoveGap(View(e, s[j]), Clamp(e, s[j]))
  <2>1. CASE g = CursorUp(e) /\ j = k - 1  BY <2>1, <1>1, UpDownFrame, SMTT(40)
  <2>2. CASE g = CursorDown(e) /\ j = k + 1  BY <2>2, <1>1, UpDownFrame
  <2> QED  BY <2>1, <2>2
<1>3. SameTexts(f, g)  BY <1>2 DEF SameTexts
<1>4. Sound(g, ext) /\ SameList(e, g) /\ SameScroll(e, g)  BY <1>2 DEF Edits
<1>5. ASSUME ~g.fault PROVE Tracks(g, s, ext)
  <2>1. e.alive \subseteq LineId  BY SoundFields
  <2>2. Chain(g, s) /\ Counted(g, s, ext)  BY <2>1, <1>1, <1>4, SameListChain
  <2>3. OnList(g, s)
    <3>0. Len(s) \in Nat  BY <1>1, ChainFacts
    <3>1. g.buffer_r \in 0 .. Len(s) - 1 /\ g.currentl = s[g.buffer_r + 1]
          BY <1>2, <1>5, <3>0
    <3> QED  BY <3>1, <1>1, <1>4 DEF OnList, SameScroll
  <2> QED  BY <2>2, <2>3 DEF Tracks
<1>6. ASSUME j \in 1 .. Len(s), Good(View(f, s[j])) PROVE Entered(f, g, s[j], j - 1)
  <2>1. s[j] \in LineId  BY <1>1, <1>6, ChainFacts
  <2>2. View(e, s[j]) = View(f, s[j]) /\ Clamp(e, s[j]) = Clamp(f, s[j])
    <3>1. View(e, s[j]) = View(f, s[j])  BY <2>1
    <3>2. e.line[s[j]].data_n = f.line[s[j]].data_n  BY <2>1, <3>1, ViewFields
    <3> QED  BY <3>1, <3>2 DEF Clamp
  <2>3. Elsewhere(f, g, s[j])  BY <1>2, <1>6 DEF Elsewhere
  <2> QED  BY <2>1, <2>2, <2>3, <1>2, <1>6 DEF Entered
<1> QED  BY <1>3, <1>4, <1>5, <1>6

\* The key j.
LEMMA RowDownFrame ==
    ASSUME NEW ext, NEW f, Sound(f, ext), ~f.fault, NEW s, Tracks(f, s, ext),
           NEW k \in 1 .. Len(s), f.buffer_r = k - 1, f.currentl = s[k]
    PROVE  LET g == RowDown(f)
           IN  /\ Sound(g, ext) /\ SameTexts(f, g)
               /\ ~g.fault => Tracks(g, s, ext)
               /\ Seen(f, s, ext) /\ k + 1 <= Len(s) /\ Good(View(f, s[k + 1])) =>
                     Entered(f, g, s[k + 1], k) /\ Seen(g, s, ext)
<1> DEFINE e == IF AtBottom(f) THEN ScrollDown(f) ELSE f
           d == ScrollDown(f)
           g == RowDown(f)
<1>0. /\ Len(s) \in Nat /\ k \in Nat /\ k >= 1 /\ k <= Len(s) /\ f.scroll_r \in Int
      /\ Rows \in Nat /\ Rows >= 3
      BY ChainFacts, SoundFields, RowsAssumption DEF Tracks
<1>1. /\ Sound(d, ext) /\ SameList(f, d) /\ SameRow(f, d) /\ d.buffer_c = f.buffer_c
      /\ \A j \in LineId : View(d, j) = View(f, j)
      /\ Tracks(d, s, ext)
      /\ \A i \in 1 .. Len(s) : f.scroll = s[i] =>
            /\ ~d.fault /\ d.scroll_r = f.scroll_r + 1
            /\ d.scroll = IF i = Len(s) THEN NULL ELSE s[i + 1]
  <2> HIDE DEF d
  <2>1. /\ Sound(d, ext) /\ SameList(f, d) /\ SameRow(f, d) /\ d.buffer_c = f.buffer_c
        /\ SameBytes(f, d, {}) /\ Tracks(d, s, ext) /\ ScrollsOn(f, d, s)
        BY ScrollDownFrame DEF d
  <2>2. \A j \in LineId : View(d, j) = View(f, j)  BY <2>1 DEF SameBytes
  <2> QED  BY <2>1, <2>2 DEF ScrollsOn
<1>2. /\ Sound(e, ext) /\ SameList(f, e) /\ SameRow(f, e) /\ e.buffer_c = f.buffer_c
      /\ \A j \in LineId : View(e, j) = View(f, j)
      /\ Tracks(e, s, ext)
  <2>1. CASE AtBottom(f)
    <3>1. e = d  BY <2>1
    <3> HIDE DEF d, e
    <3> QED  BY <3>1, <1>1
  <2>2. CASE ~AtBottom(f)
    <3>1. e = f  BY <2>2
    <3> HIDE DEF e
    <3> QED  BY <3>1 DEF SameList, SameRow
  <2> QED  BY <2>1, <2>2
<1>3. ASSUME Seen(f, s, ext), k + 1 <= Len(s)
      PROVE  /\ ~e.fault /\ e.scroll_r \in 0 .. Len(s) - 1 /\ e.scroll = s[e.scroll_r + 1]
             /\ ext.low \in Nat /\ ext.low >= Rows - 2 /\ k - e.scroll_r \in 0 .. ext.low
  <2>1. PICK r \in Nat, m \in Nat :
           /\ r = f.scroll_r /\ r <= k - 1 /\ (k - 1) - r <= m /\ r + 1 <= Len(s)
           /\ m = ext.low /\ m >= Rows - 2
        BY <1>0, <1>3, SMTT(30) DEF Seen, CursorR
  <2>2. CASE AtBottom(f)
    <3>1. e = d  BY <2>2
    <3> HIDE DEF e, d
    <3>2. PICK i \in 1 .. Len(s) : i = r + 1 /\ i # Len(s) /\ i \in Nat
          BY <1>0, <1>3, <2>1
    <3>3. f.scroll = s[i]  BY <1>3, <2>1, <3>2 DEF Seen
    <3>4. ~d.fault /\ d.scroll_r = r + 1 /\ d.scroll = s[i + 1]
          BY <3>2, <3>3, <2>1, <1>1
    <3>5. PICK n \in Nat : n = r + 1  BY <2>1
    <3>6. n \in 0 .. Len(s) - 1 /\ k - n \in 0 .. m /\ i = n
      <4>1. k \in Int /\ Len(s) \in Nat /\ Rows \in Nat /\ Rows >= 3 /\ k + 1 <= Len(s)
            BY <1>0, <1>3
      <4>2. i = n /\ n \in Nat /\ n <= Len(s) /\ n # Len(s)  BY <3>2, <3>5, <4>1
      <4>a. r <= k - 1 /\ (k - 1) - r <= m /\ m \in Nat  BY <2>1
      <4>3. n <= k /\ k - n <= m  BY <4>a, <3>5, <4>1
      <4> QED  BY <4>1, <4>2, <4>3, <4>a
    <3>7. ~d.fault /\ d.scroll_r = n /\ d.scroll = s[n + 1]  BY <3>4, <3>5, <3>6
    <3> QED  BY <3>1, <3>6, <3>7, <2>1
  <2>3. CASE ~AtBottom(f)
    <3>1. e = f  BY <2>3
    <3> HIDE DEF e
    <3>2. (k - 1) - r + 1 <= Rows - 2
          BY <2>3, <2>1, <1>0 DEF AtBottom, CursorR
    <3>3. k - r \in 0 .. m  BY <3>2, <2>1, <1>0
    <3>4. ~e.fault /\ e.scroll_r = r /\ e.scroll = s[r + 1]  BY <3>1, <2>1, <1>3 DEF Seen
    <3>5. r \in 0 .. Len(s) - 1  BY <2>1, <1>0
    <3> QED  BY <3>3, <3>4, <3>5, <2>1
  <2> QED  BY <2>2, <2>3
<1>4. g = CursorDown(e)  BY DEF RowDown
<1> HIDE DEF e, g, d
<1>5. CASE e.fault
  <2>1. g = e  BY <1>4, <1>5 DEF CursorDown, Check
  <2>2. SameTexts(f, g)  BY <2>1, <1>2 DEF SameTexts
  <2> QED  BY <2>1, <2>2, <1>2, <1>3, <1>5 DEF g
<1>6. CASE ~e.fault
  <2>1. PICK j \in Int : j = k + 1 /\ j - 1 = k  BY <1>0
  <2>2. /\ Sound(g, ext) /\ SameTexts(f, g) /\ SameScroll(e, g)
        /\ ~g.fault => Tracks(g, s, ext)
        /\ j \in 1 .. Len(s) /\ Good(View(f, s[j])) => Entered(f, g, s[j], j - 1)
        BY <2>1, <1>2, <1>4, <1>6, ScrolledMove
  <2>3. ASSUME Seen(f, s, ext), k + 1 <= Len(s), Good(View(f, s[k + 1]))
        PROVE  Entered(f, g, s[k + 1], k) /\ Seen(g, s, ext)
    <3>1. j \in 1 .. Len(s)  BY <2>1, <2>3, <1>0
    <3>2. Entered(f, g, s[k + 1], k)  BY <2>1, <2>2, <2>3, <3>1
    <3>3. g.buffer_r = k /\ g.scroll_r = e.scroll_r /\ g.scroll = e.scroll
          BY <3>2, <2>2 DEF Entered, SameScroll
    <3> QED  BY <3>2, <3>3, <2>3, <1>3 DEF Seen, CursorR
  <2> QED  BY <2>2, <2>3 DEF g
<1> QED  BY <1>5, <1>6

\* The key k.
LEMMA RowUpFrame ==
    ASSUME NEW ext, NEW f, Sound(f, ext), ~f.fault, NEW s, Tracks(f, s, ext),
           NEW k \in 1 .. Len(s), f.buffer_r = k - 1, f.currentl = s[k]
    PROVE  LET g == RowUp(f)
           IN  /\ Sound(g, ext) /\ SameTexts(f, g)
               /\ ~g.fault => Tracks(g, s, ext)
               /\ Seen(f, s, ext) /\ k >= 2 /\ Good(View(f, s[k - 1])) =>
                     Entered(f, g, s[k - 1], k - 2) /\ Seen(g, s, ext)
<1> DEFINE prev == f.line[f.scroll].prevl
           d == Scrolled(f, prev, f.scroll_r - 1)
           e == IF f.currentl # f.scroll THEN f ELSE d
           g == RowUp(f)
<1>0. /\ Len(s) \in Nat /\ k \in Nat /\ k >= 1 /\ k <= Len(s) /\ f.scroll_r \in Int
      /\ Rows \in Nat /\ Rows >= 3
      /\ Chain(f, s) /\ Counted(f, s, ext) /\ OnList(f, s) /\ f.alive \subseteq LineId
      BY ChainFacts, SoundFields, RowsAssumption DEF Tracks
<1>1. g = CursorUp(e)
  <2>1. CASE f.currentl # f.scroll  BY <2>1 DEF RowUp
  <2>2. CASE f.currentl = f.scroll  BY <2>2 DEF RowUp, Scrolled
  <2> QED  BY <2>1, <2>2
<1>2. f.currentl = f.scroll => prev = (IF k = 1 THEN NULL ELSE s[k - 1])
      BY <1>0 DEF Chain
<1>3. ASSUME f.currentl = f.scroll
      PROVE  /\ Sound(d, ext) /\ SameList(f, d) /\ SameRow(f, d)
             /\ d.scroll = prev /\ d.scroll_r = f.scroll_r - 1
             /\ d.buffer_c = f.buffer_c /\ d.fault = f.fault
             /\ \A j \in LineId : View(d, j) = View(f, j)
  <2>1. k # 1 => k - 1 \in 1 .. Len(s)  BY <1>0
  <2>2. prev \in f.alive \cup {NULL}  BY <2>1, <1>0, <1>2, <1>3 DEF Chain
  <2>3. PICK r \in Int : r = f.scroll_r - 1  BY <1>0
  <2> DEFINE w == Scrolled(f, prev, r)
  <2>4. d = w  BY <2>3
  <2> HIDE DEF d, prev
  <2>5. /\ Sound(w, ext) /\ SameList(f, w) /\ SameRow(f, w)
        /\ w.scroll = prev /\ w.scroll_r = r
        /\ w.buffer_c = f.buffer_c /\ w.fault = f.fault /\ SameLines(f, w)
        BY <2>2, ScrolledFrame
  <2> HIDE DEF w
  <2>6. \A j \in LineId : View(w, j) = View(f, j)  BY <2>5 DEF SameLines
  <2> QED  BY <2>3, <2>4, <2>5, <2>6
<1>4. /\ Sound(e, ext) /\ SameList(f, e) /\ SameRow(f, e) /\ e.buffer_c = f.buffer_c
      /\ ~e.fault /\ \A j \in LineId : View(e, j) = View(f, j)
      /\ Tracks(e, s, ext)
  <2>1. CASE f.currentl # f.scroll
    <3>1. e = f  BY <2>1
    <3> HIDE DEF e
    <3> QED  BY <3>1 DEF SameList, SameRow
  <2>2. CASE f.currentl = f.scroll
    <3>1. e = d  BY <2>2
    <3> HIDE DEF e, d, prev
    <3>2. Chain(d, s) /\ Counted(d, s, ext)  BY <2>2, <1>0, <1>3, SameListChain
    <3>3. OnList(d, s)
      <4>1. k # 1 => k - 1 \in 1 .. Len(s)  BY <1>0
      <4>2. d.scroll = NULL \/ \E i \in 1 .. Len(s) : d.scroll = s[i]
            BY <4>1, <2>2, <1>2, <1>3
      <4> QED  BY <4>2, <2>2, <1>0, <1>3 DEF OnList, SameRow
    <3> QED  BY <3>1, <3>2, <3>3, <2>2, <1>3 DEF Tracks
  <2> QED  BY <2>1, <2>2
<1>5. ASSUME Seen(f, s, ext), k >= 2
      PROVE  /\ e.scroll_r \in 0 .. Len(s) - 1 /\ e.scroll = s[e.scroll_r + 1]
             /\ ext.low \in Nat /\ ext.low >= Rows - 2 /\ (k - 2) - e.scroll_r \in 0 .. ext.low
  <2>1. PICK r \in Nat, m \in Nat :
           /\ r = f.scroll_r /\ r <= k - 1 /\ (k - 1) - r <= m /\ r + 1 <= Len(s)
           /\ m = ext.low /\ m >= Rows - 2
        BY <1>0, <1>5 DEF Seen, CursorR
  <2>2. PICK i \in 1 .. Len(s) : i = r + 1 /\ f.scroll = s[i]  BY <1>0, <1>5, <2>1 DEF Seen
  <2>3. f.currentl = f.scroll <=> i = k  BY <2>2, <1>0 DEF Chain
  <2>4. CASE f.currentl = f.scroll
    <3>1. e = d  BY <2>4
    <3> HIDE DEF e, d, prev
    <3>2. e.scroll_r = k - 2 /\ e.scroll = s[k - 1]
          BY <3>1, <2>1, <2>2, <2>3, <2>4, <1>0, <1>2, <1>3, <1>5, SMTT(30)
    <3>3. k - 2 + 1 = k - 1  BY <1>0
    <3> QED  BY <3>2, <3>3, <2>1, <1>0, <1>5
  <2>5. CASE f.currentl # f.scroll
    <3>1. e = f  BY <2>5
    <3> HIDE DEF e
    <3>a. i # k  BY <2>3, <2>5
    <3>b. k \in Nat /\ r \in Nat /\ r <= k - 1 /\ i = r + 1  BY <2>1, <2>2, <1>0
    <3>2. r <= k - 2  BY <3>a, <3>b
    <3>3. (k - 2) - r \in 0 .. m  BY <3>2, <2>1, <1>0
    <3>4. e.scroll_r = r /\ e.scroll = s[r + 1]  BY <3>1, <2>1, <1>5 DEF Seen
    <3>5. r \in 0 .. Len(s) - 1  BY <2>1, <1>0
    <3> QED  BY <3>3, <3>4, <3>5, <2>1
  <2> QED  BY <2>4, <2>5
<1> HIDE DEF e, g, d
<1>6. PICK j \in Int : j = k - 1 /\ j - 1 = k - 2  BY <1>0
<1>7. /\ Sound(g, ext) /\ SameTexts(f, g) /\ SameScroll(e, g)
      /\ ~g.fault => Tracks(g, s, ext)
      /\ j \in 1 .. Len(s) /\ Good(View(f, s[j])) => Entered(f, g, s[j], j - 1)
      BY <1>6, <1>1, <1>4, ScrolledMove
<1>8. ASSUME Seen(f, s, ext), k >= 2, Good(View(f, s[k - 1]))
      PROVE  Entered(f, g, s[k - 1], k - 2) /\ Seen(g, s, ext)
  <2>1. j \in 1 .. Len(s)  BY <1>6, <1>8, <1>0
  <2>2. Entered(f, g, s[k - 1], k - 2)  BY <1>6, <1>7, <1>8, <2>1
  <2>3. g.buffer_r = k - 2 /\ g.scroll_r = e.scroll_r /\ g.scroll = e.scroll
        BY <2>2, <1>7 DEF Entered, SameScroll
  <2> QED  BY <2>2, <2>3, <1>5, <1>8 DEF Seen, CursorR
<1> QED  BY <1>7, <1>8 DEF g

(* The keys that take a line away *)

\* cutl() keeps a line only when it is the only one.
LEMMA CutNone ==
    ASSUME NEW ext, NEW f, NEW s, Tracks(f, s, ext), NEW k \in 1 .. Len(s), f.currentl = s[k]
    PROVE  CutlReturns(f) = "NONE_DELETED" <=> Len(s) = 1
<1>0. Len(s) \in Nat /\ Len(s) >= 1 /\ \A i \in 1 .. Len(s) : s[i] # NULL
      BY ChainFacts DEF Tracks
<1>1. /\ f.line[s[k]].nextl = IF k = Len(s) THEN NULL ELSE s[k + 1]
      /\ f.line[s[k]].prevl = IF k = 1 THEN NULL ELSE s[k - 1]
      BY DEF Tracks, Chain
<1>2. /\ k # 1 => k - 1 \in 1 .. Len(s)
      /\ k # Len(s) => k + 1 \in 1 .. Len(s)
      BY <1>0
<1>3. CASE Len(s) = 1
  <2>1. f.line[s[k]].nextl = NULL /\ f.line[s[k]].prevl = NULL  BY <1>0, <1>1, <1>3
  <2> QED  BY <2>1, <1>3 DEF CutlReturns
<1>4. CASE Len(s) # 1
  <2>1. k # 1 \/ k # Len(s)  BY <1>4
  <2>2. f.line[s[k]].nextl # NULL \/ f.line[s[k]].prevl # NULL
        BY <2>1, <1>0, <1>1, <1>2
  <2> QED  BY <2>2, <1>4 DEF CutlReturns
<1> QED  BY <1>3, <1>4

\* The key dd.
LEMMA DeleteFrame ==
    ASSUME NEW ext, NEW f, Sound(f, ext), ~f.fault, NEW s, Tracks(f, s, ext),
           NEW k \in 1 .. Len(s), f.buffer_r = k - 1, f.currentl = s[k]
    PROVE  LET g == DeleteLine(f)
               l == View(f, f.currentl)
           IN  /\ Sound(g, ext)
               /\ Len(s) = 1 =>
                     /\ ~g.fault /\ Tracks(g, s, ext) /\ g.buffer_c = 0
                     /\ View(g, f.currentl) = Line(0, l.size - 1, l.size, 0, l.data)
               /\ Len(s) # 1 => g = Cutl(f)
<1> DEFINE id == f.currentl
           l == View(f, id)
           m == Line(0, l.size - 1, l.size, 0, l.data)
           p == [Put(f, id, m) EXCEPT !.buffer_c = 0]
           g == DeleteLine(f)
<1>0. id \in LineId /\ Shaped(l)  BY SoundFields, ViewFields
<1>1. CASE Len(s) # 1
  <2>1. Len(s) \in Nat /\ Len(s) >= 2
    <3>1. Len(s) \in Nat /\ Len(s) >= 1  BY ChainFacts DEF Tracks
    <3>2. \A n \in Nat : n >= 1 /\ n # 1 => n >= 2  OBVIOUS
    <3> QED  BY <3>1, <3>2, <1>1
  <2>2. g = Cutl(f)  BY <1>1, CutNone DEF DeleteLine
  <2>3. Sound(Cutl(f), ext)  BY <2>1, CutFrame
  <2> HIDE DEF g
  <2> QED  BY <2>2, <2>3, <1>1 DEF g
<1>2. CASE Len(s) = 1
  <2>1. Shaped(m)
    <3> HIDE DEF l
    <3>1. /\ l.size \in Nat /\ l.size - 1 \in Nat /\ 0 < l.size - 1
          /\ l.data \in [0 .. l.size - 1 -> Byte]
          BY <1>0, ShapedFields
    <3>2. PICK e \in Nat, z \in Nat : e = l.size - 1 /\ z = l.size /\ e < z  BY <3>1
    <3>4. l.data \in [0 .. z - 1 -> Byte] /\ 0 \in Nat /\ 0 < e  BY <3>1, <3>2
    <3>3. Shaped(Line(0, e, z, 0, l.data))  BY <3>2, <3>4, MakeShaped
    <3> QED  BY <3>2, <3>3
  <2>2. g = p
    <3>1. CutlReturns(f) = "NONE_DELETED"  BY <1>2, CutNone
    <3>2. /\ f \in Frame /\ f.line[id] \in LineStruct /\ f.line[id].data = id
          /\ f.bytes \in [LineId -> ByteArray] /\ f.line \in [LineId -> LineStruct]
      <4>1. f \in Frame /\ f.line[id].data = id  BY <1>0 DEF Sound
      <4> QED  BY <4>1, <1>0, SoundFields, StructFields
    <3>3. /\ l.size = f.line[id].size /\ l.data = f.bytes[id]
          /\ m.sog = 0 /\ m.eog = l.size - 1 /\ m.size = l.size /\ m.data_n = 0
          /\ m.data = l.data
          BY <1>0, ViewFields DEF Line
    <3> HIDE DEF m, l
    <3>4. [f.bytes EXCEPT ![id] = m.data] = f.bytes  BY <3>2, <3>3, <1>0
    <3>5. p = [f EXCEPT !.line = [f.line EXCEPT ![id] =
                          [f.line[id] EXCEPT !.sog = 0, !.eog = f.line[id].size - 1,
                                             !.size = f.line[id].size, !.data_n = 0]],
                        !.buffer_c = 0]
          BY <3>2, <3>3, <3>4, <1>0 DEF Put, Frame
    <3>6. PICK a \in LineStruct, b \in LineStruct :
             /\ a = [f.line[id] EXCEPT !.sog = 0, !.eog = f.line[id].size - 1, !.data_n = 0]
             /\ b = [f.line[id] EXCEPT !.sog = 0, !.eog = f.line[id].size - 1,
                                       !.size = f.line[id].size, !.data_n = 0]
             /\ a = b
      <4>1. f.line[id].size - 1 \in Nat
        <5>1. l.size \in Nat /\ l.size - 1 \in Nat
          <6>1. l.size \in Nat /\ l.eog \in Nat /\ l.sog \in Nat /\ l.sog < l.eog /\ l.eog < l.size
                BY <1>0, ShapedFields
          <6> QED  BY <6>1
        <5> QED  BY <5>1, <3>3
      <4> DEFINE a == [f.line[id] EXCEPT !.sog = 0, !.eog = f.line[id].size - 1, !.data_n = 0]
                 b == [f.line[id] EXCEPT !.sog = 0, !.eog = f.line[id].size - 1,
                                         !.size = f.line[id].size, !.data_n = 0]
      <4>2. a \in LineStruct  BY <4>1, <3>2 DEF LineStruct
      <4>3. b \in LineStruct  BY <4>1, <3>2 DEF LineStruct
      <4>4. a = b  BY <3>2 DEF LineStruct
      <4> QED  BY <4>2, <4>3, <4>4
    <3>7. p = [f EXCEPT !.line = [f.line EXCEPT ![id] = a], !.buffer_c = 0]
          BY <3>5, <3>6
    <3>8. g = [f EXCEPT !.line = [f.line EXCEPT ![id] = a], !.buffer_c = 0]
      <4>1. g = [f EXCEPT !.line[id].sog = 0, !.line[id].eog = f.line[id].size - 1,
                          !.line[id].data_n = 0, !.buffer_c = 0]
            BY <3>1 DEF DeleteLine
      <4> DEFINE x == [f.line EXCEPT ![id].sog = 0]
                 y == [x EXCEPT ![id].eog = f.line[id].size - 1]
                 z == [y EXCEPT ![id].data_n = 0]
      <4>2. g = [f EXCEPT !.line = z, !.buffer_c = 0]
        <5> HIDE DEF g, id
        <5> QED  BY <4>1, <3>2, <1>0 DEF Frame
      <4>3. z = [f.line EXCEPT ![id] = a]
        <5> HIDE DEF g, id
        <5>1. x = [f.line EXCEPT ![id] = [f.line[id] EXCEPT !.sog = 0]]  BY <3>2, <1>0
        <5>2. y = [f.line EXCEPT ![id] = [f.line[id] EXCEPT !.sog = 0,
                                                            !.eog = f.line[id].size - 1]]
              BY <5>1, <3>2, <1>0
        <5>3. z = [f.line EXCEPT ![id] = [f.line[id] EXCEPT !.sog = 0,
                                            !.eog = f.line[id].size - 1, !.data_n = 0]]
              BY <5>2, <3>2, <1>0
        <5> QED  BY <5>3, <3>6
      <4> QED  BY <4>2, <4>3
    <3> QED  BY <3>7, <3>8
  <2> HIDE DEF m, g, l
  <2>3. /\ Edits(f, p, ext) /\ SameRow(f, p) /\ p.buffer_c = 0 /\ p.fault = f.fault
        /\ View(p, id) = m
    <3> HIDE DEF id
    <3> QED  BY <2>1, <1>0, PutColumn
  <2> HIDE DEF p
  <2>4. Tracks(p, s, ext)  BY <2>3, EditsTracks
  <2> QED  BY <2>2, <2>3, <2>4, <1>2 DEF Edits, g, m, l
<1> QED  BY <1>1, <1>2

\* merge_lines_up() before it cuts the lower line: its characters are behind those
\* of the line above.
Merged(f, lower) ==
    LET upper == f.line[lower].prevl
        ready == MoveGapToCursor([f EXCEPT !.currentl = upper,
                                           !.buffer_c = f.line[upper].data_n])
        moved == InsertText(IF ready.fault THEN ready ELSE [ready EXCEPT !.currentl = lower],
                            upper, Text(View(f, lower)), FALSE)
    IN  IF f.line[lower].data_n # 0 THEN Check(f, Readable(f, lower), moved) ELSE f

\* What it does to the two lines, and to no other.
LEMMA MergeFrame ==
    ASSUME NEW ext, NEW f, Sound(f, ext), ~f.fault, NEW upper \in f.alive,
           upper = f.line[f.currentl].prevl, upper # f.currentl
    PROVE  LET lower == f.currentl
               g == Merged(f, lower)
               u == View(f, upper)
               l == View(f, lower)
               v == View(g, upper)
           IN  /\ Edits(f, g, ext) /\ Elsewhere(f, g, upper)
               /\ ~g.fault => SameRow(f, g)
               /\ Good(u) /\ Good(l) =>
                     /\ ~g.fault /\ Good(v) /\ v.data_n = u.data_n + l.data_n
                     /\ Text(v) = Text(u) \o Text(l)
<1> DEFINE lower == f.currentl
           u == View(f, upper)
           l == View(f, lower)
           n == u.data_n
           p == Placed(f, upper, f.buffer_r, n)
           ready == MoveGapToCursor(p)
           back == IF ready.fault THEN ready ELSE Placed(ready, lower, f.buffer_r, n)
           txt == Text(l)
           moved == InsertText(back, upper, txt, FALSE)
           g == Merged(f, lower)
           v == View(g, upper)
           easy == Good(u) /\ Good(l)
<1>0. /\ lower \in f.alive /\ lower \in LineId /\ upper \in LineId
      /\ f.buffer_r \in Int /\ f \in Frame
      /\ n \in Nat /\ n = f.line[upper].data_n /\ l.data_n = f.line[lower].data_n
      /\ l.data_n \in Nat /\ Shaped(l) /\ Readable(f, lower)
  <2>1. /\ lower \in f.alive /\ lower \in LineId /\ upper \in LineId
        /\ f.buffer_r \in Int /\ f \in Frame
        BY SoundFields DEF Sound
  <2>2. n = f.line[upper].data_n /\ n \in Nat  BY <2>1, StructFields, ViewFields
  <2>3. /\ l.data_n = f.line[lower].data_n /\ l.data_n \in Nat /\ Shaped(l)
        BY <2>1, StructFields, ViewFields
  <2>4. Readable(f, lower)  BY <2>1, AliveUsable
  <2> HIDE DEF n, l
  <2> QED  BY <2>1, <2>2, <2>3, <2>4
<1>1. /\ Edits(f, p, ext) /\ p.fault = f.fault /\ p.currentl = upper
      /\ p.buffer_r = f.buffer_r /\ p.buffer_c = n
      /\ \A j \in LineId : View(p, j) = View(f, j)
  <2> HIDE DEF p, n
  <2>1. PICK c \in Nat, r \in Int : c = n /\ r = f.buffer_r  BY <1>0
  <2>2. p = Placed(f, upper, r, c)  BY <2>1 DEF p
  <2> QED  BY <2>1, <2>2, CursorEdits
<1>2. p = [f EXCEPT !.currentl = upper, !.buffer_c = f.line[upper].data_n]
  <2> HIDE DEF n
  <2> QED  BY <1>0 DEF Placed, Frame
<1> HIDE DEF p
<1>3. /\ Edits(p, ready, ext) /\ SameRow(p, ready) /\ ready.buffer_c = n
      /\ Elsewhere(f, ready, upper)
      /\ easy => ~ready.fault /\ View(ready, upper) = MoveGap(u, n)
  <2> HIDE DEF ready, n, l
  <2>1. Sound(p, ext) /\ View(p, upper) = u  BY <1>0, <1>1 DEF Edits
  <2>2. /\ Edits(p, ready, ext) /\ SameRow(p, ready) /\ ready.buffer_c = p.buffer_c
        /\ Elsewhere(p, ready, p.currentl)
        /\ ~p.fault /\ Good(u) /\ p.buffer_c <= u.data_n =>
              ~ready.fault /\ View(ready, upper) = MoveGap(u, n)
        BY <1>1, <2>1, MoveGapFrame DEF ready
  <2>3. p.buffer_c <= u.data_n  BY <1>0, <1>1 DEF n
  <2> QED  BY <2>2, <2>3, <1>1 DEF Elsewhere
<1>4. Edits(f, ready, ext) /\ Sound(ready, ext) /\ ready.alive = f.alive
      /\ ready.buffer_r = f.buffer_r
      BY <1>1, <1>3, EditsTransitive DEF Edits, SameRow, SameList
<1> HIDE DEF ready
<1>5. /\ Edits(f, back, ext) /\ Elsewhere(f, back, upper) /\ Sound(back, ext)
      /\ back.buffer_c = n /\ back.fault = ready.fault
      /\ ~ready.fault => back.currentl = lower /\ back.buffer_r = f.buffer_r
      /\ View(back, upper) = View(ready, upper)
  <2>1. CASE ready.fault
    <3>1. back = ready  BY <2>1
    <3> HIDE DEF back
    <3> QED  BY <3>1, <2>1, <1>3, <1>4
  <2>2. CASE ~ready.fault
    <3> DEFINE w == Placed(ready, lower, f.buffer_r, n)
    <3>1. back = w  BY <2>2
    <3> HIDE DEF back, n, lower
    <3>2. PICK c \in Nat, r \in Int, id \in ready.alive : c = n /\ r = f.buffer_r /\ id = lower
          BY <1>0, <1>4
    <3>3. w = Placed(ready, id, r, c)  BY <3>2
    <3> HIDE DEF w
    <3>4. /\ Edits(ready, w, ext) /\ w.fault = ready.fault
          /\ w.currentl = lower /\ w.buffer_r = f.buffer_r /\ w.buffer_c = n
          /\ \A j \in LineId : View(w, j) = View(ready, j)
          BY <3>2, <3>3, <1>4, CursorEdits
    <3>5. Edits(f, w, ext) /\ Sound(w, ext)  BY <3>4, <1>4, EditsTransitive DEF Edits
    <3>6. Elsewhere(f, w, upper)  BY <3>4, <1>3 DEF Elsewhere
    <3>7. View(w, upper) = View(ready, upper)  BY <3>4, <1>0
    <3> QED  BY <3>1, <3>4, <3>5, <3>6, <3>7, <2>2
  <2> QED  BY <2>1, <2>2
<1>6. back = IF ready.fault THEN ready ELSE [ready EXCEPT !.currentl = lower]
  <2>1. ready = [ready EXCEPT !.buffer_r = f.buffer_r, !.buffer_c = n] /\ ready \in Frame
    <3> HIDE DEF n
    <3>1. ready \in Frame  BY <1>4 DEF Sound
    <3>2. ready.buffer_r = f.buffer_r /\ ready.buffer_c = n  BY <1>3, <1>4
    <3> QED  BY <3>1, <3>2 DEF Frame
  <2> HIDE DEF n, lower
  <2> QED  BY <2>1 DEF Placed, Frame
<1> HIDE DEF back
<1>7. txt \in Seq(Byte)
  <2> HIDE DEF l
  <2> QED  BY <1>0, TextOfShaped
<1>8. /\ Edits(back, moved, ext) /\ SameRow(back, moved) /\ Elsewhere(back, moved, upper)
      /\ back.fault => moved.fault
      /\ /\ ~back.fault /\ upper \in back.alive /\ Good(View(back, upper)) /\ txt \in Seq(Char)
         /\ View(back, upper).sog = back.buffer_c /\ View(back, upper).data_n = back.buffer_c
         => TypedBehind(back, moved, upper, txt, Len(txt))
  <2> HIDE DEF txt, moved
  <2> QED  BY <1>0, <1>5, <1>7, TypeFrame DEF moved
<1>9. /\ Edits(f, moved, ext) /\ Elsewhere(f, moved, upper)
      /\ ~moved.fault => SameRow(f, moved)
  <2> HIDE DEF moved
  <2>1. Edits(f, moved, ext)  BY <1>5, <1>8, EditsTransitive
  <2>2. Elsewhere(f, moved, upper)  BY <1>5, <1>8 DEF Elsewhere
  <2> QED  BY <2>1, <2>2, <1>5, <1>8 DEF SameRow
<1>10. g = IF f.line[lower].data_n # 0 THEN moved ELSE f
  <2>1. g = IF f.line[lower].data_n # 0 THEN Check(f, Readable(f, lower), moved) ELSE f
        BY <1>2, <1>6 DEF Merged, ready
  <2> HIDE DEF moved, g
  <2> QED  BY <2>1, <1>0 DEF Check
<1>11. Edits(f, g, ext) /\ Elsewhere(f, g, upper) /\ (~g.fault => SameRow(f, g))
  <2> HIDE DEF moved, g
  <2> QED  BY <1>9, <1>10, EditsReflexive DEF Elsewhere
<1>12. ASSUME easy
       PROVE  /\ ~g.fault /\ Good(v) /\ v.data_n = n + l.data_n
              /\ Text(v) = Text(u) \o txt
  <2>0. /\ Text(u) = [i \in 1 .. n |-> CharAt(u, i)] /\ Text(u) \in Seq(Char) /\ Len(Text(u)) = n
        /\ txt \in Seq(Char) /\ Len(txt) = l.data_n
    <3>1. Good(u) /\ Good(l)  BY <1>12
    <3> HIDE DEF u, l
    <3> QED  BY <3>1, TextOfGood
  <2>1. CASE l.data_n = 0
    <3>1. g = f  BY <2>1, <1>0, <1>10
    <3>2. Text(u) \o txt = Text(u)
      <4> DEFINE a == Text(u)
      <4>1. a \in Seq(Char) /\ txt \in Seq(Char) /\ Len(txt) = 0  BY <2>0, <2>1
      <4> HIDE DEF a, txt
      <4>2. /\ a \o txt \in Seq(Char) /\ Len(a \o txt) = Len(a) + 0
            /\ \A i \in 1 .. Len(a) : (a \o txt)[i] = a[i]
            BY <4>1, ConcatValue
      <4>3. Len(a \o txt) = Len(a)  BY <4>1, <4>2
      <4>4. a \o txt = a  BY <4>1, <4>2, <4>3, SameSeq
      <4> QED  BY <4>4 DEF a
    <3>3. v = u  BY <3>1
    <3> HIDE DEF g, v, u, l, txt
    <3> QED  BY <3>1, <3>2, <3>3, <2>1, <1>0, <1>12
  <2>2. CASE l.data_n # 0
    <3>1. g = moved  BY <2>2, <1>0, <1>10
    <3> DEFINE m == View(back, upper)
    <3>2. /\ ~back.fault /\ m = MoveGap(u, n) /\ upper \in back.alive
          BY <1>0, <1>3, <1>5, <1>12 DEF Edits, SameList
    <3>3. Good(m) /\ m.sog = n /\ m.data_n = n /\ Text(m) = Text(u)
      <4>1. Good(u) /\ n <= u.data_n /\ n \in Nat /\ n = u.data_n  BY <1>0, <1>12
      <4> HIDE DEF u, m, n
      <4> QED  BY <4>1, <3>2, MoveGapGood
    <3>4. TypedBehind(back, moved, upper, txt, Len(txt))
      <4> HIDE DEF moved, txt, m, n
      <4> QED  BY <3>2, <3>3, <2>0, <1>5, <1>8 DEF m
    <3> HIDE DEF g, u, l, txt, m, moved, n
    <3>5. /\ ~g.fault /\ Good(v) /\ v.data_n = n + l.data_n
          /\ \A i \in 1 .. n : CharAt(v, i) = CharAt(m, i)
          /\ \A i \in 1 .. l.data_n : CharAt(v, n + i) = txt[i]
          BY <3>1, <3>3, <3>4, <2>0, <1>5 DEF TypedBehind, m
    <3> HIDE DEF v
    <3>6. Text(v) = [i \in 1 .. v.data_n |-> CharAt(v, i)] /\ Text(v) \in Seq(Char)
          /\ Len(Text(v)) = v.data_n
          BY <3>5, TextOfGood
    <3>7. Text(m) = [i \in 1 .. n |-> CharAt(m, i)]  BY <3>3, TextOfGood
    <3>8. /\ Text(u) \o txt \in Seq(Char) /\ Len(Text(u) \o txt) = n + l.data_n
          /\ \A i \in 1 .. n : (Text(u) \o txt)[i] = Text(u)[i]
          /\ \A i \in 1 .. l.data_n : (Text(u) \o txt)[n + i] = txt[i]
      <4> DEFINE a == Text(u)
      <4>0. a \in Seq(Char) /\ txt \in Seq(Char)  BY <2>0
      <4>1. Len(a) = n /\ Len(txt) = l.data_n  BY <2>0
      <4> HIDE DEF a
      <4>2. /\ a \o txt \in Seq(Char) /\ Len(a \o txt) = Len(a) + Len(txt)
            /\ \A i \in 1 .. Len(a) : (a \o txt)[i] = a[i]
            /\ \A i \in 1 .. Len(txt) : (a \o txt)[Len(a) + i] = txt[i]
            BY <4>0, ConcatValue
      <4> QED  BY <4>1, <4>2 DEF a
    <3>9. \A i \in 1 .. n + l.data_n : Text(v)[i] = (Text(u) \o txt)[i]
      <4> SUFFICES ASSUME NEW i \in 1 .. n + l.data_n
                   PROVE  Text(v)[i] = (Text(u) \o txt)[i]
          OBVIOUS
      <4>0. i \in Nat /\ n \in Nat /\ l.data_n \in Nat /\ Text(v)[i] = CharAt(v, i)
        <5>1. n \in Nat /\ l.data_n \in Nat  BY <1>0
        <5>2. i \in Nat /\ i \in 1 .. v.data_n  BY <5>1, <3>5
        <5> QED  BY <5>1, <5>2, <3>6
      <4>1. CASE i <= n
        <5>1. i \in 1 .. n  BY <4>0, <4>1
        <5>2. Text(u)[i] = CharAt(m, i)  BY <5>1, <3>3, <3>7
        <5> QED  BY <4>0, <5>1, <5>2, <3>5, <3>8
      <4>2. CASE i > n
        <5>1. PICK j \in 1 .. l.data_n : n + j = i
          <6>1. i - n \in 1 .. l.data_n /\ n + (i - n) = i  BY <4>0, <4>2
          <6> QED  BY <6>1
        <5> QED  BY <4>0, <5>1, <3>5, <3>8
      <4>3. i <= n \/ i > n  BY <4>0
      <4> QED  BY <4>1, <4>2, <4>3
    <3>10. Text(v) = Text(u) \o txt
      <4> DEFINE a == Text(v)
                 b == Text(u) \o txt
      <4>1. /\ a \in Seq(Char) /\ b \in Seq(Char) /\ Len(a) = Len(b)
            /\ \A i \in 1 .. Len(a) : a[i] = b[i]
            BY <3>5, <3>6, <3>8, <3>9
      <4> HIDE DEF a, b
      <4>2. a = b  BY <4>1, SameSeq
      <4> QED  BY <4>2 DEF a, b
    <3> QED  BY <3>5, <3>10
  <2> QED  BY <2>1, <2>2
<1> QED  BY <1>11, <1>12

\* In g the line low of f has been joined to the line up, with the cursor between.
Joined(f, g, up, low) ==
    LET u == View(f, up)
        v == View(g, up)
    IN  /\ ~g.fault /\ SameScroll(f, g) /\ Elsewhere(f, g, up)
        /\ g.currentl = up /\ g.buffer_c = u.data_n
        /\ Good(v) /\ v.sog = u.data_n /\ Text(v) = Text(u) \o Text(View(f, low))

\* DEL at column 0.
LEMMA JoinFrame ==
    ASSUME NEW ext, NEW f, Sound(f, ext), ~f.fault, NEW s, Tracks(f, s, ext),
           NEW k \in 1 .. Len(s), k >= 2,
           f.buffer_r = k - 1, f.currentl = s[k]
    PROVE  LET g == JoinLine(f, FALSE)
               up == s[k - 1]
           IN  /\ Sound(g, ext)
               /\ ~g.fault => Tracks(g, RemoveAt(s, k), ext)
               /\ k = Len(s) /\ f.scroll # s[k] /\ Good(View(f, up)) /\ Good(View(f, s[k])) =>
                     Joined(f, g, up, s[k]) /\ g.buffer_r = k - 2
<1> DEFINE up == s[k - 1]
           low == s[k]
           u == View(f, up)
           l == View(f, low)
           full == Merged(f, low)
           t == full.line[up].data_n - full.line[low].data_n
           cut == Cutl(full)
           set == [cut EXCEPT !.buffer_c = t]
           h == MergeLinesUp(f, low, FALSE)
           g == JoinLine(f, FALSE)
           v == View(g, up)
           rest == RemoveAt(s, k)
           easy == k = Len(s) /\ f.scroll # low /\ Good(u) /\ Good(l)
<1>0. /\ Len(s) \in Nat /\ k \in Nat /\ Len(s) >= 2 /\ k <= Len(s) /\ k - 1 \in 1 .. Len(s)
      /\ k - 1 # k /\ s \in Seq(LineId) /\ Chain(f, s)
      BY ChainFacts DEF Tracks
<1>1. /\ up \in f.alive /\ low \in f.alive /\ up \in LineId /\ low \in LineId
      /\ f.line[low].prevl = up /\ up # low /\ low = f.currentl
      /\ Usable(f, up) /\ Usable(f, low)
  <2>1. up \in f.alive /\ low \in f.alive  BY <1>0 DEF Chain
  <2>2. f.line[low].prevl = up  BY <1>0 DEF Chain
  <2>3. up # low  BY <1>0 DEF Chain
  <2> QED  BY <2>1, <2>2, <2>3, AliveUsable
<1>2. h = Check(full, t >= 0, Check(cut, TRUE, set))
  <2> DEFINE q == f.line[low].prevl
             x == full.line[q].data_n - full.line[low].data_n
  <2>1. h = Check(f, Usable(f, low) /\ Usable(f, q),
                  Check(full, x >= 0, Check(cut, TRUE, [cut EXCEPT !.buffer_c = x])))
        BY DEF MergeLinesUp, Merged
  <2>2. q = up  BY <1>1
  <2>3. x = t  BY <2>2
  <2> HIDE DEF h, full, cut, x, t, q
  <2> QED  BY <2>1, <2>2, <2>3, <1>1 DEF Check
<1>3. g = MoveGapToCursor(h)  BY <1>1 DEF JoinLine
<1> HIDE DEF up, low
<1>4. /\ Edits(f, full, ext) /\ Sound(full, ext) /\ Elsewhere(f, full, up)
      /\ ~full.fault => SameRow(f, full) /\ Tracks(full, s, ext)
      /\ easy => /\ ~full.fault /\ Good(View(full, up))
                 /\ View(full, up).data_n = u.data_n + l.data_n
                 /\ Text(View(full, up)) = Text(u) \o Text(l)
  <2> HIDE DEF full
  <2>1. /\ Edits(f, full, ext) /\ Elsewhere(f, full, up)
        /\ ~full.fault => SameRow(f, full)
        /\ easy => /\ ~full.fault /\ Good(View(full, up))
                   /\ View(full, up).data_n = u.data_n + l.data_n
                   /\ Text(View(full, up)) = Text(u) \o Text(l)
        BY <1>1, MergeFrame DEF full
  <2> QED  BY <2>1, EditsTracks DEF Edits
<1>5. t \in Int
  <2> HIDE DEF full
  <2> QED  BY <1>1, <1>4, StructFields
<1> HIDE DEF full
<1>6. ASSUME ~full.fault
      PROVE  /\ Sound(cut, ext)
             /\ ~cut.fault => Tracks(cut, rest, ext)
             /\ easy => /\ ~cut.fault /\ SameScroll(full, cut)
                        /\ cut.buffer_r = k - 2 /\ cut.currentl = up
                        /\ Elsewhere(full, cut, up)
                        /\ View(cut, up) = MoveGap(View(full, up), Clamp(full, up))
  <2>1. full.currentl = low /\ full.buffer_r = k - 1 /\ Tracks(full, s, ext)
        BY <1>1, <1>4, <1>6 DEF SameRow
  <2>2. easy => full.scroll # low /\ Good(View(full, up))
        BY <1>4 DEF Edits, SameScroll
  <2> HIDE DEF cut
  <2>3. /\ Sound(cut, ext)
        /\ ~cut.fault => Tracks(cut, rest, ext)
        /\ k = Len(s) /\ full.scroll # low /\ Good(View(full, up)) =>
                     /\ ~cut.fault /\ SameScroll(full, cut)
                     /\ cut.buffer_r = k - 2 /\ cut.currentl = up
                     /\ Elsewhere(full, cut, up)
                     /\ View(cut, up) = MoveGap(View(full, up), Clamp(full, up))
    <3> DEFINE c == Cutl(full)
    <3>0. ~full.fault /\ Len(s) >= 2  BY <1>0, <1>6
    <3>1. Sound(c, ext) /\ (~c.fault => Tracks(c, RemoveAt(s, k), ext))
          BY <3>0, <2>1, <1>4, CutFrame DEF low
    <3>2. CutsLast(full, c, s, k)  BY <3>0, <2>1, <1>4, CutFrame DEF low
    <3> HIDE DEF c
    <3> QED  BY <3>1, <3>2 DEF CutsLast, c, cut, up, low
  <2> QED  BY <2>2, <2>3
<1> HIDE DEF cut
<1>7. CASE full.fault
  <2>1. h = full  BY <1>2, <1>7 DEF Check
  <2>2. g = full  BY <2>1, <1>3, <1>7 DEF MoveGapToCursor, Check
  <2> HIDE DEF g, h
  <2> QED  BY <2>2, <1>4, <1>7 DEF g, up, low
<1>8. CASE ~full.fault /\ t < 0
  <2>1. h = [full EXCEPT !.fault = TRUE]
    <3> HIDE DEF t, h
    <3>1. ~(t >= 0)  BY <1>5, <1>8
    <3> QED  BY <3>1, <1>2, <1>8 DEF Check
  <2>2. Sound(h, ext) /\ h.fault
    <3> HIDE DEF h, t
    <3> QED  BY <2>1, <1>4, FaultEdits DEF Edits
  <2> HIDE DEF h
  <2>3. g = h  BY <2>2, <1>3 DEF MoveGapToCursor, Check
  <2>4. ~easy
    <3> SUFFICES ASSUME easy PROVE FALSE  OBVIOUS
    <3>1. View(full, up).data_n = u.data_n + l.data_n /\ View(full, low) = l
          BY <1>1, <1>4 DEF Elsewhere
    <3>2. /\ full.line[up].data_n = u.data_n + l.data_n /\ full.line[low].data_n = l.data_n
          /\ u.data_n \in Nat /\ l.data_n \in Nat
      <4>0. /\ u.data_n = f.line[up].data_n /\ l.data_n = f.line[low].data_n
            /\ up \in LineId /\ low \in LineId
            BY <1>1, ViewFields
      <4> HIDE DEF u, l, up, low
      <4>1. u.data_n \in Nat /\ l.data_n \in Nat  BY <4>0, StructFields
      <4> QED  BY <3>1, <4>1, <1>1, <1>4, ViewFields
    <3>3. t = (u.data_n + l.data_n) - l.data_n  BY <3>2
    <3> HIDE DEF t, u, l
    <3> QED  BY <3>2, <3>3, <1>8
  <2> HIDE DEF g
  <2> QED  BY <2>2, <2>3, <2>4 DEF g, up, low
<1>9. CASE ~full.fault /\ t >= 0
  <2>0. t \in Nat  BY <1>5, <1>9
  <2>1. h = IF cut.fault THEN cut ELSE set  BY <1>2, <1>9 DEF Check
  <2>2. /\ Sound(h, ext) /\ (~h.fault => Tracks(h, rest, ext))
        /\ easy => /\ ~h.fault /\ SameScroll(full, h)
                   /\ h.buffer_r = k - 2 /\ h.currentl = up /\ h.buffer_c = t
                   /\ Elsewhere(full, h, up)
                   /\ View(h, up) = MoveGap(View(full, up), Clamp(full, up))
    <3>1. CASE cut.fault
      <4>1. h = cut  BY <2>1, <3>1
      <4> HIDE DEF h
      <4> QED  BY <4>1, <3>1, <1>6, <1>9
    <3>2. CASE ~cut.fault
      <4>1. h = set  BY <2>1, <3>2
      <4> HIDE DEF h, t, rest
      <4>2. Sound(cut, ext) /\ Tracks(cut, rest, ext)  BY <3>2, <1>6, <1>9
      <4>3. /\ Edits(cut, set, ext) /\ SameRow(cut, set) /\ set.buffer_c = t
            /\ set.fault = cut.fault
            /\ \A j \in LineId : View(set, j) = View(cut, j)
            BY <4>2, <2>0, ColumnEdits
      <4> HIDE DEF set
      <4>4. Sound(set, ext) /\ Tracks(set, rest, ext)  BY <4>2, <4>3, EditsTracks DEF Edits
      <4>5. ASSUME easy
            PROVE  /\ SameScroll(full, set) /\ set.buffer_r = k - 2 /\ set.currentl = up
                   /\ Elsewhere(full, set, up)
                   /\ View(set, up) = MoveGap(View(full, up), Clamp(full, up))
        <5> HIDE DEF easy
        <5>1. /\ SameScroll(full, cut) /\ cut.buffer_r = k - 2 /\ cut.currentl = up
              /\ Elsewhere(full, cut, up)
              /\ View(cut, up) = MoveGap(View(full, up), Clamp(full, up))
              BY <4>5, <1>6, <1>9
        <5> QED  BY <5>1, <4>3, <1>1 DEF Edits, SameScroll, SameRow, Elsewhere
      <4> QED  BY <4>1, <4>3, <4>4, <4>5, <3>2
    <3> QED  BY <3>1, <3>2
  <2> HIDE DEF h
  <2>3. /\ Edits(h, g, ext) /\ SameRow(h, g) /\ g.buffer_c = h.buffer_c
        /\ Elsewhere(h, g, h.currentl)
        /\ ~h.fault /\ Good(View(h, h.currentl)) /\ h.buffer_c <= View(h, h.currentl).data_n =>
              ~g.fault /\ View(g, h.currentl) = MoveGap(View(h, h.currentl), h.buffer_c)
    <3> HIDE DEF g
    <3> QED  BY <2>2, <1>3, MoveGapFrame
  <2>4. ~g.fault => ~h.fault  BY <1>3 DEF MoveGapToCursor, Check
  <2> HIDE DEF g
  <2>5. Sound(g, ext) /\ (~g.fault => Tracks(g, rest, ext))
        BY <2>2, <2>3, <2>4, EditsTracks DEF Edits
  <2>6. ASSUME easy
        PROVE  Joined(f, g, up, low) /\ g.buffer_r = k - 2
    <3> DEFINE m == View(full, up)
               c == Clamp(full, up)
               w == View(h, up)
    <3>1. /\ Good(m) /\ m.data_n = u.data_n + l.data_n /\ Text(m) = Text(u) \o Text(l)
          /\ View(full, low) = l
          BY <2>6, <1>1, <1>4 DEF Elsewhere
    <3>2. /\ ~h.fault /\ SameScroll(full, h) /\ h.buffer_r = k - 2 /\ h.currentl = up
          /\ h.buffer_c = t /\ Elsewhere(full, h, up) /\ w = MoveGap(m, c)
          BY <2>2, <2>6
    <3>3. c \in Nat /\ c <= m.data_n
      <4>1. c \in Nat /\ c <= full.line[up].data_n  BY <1>1, <1>4, ClampValue
      <4>2. m.data_n = full.line[up].data_n  BY <1>1, <1>4, ViewFields
      <4> QED  BY <4>1, <4>2
    <3>4. Good(w) /\ w.data_n = m.data_n /\ Text(w) = Text(m)
      <4> HIDE DEF m, c, w
      <4> QED  BY <3>1, <3>2, <3>3, MoveGapGood
    <3>5. t = u.data_n /\ u.data_n \in Nat /\ l.data_n \in Nat
      <4>1. u.data_n \in Nat /\ l.data_n \in Nat  BY <1>1, ViewFields, StructFields
      <4>2. full.line[up].data_n = u.data_n + l.data_n  BY <3>1, <1>1, <1>4, ViewFields
      <4>3. full.line[low].data_n = l.data_n  BY <3>1, <1>1, <1>4, ViewFields
      <4>4. t = (u.data_n + l.data_n) - l.data_n  BY <4>2, <4>3
      <4> HIDE DEF t, u, l
      <4> QED  BY <4>1, <4>4
    <3> HIDE DEF m, w, c, t, u, l
    <3>6. t \in Nat /\ t <= w.data_n  BY <3>1, <3>4, <3>5
    <3>7. /\ ~g.fault /\ View(g, up) = MoveGap(w, t) /\ Elsewhere(h, g, up)
          BY <2>3, <3>2, <3>4, <3>6 DEF w
    <3>8. Good(v) /\ v.sog = t /\ Text(v) = Text(w)
          BY <3>4, <3>6, <3>7, MoveGapGood
    <3>9. SameScroll(f, g) /\ Elsewhere(f, g, up) /\ g.currentl = up /\ g.buffer_r = k - 2
          /\ g.buffer_c = t
          BY <2>3, <3>2, <3>7, <1>4 DEF Edits, SameScroll, SameRow, Elsewhere
    <3>10. Text(v) = Text(u) \o Text(l)  BY <3>1, <3>4, <3>8
    <3> QED  BY <3>5, <3>7, <3>8, <3>9, <3>10 DEF Joined, u, l
  <2> QED  BY <2>5, <2>6 DEF g, up, low
<1>10. full.fault \/ (~full.fault /\ t < 0) \/ (~full.fault /\ t >= 0)
  <2> HIDE DEF t
  <2>1. t < 0 \/ t >= 0  BY <1>5
  <2> QED  BY <2>1
<1> QED  BY <1>7, <1>8, <1>9, <1>10

-----------------------------------------------------------------------------
(* The careful keys: the gap stays at the cursor and the first line of the screen *)
(* where its row says, and nothing undefined happens                              *)

\* The texts of the lines of s.
TextsOf(f, s) == [i \in 1 .. Len(s) |-> TextOf(f, s[i])]

\* The sequence the links track is what walking the list returns.
LEMMA LinesTrack ==
    ASSUME NEW ext, NEW f, Sound(f, ext), NEW s, Tracks(f, s, ext)
    PROVE  LinesOf(f) = s /\ Texts(f) = TextsOf(f, s)
<1>1. Chain(f, s) /\ f.fresh \in 1 .. MaxLines + 1  BY SoundFields DEF Tracks
<1>2. LinesOf(f) = s  BY <1>1, LinesChain
<1>3. DOMAIN s = 1 .. Len(s)  BY <1>1, ChainFacts
<1> QED  BY <1>2, <1>3 DEF Texts, TextsOf

\* The texts of a list of lines, as a sequence.
LEMMA TextsValue ==
    ASSUME NEW ext, NEW f, Sound(f, ext), NEW s \in Seq(LineId)
    PROVE  /\ TextsOf(f, s) \in Seq(Seq(Byte)) /\ Len(TextsOf(f, s)) = Len(s)
           /\ \A i \in 1 .. Len(s) : TextsOf(f, s)[i] = Text(View(f, s[i]))
<1>1. \A i \in 1 .. Len(s) : TextOf(f, s[i]) \in Seq(Byte)
  <2>1. \A i \in 1 .. Len(s) : Shaped(View(f, s[i]))  BY DEF Sound
  <2> QED  BY <2>1, TextOfShaped DEF TextOf
<1>2. Len(s) \in Nat  OBVIOUS
<1> QED  BY <1>1, <1>2 DEF TextsOf, TextOf

\* The framebuffer f, with the lines s, as every careful key finds and leaves it.
Ready(f, s, ext) ==
    /\ Sound(f, ext) /\ ~f.fault /\ Tracks(f, s, ext) /\ Seen(f, s, ext)
    /\ \A i \in 1 .. Len(s) : Good(View(f, s[i]))
    /\ View(f, f.currentl).sog = f.buffer_c

\* The lines of a ready framebuffer are allocated, and its cursor is in one of them.
LEMMA ReadyFields ==
    ASSUME NEW ext, NEW f, NEW s, Ready(f, s, ext)
    PROVE  /\ s \in Seq(LineId) /\ Len(s) \in Nat /\ Len(s) >= 1 /\ Chain(f, s)
           /\ \A i, j \in 1 .. Len(s) : s[i] = s[j] => i = j
           /\ \A i \in 1 .. Len(s) : s[i] \in LineId /\ s[i] \in f.alive
           /\ \E k \in 1 .. Len(s) :
                 /\ k \in Nat /\ k = f.buffer_r + 1 /\ f.buffer_r = k - 1 /\ f.currentl = s[k]
                 /\ f.line[s[k]].nextl = IF k = Len(s) THEN NULL ELSE s[k + 1]
                 /\ f.line[s[k]].prevl = IF k = 1 THEN NULL ELSE s[k - 1]
           /\ Good(View(f, f.currentl)) /\ f.currentl \in LineId /\ f.currentl \in f.alive
           /\ f.buffer_c \in Nat /\ f.buffer_c <= View(f, f.currentl).data_n
<1>1. Sound(f, ext) /\ Tracks(f, s, ext) /\ Chain(f, s)  BY DEF Ready, Tracks
<1>2. /\ s \in Seq(LineId) /\ Len(s) \in Nat /\ Len(s) >= 1
      /\ \A i \in 1 .. Len(s) : s[i] \in LineId
      BY <1>1, ChainFacts
<1>3. /\ \A i, j \in 1 .. Len(s) : s[i] = s[j] => i = j
      /\ \A i \in 1 .. Len(s) : s[i] \in f.alive
      BY <1>1 DEF Chain
<1>4. PICK k \in 1 .. Len(s) :
         /\ k \in Nat /\ k = f.buffer_r + 1 /\ f.buffer_r = k - 1 /\ f.currentl = s[k]
         /\ f.line[s[k]].nextl = IF k = Len(s) THEN NULL ELSE s[k + 1]
         /\ f.line[s[k]].prevl = IF k = 1 THEN NULL ELSE s[k - 1]
      BY <1>1, TracksFields
<1>5. Good(View(f, f.currentl))  BY <1>4 DEF Ready
<1>6. View(f, f.currentl).sog \in Nat /\ View(f, f.currentl).sog <= View(f, f.currentl).data_n
      BY <1>5, GoodFields
<1>7. View(f, f.currentl).sog = f.buffer_c  BY DEF Ready
<1> QED  BY <1>1, <1>2, <1>3, <1>4, <1>5, <1>6, <1>7

-----------------------------------------------------------------------------
(* What becomes of the lines and of their texts *)

\* A key that edits the current line and no other.
LEMMA ReadyEdit ==
    ASSUME NEW ext, NEW f, NEW s, Ready(f, s, ext), NEW g, Edits(f, g, ext), SameRow(f, g),
           ~g.fault,
           Elsewhere(f, g, f.currentl), Good(View(g, f.currentl)),
           View(g, f.currentl).sog = g.buffer_c
    PROVE  /\ Ready(g, s, ext)
           /\ TextsOf(g, s) = [TextsOf(f, s) EXCEPT ![f.buffer_r + 1] = Text(View(g, f.currentl))]
<1>1. PICK k \in 1 .. Len(s) : k = f.buffer_r + 1 /\ f.currentl = s[k]  BY ReadyFields
<1>2. /\ \A i \in 1 .. Len(s) : s[i] \in LineId
      /\ \A i, j \in 1 .. Len(s) : s[i] = s[j] => i = j
      BY ReadyFields
<1>3. \A i \in 1 .. Len(s) : i # k => View(g, s[i]) = View(f, s[i])
      BY <1>1, <1>2 DEF Elsewhere
<1>4. Tracks(g, s, ext) /\ Sound(g, ext)  BY EditsTracks DEF Ready, Edits
<1>5. Seen(g, s, ext)  BY DEF Ready, Seen, CursorR, Edits, SameRow, SameScroll
<1>6. \A i \in 1 .. Len(s) : Good(View(g, s[i]))
  <2>1. \A i \in 1 .. Len(s) : Good(View(f, s[i]))  BY DEF Ready
  <2> QED  BY <2>1, <1>1, <1>3
<1>7. View(g, g.currentl).sog = g.buffer_c  BY DEF SameRow
<1>8. TextsOf(g, s) = [TextsOf(f, s) EXCEPT ![k] = Text(View(g, f.currentl))]
      BY <1>1, <1>3 DEF TextsOf, TextOf
<1> QED  BY <1>1, <1>4, <1>5, <1>6, <1>7, <1>8 DEF Ready

\* A key that takes the cursor to line j.
LEMMA ReadyEnter ==
    ASSUME NEW ext, NEW f, NEW s, Ready(f, s, ext), NEW j \in 1 .. Len(s), NEW g, Sound(g, ext),
           Tracks(g, s, ext),
           Seen(g, s, ext), Entered(f, g, s[j], j - 1)
    PROVE  /\ Ready(g, s, ext) /\ TextsOf(g, s) = TextsOf(f, s) /\ g.buffer_r = j - 1
           /\ g.buffer_c = IF f.buffer_c >= Len(TextsOf(f, s)[j]) THEN Len(TextsOf(f, s)[j])
                           ELSE f.buffer_c
<1> DEFINE l == View(f, s[j])
           c == Clamp(f, s[j])
<1>1. /\ \A i \in 1 .. Len(s) : s[i] \in LineId
      /\ \A i \in 1 .. Len(s) : Good(View(f, s[i]))
      /\ Sound(f, ext)
      BY ReadyFields DEF Ready
<1>2. /\ ~g.fault /\ g.currentl = s[j] /\ g.buffer_r = j - 1 /\ g.buffer_c = c
      /\ Elsewhere(f, g, s[j]) /\ View(g, s[j]) = MoveGap(l, c)
      BY DEF Entered
<1>3. l.data_n = f.line[s[j]].data_n /\ l.data_n \in Nat  BY <1>1, ViewFields, GoodFields
<1>4. /\ c \in Nat /\ c <= l.data_n
      /\ c = IF f.buffer_c >= l.data_n THEN l.data_n ELSE f.buffer_c
      BY <1>1, <1>3, ClampValue
<1>5. Good(l) /\ Len(Text(l)) = l.data_n  BY <1>1, TextOfGood
<1> HIDE DEF l, c
<1>6. Good(View(g, s[j])) /\ View(g, s[j]).sog = c /\ Text(View(g, s[j])) = Text(l)
      BY <1>2, <1>4, <1>5, MoveGapGood
<1>7. \A i \in 1 .. Len(s) :
         Good(View(g, s[i])) /\ Text(View(g, s[i])) = Text(View(f, s[i]))
  <2> SUFFICES ASSUME NEW i \in 1 .. Len(s)
               PROVE  Good(View(g, s[i])) /\ Text(View(g, s[i])) = Text(View(f, s[i]))
      OBVIOUS
  <2>1. CASE s[i] = s[j]  BY <2>1, <1>6 DEF l
  <2>2. CASE s[i] # s[j]  BY <2>2, <1>1, <1>2 DEF Elsewhere
  <2> QED  BY <2>1, <2>2
<1>8. Ready(g, s, ext)  BY <1>2, <1>6, <1>7 DEF Ready
<1>9. TextsOf(g, s) = TextsOf(f, s)  BY <1>7 DEF TextsOf, TextOf
<1>10. TextsOf(f, s)[j] = Text(l)  BY DEF TextsOf, TextOf, l
<1> QED  BY <1>2, <1>4, <1>5, <1>8, <1>9, <1>10

\* The id of the next line is not in the list.
LEMMA FreshAbsent ==
    ASSUME NEW ext, NEW f, NEW s, Ready(f, s, ext)
    PROVE  \A i \in 1 .. Len(s) : s[i] # f.fresh
<1>1. f.fresh \notin f.alive  BY FreshIsNew DEF Ready
<1> QED  BY <1>1, ReadyFields

\* The texts of the lines with the new line f.fresh behind line k.
AddsTexts(f, g, s, k) ==
    TextsOf(g, InsertAt(s, k + 1, f.fresh)) =
        InsertAt([TextsOf(f, s) EXCEPT ![k] = Text(View(g, s[k]))], k + 1,
                 Text(View(g, f.fresh)))

\* A key that puts the new line f.fresh behind line k, edits that one, and goes
\* to the start of the new one.
LEMMA ReadyAdd ==
    ASSUME NEW ext, NEW f, NEW s, Ready(f, s, ext), NEW k \in 1 .. Len(s), NEW g, Sound(g, ext),
           ~g.fault,
           Tracks(g, InsertAt(s, k + 1, f.fresh), ext), Seen(g, InsertAt(s, k + 1, f.fresh), ext),
           f.fresh \in LineId, g.currentl = f.fresh, g.buffer_c = 0,
           Good(View(g, f.fresh)), View(g, f.fresh).sog = 0, Good(View(g, s[k])),
           SameBytes(f, g, {f.fresh, s[k]})
    PROVE  Ready(g, InsertAt(s, k + 1, f.fresh), ext) /\ AddsTexts(f, g, s, k)
<1> DEFINE new == f.fresh
           t == InsertAt(s, k + 1, new)
           x == Text(View(g, s[k]))
           y == Text(View(g, new))
           T == TextsOf(f, s)
           u == [T EXCEPT ![k] = x]
           a == TextsOf(g, t)
           b == InsertAt(u, k + 1, y)
<1>0. /\ s \in Seq(LineId) /\ Len(s) \in Nat /\ k \in Nat /\ k >= 1 /\ k <= Len(s)
      /\ \A i \in 1 .. Len(s) : s[i] \in LineId
      /\ \A i, j \in 1 .. Len(s) : s[i] = s[j] => i = j
      /\ Sound(f, ext)
      BY ReadyFields DEF Ready
<1>1. k + 1 \in 1 .. Len(s) + 1  BY <1>0
<1>2. /\ t \in Seq(LineId) /\ Len(t) = Len(s) + 1
      /\ \A i \in 1 .. Len(s) + 1 :
            t[i] = IF i < k + 1 THEN s[i] ELSE IF i = k + 1 THEN new ELSE s[i - 1]
  <2>1. PICK m \in 1 .. Len(s) + 1 : m = k + 1  BY <1>1
  <2>2. s \in Seq(LineId) /\ new \in LineId  BY <1>0
  <2> HIDE DEF new
  <2>3. /\ InsertAt(s, m, new) \in Seq(LineId) /\ Len(InsertAt(s, m, new)) = Len(s) + 1
        /\ \A i \in 1 .. Len(s) + 1 :
              InsertAt(s, m, new)[i] = IF i < m THEN s[i] ELSE IF i = m THEN new ELSE s[i - 1]
        BY <2>2, InsertAtValue
  <2> QED  BY <2>1, <2>3, Zenon
<1>3. \A i \in 1 .. Len(s) : s[i] # new  BY FreshAbsent
<1>4. \A i \in 1 .. Len(s) : i # k => View(g, s[i]) = View(f, s[i])
      BY <1>0, <1>3 DEF SameBytes
<1>5. \A i \in 1 .. Len(s) : Good(View(g, s[i]))
  <2>1. \A i \in 1 .. Len(s) : Good(View(f, s[i]))  BY DEF Ready
  <2> QED  BY <2>1, <1>4
<1> HIDE DEF t, new
<1>6. ASSUME NEW i \in 1 .. Len(t) PROVE Good(View(g, t[i]))
  <2>1. i \in 1 .. Len(s) + 1 /\ i \in Nat  BY <1>2
  <2>2. CASE i < k + 1  BY <2>1, <2>2, <1>0, <1>2, <1>5
  <2>3. CASE i = k + 1
    <3>1. t[i] = new  BY <2>1, <2>3, <1>0, <1>2
    <3> QED  BY <3>1 DEF new
  <2>4. CASE i > k + 1
    <3>1. i - 1 \in 1 .. Len(s) /\ t[i] = s[i - 1]  BY <2>1, <2>4, <1>0, <1>2
    <3> QED  BY <3>1, <1>5
  <2> QED  BY <2>1, <2>2, <2>3, <2>4, <1>0
<1>7. Ready(g, t, ext)  BY <1>6 DEF Ready, t, new
<1>8. /\ T \in Seq(Seq(Byte)) /\ Len(T) = Len(s)
      /\ \A i \in 1 .. Len(s) : T[i] = Text(View(f, s[i]))
      BY <1>0, TextsValue
<1>9. /\ a \in Seq(Seq(Byte)) /\ Len(a) = Len(t)
      /\ \A i \in 1 .. Len(t) : a[i] = Text(View(g, t[i]))
      BY <1>2, TextsValue
<1>10. x \in Seq(Byte) /\ y \in Seq(Byte)
  <2>1. s[k] \in LineId /\ new \in LineId  BY <1>0 DEF new
  <2>2. Shaped(View(g, s[k])) /\ Shaped(View(g, new))  BY <2>1, ViewFields
  <2> QED  BY <2>2, TextOfShaped
<1> HIDE DEF T, x, y, a
<1>11. /\ u \in Seq(Seq(Byte)) /\ Len(u) = Len(s) /\ u[k] = x
       /\ \A i \in 1 .. Len(s) : i # k => u[i] = T[i]
       BY <1>0, <1>8, <1>10
<1> HIDE DEF u
<1>12. /\ b \in Seq(Seq(Byte)) /\ Len(b) = Len(s) + 1
       /\ \A i \in 1 .. Len(s) + 1 :
             b[i] = IF i < k + 1 THEN u[i] ELSE IF i = k + 1 THEN y ELSE u[i - 1]
  <2>1. PICK m \in 1 .. Len(u) + 1 : m = k + 1  BY <1>1, <1>11
  <2>2. u \in Seq(Seq(Byte)) /\ y \in Seq(Byte)  BY <1>10, <1>11
  <2>3. /\ InsertAt(u, m, y) \in Seq(Seq(Byte)) /\ Len(InsertAt(u, m, y)) = Len(u) + 1
        /\ \A i \in 1 .. Len(u) + 1 :
              InsertAt(u, m, y)[i] = IF i < m THEN u[i] ELSE IF i = m THEN y ELSE u[i - 1]
        BY <2>2, InsertAtValue
  <2> QED  BY <2>1, <2>3, <1>11, Zenon
<1> HIDE DEF b
<1>13. \A i \in 1 .. Len(s) : u[i] = Text(View(g, s[i]))
       BY <1>4, <1>8, <1>11 DEF x
<1>14. ASSUME NEW i \in 1 .. Len(a) PROVE a[i] = b[i]
  <2>1. i \in 1 .. Len(s) + 1 /\ i \in Nat /\ a[i] = Text(View(g, t[i]))  BY <1>2, <1>9
  <2>2. CASE i < k + 1
    <3>1. i \in 1 .. Len(s) /\ t[i] = s[i] /\ b[i] = u[i]  BY <2>1, <2>2, <1>0, <1>2, <1>12
    <3> QED  BY <3>1, <2>1, <1>13
  <2>3. CASE i = k + 1
    <3>1. t[i] = new /\ b[i] = y  BY <2>1, <2>3, <1>0, <1>2, <1>12
    <3> QED  BY <3>1, <2>1 DEF y
  <2>4. CASE i > k + 1
    <3>1. i - 1 \in 1 .. Len(s) /\ t[i] = s[i - 1] /\ b[i] = u[i - 1]
          BY <2>1, <2>4, <1>0, <1>2, <1>12
    <3> QED  BY <3>1, <2>1, <1>13
  <2> QED  BY <2>1, <2>2, <2>3, <2>4, <1>0
<1>15. a = b
  <2>1. a \in Seq(Seq(Byte)) /\ b \in Seq(Seq(Byte))  BY <1>9, <1>12
  <2>2. Len(a) = Len(b)  BY <1>2, <1>9, <1>12
  <2> QED  BY <2>1, <2>2, <1>14, SameSeq
<1> QED  BY <1>7, <1>15 DEF AddsTexts, a, b, u, x, y, T, t, new

\* A key that takes the last line away and leaves the cursor in the line above.
LEMMA ReadyCut ==
    ASSUME NEW ext, NEW f, NEW s, Ready(f, s, ext), NEW k \in 1 .. Len(s), k >= 2, k = Len(s),
           f.buffer_r = k - 1, f.scroll # s[k],
           NEW g, Sound(g, ext), ~g.fault, Tracks(g, RemoveAt(s, k), ext), SameScroll(f, g),
           g.buffer_r = k - 2, g.currentl = s[k - 1], Elsewhere(f, g, s[k - 1]),
           Good(View(g, s[k - 1])), View(g, s[k - 1]).sog = g.buffer_c
    PROVE  /\ Ready(g, RemoveAt(s, k), ext)
           /\ TextsOf(g, RemoveAt(s, k)) =
                 RemoveAt([TextsOf(f, s) EXCEPT ![k - 1] = Text(View(g, s[k - 1]))], k)
<1> DEFINE t == RemoveAt(s, k)
           x == Text(View(g, s[k - 1]))
           T == TextsOf(f, s)
           u == [T EXCEPT ![k - 1] = x]
           a == TextsOf(g, t)
           b == RemoveAt(u, k)
<1>0. /\ s \in Seq(LineId) /\ Len(s) \in Nat /\ k \in Nat /\ k - 1 \in 1 .. Len(s)
      /\ \A i \in 1 .. Len(s) : s[i] \in LineId
      /\ \A i, j \in 1 .. Len(s) : s[i] = s[j] => i = j
      /\ Sound(f, ext)
      BY ReadyFields DEF Ready
<1>1. /\ t \in Seq(LineId) /\ Len(t) = Len(s) - 1
      /\ \A i \in 1 .. Len(s) - 1 : t[i] = IF i < k THEN s[i] ELSE s[i + 1]
  <2>1. s \in Seq(LineId)  BY <1>0
  <2> QED  BY <2>1, RemoveAtValue
<1> HIDE DEF t
<1>2. \A i \in 1 .. Len(t) : i \in 1 .. Len(s) /\ i < k /\ t[i] = s[i]  BY <1>0, <1>1
<1>3. \A i \in 1 .. Len(s) : i # k - 1 => View(g, s[i]) = View(f, s[i])
      BY <1>0 DEF Elsewhere
<1>4. \A i \in 1 .. Len(t) : Good(View(g, t[i]))
  <2>1. \A i \in 1 .. Len(s) : Good(View(f, s[i]))  BY DEF Ready
  <2>2. \A i \in 1 .. Len(s) : Good(View(g, s[i]))  BY <2>1, <1>3
  <2> QED  BY <2>2, <1>2
<1>5. Seen(g, t, ext)
  <2>0. /\ f.scroll_r \in 0 .. Len(s) - 1 /\ f.scroll = s[f.scroll_r + 1]
        /\ ext.low \in Nat /\ ext.low >= Rows - 2 /\ f.buffer_r - f.scroll_r \in 0 .. ext.low
        BY DEF Ready, Seen, CursorR
  <2>1. PICK r \in Nat : r = f.scroll_r /\ r <= Len(s) - 1  BY <2>0, <1>0
  <2>2. f.scroll = s[r + 1] /\ (k - 1) - r \in 0 .. ext.low  BY <2>0, <2>1
  <2>3. r + 1 # k  BY <2>2
  <2>4. r <= k - 2 /\ r + 1 \in 1 .. Len(t)  BY <2>1, <2>3, <1>0, <1>1
  <2>5. r \in 0 .. Len(t) - 1 /\ t[r + 1] = s[r + 1]
    <3>1. PICK m \in 1 .. Len(t) : m = r + 1  BY <2>4
    <3>2. t[m] = s[m]  BY <1>2
    <3>3. Len(t) \in Int /\ r <= Len(t) - 1  BY <2>1, <2>4, <1>0, <1>1
    <3> QED  BY <3>1, <3>2, <3>3
  <2>6. (k - 2) - r \in 0 .. ext.low
    <3>1. PICK m \in Nat : m = ext.low  BY <2>0
    <3>2. PICK d \in 0 .. m : d = (k - 1) - r  BY <2>2, <3>1
    <3>3. /\ k \in Int /\ r \in Int /\ d \in Int /\ m \in Int /\ r <= k - 2
          /\ d <= m /\ d = (k - 1) - r
          BY <2>1, <2>4, <3>1, <3>2, <1>0
    <3>4. (k - 2) - r = d - 1 /\ d - 1 \in 0 .. m  BY <3>3
    <3> QED  BY <3>1, <3>4
  <2>7. g.scroll = f.scroll /\ g.scroll_r = r  BY <2>1 DEF SameScroll
  <2> QED  BY <2>0, <2>2, <2>5, <2>6, <2>7 DEF Seen, CursorR
<1>6. Ready(g, t, ext)  BY <1>4, <1>5 DEF Ready, t
<1>7. /\ T \in Seq(Seq(Byte)) /\ Len(T) = Len(s)
      /\ \A i \in 1 .. Len(s) : T[i] = Text(View(f, s[i]))
      BY <1>0, TextsValue
<1>8. /\ a \in Seq(Seq(Byte)) /\ Len(a) = Len(t)
      /\ \A i \in 1 .. Len(t) : a[i] = Text(View(g, t[i]))
      BY <1>1, TextsValue
<1>9. x \in Seq(Byte)
  <2>1. s[k - 1] \in LineId  BY <1>0
  <2>2. Shaped(View(g, s[k - 1]))  BY <2>1, ViewFields
  <2> QED  BY <2>2, TextOfShaped
<1> HIDE DEF T, x, a
<1>10. /\ u \in Seq(Seq(Byte)) /\ Len(u) = Len(s) /\ u[k - 1] = x
       /\ \A i \in 1 .. Len(s) : i # k - 1 => u[i] = T[i]
       BY <1>0, <1>7, <1>9
<1> HIDE DEF u
<1>11. /\ b \in Seq(Seq(Byte)) /\ Len(b) = Len(s) - 1
       /\ \A i \in 1 .. Len(s) - 1 : b[i] = IF i < k THEN u[i] ELSE u[i + 1]
  <2>1. PICK m \in 1 .. Len(u) : m = k  BY <1>10
  <2>2. u \in Seq(Seq(Byte))  BY <1>10
  <2>3. /\ RemoveAt(u, m) \in Seq(Seq(Byte)) /\ Len(RemoveAt(u, m)) = Len(u) - 1
        /\ \A i \in 1 .. Len(u) - 1 : RemoveAt(u, m)[i] = IF i < m THEN u[i] ELSE u[i + 1]
        BY <2>2, RemoveAtValue
  <2> QED  BY <2>1, <2>3, <1>10, Zenon
<1> HIDE DEF b
<1>12. \A i \in 1 .. Len(s) : u[i] = Text(View(g, s[i]))
       BY <1>3, <1>7, <1>10 DEF x
<1>13. ASSUME NEW i \in 1 .. Len(a) PROVE a[i] = b[i]
  <2>1. i \in 1 .. Len(t) /\ i \in 1 .. Len(s) - 1  BY <1>1, <1>8
  <2>2. i \in 1 .. Len(s) /\ i < k /\ t[i] = s[i]  BY <2>1, <1>2
  <2>3. b[i] = u[i] /\ a[i] = Text(View(g, s[i]))  BY <2>1, <2>2, <1>8, <1>11
  <2> QED  BY <2>2, <2>3, <1>12
<1>14. a = b
  <2>1. a \in Seq(Seq(Byte)) /\ b \in Seq(Seq(Byte))  BY <1>8, <1>11
  <2>2. Len(a) = Len(b)  BY <1>1, <1>8, <1>11
  <2> QED  BY <2>1, <2>2, <1>13, SameSeq
<1> QED  BY <1>6, <1>14 DEF a, b, u, x, T, t

-----------------------------------------------------------------------------
(* The keys *)

\* The text of the cursor's line becomes x, and no other text changes.
Retexts(f, g, s, x) == TextsOf(g, s) = [TextsOf(f, s) EXCEPT ![f.buffer_r + 1] = x]

\* A character typed.
LEMMA TypeReady ==
    ASSUME NEW ext, NEW f, NEW s, Ready(f, s, ext), NEW ch \in Char
    PROVE  LET g == InsertChar(f, f.currentl, ch, FALSE)
               l == View(f, f.currentl)
           IN  /\ Ready(g, s, ext) /\ g.buffer_r = f.buffer_r /\ g.buffer_c = f.buffer_c + 1
               /\ Retexts(f, g, s, Text(InsertInGap(l, l.sog, ch)))
<1> DEFINE g == InsertChar(f, f.currentl, ch, FALSE)
           l == View(f, f.currentl)
<1>0. /\ f.currentl \in LineId /\ f.currentl \in f.alive /\ Good(l) /\ f.buffer_c \in Nat
      /\ Sound(f, ext) /\ ~f.fault /\ f.buffer_c = l.sog /\ ch \in Byte
      BY ReadyFields DEF Ready, Byte
<1>1. /\ Edits(f, g, ext) /\ SameRow(f, g) /\ Elsewhere(f, g, f.currentl)
      /\ ~g.fault /\ g.buffer_c = f.buffer_c + 1
      /\ View(g, f.currentl) = InsertInGap(l, f.buffer_c, ch)
      BY <1>0, InsertFrame
<1> HIDE DEF g, l
<1>2. Good(View(g, f.currentl)) /\ View(g, f.currentl).sog = g.buffer_c
      BY <1>0, <1>1, InsertGood
<1>3. /\ Ready(g, s, ext)
      /\ TextsOf(g, s) = [TextsOf(f, s) EXCEPT ![f.buffer_r + 1] = Text(View(g, f.currentl))]
      BY <1>1, <1>2, ReadyEdit
<1>4. View(g, f.currentl) = InsertInGap(l, l.sog, ch)  BY <1>0, <1>1
<1> QED  BY <1>1, <1>3, <1>4 DEF Retexts, g, l, SameRow

\* Backspace behind a character.
LEMMA EraseReady ==
    ASSUME NEW ext, NEW f, NEW s, Ready(f, s, ext), f.buffer_c # 0
    PROVE  LET g == BackspaceChar(f, f.currentl)
               l == View(f, f.currentl)
           IN  /\ Ready(g, s, ext) /\ g.buffer_r = f.buffer_r /\ g.buffer_c = f.buffer_c - 1
               /\ TextsOf(g, s) = [TextsOf(f, s) EXCEPT ![f.buffer_r + 1] = Text(Backspace(l))]
<1> DEFINE g == BackspaceChar(f, f.currentl)
           l == View(f, f.currentl)
<1>0. Good(l) /\ f.buffer_c \in Nat /\ Sound(f, ext) /\ ~f.fault /\ f.buffer_c = l.sog
      BY ReadyFields DEF Ready
<1>1. /\ Edits(f, g, ext) /\ SameRow(f, g) /\ Elsewhere(f, g, f.currentl)
      /\ ~g.fault /\ g.buffer_c = f.buffer_c - 1 /\ View(g, f.currentl) = Backspace(l)
      BY <1>0, BackspaceFrame
<1> HIDE DEF g, l
<1>2. Good(View(g, f.currentl)) /\ View(g, f.currentl).sog = g.buffer_c
      BY <1>0, <1>1, BackspaceGood
<1>3. /\ Ready(g, s, ext)
      /\ TextsOf(g, s) = [TextsOf(f, s) EXCEPT ![f.buffer_r + 1] = Text(View(g, f.currentl))]
      BY <1>1, <1>2, ReadyEdit
<1> QED  BY <1>1, <1>3 DEF g, l, SameRow

\* A key after which every line has the text it had.
LEMMA SameTextsOf ==
    ASSUME NEW ext, NEW f, NEW s, Ready(f, s, ext), NEW x, x = Text(View(f, f.currentl))
    PROVE  [TextsOf(f, s) EXCEPT ![f.buffer_r + 1] = x] = TextsOf(f, s)
<1>1. PICK k \in 1 .. Len(s) : k = f.buffer_r + 1 /\ f.currentl = s[k]  BY ReadyFields
<1>2. x = TextOf(f, s[k])  BY <1>1 DEF TextOf
<1> QED  BY <1>1, <1>2 DEF TextsOf

\* h
LEMMA LeftReady ==
    ASSUME NEW ext, NEW f, NEW s, Ready(f, s, ext), f.buffer_c # 0
    PROVE  LET g == CursorLeft(f)
           IN  /\ Ready(g, s, ext) /\ g.buffer_r = f.buffer_r /\ g.buffer_c = f.buffer_c - 1
               /\ TextsOf(g, s) = TextsOf(f, s)
<1> DEFINE g == CursorLeft(f)
           l == View(f, f.currentl)
<1>0. Good(l) /\ f.buffer_c \in Nat /\ Sound(f, ext) /\ ~f.fault /\ f.buffer_c = l.sog
      BY ReadyFields DEF Ready
<1>1. /\ Edits(f, g, ext) /\ SameRow(f, g) /\ Elsewhere(f, g, f.currentl)
      /\ ~g.fault /\ g.buffer_c = f.buffer_c - 1
      /\ View(g, f.currentl) = GapLeft(l, f.buffer_c)
      BY <1>0, LeftFrame
<1> HIDE DEF g, l
<1>2. /\ Good(View(g, f.currentl)) /\ View(g, f.currentl).sog = g.buffer_c
      /\ Text(View(g, f.currentl)) = Text(l)
      BY <1>0, <1>1, LeftGood
<1>3. TextsOf(g, s) = TextsOf(f, s) /\ Ready(g, s, ext)  BY <1>1, <1>2, ReadyEdit, SameTextsOf DEF l
<1> QED  BY <1>1, <1>3 DEF g, SameRow

\* l
LEMMA RightReady ==
    ASSUME NEW ext, NEW f, NEW s, Ready(f, s, ext), f.buffer_c + 1 <= View(f, f.currentl).data_n
    PROVE  LET g == CursorRight(f)
           IN  /\ Ready(g, s, ext) /\ g.buffer_r = f.buffer_r /\ g.buffer_c = f.buffer_c + 1
               /\ TextsOf(g, s) = TextsOf(f, s)
<1> DEFINE g == CursorRight(f)
           l == View(f, f.currentl)
<1>0. Good(l) /\ f.buffer_c \in Nat /\ Sound(f, ext) /\ ~f.fault /\ f.buffer_c = l.sog
      BY ReadyFields DEF Ready
<1>1. /\ Edits(f, g, ext) /\ SameRow(f, g) /\ Elsewhere(f, g, f.currentl)
      /\ ~g.fault /\ g.buffer_c = f.buffer_c + 1
      /\ View(g, f.currentl) = GapRight(l, f.buffer_c)
      BY <1>0, RightFrame
<1>a. l.sog + 1 <= l.data_n  BY <1>0
<1> HIDE DEF g, l
<1>2. /\ Good(View(g, f.currentl)) /\ View(g, f.currentl).sog = g.buffer_c
      /\ Text(View(g, f.currentl)) = Text(l)
      BY <1>0, <1>1, <1>a, RightGood
<1>3. TextsOf(g, s) = TextsOf(f, s) /\ Ready(g, s, ext)  BY <1>1, <1>2, ReadyEdit, SameTextsOf DEF l
<1> QED  BY <1>1, <1>3 DEF g, SameRow

\* What the column becomes in a line with the text x.
ClipTo(f, x) == IF f.buffer_c >= Len(x) THEN Len(x) ELSE f.buffer_c

\* j, from a line that is not the last.
LEMMA DownReady ==
    ASSUME NEW ext, NEW f, NEW s, Ready(f, s, ext), NEW k \in 1 .. Len(s), f.buffer_r = k - 1,
           f.currentl = s[k], k + 1 <= Len(s)
    PROVE  LET g == RowDown(f)
           IN  /\ Ready(g, s, ext) /\ g.buffer_r = k /\ TextsOf(g, s) = TextsOf(f, s)
               /\ g.buffer_c = ClipTo(f, TextsOf(f, s)[k + 1])
<1> DEFINE g == RowDown(f)
<1>0. Sound(f, ext) /\ ~f.fault /\ Tracks(f, s, ext) /\ Seen(f, s, ext)  BY DEF Ready
<1>1. PICK j \in 1 .. Len(s) : j = k + 1 /\ k = j - 1  BY ReadyFields
<1>2. Good(View(f, s[j]))  BY DEF Ready
<1>3. Sound(g, ext) /\ Entered(f, g, s[j], k) /\ Seen(g, s, ext) /\ (~g.fault => Tracks(g, s, ext))
      BY <1>0, <1>1, <1>2, RowDownFrame
<1> HIDE DEF g
<1>4. Entered(f, g, s[j], j - 1) /\ ~g.fault  BY <1>1, <1>3 DEF Entered
<1>5. /\ Ready(g, s, ext) /\ TextsOf(g, s) = TextsOf(f, s) /\ g.buffer_r = j - 1
      /\ g.buffer_c = ClipTo(f, TextsOf(f, s)[j])
      BY <1>3, <1>4, ReadyEnter DEF ClipTo
<1> QED  BY <1>1, <1>5 DEF g

\* k, from a line that is not the first.
LEMMA UpReady ==
    ASSUME NEW ext, NEW f, NEW s, Ready(f, s, ext), NEW k \in 1 .. Len(s), f.buffer_r = k - 1,
           f.currentl = s[k], k >= 2
    PROVE  LET g == RowUp(f)
           IN  /\ Ready(g, s, ext) /\ g.buffer_r = k - 2 /\ TextsOf(g, s) = TextsOf(f, s)
               /\ g.buffer_c = ClipTo(f, TextsOf(f, s)[k - 1])
<1> DEFINE g == RowUp(f)
<1>0. Sound(f, ext) /\ ~f.fault /\ Tracks(f, s, ext) /\ Seen(f, s, ext)  BY DEF Ready
<1>1. PICK j \in 1 .. Len(s) : j = k - 1 /\ k - 2 = j - 1  BY ReadyFields
<1>2. Good(View(f, s[j]))  BY DEF Ready
<1>3. Sound(g, ext) /\ Entered(f, g, s[j], k - 2) /\ Seen(g, s, ext)
      /\ (~g.fault => Tracks(g, s, ext))
      BY <1>0, <1>1, <1>2, RowUpFrame
<1> HIDE DEF g
<1>4. Entered(f, g, s[j], j - 1) /\ ~g.fault  BY <1>1, <1>3 DEF Entered
<1>5. /\ Ready(g, s, ext) /\ TextsOf(g, s) = TextsOf(f, s) /\ g.buffer_r = j - 1
      /\ g.buffer_c = ClipTo(f, TextsOf(f, s)[j])
      BY <1>3, <1>4, ReadyEnter DEF ClipTo
<1> QED  BY <1>1, <1>5 DEF g

\* Newline in insert mode, at the cursor.
LEMMA BreakReady ==
    ASSUME NEW ext, NEW f, NEW s, Ready(f, s, ext), NEW k \in 1 .. Len(s), f.buffer_r = k - 1,
           f.currentl = s[k], f.fresh \in LineId
    PROVE  LET g == BreakLine(f)
               t == InsertAt(s, k + 1, f.fresh)
               l == View(f, f.currentl)
           IN  /\ Ready(g, t, ext) /\ g.buffer_r = k /\ g.buffer_c = 0
               /\ TextsOf(g, t) = InsertAt([TextsOf(f, s) EXCEPT ![k] =
                                               Text(BeforeCursor(l, l.sog))],
                                           k + 1, Text(AfterCursor(l, l.sog)))
<1> DEFINE b == BreakLineAfter(f, f.currentl)
           g == BreakLine(f)
           t == InsertAt(s, k + 1, f.fresh)
           l == View(f, f.currentl)
<1>0. /\ Sound(f, ext) /\ ~f.fault /\ Tracks(f, s, ext) /\ Seen(f, s, ext) /\ Good(l)
      /\ f.buffer_c = l.sog
      /\ \A i \in 1 .. Len(s) : s[i] # f.fresh
      BY ReadyFields, FreshAbsent DEF Ready
<1>1. /\ AddedLine(f, b, s, k, ext) /\ SameScroll(f, b)
      /\ View(b, f.fresh) = AfterCursor(l, f.buffer_c)
      /\ View(b, s[k]) = BeforeCursor(l, f.buffer_c)
      /\ SameBytes(f, b, {f.fresh, s[k]})
      BY <1>0, BreakFrame
<1> HIDE DEF l
<1>2. /\ View(b, f.fresh) = AfterCursor(l, l.sog) /\ View(b, s[k]) = BeforeCursor(l, l.sog)
      /\ Good(View(b, f.fresh)) /\ View(b, f.fresh).sog = 0 /\ Good(View(b, s[k]))
      BY <1>0, <1>1, AfterCursorGood, BeforeCursorGood
<1>3. g = IF AtBottom(f) THEN ScrollDown(b) ELSE b  BY DEF BreakLine
<1> HIDE DEF b, g
<1>4. /\ Sound(g, ext) /\ Tracks(g, t, ext) /\ SameRow(b, g) /\ g.buffer_c = b.buffer_c
      /\ SameBytes(b, g, {}) /\ ~g.fault /\ Seen(g, t, ext)
      BY <1>0, <1>1, <1>3, AddedScroll
<1>5. \A j \in LineId : View(g, j) = View(b, j)  BY <1>4 DEF SameBytes
<1>6. s[k] \in LineId  BY ReadyFields
<1>7. /\ SameBytes(f, g, {f.fresh, s[k]}) /\ View(g, f.fresh) = AfterCursor(l, l.sog)
      /\ View(g, s[k]) = BeforeCursor(l, l.sog)
      /\ Good(View(g, f.fresh)) /\ View(g, f.fresh).sog = 0 /\ Good(View(g, s[k]))
      BY <1>1, <1>2, <1>5, <1>6 DEF SameBytes
<1>8. g.currentl = f.fresh /\ g.buffer_r = k /\ g.buffer_c = 0
      BY <1>1, <1>4 DEF AddedLine, SameRow
<1>9. /\ Ready(g, t, ext)
      /\ TextsOf(g, t) = InsertAt([TextsOf(f, s) EXCEPT ![k] = Text(View(g, s[k]))], k + 1,
                                  Text(View(g, f.fresh)))
  <2>1. f.fresh \in LineId /\ k \in 1 .. Len(s)  OBVIOUS
  <2> HIDE DEF t
  <2>2. Tracks(g, InsertAt(s, k + 1, f.fresh), ext) /\ Seen(g, InsertAt(s, k + 1, f.fresh), ext)
        BY <1>4 DEF t
  <2>3. Ready(g, InsertAt(s, k + 1, f.fresh), ext) /\ AddsTexts(f, g, s, k)
        BY <2>1, <2>2, <1>4, <1>7, <1>8, ReadyAdd
  <2> QED  BY <2>3 DEF AddsTexts, t
<1> QED  BY <1>7, <1>8, <1>9 DEF g, l

\* o
LEMMA OpenReady ==
    ASSUME NEW ext, NEW f, NEW s, Ready(f, s, ext), NEW k \in 1 .. Len(s), f.buffer_r = k - 1,
           f.currentl = s[k], f.fresh \in LineId
    PROVE  LET g == OpenLine(f)
               t == InsertAt(s, k + 1, f.fresh)
           IN  /\ Ready(g, t, ext) /\ g.buffer_r = k /\ g.buffer_c = 0
               /\ TextsOf(g, t) = InsertAt(TextsOf(f, s), k + 1, <<>>)
<1> DEFINE b == InsertLineAfter(AllocEmptyl(f), f.currentl, f.fresh)
           g == OpenLine(f)
           t == InsertAt(s, k + 1, f.fresh)
<1>0. /\ Sound(f, ext) /\ ~f.fault /\ Tracks(f, s, ext) /\ Seen(f, s, ext)
      /\ \A i \in 1 .. Len(s) : s[i] # f.fresh
      BY FreshAbsent DEF Ready
<1>1. /\ AddedLine(f, b, s, k, ext) /\ SameScroll(f, b) /\ View(b, f.fresh) = EmptyLine
      /\ SameBytes(f, b, {f.fresh})
      BY <1>0, OpenFrame
<1>3. g = IF AtBottom(f) THEN ScrollDown(b) ELSE b  BY DEF OpenLine
<1> HIDE DEF b, g
<1>4. /\ Sound(g, ext) /\ Tracks(g, t, ext) /\ SameRow(b, g) /\ g.buffer_c = b.buffer_c
      /\ SameBytes(b, g, {}) /\ ~g.fault /\ Seen(g, t, ext)
      BY <1>0, <1>1, <1>3, AddedScroll
<1>5. \A j \in LineId : View(g, j) = View(b, j)  BY <1>4 DEF SameBytes
<1>6. s[k] \in LineId  BY ReadyFields
<1>2. /\ Good(View(g, f.fresh)) /\ View(g, f.fresh).sog = 0
      /\ Text(View(g, f.fresh)) = <<>>
      BY <1>1, <1>5, EmptyLineGood DEF EmptyLine, Line
<1>7. SameBytes(f, g, {f.fresh, s[k]}) /\ View(g, s[k]) = View(f, s[k])
      BY <1>0, <1>1, <1>5, <1>6 DEF SameBytes
<1>a. Good(View(g, s[k]))  BY <1>7 DEF Ready
<1>8. g.currentl = f.fresh /\ g.buffer_r = k /\ g.buffer_c = 0
      BY <1>1, <1>4 DEF AddedLine, SameRow
<1>9. /\ Ready(g, t, ext)
      /\ TextsOf(g, t) = InsertAt([TextsOf(f, s) EXCEPT ![k] = Text(View(g, s[k]))], k + 1,
                                  Text(View(g, f.fresh)))
  <2>1. f.fresh \in LineId /\ k \in 1 .. Len(s)  OBVIOUS
  <2> HIDE DEF t
  <2>2. Tracks(g, InsertAt(s, k + 1, f.fresh), ext) /\ Seen(g, InsertAt(s, k + 1, f.fresh), ext)
        BY <1>4 DEF t
  <2>3. Ready(g, InsertAt(s, k + 1, f.fresh), ext) /\ AddsTexts(f, g, s, k)
        BY <2>1, <2>2, <1>2, <1>4, <1>7, <1>a, <1>8, ReadyAdd
  <2> QED  BY <2>3 DEF AddsTexts, t
<1>10. [TextsOf(f, s) EXCEPT ![k] = Text(View(g, s[k]))] = TextsOf(f, s)
  <2>1. f.buffer_r + 1 = k  BY ReadyFields
  <2> QED  BY <2>1, <1>7, SameTextsOf
<1> QED  BY <1>2, <1>8, <1>9, <1>10 DEF g

\* The lines T with the k-th joined to the one above.
JoinedTexts(T, k) == RemoveAt([T EXCEPT ![k - 1] = T[k - 1] \o T[k]], k)

\* g is f with the k-th line, the last, joined to the one above.
JoinsLast(f, g, s, k, ext) ==
    /\ Ready(g, RemoveAt(s, k), ext) /\ g.buffer_r = k - 2
    /\ g.buffer_c = Len(TextsOf(f, s)[k - 1])
    /\ TextsOf(g, RemoveAt(s, k)) = JoinedTexts(TextsOf(f, s), k)

\* Backspace at the start of the last line, which is not the first on the screen.
LEMMA JoinReady ==
    ASSUME NEW ext, NEW f, NEW s, Ready(f, s, ext), NEW k \in 1 .. Len(s), f.buffer_r = k - 1,
           f.currentl = s[k], k >= 2, k = Len(s), f.scroll # s[k]
    PROVE  JoinsLast(f, JoinLine(f, FALSE), s, k, ext)
<1> DEFINE g == JoinLine(f, FALSE)
           t == RemoveAt(s, k)
           T == TextsOf(f, s)
           u == View(f, s[k - 1])
           l == View(f, s[k])
<1>0. /\ Sound(f, ext) /\ ~f.fault /\ Tracks(f, s, ext) /\ k - 1 \in 1 .. Len(s) /\ Len(s) \in Nat
      BY ReadyFields DEF Ready
<1>1. Good(u) /\ Good(l)  BY <1>0 DEF Ready
<1> HIDE DEF g, T, u, l
<1>b. Sound(g, ext) /\ (~g.fault => Tracks(g, t, ext))  BY <1>0, JoinFrame DEF g, t
<1>c. Joined(f, g, s[k - 1], s[k]) /\ g.buffer_r = k - 2
      BY <1>0, <1>1, JoinFrame DEF g, u, l
<1>2. /\ ~g.fault /\ SameScroll(f, g) /\ Elsewhere(f, g, s[k - 1])
      /\ g.currentl = s[k - 1] /\ g.buffer_c = u.data_n
      /\ Good(View(g, s[k - 1])) /\ View(g, s[k - 1]).sog = u.data_n
      BY <1>c DEF Joined, u
<1>a. Text(View(g, s[k - 1])) = Text(u) \o Text(l)  BY <1>c DEF Joined, u, l
<1>3. T[k - 1] = Text(u) /\ T[k] = Text(l)  BY <1>0 DEF TextsOf, TextOf, T, u, l
<1>4. Len(Text(u)) = u.data_n  BY <1>1, TextOfGood
<1>5. /\ Ready(g, t, ext)
      /\ TextsOf(g, t) = RemoveAt([T EXCEPT ![k - 1] = Text(View(g, s[k - 1]))], k)
      BY <1>b, <1>c, <1>2, ReadyCut DEF T
<1>6. TextsOf(g, t) = JoinedTexts(T, k)  BY <1>a, <1>3, <1>5 DEF JoinedTexts
<1> QED  BY <1>2, <1>c, <1>3, <1>4, <1>5, <1>6 DEF JoinsLast, g, T, t

\* dd in the last line, which is not the first on the screen.
LEMMA DeleteReady ==
    ASSUME NEW ext, NEW f, NEW s, Ready(f, s, ext), NEW k \in 1 .. Len(s), f.buffer_r = k - 1,
           f.currentl = s[k], k >= 2, k = Len(s), f.scroll # s[k]
    PROVE  LET g == DeleteLine(f)
               t == RemoveAt(s, k)
           IN  /\ Ready(g, t, ext) /\ g.buffer_r = k - 2
               /\ g.buffer_c = ClipTo(f, TextsOf(f, s)[k - 1])
               /\ TextsOf(g, t) = RemoveAt(TextsOf(f, s), k)
<1> DEFINE g == DeleteLine(f)
           t == RemoveAt(s, k)
           T == TextsOf(f, s)
           up == s[k - 1]
           u == View(f, up)
           c == Clamp(f, up)
<1>0. /\ Sound(f, ext) /\ ~f.fault /\ Tracks(f, s, ext) /\ k - 1 \in 1 .. Len(s) /\ Len(s) >= 2
      /\ Len(s) # 1 /\ up \in LineId
      BY ReadyFields DEF Ready
<1>1. Good(u)  BY <1>0 DEF Ready
<1>2. g = Cutl(f)  BY <1>0, DeleteFrame
<1> HIDE DEF g
<1>3. /\ Sound(g, ext) /\ (~g.fault => Tracks(g, t, ext)) /\ ~g.fault /\ SameScroll(f, g)
      /\ g.buffer_r = k - 2 /\ g.currentl = up /\ g.buffer_c = c
      /\ Elsewhere(f, g, up) /\ View(g, up) = MoveGap(u, c)
  <2> DEFINE h == Cutl(f)
  <2>1. Sound(h, ext) /\ (~h.fault => Tracks(h, RemoveAt(s, k), ext))  BY <1>0, CutFrame
  <2>2. CutsLast(f, h, s, k)  BY <1>0, CutFrame
  <2> HIDE DEF h
  <2> QED  BY <2>1, <2>2, <1>1, <1>2 DEF CutsLast, h
<1>4. u.data_n = f.line[up].data_n /\ u.data_n \in Nat  BY <1>0, <1>1, ViewFields, GoodFields
<1>5. /\ c \in Nat /\ c <= u.data_n
      /\ c = IF f.buffer_c >= u.data_n THEN u.data_n ELSE f.buffer_c
      BY <1>0, <1>4, ClampValue
<1>6. T[k - 1] = Text(u)  BY <1>0 DEF TextsOf, TextOf
<1>7. Len(Text(u)) = u.data_n  BY <1>1, TextOfGood
<1> HIDE DEF u, c
<1>8. Good(View(g, up)) /\ View(g, up).sog = c /\ Text(View(g, up)) = Text(u)
      BY <1>1, <1>3, <1>5, MoveGapGood
<1>9. /\ Ready(g, t, ext)
      /\ TextsOf(g, t) = RemoveAt([T EXCEPT ![k - 1] = Text(View(g, up))], k)
      BY <1>3, <1>8, ReadyCut
<1>10. [T EXCEPT ![k - 1] = Text(View(g, up))] = T  BY <1>6, <1>8 DEF TextsOf
<1> HIDE DEF T
<1> QED  BY <1>3, <1>5, <1>6, <1>7, <1>9, <1>10 DEF ClipTo, T, g

-----------------------------------------------------------------------------
(* The beginning *)

\* Nothing refers to a line but the framebuffer, no line is freed, and every key
\* that moves the cursor down scrolls.
None == [refs |-> [id \in LineId |-> 0], gone |-> {}, low |-> Rows - 2]

\* What that means of its fields.
LEMMA NoneFields ==
    /\ None.refs \in [LineId -> Nat] /\ \A id \in LineId : None.refs[id] = 0
    /\ None.gone = {} /\ None.low = Rows - 2 /\ None.low \in Nat /\ None.low >= Rows - 2
<1>1. Rows - 2 \in Nat /\ Rows - 2 >= Rows - 2  BY RowsAssumption
<1> QED  BY <1>1 DEF None

\* init_fb_struct(): one empty line.
LEMMA InitFrame ==
    /\ Sound(InitFb, None) /\ Tracks(InitFb, <<1>>, None) /\ ~InitFb.fault
    /\ View(InitFb, 1) = EmptyLine /\ InitFb.buffer_c = 0 /\ InitFb.buffer_r = 0
    /\ InitFb.currentl = 1 /\ InitFb.scroll = 1 /\ InitFb.scroll_r = 0
    /\ Texts(InitFb) = <<<<>>>>
<1> DEFINE lines == [id \in LineId |-> NewStruct(id)]
           arrays == [id \in LineId |-> EmptyLine.data]
           f == InitFb
<1>0. 1 \in LineId /\ MaxLines \in Nat /\ 1 # NULL /\ 2 \in 1 .. MaxLines + 1
      BY MaxLinesAssumption, NULLAssumption DEF LineId
<1>1. /\ Shaped(EmptyLine) /\ EmptyLine.data \in ByteArray
      /\ EmptyLine = Line(0, InitGapSize - 1, InitGapSize + 1, 0, EmptyLine.data)
  <2>1. Shaped(EmptyLine)  BY EmptyLineGood, GoodIsShaped
  <2>2. EmptyLine.data \in ByteArray
    <3>1. EmptyLine.size \in Nat /\ EmptyLine.data \in [0 .. EmptyLine.size - 1 -> Byte]
          BY <2>1, ShapedFields
    <3> QED  BY <3>1 DEF ByteArray
  <2> QED  BY <2>1, <2>2 DEF EmptyLine, Line
<1>2. ASSUME NEW id \in LineId
      PROVE  /\ NewStruct(id) \in LineStruct /\ NewStruct(id).data = id
             /\ NewStruct(id).refs = 1 /\ NewStruct(id).prevl = NULL /\ NewStruct(id).nextl = NULL
             /\ NewStruct(id).sog = 0 /\ NewStruct(id).eog = InitGapSize - 1
             /\ NewStruct(id).size = InitGapSize + 1 /\ NewStruct(id).data_n = 0
      BY InitGapSizeAssumption DEF NewStruct, LineStruct, Link
<1>3. [lines EXCEPT ![1] = NewStruct(1)] = lines /\ [arrays EXCEPT ![1] = EmptyLine.data] = arrays
      BY <1>0
<1>4. f = [line |-> lines, bytes |-> arrays, alive |-> {1}, fresh |-> 2,
           headl |-> 1, taill |-> 1, currentl |-> 1, scroll |-> 1,
           scroll_r |-> 0, buffer_r |-> 0, buffer_c |-> 0, buffer_n |-> 1, fault |-> FALSE]
  <2> DEFINE b == [line |-> lines, bytes |-> arrays, alive |-> {}, fresh |-> 1,
                   headl |-> 1, taill |-> 1, currentl |-> 1, scroll |-> 1,
                   scroll_r |-> 0, buffer_r |-> 0, buffer_c |-> 0, buffer_n |-> 1,
                   fault |-> FALSE]
  <2>1. f = AllocEmptyl(b)  BY DEF InitFb
  <2>2. f = [b EXCEPT !.line = [lines EXCEPT ![1] = NewStruct(1)],
                      !.bytes = [arrays EXCEPT ![1] = EmptyLine.data],
                      !.alive = {1}, !.fresh = 2]
    <3> HIDE DEF lines, arrays, f
    <3> QED  BY <2>1 DEF AllocEmptyl
  <2> HIDE DEF lines, arrays, f
  <2> QED  BY <2>2, <1>3
<1>5. lines \in [LineId -> LineStruct] /\ arrays \in [LineId -> ByteArray]
      BY <1>1, <1>2
<1>6. \A id \in LineId : lines[id] = NewStruct(id) /\ arrays[id] = EmptyLine.data
      OBVIOUS
<1> HIDE DEF lines, arrays, f
<1>7. f \in Frame /\ f.line = lines /\ f.bytes = arrays /\ f.alive = {1} /\ f.fresh = 2
      BY <1>0, <1>4, <1>5 DEF Frame, Link
<1>8. \A id \in LineId : f.line[id].data = id /\ View(f, id) = EmptyLine
      BY <1>1, <1>2, <1>6, <1>7 DEF View
<1>9. Sound(f, None)
  <2>1. f.alive = 1 .. f.fresh - 1  BY <1>7
  <2>2. f.alive = (1 .. f.fresh - 1) \ None.gone /\ None.gone \subseteq 1 .. f.fresh - 1
        BY <2>1, NoneFields
  <2> QED  BY <2>2, <1>1, <1>4, <1>7, <1>8, NoneFields DEF Sound
<1>10. Tracks(f, <<1>>, None)
  <2> DEFINE s == <<1>>
  <2>1. s \in Seq(LineId) /\ Len(s) = 1 /\ s[1] = 1 /\ \A k \in 1 .. Len(s) : k = 1
        BY <1>0
  <2> HIDE DEF s
  <2>2. f.line[1].nextl = NULL /\ f.line[1].prevl = NULL /\ f.line[1].refs = 1
        BY <1>0, <1>2, <1>6, <1>7
  <2>3. Chain(f, s)  BY <2>1, <2>2, <1>4, <1>7 DEF Chain
  <2>4. Counted(f, s, None)  BY <2>1, <2>2, <1>0, <1>7, NoneFields DEF Counted
  <2>5. OnList(f, s)  BY <2>1, <1>4 DEF OnList
  <2> QED  BY <2>3, <2>4, <2>5 DEF Tracks, s
<1>11. Texts(f) = <<<<>>>>
  <2>1. Texts(f) = TextsOf(f, <<1>>)  BY <1>9, <1>10, LinesTrack
  <2>2. TextOf(f, 1) = <<>>  BY <1>0, <1>8, EmptyLineGood DEF TextOf
  <2>3. TextsOf(f, <<1>>) = [i \in 1 .. 1 |-> <<>>]  BY <2>2 DEF TextsOf
  <2> QED  BY <2>1, <2>3
<1> QED  BY <1>0, <1>4, <1>8, <1>9, <1>10, <1>11 DEF f

\* It is ready for every key.
LEMMA InitReady == Ready(InitFb, <<1>>, None)
<1> DEFINE f == InitFb
           s == <<1>>
<1>1. /\ Sound(f, None) /\ Tracks(f, s, None) /\ ~f.fault
      /\ View(f, 1) = EmptyLine /\ f.buffer_c = 0 /\ f.buffer_r = 0
      /\ f.currentl = 1 /\ f.scroll = 1 /\ f.scroll_r = 0
      BY InitFrame
<1>2. Len(s) = 1 /\ s[1] = 1 /\ \A i \in 1 .. Len(s) : s[i] = 1  OBVIOUS
<1>3. Good(EmptyLine) /\ EmptyLine.sog = 0  BY EmptyLineGood DEF EmptyLine, Line
<1> HIDE DEF f, s
<1>4. Rows - 2 \in Nat /\ None.low \in Nat /\ None.low >= Rows - 2
      BY NoneFields, RowsAssumption
<1>5. Seen(f, s, None)  BY <1>1, <1>2, <1>4 DEF Seen, CursorR
<1>6. \A i \in 1 .. Len(s) : Good(View(f, s[i]))  BY <1>1, <1>2, <1>3
<1>7. View(f, f.currentl).sog = f.buffer_c  BY <1>1, <1>3
<1> QED  BY <1>1, <1>5, <1>6, <1>7 DEF Ready, f, s

=============================================================================
