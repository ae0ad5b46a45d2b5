---------------------------- MODULE LineProofs ----------------------------
(***************************************************************************)
(* What the operators of LineOps do to a line, for every alphabet, every   *)
(* initial gap size and every length: a well-formed line gives a           *)
(* well-formed line, and its text is the text of the abstract operation.   *)
(***************************************************************************)
EXTENDS LineOps, Sequences, TLAPS

\* A line that is well-formed and has characters around the gap.
CharsAround(l) == \A i \in 0 .. l.size - 2 : i < l.sog \/ i > l.eog => l.data[i] \in Char
Good(l) == WellFormed(l) /\ CharsAround(l)

\* The k-th character of a line whose gap is in one piece.
CharAt(l, k) == IF k <= l.sog THEN l.data[k - 1] ELSE l.data[l.eog + (k - l.sog)]

-----------------------------------------------------------------------------
(* What the shape of a line says about its text *)

\* The fields of a well-formed line ...
LEMMA WellFields ==
    ASSUME NEW l, WellFormed(l)
    PROVE  /\ l.sog \in Nat /\ l.eog \in Nat /\ l.size \in Nat /\ l.data_n \in Nat
           /\ l.sog < l.eog /\ l.eog <= l.size - 2
           /\ l.data_n = l.size - 2 - (l.eog - l.sog)
           /\ l.sog <= l.data_n
           /\ l.data \in [0 .. l.size - 1 -> Byte]
           /\ l.data[l.size - 1] = NUL
BY DEF WellFormed

\* ... and of a good one, which has characters around its gap.
LEMMA GoodFields ==
    ASSUME NEW l, Good(l)
    PROVE  /\ l.sog \in Nat /\ l.eog \in Nat /\ l.size \in Nat /\ l.data_n \in Nat
           /\ l.sog < l.eog /\ l.eog <= l.size - 2
           /\ l.data_n = l.size - 2 - (l.eog - l.sog)
           /\ l.sog <= l.data_n
           /\ l.data \in [0 .. l.size - 1 -> Byte]
           /\ l.data[l.size - 1] = NUL
           /\ \A i \in 0 .. l.size - 2 : i < l.sog \/ i > l.eog => l.data[i] \in Char
BY DEF Good, WellFormed, CharsAround

\* Conversely, what has to be shown of the five fields of a line.
LEMMA MakeGood ==
    ASSUME NEW l,
           l = Line(l.sog, l.eog, l.size, l.data_n, l.data),
           l.sog \in Nat, l.eog \in Nat, l.size \in Nat, l.data_n \in Nat,
           l.sog < l.eog, l.eog <= l.size - 2,
           l.data_n = l.size - 2 - (l.eog - l.sog),
           l.data \in [0 .. l.size - 1 -> Byte],
           l.data[l.size - 1] = NUL,
           \A i \in 0 .. l.size - 2 : i < l.sog \/ i > l.eog => l.data[i] \in Char
    PROVE  Good(l)
BY DEF Good, WellFormed, CharsAround

\* The fields of a record made by Line.
LEMMA LineFields ==
    ASSUME NEW sog, NEW eog, NEW size, NEW data_n, NEW data
    PROVE  LET l == Line(sog, eog, size, data_n, data)
           IN  /\ l.sog = sog /\ l.eog = eog /\ l.size = size
               /\ l.data_n = data_n /\ l.data = data
               /\ l = Line(l.sog, l.eog, l.size, l.data_n, l.data)
BY DEF Line

\* The text of a well-formed line, character by character.
LEMMA TextOfWell ==
    ASSUME NEW l, WellFormed(l)
    PROVE  Text(l) = [k \in 1 .. l.data_n |-> CharAt(l, k)]
<1>0. /\ l.sog \in Nat /\ l.eog \in Nat /\ l.size \in Nat /\ l.data_n \in Nat
      /\ l.sog < l.eog /\ l.eog <= l.size - 2
      /\ l.data_n = l.size - 2 - (l.eog - l.sog)
      /\ l.sog <= l.data_n
      BY WellFields
<1>1. l.sog + ShownAfterGap(l) = l.data_n
      BY <1>0 DEF ShownAfterGap
<1> QED  BY <1>1 DEF Text, CharAt

\* The text has the length data_n says and no NUL in it.
LEMMA TextOfGood ==
    ASSUME NEW l, Good(l)
    PROVE  /\ Text(l) = [k \in 1 .. l.data_n |-> CharAt(l, k)]
           /\ \A k \in 1 .. l.data_n : CharAt(l, k) \in Char
           /\ Text(l) \in Seq(Char)
           /\ Len(Text(l)) = l.data_n
<1>0. /\ l.sog \in Nat /\ l.eog \in Nat /\ l.size \in Nat /\ l.data_n \in Nat
      /\ l.sog < l.eog /\ l.eog <= l.size - 2
      /\ l.data_n = l.size - 2 - (l.eog - l.sog)
      /\ l.sog <= l.data_n
      BY GoodFields
<1>d. /\ l.data \in [0 .. l.size - 1 -> Byte]
      /\ l.data[l.size - 1] = NUL
      /\ \A i \in 0 .. l.size - 2 : i < l.sog \/ i > l.eog => l.data[i] \in Char
      BY GoodFields
<1>2. Text(l) = [k \in 1 .. l.data_n |-> CharAt(l, k)]
      BY TextOfWell DEF Good
<1>3. ASSUME NEW k \in 1 .. l.data_n PROVE CharAt(l, k) \in Char
  <2>1. CASE k <= l.sog
    <3>1. k - 1 \in 0 .. l.size - 2 /\ k - 1 < l.sog  BY <2>1, <1>0
    <3> QED  BY <2>1, <3>1, <1>d DEF CharAt
  <2>2. CASE k > l.sog
    <3>1. l.eog + (k - l.sog) \in 0 .. l.size - 2 /\ l.eog + (k - l.sog) > l.eog
          BY <2>2, <1>0
    <3>2. ~(k <= l.sog)  BY <2>2, <1>0
    <3> QED  BY <3>1, <3>2, <1>d DEF CharAt
  <2> QED  BY <2>1, <2>2, <1>0
<1>4. Text(l) \in [1 .. l.data_n -> Char]  BY <1>2, <1>3
<1> QED  BY <1>2, <1>3, <1>4, <1>0

-----------------------------------------------------------------------------
(* One lemma for each operation *)

\* alloc_emptyl()
LEMMA EmptyLineGood == Good(EmptyLine) /\ Text(EmptyLine) = <<>> /\ EmptyLine.data_n = 0
<1> DEFINE g == EmptyLine
<1>1. /\ g.sog = 0 /\ g.eog = InitGapSize - 1 /\ g.size = InitGapSize + 1
      /\ g.data_n = 0 /\ g.data = [i \in 0 .. InitGapSize |-> NUL]
      /\ g = Line(g.sog, g.eog, g.size, g.data_n, g.data)
      BY DEF EmptyLine, Line
<1> HIDE DEF g
<1>2. /\ g.sog \in Nat /\ g.eog \in Nat /\ g.size \in Nat /\ g.data_n \in Nat
      /\ g.sog < g.eog /\ g.eog <= g.size - 2
      /\ g.data_n = g.size - 2 - (g.eog - g.sog)
      /\ g.size - 1 = InitGapSize
      BY <1>1, InitGapSizeAssumption
<1>3. g.data \in [0 .. g.size - 1 -> Byte] /\ g.data[g.size - 1] = NUL
      BY <1>1, <1>2, InitGapSizeAssumption DEF Byte
<1>4. \A i \in 0 .. g.size - 2 : ~(i < g.sog \/ i > g.eog)
      BY <1>1, InitGapSizeAssumption
<1>5. Good(g)  BY <1>1, <1>2, <1>3, <1>4, MakeGood
<1>6. Len(Text(g)) = 0 /\ Text(g) \in Seq(Char)
      BY <1>1, <1>5, TextOfGood
<1> QED  BY <1>1, <1>5, <1>6 DEF g

\* The realloc in insert_char() changes neither the text nor the cursor.
LEMMA GrowGood ==
    ASSUME NEW l, Good(l)
    PROVE  /\ Good(Grow(l))
           /\ Text(Grow(l)) = Text(l)
           /\ Grow(l).sog = l.sog /\ Grow(l).data_n = l.data_n
           /\ Grow(l).eog = l.eog + (InitGapSize - 1)
<1> DEFINE g == Grow(l)
           by == InitGapSize - 1
<1>0. /\ l.sog \in Nat /\ l.eog \in Nat /\ l.size \in Nat /\ l.data_n \in Nat
      /\ l.sog < l.eog /\ l.eog <= l.size - 2
      /\ l.data_n = l.size - 2 - (l.eog - l.sog)
      /\ l.sog <= l.data_n
      BY GoodFields
<1>d. /\ l.data \in [0 .. l.size - 1 -> Byte]
      /\ l.data[l.size - 1] = NUL
      /\ \A i \in 0 .. l.size - 2 : i < l.sog \/ i > l.eog => l.data[i] \in Char
      BY GoodFields
<1>1. by \in Nat /\ by >= 1  BY InitGapSizeAssumption
<1>2. /\ g.sog = l.sog /\ g.eog = l.eog + by /\ g.size = l.size + by
      /\ g.data_n = l.data_n
      BY DEF Grow, Line
<1>e. /\ \A i \in 0 .. g.size - 1 :
            g.data[i] = IF i > g.eog THEN l.data[i - by]
                        ELSE IF i >= l.size THEN NUL ELSE l.data[i]
      /\ g.data = [i \in 0 .. g.size - 1 |-> g.data[i]]
      /\ g = Line(g.sog, g.eog, g.size, g.data_n, g.data)
  <2>1. /\ g.data = [i \in 0 .. l.size + by - 1 |->
                       IF i > l.eog + by THEN l.data[i - by]
                       ELSE IF i >= l.size THEN NUL ELSE l.data[i]]
        /\ g = Line(g.sog, g.eog, g.size, g.data_n, g.data)
        BY DEF Grow, Line
  <2> HIDE DEF g, by
  <2>2. l.size + by = g.size /\ l.eog + by = g.eog  BY <1>2
  <2>3. l.size + by - 1 = g.size - 1  BY <2>2, <1>0, <1>1
  <2>4. \A i \in 0 .. l.size + by - 1 :
            g.data[i] = IF i > l.eog + by THEN l.data[i - by]
                        ELSE IF i >= l.size THEN NUL ELSE l.data[i]
        BY <2>1
  <2>5. g.data = [i \in 0 .. l.size + by - 1 |-> g.data[i]]  BY <2>1
  <2>6. g.data = [i \in 0 .. g.size - 1 |-> g.data[i]]  BY <2>3, <2>5, Zenon
  <2> QED  BY <2>1, <2>2, <2>4, <2>6
<1> HIDE DEF g, by
<1>3. /\ g.sog \in Nat /\ g.eog \in Nat /\ g.size \in Nat /\ g.data_n \in Nat
      /\ g.sog < g.eog /\ g.eog <= g.size - 2
      /\ g.data_n = g.size - 2 - (g.eog - g.sog)
      BY <1>0, <1>1, <1>2
<1>5. ASSUME NEW i \in 0 .. g.size - 1, i > g.eog
      PROVE  /\ g.data[i] = l.data[i - by]
             /\ i - by \in 0 .. l.size - 1
             /\ i - by > l.eog
  <2>2. g.data[i] = l.data[i - by]  BY <1>5, <1>e
  <2>3. i - by \in 0 .. l.size - 1 /\ i - by > l.eog  BY <1>5, <1>0, <1>1, <1>2
  <2> QED  BY <2>2, <2>3
<1>6. ASSUME NEW i \in 0 .. g.size - 1, i <= g.eog
      PROVE  g.data[i] = IF i >= l.size THEN NUL ELSE l.data[i]
  <2>1. ~(i > g.eog)  BY <1>6, <1>3
  <2> QED  BY <2>1, <1>e
<1>7. g.data \in [0 .. g.size - 1 -> Byte]
  <2>1. ASSUME NEW i \in 0 .. g.size - 1 PROVE g.data[i] \in Byte
    <3>1. CASE i > g.eog  BY <3>1, <1>5, <1>d
    <3>2. CASE i <= g.eog /\ i >= l.size  BY <3>2, <1>6 DEF Byte
    <3>3. CASE i <= g.eog /\ i < l.size
      <4>1. i \in 0 .. l.size - 1 /\ ~(i >= l.size)  BY <3>3, <1>0
      <4> QED  BY <3>3, <4>1, <1>6, <1>d
    <3> QED  BY <3>1, <3>2, <3>3, <1>0, <1>3
  <2> QED  BY <2>1, <1>e
<1>8. g.data[g.size - 1] = NUL
  <2>1. g.size - 1 \in 0 .. g.size - 1 /\ g.size - 1 > g.eog /\ g.size - 1 - by = l.size - 1
        BY <1>0, <1>1, <1>2
  <2> QED  BY <2>1, <1>5, <1>d
<1>9. \A i \in 0 .. g.size - 2 : i < g.sog \/ i > g.eog => g.data[i] \in Char
  <2> SUFFICES ASSUME NEW i \in 0 .. g.size - 2, i < g.sog \/ i > g.eog
               PROVE  g.data[i] \in Char
      OBVIOUS
  <2>0. i \in 0 .. g.size - 1  BY <1>3
  <2>1. CASE i < g.sog
    <3>1. i \in 0 .. l.size - 2 /\ i <= g.eog /\ ~(i >= l.size) /\ i < l.sog
          BY <2>1, <1>0, <1>1, <1>2
    <3> QED  BY <3>1, <2>0, <1>6, <1>d
  <2>2. CASE i > g.eog
    <3>1. i - by \in 0 .. l.size - 2  BY <2>2, <1>0, <1>1, <1>2
    <3> QED  BY <3>1, <2>0, <2>2, <1>5, <1>d
  <2> QED  BY <2>1, <2>2
<1>10. Good(g)  BY <1>e, <1>3, <1>7, <1>8, <1>9, MakeGood
<1>11. \A k \in 1 .. l.data_n : CharAt(g, k) = CharAt(l, k)
  <2> SUFFICES ASSUME NEW k \in 1 .. l.data_n PROVE CharAt(g, k) = CharAt(l, k)
      OBVIOUS
  <2>1. CASE k <= l.sog
    <3>1. k - 1 \in 0 .. g.size - 1 /\ k - 1 <= g.eog /\ ~(k - 1 >= l.size)
          BY <2>1, <1>0, <1>1, <1>2
    <3>2. g.data[k - 1] = l.data[k - 1]  BY <3>1, <1>6
    <3> QED  BY <2>1, <3>2, <1>2 DEF CharAt
  <2>2. CASE k > l.sog
    <3> DEFINE i == g.eog + (k - g.sog)
    <3>1. /\ i \in 0 .. g.size - 1 /\ i > g.eog
          /\ i - by = l.eog + (k - l.sog)
          /\ ~(k <= l.sog)
          BY <2>2, <1>0, <1>1, <1>2
    <3>2. g.data[i] = l.data[i - by]
      <4> HIDE DEF i
      <4> QED  BY <3>1, <1>5
    <3> QED  BY <3>1, <3>2, <1>2 DEF CharAt
  <2> QED  BY <2>1, <2>2, <1>0
<1>12. Text(g) = Text(l)
      BY <1>2, <1>10, <1>11, TextOfGood
<1> QED  BY <1>2, <1>10, <1>12 DEF g, by

\* insert_char() when the gap has room: the character goes to the start of the gap.
LEMMA InsertRoomGood ==
    ASSUME NEW l, Good(l), ~NeedsGrowth(l), NEW ch \in Char
    PROVE  LET g == InsertInGap(l, l.sog, ch)
           IN  /\ Good(g)
               /\ g.sog = l.sog + 1
               /\ g.data_n = l.data_n + 1
               /\ \A k \in 1 .. l.data_n + 1 :
                     CharAt(g, k) = IF k <= l.sog THEN CharAt(l, k)
                                    ELSE IF k = l.sog + 1 THEN ch ELSE CharAt(l, k - 1)
<1> DEFINE g == InsertInGap(l, l.sog, ch)
<1>0. /\ l.sog \in Nat /\ l.eog \in Nat /\ l.size \in Nat /\ l.data_n \in Nat
      /\ l.sog < l.eog /\ l.eog <= l.size - 2
      /\ l.data_n = l.size - 2 - (l.eog - l.sog)
      /\ l.sog <= l.data_n
      BY GoodFields
<1>d. /\ l.data \in [0 .. l.size - 1 -> Byte]
      /\ l.data[l.size - 1] = NUL
      /\ \A i \in 0 .. l.size - 2 : i < l.sog \/ i > l.eog => l.data[i] \in Char
      BY GoodFields
<1>1. /\ g.sog = l.sog + 1 /\ g.eog = l.eog /\ g.size = l.size /\ g.data_n = l.data_n + 1
      BY DEF InsertInGap, Line
<1>2. /\ g.data = [l.data EXCEPT ![l.sog] = ch]
      /\ g = Line(g.sog, g.eog, g.size, g.data_n, g.data)
      BY DEF InsertInGap, Line
<1> HIDE DEF g
<1>3. l.sog + 1 < l.eog  BY <1>0 DEF NeedsGrowth
<1>4. /\ l.sog \in 0 .. l.size - 1 /\ l.sog # l.size - 1 /\ l.size - 1 \in 0 .. l.size - 1
      /\ g.sog \in Nat /\ g.eog \in Nat /\ g.size \in Nat /\ g.data_n \in Nat
      /\ g.sog < g.eog /\ g.eog <= g.size - 2
      /\ g.data_n = g.size - 2 - (g.eog - g.sog)
      BY <1>0, <1>1, <1>3
<1>5. \A i \in 0 .. l.size - 1 : g.data[i] = IF i = l.sog THEN ch ELSE l.data[i]
      BY <1>2, <1>d, <1>4
<1>6. g.data \in [0 .. g.size - 1 -> Byte] /\ g.data[g.size - 1] = NUL
      BY <1>1, <1>2, <1>4, <1>5, <1>d DEF Byte
<1>7. \A i \in 0 .. g.size - 2 : i < g.sog \/ i > g.eog => g.data[i] \in Char
  <2> SUFFICES ASSUME NEW i \in 0 .. g.size - 2, i < g.sog \/ i > g.eog
               PROVE  g.data[i] \in Char
      OBVIOUS
  <2>1. i \in 0 .. l.size - 1 /\ i \in 0 .. l.size - 2  BY <1>0, <1>1
  <2>2. i = l.sog \/ i < l.sog \/ i > l.eog  BY <2>1, <1>0, <1>1
  <2>3. CASE i = l.sog  BY <2>1, <2>3, <1>5
  <2>4. CASE i # l.sog  BY <2>1, <2>2, <2>4, <1>5, <1>d
  <2> QED  BY <2>3, <2>4
<1>8. Good(g)  BY <1>2, <1>4, <1>6, <1>7, MakeGood
<1>9. ASSUME NEW k \in 1 .. l.data_n + 1
      PROVE  CharAt(g, k) = IF k <= l.sog THEN CharAt(l, k)
                            ELSE IF k = l.sog + 1 THEN ch ELSE CharAt(l, k - 1)
  <2>1. CASE k <= l.sog
    <3>1. k - 1 \in 0 .. l.size - 1 /\ k - 1 # l.sog /\ k <= g.sog  BY <2>1, <1>0, <1>1
    <3> QED  BY <2>1, <3>1, <1>5 DEF CharAt
  <2>2. CASE k = l.sog + 1
    <3>1. k - 1 \in 0 .. l.size - 1 /\ k - 1 = l.sog /\ k <= g.sog /\ ~(k <= l.sog)
          BY <2>2, <1>0, <1>1
    <3> QED  BY <2>2, <3>1, <1>5 DEF CharAt
  <2>3. CASE k > l.sog + 1
    <3>1. /\ l.eog + (k - 1 - l.sog) \in 0 .. l.size - 1
          /\ l.eog + (k - 1 - l.sog) # l.sog
          /\ g.eog + (k - g.sog) = l.eog + (k - 1 - l.sog)
          /\ ~(k <= l.sog) /\ ~(k <= g.sog) /\ ~(k = l.sog + 1) /\ ~(k - 1 <= l.sog)
          BY <2>3, <1>0, <1>1
    <3> QED  BY <3>1, <1>5 DEF CharAt
  <2> QED  BY <2>1, <2>2, <2>3, <1>0
<1> QED  BY <1>1, <1>8, <1>9 DEF g

\* insert_char(): the same, after the gap has grown when it had to.
LEMMA InsertGood ==
    ASSUME NEW l, Good(l), NEW ch \in Char
    PROVE  LET g == InsertInGap(l, l.sog, ch)
           IN  /\ Good(g)
               /\ g.sog = l.sog + 1
               /\ g.data_n = l.data_n + 1
               /\ \A k \in 1 .. l.data_n + 1 :
                     CharAt(g, k) = IF k <= l.sog THEN CharAt(l, k)
                                    ELSE IF k = l.sog + 1 THEN ch ELSE CharAt(l, k - 1)
<1>1. CASE ~NeedsGrowth(l)  BY <1>1, InsertRoomGood
<1>2. CASE NeedsGrowth(l)
  <2> DEFINE m == Grow(l)
  <2>1. /\ Good(m) /\ Text(m) = Text(l) /\ m.sog = l.sog /\ m.data_n = l.data_n
        /\ m.eog = l.eog + (InitGapSize - 1)
        BY GrowGood
  <2>2. ~NeedsGrowth(m)
    <3>1. l.sog \in Nat /\ l.eog \in Nat  BY GoodFields
    <3> HIDE DEF m
    <3> QED  BY <2>1, <3>1, <1>2, InitGapSizeAssumption DEF NeedsGrowth
  <2>3. InsertInGap(l, l.sog, ch) = InsertInGap(m, m.sog, ch)
        BY <1>2, <2>1, <2>2 DEF InsertInGap
  <2>4. \A k \in 1 .. l.data_n : CharAt(m, k) = CharAt(l, k)
    <3>1. \A k \in 1 .. m.data_n : Text(m)[k] = CharAt(m, k)  BY <2>1, TextOfGood
    <3>2. \A k \in 1 .. l.data_n : Text(l)[k] = CharAt(l, k)  BY TextOfGood
    <3> QED  BY <2>1, <3>1, <3>2
  <2>5. LET g == InsertInGap(m, m.sog, ch)
        IN  /\ Good(g)
            /\ g.sog = l.sog + 1
            /\ g.data_n = l.data_n + 1
            /\ \A k \in 1 .. l.data_n + 1 :
                  CharAt(g, k) = IF k <= l.sog THEN CharAt(m, k)
                                 ELSE IF k = l.sog + 1 THEN ch ELSE CharAt(m, k - 1)
        BY <2>1, <2>2, InsertRoomGood
  <2>6. l.sog \in Nat /\ l.data_n \in Nat /\ l.sog <= l.data_n  BY GoodFields
  <2>7. \A k \in 1 .. l.data_n + 1 :
            /\ k <= l.sog => k \in 1 .. l.data_n
            /\ ~(k <= l.sog) /\ k # l.sog + 1 => k - 1 \in 1 .. l.data_n
        BY <2>6
  <2> HIDE DEF m
  <2> QED  BY <2>3, <2>4, <2>5, <2>7
<1> QED  BY <1>1, <1>2

\* backspace_char(): the character left of the gap falls into it.
LEMMA BackspaceGood ==
    ASSUME NEW l, Good(l), l.sog # 0
    PROVE  LET g == Backspace(l)
           IN  /\ Good(g)
               /\ g.sog = l.sog - 1
               /\ g.data_n = l.data_n - 1
               /\ ErasedChar(l, l.sog) = CharAt(l, l.sog)
               /\ \A k \in 1 .. l.data_n - 1 :
                     CharAt(g, k) = IF k < l.sog THEN CharAt(l, k) ELSE CharAt(l, k + 1)
<1> DEFINE g == Backspace(l)
<1>0. /\ l.sog \in Nat /\ l.eog \in Nat /\ l.size \in Nat /\ l.data_n \in Nat
      /\ l.sog < l.eog /\ l.eog <= l.size - 2
      /\ l.data_n = l.size - 2 - (l.eog - l.sog)
      /\ l.sog <= l.data_n
      BY GoodFields
<1>d. /\ l.data \in [0 .. l.size - 1 -> Byte]
      /\ l.data[l.size - 1] = NUL
      /\ \A i \in 0 .. l.size - 2 : i < l.sog \/ i > l.eog => l.data[i] \in Char
      BY GoodFields
<1>1. g.sog = l.sog - 1 /\ g.eog = l.eog /\ g.size = l.size /\ g.data_n = l.data_n - 1
      BY DEF Backspace, Line
<1>2. g.data = l.data /\ g = Line(g.sog, g.eog, g.size, g.data_n, g.data)
      BY DEF Backspace, Line
<1> HIDE DEF g
<1>3. /\ g.sog \in Nat /\ g.eog \in Nat /\ g.size \in Nat /\ g.data_n \in Nat
      /\ g.sog < g.eog /\ g.eog <= g.size - 2
      /\ g.data_n = g.size - 2 - (g.eog - g.sog)
      BY <1>0, <1>1
<1>4. g.data \in [0 .. g.size - 1 -> Byte] /\ g.data[g.size - 1] = NUL
      BY <1>1, <1>2, <1>d
<1>5. \A i \in 0 .. g.size - 2 : i < g.sog \/ i > g.eog => g.data[i] \in Char
  <2> SUFFICES ASSUME NEW i \in 0 .. g.size - 2, i < g.sog \/ i > g.eog
               PROVE  g.data[i] \in Char
      OBVIOUS
  <2>1. i \in 0 .. l.size - 2 /\ (i < l.sog \/ i > l.eog)  BY <1>0, <1>1
  <2> QED  BY <2>1, <1>2, <1>d
<1>6. Good(g)  BY <1>2, <1>3, <1>4, <1>5, MakeGood
<1>7. ASSUME NEW k \in 1 .. l.data_n - 1
      PROVE  CharAt(g, k) = IF k < l.sog THEN CharAt(l, k) ELSE CharAt(l, k + 1)
  <2>1. CASE k < l.sog
    <3>1. k <= g.sog /\ k <= l.sog  BY <2>1, <1>0, <1>1
    <3> QED  BY <2>1, <3>1, <1>2 DEF CharAt
  <2>2. CASE k >= l.sog
    <3> DEFINE j == k + 1
    <3>1. /\ g.eog + (k - g.sog) = l.eog + (j - l.sog)
          /\ ~(k <= g.sog) /\ ~(k < l.sog) /\ ~(j <= l.sog)
          BY <2>2, <1>0, <1>1
    <3> HIDE DEF j
    <3>2. CharAt(g, k) = g.data[g.eog + (k - g.sog)]  BY <3>1 DEF CharAt
    <3>3. CharAt(l, j) = l.data[l.eog + (j - l.sog)]  BY <3>1 DEF CharAt
    <3>4. CharAt(g, k) = CharAt(l, j)  BY <3>1, <3>2, <3>3, <1>2
    <3> QED  BY <3>1, <3>4 DEF j
  <2> QED  BY <2>1, <2>2, <1>0
<1>8. ErasedChar(l, l.sog) = CharAt(l, l.sog)
      BY <1>0 DEF ErasedChar, CharAt
<1> QED  BY <1>1, <1>6, <1>7, <1>8 DEF g

\* cursor_left(): a character crosses the gap, the text stays.
LEMMA LeftGood ==
    ASSUME NEW l, Good(l), l.sog # 0
    PROVE  LET g == GapLeft(l, l.sog)
           IN  /\ Good(g) /\ g.sog = l.sog - 1 /\ g.data_n = l.data_n
               /\ Text(g) = Text(l)
<1> DEFINE g == GapLeft(l, l.sog)
<1>0. /\ l.sog \in Nat /\ l.eog \in Nat /\ l.size \in Nat /\ l.data_n \in Nat
      /\ l.sog < l.eog /\ l.eog <= l.size - 2
      /\ l.data_n = l.size - 2 - (l.eog - l.sog)
      /\ l.sog <= l.data_n
      BY GoodFields
<1>d. /\ l.data \in [0 .. l.size - 1 -> Byte]
      /\ l.data[l.size - 1] = NUL
      /\ \A i \in 0 .. l.size - 2 : i < l.sog \/ i > l.eog => l.data[i] \in Char
      BY GoodFields
<1>1. g.sog = l.sog - 1 /\ g.eog = l.eog - 1 /\ g.size = l.size /\ g.data_n = l.data_n
      BY DEF GapLeft, Line
<1>2. /\ g.data = [l.data EXCEPT ![l.eog] = l.data[l.sog - 1]]
      /\ g = Line(g.sog, g.eog, g.size, g.data_n, g.data)
      BY DEF GapLeft, Line
<1> HIDE DEF g
<1>3. /\ l.eog \in 0 .. l.size - 1 /\ l.eog # l.size - 1 /\ l.size - 1 \in 0 .. l.size - 1
      /\ l.sog - 1 \in 0 .. l.size - 2 /\ l.sog - 1 \in 0 .. l.size - 1 /\ l.sog - 1 < l.sog
      /\ g.sog \in Nat /\ g.eog \in Nat /\ g.size \in Nat /\ g.data_n \in Nat
      /\ g.sog < g.eog /\ g.eog <= g.size - 2
      /\ g.data_n = g.size - 2 - (g.eog - g.sog)
      BY <1>0, <1>1
<1>4. \A i \in 0 .. l.size - 1 : g.data[i] = IF i = l.eog THEN l.data[l.sog - 1] ELSE l.data[i]
      BY <1>2, <1>d, <1>3
<1>5. g.data \in [0 .. g.size - 1 -> Byte] /\ g.data[g.size - 1] = NUL
  <2>1. l.data[l.sog - 1] \in Byte  BY <1>3, <1>d
  <2>2. [l.data EXCEPT ![l.eog] = l.data[l.sog - 1]] \in [0 .. l.size - 1 -> Byte]
        BY <2>1, <1>3, <1>d
  <2>3. g.data[l.size - 1] = l.data[l.size - 1]  BY <1>3, <1>4
  <2> QED  BY <2>2, <2>3, <1>1, <1>2, <1>d
<1>6. \A i \in 0 .. g.size - 2 : i < g.sog \/ i > g.eog => g.data[i] \in Char
  <2> SUFFICES ASSUME NEW i \in 0 .. g.size - 2, i < g.sog \/ i > g.eog
               PROVE  g.data[i] \in Char
      OBVIOUS
  <2>1. i \in 0 .. l.size - 1 /\ i \in 0 .. l.size - 2  BY <1>0, <1>1
  <2>2. i = l.eog \/ i < l.sog \/ i > l.eog  BY <2>1, <1>0, <1>1
  <2>3. CASE i = l.eog  BY <2>1, <2>3, <1>3, <1>4, <1>d
  <2>4. CASE i # l.eog  BY <2>1, <2>2, <2>4, <1>4, <1>d
  <2> QED  BY <2>3, <2>4
<1>7. Good(g)  BY <1>2, <1>3, <1>5, <1>6, MakeGood
<1>8. ASSUME NEW k \in 1 .. l.data_n PROVE CharAt(g, k) = CharAt(l, k)
  <2>1. CASE k < l.sog
    <3>1. k - 1 \in 0 .. l.size - 1 /\ k - 1 # l.eog /\ k <= g.sog /\ k <= l.sog
          BY <2>1, <1>0, <1>1
    <3> QED  BY <3>1, <1>4 DEF CharAt
  <2>2. CASE k = l.sog
    <3>1. /\ g.eog + (k - g.sog) = l.eog
          /\ ~(k <= g.sog) /\ k <= l.sog
          BY <2>2, <1>0, <1>1
    <3>2. CharAt(g, k) = g.data[l.eog]  BY <3>1 DEF CharAt
    <3> QED  BY <3>1, <3>2, <2>2, <1>3, <1>4 DEF CharAt
  <2>3. CASE k > l.sog
    <3>1. /\ l.eog + (k - l.sog) \in 0 .. l.size - 1 /\ l.eog + (k - l.sog) # l.eog
          /\ g.eog + (k - g.sog) = l.eog + (k - l.sog)
          /\ ~(k <= g.sog) /\ ~(k <= l.sog)
          BY <2>3, <1>0, <1>1
    <3> QED  BY <3>1, <1>4 DEF CharAt
  <2> QED  BY <2>1, <2>2, <2>3, <1>0
<1>9. Text(g) = Text(l)  BY <1>1, <1>7, <1>8, TextOfGood
<1> QED  BY <1>1, <1>7, <1>9 DEF g

\* cursor_right(): likewise, the other way.
LEMMA RightGood ==
    ASSUME NEW l, Good(l), l.sog + 1 <= l.data_n
    PROVE  LET g == GapRight(l, l.sog)
           IN  /\ Good(g) /\ g.sog = l.sog + 1 /\ g.data_n = l.data_n
               /\ Text(g) = Text(l)
<1> DEFINE g == GapRight(l, l.sog)
<1>0. /\ l.sog \in Nat /\ l.eog \in Nat /\ l.size \in Nat /\ l.data_n \in Nat
      /\ l.sog < l.eog /\ l.eog <= l.size - 2
      /\ l.data_n = l.size - 2 - (l.eog - l.sog)
      /\ l.sog <= l.data_n
      BY GoodFields
<1>d. /\ l.data \in [0 .. l.size - 1 -> Byte]
      /\ l.data[l.size - 1] = NUL
      /\ \A i \in 0 .. l.size - 2 : i < l.sog \/ i > l.eog => l.data[i] \in Char
      BY GoodFields
<1>1. g.sog = l.sog + 1 /\ g.eog = l.eog + 1 /\ g.size = l.size /\ g.data_n = l.data_n
      BY DEF GapRight, Line
<1>2. /\ g.data = [l.data EXCEPT ![l.sog] = l.data[l.eog + 1]]
      /\ g = Line(g.sog, g.eog, g.size, g.data_n, g.data)
      BY DEF GapRight, Line
<1> HIDE DEF g
<1>3. /\ l.sog \in 0 .. l.size - 1 /\ l.sog # l.size - 1 /\ l.size - 1 \in 0 .. l.size - 1
      /\ l.eog + 1 \in 0 .. l.size - 2 /\ l.eog + 1 \in 0 .. l.size - 1 /\ l.eog + 1 > l.eog
      /\ g.sog \in Nat /\ g.eog \in Nat /\ g.size \in Nat /\ g.data_n \in Nat
      /\ g.sog < g.eog /\ g.eog <= g.size - 2
      /\ g.data_n = g.size - 2 - (g.eog - g.sog)
      BY <1>0, <1>1
<1>4. \A i \in 0 .. l.size - 1 : g.data[i] = IF i = l.sog THEN l.data[l.eog + 1] ELSE l.data[i]
      BY <1>2, <1>d, <1>3
<1>5. g.data \in [0 .. g.size - 1 -> Byte] /\ g.data[g.size - 1] = NUL
  <2>1. l.data[l.eog + 1] \in Byte  BY <1>3, <1>d
  <2>2. [l.data EXCEPT ![l.sog] = l.data[l.eog + 1]] \in [0 .. l.size - 1 -> Byte]
        BY <2>1, <1>3, <1>d
  <2>3. g.data[l.size - 1] = l.data[l.size - 1]  BY <1>3, <1>4
  <2> QED  BY <2>2, <2>3, <1>1, <1>2, <1>d
<1>6. \A i \in 0 .. g.size - 2 : i < g.sog \/ i > g.eog => g.data[i] \in Char
  <2> SUFFICES ASSUME NEW i \in 0 .. g.size - 2, i < g.sog \/ i > g.eog
               PROVE  g.data[i] \in Char
      OBVIOUS
  <2>1. i \in 0 .. l.size - 1 /\ i \in 0 .. l.size - 2  BY <1>0, <1>1
  <2>2. i = l.sog \/ i < l.sog \/ i > l.eog  BY <2>1, <1>0, <1>1
  <2>3. CASE i = l.sog  BY <2>1, <2>3, <1>3, <1>4, <1>d
  <2>4. CASE i # l.sog  BY <2>1, <2>2, <2>4, <1>4, <1>d
  <2> QED  BY <2>3, <2>4
<1>7. Good(g)  BY <1>2, <1>3, <1>5, <1>6, MakeGood
<1>8. ASSUME NEW k \in 1 .. l.data_n PROVE CharAt(g, k) = CharAt(l, k)
  <2>1. CASE k <= l.sog
    <3>1. k - 1 \in 0 .. l.size - 1 /\ k - 1 # l.sog /\ k <= g.sog
          BY <2>1, <1>0, <1>1
    <3> QED  BY <2>1, <3>1, <1>4 DEF CharAt
  <2>2. CASE k = l.sog + 1
    <3>1. /\ k - 1 = l.sog /\ l.eog + (k - l.sog) = l.eog + 1
          /\ k <= g.sog /\ ~(k <= l.sog)
          BY <2>2, <1>0, <1>1
    <3>2. CharAt(g, k) = g.data[l.sog] /\ CharAt(l, k) = l.data[l.eog + 1]
          BY <3>1 DEF CharAt
    <3> QED  BY <3>2, <1>3, <1>4
  <2>3. CASE k > l.sog + 1
    <3>1. /\ l.eog + (k - l.sog) \in 0 .. l.size - 1 /\ l.eog + (k - l.sog) # l.sog
          /\ g.eog + (k - g.sog) = l.eog + (k - l.sog)
          /\ ~(k <= g.sog) /\ ~(k <= l.sog)
          BY <2>3, <1>0, <1>1
    <3> QED  BY <3>1, <1>4 DEF CharAt
  <2> QED  BY <2>1, <2>2, <2>3, <1>0
<1>9. Text(g) = Text(l)  BY <1>1, <1>7, <1>8, TextOfGood
<1> QED  BY <1>1, <1>7, <1>9 DEF g

\* move_gap_to_cursor(): the gap goes to column c, the text stays.  First when
\* the gap is left of the column ...
LEMMA MoveRightWell ==
    ASSUME NEW l, WellFormed(l), NEW c \in Nat, c <= l.data_n, c > l.sog
    PROVE  LET g == MoveGap(l, c)
           IN  /\ WellFormed(g) /\ g.sog = c /\ g.data_n = l.data_n /\ Text(g) = Text(l)
               /\ CharsAround(l) => CharsAround(g)
<1> DEFINE g == MoveGap(l, c)
<1>0. /\ l.sog \in Nat /\ l.eog \in Nat /\ l.size \in Nat /\ l.data_n \in Nat
      /\ l.sog < l.eog /\ l.eog <= l.size - 2
      /\ l.data_n = l.size - 2 - (l.eog - l.sog)
      /\ l.sog <= l.data_n
      BY WellFields
<1>d. /\ l.data \in [0 .. l.size - 1 -> Byte]
      /\ l.data[l.size - 1] = NUL
      BY WellFields
<1>m. g = Line(c, c + (l.eog - l.sog), l.size, l.data_n,
               Memmove(l.data, l.sog, l.eog + 1, c - l.sog))
  <2>1. c # l.sog  BY <1>0
  <2> QED  BY <2>1 DEF MoveGap
<1> HIDE DEF g
<1>1. g.sog = c /\ g.eog = c + (l.eog - l.sog) /\ g.size = l.size /\ g.data_n = l.data_n
      BY <1>m DEF Line
<1>2. /\ g.data = Memmove(l.data, l.sog, l.eog + 1, c - l.sog)
      /\ g = Line(g.sog, g.eog, g.size, g.data_n, g.data)
      BY <1>m DEF Line
<1>3. /\ g.sog \in Nat /\ g.eog \in Nat /\ g.size \in Nat /\ g.data_n \in Nat
      /\ g.sog < g.eog /\ g.eog <= g.size - 2
      /\ g.data_n = g.size - 2 - (g.eog - g.sog)
      /\ \A i : l.sog + (c - l.sog) = c
      /\ g.size - 1 \in 0 .. l.size - 1 /\ ~(g.size - 1 < c)
      BY <1>0, <1>1
<1>e. DOMAIN l.data = 0 .. l.size - 1  BY <1>d
<1>4. g.data = [i \in 0 .. l.size - 1 |-> IF l.sog <= i /\ i < c
                                          THEN l.data[l.eog + 1 + (i - l.sog)] ELSE l.data[i]]
      BY <1>2, <1>3, <1>e, Zenon DEF Memmove
<1>5. ASSUME NEW i \in 0 .. l.size - 1, l.sog <= i, i < c
      PROVE  /\ g.data[i] = l.data[l.eog + 1 + (i - l.sog)]
             /\ l.eog + 1 + (i - l.sog) \in 0 .. l.size - 2
             /\ l.eog + 1 + (i - l.sog) \in 0 .. l.size - 1
             /\ l.eog + 1 + (i - l.sog) > l.eog
  <2>1. g.data[i] = l.data[l.eog + 1 + (i - l.sog)]  BY <1>4, <1>5, Zenon
  <2>2. /\ l.eog + 1 + (i - l.sog) \in 0 .. l.size - 2
        /\ l.eog + 1 + (i - l.sog) \in 0 .. l.size - 1
        /\ l.eog + 1 + (i - l.sog) > l.eog
        BY <1>0, <1>5
  <2> QED  BY <2>1, <2>2
<1>6. ASSUME NEW i \in 0 .. l.size - 1, ~(l.sog <= i /\ i < c)
      PROVE  g.data[i] = l.data[i]
      BY <1>4, <1>6, Zenon
<1>7. g.data \in [0 .. g.size - 1 -> Byte] /\ g.data[g.size - 1] = NUL
  <2>1. ASSUME NEW i \in 0 .. l.size - 1 PROVE g.data[i] \in Byte
        BY <1>5, <1>6, <1>d
  <2>2. g.data = [i \in 0 .. l.size - 1 |-> g.data[i]]  BY <1>4
  <2>3. g.data \in [0 .. l.size - 1 -> Byte]  BY <2>1, <2>2
  <2>4. g.data[g.size - 1] = l.data[g.size - 1]  BY <1>3, <1>6
  <2> QED  BY <2>3, <2>4, <1>1, <1>d
<1>8. ASSUME CharsAround(l) PROVE CharsAround(g)
  <2>0. \A i \in 0 .. l.size - 2 : i < l.sog \/ i > l.eog => l.data[i] \in Char
        BY <1>8 DEF CharsAround
  <2> SUFFICES ASSUME NEW i \in 0 .. g.size - 2, i < g.sog \/ i > g.eog
               PROVE  g.data[i] \in Char
      BY DEF CharsAround
  <2>1. i \in 0 .. l.size - 1 /\ i \in 0 .. l.size - 2  BY <1>0, <1>1
  <2>2. CASE l.sog <= i /\ i < c  BY <2>1, <2>2, <1>5, <2>0
  <2>3. CASE ~(l.sog <= i /\ i < c)
    <3>1. i < l.sog \/ i > l.eog  BY <2>1, <2>3, <1>0, <1>1
    <3> QED  BY <2>1, <2>3, <3>1, <1>6, <2>0
  <2> QED  BY <2>2, <2>3
<1>9. WellFormed(g)  BY <1>2, <1>3, <1>7 DEF WellFormed
<1>10. ASSUME NEW k \in 1 .. l.data_n PROVE CharAt(g, k) = CharAt(l, k)
  <2>1. CASE k <= l.sog
    <3>1. k - 1 \in 0 .. l.size - 1 /\ ~(l.sog <= k - 1 /\ k - 1 < c) /\ k <= g.sog
          BY <2>1, <1>0, <1>1
    <3>2. g.data[k - 1] = l.data[k - 1]  BY <3>1, <1>6
    <3> QED  BY <2>1, <3>1, <3>2 DEF CharAt
  <2>2. CASE l.sog < k /\ k <= c
    <3>1. /\ k - 1 \in 0 .. l.size - 1 /\ l.sog <= k - 1 /\ k - 1 < c
          /\ l.eog + 1 + (k - 1 - l.sog) = l.eog + (k - l.sog)
          /\ k <= g.sog /\ ~(k <= l.sog)
          BY <2>2, <1>0, <1>1
    <3>2. g.data[k - 1] = l.data[l.eog + 1 + (k - 1 - l.sog)]  BY <3>1, <1>5
    <3> QED  BY <3>1, <3>2 DEF CharAt
  <2>3. CASE c < k
    <3>1. /\ l.eog + (k - l.sog) \in 0 .. l.size - 1
          /\ ~(l.sog <= l.eog + (k - l.sog) /\ l.eog + (k - l.sog) < c)
          /\ g.eog + (k - g.sog) = l.eog + (k - l.sog)
          /\ ~(k <= g.sog) /\ ~(k <= l.sog)
          BY <2>3, <1>0, <1>1
    <3>2. g.data[l.eog + (k - l.sog)] = l.data[l.eog + (k - l.sog)]  BY <3>1, <1>6
    <3> QED  BY <3>1, <3>2 DEF CharAt
  <2> QED  BY <2>1, <2>2, <2>3, <1>0
<1>11. Text(g) = Text(l)  BY <1>1, <1>9, <1>10, TextOfWell
<1> QED  BY <1>1, <1>8, <1>9, <1>11 DEF g

\* ... then when it is right of it.
LEMMA MoveLeftWell ==
    ASSUME NEW l, WellFormed(l), NEW c \in Nat, c < l.sog
    PROVE  LET g == MoveGap(l, c)
           IN  /\ WellFormed(g) /\ g.sog = c /\ g.data_n = l.data_n /\ Text(g) = Text(l)
               /\ CharsAround(l) => CharsAround(g)
<1> DEFINE g == MoveGap(l, c)
           n == l.sog - c
           to == l.eog - n + 1
<1>0. /\ l.sog \in Nat /\ l.eog \in Nat /\ l.size \in Nat /\ l.data_n \in Nat
      /\ l.sog < l.eog /\ l.eog <= l.size - 2
      /\ l.data_n = l.size - 2 - (l.eog - l.sog)
      /\ l.sog <= l.data_n
      BY WellFields
<1>d. /\ l.data \in [0 .. l.size - 1 -> Byte]
      /\ l.data[l.size - 1] = NUL
      BY WellFields
<1>m. g = Line(c, c + (l.eog - l.sog), l.size, l.data_n, Memmove(l.data, to, c, n))
  <2>1. c # l.sog /\ ~(c > l.sog)  BY <1>0
  <2> QED  BY <2>1 DEF MoveGap
<1> HIDE DEF g, to, n
<1>1. g.sog = c /\ g.eog = c + (l.eog - l.sog) /\ g.size = l.size /\ g.data_n = l.data_n
      BY <1>m DEF Line
<1>2. /\ g.data = Memmove(l.data, to, c, n)
      /\ g = Line(g.sog, g.eog, g.size, g.data_n, g.data)
      BY <1>m DEF Line
<1> USE DEF to, n
<1>3. /\ g.sog \in Nat /\ g.eog \in Nat /\ g.size \in Nat /\ g.data_n \in Nat
      /\ g.sog < g.eog /\ g.eog <= g.size - 2
      /\ g.data_n = g.size - 2 - (g.eog - g.sog)
      /\ to + n = l.eog + 1 /\ to \in Nat /\ n \in Nat /\ to = g.eog + 1
      /\ g.size - 1 \in 0 .. l.size - 1 /\ ~(g.size - 1 < l.eog + 1)
      BY <1>0, <1>1
<1>e. DOMAIN l.data = 0 .. l.size - 1  BY <1>d
<1>4. g.data = [i \in 0 .. l.size - 1 |-> IF to <= i /\ i < l.eog + 1
                                          THEN l.data[c + (i - to)] ELSE l.data[i]]
  <2>1. g.data = [i \in 0 .. l.size - 1 |-> IF to <= i /\ i < to + n
                                            THEN l.data[c + (i - to)] ELSE l.data[i]]
        BY <1>2, <1>e, Zenon DEF Memmove
  <2>2. to + n = l.eog + 1  BY <1>3
  <2> HIDE DEF n, to
  <2> QED  BY <2>1, <2>2, Zenon
<1>5. ASSUME NEW i \in 0 .. l.size - 1, to <= i, i < l.eog + 1
      PROVE  /\ g.data[i] = l.data[c + (i - to)]
             /\ c + (i - to) \in 0 .. l.size - 2
             /\ c + (i - to) \in 0 .. l.size - 1
             /\ c + (i - to) < l.sog
  <2>2. /\ c + (i - to) \in 0 .. l.size - 2
        /\ c + (i - to) \in 0 .. l.size - 1
        /\ c + (i - to) < l.sog
        BY <1>0, <1>5
  <2> HIDE DEF n, to
  <2>1. g.data[i] = l.data[c + (i - to)]  BY <1>4, <1>5, Zenon
  <2> QED  BY <2>1, <2>2
<1>6. ASSUME NEW i \in 0 .. l.size - 1, ~(to <= i /\ i < l.eog + 1)
      PROVE  g.data[i] = l.data[i]
  <2> HIDE DEF n, to
  <2> QED  BY <1>4, <1>6, Zenon
<1>7. g.data \in [0 .. g.size - 1 -> Byte] /\ g.data[g.size - 1] = NUL
  <2> HIDE DEF n, to
  <2>1. ASSUME NEW i \in 0 .. l.size - 1 PROVE g.data[i] \in Byte
        BY <1>5, <1>6, <1>d
  <2>2. g.data = [i \in 0 .. l.size - 1 |-> g.data[i]]  BY <1>4
  <2>3. g.data \in [0 .. l.size - 1 -> Byte]  BY <2>1, <2>2
  <2>4. g.data[g.size - 1] = l.data[g.size - 1]  BY <1>3, <1>6
  <2> QED  BY <2>3, <2>4, <1>1, <1>d
<1>8. ASSUME CharsAround(l) PROVE CharsAround(g)
  <2>0. \A i \in 0 .. l.size - 2 : i < l.sog \/ i > l.eog => l.data[i] \in Char
        BY <1>8 DEF CharsAround
  <2> SUFFICES ASSUME NEW i \in 0 .. g.size - 2, i < g.sog \/ i > g.eog
               PROVE  g.data[i] \in Char
      BY DEF CharsAround
  <2>1. i \in 0 .. l.size - 1 /\ i \in 0 .. l.size - 2  BY <1>0, <1>1
  <2>2. CASE to <= i /\ i < l.eog + 1
    <3> HIDE DEF n, to
    <3> QED  BY <2>1, <2>2, <1>5, <2>0
  <2>3. CASE ~(to <= i /\ i < l.eog + 1)
    <3>1. i < l.sog \/ i > l.eog  BY <2>1, <2>3, <1>0, <1>1
    <3> HIDE DEF n, to
    <3> QED  BY <2>1, <2>3, <3>1, <1>6, <2>0
  <2> QED  BY <2>2, <2>3
<1>9. WellFormed(g)  BY <1>2, <1>3, <1>7 DEF WellFormed
<1>10. ASSUME NEW k \in 1 .. l.data_n PROVE CharAt(g, k) = CharAt(l, k)
  <2>1. CASE k <= c
    <3>1. /\ k - 1 \in 0 .. l.size - 1 /\ ~(to <= k - 1 /\ k - 1 < l.eog + 1)
          /\ k <= g.sog /\ k <= l.sog
          BY <2>1, <1>0, <1>1
    <3> HIDE DEF n, to
    <3>2. g.data[k - 1] = l.data[k - 1]  BY <3>1, <1>6
    <3> QED  BY <2>1, <3>1, <3>2 DEF CharAt
  <2>2. CASE c < k /\ k <= l.sog
    <3> DEFINE i == g.eog + (k - g.sog)
    <3>1. /\ i \in 0 .. l.size - 1 /\ to <= i /\ i < l.eog + 1
          /\ c + (i - to) = k - 1
          /\ ~(k <= g.sog) /\ k <= l.sog
          BY <2>2, <1>0, <1>1
    <3>2. CharAt(g, k) = g.data[i]  BY <3>1 DEF CharAt
    <3> HIDE DEF n, to, i
    <3>3. g.data[i] = l.data[k - 1]  BY <3>1, <1>5
    <3> QED  BY <3>1, <3>2, <3>3 DEF CharAt
  <2>3. CASE l.sog < k
    <3>1. /\ l.eog + (k - l.sog) \in 0 .. l.size - 1
          /\ ~(to <= l.eog + (k - l.sog) /\ l.eog + (k - l.sog) < l.eog + 1)
          /\ g.eog + (k - g.sog) = l.eog + (k - l.sog)
          /\ ~(k <= g.sog) /\ ~(k <= l.sog)
          BY <2>3, <1>0, <1>1
    <3> HIDE DEF n, to
    <3>2. g.data[l.eog + (k - l.sog)] = l.data[l.eog + (k - l.sog)]  BY <3>1, <1>6
    <3> QED  BY <3>1, <3>2 DEF CharAt
  <2> QED  BY <2>1, <2>2, <2>3, <1>0
<1>11. Text(g) = Text(l)  BY <1>1, <1>9, <1>10, TextOfWell
<1> QED  BY <1>1, <1>8, <1>9, <1>11 DEF g

\* Either way.
LEMMA MoveGapWell ==
    ASSUME NEW l, WellFormed(l), NEW c \in Nat, c <= l.data_n
    PROVE  LET g == MoveGap(l, c)
           IN  /\ WellFormed(g) /\ g.sog = c /\ g.data_n = l.data_n /\ Text(g) = Text(l)
               /\ CharsAround(l) => CharsAround(g)
<1>1. l.sog \in Nat  BY WellFields
<1>2. CASE c = l.sog  BY <1>2 DEF MoveGap
<1>3. CASE c > l.sog  BY <1>3, MoveRightWell
<1>4. CASE c < l.sog  BY <1>4, MoveLeftWell
<1> QED  BY <1>1, <1>2, <1>3, <1>4

\* The same for good lines.
LEMMA MoveGapGood ==
    ASSUME NEW l, Good(l), NEW c \in Nat, c <= l.data_n
    PROVE  LET g == MoveGap(l, c)
           IN  Good(g) /\ g.sog = c /\ g.data_n = l.data_n /\ Text(g) = Text(l)
BY MoveGapWell DEF Good

\* insert_line_after(..., NULL): the line in front of a newline ...
LEMMA BeforeCursorGood ==
    ASSUME NEW l, Good(l)
    PROVE  LET g == BeforeCursor(l, l.sog)
           IN  /\ Good(g) /\ g.sog = l.sog /\ g.data_n = l.sog
               /\ \A k \in 1 .. l.sog : CharAt(g, k) = CharAt(l, k)
<1> DEFINE g == BeforeCursor(l, l.sog)
<1>0. /\ l.sog \in Nat /\ l.eog \in Nat /\ l.size \in Nat /\ l.data_n \in Nat
      /\ l.sog < l.eog /\ l.eog <= l.size - 2
      /\ l.data_n = l.size - 2 - (l.eog - l.sog)
      /\ l.sog <= l.data_n
      BY GoodFields
<1>d. /\ l.data \in [0 .. l.size - 1 -> Byte]
      /\ l.data[l.size - 1] = NUL
      /\ \A i \in 0 .. l.size - 2 : i < l.sog \/ i > l.eog => l.data[i] \in Char
      BY GoodFields
<1>1. CASE l.data_n - l.sog <= 0
  <2>1. g = l  BY <1>1 DEF BeforeCursor
  <2>2. l.data_n = l.sog  BY <1>0, <1>1
  <2> QED  BY <2>1, <2>2
<1>2. CASE ~(l.data_n - l.sog <= 0)
  <2>1. g = Line(l.sog, l.size - 2, l.size, l.sog, l.data)  BY <1>2 DEF BeforeCursor
  <2> HIDE DEF g
  <2>2. g.sog = l.sog /\ g.eog = l.size - 2 /\ g.size = l.size /\ g.data_n = l.sog
        BY <2>1 DEF Line
  <2>3. g.data = l.data /\ g = Line(g.sog, g.eog, g.size, g.data_n, g.data)
        BY <2>1 DEF Line
  <2>4. /\ g.sog \in Nat /\ g.eog \in Nat /\ g.size \in Nat /\ g.data_n \in Nat
        /\ g.sog < g.eog /\ g.eog <= g.size - 2
        /\ g.data_n = g.size - 2 - (g.eog - g.sog)
        BY <1>0, <2>2
  <2>5. g.data \in [0 .. g.size - 1 -> Byte] /\ g.data[g.size - 1] = NUL
        BY <2>2, <2>3, <1>d
  <2>6. \A i \in 0 .. g.size - 2 : i < g.sog \/ i > g.eog => g.data[i] \in Char
    <3> SUFFICES ASSUME NEW i \in 0 .. g.size - 2, i < g.sog \/ i > g.eog
                 PROVE  g.data[i] \in Char
        OBVIOUS
    <3>1. i \in 0 .. l.size - 2 /\ i < l.sog  BY <1>0, <2>2
    <3> QED  BY <3>1, <2>3, <1>d
  <2>7. Good(g)  BY <2>3, <2>4, <2>5, <2>6, MakeGood
  <2>8. \A k \in 1 .. l.sog : CharAt(g, k) = CharAt(l, k)
        BY <2>2, <2>3 DEF CharAt
  <2> QED  BY <2>2, <2>7, <2>8 DEF g
<1> QED  BY <1>1, <1>2

\* ... and the new line after it, which takes what the cursor had on its right.
LEMMA AfterCursorGood ==
    ASSUME NEW l, Good(l)
    PROVE  LET g == AfterCursor(l, l.sog)
           IN  /\ Good(g) /\ g.sog = 0 /\ g.data_n = l.data_n - l.sog
               /\ \A k \in 1 .. l.data_n - l.sog : CharAt(g, k) = CharAt(l, l.sog + k)
<1> DEFINE g == AfterCursor(l, l.sog)
           diff == l.data_n - l.sog
           size == diff + InitGapSize + 1
<1>0. /\ l.sog \in Nat /\ l.eog \in Nat /\ l.size \in Nat /\ l.data_n \in Nat
      /\ l.sog < l.eog /\ l.eog <= l.size - 2
      /\ l.data_n = l.size - 2 - (l.eog - l.sog)
      /\ l.sog <= l.data_n
      BY GoodFields
<1>d. /\ l.data \in [0 .. l.size - 1 -> Byte]
      /\ l.data[l.size - 1] = NUL
      /\ \A i \in 0 .. l.size - 2 : i < l.sog \/ i > l.eog => l.data[i] \in Char
      BY GoodFields
<1>1. CASE l.data_n - l.sog <= 0
  <2>1. g = EmptyLine  BY <1>1 DEF AfterCursor
  <2>2. l.data_n - l.sog = 0  BY <1>0, <1>1
  <2>3. EmptyLine.sog = 0  BY DEF EmptyLine, Line
  <2>4. 1 .. l.data_n - l.sog = {}  BY <2>2
  <2> QED  BY <2>1, <2>2, <2>3, <2>4, EmptyLineGood
<1>2. CASE ~(l.data_n - l.sog <= 0)
  <2>1. g = Line(0, InitGapSize - 1, size, diff,
                 [i \in 0 .. size - 1 |-> IF i < InitGapSize \/ i = size - 1 THEN NUL
                                          ELSE l.data[l.eog + 1 + (i - InitGapSize)]])
        BY <1>2 DEF AfterCursor
  <2>a. /\ diff \in Nat /\ diff >= 1 /\ size \in Nat /\ InitGapSize \in Nat /\ InitGapSize >= 2
        /\ size = diff + InitGapSize + 1
        BY <1>0, <1>2, InitGapSizeAssumption
  <2>b. diff = l.size - 2 - l.eog  BY <1>0
  <2> HIDE DEF g, size, diff
  <2>2. g.sog = 0 /\ g.eog = InitGapSize - 1 /\ g.size = size /\ g.data_n = diff
        BY <2>1 DEF Line
  <2>3. /\ g.data = [i \in 0 .. size - 1 |->
                       IF i < InitGapSize \/ i = size - 1 THEN NUL
                       ELSE l.data[l.eog + 1 + (i - InitGapSize)]]
        /\ g = Line(g.sog, g.eog, g.size, g.data_n, g.data)
        BY <2>1 DEF Line
  <2>4. /\ g.sog \in Nat /\ g.eog \in Nat /\ g.size \in Nat /\ g.data_n \in Nat
        /\ g.sog < g.eog /\ g.eog <= g.size - 2
        /\ g.data_n = g.size - 2 - (g.eog - g.sog)
        BY <2>a, <2>2
  <2>5. ASSUME NEW i \in 0 .. size - 1, i < InitGapSize \/ i = size - 1
        PROVE  g.data[i] = NUL
        BY <2>3, <2>5, Zenon
  <2>6. ASSUME NEW i \in 0 .. size - 1, ~(i < InitGapSize \/ i = size - 1)
        PROVE  /\ g.data[i] = l.data[l.eog + 1 + (i - InitGapSize)]
               /\ g.data[i] \in Char
    <3>1. g.data[i] = l.data[l.eog + 1 + (i - InitGapSize)]  BY <2>3, <2>6, Zenon
    <3>2. /\ l.eog + 1 + (i - InitGapSize) \in 0 .. l.size - 2
          /\ l.eog + 1 + (i - InitGapSize) > l.eog
          BY <2>6, <2>a, <2>b, <1>0
    <3>3. l.data[l.eog + 1 + (i - InitGapSize)] \in Char  BY <3>2, <1>d
    <3> QED  BY <3>1, <3>3
  <2>7. g.data \in [0 .. g.size - 1 -> Byte]
    <3>1. ASSUME NEW i \in 0 .. size - 1 PROVE g.data[i] \in Byte
          BY <2>5, <2>6 DEF Byte
    <3>2. g.data = [i \in 0 .. size - 1 |-> g.data[i]]  BY <2>3
    <3> QED  BY <3>1, <3>2, <2>2
  <2>8. g.data[g.size - 1] = NUL
    <3>1. size - 1 \in 0 .. size - 1  BY <2>a
    <3> QED  BY <3>1, <2>5, <2>2
  <2>9. \A i \in 0 .. g.size - 2 : i < g.sog \/ i > g.eog => g.data[i] \in Char
    <3> SUFFICES ASSUME NEW i \in 0 .. g.size - 2, i < g.sog \/ i > g.eog
                 PROVE  g.data[i] \in Char
        OBVIOUS
    <3>1. i \in 0 .. size - 1 /\ ~(i < InitGapSize \/ i = size - 1)  BY <2>2, <2>a
    <3> QED  BY <3>1, <2>6
  <2>10. Good(g)  BY <2>3, <2>4, <2>7, <2>8, <2>9, MakeGood
  <2>11. ASSUME NEW k \in 1 .. diff PROVE CharAt(g, k) = CharAt(l, l.sog + k)
    <3> DEFINE i == g.eog + (k - g.sog)
               j == l.sog + k
    <3>1. /\ i \in 0 .. size - 1 /\ ~(i < InitGapSize \/ i = size - 1)
          /\ l.eog + 1 + (i - InitGapSize) = l.eog + (j - l.sog)
          /\ ~(k <= g.sog) /\ ~(j <= l.sog)
          BY <2>2, <2>a, <1>0
    <3>2. CharAt(g, k) = g.data[i]  BY <3>1 DEF CharAt
    <3> HIDE DEF i, j
    <3>3. CharAt(l, j) = l.data[l.eog + (j - l.sog)]  BY <3>1 DEF CharAt
    <3>4. g.data[i] = l.data[l.eog + 1 + (i - InitGapSize)]  BY <3>1, <2>6
    <3>5. CharAt(g, k) = CharAt(l, j)  BY <3>1, <3>2, <3>3, <3>4
    <3> QED  BY <3>5 DEF j
  <2> QED  BY <2>2, <2>10, <2>11 DEF g, diff
<1> QED  BY <1>1, <1>2
-----------------------------------------------------------------------------
(* Lines that are not well-formed: dd of the only line leaves one, and what  *)
(* is typed into it after that need not be where the gap is.  Their counters *)
(* still describe an array of the right length with a gap inside.            *)

Shaped(l) ==
    /\ l = Line(l.sog, l.eog, l.size, l.data_n, l.data)
    /\ l.sog \in Nat /\ l.eog \in Nat /\ l.size \in Nat /\ l.data_n \in Nat
    /\ l.sog < l.eog /\ l.eog < l.size
    /\ l.data \in [0 .. l.size - 1 -> Byte]

\* A good line is shaped.
LEMMA GoodIsShaped ==
    ASSUME NEW l, Good(l)
    PROVE  Shaped(l)
BY GoodFields DEF Shaped, Good, WellFormed

\* The fields of a shaped line.
LEMMA ShapedFields ==
    ASSUME NEW l, Shaped(l)
    PROVE  /\ l.sog \in Nat /\ l.eog \in Nat /\ l.size \in Nat /\ l.data_n \in Nat
           /\ l.sog < l.eog /\ l.eog < l.size
           /\ l.data \in [0 .. l.size - 1 -> Byte] /\ DOMAIN l.data = 0 .. l.size - 1
           /\ \A i \in 0 .. l.size - 1 : l.data[i] \in Byte
BY DEF Shaped

\* What has to be shown of them.
LEMMA MakeShaped ==
    ASSUME NEW sog \in Nat, NEW eog \in Nat, NEW size \in Nat, NEW data_n \in Nat,
           sog < eog, eog < size, NEW data \in [0 .. size - 1 -> Byte]
    PROVE  Shaped(Line(sog, eog, size, data_n, data))
<1> DEFINE l == Line(sog, eog, size, data_n, data)
<1>1. /\ l.sog = sog /\ l.eog = eog /\ l.size = size /\ l.data_n = data_n /\ l.data = data
      /\ l = Line(l.sog, l.eog, l.size, l.data_n, l.data)
      BY DEF Line
<1> HIDE DEF l
<1>2. Shaped(l)  BY <1>1 DEF Shaped
<1> QED  BY <1>2 DEF l

\* memmove() inside an array leaves bytes in it.
LEMMA MemmoveTyped ==
    ASSUME NEW n \in Nat, NEW data \in [0 .. n - 1 -> Byte], NEW to \in Int, NEW from \in Nat,
           NEW k \in Nat, from + k <= n
    PROVE  Memmove(data, to, from, k) \in [0 .. n - 1 -> Byte]
<1>0. DOMAIN data = 0 .. n - 1  OBVIOUS
<1>1. Memmove(data, to, from, k) =
        [i \in 0 .. n - 1 |-> IF to <= i /\ i < to + k THEN data[from + (i - to)] ELSE data[i]]
      BY <1>0 DEF Memmove
<1>2. ASSUME NEW i \in 0 .. n - 1, to <= i, i < to + k PROVE data[from + (i - to)] \in Byte
  <2>1. from + (i - to) \in 0 .. n - 1  BY <1>2
  <2> QED  BY <2>1
<1> QED  BY <1>1, <1>2

\* cursor_left() of a shaped line.
LEMMA LeftShaped ==
    ASSUME NEW l, Shaped(l), NEW c \in Nat, l.sog > 0, c - 1 \in DOMAIN l.data
    PROVE  Shaped(GapLeft(l, c))
<1>0. /\ l.sog \in Nat /\ l.eog \in Nat /\ l.size \in Nat /\ l.data_n \in Nat
      /\ l.sog < l.eog /\ l.eog < l.size /\ l.data \in [0 .. l.size - 1 -> Byte]
      /\ l.data[c - 1] \in Byte
      BY ShapedFields
<1>1. [l.data EXCEPT ![l.eog] = l.data[c - 1]] \in [0 .. l.size - 1 -> Byte]  BY <1>0
<1>2. l.sog - 1 \in Nat /\ l.eog - 1 \in Nat /\ l.sog - 1 < l.eog - 1 /\ l.eog - 1 < l.size
      BY <1>0
<1> QED  BY <1>0, <1>1, <1>2, MakeShaped DEF GapLeft

\* cursor_right() of one.
LEMMA RightShaped ==
    ASSUME NEW l, Shaped(l), NEW c \in Nat, l.eog + 1 \in DOMAIN l.data
    PROVE  Shaped(GapRight(l, c))
<1>0. /\ l.sog \in Nat /\ l.eog \in Nat /\ l.size \in Nat /\ l.data_n \in Nat
      /\ l.sog < l.eog /\ l.eog < l.size /\ l.data \in [0 .. l.size - 1 -> Byte]
      /\ l.data[l.eog + 1] \in Byte /\ l.eog + 1 < l.size
      BY ShapedFields
<1>1. [l.data EXCEPT ![c] = l.data[l.eog + 1]] \in [0 .. l.size - 1 -> Byte]  BY <1>0
<1>2. l.sog + 1 \in Nat /\ l.eog + 1 \in Nat /\ l.sog + 1 < l.eog + 1  BY <1>0
<1> QED  BY <1>0, <1>1, <1>2, MakeShaped DEF GapRight

\* move_gap_to_cursor() where its memmove stays inside the array.
LEMMA MoveGapShaped ==
    ASSUME NEW l, Shaped(l), NEW c \in Nat,
           c > l.sog => l.eog + (c - l.sog) \in DOMAIN l.data,
           c < l.sog => l.eog - (l.sog - c) + 1 >= 0
    PROVE  Shaped(MoveGap(l, c))
<1>0. /\ l.sog \in Nat /\ l.eog \in Nat /\ l.size \in Nat /\ l.data_n \in Nat
      /\ l.sog < l.eog /\ l.eog < l.size /\ l.data \in [0 .. l.size - 1 -> Byte]
      /\ DOMAIN l.data = 0 .. l.size - 1
      BY ShapedFields
<1>1. CASE c = l.sog  BY <1>1 DEF MoveGap
<1>2. CASE c > l.sog
  <2> DEFINE d == Memmove(l.data, l.sog, l.eog + 1, c - l.sog)
  <2>1. /\ c - l.sog \in Nat /\ l.eog + 1 \in Nat /\ l.eog + 1 + (c - l.sog) <= l.size
        /\ c + (l.eog - l.sog) \in Nat /\ c < c + (l.eog - l.sog) /\ c + (l.eog - l.sog) < l.size
    <3>1. l.eog + (c - l.sog) \in 0 .. l.size - 1  BY <1>0, <1>2
    <3>2. PICK sog \in Nat, eog \in Nat, size \in Nat : sog = l.sog /\ eog = l.eog /\ size = l.size
          BY <1>0
    <3>3. eog + (c - sog) <= size - 1 /\ c > sog /\ sog < eog  BY <3>1, <3>2, <1>0, <1>2
    <3>4. /\ c - sog \in Nat /\ eog + 1 \in Nat /\ eog + 1 + (c - sog) <= size
          /\ c + (eog - sog) \in Nat /\ c < c + (eog - sog) /\ c + (eog - sog) < size
          BY <3>3
    <3> QED  BY <3>2, <3>4
  <2> DEFINE k == c - l.sog
             from == l.eog + 1
  <2>a. k \in Nat /\ from \in Nat /\ from + k <= l.size /\ l.sog \in Int  BY <1>0, <2>1
  <2> HIDE DEF k, from
  <2>b. Memmove(l.data, l.sog, from, k) \in [0 .. l.size - 1 -> Byte]
        BY <1>0, <2>a, MemmoveTyped
  <2>2. d \in [0 .. l.size - 1 -> Byte]  BY <2>b DEF k, from
  <2> HIDE DEF d
  <2>3. Shaped(Line(c, c + (l.eog - l.sog), l.size, l.data_n, d))
        BY <1>0, <2>1, <2>2, MakeShaped
  <2>4. c # l.sog  BY <1>0, <1>2
  <2> QED  BY <1>2, <2>3, <2>4 DEF MoveGap, d
<1>3. CASE c < l.sog
  <2> DEFINE d == Memmove(l.data, l.eog - (l.sog - c) + 1, c, l.sog - c)
  <2>1. /\ l.sog - c \in Nat /\ c + (l.sog - c) <= l.size /\ l.eog - (l.sog - c) + 1 \in Int
        /\ c + (l.eog - l.sog) \in Nat /\ c < c + (l.eog - l.sog) /\ c + (l.eog - l.sog) < l.size
        BY <1>0, <1>3, SMTT(30)
  <2>2. d \in [0 .. l.size - 1 -> Byte]  BY <1>0, <2>1, MemmoveTyped
  <2> HIDE DEF d
  <2>3. Shaped(Line(c, c + (l.eog - l.sog), l.size, l.data_n, d))
        BY <1>0, <2>1, <2>2, MakeShaped
  <2>4. c # l.sog /\ ~(c > l.sog)  BY <1>0, <1>3
  <2> QED  BY <2>3, <2>4 DEF MoveGap, d
<1> QED  BY <1>0, <1>1, <1>2, <1>3
\* insert_char() in one.
LEMMA InsertShaped ==
    ASSUME NEW l, Shaped(l), NEW c \in Nat, NEW ch \in Byte
    PROVE  Shaped(InsertInGap(l, c, ch))
<1> DEFINE by == InitGapSize - 1
           grown == [i \in 0 .. l.size + by - 1 |-> IF i > l.eog + by THEN l.data[i - by]
                                                   ELSE IF i >= l.size THEN NUL ELSE l.data[i]]
           g == IF NeedsGrowth(l) THEN Grow(l) ELSE l
<1>0. /\ l.sog \in Nat /\ l.eog \in Nat /\ l.size \in Nat /\ l.data_n \in Nat
      /\ l.sog < l.eog /\ l.eog < l.size /\ l.data \in [0 .. l.size - 1 -> Byte]
      /\ \A i \in 0 .. l.size - 1 : l.data[i] \in Byte
      BY ShapedFields
<1>1. by \in Nat /\ by >= 1  BY InitGapSizeAssumption
<1>2. Shaped(g) /\ g.sog + 1 < g.eog
  <2>1. CASE NeedsGrowth(l)
    <3>1. Grow(l) = Line(l.sog, l.eog + by, l.size + by, l.data_n, grown)  BY DEF Grow
    <3> HIDE DEF by
    <3>2. ASSUME NEW i \in 0 .. l.size + by - 1
          PROVE  (IF i > l.eog + by THEN l.data[i - by]
                  ELSE IF i >= l.size THEN NUL ELSE l.data[i]) \in Byte
      <4>1. i > l.eog + by => i - by \in 0 .. l.size - 1  BY <1>0, <1>1
      <4>2. ~(i >= l.size) => i \in 0 .. l.size - 1  BY <1>0, <1>1
      <4>3. NUL \in Byte  BY DEF Byte
      <4> QED  BY <4>1, <4>2, <4>3, <1>0
    <3>a. \A i \in 0 .. l.size + by - 1 : grown[i] \in Byte  BY <3>2, Zenon
    <3>b. grown = [i \in 0 .. l.size + by - 1 |-> grown[i]]  OBVIOUS
    <3> HIDE DEF grown
    <3>3. grown \in [0 .. l.size + by - 1 -> Byte]  BY <3>a, <3>b
    <3>4. /\ l.eog + by \in Nat /\ l.size + by \in Nat /\ l.sog < l.eog + by
          /\ l.eog + by < l.size + by
          BY <1>0, <1>1
    <3> DEFINE eog == l.eog + by
               size == l.size + by
    <3>d. /\ eog \in Nat /\ size \in Nat /\ l.sog < eog /\ eog < size
          /\ grown \in [0 .. size - 1 -> Byte]
          BY <1>0, <1>1, <3>3, <3>4
    <3> HIDE DEF eog, size
    <3>e. Shaped(Line(l.sog, eog, size, l.data_n, grown))  BY <1>0, <3>d, MakeShaped
    <3>c. Shaped(Line(l.sog, l.eog + by, l.size + by, l.data_n, grown))
          BY <3>e DEF eog, size
    <3>5. Shaped(Grow(l))  BY <3>1, <3>c
    <3>6. Grow(l).sog = l.sog /\ Grow(l).eog = l.eog + by  BY <3>1 DEF Line
    <3>7. l.sog + 1 = l.eog  BY <2>1 DEF NeedsGrowth
    <3>8. l.sog + 1 < l.eog + by  BY <3>7, <1>0, <1>1
    <3> QED  BY <2>1, <3>5, <3>6, <3>8
  <2>2. CASE ~NeedsGrowth(l)
    <3>1. l.sog + 1 # l.eog  BY <2>2 DEF NeedsGrowth
    <3> QED  BY <2>2, <3>1, <1>0
  <2> QED  BY <2>1, <2>2
<1> HIDE DEF g
<1>3. /\ g.sog \in Nat /\ g.eog \in Nat /\ g.size \in Nat /\ g.data_n \in Nat
      /\ g.eog < g.size /\ g.data \in [0 .. g.size - 1 -> Byte]
      BY <1>2, ShapedFields
<1>4. [g.data EXCEPT ![c] = ch] \in [0 .. g.size - 1 -> Byte]  BY <1>3
<1>5. g.sog + 1 \in Nat /\ g.data_n + 1 \in Nat  BY <1>3
<1>6. Shaped(Line(g.sog + 1, g.eog, g.size, g.data_n + 1, [g.data EXCEPT ![c] = ch]))
      BY <1>2, <1>3, <1>4, <1>5, MakeShaped
<1> QED  BY <1>6 DEF InsertInGap, g

\* backspace_char() in one.
LEMMA BackspaceShaped ==
    ASSUME NEW l, Shaped(l), l.sog > 0, l.data_n > 0
    PROVE  Shaped(Backspace(l))
<1>0. /\ l.sog \in Nat /\ l.eog \in Nat /\ l.size \in Nat /\ l.data_n \in Nat
      /\ l.sog < l.eog /\ l.eog < l.size /\ l.data \in [0 .. l.size - 1 -> Byte]
      BY ShapedFields
<1>1. l.sog - 1 \in Nat /\ l.data_n - 1 \in Nat /\ l.sog - 1 < l.eog  BY <1>0
<1> QED  BY <1>0, <1>1, MakeShaped DEF Backspace

\* The split of insert_line_after() where its copy stays inside the array.
LEMMA SplitShaped ==
    ASSUME NEW l, Shaped(l), NEW c \in Nat,
           l.data_n - c > 0 => l.eog + 1 + (l.data_n - c) \in DOMAIN l.data
    PROVE  Shaped(BeforeCursor(l, c)) /\ Shaped(AfterCursor(l, c))
<1>0. /\ l.sog \in Nat /\ l.eog \in Nat /\ l.size \in Nat /\ l.data_n \in Nat
      /\ l.sog < l.eog /\ l.eog < l.size /\ l.data \in [0 .. l.size - 1 -> Byte]
      /\ DOMAIN l.data = 0 .. l.size - 1
      /\ \A i \in 0 .. l.size - 1 : l.data[i] \in Byte
      BY ShapedFields
<1>1. CASE l.data_n - c <= 0
      BY <1>1, EmptyLineGood, GoodIsShaped DEF BeforeCursor, AfterCursor
<1>2. CASE ~(l.data_n - c <= 0)
  <2> DEFINE diff == l.data_n - c
             size == diff + InitGapSize + 1
             d == [i \in 0 .. size - 1 |-> IF i < InitGapSize \/ i = size - 1 THEN NUL
                                          ELSE l.data[l.eog + 1 + (i - InitGapSize)]]
  <2>1. /\ diff \in Nat /\ diff > 0 /\ l.eog + 1 + diff < l.size
        /\ InitGapSize \in Nat /\ InitGapSize >= 2
        BY <1>0, <1>2, InitGapSizeAssumption, SMTT(30)
  <2>a. AfterCursor(l, c) = Line(0, InitGapSize - 1, size, diff, d)  BY <1>2 DEF AfterCursor
  <2> HIDE DEF diff
  <2>2. l.size - 2 \in Nat /\ l.sog < l.size - 2 /\ l.size - 2 < l.size  BY <1>0, <2>1, SMTT(30)
  <2>3. Shaped(Line(l.sog, l.size - 2, l.size, c, l.data))  BY <1>0, <2>2, MakeShaped
  <2>4. Shaped(BeforeCursor(l, c))  BY <1>2, <2>3 DEF BeforeCursor
  <2>5. /\ size \in Nat /\ InitGapSize - 1 \in Nat /\ 0 < InitGapSize - 1
        /\ InitGapSize - 1 < size
        BY <2>1
  <2>6. ASSUME NEW i \in 0 .. size - 1
        PROVE  (IF i < InitGapSize \/ i = size - 1 THEN NUL
                ELSE l.data[l.eog + 1 + (i - InitGapSize)]) \in Byte
    <3>1. CASE i < InitGapSize \/ i = size - 1  BY <3>1 DEF Byte
    <3>2. CASE ~(i < InitGapSize \/ i = size - 1)
      <4>1. l.eog + 1 + (i - InitGapSize) \in 0 .. l.size - 1  BY <3>2, <2>1, <1>0, SMTT(30)
      <4> HIDE DEF size
      <4> QED  BY <3>2, <4>1, <1>0
    <3> QED  BY <3>1, <3>2
  <2> HIDE DEF size
  <2>b. \A i \in 0 .. size - 1 : d[i] \in Byte  BY <2>6, Zenon
  <2>c. d = [i \in 0 .. size - 1 |-> d[i]]  OBVIOUS
  <2> HIDE DEF d
  <2>7. d \in [0 .. size - 1 -> Byte]  BY <2>b, <2>c
  <2>8. Shaped(Line(0, InitGapSize - 1, size, diff, d))  BY <2>1, <2>5, <2>7, MakeShaped
  <2> QED  BY <2>4, <2>a, <2>8
<1> QED  BY <1>0, <1>1, <1>2

\* The text of such a line may have holes.
LEMMA TextOfShaped ==
    ASSUME NEW l, Shaped(l)
    PROVE  Text(l) \in Seq(Byte)
<1>0. /\ l.sog \in Nat /\ l.eog \in Nat /\ l.size \in Nat
      /\ l.sog < l.eog /\ l.eog < l.size
      /\ \A i \in 0 .. l.size - 1 : l.data[i] \in Byte
      BY ShapedFields
<1> DEFINE n == l.sog + ShownAfterGap(l)
<1>1. n \in Nat  BY <1>0 DEF ShownAfterGap
<1>2. ASSUME NEW k \in 1 .. n
      PROVE  /\ k <= l.sog => l.data[k - 1] \in Byte
             /\ ~(k <= l.sog) => l.data[l.eog + (k - l.sog)] \in Byte
  <2>1. k <= l.sog => k - 1 \in 0 .. l.size - 1  BY <1>0, <1>1
  <2>2. ~(k <= l.sog) => l.eog + (k - l.sog) \in 0 .. l.size - 1
        BY <1>0, <1>1 DEF ShownAfterGap
  <2> QED  BY <2>1, <2>2, <1>0
<1>3. Text(l) = [k \in 1 .. n |-> IF k <= l.sog THEN l.data[k - 1] ELSE l.data[l.eog + (k - l.sog)]]
      BY DEF Text
<1> HIDE DEF n
<1>4. Text(l) \in [1 .. n -> Byte]  BY <1>2, <1>3
<1> QED  BY <1>1, <1>4
=============================================================================
