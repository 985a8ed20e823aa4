------------------------- MODULE CommandLineProofs -------------------------
(***************************************************************************)
(* Proofs about modules CommandLine and CommandTexts: what the parsers     *)
(* take out of a text, for texts of any length below npos.                 *)
(***************************************************************************)
EXTENDS CommandTexts, NaturalsLemmas, SequenceTheorems

----------------------------------------------------------------------------
(* std::string *)

\* npos, the greatest size_t.
LEMMA NPosIsInt == NPos \in Int /\ SizeT = NPos + 1
  BY CommandLineAssumption DEF NPos

\* A subtraction of positions wraps around below 0.
LEMMA MinusLemma ==
  ASSUME NEW a \in 0 .. NPos, NEW b \in 0 .. NPos
  PROVE  Minus(a, b) = IF a >= b THEN a - b ELSE a - b + SizeT
<1>1. SizeT \in Nat /\ SizeT > 0
  BY CommandLineAssumption
<1>2. a \in 0 .. SizeT - 1 /\ b \in 0 .. SizeT - 1
  BY DEF NPos
<1> QED
  BY <1>1, <1>2 DEF Minus

\* A subtraction that does not wrap around.
LEMMA MinusIs ==
  ASSUME NEW a \in 0 .. NPos, NEW b \in 0 .. a
  PROVE  Minus(a, b) = a - b
<1>1. b \in 0 .. NPos /\ a >= b
  BY NPosIsInt
<1> QED
  BY <1>1, MinusLemma

\* Positions from 1 and positions from 0: that of nothing is npos.
LEMMA PositionLemma ==
  ASSUME NEW n \in Nat, n < NPos
  PROVE  /\ Minus(0, 1) = NPos
         /\ \A i \in 1 .. n : Minus(i, 1) = i - 1
<1>1. 1 \in 0 .. NPos /\ \A i \in 0 .. n : i \in 0 .. NPos
  BY NPosIsInt
<1>2. \A i \in 0 .. n : Minus(i, 1) = IF i >= 1 THEN i - 1 ELSE i - 1 + SizeT
  BY <1>1, MinusLemma
<1>3. ASSUME NEW i \in 1 .. n PROVE Minus(i, 1) = i - 1
  BY <1>2
<1>4. Minus(0, 1) = NPos
  BY <1>2, NPosIsInt
<1> QED
  BY <1>3, <1>4

\* The first character of a set.
LEMMA FirstInLemma ==
  ASSUME NEW s \in Seq(Chars), NEW set, NEW i, i = FirstIn(s, set)
  PROVE  \/ i = 0 /\ \A j \in 1 .. Len(s) : s[j] \notin set
         \/ i \in 1 .. Len(s) /\ s[i] \in set /\ \A j \in 1 .. i - 1 : s[j] \notin set
<1> DEFINE I == {j \in 1 .. Len(s) : s[j] \in set}
<1>1. Len(s) \in Nat /\ I \in SUBSET Nat /\ I \subseteq 1 .. Len(s)
  BY LenProperties
<1>2. i = IF I # {} THEN Min(I) ELSE 0
  BY DEF FirstIn, SelectInSeq
<1>3. CASE I = {}
  BY <1>2, <1>3
<1>4. CASE I # {}
  <2>1. \E x \in I : \A y \in I : x <= y
    BY <1>1, <1>4, LeastElement
  <2>2. i \in I /\ \A y \in I : i <= y
    <3> HIDE DEF I
    <3> QED
      BY <1>2, <1>4, <2>1 DEF Min
  <2>3. ASSUME NEW j \in 1 .. i - 1 PROVE s[j] \notin set
    <3>1. j \notin I /\ j \in 1 .. Len(s)
      BY <1>1, <2>2
    <3> QED
      BY <3>1
  <2> QED
    BY <2>2, <2>3
<1> QED
  BY <1>3, <1>4

\* The last character of a set.
LEMMA LastInLemma ==
  ASSUME NEW s \in Seq(Chars), NEW set, NEW i, i = LastIn(s, set)
  PROVE  \/ i = 0 /\ \A j \in 1 .. Len(s) : s[j] \notin set
         \/ i \in 1 .. Len(s) /\ s[i] \in set /\ \A j \in i + 1 .. Len(s) : s[j] \notin set
<1> DEFINE I == {j \in 1 .. Len(s) : s[j] \in set}
<1>1. Len(s) \in Nat /\ I \in SUBSET (0 .. Len(s)) /\ I \subseteq 1 .. Len(s)
  BY LenProperties
<1>2. i = IF I # {} THEN Max(I) ELSE 0
  BY DEF LastIn, SelectLastInSeq
<1>3. CASE I = {}
  BY <1>2, <1>3
<1>4. CASE I # {}
  <2>1. \E x \in I : \A y \in I : y <= x
    BY <1>1, <1>4, GreatestElement
  <2>2. i \in I /\ \A y \in I : y <= i
    <3> HIDE DEF I
    <3>1. \E x \in I : \A y \in I : x >= y
      BY <1>1, <2>1
    <3> QED
      BY <1>1, <1>2, <1>4, <3>1 DEF Max
  <2>3. ASSUME NEW j \in i + 1 .. Len(s) PROVE s[j] \notin set
    <3>1. j \notin I /\ j \in 1 .. Len(s)
      BY <1>1, <2>2
    <3> QED
      BY <3>1
  <2> QED
    BY <2>2, <2>3
<1> QED
  BY <1>3, <1>4

\* find: a position, or npos for a character that is not there.
LEMMA FindLemma ==
  ASSUME NEW s \in Texts, NEW c
  PROVE  \/ Find(s, c) = NPos /\ \A j \in 1 .. Len(s) : s[j] # c
         \/ /\ Find(s, c) \in 0 .. Len(s) - 1
            /\ s[Find(s, c) + 1] = c
            /\ \A j \in 1 .. Find(s, c) : s[j] # c
<1>1. PICK i : i = FirstIn(s, {c})
  OBVIOUS
<1>2. /\ Len(s) \in Nat /\ Len(s) < NPos /\ s \in Seq(Chars)
      /\ Find(s, c) = Minus(i, 1)
  BY <1>1, LenProperties DEF Texts, Find
<1>3. /\ i = 0 => Minus(i, 1) = NPos
      /\ i \in 1 .. Len(s) => Minus(i, 1) = i - 1
  BY <1>2, NPosIsInt, PositionLemma
<1> QED
  BY <1>1, <1>2, <1>3, FirstInLemma

\* find_last_of, in the same way.
LEMMA FindLastLemma ==
  ASSUME NEW s \in Texts, NEW c
  PROVE  \/ FindLast(s, c) = NPos /\ \A j \in 1 .. Len(s) : s[j] # c
         \/ /\ FindLast(s, c) \in 0 .. Len(s) - 1
            /\ s[FindLast(s, c) + 1] = c
            /\ \A j \in FindLast(s, c) + 2 .. Len(s) : s[j] # c
<1>1. PICK i : i = LastIn(s, {c})
  OBVIOUS
<1>2. /\ Len(s) \in Nat /\ Len(s) < NPos /\ s \in Seq(Chars)
      /\ FindLast(s, c) = Minus(i, 1)
  BY <1>1, LenProperties DEF Texts, FindLast
<1>3. /\ i = 0 => Minus(i, 1) = NPos
      /\ i \in 1 .. Len(s) => Minus(i, 1) = i - 1
  BY <1>2, NPosIsInt, PositionLemma
<1>4. CASE i = 0 /\ \A j \in 1 .. Len(s) : s[j] \notin {c}
  BY <1>2, <1>3, <1>4
<1>5. CASE /\ i \in 1 .. Len(s) /\ s[i] \in {c}
           /\ \A j \in i + 1 .. Len(s) : s[j] \notin {c}
  BY <1>2, <1>3, <1>5
<1> QED
  BY <1>1, <1>2, <1>4, <1>5, LastInLemma

\* What substr returns.
LEMMA SubstrLemma ==
  ASSUME NEW s \in Seq(Chars), NEW pos \in 0 .. Len(s), NEW n \in Nat
  PROVE  /\ Substr(s, pos, n) \in Seq(Chars)
         /\ n >= Len(s) - pos => Substr(s, pos, n) = SubSeq(s, pos + 1, Len(s))
         /\ n <= Len(s) - pos => Substr(s, pos, n) = SubSeq(s, pos + 1, pos + n)
<1>1. Len(s) \in Nat
  BY LenProperties
<1> QED
  BY <1>1, SubSeqProperties DEF Substr

\* find, where the character is known to be or not to be.
LEMMA FindIs ==
  ASSUME NEW s \in Texts, NEW c
  PROVE  /\ \A i \in 0 .. Len(s) - 1 :
              s[i + 1] = c /\ (\A j \in 1 .. i : s[j] # c) => Find(s, c) = i
         /\ (\A j \in 1 .. Len(s) : s[j] # c) => Find(s, c) = NPos
<1>1. Len(s) \in Nat /\ s \in Seq(Chars)
  BY LenProperties DEF Texts
<1>2. ASSUME \A j \in 1 .. Len(s) : s[j] # c
      PROVE  Find(s, c) = NPos
  BY <1>1, <1>2, FindLemma
<1>3. ASSUME NEW i \in 0 .. Len(s) - 1, s[i + 1] = c, \A j \in 1 .. i : s[j] # c
      PROVE  Find(s, c) = i
  <2>1. /\ Find(s, c) \in 0 .. Len(s) - 1 /\ s[Find(s, c) + 1] = c
        /\ \A j \in 1 .. Find(s, c) : s[j] # c
    BY <1>1, <1>3, FindLemma
  <2>2. ~(i + 1 <= Find(s, c)) /\ ~(Find(s, c) + 1 <= i)
    BY <1>1, <1>3, <2>1
  <2> QED
    BY <1>1, <2>1, <2>2
<1> QED
  BY <1>2, <1>3

\* find_last_of, where the character is known to be or not to be.
LEMMA FindLastIs ==
  ASSUME NEW s \in Texts, NEW c
  PROVE  /\ \A i \in 0 .. Len(s) - 1 :
              s[i + 1] = c /\ (\A j \in i + 2 .. Len(s) : s[j] # c) => FindLast(s, c) = i
         /\ (\A j \in 1 .. Len(s) : s[j] # c) => FindLast(s, c) = NPos
<1>1. Len(s) \in Nat /\ s \in Seq(Chars)
  BY LenProperties DEF Texts
<1>2. ASSUME \A j \in 1 .. Len(s) : s[j] # c
      PROVE  FindLast(s, c) = NPos
  BY <1>1, <1>2, FindLastLemma
<1>3. ASSUME NEW i \in 0 .. Len(s) - 1, s[i + 1] = c, \A j \in i + 2 .. Len(s) : s[j] # c
      PROVE  FindLast(s, c) = i
  <2>1. /\ FindLast(s, c) \in 0 .. Len(s) - 1 /\ s[FindLast(s, c) + 1] = c
        /\ \A j \in FindLast(s, c) + 2 .. Len(s) : s[j] # c
    BY <1>1, <1>3, FindLastLemma
  <2>2. ~(i + 1 >= FindLast(s, c) + 2) /\ ~(FindLast(s, c) + 1 >= i + 2)
    BY <1>1, <1>3, <2>1
  <2> QED
    BY <1>1, <2>1, <2>2
<1> QED
  BY <1>2, <1>3

\* A part of a text.
LEMMA PartLemma ==
  ASSUME NEW s \in Texts, NEW i \in 1 .. Len(s) + 1, NEW j \in i - 1 .. Len(s)
  PROVE  /\ SubSeq(s, i, j) \in Texts
         /\ Len(SubSeq(s, i, j)) = j - i + 1
         /\ \A k \in 1 .. j - i + 1 : SubSeq(s, i, j)[k] = s[i + k - 1]
<1>1. Len(s) \in Nat /\ s \in Seq(Chars) /\ Len(s) < NPos
  BY LenProperties DEF Texts
<1>2. \A k \in i .. j : s[k] \in Chars
  BY <1>1, ElementOfSeq
<1>3. /\ SubSeq(s, i, j) \in Seq(Chars)
      /\ Len(SubSeq(s, i, j)) = IF i <= j THEN j - i + 1 ELSE 0
      /\ \A k \in 1 .. j - i + 1 : SubSeq(s, i, j)[k] = s[i + k - 1]
  BY <1>1, <1>2, SubSeqProperties
<1>4. Len(SubSeq(s, i, j)) = j - i + 1
  BY <1>1, <1>3
<1> QED
  BY <1>1, <1>3, <1>4, NPosIsInt DEF Texts

\* A part of a part.
LEMMA PartOfPart ==
  ASSUME NEW s \in Texts, NEW i \in 1 .. Len(s) + 1, NEW j \in i - 1 .. Len(s),
         NEW m \in 1 .. j - i + 2, NEW n \in m - 1 .. j - i + 1
  PROVE  SubSeq(SubSeq(s, i, j), m, n) = SubSeq(s, i + m - 1, i + n - 1)
<1> DEFINE t == SubSeq(s, i, j)
           u == SubSeq(t, m, n)
           v == SubSeq(s, i + m - 1, i + n - 1)
<1>0. Len(s) \in Nat
  BY LenProperties DEF Texts
<1>1. /\ t \in Texts /\ Len(t) = j - i + 1
      /\ \A k \in 1 .. j - i + 1 : t[k] = s[i + k - 1]
  BY PartLemma
<1>2. /\ u \in Texts /\ Len(u) = n - m + 1
      /\ \A k \in 1 .. n - m + 1 : u[k] = t[m + k - 1]
  <2> HIDE DEF t
  <2>1. m \in 1 .. Len(t) + 1 /\ n \in m - 1 .. Len(t)
    BY <1>0, <1>1
  <2> QED
    BY <1>1, <2>1, PartLemma
<1>3. /\ v \in Texts /\ Len(v) = n - m + 1
      /\ \A k \in 1 .. n - m + 1 : v[k] = s[i + m - 1 + k - 1]
  <2>1. /\ i + m - 1 \in 1 .. Len(s) + 1
        /\ i + n - 1 \in (i + m - 1) - 1 .. Len(s)
        /\ (i + n - 1) - (i + m - 1) + 1 = n - m + 1
    BY <1>0
  <2> QED
    BY <2>1, PartLemma
<1> HIDE DEF t, u, v
<1>4. ASSUME NEW k \in 1 .. Len(u) PROVE u[k] = v[k]
  <2>1. k \in 1 .. n - m + 1 /\ m + k - 1 \in 1 .. j - i + 1
    BY <1>0, <1>2, <1>4
  <2>2. u[k] = t[m + k - 1] /\ t[m + k - 1] = s[i + (m + k - 1) - 1]
    BY <1>1, <1>2, <2>1
  <2> QED
    BY <1>0, <1>3, <2>1, <2>2
<1>5. u \in Seq(Chars) /\ v \in Seq(Chars) /\ Len(u) = Len(v)
  BY <1>2, <1>3 DEF Texts
<1> QED
  BY <1>4, <1>5, SeqEqual DEF t, u, v

\* substr of a text.
LEMMA SubstrPart ==
  ASSUME NEW s \in Texts, NEW pos \in 0 .. Len(s), NEW n \in Nat
  PROVE  /\ Substr(s, pos, n) \in Texts
         /\ n >= Len(s) - pos => Substr(s, pos, n) = SubSeq(s, pos + 1, Len(s))
         /\ n <= Len(s) - pos => Substr(s, pos, n) = SubSeq(s, pos + 1, pos + n)
<1>1. s \in Seq(Chars) /\ Len(s) \in Nat
  BY LenProperties DEF Texts
<1>2. n >= Len(s) - pos \/ n <= Len(s) - pos
  BY <1>1
<1>3. /\ n >= Len(s) - pos => Substr(s, pos, n) = SubSeq(s, pos + 1, Len(s))
      /\ n <= Len(s) - pos => Substr(s, pos, n) = SubSeq(s, pos + 1, pos + n)
  BY <1>1, SubstrLemma
<1>4. /\ SubSeq(s, pos + 1, Len(s)) \in Texts
      /\ n <= Len(s) - pos => SubSeq(s, pos + 1, pos + n) \in Texts
  BY <1>1, PartLemma
<1> QED
  BY <1>2, <1>3, <1>4

\* The characters of a part.
LEMMA PartChars ==
  ASSUME NEW s \in Texts, NEW i \in 1 .. Len(s) + 1, NEW j \in i - 1 .. Len(s)
  PROVE  /\ ToSet(SubSeq(s, i, j)) = {s[k] : k \in i .. j}
         /\ SubSeq(s, i, j) = <<>> <=> j = i - 1
<1> DEFINE t == SubSeq(s, i, j)
<1>0. Len(s) \in Nat
  BY LenProperties DEF Texts
<1>1. /\ t \in Seq(Chars) /\ Len(t) = j - i + 1
      /\ \A k \in 1 .. j - i + 1 : t[k] = s[i + k - 1]
  BY PartLemma DEF Texts
<1> HIDE DEF t
<1>2. DOMAIN t = 1 .. j - i + 1
  BY <1>1, LenProperties
<1>3. ASSUME NEW k \in i .. j PROVE k - i + 1 \in DOMAIN t /\ t[k - i + 1] = s[k]
  BY <1>0, <1>1, <1>2
<1>4. ASSUME NEW k \in DOMAIN t PROVE i + k - 1 \in i .. j /\ t[k] = s[i + k - 1]
  BY <1>0, <1>1, <1>2
<1>5. ToSet(t) = {s[k] : k \in i .. j}
  <2>1. ToSet(t) = {t[k] : k \in DOMAIN t}
    BY DEF ToSet
  <2>2. \A c : (\E k \in DOMAIN t : c = t[k]) <=> (\E k \in i .. j : c = s[k])
    BY <1>3, <1>4
  <2> QED
    BY <2>1, <2>2
<1>6. t = <<>> <=> j = i - 1
  <2>1. Len(<<>>) = 0 /\ (t # <<>> => Len(t) \in Nat \ {0})
    BY <1>1, EmptySeq
  <2> QED
    BY <1>0, <1>1, <2>1
<1> QED
  BY <1>5, <1>6 DEF t

\* What precedes a character, and what it begins.
LEMMA BeforeIs ==
  ASSUME NEW s \in Texts, NEW c, NEW n \in 0 .. Len(s),
         n = Len(s) \/ s[n + 1] = c, \A j \in 1 .. n : s[j] # c
  PROVE  /\ Before(s, c) = SubSeq(s, 1, n)
         /\ From(s, c) = SubSeq(s, n + 1, Len(s))
<1>0. Len(s) \in Nat /\ Len(s) < NPos /\ NPos \in Int /\ 0 \in 0 .. Len(s)
  BY LenProperties, NPosIsInt DEF Texts
<1>1. Before(s, c) = SubSeq(s, 1, n)
  <2>1. CASE n = Len(s)
    <3>1. Find(s, c) = NPos
      BY <2>1, FindIs
    <3>2. NPos \in Nat /\ NPos >= Len(s) - 0
      BY <1>0
    <3>3. Substr(s, 0, NPos) = SubSeq(s, 0 + 1, Len(s))
      BY <1>0, <3>2, SubstrPart
    <3> QED
      BY <2>1, <3>1, <3>3 DEF Before
  <2>2. CASE n < Len(s)
    <3>1. n \in 0 .. Len(s) - 1 /\ s[n + 1] = c
      BY <1>0, <2>2
    <3>2. Find(s, c) = n
      BY <3>1, FindIs
    <3>3. n \in Nat /\ n <= Len(s) - 0 /\ 0 + n = n
      BY <1>0
    <3>4. Substr(s, 0, n) = SubSeq(s, 0 + 1, 0 + n)
      BY <1>0, <3>3, SubstrPart
    <3> QED
      BY <3>2, <3>3, <3>4 DEF Before
  <2> QED
    BY <1>0, <2>1, <2>2
<1>2. Len(SubSeq(s, 1, n)) = n
  <2>1. 1 \in 1 .. Len(s) + 1 /\ n \in 1 - 1 .. Len(s) /\ n - 1 + 1 = n
    BY <1>0
  <2>2. Len(SubSeq(s, 1, n)) = n - 1 + 1
    BY <2>1, PartLemma
  <2> QED
    BY <2>1, <2>2
<1>3. NPos \in Nat /\ NPos >= Len(s) - n
  BY <1>0
<1>4. Substr(s, n, NPos) = SubSeq(s, n + 1, Len(s))
  BY <1>3, SubstrPart
<1> QED
  BY <1>1, <1>2, <1>4 DEF From

\* A text of one character.
LEMMA OneChar ==
  ASSUME NEW s \in Texts, NEW i \in 1 .. Len(s), NEW c
  PROVE  SubSeq(s, i, i) = <<c>> <=> s[i] = c
<1>1. Len(s) \in Nat
  BY LenProperties DEF Texts
<1>2. i \in 1 .. Len(s) + 1 /\ i \in i - 1 .. Len(s) /\ i - i + 1 = 1
  BY <1>1
<1>3. /\ SubSeq(s, i, i) \in Texts /\ Len(SubSeq(s, i, i)) = 1
      /\ SubSeq(s, i, i)[1] = s[i + 1 - 1]
  BY <1>2, PartLemma
<1>4. i + 1 - 1 = i
  OBVIOUS
<1>5. SubSeq(s, i, i)[1] = s[i]
  BY <1>3, <1>4
<1>6. ASSUME s[i] = c PROVE SubSeq(s, i, i) = <<c>>
  <2>1. SubSeq(s, i, i) \in Seq(Chars) /\ c \in Chars
    BY <1>3, <1>6, ElementOfSeq DEF Texts
  <2>2. <<c>> \in Seq(Chars) /\ Len(<<c>>) = 1 /\ <<c>>[1] = c
    BY <2>1
  <2>3. \A k \in 1 .. 1 : k = 1
    OBVIOUS
  <2> QED
    BY <1>3, <1>5, <1>6, <2>1, <2>2, <2>3, SeqEqual
<1>7. <<c>>[1] = c
  OBVIOUS
<1> QED
  BY <1>5, <1>6, <1>7

\* A character is erased where it first occurs.
LEMMA EraseChar ==
  ASSUME NEW s \in Texts, NEW c, NEW p \in 0 .. Len(s) - 1,
         s[p + 1] = c, \A j \in 1 .. p : s[j] # c
  PROVE  EraseText(s, <<c>>) = SubSeq(s, 1, p) \o SubSeq(s, p + 2, Len(s))
<1>0. Len(s) \in Nat /\ Len(s) < NPos /\ NPos \in Int /\ Len(<<c>>) = 1
  BY LenProperties, NPosIsInt DEF Texts
<1>1. ASSUME NEW q \in 0 .. Len(s) - 1
      PROVE  OccursAt(s, <<c>>, q) <=> s[q + 1] = c
  <2>1. q \in 0 .. Len(s) /\ 1 \in Nat /\ 1 <= Len(s) - q /\ q + 1 \in 1 .. Len(s)
    BY <1>0
  <2>2. Substr(s, q, 1) = SubSeq(s, q + 1, q + 1)
    BY <2>1, SubstrPart
  <2> QED
    BY <1>0, <2>1, <2>2, OneChar DEF OccursAt
<1>2. FindText(s, <<c>>) = p
  <2> DEFINE P(r) == r \in 0 .. Len(s) /\ OccursAt(s, <<c>>, r)
                     /\ \A q \in 0 .. r - 1 : ~OccursAt(s, <<c>>, q)
  <2>1. P(p)
    <3>1. \A q \in 0 .. p - 1 : q \in 0 .. Len(s) - 1 /\ q + 1 \in 1 .. p
      BY <1>0
    <3>2. p \in 0 .. Len(s)
      BY <1>0
    <3> QED
      BY <1>1, <3>1, <3>2
  <2>2. ASSUME NEW r, P(r) PROVE r = p
    <3>1. p \in Int /\ r \in Int /\ p >= 0 /\ r >= 0
      BY <2>2
    <3>2. ~(p \in 0 .. r - 1) /\ ~(r \in 0 .. p - 1)
      BY <2>1, <2>2
    <3> QED
      BY <3>1, <3>2
  <2>3. FindText(s, <<c>>) = CHOOSE r : P(r)
    BY DEF FindText
  <2> HIDE DEF P
  <2> QED
    BY <2>1, <2>2, <2>3
<1>3. Substr(s, 0, p) = SubSeq(s, 1, p)
  <2>1. 0 \in 0 .. Len(s) /\ p \in Nat /\ p <= Len(s) - 0 /\ 0 + 1 = 1 /\ 0 + p = p
    BY <1>0
  <2>2. Substr(s, 0, p) = SubSeq(s, 0 + 1, 0 + p)
    BY <2>1, SubstrPart
  <2> QED
    BY <2>1, <2>2
<1>4. Substr(s, p + 1, NPos) = SubSeq(s, p + 2, Len(s))
  <2>1. /\ p + 1 \in 0 .. Len(s) /\ NPos \in Nat /\ NPos >= Len(s) - (p + 1)
        /\ p + 1 + 1 = p + 2
    BY <1>0
  <2>2. Substr(s, p + 1, NPos) = SubSeq(s, p + 1 + 1, Len(s))
    BY <2>1, SubstrPart
  <2> QED
    BY <2>1, <2>2
<1> QED
  BY <1>0, <1>2, <1>3, <1>4 DEF EraseText

\* A text is found at the start of another one that it begins.
LEMMA FindTextAtStart ==
  ASSUME NEW s \in Texts, NEW n \in 0 .. Len(s), NEW t, t = SubSeq(s, 1, n)
  PROVE  FindText(s, t) = 0 /\ Len(t) = n
<1>0. Len(s) \in Nat
  BY LenProperties DEF Texts
<1>1. Len(t) = n
  <2>1. 1 \in 1 .. Len(s) + 1 /\ n \in 1 - 1 .. Len(s) /\ n - 1 + 1 = n
    BY <1>0
  <2>2. Len(SubSeq(s, 1, n)) = n - 1 + 1
    BY <2>1, PartLemma
  <2> QED
    BY <2>1, <2>2
<1>2. OccursAt(s, t, 0)
  <2>1. 0 \in 0 .. Len(s) /\ n \in Nat /\ n <= Len(s) - 0 /\ 0 + n = n
    BY <1>0
  <2>2. Substr(s, 0, n) = SubSeq(s, 0 + 1, 0 + n)
    BY <2>1, SubstrPart
  <2> QED
    BY <1>1, <2>1, <2>2 DEF OccursAt
<1> DEFINE P(r) == r \in 0 .. Len(s) /\ OccursAt(s, t, r)
                   /\ \A q \in 0 .. r - 1 : ~OccursAt(s, t, q)
<1>3. P(0)
  BY <1>0, <1>2
<1>4. ASSUME NEW r, P(r) PROVE r = 0
  <2>1. ~(0 \in 0 .. r - 1) /\ r \in Int /\ r >= 0
    BY <1>2, <1>4
  <2> QED
    BY <2>1
<1>5. FindText(s, t) = CHOOSE r : P(r)
  BY DEF FindText
<1> HIDE DEF P
<1> QED
  BY <1>1, <1>3, <1>4, <1>5

----------------------------------------------------------------------------
(* Lines *)

\* The first place of a character, or the length of a text without it.
LEMMA FirstPlace ==
  ASSUME NEW s \in Texts, NEW c
  PROVE  \E n \in 0 .. Len(s) :
           /\ n = Len(s) \/ s[n + 1] = c
           /\ \A j \in 1 .. n : s[j] # c
           /\ FirstIn(s, {c}) = IF n = Len(s) THEN 0 ELSE n + 1
<1> DEFINE i == FirstIn(s, {c})
<1>0. Len(s) \in Nat /\ s \in Seq(Chars)
  BY LenProperties DEF Texts
<1>1. FirstIn(s, {c}) = i
  OBVIOUS
<1>2. \/ i = 0 /\ \A j \in 1 .. Len(s) : s[j] \notin {c}
      \/ i \in 1 .. Len(s) /\ s[i] \in {c} /\ \A j \in 1 .. i - 1 : s[j] \notin {c}
  BY <1>0, FirstInLemma
<1> HIDE DEF i
<1>3. CASE i = 0 /\ \A j \in 1 .. Len(s) : s[j] \notin {c}
  <2>1. Len(s) \in 0 .. Len(s)
    BY <1>0
  <2> QED
    BY <1>1, <1>3, <2>1
<1>4. CASE i \in 1 .. Len(s) /\ s[i] \in {c} /\ \A j \in 1 .. i - 1 : s[j] \notin {c}
  <2>1. i - 1 \in 0 .. Len(s) /\ i - 1 # Len(s) /\ i - 1 + 1 = i
    BY <1>0, <1>4
  <2> QED
    BY <1>1, <1>4, <2>1
<1> QED
  BY <1>2, <1>3, <1>4

\* What parseCommand has of a line when it looks for the carriage return.
LEMMA UnreturnedLemma ==
  ASSUME NEW s \in Texts, s[1] # ":", NEW n \in 0 .. Len(s),
         n = Len(s) \/ s[n + 1] = "sp", \A j \in 1 .. n : s[j] # "sp"
  PROVE  Name(s) = SubSeq(s, 1, n) /\ Unreturned(s) = SubSeq(s, n + 1, Len(s))
<1>0. Len(s) \in Nat /\ Len(s) < NPos /\ NPos \in Int /\ s \in Seq(Chars)
  BY LenProperties, NPosIsInt DEF Texts
<1>1. Before(s, "sp") = SubSeq(s, 1, n)
  BY BeforeIs
<1>2. Name(s) = SubSeq(s, 1, n)
  BY <1>1 DEF Name
<1>3. FindText(s, Name(s)) = 0 /\ Len(Name(s)) = n
  BY <1>2, FindTextAtStart
<1>4. Unreturned(s) = Substr(s, n, NPos)
  BY <1>3 DEF Unreturned
<1>5. n \in 0 .. Len(s) /\ NPos \in Nat /\ NPos >= Len(s) - n
  BY <1>0
<1> QED
  BY <1>2, <1>4, <1>5, SubstrPart

\* The carriage return is taken out of what is left, or is missed.
LEMMA ReturnLemma ==
  ASSUME NEW rest \in Texts
  PROVE  /\ Find(rest, "cr") = NPos <=> ~Contains(rest, "cr")
         /\ Contains(rest, "cr") => EraseText(rest, <<"cr">>) = RemoveFirst(rest, "cr")
<1>0. Len(rest) \in Nat /\ Len(rest) < NPos /\ NPos \in Int
  BY LenProperties, NPosIsInt DEF Texts
<1>1. Find(rest, "cr") = NPos <=> ~Contains(rest, "cr")
  BY <1>0, FindLemma DEF Contains
<1>2. ASSUME Contains(rest, "cr")
      PROVE  EraseText(rest, <<"cr">>) = RemoveFirst(rest, "cr")
  <2>1. PICK p \in 0 .. Len(rest) :
          /\ p = Len(rest) \/ rest[p + 1] = "cr"
          /\ \A j \in 1 .. p : rest[j] # "cr"
          /\ FirstIn(rest, {"cr"}) = IF p = Len(rest) THEN 0 ELSE p + 1
    BY FirstPlace
  <2>2. p # Len(rest)
    BY <1>2, <2>1 DEF Contains
  <2>3. p \in 0 .. Len(rest) - 1 /\ p + 1 - 1 = p /\ p + 1 + 1 = p + 2
    BY <1>0, <2>2
  <2>4. RemoveFirst(rest, "cr") = RemoveAt(rest, p + 1)
    <3>1. SelectInSeq(rest, LAMBDA x : x = "cr") = FirstIn(rest, {"cr"})
      <4>1. {j \in 1 .. Len(rest) : rest[j] = "cr"} = {j \in 1 .. Len(rest) : rest[j] \in {"cr"}}
        OBVIOUS
      <4> QED
        BY <4>1 DEF FirstIn, SelectInSeq
    <3>2. RemoveFirst(rest, "cr") = RemoveAt(rest, FirstIn(rest, {"cr"}))
      BY <1>2, <3>1 DEF RemoveFirst, Contains
    <3> QED
      BY <2>1, <2>2, <3>2
  <2>5. RemoveAt(rest, p + 1) = SubSeq(rest, 1, p) \o SubSeq(rest, p + 2, Len(rest))
    <3>1. PICK i : i = p + 1
      OBVIOUS
    <3>2. i - 1 = p /\ i + 1 = p + 2
      BY <2>3, <3>1
    <3>3. RemoveAt(rest, i) = SubSeq(rest, 1, i - 1) \o SubSeq(rest, i + 1, Len(rest))
      BY DEF RemoveAt
    <3> QED
      BY <3>1, <3>2, <3>3
  <2>6. EraseText(rest, <<"cr">>) = SubSeq(rest, 1, p) \o SubSeq(rest, p + 2, Len(rest))
    BY <2>1, <2>2, <2>3, EraseChar
  <2> QED
    BY <2>4, <2>5, <2>6
<1> QED
  BY <1>1, <1>2

----------------------------------------------------------------------------
(* KICK and PRIVMSG *)

\* KICK reads the word behind a blank as far as a blank and a colon, or the end.
LEMMA KickedLemma ==
  ASSUME NEW s \in Texts, NEW b \in 2 .. Len(s), NEW e \in b + 1 .. Len(s),
         s[1] = "sp", s[b] = "sp",
         \A k \in 2 .. b - 1 : s[k] \in WordChars \cup {"#"},
         \A k \in b + 1 .. e : s[k] \in WordChars,
         \/ e = Len(s)
         \/ e + 2 <= Len(s) /\ s[e + 1] = "sp" /\ s[e + 2] = ":"
  PROVE  KickedName(s) = SubSeq(s, b + 1, e)
<1> DEFINE m == DropBlank(s)
           L == Len(s)
<1>0. L \in Nat /\ L >= 3 /\ s \in Seq(Chars) /\ L < NPos /\ NPos \in Int
  BY LenProperties, NPosIsInt DEF Texts
<1>1. /\ m \in Texts /\ Len(m) = L - 1 /\ m = SubSeq(s, 2, L)
      /\ \A k \in 1 .. L - 1 : m[k] = s[k + 1]
  <2>1. m = SubSeq(s, 2, L)
    <3>1. s # <<>>
      BY <1>0, EmptySeq
    <3> QED
      BY <1>0, <3>1, TailIsSubSeq DEF DropBlank
  <2> QED
    BY <1>0, <2>1, PartLemma, SMTT(30)
<1> HIDE DEF m
<1>text. m \in Texts
  BY <1>1
<1>2. \A c \in WordChars \cup {"#"} : c # "sp" /\ c # ":"
  BY CommandLineAssumption
<1>3. Find(m, "sp") = b - 2
  <2>1. b - 2 \in 0 .. Len(m) - 1 /\ m[b - 2 + 1] = "sp"
    BY <1>0, <1>1
  <2>2. ASSUME NEW k \in 1 .. b - 2 PROVE m[k] # "sp"
    <3>1. m[k] = s[k + 1] /\ k + 1 \in 2 .. b - 1
      BY <1>0, <1>1
    <3> QED
      BY <1>2, <3>1
  <2> QED
    BY <1>text, <2>1, <2>2, FindIs
<1>4. (Find(m, "sp") + 1) % SizeT = b - 1
  <2>1. b - 1 \in 0 .. SizeT - 1 /\ SizeT \in Nat \ {0} /\ b - 2 + 1 = b - 1
    BY <1>0, NPosIsInt
  <2>2. (b - 1) % SizeT = b - 1
    BY <2>1
  <2> QED
    BY <1>3, <2>1, <2>2
<1>5. ASSUME NEW k \in 1 .. e - 1 PROVE m[k] # ":"
  <2>1. m[k] = s[k + 1] /\ k + 1 \in 2 .. e
    BY <1>0, <1>1
  <2>2. k + 1 \in 2 .. b - 1 \/ k + 1 = b \/ k + 1 \in b + 1 .. e
    BY <2>1
  <2> QED
    BY <1>2, <2>1, <2>2
<1>6. CASE e = L
  <2>1. Find(m, ":") = NPos
    <3>1. \A k \in 1 .. Len(m) : m[k] # ":"
      BY <1>0, <1>1, <1>5, <1>6
    <3> QED
      BY <1>1, <3>1, FindIs
  <2>2. Minus(NPos, 1) = NPos - 1
    BY <1>0, MinusIs
  <2>3. Minus(NPos - 1, b - 1) = NPos - b
    <3>1. NPos - 1 \in 0 .. NPos /\ b - 1 \in 0 .. NPos - 1 /\ NPos - 1 - (b - 1) = NPos - b
      BY <1>0
    <3> QED
      BY <3>1, MinusIs
  <2>4. KickedName(s) = Substr(m, b - 1, NPos - b)
    BY <1>4, <2>1, <2>2, <2>3 DEF KickedName, m
  <2>5. Substr(m, b - 1, NPos - b) = SubSeq(m, b, L - 1)
    <3>1. b - 1 \in 0 .. Len(m) /\ NPos - b \in Nat /\ NPos - b >= Len(m) - (b - 1)
      BY <1>0, <1>1
    <3>2. Substr(m, b - 1, NPos - b) = SubSeq(m, b - 1 + 1, Len(m))
      BY <1>text, <3>1, SubstrPart
    <3> QED
      BY <1>1, <3>2
  <2>6. SubSeq(m, b, L - 1) = SubSeq(s, 2 + b - 1, 2 + (L - 1) - 1)
    BY <1>0, <1>1, PartOfPart
  <2> QED
    BY <1>0, <1>6, <2>4, <2>5, <2>6
<1>7. CASE e + 2 <= L /\ s[e + 1] = "sp" /\ s[e + 2] = ":"
  <2>1. Find(m, ":") = e
    <3>1. e \in 0 .. Len(m) - 1 /\ m[e + 1] = ":"
      BY <1>0, <1>1, <1>7
    <3>2. m[e] = "sp"
      BY <1>0, <1>1, <1>7
    <3>3. \A k \in 1 .. e : m[k] # ":"
      BY <1>5, <3>2
    <3> QED
      BY <1>text, <3>1, <3>3, FindIs
  <2>2. Minus(e, 1) = e - 1
    <3>1. e \in 0 .. NPos /\ 1 \in 0 .. e
      BY <1>0
    <3> QED
      BY <3>1, MinusIs
  <2>3. Minus(e - 1, b - 1) = e - b
    <3>1. e - 1 \in 0 .. NPos /\ b - 1 \in 0 .. e - 1 /\ e - 1 - (b - 1) = e - b
      BY <1>0
    <3> QED
      BY <3>1, MinusIs
  <2>4. KickedName(s) = Substr(m, b - 1, e - b)
    BY <1>4, <2>1, <2>2, <2>3 DEF KickedName, m
  <2>5. Substr(m, b - 1, e - b) = SubSeq(m, b, e - 1)
    <3>1. b - 1 \in 0 .. Len(m) /\ e - b \in Nat /\ e - b <= Len(m) - (b - 1)
      BY <1>0, <1>1, <1>7
    <3>2. Substr(m, b - 1, e - b) = SubSeq(m, b - 1 + 1, b - 1 + (e - b))
      BY <1>1, <3>1, SubstrPart
    <3> QED
      BY <3>2
  <2>6. SubSeq(m, b, e - 1) = SubSeq(s, 2 + b - 1, 2 + (e - 1) - 1)
    BY <1>0, <1>1, <1>7, PartOfPart
  <2> QED
    BY <1>0, <2>4, <2>5, <2>6
<1> QED
  BY <1>6, <1>7

\* PRIVMSG reads the word before a blank and a colon.
LEMMA TargetLemma ==
  ASSUME NEW s \in Texts, NEW i \in 2 .. Len(s) - 2,
         s[1] = "sp", s[i + 1] = "sp", s[i + 2] = ":",
         \A k \in 2 .. i : s[k] \in WordChars \cup {"#"}
  PROVE  Target(s) = SubSeq(s, 2, i)
<1>0. Len(s) \in Nat /\ Len(s) < NPos /\ NPos \in Int
  BY LenProperties, NPosIsInt DEF Texts
<1>1. \A c \in WordChars \cup {"#"} : c # ":"
  BY CommandLineAssumption
<1>2. \A k \in 1 .. i + 1 : s[k] # ":"
  <2> TAKE k \in 1 .. i + 1
  <2>1. k = 1 \/ k \in 2 .. i \/ k = i + 1
    BY <1>0
  <2> QED
    BY <1>1, <2>1
<1>3. Find(s, ":") = i + 1
  <2>1. i + 1 \in 0 .. Len(s) - 1 /\ s[i + 1 + 1] = ":"
    BY <1>0
  <2> QED
    BY <1>2, <2>1, FindIs
<1>4. i + 1 # NPos /\ Minus(i + 1, 2) = i - 1
  <2>1. i + 1 \in 0 .. NPos /\ 2 \in 0 .. i + 1 /\ i + 1 - 2 = i - 1 /\ i + 1 # NPos
    BY <1>0
  <2> QED
    BY <2>1, MinusIs
<1>5. Target(s) = Substr(s, 1, i - 1)
  BY <1>3, <1>4 DEF Target
<1>6. 1 \in 0 .. Len(s) /\ i - 1 \in Nat /\ i - 1 <= Len(s) - 1
      /\ 1 + 1 = 2 /\ 1 + (i - 1) = i
  BY <1>0
<1>7. Substr(s, 1, i - 1) = SubSeq(s, 1 + 1, 1 + (i - 1))
  BY <1>6, SubstrPart
<1> QED
  BY <1>5, <1>6, <1>7

----------------------------------------------------------------------------
(* OPER *)

\* What follows the last blank.
LEMMA LastWordIs ==
  ASSUME NEW s \in Texts, NEW n \in 0 .. Len(s),
         n = 0 \/ s[n] = "sp", \A j \in n + 1 .. Len(s) : s[j] # "sp"
  PROVE  LastWord(s) = SubSeq(s, n + 1, Len(s))
<1>0. Len(s) \in Nat /\ Len(s) < NPos /\ NPos \in Int /\ SizeT = NPos + 1
  BY LenProperties, NPosIsInt DEF Texts
<1>1. (FindLast(s, "sp") + 1) % SizeT = n
  <2>1. CASE n = 0
    <3>1. \A j \in 1 .. Len(s) : s[j] # "sp"
      BY <2>1
    <3>2. FindLast(s, "sp") = NPos
      BY <3>1, FindLastIs
    <3>3. (NPos + 1) % SizeT = 0
      BY <1>0
    <3> QED
      BY <2>1, <3>2, <3>3
  <2>2. CASE n > 0
    <3>1. PICK k : k = n - 1
      OBVIOUS
    <3>2. /\ k \in 0 .. Len(s) - 1 /\ k + 1 = n /\ s[k + 1] = "sp"
          /\ k + 2 = n + 1
      BY <1>0, <2>2, <3>1
    <3>3. \A j \in k + 2 .. Len(s) : s[j] # "sp"
      BY <3>2
    <3>4. FindLast(s, "sp") = k
      BY <3>2, <3>3, FindLastIs
    <3>5. n % SizeT = n
      BY <1>0
    <3> QED
      BY <3>2, <3>4, <3>5
  <2> QED
    BY <1>0, <2>1, <2>2
<1>2. NPos \in Nat /\ NPos >= Len(s) - n
  BY <1>0
<1>3. Substr(s, n, NPos) = SubSeq(s, n + 1, Len(s))
  BY <1>2, SubstrPart
<1> QED
  BY <1>1, <1>3 DEF LastWord

\* A line of the operators' file that starts and ends with a word.
LEMMA OperatorLemma ==
  ASSUME NEW s \in Texts, NEW i \in 1 .. Len(s), NEW j \in 1 .. Len(s),
         i = Len(s) \/ s[i + 1] = "sp", \A k \in 1 .. i : s[k] \in WordChars,
         j = 1 \/ s[j - 1] = "sp", \A k \in j .. Len(s) : s[k] \in WordChars
  PROVE  Operator(s) = [name |-> SubSeq(s, 1, i), password |-> SubSeq(s, j, Len(s))]
<1>0. Len(s) \in Nat
  BY LenProperties DEF Texts
<1>1. \A c \in WordChars : c # "sp"
  BY CommandLineAssumption
<1>2. Before(s, "sp") = SubSeq(s, 1, i)
  <2>1. i \in 0 .. Len(s) /\ \A k \in 1 .. i : s[k] # "sp"
    BY <1>0, <1>1
  <2> QED
    BY <2>1, BeforeIs
<1>3. LastWord(s) = SubSeq(s, j, Len(s))
  <2>1. PICK n : n = j - 1
    OBVIOUS
  <2>2. n \in 0 .. Len(s) /\ n + 1 = j /\ (n = 0 \/ s[n] = "sp")
    BY <1>0, <2>1
  <2>3. \A k \in n + 1 .. Len(s) : s[k] # "sp"
    BY <1>1, <2>2
  <2>4. LastWord(s) = SubSeq(s, n + 1, Len(s))
    BY <2>2, <2>3, LastWordIs
  <2> QED
    BY <2>2, <2>4
<1> QED
  BY <1>2, <1>3 DEF Operator

\* A word of an OPER message, behind a blank.
LEMMA WordIs ==
  ASSUME NEW w \in Seq(Chars), IsWord(w)
  PROVE  /\ Len(w) \in Nat /\ Len(w) >= 1 /\ w # <<>>
         /\ \A k \in 1 .. Len(w) : w[k] # "sp"
<1>1. Len(w) \in Nat /\ DOMAIN w = 1 .. Len(w) /\ w # <<>> /\ Len(w) \in Nat \ {0}
  BY LenProperties, EmptySeq DEF IsWord
<1>2. \A k \in 1 .. Len(w) : w[k] \in WordChars
  BY <1>1 DEF IsWord, ToSet
<1>3. \A c \in WordChars : c # "sp"
  BY CommandLineAssumption
<1> QED
  BY <1>1, <1>2, <1>3

\* The characters of two texts in a row.
LEMMA ConcatOfTwo ==
  ASSUME NEW u \in Seq(Chars), NEW v \in Seq(Chars), NEW m, m = u \o v
  PROVE  /\ m \in Seq(Chars) /\ Len(m) = Len(u) + Len(v)
         /\ \A k \in 1 .. Len(u) + Len(v) :
              m[k] = IF k <= Len(u) THEN u[k] ELSE v[k - Len(u)]
  BY ConcatProperties

\* Three in a row, whichever two are joined first.
LEMMA ConcatOfThree ==
  ASSUME NEW u \in Seq(Chars), NEW v \in Seq(Chars), NEW w \in Seq(Chars)
  PROVE  u \o (v \o w) = (u \o v) \o w
  BY ConcatAssociative, SMTT(30)

\* The characters of a word behind a blank.
LEMMA BlankWord ==
  ASSUME NEW w \in Seq(Chars), NEW m, m = <<"sp">> \o w
  PROVE  /\ m \in Seq(Chars) /\ Len(m) = Len(w) + 1 /\ m[1] = "sp"
         /\ \A k \in 2 .. Len(w) + 1 : m[k] = w[k - 1]
<1>1. "sp" \in Chars
  BY CommandLineAssumption
<1>2. /\ <<"sp">> \in Seq(Chars) /\ Len(<<"sp">>) = 1 /\ <<"sp">>[1] = "sp"
      /\ Len(w) \in Nat
  BY <1>1, LenProperties
<1>3. /\ m \in Seq(Chars) /\ Len(m) = 1 + Len(w)
      /\ \A k \in 1 .. 1 + Len(w) : m[k] = IF k <= 1 THEN <<"sp">>[k] ELSE w[k - 1]
  BY <1>2, ConcatProperties
<1> QED
  BY <1>2, <1>3

\* OPER with two words.
LEMMA TwoWords ==
  ASSUME NEW n \in Seq(Chars), IsWord(n), NEW p \in Seq(Chars), IsWord(p),
         Len(n) + Len(p) + 2 < NPos,
         NEW m, m = <<"sp">> \o n \o <<"sp">> \o p
  PROVE  Credentials(m) = [name |-> n, password |-> p]
<1>0. NPos \in Int
  BY NPosIsInt
<1>1. /\ Len(n) \in Nat /\ Len(n) >= 1 /\ \A k \in 1 .. Len(n) : n[k] # "sp"
      /\ Len(p) \in Nat /\ Len(p) >= 1 /\ \A k \in 1 .. Len(p) : p[k] # "sp"
  BY WordIs
<1>2. PICK u : u = <<"sp">> \o n
  OBVIOUS
<1>3. PICK v : v = <<"sp">> \o p
  OBVIOUS
<1>4. /\ u \in Seq(Chars) /\ Len(u) = Len(n) + 1
      /\ \A k \in 2 .. Len(n) + 1 : u[k] = n[k - 1]
      /\ v \in Seq(Chars) /\ Len(v) = Len(p) + 1 /\ v[1] = "sp"
      /\ \A k \in 2 .. Len(p) + 1 : v[k] = p[k - 1]
  BY <1>2, <1>3, BlankWord
<1>types. u \in Seq(Chars) /\ v \in Seq(Chars)
  BY <1>4
<1>5. m = u \o v
  <2>1. PICK b : b = <<"sp">>
    OBVIOUS
  <2>2. b \in Seq(Chars)
    BY <2>1, CommandLineAssumption
  <2>3. u \o (b \o p) = (u \o b) \o p
    BY <1>types, <2>2, ConcatOfThree, SMTT(30)
  <2> QED
    BY <1>2, <1>3, <2>1, <2>3
<1>6. /\ m \in Seq(Chars) /\ Len(m) = Len(n) + Len(p) + 2
      /\ \A k \in 2 .. Len(n) + 1 : m[k] = n[k - 1]
      /\ m[Len(n) + 2] = "sp"
      /\ \A k \in Len(n) + 3 .. Len(m) : m[k] = p[k - (Len(n) + 2)]
  <2>1. /\ m \in Seq(Chars) /\ Len(m) = Len(u) + Len(v)
        /\ \A k \in 1 .. Len(u) + Len(v) :
             m[k] = IF k <= Len(u) THEN u[k] ELSE v[k - Len(u)]
    <3>1. PICK t : t = u \o v
      OBVIOUS
    <3>2. /\ t \in Seq(Chars) /\ Len(t) = Len(u) + Len(v)
          /\ \A k \in 1 .. Len(u) + Len(v) :
               t[k] = IF k <= Len(u) THEN u[k] ELSE v[k - Len(u)]
      BY <1>types, <3>1, ConcatOfTwo
    <3>3. m = t
      BY <1>5, <3>1, Zenon
    <3> QED
      BY <3>2, <3>3, Zenon
  <2>2. ASSUME NEW k \in 2 .. Len(n) + 1 PROVE m[k] = n[k - 1]
    BY <1>1, <1>4, <2>1
  <2>3. m[Len(n) + 2] = "sp"
    <3>1. Len(n) + 2 \in 1 .. Len(u) + Len(v) /\ ~(Len(n) + 2 <= Len(u))
          /\ Len(n) + 2 - Len(u) = 1
      BY <1>1, <1>4
    <3> QED
      BY <1>4, <2>1, <3>1
  <2>4. ASSUME NEW k \in Len(n) + 3 .. Len(m) PROVE m[k] = p[k - (Len(n) + 2)]
    <3>1. k \in 1 .. Len(u) + Len(v) /\ ~(k <= Len(u))
      BY <1>1, <1>4, <2>1
    <3>2. PICK l : l = k - Len(u)
      OBVIOUS
    <3>3. l \in 2 .. Len(p) + 1 /\ l - 1 = k - (Len(n) + 2)
      BY <1>1, <1>4, <2>1, <3>2
    <3> QED
      BY <1>4, <2>1, <3>1, <3>2, <3>3
  <2> QED
    BY <1>1, <1>4, <2>1, <2>2, <2>3, <2>4
<1>7. m \in Texts /\ Len(m) \in Nat
  BY <1>1, <1>6 DEF Texts
<1>8. \A k \in Len(n) + 3 .. Len(m) : m[k] # "sp"
  <2> TAKE k \in Len(n) + 3 .. Len(m)
  <2>1. k - (Len(n) + 2) \in 1 .. Len(p)
    BY <1>1, <1>6
  <2> QED
    BY <1>1, <1>6, <2>1
<1>9. LastWord(m) = p
  <2>1. PICK l : l = Len(n) + 2
    OBVIOUS
  <2>2. /\ l \in 0 .. Len(m) /\ m[l] = "sp" /\ l + 1 = Len(n) + 3
        /\ \A k \in l + 1 .. Len(m) : m[k] # "sp"
    BY <1>1, <1>6, <1>8, <2>1
  <2>3. LastWord(m) = SubSeq(m, l + 1, Len(m))
    BY <1>7, <2>2, LastWordIs
  <2>4. /\ l + 1 \in 1 .. Len(m) + 1 /\ Len(m) \in l + 1 - 1 .. Len(m)
        /\ Len(m) - (l + 1) + 1 = Len(p)
    BY <1>1, <1>6, <2>1
  <2>5. /\ SubSeq(m, l + 1, Len(m)) \in Seq(Chars)
        /\ Len(SubSeq(m, l + 1, Len(m))) = Len(p)
        /\ \A k \in 1 .. Len(p) : SubSeq(m, l + 1, Len(m))[k] = m[l + 1 + k - 1]
    BY <1>7, <2>4, PartLemma, SMTT(30) DEF Texts
  <2>6. ASSUME NEW k \in 1 .. Len(p) PROVE SubSeq(m, l + 1, Len(m))[k] = p[k]
    <3>1. PICK h : h = l + 1 + k - 1
      OBVIOUS
    <3>2. h \in Len(n) + 3 .. Len(m) /\ h - (Len(n) + 2) = k
      BY <1>1, <1>6, <2>1, <3>1
    <3>3. m[h] = p[k]
      BY <1>6, <3>2
    <3> QED
      BY <2>5, <3>1, <3>3
  <2> QED
    BY <2>3, <2>5, <2>6, SeqEqual
<1>10. FindLast(m, "sp") = Len(n) + 1
  <2>1. PICK l : l = Len(n) + 1
    OBVIOUS
  <2>2. /\ l \in 0 .. Len(m) - 1 /\ m[l + 1] = "sp"
        /\ \A k \in l + 2 .. Len(m) : m[k] # "sp"
    BY <1>1, <1>6, <1>8, <2>1
  <2> QED
    BY <1>7, <2>1, <2>2, FindLastIs
<1>11. Minus(Len(n) + 1, 1) = Len(n)
  <2>1. /\ Len(n) + 1 \in 0 .. NPos /\ 1 \in 0 .. Len(n) + 1
        /\ Len(n) + 1 - 1 = Len(n)
    BY <1>0, <1>1
  <2> QED
    BY <2>1, MinusIs
<1>12. Substr(m, 1, Len(n)) = n
  <2>1. /\ 1 \in 0 .. Len(m) /\ Len(n) <= Len(m) - 1 /\ 1 + 1 = 2
        /\ 2 \in 1 .. Len(m) + 1 /\ 1 + Len(n) \in 2 - 1 .. Len(m)
        /\ 1 + Len(n) - 2 + 1 = Len(n)
    BY <1>1, <1>6
  <2>2. Substr(m, 1, Len(n)) = SubSeq(m, 1 + 1, 1 + Len(n))
    <3>1. Len(n) \in Nat
      BY <1>1
    <3> QED
      BY <1>7, <2>1, <3>1, SubstrPart
  <2>3. /\ SubSeq(m, 2, 1 + Len(n)) \in Seq(Chars)
        /\ Len(SubSeq(m, 2, 1 + Len(n))) = Len(n)
        /\ \A k \in 1 .. Len(n) : SubSeq(m, 2, 1 + Len(n))[k] = m[2 + k - 1]
    BY <1>7, <2>1, PartLemma DEF Texts
  <2>4. ASSUME NEW k \in 1 .. Len(n) PROVE SubSeq(m, 2, 1 + Len(n))[k] = n[k]
    <3>1. PICK h : h = 2 + k - 1
      OBVIOUS
    <3>2. h \in 2 .. Len(n) + 1 /\ h - 1 = k
      BY <1>1, <3>1
    <3>3. m[h] = n[k]
      BY <1>6, <3>2
    <3> QED
      BY <2>3, <3>1, <3>3
  <2> QED
    BY <2>1, <2>2, <2>3, <2>4, SeqEqual
<1> QED
  BY <1>9, <1>10, <1>11, <1>12 DEF Credentials

----------------------------------------------------------------------------
(* TOPIC *)

\* The two ways to read the name of the channel agree.
LEMMA TopicLemma ==
  ASSUME NEW s \in Texts, NEW i \in 3 .. Len(s), s[1] = "sp", s[2] = "#",
         \A k \in 3 .. i : s[k] \in WordChars,
         \/ i = Len(s)
         \/ i + 2 <= Len(s) /\ s[i + 1] = "sp" /\ s[i + 2] = ":"
  PROVE  ~TopicThrows(s) /\ TopicChannel(s) = SubSeq(s, 3, i)
<1> DEFINE L == Len(s)
<1>0. L \in Nat /\ L >= 3 /\ s \in Seq(Chars) /\ L < NPos /\ NPos \in Int
  BY LenProperties, NPosIsInt DEF Texts
<1>1. /\ \A c \in WordChars : c # "sp" /\ c # ":" /\ c # "#" /\ c \in Chars
      /\ "#" \in Chars /\ "#" # "sp" /\ "sp" \notin WordChars /\ "#" \notin WordChars
  BY CommandLineAssumption
<1>2. /\ s[1] \notin Chars \ {"sp"} /\ s[2] \in Chars \ {"sp"}
      /\ s[1] \notin WordChars /\ s[2] \notin WordChars /\ s[3] \in WordChars
  BY <1>0, <1>1
<1>3. PICK tail : tail = SubSeq(s, 2, L)
  BY Zenon
<1>4. /\ tail \in Texts /\ Len(tail) = L - 1
      /\ \A k \in 1 .. L - 1 : tail[k] = s[k + 1]
  <2>1. 2 \in 1 .. Len(s) + 1 /\ L \in 2 - 1 .. Len(s) /\ L - 2 + 1 = L - 1
    BY <1>0, SMTT(30)
  <2>2. /\ tail \in Texts /\ Len(tail) = L - 2 + 1
        /\ \A k \in 1 .. L - 2 + 1 : tail[k] = s[2 + k - 1]
    BY <1>3, <2>1, PartLemma
  <2>3. \A k \in 1 .. L - 1 : 2 + k - 1 = k + 1
    BY <1>0
  <2> QED
    BY <2>1, <2>2, <2>3, Zenon
<1>5. FirstToken(s) = SubSeq(s, 2, i)
  <2>1. PICK f : f = FirstIn(s, Chars \ {"sp"})
    OBVIOUS
  <2>2. f = 2
    <3>1. \/ f = 0 /\ \A j \in 1 .. L : s[j] \notin Chars \ {"sp"}
          \/ f \in 1 .. L /\ s[f] \in Chars \ {"sp"}
             /\ \A j \in 1 .. f - 1 : s[j] \notin Chars \ {"sp"}
      BY <1>0, <2>1, FirstInLemma, SMTT(30)
    <3>2. f # 0 /\ f # 1 /\ ~(2 \in 1 .. f - 1)
      BY <1>0, <1>2, <3>1
    <3> QED
      BY <1>0, <3>1, <3>2
  <2>3. Substr(s, 1, NPos) = tail
    <3>1. 1 \in 0 .. Len(s) /\ NPos \in Nat /\ NPos >= Len(s) - 1 /\ 1 + 1 = 2
      BY <1>0
    <3>2. Substr(s, 1, NPos) = SubSeq(s, 1 + 1, Len(s))
      BY <3>1, SubstrPart
    <3> QED
      BY <1>3, <3>1, <3>2
  <2>4. FirstToken(s) = Before(tail, "sp")
    <3>1. FirstToken(s) = Before(Substr(s, f - 1, NPos), "sp")
      BY <2>1 DEF FirstToken
    <3> QED
      BY <2>2, <2>3, <3>1
  <2>5. Before(tail, "sp") = SubSeq(tail, 1, i - 1)
    <3>1. PICK n : n = i - 1
      OBVIOUS
    <3>2. n \in 0 .. Len(tail) /\ (n = Len(tail) \/ tail[n + 1] = "sp")
      BY <1>0, <1>4, <3>1
    <3>3. ASSUME NEW k \in 1 .. n PROVE tail[k] # "sp"
      <4>1. tail[k] = s[k + 1] /\ (k = 1 \/ k + 1 \in 3 .. i)
        BY <1>0, <1>4, <3>1
      <4> QED
        BY <1>1, <4>1
    <3>4. Before(tail, "sp") = SubSeq(tail, 1, n)
      BY <1>4, <3>2, <3>3, BeforeIs
    <3> QED
      BY <3>1, <3>4
  <2>6. SubSeq(tail, 1, i - 1) = SubSeq(s, 2 + 1 - 1, 2 + (i - 1) - 1)
    <3>1. /\ 2 \in 1 .. Len(s) + 1 /\ L \in 2 - 1 .. Len(s)
          /\ 1 \in 1 .. L - 2 + 2 /\ i - 1 \in 1 - 1 .. L - 2 + 1
      BY <1>0
    <3> QED
      BY <1>3, <3>1, PartOfPart
  <2> QED
    BY <1>0, <2>4, <2>5, <2>6
<1>6. PICK u : u = SubSeq(s, 2, i)
  OBVIOUS
<1>7. /\ u \in Texts /\ Len(u) = i - 1 /\ u[1] = "#" /\ ToSet(u) = {s[k] : k \in 2 .. i}
      /\ 2 \in 1 .. Len(s) + 1 /\ i \in 2 - 1 .. Len(s)
  <2>1. 2 \in 1 .. Len(s) + 1 /\ i \in 2 - 1 .. Len(s) /\ i - 2 + 1 = i - 1
        /\ 1 \in 1 .. i - 2 + 1 /\ 2 + 1 - 1 = 2
    BY <1>0
  <2>2. u \in Texts /\ Len(u) = i - 2 + 1 /\ u[1] = s[2 + 1 - 1]
    BY <1>6, <2>1, PartLemma
  <2>3. ToSet(u) = {s[k] : k \in 2 .. i}
    BY <1>6, <2>1, PartChars, Zenon
  <2> QED
    BY <2>1, <2>2, <2>3
<1>8. "#" \in ToSet(u)
  <2>1. 2 \in 2 .. i
    BY <1>0
  <2> QED
    BY <1>7, <2>1
<1>9. ~TopicThrows(s)
  BY <1>5, <1>6, <1>8 DEF TopicThrows
<1>10. DOMAIN s = 1 .. L /\ ToSet(s) = {s[k] : k \in DOMAIN s} /\ "#" \in ToSet(s)
  <2>1. DOMAIN s = 1 .. L /\ 2 \in 1 .. L
    BY <1>0, LenProperties
  <2> QED
    BY <2>1 DEF ToSet
<1>11. CASE ":" \in ToSet(s)
  <2>1. TopicChannel(s) = EraseText(u, <<"#">>)
    BY <1>5, <1>6, <1>10, <1>11, Zenon DEF TopicChannel
  <2>2. 0 \in 0 .. Len(u) - 1 /\ u[0 + 1] = "#" /\ \A j \in 1 .. 0 : u[j] # "#"
    BY <1>0, <1>7
  <2>3. EraseText(u, <<"#">>) = SubSeq(u, 1, 0) \o SubSeq(u, 0 + 2, Len(u))
    BY <1>7, <2>2, EraseChar
  <2>4. SubSeq(u, 1, 0) = <<>>
    BY SubSeqEmpty
  <2>5. SubSeq(u, 2, i - 1) = SubSeq(s, 2 + 2 - 1, 2 + (i - 1) - 1)
    <3>1. 2 \in 1 .. i - 2 + 2 /\ i - 1 \in 2 - 1 .. i - 2 + 1
      BY <1>0
    <3> QED
      BY <1>6, <1>7, <3>1, PartOfPart
  <2>6. 2 + 2 - 1 = 3 /\ 2 + (i - 1) - 1 = i /\ 0 + 2 = 2
    BY <1>0
  <2>7. SubSeq(s, 3, i) \in Seq(Chars)
    <3>1. 3 \in 1 .. Len(s) + 1 /\ i \in 3 - 1 .. Len(s)
      BY <1>0
    <3> QED
      BY <3>1, PartLemma DEF Texts
  <2>8. <<>> \o SubSeq(s, 3, i) = SubSeq(s, 3, i)
    BY <2>7, ConcatEmptySeq
  <2> QED
    BY <1>7, <1>9, <2>1, <2>3, <2>4, <2>5, <2>6, <2>8, Zenon
<1>12. CASE ":" \notin ToSet(s)
  <2>1. i = L
    <3>1. ASSUME i + 2 <= L, s[i + 2] = ":" PROVE FALSE
      <4>1. PICK l : l = i + 2
        OBVIOUS
      <4>2. l \in 1 .. L /\ s[l] = ":"
        BY <1>0, <3>1, <4>1, SMTT(30)
      <4> QED
        BY <1>10, <1>12, <4>2
    <3> QED
      BY <3>1, SMTT(30)
  <2>2. TopicChannel(s) = ChannelName(s)
    BY <1>10, <1>12, Zenon DEF TopicChannel
  <2>3. FirstIn(s, WordChars) = 3
    <3>1. PICK f : f = FirstIn(s, WordChars)
      OBVIOUS
    <3>2. \/ f = 0 /\ \A j \in 1 .. L : s[j] \notin WordChars
          \/ f \in 1 .. L /\ s[f] \in WordChars
             /\ \A j \in 1 .. f - 1 : s[j] \notin WordChars
      BY <1>0, <3>1, FirstInLemma
    <3>3. f # 0 /\ f # 1 /\ f # 2 /\ ~(3 \in 1 .. f - 1)
      BY <1>0, <1>2, <3>2
    <3> QED
      BY <1>0, <3>1, <3>2, <3>3
  <2>4. PICK w : w = SubSeq(s, 3, i)
    OBVIOUS
  <2>5. Substr(s, 2, NPos) = w
    <3>1. 2 \in 0 .. Len(s) /\ NPos \in Nat /\ NPos >= Len(s) - 2 /\ 2 + 1 = 3
      BY <1>0
    <3>2. Substr(s, 2, NPos) = SubSeq(s, 2 + 1, Len(s))
      BY <3>1, SubstrPart
    <3> QED
      BY <2>1, <2>4, <3>1, <3>2
  <2>6. w \in Seq(Chars) /\ \A k \in 1 .. Len(w) : w[k] \notin Chars \ WordChars
    <3>1. 3 \in 1 .. Len(s) + 1 /\ i \in 3 - 1 .. Len(s)
      BY <1>0
    <3>2. /\ w \in Seq(Chars) /\ Len(w) = i - 3 + 1
          /\ \A k \in 1 .. i - 3 + 1 : w[k] = s[3 + k - 1]
      BY <2>4, <3>1, PartLemma DEF Texts
    <3>3. ASSUME NEW k \in 1 .. Len(w) PROVE w[k] \in WordChars
      <4>1. PICK l : l = 3 + k - 1
        OBVIOUS
      <4>2. l \in 3 .. i /\ w[k] = s[l]
        BY <1>0, <3>2, <4>1
      <4> QED
        BY <4>2
    <3> QED
      BY <3>2, <3>3
  <2>7. FirstIn(w, Chars \ WordChars) = 0
    <3>1. PICK f : f = FirstIn(w, Chars \ WordChars)
      OBVIOUS
    <3>2. \/ f = 0
          \/ f \in 1 .. Len(w) /\ w[f] \in Chars \ WordChars
      BY <2>6, <3>1, FirstInLemma
    <3> QED
      BY <2>6, <3>1, <3>2
  <2>8. ChannelName(s) = w
    <3>1. Substr(s, FirstIn(s, WordChars) - 1, NPos) = w
      BY <2>3, <2>5
    <3> QED
      BY <2>7, <3>1, Zenon DEF ChannelName
  <2> QED
    BY <1>9, <2>2, <2>4, <2>8
<1> QED
  BY <1>11, <1>12

----------------------------------------------------------------------------
(* splitMessage *)

SplitStates == [lines : Seq(Texts), rest : Texts]

\* What one turn does, at the first newline.
LEMMA TurnLemma ==
  ASSUME NEW s \in SplitStates
  PROVE  /\ SplitTurn(s) \in SplitStates
         /\ \/ SplitTurn(s) = s /\ \A j \in 1 .. Len(s.rest) : s.rest[j] # "lf"
            \/ \E n \in 0 .. Len(s.rest) - 1 :
                 /\ s.rest[n + 1] = "lf"
                 /\ \A j \in 1 .. n : s.rest[j] # "lf"
                 /\ SplitTurn(s) = [lines |-> Append(s.lines, SubSeq(s.rest, 1, n)),
                                    rest |-> SubSeq(s.rest, n + 2, Len(s.rest))]
<1> DEFINE r == s.rest
<1>0. /\ r \in Texts /\ s.lines \in Seq(Texts)
      /\ Len(r) \in Nat /\ Len(r) < NPos /\ NPos \in Int
  BY LenProperties, NPosIsInt DEF SplitStates, Texts
<1> HIDE DEF r
<1>1. CASE Find(r, "lf") = NPos /\ \A j \in 1 .. Len(r) : r[j] # "lf"
  BY <1>1 DEF SplitTurn, r
<1>2. CASE /\ Find(r, "lf") \in 0 .. Len(r) - 1
           /\ r[Find(r, "lf") + 1] = "lf"
           /\ \A j \in 1 .. Find(r, "lf") : r[j] # "lf"
  <2>1. PICK n : n = Find(r, "lf")
    OBVIOUS
  <2>2. /\ n \in 0 .. Len(r) - 1 /\ n \in 0 .. Len(r) /\ n # NPos
        /\ r[n + 1] = "lf" /\ \A j \in 1 .. n : r[j] # "lf"
    BY <1>0, <1>2, <2>1
  <2>3. Before(r, "lf") = SubSeq(r, 1, n)
    BY <1>0, <2>2, BeforeIs
  <2>4. /\ n + 1 \in 0 .. Len(r) /\ NPos \in Nat /\ NPos >= Len(r) - (n + 1)
        /\ n + 1 + 1 = n + 2
    BY <1>0, <2>2
  <2>5. Substr(r, n + 1, NPos) = SubSeq(r, n + 1 + 1, Len(r))
    BY <1>0, <2>4, SubstrPart
  <2>6. SplitTurn(s) = [lines |-> Append(s.lines, SubSeq(r, 1, n)),
                        rest |-> SubSeq(r, n + 2, Len(r))]
    <3>1. SplitTurn(s) = [lines |-> Append(s.lines, Before(r, "lf")),
                          rest |-> Substr(r, n + 1, NPos)]
      BY <2>1, <2>2, Zenon DEF SplitTurn, r
    <3> QED
      BY <2>3, <2>4, <2>5, <3>1
  <2>7. SubSeq(r, 1, n) \in Texts
    <3>1. 1 \in 1 .. Len(r) + 1 /\ n \in 1 - 1 .. Len(r)
      BY <1>0, <2>2
    <3> QED
      BY <1>0, <3>1, PartLemma
  <2>8. SubSeq(r, n + 2, Len(r)) \in Texts
    <3>1. n + 2 \in 1 .. Len(r) + 1 /\ Len(r) \in n + 2 - 1 .. Len(r)
      BY <1>0, <2>2
    <3> QED
      BY <1>0, <3>1, PartLemma
  <2>9. SplitTurn(s) \in SplitStates
    <3>1. Append(s.lines, SubSeq(r, 1, n)) \in Seq(Texts)
      BY <1>0, <2>7, AppendProperties
    <3> QED
      BY <2>6, <2>8, <3>1 DEF SplitStates
  <2> QED
    BY <2>2, <2>6, <2>9 DEF r
<1> QED
  BY <1>0, <1>1, <1>2, FindLemma

\* The turns can follow each other for ever.
LEMMA TurnsIterate ==
  ASSUME NEW start \in SplitStates
  PROVE  \E f \in [Nat -> SplitStates] :
           f[0] = start /\ \A n \in Nat : f[n + 1] = SplitTurn(f[n])
<1> DEFINE step == [s \in SplitStates |-> SplitTurn(s)]
<1>1. step \in [SplitStates -> SplitStates]
  BY TurnLemma
<1>2. \A s \in SplitStates : step[s] = SplitTurn(s)
  OBVIOUS
<1> HIDE DEF step
<1>3. PICK f \in [Nat -> SplitStates] : f[0] = start /\ \A n \in Nat : f[n + 1] = step[f[n]]
  <2>1. HasIterates(SplitStates, start, step)
    BY <1>1, Iteration
  <2> QED
    BY <2>1 DEF HasIterates
<1> QED
  BY <1>2, <1>3

\* The loop runs: SplitRun is defined by its recursion.
LEMMA SplitRunLemma ==
  ASSUME NEW msg \in Texts
  PROVE  /\ SplitRun(msg)[0] = [lines |-> <<>>, rest |-> msg]
         /\ \A k \in Nat : /\ SplitRun(msg)[k] \in SplitStates
                           /\ SplitRun(msg)[k + 1] = SplitTurn(SplitRun(msg)[k])
<1> DEFINE start == [lines |-> <<>>, rest |-> msg]
           Def(g) == g = [k \in Nat |-> IF k = 0 THEN start ELSE SplitTurn(g[k - 1])]
<1>1. start \in SplitStates
  BY EmptySeq DEF SplitStates
<1> HIDE DEF start
<1>2. \E g : Def(g)
  <2>1. PICK f \in [Nat -> SplitStates] :
          f[0] = start /\ \A n \in Nat : f[n + 1] = SplitTurn(f[n])
    BY <1>1, TurnsIterate
  <2>2. ASSUME NEW k \in Nat
        PROVE  f[k] = IF k = 0 THEN start ELSE SplitTurn(f[k - 1])
    <3>1. CASE k = 0
      BY <2>1, <3>1
    <3>2. CASE k # 0
      <4>1. k - 1 \in Nat /\ k - 1 + 1 = k
        BY <3>2
      <4>2. f[k - 1 + 1] = SplitTurn(f[k - 1]) /\ f[k - 1] \in SplitStates
        BY <2>1, <4>1
      <4> QED
        BY <3>2, <4>1, <4>2
    <3> QED
      BY <3>1, <3>2
  <2>3. Def(f)
    BY <2>2
  <2> QED
    BY <2>3
<1>3. SplitRun(msg) = CHOOSE g : Def(g)
  BY DEF SplitRun, start
<1>4. PICK g : g = SplitRun(msg)
  OBVIOUS
<1>5. Def(g)
  <2> HIDE DEF Def
  <2> QED
    BY <1>2, <1>3, <1>4
<1>6. g[0] = start
  BY <1>5
<1>7. ASSUME NEW k \in Nat PROVE g[k + 1] = SplitTurn(g[k])
  <2>1. k + 1 \in Nat /\ k + 1 # 0 /\ k + 1 - 1 = k
    OBVIOUS
  <2> QED
    BY <1>5, <2>1
<1>8. {k \in Nat : g[k] \in SplitStates} = Nat
  <2> DEFINE S == {k \in Nat : g[k] \in SplitStates}
  <2>1. 0 \in S /\ S \in SUBSET Nat
    BY <1>1, <1>6
  <2>2. ASSUME NEW k \in S PROVE k + 1 \in S
    BY <1>7, TurnLemma, SMTT(30)
  <2> HIDE DEF S
  <2>3. S = Nat
    BY <2>1, <2>2, SetInduction
  <2> QED
    BY <2>3 DEF S
<1> QED
  BY <1>4, <1>6, <1>7, <1>8 DEF start

\* Where the newlines are behind place b of a text, as far as its place e.
NoNewline(msg, b, e) == \A j \in b + 1 .. e : msg[j] # "lf"

NextNewline(msg, b, e, n) ==
  n \in b + 1 .. e /\ msg[n] = "lf" /\ NoNewline(msg, b, n - 1)

\* The next line is cut off at n.
CutOff(msg, lines, b, e, n) ==
  [lines |-> Append(lines, SubSeq(msg, b + 1, n - 1)), rest |-> SubSeq(msg, n + 1, e)]

\* One turn, for what is left of a text between two places in it.
LEMMA TurnOfPart ==
  ASSUME NEW msg \in Texts, NEW e \in 0 .. Len(msg), NEW b \in 0 .. e,
         NEW s \in SplitStates, s.rest = SubSeq(msg, b + 1, e)
  PROVE  \/ SplitTurn(s) = s /\ NoNewline(msg, b, e)
         \/ \E n : NextNewline(msg, b, e, n) /\ SplitTurn(s) = CutOff(msg, s.lines, b, e, n)
<1>0. Len(msg) \in Nat
  BY LenProperties DEF Texts
<1>1. PICK r : r = SubSeq(msg, b + 1, e)
  OBVIOUS
<1>2. b + 1 \in 1 .. Len(msg) + 1 /\ e \in b + 1 - 1 .. Len(msg) /\ e - (b + 1) + 1 = e - b
  BY <1>0
<1>3. r \in Texts /\ Len(r) = e - b /\ \A k \in 1 .. e - b : r[k] = msg[b + 1 + k - 1]
  BY <1>1, <1>2, PartLemma
<1>4. s.rest = r
  BY <1>1
<1>5. ASSUME NEW j \in b + 1 .. e PROVE j - b \in 1 .. e - b /\ r[j - b] = msg[j]
  <2>1. PICK k : k = j - b
    OBVIOUS
  <2>2. k \in 1 .. e - b /\ b + 1 + k - 1 = j
    BY <1>0, <2>1
  <2> QED
    BY <1>3, <2>1, <2>2
<1>6. CASE SplitTurn(s) = s /\ \A j \in 1 .. Len(r) : r[j] # "lf"
  <2>1. \A j \in b + 1 .. e : msg[j] # "lf"
    BY <1>3, <1>5, <1>6
  <2> QED
    BY <1>6, <2>1 DEF NoNewline
<1>7. ASSUME NEW n \in 0 .. Len(r) - 1,
             r[n + 1] = "lf", \A j \in 1 .. n : r[j] # "lf",
             SplitTurn(s) = [lines |-> Append(s.lines, SubSeq(r, 1, n)),
                             rest |-> SubSeq(r, n + 2, Len(r))]
      PROVE  \E m : NextNewline(msg, b, e, m) /\ SplitTurn(s) = CutOff(msg, s.lines, b, e, m)
  <2>1. PICK m : m = b + 1 + n
    OBVIOUS
  <2>2. m \in b + 1 .. e /\ m - b = n + 1 /\ m - 1 = b + n
    BY <1>0, <1>3, <2>1
  <2>3. msg[m] = "lf"
    BY <1>5, <1>7, <2>2
  <2>4. ASSUME NEW j \in b + 1 .. m - 1 PROVE msg[j] # "lf"
    <3>1. j \in b + 1 .. e /\ j - b \in 1 .. n
      BY <1>0, <2>2
    <3> QED
      BY <1>5, <1>7, <3>1
  <2>5. SubSeq(r, 1, n) = SubSeq(msg, b + 1, m - 1)
    <3>1. PICK f : f = 1
      OBVIOUS
    <3>2. /\ f \in 1 .. e - (b + 1) + 2 /\ n \in f - 1 .. e - (b + 1) + 1
          /\ b + 1 + f - 1 = b + 1 /\ b + 1 + n - 1 = m - 1
      BY <1>0, <1>3, <2>2, <3>1
    <3>3. SubSeq(r, f, n) = SubSeq(msg, b + 1 + f - 1, b + 1 + n - 1)
      BY <1>1, <1>2, <3>2, PartOfPart
    <3> QED
      BY <3>1, <3>2, <3>3
  <2>6. SubSeq(r, n + 2, Len(r)) = SubSeq(msg, m + 1, e)
    <3>1. PICK f, l : f = n + 2 /\ l = Len(r)
      OBVIOUS
    <3>2. /\ f \in 1 .. e - (b + 1) + 2 /\ l \in f - 1 .. e - (b + 1) + 1
          /\ b + 1 + f - 1 = m + 1 /\ b + 1 + l - 1 = e
      BY <1>0, <1>3, <2>1, <3>1
    <3>3. SubSeq(r, f, l) = SubSeq(msg, b + 1 + f - 1, b + 1 + l - 1)
      BY <1>1, <1>2, <3>2, PartOfPart
    <3> QED
      BY <3>1, <3>2, <3>3
  <2>7. SplitTurn(s) = CutOff(msg, s.lines, b, e, m)
    BY <1>7, <2>5, <2>6 DEF CutOff
  <2>8. NextNewline(msg, b, e, m)
    BY <2>2, <2>3, <2>4 DEF NextNewline, NoNewline
  <2> QED
    BY <2>7, <2>8
<1> QED
  BY <1>4, <1>6, <1>7, TurnLemma

\* Where line k begins, for lines that end with the newlines at end.
Begin(end, k) == IF k = 1 THEN 1 ELSE end[k - 1] + 1

\* The lines are what stands between the newlines of msg up to its place b,
\* and b is the last of these newlines.
CutAt(msg, lines, b, end) ==
  /\ end \in [1 .. Len(lines) -> 1 .. b]
  /\ b = Begin(end, Len(lines) + 1) - 1
  /\ \A k \in 1 .. Len(lines) :
       /\ Begin(end, k) <= end[k] /\ msg[end[k]] = "lf"
       /\ lines[k] = SubSeq(msg, Begin(end, k), end[k] - 1)
  /\ \A i \in 1 .. b : msg[i] = "lf" => \E k \in 1 .. Len(lines) : i = end[k]

\* The next newline ends the next line.
LEMMA CutLemma ==
  ASSUME NEW msg \in Texts, NEW lines \in Seq(Texts), NEW b \in 0 .. Len(msg), NEW end,
         CutAt(msg, lines, b, end),
         NEW n \in b + 1 .. Len(msg), NextNewline(msg, b, Len(msg), n),
         NEW more, more = Append(lines, SubSeq(msg, b + 1, n - 1))
  PROVE  more \in Seq(Texts) /\ \E e : CutAt(msg, more, n, e)
<1>0. /\ Len(msg) \in Nat /\ Len(lines) \in Nat
      /\ msg[n] = "lf" /\ \A j \in b + 1 .. n - 1 : msg[j] # "lf"
  BY LenProperties DEF Texts, NextNewline, NoNewline
<1>1. PICK line, c : line = SubSeq(msg, b + 1, n - 1) /\ c = Len(lines)
  OBVIOUS
<1>2. b + 1 \in 1 .. Len(msg) + 1 /\ n - 1 \in b + 1 - 1 .. Len(msg)
  BY <1>0
<1>3. line \in Texts
  <2>1. PICK f, l : f = b + 1 /\ l = n - 1
    OBVIOUS
  <2>2. f \in 1 .. Len(msg) + 1 /\ l \in f - 1 .. Len(msg)
    BY <1>2, <2>1
  <2>3. SubSeq(msg, f, l) \in Texts
    BY <2>2, PartLemma
  <2> QED
    BY <1>1, <2>1, <2>3
<1>4. /\ more \in Seq(Texts) /\ Len(more) = c + 1 /\ more[c + 1] = line
      /\ \A k \in 1 .. c : more[k] = lines[k]
  BY <1>1, <1>3, AppendProperties
<1>5. /\ end \in [1 .. c -> 1 .. b] /\ b = Begin(end, c + 1) - 1 /\ c \in Nat
      /\ \A k \in 1 .. c :
           /\ Begin(end, k) <= end[k] /\ msg[end[k]] = "lf"
           /\ lines[k] = SubSeq(msg, Begin(end, k), end[k] - 1)
      /\ \A i \in 1 .. b : msg[i] = "lf" => \E k \in 1 .. c : i = end[k]
  BY <1>0, <1>1 DEF CutAt
<1> DEFINE e == [k \in 1 .. c + 1 |-> IF k = c + 1 THEN n ELSE end[k]]
<1>6. e[c + 1] = n /\ \A k \in 1 .. c : e[k] = end[k]
  BY <1>5
<1>7. e \in [1 .. c + 1 -> 1 .. n]
  BY <1>0, <1>5, SMTT(30)
<1> HIDE DEF e
<1>8. /\ \A k \in 1 .. c + 1 : Begin(e, k) = Begin(end, k)
      /\ Begin(e, c + 1 + 1) = n + 1
  <2>1. ASSUME NEW k \in 1 .. c + 1 PROVE Begin(e, k) = Begin(end, k)
    <3>1. k = 1 \/ k - 1 \in 1 .. c
      BY <1>5
    <3> QED
      BY <1>6, <3>1 DEF Begin
  <2>2. Begin(e, c + 1 + 1) = n + 1
    <3>1. PICK d : d = c + 1 + 1
      OBVIOUS
    <3>2. d # 1 /\ d - 1 = c + 1
      BY <1>5, <3>1
    <3>3. Begin(e, d) = e[d - 1] + 1
      BY <3>2 DEF Begin
    <3> QED
      BY <1>6, <3>1, <3>2, <3>3
  <2> QED
    BY <2>1, <2>2
<1>9. n = Begin(e, c + 1 + 1) - 1
  BY <1>0, <1>8
<1>10. ASSUME NEW k \in 1 .. c + 1
       PROVE  /\ Begin(e, k) <= e[k] /\ msg[e[k]] = "lf"
              /\ more[k] = SubSeq(msg, Begin(e, k), e[k] - 1)
  <2>1. CASE k \in 1 .. c
    BY <1>4, <1>5, <1>6, <1>8, <2>1
  <2>2. CASE k = c + 1
    <3>1. Begin(end, c + 1) \in Int
      <4>1. PICK d : d = c + 1
        OBVIOUS
      <4>2. d = 1 \/ d - 1 \in 1 .. c
        BY <1>5, <4>1
      <4>3. end \in [1 .. c -> 1 .. b]
        BY <1>5
      <4>4. \A j \in 1 .. c : end[j] \in Int
        BY <4>3
      <4>5. Begin(end, d) \in Int
        BY <4>2, <4>4 DEF Begin
      <4> QED
        BY <4>1, <4>5
    <3>2. Begin(e, k) = b + 1 /\ e[k] = n
      <4>1. Begin(e, k) = Begin(end, c + 1) /\ e[k] = n
        BY <1>6, <1>8, <2>2
      <4>2. b = Begin(end, c + 1) - 1
        BY <1>5
      <4> QED
        BY <3>1, <4>1, <4>2
    <3>3. more[k] = SubSeq(msg, Begin(e, k), e[k] - 1)
      BY <1>1, <1>4, <2>2, <3>2
    <3>4. Begin(e, k) <= e[k] /\ msg[e[k]] = "lf"
      BY <1>0, <3>2
    <3> QED
      BY <3>3, <3>4
  <2>3. k \in 1 .. c \/ k = c + 1
    <3>1. c \in Nat
      BY <1>5
    <3> QED
      BY <3>1
  <2> QED
    BY <2>1, <2>2, <2>3
<1>11. ASSUME NEW i \in 1 .. n, msg[i] = "lf" PROVE \E k \in 1 .. c + 1 : i = e[k]
  <2>1. i \in 1 .. b \/ i = n
    BY <1>0, <1>11
  <2>2. CASE i = n
    <3>1. c + 1 \in 1 .. c + 1
      BY <1>5
    <3> QED
      BY <1>6, <2>2, <3>1
  <2>3. CASE i \in 1 .. b
    <3>1. PICK k \in 1 .. c : i = end[k]
      BY <1>5, <1>11, <2>3
    <3>2. k \in 1 .. c + 1
      BY <1>5
    <3> QED
      BY <1>6, <3>1, <3>2
  <2> QED
    BY <2>1, <2>2, <2>3
<1>12. CutAt(msg, more, n, e)
  BY <1>4, <1>7, <1>9, <1>10, <1>11 DEF CutAt
<1> QED
  BY <1>4, <1>12

\* What the loop has come to after k turns: it has cut msg up to some newline,
\* which is not before place k when there is still one to come.
HasCut(msg, k) ==
  LET s == SplitRun(msg)[k]
  IN \E b \in 0 .. Len(msg) :
       /\ s.rest = SubSeq(msg, b + 1, Len(msg))
       /\ \E end : CutAt(msg, s.lines, b, end)
       /\ b >= k \/ NoNewline(msg, b, Len(msg))

\* So it is after any number of turns.
LEMMA HasCutLemma ==
  ASSUME NEW msg \in Texts
  PROVE  \A k \in Nat : HasCut(msg, k)
<1>0. Len(msg) \in Nat /\ msg \in Seq(Chars)
  BY LenProperties DEF Texts
<1>1. HasCut(msg, 0)
  <2>1. PICK s : s = SplitRun(msg)[0]
    OBVIOUS
  <2>2. s = [lines |-> <<>>, rest |-> msg]
    BY <2>1, SplitRunLemma
  <2>3. s.lines = <<>> /\ Len(<<>>) = 0
    BY <2>2, EmptySeq
  <2>4. s.rest = SubSeq(msg, 0 + 1, Len(msg))
    <3>1. SubSeq(msg, 1, Len(msg)) = msg
      BY <1>0, SubSeqFull
    <3> QED
      BY <2>2, <2>3, <3>1
  <2>5. CutAt(msg, <<>>, 0, [k \in 1 .. 0 |-> 0])
    BY <2>3 DEF CutAt, Begin
  <2>6. 0 \in 0 .. Len(msg) /\ 0 >= 0
    BY <1>0
  <2> QED
    BY <2>1, <2>3, <2>4, <2>5, <2>6 DEF HasCut
<1>2. ASSUME NEW k \in Nat, HasCut(msg, k) PROVE HasCut(msg, k + 1)
  <2>1. PICK s, t : s = SplitRun(msg)[k] /\ t = SplitRun(msg)[k + 1]
    OBVIOUS
  <2>2. t = SplitTurn(s) /\ s \in SplitStates
    BY <2>1, SplitRunLemma
  <2>3. PICK b \in 0 .. Len(msg) :
          /\ s.rest = SubSeq(msg, b + 1, Len(msg))
          /\ \E end : CutAt(msg, s.lines, b, end)
          /\ b >= k \/ NoNewline(msg, b, Len(msg))
    BY <1>2, <2>1 DEF HasCut
  <2>4. PICK lines, l : lines = s.lines /\ lines \in Seq(Texts) /\ l = Len(msg)
    BY <2>2 DEF SplitStates
  <2>5. \/ SplitTurn(s) = s /\ NoNewline(msg, b, l)
        \/ \E n : NextNewline(msg, b, l, n) /\ SplitTurn(s) = CutOff(msg, lines, b, l, n)
    <3>1. l \in 0 .. Len(msg) /\ b \in 0 .. l
      BY <1>0, <2>4
    <3>2. s.rest = SubSeq(msg, b + 1, l) /\ s \in SplitStates
      BY <2>2, <2>3, <2>4
    <3>3. \/ SplitTurn(s) = s /\ NoNewline(msg, b, l)
          \/ \E n : NextNewline(msg, b, l, n) /\ SplitTurn(s) = CutOff(msg, s.lines, b, l, n)
      BY <3>1, <3>2, TurnOfPart
    <3> QED
      BY <2>4, <3>3
  <2>6. CASE SplitTurn(s) = s /\ NoNewline(msg, b, l)
    BY <2>1, <2>2, <2>3, <2>4, <2>6 DEF HasCut
  <2>7. ASSUME NEW n, NextNewline(msg, b, l, n), SplitTurn(s) = CutOff(msg, lines, b, l, n)
        PROVE  HasCut(msg, k + 1)
    <3>1. n \in 0 .. Len(msg) /\ n >= k + 1
      <4>1. n \in b + 1 .. l /\ msg[n] = "lf"
        BY <2>7 DEF NextNewline
      <4>2. b >= k
        BY <2>3, <2>4, <4>1 DEF NoNewline
      <4> QED
        BY <1>0, <2>4, <4>1, <4>2
    <3>2. PICK more : more = Append(lines, SubSeq(msg, b + 1, n - 1))
      OBVIOUS
    <3>3. t = [lines |-> more, rest |-> SubSeq(msg, n + 1, l)]
      BY <2>2, <2>7, <3>2, Zenon DEF CutOff
    <3>4. \E e : CutAt(msg, more, n, e)
      <4>1. n \in b + 1 .. Len(msg)
        BY <2>4, <2>7 DEF NextNewline
      <4>2. \E end : CutAt(msg, lines, b, end)
        BY <2>3, <2>4
      <4> QED
        BY <2>4, <2>7, <3>2, <4>1, <4>2, CutLemma
    <3>5. t.lines = more /\ t.rest = SubSeq(msg, n + 1, l)
      BY <3>3
    <3> QED
      BY <2>1, <2>4, <3>1, <3>4, <3>5 DEF HasCut
  <2> QED
    BY <2>5, <2>6, <2>7
<1> DEFINE S == {k \in Nat : HasCut(msg, k)}
<1>3. S = Nat
  <2>1. S \in SUBSET Nat /\ 0 \in S /\ \A k \in S : k + 1 \in S
    BY <1>1, <1>2
  <2> HIDE DEF S
  <2> QED
    BY <2>1, SetInduction
<1> QED
  BY <1>3

\* After Len(msg) turns there is no newline left, and nothing changes any more.
LEMMA SplitEnds ==
  ASSUME NEW msg \in Texts
  PROVE  /\ SplitMessage(msg) \in Seq(Texts)
         /\ \E b \in 0 .. Len(msg) :
              /\ \E end : CutAt(msg, SplitMessage(msg), b, end)
              /\ NoNewline(msg, b, Len(msg))
         /\ \A i \in Nat : SplitRun(msg)[Len(msg) + i] = SplitRun(msg)[Len(msg)]
<1>0. Len(msg) \in Nat
  BY LenProperties DEF Texts
<1>1. PICK s, l : s = SplitRun(msg)[l] /\ l = Len(msg)
  OBVIOUS
<1>2. s.lines = SplitMessage(msg) /\ s \in SplitStates
  BY <1>0, <1>1, SplitRunLemma DEF SplitMessage
<1>3. PICK b \in 0 .. l :
        /\ s.rest = SubSeq(msg, b + 1, l)
        /\ \E end : CutAt(msg, s.lines, b, end)
        /\ NoNewline(msg, b, l)
  <2>1. HasCut(msg, l)
    BY <1>0, <1>1, HasCutLemma
  <2>2. PICK b \in 0 .. l :
          /\ s.rest = SubSeq(msg, b + 1, l)
          /\ \E end : CutAt(msg, s.lines, b, end)
          /\ b >= l \/ NoNewline(msg, b, l)
    BY <1>1, <2>1 DEF HasCut
  <2>3. NoNewline(msg, b, l)
    BY <1>0, <1>1, <2>2 DEF NoNewline
  <2> QED
    BY <2>2, <2>3
<1>4. SplitTurn(s) = s
  <2>1. l \in 0 .. Len(msg)
    BY <1>0, <1>1
  <2>2. ~\E n : NextNewline(msg, b, l, n)
    BY <1>3 DEF NoNewline, NextNewline
  <2>3. SplitTurn(s) = s \/ \E n : NextNewline(msg, b, l, n)
    BY <1>2, <1>3, <2>1, TurnOfPart
  <2> QED
    BY <2>2, <2>3
<1>5. \A i \in Nat : SplitRun(msg)[l + i] = s
  <2> DEFINE S == {i \in Nat : SplitRun(msg)[l + i] = s}
  <2>1. 0 \in S
    BY <1>0, <1>1
  <2>2. ASSUME NEW i \in S PROVE i + 1 \in S
    <3>1. l + i \in Nat /\ l + (i + 1) = l + i + 1
      BY <1>0, <1>1
    <3>2. SplitRun(msg)[l + i + 1] = SplitTurn(SplitRun(msg)[l + i])
      BY <3>1, SplitRunLemma
    <3> QED
      BY <1>4, <3>1, <3>2
  <2>3. S \in SUBSET Nat
    OBVIOUS
  <2>4. S = Nat
    <3> HIDE DEF S
    <3> QED
      BY <2>1, <2>2, <2>3, SetInduction
  <2> QED
    BY <2>4
<1> QED
  BY <1>1, <1>2, <1>3, <1>5 DEF SplitStates

\* Lines that begin other lines.
Begins(lines, more) ==
  Len(lines) <= Len(more) /\ \A i \in 1 .. Len(lines) : lines[i] = more[i]

\* Lines begin themselves, and what they begin when it grows.
LEMMA BeginsLemma ==
  ASSUME NEW lines \in Seq(Texts), NEW more \in Seq(Texts)
  PROVE  /\ Begins(more, more)
         /\ Begins(lines, more) => \A line \in Texts : Begins(lines, Append(more, line))
         /\ Begins(lines, more) => IsPrefix(lines, more)
<1>0. Len(lines) \in Nat /\ Len(more) \in Nat
  BY LenProperties
<1>1. Begins(more, more)
  BY <1>0 DEF Begins
<1>2. ASSUME Begins(lines, more), NEW line \in Texts PROVE Begins(lines, Append(more, line))
  <2>1. /\ Len(Append(more, line)) = Len(more) + 1
        /\ \A i \in 1 .. Len(more) : Append(more, line)[i] = more[i]
    BY AppendProperties
  <2>2. Len(lines) <= Len(more) /\ \A i \in 1 .. Len(lines) : lines[i] = more[i]
    BY <1>2 DEF Begins
  <2>3. \A i \in 1 .. Len(lines) : i \in 1 .. Len(more)
    BY <1>0, <2>2
  <2> QED
    BY <1>0, <2>1, <2>2, <2>3 DEF Begins
<1>3. ASSUME Begins(lines, more) PROVE IsPrefix(lines, more)
  <2>1. Len(lines) <= Len(more) /\ \A i \in 1 .. Len(lines) : lines[i] = more[i]
    BY <1>3 DEF Begins
  <2>2. PICK c : c = Len(lines)
    OBVIOUS
  <2>3. /\ \A i \in 1 .. c : lines[i] \in Texts /\ more[i] \in Texts
        /\ 1 - 1 <= c
    BY <1>0, <2>1, <2>2, ElementOfSeq
  <2>4. /\ SubSeq(lines, 1, c) \in Seq(Texts) /\ Len(SubSeq(lines, 1, c)) = c
        /\ \A i \in 1 .. c : SubSeq(lines, 1, c)[i] = lines[i]
    <3>1. SubSeq(lines, 1, c) = lines
      BY <2>2, SubSeqFull
    <3> QED
      BY <2>2, <3>1
  <2>5. /\ SubSeq(more, 1, c) \in Seq(Texts) /\ Len(SubSeq(more, 1, c)) = c
        /\ \A i \in 1 .. c : SubSeq(more, 1, c)[i] = more[i]
    <3>1. PICK f : f = 1
      OBVIOUS
    <3>2. /\ SubSeq(more, f, c) \in Seq(Texts)
          /\ Len(SubSeq(more, f, c)) = IF f <= c THEN c - f + 1 ELSE 0
          /\ \A i \in 1 .. c - f + 1 : SubSeq(more, f, c)[i] = more[f + i - 1]
      BY <1>0, <2>1, <2>2, <2>3, <3>1, SubSeqProperties
    <3>3. \A i \in 1 .. c : f + i - 1 = i /\ i \in 1 .. c - f + 1
      BY <1>0, <2>2, <3>1
    <3>4. (IF f <= c THEN c - f + 1 ELSE 0) = c
      BY <1>0, <2>2, <3>1
    <3> QED
      BY <3>1, <3>2, <3>3, <3>4
  <2>6. SubSeq(lines, 1, c) = SubSeq(more, 1, c)
    BY <2>1, <2>2, <2>4, <2>5, SeqEqual
  <2> QED
    BY <2>1, <2>2, <2>6 DEF IsPrefix
<1> QED
  BY <1>1, <1>2, <1>3

\* After k turns, over the first n characters of a text and over the whole of
\* it: the two loops have cut off the same, or the first is at its end and has
\* found the first lines of the second.
InStep(msg, n, k) ==
  LET s == SplitRun(SubSeq(msg, 1, n))[k]
      t == SplitRun(msg)[k]
  IN \/ /\ s.lines = t.lines
        /\ \E b \in 0 .. n :
             s.rest = SubSeq(msg, b + 1, n) /\ t.rest = SubSeq(msg, b + 1, Len(msg))
     \/ SplitTurn(s) = s /\ Begins(s.lines, t.lines)

\* So they go on, turn after turn.
LEMMA InStepLemma ==
  ASSUME NEW msg \in Texts, NEW n \in 0 .. Len(msg)
  PROVE  \A k \in Nat : InStep(msg, n, k)
<1>0. Len(msg) \in Nat /\ msg \in Seq(Chars)
  BY LenProperties DEF Texts
<1>1. PICK part, l : part = SubSeq(msg, 1, n) /\ l = Len(msg)
  OBVIOUS
<1>2. part \in Texts
  <2>1. PICK f : f = 1
    OBVIOUS
  <2>2. f \in 1 .. Len(msg) + 1 /\ n \in f - 1 .. Len(msg)
    BY <1>0, <2>1
  <2> QED
    BY <1>1, <2>1, <2>2, PartLemma
<1>3. InStep(msg, n, 0)
  <2>1. PICK s, t : s = SplitRun(part)[0] /\ t = SplitRun(msg)[0]
    OBVIOUS
  <2>2. s = [lines |-> <<>>, rest |-> part] /\ t = [lines |-> <<>>, rest |-> msg]
    BY <1>2, <2>1, SplitRunLemma
  <2>3. s.lines = t.lines /\ s.rest = part /\ t.rest = msg
    BY <2>2
  <2>4. SubSeq(msg, 1, l) = msg
    BY <1>0, <1>1, SubSeqFull
  <2>5. 0 \in 0 .. n /\ 0 + 1 = 1
    BY <1>0
  <2> QED
    BY <1>1, <2>1, <2>3, <2>4, <2>5 DEF InStep
<1>4. ASSUME NEW k \in Nat, InStep(msg, n, k) PROVE InStep(msg, n, k + 1)
  <2>1. PICK s, t : s = SplitRun(part)[k] /\ t = SplitRun(msg)[k]
    OBVIOUS
  <2>2. PICK u, v : u = SplitRun(part)[k + 1] /\ v = SplitRun(msg)[k + 1]
    OBVIOUS
  <2>3. u = SplitTurn(s) /\ v = SplitTurn(t) /\ s \in SplitStates /\ t \in SplitStates
    BY <1>2, <2>1, <2>2, SplitRunLemma
  <2>4. s.lines \in Seq(Texts) /\ t.lines \in Seq(Texts)
    BY <2>3 DEF SplitStates
  <2>5. v.lines = t.lines \/ \E line \in Texts : v.lines = Append(t.lines, line)
    <3>1. CASE SplitTurn(t) = t
      BY <2>3, <3>1
    <3>2. ASSUME NEW x \in 0 .. Len(t.rest) - 1,
                 SplitTurn(t) = [lines |-> Append(t.lines, SubSeq(t.rest, 1, x)),
                                 rest |-> SubSeq(t.rest, x + 2, Len(t.rest))]
          PROVE  \E line \in Texts : v.lines = Append(t.lines, line)
      <4>1. PICK f, r : f = 1 /\ r = t.rest
        OBVIOUS
      <4>2. r \in Texts /\ Len(r) \in Nat
        BY <2>3, <4>1, LenProperties DEF SplitStates, Texts
      <4>3. f \in 1 .. Len(r) + 1 /\ x \in f - 1 .. Len(r)
        BY <4>1, <4>2
      <4>4. SubSeq(r, f, x) \in Texts
        BY <4>2, <4>3, PartLemma
      <4>5. v.lines = Append(t.lines, SubSeq(t.rest, 1, x))
        BY <2>3, <3>2
      <4> QED
        BY <4>1, <4>4, <4>5
    <3> QED
      BY <2>3, <3>1, <3>2, TurnLemma
  <2>6. ASSUME NEW lines \in Seq(Texts), Begins(lines, t.lines)
         PROVE  Begins(lines, v.lines)
    <3>1. CASE v.lines = t.lines
      BY <2>6, <3>1
    <3>2. ASSUME NEW line \in Texts, v.lines = Append(t.lines, line)
          PROVE  Begins(lines, v.lines)
      <4>1. Begins(lines, Append(t.lines, line))
        BY <2>4, <2>6, BeginsLemma
      <4> QED
        BY <3>2, <4>1
    <3> QED
      BY <2>5, <3>1, <3>2
  <2>7. CASE SplitTurn(s) = s /\ Begins(s.lines, t.lines)
    <3>1. u = s
      BY <2>3, <2>7
    <3>2. Begins(u.lines, v.lines)
      BY <2>4, <2>6, <2>7, <3>1
    <3>3. SplitTurn(u) = u
      BY <2>7, <3>1
    <3> QED
      BY <1>1, <2>2, <3>2, <3>3 DEF InStep
  <2>8. ASSUME s.lines = t.lines, NEW b \in 0 .. n,
               s.rest = SubSeq(msg, b + 1, n), t.rest = SubSeq(msg, b + 1, l)
        PROVE  InStep(msg, n, k + 1)
    <3>1. /\ n \in 0 .. Len(msg) /\ b \in 0 .. n
          /\ l \in 0 .. Len(msg) /\ b \in 0 .. l
      BY <1>0, <1>1
    <3>2. \/ SplitTurn(s) = s /\ NoNewline(msg, b, n)
          \/ \E x : NextNewline(msg, b, n, x) /\ SplitTurn(s) = CutOff(msg, s.lines, b, n, x)
      BY <2>3, <2>8, <3>1, TurnOfPart
    <3>3. \/ SplitTurn(t) = t /\ NoNewline(msg, b, l)
          \/ \E x : NextNewline(msg, b, l, x) /\ SplitTurn(t) = CutOff(msg, t.lines, b, l, x)
      BY <2>3, <2>8, <3>1, TurnOfPart
    <3>4. CASE SplitTurn(s) = s
      <4>1. u = s /\ SplitTurn(u) = u
        BY <2>3, <3>4
      <4>2. Begins(t.lines, t.lines)
        BY <2>4, BeginsLemma
      <4>3. Begins(u.lines, v.lines)
        BY <2>4, <2>6, <2>8, <4>1, <4>2
      <4> QED
        BY <1>1, <2>2, <4>1, <4>3 DEF InStep
    <3>5. ASSUME NEW x, NextNewline(msg, b, n, x), SplitTurn(s) = CutOff(msg, s.lines, b, n, x)
          PROVE  InStep(msg, n, k + 1)
      <4>1. x \in b + 1 .. n /\ msg[x] = "lf" /\ \A j \in b + 1 .. x - 1 : msg[j] # "lf"
        BY <3>5 DEF NextNewline, NoNewline
      <4>2. x \in b + 1 .. l /\ x \in 0 .. n
        BY <1>0, <1>1, <4>1
      <4>3. ~NoNewline(msg, b, l)
        BY <4>1, <4>2 DEF NoNewline
      <4>4. PICK y : NextNewline(msg, b, l, y) /\ SplitTurn(t) = CutOff(msg, t.lines, b, l, y)
        BY <3>3, <4>3
      <4>5. y \in b + 1 .. l /\ msg[y] = "lf" /\ \A j \in b + 1 .. y - 1 : msg[j] # "lf"
        BY <4>4 DEF NextNewline, NoNewline
      <4>6. ~(x \in b + 1 .. y - 1) /\ ~(y \in b + 1 .. x - 1)
        BY <4>1, <4>5
      <4>7. x = y
        BY <1>0, <1>1, <4>1, <4>5, <4>6
      <4>8. u = CutOff(msg, t.lines, b, n, x) /\ v = CutOff(msg, t.lines, b, l, x)
        BY <2>3, <2>8, <3>5, <4>4, <4>7
      <4>9. /\ u.lines = v.lines
            /\ u.rest = SubSeq(msg, x + 1, n) /\ v.rest = SubSeq(msg, x + 1, l)
        BY <4>8 DEF CutOff
      <4> QED
        BY <1>1, <2>2, <4>2, <4>9 DEF InStep
    <3> QED
      BY <3>2, <3>4, <3>5
  <2>9. \/ SplitTurn(s) = s /\ Begins(s.lines, t.lines)
        \/ /\ s.lines = t.lines
           /\ \E b \in 0 .. n : s.rest = SubSeq(msg, b + 1, n) /\ t.rest = SubSeq(msg, b + 1, l)
    BY <1>1, <1>4, <2>1 DEF InStep
  <2> QED
    BY <2>7, <2>8, <2>9
<1> DEFINE S == {k \in Nat : InStep(msg, n, k)}
<1>5. S = Nat
  <2>1. S \in SUBSET Nat /\ 0 \in S /\ \A k \in S : k + 1 \in S
    BY <1>3, <1>4
  <2> HIDE DEF S
  <2> QED
    BY <2>1, SetInduction
<1> QED
  BY <1>5

\* The lines of the first characters of a text are its first lines.
LEMMA PrefixLemma ==
  ASSUME NEW msg \in Texts, NEW n \in 0 .. Len(msg)
  PROVE  IsPrefix(SplitMessage(SubSeq(msg, 1, n)), SplitMessage(msg))
<1>0. Len(msg) \in Nat
  BY LenProperties DEF Texts
<1>1. PICK part, l, f : part = SubSeq(msg, f, n) /\ l = Len(msg) /\ f = 1
  OBVIOUS
<1>2. part \in Texts /\ Len(part) = n
  <2>1. f \in 1 .. Len(msg) + 1 /\ n \in f - 1 .. Len(msg) /\ n - f + 1 = n
    BY <1>0, <1>1
  <2> QED
    BY <1>1, <2>1, PartLemma
<1>3. PICK s, t : s = SplitRun(part)[l] /\ t = SplitRun(msg)[l]
  OBVIOUS
<1>4. /\ s.lines \in Seq(Texts) /\ t.lines \in Seq(Texts)
      /\ t.lines = SplitMessage(msg)
  BY <1>0, <1>1, <1>2, <1>3, SplitRunLemma DEF SplitStates, SplitMessage
<1>5. s.lines = SplitMessage(part)
  <2>1. PICK i : i = l - n
    OBVIOUS
  <2>2. i \in Nat /\ n + i = l
    BY <1>0, <1>1, <2>1
  <2>3. SplitRun(part)[n + i] = SplitRun(part)[n]
    BY <1>2, <2>2, SplitEnds
  <2> QED
    BY <1>2, <1>3, <2>2, <2>3 DEF SplitMessage
<1>6. Begins(s.lines, t.lines)
  <2>1. InStep(msg, n, l)
    BY <1>0, <1>1, InStepLemma
  <2>2. s.lines = t.lines \/ Begins(s.lines, t.lines)
    BY <1>1, <1>3, <2>1 DEF InStep
  <2> QED
    BY <1>4, <2>2, BeginsLemma
<1>7. IsPrefix(s.lines, t.lines)
  BY <1>4, <1>6, BeginsLemma
<1> QED
  BY <1>1, <1>4, <1>5, <1>7

\* A text has a carriage return and a newline in a row when one of its lines
\* ends with a carriage return.
LEMMA IsParsedLemma ==
  ASSUME NEW msg \in Texts, NEW lines \in Seq(Texts), NEW b \in 0 .. Len(msg), NEW end,
         CutAt(msg, lines, b, end), NoNewline(msg, b, Len(msg))
  PROVE  IsParsed(msg)
           <=> \E k \in DOMAIN lines : lines[k] # <<>> /\ Last(lines[k]) = "cr"
<1>0. Len(msg) \in Nat /\ Len(lines) \in Nat /\ DOMAIN lines = 1 .. Len(lines)
  BY LenProperties DEF Texts
<1>1. PICK c : c = Len(lines)
  OBVIOUS
<1>2. /\ c \in Nat /\ end \in [1 .. c -> 1 .. b]
      /\ \A k \in 1 .. c :
           /\ Begin(end, k) <= end[k] /\ msg[end[k]] = "lf"
           /\ lines[k] = SubSeq(msg, Begin(end, k), end[k] - 1)
      /\ \A i \in 1 .. b : msg[i] = "lf" => \E k \in 1 .. c : i = end[k]
  BY <1>0, <1>1 DEF CutAt
<1>3. \A k \in 1 .. c : end[k] \in 1 .. Len(msg)
  BY <1>0, <1>2
<1>4. ASSUME NEW k \in 1 .. c
      PROVE  /\ Begin(end, k) \in 1 .. end[k]
             /\ Begin(end, k) = 1 \/ msg[Begin(end, k) - 1] = "lf"
  <2>1. CASE k = 1
    BY <1>2, <1>3, <2>1 DEF Begin
  <2>2. CASE k # 1
    <3>1. PICK j : j = k - 1
      OBVIOUS
    <3>2. j \in 1 .. c
      BY <1>2, <2>2, <3>1
    <3>3. Begin(end, k) = end[j] + 1 /\ end[j] \in 1 .. Len(msg) /\ msg[end[j]] = "lf"
      BY <1>2, <1>3, <2>2, <3>1, <3>2 DEF Begin
    <3>4. Begin(end, k) <= end[k] /\ end[k] \in 1 .. Len(msg)
      BY <1>2, <1>3
    <3>5. PICK x, y : x = end[j] /\ y = Begin(end, k)
      OBVIOUS
    <3>6. y = x + 1 /\ x \in 1 .. Len(msg) /\ msg[x] = "lf" /\ y <= end[k]
      BY <3>3, <3>4, <3>5
    <3>7. y - 1 = x /\ y \in 1 .. end[k]
      BY <1>0, <3>4, <3>6
    <3> QED
      BY <3>5, <3>6, <3>7
  <2> QED
    BY <2>1, <2>2
<1>5. ASSUME NEW k \in 1 .. c
      PROVE  /\ lines[k] # <<>> <=> Begin(end, k) < end[k]
             /\ Begin(end, k) < end[k] => Last(lines[k]) = msg[end[k] - 1]
  <2>1. PICK f, l : f = Begin(end, k) /\ l = end[k] - 1
    OBVIOUS
  <2>2. /\ f \in 1 .. Len(msg) + 1 /\ l \in f - 1 .. Len(msg)
        /\ Begin(end, k) < end[k] <=> f <= l
    BY <1>0, <1>3, <1>4, <2>1
  <2>3. lines[k] = SubSeq(msg, f, l)
    BY <1>2, <2>1
  <2>4. lines[k] # <<>> <=> f <= l
    <3>1. SubSeq(msg, f, l) = <<>> <=> l = f - 1
      BY <2>2, PartChars
    <3>2. l = f - 1 <=> ~(f <= l)
      BY <1>0, <2>2
    <3> QED
      BY <2>3, <3>1, <3>2
  <2>5. ASSUME f <= l PROVE Last(lines[k]) = msg[l]
    <3>1. PICK len : len = l - f + 1
      OBVIOUS
    <3>2. len \in 1 .. l - f + 1 /\ f + len - 1 = l
      BY <1>0, <2>2, <2>5, <3>1
    <3>3. /\ Len(SubSeq(msg, f, l)) = len
          /\ SubSeq(msg, f, l)[len] = msg[f + len - 1]
      BY <2>2, <3>1, <3>2, PartLemma
    <3> QED
      BY <2>3, <3>2, <3>3 DEF Last
  <2> QED
    BY <2>1, <2>2, <2>4, <2>5
<1>6. ASSUME NEW k \in 1 .. c, lines[k] # <<>>, Last(lines[k]) = "cr"
      PROVE  IsParsed(msg)
  <2>1. Begin(end, k) < end[k] /\ msg[end[k] - 1] = "cr" /\ msg[end[k]] = "lf"
    BY <1>2, <1>5, <1>6
  <2>2. PICK i : i = end[k] - 1
    OBVIOUS
  <2>3. i \in 1 .. Len(msg) - 1 /\ i + 1 = end[k]
    BY <1>0, <1>3, <1>4, <2>1, <2>2, SMTT(30)
  <2> QED
    BY <2>1, <2>2, <2>3 DEF IsParsed
<1>7. ASSUME NEW i \in 1 .. Len(msg) - 1, msg[i] = "cr", msg[i + 1] = "lf"
      PROVE  \E k \in 1 .. c : lines[k] # <<>> /\ Last(lines[k]) = "cr"
  <2>1. PICK l : l = i + 1
    OBVIOUS
  <2>2. l \in 1 .. Len(msg) /\ msg[l] = "lf" /\ l - 1 = i
    BY <1>0, <1>7, <2>1
  <2>3. l \in 1 .. b
    BY <1>0, <2>2 DEF NoNewline
  <2>4. PICK k \in 1 .. c : l = end[k]
    BY <1>2, <2>2, <2>3
  <2>5. Begin(end, k) # l
    <3>1. ASSUME Begin(end, k) = l PROVE FALSE
      <4>1. l = 1 \/ msg[l - 1] = "lf"
        BY <1>4, <3>1
      <4>2. l # 1
        BY <1>0, <2>1
      <4>3. msg[i] = "lf"
        BY <2>2, <4>1, <4>2
      <4> QED
        BY <1>7, <4>3
    <3> QED
      BY <3>1
  <2>6. Begin(end, k) < end[k]
    BY <1>0, <1>4, <2>2, <2>4, <2>5
  <2>7. lines[k] # <<>> /\ Last(lines[k]) = msg[l - 1]
    BY <1>5, <2>4, <2>6
  <2> QED
    BY <1>7, <2>2, <2>7
<1> QED
  BY <1>0, <1>1, <1>6, <1>7 DEF IsParsed

----------------------------------------------------------------------------
(* The properties, of every text that is typed *)

\* Texts stay below npos, which the positions are counted against.
TextInv == kind \in DOMAIN Kinds /\ text \in Texts

\* Typing stops long before a text has npos characters.
LEMMA TextInvHolds == ParsingSpec => []TextInv
<1>0. NPos \in Int
  BY NPosIsInt
<1>1. Init => TextInv
  <2> SUFFICES ASSUME Init PROVE TextInv
    OBVIOUS
  <2>1. text \in Seq(Chars) /\ Len(text) + MaxTyped < NPos /\ MaxTyped \in Nat
    BY TextsAssumption DEF Init
  <2>2. Len(text) \in Nat
    BY <2>1, LenProperties
  <2> QED
    BY <1>0, <2>1, <2>2 DEF Init, TextInv, Texts
<1>2. TextInv /\ [Type \/ Enter]_vars => TextInv'
  <2> SUFFICES ASSUME TextInv, [Type \/ Enter]_vars PROVE TextInv'
    OBVIOUS
  <2>1. CASE Type
    <3>1. PICK s \in Kinds[kind].starts : Len(text) - Len(s) < MaxTyped
      BY <2>1 DEF Type
    <3>2. PICK c \in Kinds[kind].typed : text' = Append(text, c)
      BY <2>1 DEF Type
    <3>3. /\ s \in Seq(Chars) /\ Len(s) + MaxTyped < NPos /\ MaxTyped \in Nat
          /\ c \in Chars /\ text \in Seq(Chars)
      BY TextsAssumption, <3>1, <3>2 DEF TextInv, Texts
    <3>4. Len(s) \in Nat /\ Len(text) \in Nat
      BY <3>3, LenProperties
    <3>5. text' \in Seq(Chars) /\ Len(text') = Len(text) + 1
      BY <3>2, <3>3, AppendProperties
    <3> QED
      BY <1>0, <2>1, <3>1, <3>3, <3>4, <3>5 DEF Type, TextInv, Texts
  <2>2. CASE Enter
    <3>1. /\ text' \in Seq(Chars) /\ Len(text') + MaxTyped < NPos /\ MaxTyped \in Nat
          /\ kind' = kind
      BY TextsAssumption, <2>2 DEF Enter, TextInv
    <3>2. Len(text') \in Nat
      BY <3>1, LenProperties
    <3> QED
      BY <1>0, <3>1, <3>2 DEF TextInv, Texts
  <2>3. CASE UNCHANGED vars
    BY <2>3 DEF TextInv, vars
  <2> QED
    BY <2>1, <2>2, <2>3
<1> QED
  BY <1>1, <1>2, PTL DEF ParsingSpec

\* A word, or a stretch of other characters, within a text.
LEMMA StretchLemma ==
  ASSUME NEW s \in Texts, NEW i \in 1 .. Len(s) + 1, NEW j \in i - 1 .. Len(s)
  PROVE  /\ \A set : ToSet(SubSeq(s, i, j)) \subseteq set => \A k \in i .. j : s[k] \in set
         /\ IsWord(SubSeq(s, i, j)) => i <= j /\ \A k \in i .. j : s[k] \in WordChars
<1>1. Len(s) \in Nat
  BY LenProperties DEF Texts
<1> QED
  BY <1>1, PartChars DEF IsWord

\* What follows a word is nothing, or a blank and a colon.
LEMMA BehindLemma ==
  ASSUME NEW s \in Texts, NEW e \in 1 .. Len(s),
         LET behind == SubSeq(s, e + 1, Len(s))
         IN behind = <<>> \/ IsPrefix(<<"sp", ":">>, behind)
  PROVE  \/ e = Len(s)
         \/ e + 2 <= Len(s) /\ s[e + 1] = "sp" /\ s[e + 2] = ":"
<1>1. Len(s) \in Nat
  BY LenProperties DEF Texts
<1>2. PICK behind : behind = SubSeq(s, e + 1, Len(s))
  OBVIOUS
<1>3. e + 1 \in 1 .. Len(s) + 1 /\ Len(s) \in e + 1 - 1 .. Len(s)
  BY <1>1
<1>4. /\ Len(behind) = Len(s) - (e + 1) + 1
      /\ \A k \in 1 .. Len(s) - (e + 1) + 1 : behind[k] = s[e + 1 + k - 1]
      /\ behind = <<>> <=> Len(s) = e + 1 - 1
      /\ behind \in Texts
  <2>1. /\ behind \in Texts /\ Len(behind) = Len(s) - (e + 1) + 1
        /\ \A k \in 1 .. Len(s) - (e + 1) + 1 : behind[k] = s[e + 1 + k - 1]
    BY <1>2, <1>3, PartLemma
  <2>2. Len(<<>>) = 0 /\ (behind # <<>> => Len(behind) \in Nat \ {0})
    BY <2>1, EmptySeq DEF Texts
  <2>3. behind = <<>> <=> Len(s) = e + 1 - 1
    BY <1>1, <2>1, <2>2
  <2> QED
    BY <2>1, <2>3
<1>5. CASE behind = <<>>
  BY <1>1, <1>4, <1>5
<1>6. CASE IsPrefix(<<"sp", ":">>, behind)
  <2>1. PICK t : t = <<"sp", ":">>
    OBVIOUS
  <2>2. Len(t) = 2 /\ t[1] = "sp" /\ t[2] = ":" /\ t \in Seq(Chars)
    BY <2>1, CommandLineAssumption
  <2>3. 2 <= Len(behind) /\ SubSeq(t, 1, 2) = SubSeq(behind, 1, 2)
    BY <1>6, <2>1, <2>2 DEF IsPrefix
  <2>4. t = SubSeq(behind, 1, 2)
    BY <2>2, <2>3, SubSeqFull
  <2>5. /\ Len(behind) \in Nat /\ 1 \in 1 .. Len(behind) + 1
        /\ 2 \in 1 - 1 .. Len(behind) /\ 2 - 1 + 1 = 2
    BY <1>1, <1>4, <2>3
  <2>6. t[1] = behind[1 + 1 - 1] /\ t[2] = behind[1 + 2 - 1]
    BY <1>4, <2>4, <2>5, PartLemma
  <2>7. /\ behind[1] = s[e + 1 + 1 - 1] /\ behind[2] = s[e + 1 + 2 - 1]
        /\ e + 1 + 1 - 1 = e + 1 /\ e + 1 + 2 - 1 = e + 2
    BY <1>1, <1>4, <2>3
  <2> QED
    BY <1>1, <1>4, <2>2, <2>3, <2>6, <2>7
<1> QED
  BY <1>2, <1>5, <1>6

\* Two characters at the start of a text, and behind one of its positions.
LEMMA PairLemma ==
  ASSUME NEW s \in Texts, NEW a \in Chars, NEW b \in Chars, IsPrefix(<<a, b>>, s)
  PROVE  Len(s) >= 2 /\ s[1] = a /\ s[2] = b
<1>1. PICK t : t = <<a, b>>
  OBVIOUS
<1>2. Len(t) = 2 /\ t[1] = a /\ t[2] = b /\ t \in Seq(Chars)
  BY <1>1
<1>3. 2 <= Len(s) /\ SubSeq(t, 1, 2) = SubSeq(s, 1, 2)
  BY <1>1, <1>2 DEF IsPrefix
<1>4. t = SubSeq(s, 1, 2)
  BY <1>2, <1>3, SubSeqFull
<1>5. /\ Len(s) \in Nat /\ 1 \in 1 .. Len(s) + 1 /\ 2 \in 1 - 1 .. Len(s)
      /\ 2 - 1 + 1 = 2 /\ 1 + 1 - 1 = 1 /\ 1 + 2 - 1 = 2
  BY <1>3, LenProperties DEF Texts
<1>6. t[1] = s[1 + 1 - 1] /\ t[2] = s[1 + 2 - 1]
  BY <1>4, <1>5, PartLemma
<1> QED
  BY <1>2, <1>3, <1>5, <1>6

\* The blank and the colon that end the target of PRIVMSG.
LEMMA DelimiterLemma ==
  ASSUME NEW s \in Texts, NEW i \in 2 .. Len(s), OccursAt(s, <<"sp", ":">>, i)
  PROVE  i \in 2 .. Len(s) - 2 /\ s[i + 1] = "sp" /\ s[i + 2] = ":"
<1>0. Len(s) \in Nat
  BY LenProperties DEF Texts
<1>1. PICK t : t = <<"sp", ":">>
  OBVIOUS
<1>2. Len(t) = 2 /\ t[1] = "sp" /\ t[2] = ":"
  BY <1>1
<1>3. Substr(s, i, 2) = t
  BY <1>1, <1>2 DEF OccursAt
<1>4. i + 2 <= Len(s)
  <2>1. ASSUME 2 >= Len(s) - i PROVE i + 2 <= Len(s)
    <3>1. t = SubSeq(s, i + 1, Len(s))
      <4>1. i \in 0 .. Len(s) /\ 2 \in Nat
        BY <1>0
      <4> QED
        BY <1>3, <2>1, <4>1, SubstrPart
    <3>2. i + 1 \in 1 .. Len(s) + 1 /\ Len(s) \in i + 1 - 1 .. Len(s)
      BY <1>0
    <3>3. Len(t) = Len(s) - (i + 1) + 1
      BY <3>1, <3>2, PartLemma
    <3> QED
      BY <1>0, <1>2, <3>3, SMTT(30)
  <2> QED
    BY <1>0, <2>1
<1>5. t = SubSeq(s, i + 1, i + 2)
  <2>1. i \in 0 .. Len(s) /\ 2 \in Nat /\ 2 <= Len(s) - i
    BY <1>0, <1>4
  <2> QED
    BY <1>3, <2>1, SubstrPart
<1>6. /\ i + 1 \in 1 .. Len(s) + 1 /\ i + 2 \in i + 1 - 1 .. Len(s)
      /\ (i + 2) - (i + 1) + 1 = 2
  BY <1>0, <1>4
<1>7. t[1] = s[i + 1 + 1 - 1] /\ t[2] = s[i + 1 + 2 - 1]
  BY <1>5, <1>6, PartLemma
<1>8. i + 1 + 1 - 1 = i + 1 /\ i + 1 + 2 - 1 = i + 2
  BY <1>0
<1> QED
  BY <1>0, <1>2, <1>4, <1>7, <1>8

\* However the stream is cut: a buffer's lines are the first lines of every
\* longer one, they are what its newlines end, and the test for "\r\n" finds
\* exactly the buffers with a complete line.
THEOREM StreamIsCut == ParsingSpec => []StreamIsCutAnywhere
<1>1. TextInv => StreamIsCutAnywhere
  <2> SUFFICES ASSUME TextInv PROVE StreamIsCutAnywhere
    OBVIOUS
  <2>0. text \in Texts /\ Len(text) \in Nat /\ DOMAIN text = 1 .. Len(text)
    BY LenProperties DEF TextInv, Texts
  <2>1. PICK lines, newlines :
          lines = SplitMessage(text) /\ newlines = {i \in DOMAIN text : text[i] = "lf"}
    OBVIOUS
  <2>2. PICK b \in 0 .. Len(text) :
          (\E end : CutAt(text, lines, b, end)) /\ NoNewline(text, b, Len(text))
    BY <2>0, <2>1, SplitEnds
  <2>3. PICK end : CutAt(text, lines, b, end)
    BY <2>2
  <2>4. lines \in Seq(Texts) /\ Len(lines) \in Nat /\ DOMAIN lines = 1 .. Len(lines)
    BY <2>0, <2>1, SplitEnds, LenProperties
  <2>5. /\ end \in [DOMAIN lines -> 1 .. b]
        /\ \A k \in DOMAIN lines :
             /\ Begin(end, k) <= end[k] /\ text[end[k]] = "lf"
             /\ lines[k] = SubSeq(text, Begin(end, k), end[k] - 1)
        /\ \A i \in 1 .. b : text[i] = "lf" => \E k \in DOMAIN lines : i = end[k]
    BY <2>3, <2>4 DEF CutAt
  <2>6. end \in [DOMAIN lines -> newlines]
    <3>1. \A k \in DOMAIN lines : end[k] \in newlines
      BY <2>0, <2>1, <2>5
    <3> QED
      BY <2>5, <3>1
  <2>7. \A i \in newlines : \E k \in DOMAIN lines : i = end[k]
    <3>1. \A i \in newlines : i \in 1 .. b /\ text[i] = "lf"
      BY <2>0, <2>1, <2>2 DEF NoNewline
    <3> QED
      BY <2>5, <3>1
  <2>8. \A n \in 0 .. Len(text) : IsPrefix(SplitMessage(SubSeq(text, 1, n)), lines)
    BY <2>0, <2>1, PrefixLemma
  <2>9. IsParsed(text) <=> \E k \in DOMAIN lines : lines[k] # <<>> /\ Last(lines[k]) = "cr"
    BY <2>0, <2>2, <2>3, <2>4, IsParsedLemma
  <2>10. \E e \in [DOMAIN lines -> newlines] :
          LET begin(k) == IF k = 1 THEN 1 ELSE e[k - 1] + 1
          IN /\ \A i \in newlines : \E k \in DOMAIN lines : i = e[k]
             /\ \A k \in DOMAIN lines :
                  begin(k) <= e[k] /\ lines[k] = SubSeq(text, begin(k), e[k] - 1)
    BY <2>5, <2>6, <2>7 DEF Begin
  <2> QED
    BY <2>1, <2>8, <2>9, <2>10, SMTT(30) DEF StreamIsCutAnywhere
<1> QED
  BY <1>1, TextInvHolds, PTL

\* KICK removes the client its second word names, whatever the lengths of the
\* words are: getKickedName takes this word and nothing else.
THEOREM KickedNameIsRead == ParsingSpec => []KickedIsSecondWord
<1>1. TextInv => KickedIsSecondWord
  <2> SUFFICES ASSUME TextInv, NEW b \in 2 .. Len(text), NEW e \in 3 .. Len(text),
                      text[1] = "sp", text[b] = "sp",
                      ToSet(SubSeq(text, 2, b - 1)) \subseteq WordChars \cup {"#"},
                      IsWord(SubSeq(text, b + 1, e)),
                      LET behind == SubSeq(text, e + 1, Len(text))
                      IN behind = <<>> \/ IsPrefix(<<"sp", ":">>, behind)
               PROVE  KickedName(text) = SubSeq(text, b + 1, e)
    BY DEF KickedIsSecondWord
  <2>0. text \in Texts /\ Len(text) \in Nat
    BY LenProperties DEF TextInv, Texts
  <2>1. e >= b + 1
    <3>1. CASE e >= b
      <4>1. b + 1 \in 1 .. Len(text) + 1 /\ e \in b + 1 - 1 .. Len(text)
        BY <2>0, <3>1
      <4> QED
        BY <2>0, <4>1, StretchLemma
    <3>2. CASE e < b
      <4>1. SubSeq(text, b + 1, e) = <<>>
        BY <2>0, <3>2, SubSeqEmpty
      <4> QED
        BY <4>1 DEF IsWord
    <3> QED
      BY <2>0, <3>1, <3>2
  <2>2. /\ 2 \in 1 .. Len(text) + 1 /\ b - 1 \in 2 - 1 .. Len(text)
        /\ b + 1 \in 1 .. Len(text) + 1 /\ e \in b + 1 - 1 .. Len(text)
        /\ e \in b + 1 .. Len(text) /\ e \in 1 .. Len(text)
    BY <2>0, <2>1
  <2>3. /\ \A k \in 2 .. b - 1 : text[k] \in WordChars \cup {"#"}
        /\ \A k \in b + 1 .. e : text[k] \in WordChars
    <3>1. \A k \in 2 .. b - 1 : text[k] \in WordChars \cup {"#"}
      BY <2>0, <2>2, StretchLemma
    <3>2. \A k \in b + 1 .. e : text[k] \in WordChars
      BY <2>0, <2>2, StretchLemma
    <3> QED
      BY <3>1, <3>2
  <2>4. \/ e = Len(text)
        \/ e + 2 <= Len(text) /\ text[e + 1] = "sp" /\ text[e + 2] = ":"
    BY <2>0, <2>2, BehindLemma
  <2> QED
    BY <2>0, <2>2, <2>3, <2>4, KickedLemma
<1> QED
  BY <1>1, TextInvHolds, PTL

\* PRIVMSG is addressed to its first word, whatever follows the colon.
THEOREM TargetIsRead == ParsingSpec => []TargetIsFirstWord
<1>1. TextInv => TargetIsFirstWord
  <2> SUFFICES ASSUME TextInv, NEW i \in 2 .. Len(text), text[1] = "sp",
                      ToSet(SubSeq(text, 2, i)) \subseteq WordChars \cup {"#"},
                      OccursAt(text, <<"sp", ":">>, i)
               PROVE  Target(text) = SubSeq(text, 2, i)
    BY DEF TargetIsFirstWord
  <2>0. text \in Texts /\ Len(text) \in Nat
    BY LenProperties DEF TextInv, Texts
  <2>1. i \in 2 .. Len(text) - 2 /\ text[i + 1] = "sp" /\ text[i + 2] = ":"
    BY <2>0, DelimiterLemma
  <2>2. \A k \in 2 .. i : text[k] \in WordChars \cup {"#"}
    <3>1. 2 \in 1 .. Len(text) + 1 /\ i \in 2 - 1 .. Len(text)
      BY <2>0
    <3> QED
      BY <2>0, <3>1, StretchLemma
  <2> QED
    BY <2>0, <2>1, <2>2, TargetLemma
<1> QED
  BY <1>1, TextInvHolds, PTL

\* parseCommand separates a line without a prefix at its first blank, and
\* throws exactly when no carriage return is behind it.
THEOREM LinesAreParsed == ParsingSpec => []LinesAreTakenApart
<1>1. TextInv => LinesAreTakenApart
  <2> SUFFICES ASSUME TextInv, NEW blank \in DOMAIN text,
                      text[1] # ":", blank = FirstIn(text, {"sp"}),
                      NEW rest, rest = SubSeq(text, blank, Len(text))
               PROVE  /\ ParseThrows(text) <=> ~Contains(rest, "cr")
                      /\ ~ParseThrows(text) => /\ Name(text) = SubSeq(text, 1, blank - 1)
                                               /\ Message(text) = RemoveFirst(rest, "cr")
    BY DEF LinesAreTakenApart
  <2>0. text \in Texts /\ Len(text) \in Nat /\ blank \in 1 .. Len(text)
    BY LenProperties DEF TextInv, Texts
  <2>1. PICK n \in 0 .. Len(text) :
          /\ n = Len(text) \/ text[n + 1] = "sp"
          /\ \A j \in 1 .. n : text[j] # "sp"
          /\ FirstIn(text, {"sp"}) = IF n = Len(text) THEN 0 ELSE n + 1
    BY <2>0, FirstPlace
  <2>2. blank = n + 1 /\ blank - 1 = n
    BY <2>0, <2>1
  <2>3. Name(text) = SubSeq(text, 1, blank - 1) /\ Unreturned(text) = rest
    <3>1. Name(text) = SubSeq(text, 1, n) /\ Unreturned(text) = SubSeq(text, n + 1, Len(text))
      BY <2>0, <2>1, UnreturnedLemma
    <3> QED
      BY <2>2, <3>1
  <2>4. rest \in Texts
    <3>1. blank \in 1 .. Len(text) + 1 /\ Len(text) \in blank - 1 .. Len(text)
      BY <2>0
    <3> QED
      BY <2>0, <3>1, PartLemma
  <2> QED
    BY <2>3, <2>4, ReturnLemma DEF ParseThrows, Message
<1> QED
  BY <1>1, TextInvHolds, PTL

\* TOPIC reads the same name with and without a topic behind it.
THEOREM TopicChannelIsRead == ParsingSpec => []TopicChannelIsFirstWord
<1>1. TextInv => TopicChannelIsFirstWord
  <2> SUFFICES ASSUME TextInv, NEW i \in 3 .. Len(text),
                      IsPrefix(<<"sp", "#">>, text),
                      IsWord(SubSeq(text, 3, i)),
                      LET behind == SubSeq(text, i + 1, Len(text))
                      IN behind = <<>> \/ IsPrefix(<<"sp", ":">>, behind)
               PROVE  ~TopicThrows(text) /\ TopicChannel(text) = SubSeq(text, 3, i)
    BY DEF TopicChannelIsFirstWord
  <2>0. text \in Texts /\ Len(text) \in Nat
    BY LenProperties DEF TextInv, Texts
  <2>1. text[1] = "sp" /\ text[2] = "#"
    BY <2>0, PairLemma, CommandLineAssumption
  <2>2. /\ 3 \in 1 .. Len(text) + 1 /\ i \in 3 - 1 .. Len(text) /\ i \in 1 .. Len(text)
    BY <2>0
  <2>3. \A k \in 3 .. i : text[k] \in WordChars
    BY <2>0, <2>2, StretchLemma
  <2>4. \/ i = Len(text)
        \/ i + 2 <= Len(text) /\ text[i + 1] = "sp" /\ text[i + 2] = ":"
    BY <2>0, <2>2, BehindLemma
  <2> QED
    BY <2>0, <2>1, <2>3, <2>4, TopicLemma
<1> QED
  BY <1>1, TextInvHolds, PTL

\* OPER is granted for the words that begin and end the operator's line, and
\* for no other name or password among those tried.
THEOREM OperatorsAreRead == ParsingSpec => []OperatorsAreRecognised
<1>1. TextInv => OperatorsAreRecognised
  <2> SUFFICES ASSUME TextInv, NEW i \in DOMAIN text, NEW j \in DOMAIN text,
                      IsWord(SubSeq(text, 1, i)), i = Len(text) \/ text[i + 1] = "sp",
                      IsWord(SubSeq(text, j, Len(text))), j = 1 \/ text[j - 1] = "sp",
                      NEW n \in Tried, NEW p \in Tried
               PROVE  Granted(text, <<"sp">> \o n \o <<"sp">> \o p)
                        <=> n = SubSeq(text, 1, i) /\ p = SubSeq(text, j, Len(text))
    BY DEF OperatorsAreRecognised
  <2>0. text \in Texts /\ Len(text) \in Nat /\ DOMAIN text = 1 .. Len(text)
    BY LenProperties DEF TextInv, Texts
  <2>1. /\ 1 \in 1 .. Len(text) + 1 /\ i \in 1 - 1 .. Len(text)
        /\ j \in 1 .. Len(text) + 1 /\ Len(text) \in j - 1 .. Len(text)
    BY <2>0
  <2>2. \A k \in 1 .. i : text[k] \in WordChars
    BY <2>0, <2>1, StretchLemma
  <2>3. \A k \in j .. Len(text) : text[k] \in WordChars
    BY <2>0, <2>1, StretchLemma
  <2>4. Operator(text) = [name |-> SubSeq(text, 1, i), password |-> SubSeq(text, j, Len(text))]
    BY <2>0, <2>2, <2>3, OperatorLemma
  <2>5. /\ n \in Seq(Chars) /\ IsWord(n) /\ Len(n) \in Nat /\ 2 * Len(n) + 2 < NPos
        /\ p \in Seq(Chars) /\ IsWord(p) /\ Len(p) \in Nat /\ 2 * Len(p) + 2 < NPos
    BY TextsAssumption, LenProperties
  <2>6. n # <<>> /\ p # <<>>
    BY <2>5 DEF IsWord
  <2>7. Len(n) + Len(p) + 2 < NPos
    BY <2>5, NPosIsInt
  <2>8. PICK two : two = <<"sp">> \o n \o <<"sp">> \o p
    OBVIOUS
  <2>9. Credentials(two) = [name |-> n, password |-> p]
    BY <2>5, <2>7, <2>8, TwoWords
  <2>10. Granted(text, two) <=> n = SubSeq(text, 1, i) /\ p = SubSeq(text, j, Len(text))
    <3>1. Credentials(two).name = n /\ Credentials(two).password = p
      BY <2>9
    <3>2. Credentials(two) = Operator(text)
            <=> n = SubSeq(text, 1, i) /\ p = SubSeq(text, j, Len(text))
      <4>1. PICK f, l : f = SubSeq(text, 1, i) /\ l = SubSeq(text, j, Len(text))
        OBVIOUS
      <4>2. Operator(text) = [name |-> f, password |-> l]
        BY <2>4, <4>1
      <4>3. Credentials(two) = Operator(text) <=> n = f /\ p = l
        BY <2>9, <4>2
      <4> QED
        BY <4>1, <4>3
    <3> QED
      BY <2>6, <3>1, <3>2 DEF Granted
  <2> QED
    BY <2>8, <2>10
<1> QED
  BY <1>1, TextInvHolds, PTL
=============================================================================
