------------------------- MODULE CommandListsProofs -------------------------
(***************************************************************************)
(* Proofs about module CommandLists: what its loops make of a list or of a *)
(* mode string, for texts of any length below npos.                        *)
(***************************************************************************)
EXTENDS CommandLineProofs, FiniteSetTheorems

----------------------------------------------------------------------------
(* Sequences in the order of positions *)

\* A value x at a position i behind the others, all from 1 to n.
AddsTo(more, values, n, i, x) ==
  /\ DOMAIN values \subseteq 1 .. n /\ i \in 1 .. n /\ \A k \in DOMAIN values : k < i
  /\ DOMAIN more = DOMAIN values \cup {i} /\ more[i] = x
  /\ \A k \in DOMAIN values : more[k] = values[k]

LEMMA InOrderAppend ==
  ASSUME NEW X, NEW seq \in Seq(X), NEW x \in X, NEW values, NEW more,
         NEW n \in Nat, NEW i, AddsTo(more, values, n, i, x), InOrder(seq, values)
  PROVE  InOrder(Append(seq, x), more)
<1> DEFINE D == DOMAIN values
<1>0. /\ D \in SUBSET (1 .. n) /\ i \in 1 .. n /\ \A k \in D : k < i
      /\ DOMAIN more = D \cup {i} /\ more[i] = x /\ \A k \in D : more[k] = values[k]
  BY DEF AddsTo
<1> DEFINE rank(k) == {j \in D : j <= k}
           next(k) == {j \in D \cup {i} : j <= k}
           len == Len(seq)
<1>1. /\ len \in Nat /\ Len(Append(seq, x)) = len + 1
      /\ \A k \in 1 .. len : Append(seq, x)[k] = seq[k]
      /\ Append(seq, x)[len + 1] = x
  BY LenProperties, AppendProperties
<1>2. /\ IsFiniteSet(D) /\ Cardinality(D) = len
      /\ \A k \in D : seq[Cardinality(rank(k))] = values[k]
  <2>1. IsFiniteSet(1 .. n)
    BY FS_Interval
  <2> QED
    BY <1>0, <2>1, FS_Subset DEF InOrder
<1>3. Cardinality(D \cup {i}) = len + 1
  <2>1. i \notin D
    BY <1>0
  <2> QED
    BY <1>2, <2>1, FS_AddElement
<1>4. ASSUME NEW k \in D PROVE Append(seq, x)[Cardinality(next(k))] = more[k]
  <2>1. next(k) = rank(k) /\ k \in rank(k) /\ rank(k) \in SUBSET D
    BY <1>0, <1>4
  <2> HIDE DEF rank, next
  <2>2. IsFiniteSet(rank(k)) /\ Cardinality(rank(k)) <= len
    BY <1>2, <2>1, FS_Subset
  <2>3. Cardinality(rank(k)) \in Nat /\ Cardinality(rank(k)) # 0
    BY <2>1, <2>2, FS_CardinalityType, FS_EmptySet
  <2>4. Cardinality(rank(k)) \in 1 .. len
    BY <1>1, <2>2, <2>3
  <2> QED
    BY <1>0, <1>1, <1>2, <2>1, <2>4
<1>5. Append(seq, x)[Cardinality(next(i))] = more[i]
  <2>1. next(i) = D \cup {i}
    BY <1>0
  <2> HIDE DEF next
  <2> QED
    BY <1>0, <1>1, <1>3, <2>1
<1> QED
  BY <1>0, <1>1, <1>3, <1>4, <1>5 DEF InOrder

\* Nothing yet.
LEMMA InOrderEmpty ==
  ASSUME NEW values, DOMAIN values = {}
  PROVE  InOrder(<<>>, values)
  BY FS_EmptySet DEF InOrder

----------------------------------------------------------------------------
(* std::string *)

\* Where a text occurs in another one.
LEMMA OccursIs ==
  ASSUME NEW s \in Texts, NEW t \in Texts, NEW p \in 0 .. Len(s)
  PROVE  OccursAt(s, t, p)
           <=> p + Len(t) <= Len(s) /\ \A k \in 1 .. Len(t) : s[p + k] = t[k]
<1>0. Len(s) \in Nat /\ Len(t) \in Nat /\ t \in Seq(Chars)
  BY LenProperties DEF Texts
<1>1. CASE Len(t) <= Len(s) - p
  <2>1. PICK u : u = SubSeq(s, p + 1, p + Len(t))
    OBVIOUS
  <2>2. Substr(s, p, Len(t)) = u
    BY <1>0, <1>1, <2>1, SubstrPart
  <2>3. p + 1 \in 1 .. Len(s) + 1 /\ p + Len(t) \in p + 1 - 1 .. Len(s)
        /\ (p + Len(t)) - (p + 1) + 1 = Len(t)
    BY <1>0, <1>1
  <2>4. /\ u \in Seq(Chars) /\ Len(u) = Len(t)
        /\ \A k \in 1 .. Len(t) : u[k] = s[p + 1 + k - 1]
    <3>1. PICK i, j : i = p + 1 /\ j = p + Len(t)
      OBVIOUS
    <3>2. i \in 1 .. Len(s) + 1 /\ j \in i - 1 .. Len(s) /\ j - i + 1 = Len(t)
      BY <2>3, <3>1
    <3>3. /\ SubSeq(s, i, j) \in Texts /\ Len(SubSeq(s, i, j)) = j - i + 1
          /\ \A k \in 1 .. j - i + 1 : SubSeq(s, i, j)[k] = s[i + k - 1]
      BY <3>2, PartLemma
    <3>4. u \in Texts /\ Len(u) = Len(t) /\ \A k \in 1 .. Len(t) : u[k] = s[i + k - 1]
      BY <2>1, <3>1, <3>2, <3>3
    <3> QED
      BY <3>1, <3>4 DEF Texts
  <2>5. \A k \in 1 .. Len(t) : u[k] = s[p + k]
    <3>1. \A k \in 1 .. Len(t) : p + 1 + k - 1 = p + k
      BY <1>0
    <3> QED
      BY <2>4, <3>1
  <2>6. u = t <=> \A k \in 1 .. Len(t) : u[k] = t[k]
    BY <1>0, <2>4, SeqEqual
  <2>7. p + Len(t) <= Len(s)
    BY <1>0, <1>1
  <2> QED
    BY <2>2, <2>5, <2>6, <2>7 DEF OccursAt
<1>2. CASE ~(Len(t) <= Len(s) - p)
  <2>1. Substr(s, p, Len(t)) = SubSeq(s, p + 1, Len(s))
    <3>1. Len(t) >= Len(s) - p
      BY <1>0, <1>2
    <3> QED
      BY <1>0, <3>1, SubstrPart
  <2>2. p + 1 \in 1 .. Len(s) + 1 /\ Len(s) \in p + 1 - 1 .. Len(s)
    BY <1>0
  <2>3. Len(SubSeq(s, p + 1, Len(s))) = Len(s) - (p + 1) + 1
    BY <2>2, PartLemma
  <2>4. Len(Substr(s, p, Len(t))) # Len(t)
    BY <1>0, <1>2, <2>1, <2>3
  <2>5. ~OccursAt(s, t, p)
    BY <2>4 DEF OccursAt
  <2> QED
    BY <1>0, <1>2, <2>5
<1> QED
  BY <1>1, <1>2

\* What is found and erased where it first occurs.
LEMMA EraseAt ==
  ASSUME NEW s \in Texts, NEW p \in 0 .. Len(s), NEW n \in p .. Len(s),
         NEW t, t = SubSeq(s, p + 1, n), \A q \in 0 .. p - 1 : ~OccursAt(s, t, q)
  PROVE  /\ FindText(s, t) = p
         /\ EraseText(s, t) = SubSeq(s, 1, p) \o SubSeq(s, n + 1, Len(s))
<1>0. Len(s) \in Nat /\ Len(s) < NPos /\ NPos \in Int /\ p \in Nat /\ n \in Nat
  BY LenProperties, NPosIsInt DEF Texts
<1>1. Len(t) = n - p
  <2>1. p + 1 \in 1 .. Len(s) + 1 /\ n \in p + 1 - 1 .. Len(s) /\ n - (p + 1) + 1 = n - p
    BY <1>0
  <2> QED
    BY <2>1, PartLemma
<1>2. OccursAt(s, t, p)
  <2>1. n - p \in Nat /\ n - p <= Len(s) - p /\ p + (n - p) = n
    BY <1>0
  <2>2. Substr(s, p, n - p) = SubSeq(s, p + 1, p + (n - p))
    BY <2>1, SubstrPart
  <2> QED
    BY <1>1, <2>1, <2>2 DEF OccursAt
<1> DEFINE P(r) == r \in 0 .. Len(s) /\ OccursAt(s, t, r)
                   /\ \A q \in 0 .. r - 1 : ~OccursAt(s, t, q)
<1>3. P(p)
  BY <1>0, <1>2
<1>4. ASSUME NEW r, P(r) PROVE r = p
  <2>1. ~(p \in 0 .. r - 1) /\ ~(r \in 0 .. p - 1)
    BY <1>2, <1>4
  <2> QED
    BY <1>0, <1>4, <2>1
<1>5. FindText(s, t) = p
  <2>1. FindText(s, t) = CHOOSE r : P(r)
    BY DEF FindText
  <2> HIDE DEF P
  <2> QED
    BY <1>3, <1>4, <2>1
<1>6. Substr(s, 0, p) = SubSeq(s, 1, p)
  <2>1. 0 \in 0 .. Len(s) /\ p <= Len(s) - 0 /\ 0 + 1 = 1 /\ 0 + p = p
    BY <1>0
  <2>2. Substr(s, 0, p) = SubSeq(s, 0 + 1, 0 + p)
    BY <1>0, <2>1, SubstrPart
  <2> QED
    BY <2>1, <2>2
<1>7. Substr(s, p + Len(t), NPos) = SubSeq(s, n + 1, Len(s))
  <2>1. n \in 0 .. Len(s) /\ NPos \in Nat /\ NPos >= Len(s) - n /\ p + Len(t) = n
    BY <1>0, <1>1
  <2> QED
    BY <2>1, SubstrPart
<1> QED
  BY <1>5, <1>6, <1>7 DEF EraseText

\* The characters that are left without those from p + 1 to n.
Erased(s, p, n, e) ==
  /\ e \in Texts /\ Len(e) = Len(s) - (n - p)
  /\ \A i \in 1 .. p : e[i] = s[i]
  /\ \A i \in p + 1 .. Len(e) : e[i] = s[i + (n - p)]

LEMMA ErasedChars ==
  ASSUME NEW s \in Texts, NEW p \in 0 .. Len(s), NEW n \in p .. Len(s),
         NEW e, e = SubSeq(s, 1, p) \o SubSeq(s, n + 1, Len(s))
  PROVE  Erased(s, p, n, e)
<1>0. Len(s) \in Nat /\ Len(s) < NPos /\ NPos \in Int /\ p \in Nat /\ n \in Nat
  BY LenProperties, NPosIsInt DEF Texts
<1>1. PICK u, v : u = SubSeq(s, 1, p) /\ v = SubSeq(s, n + 1, Len(s))
  OBVIOUS
<1>2. /\ u \in Seq(Chars) /\ Len(u) = p /\ \A k \in 1 .. p : u[k] = s[k]
  <2>1. 1 \in 1 .. Len(s) + 1 /\ p \in 1 - 1 .. Len(s) /\ p - 1 + 1 = p
    BY <1>0
  <2>2. u \in Seq(Chars) /\ Len(u) = p - 1 + 1 /\ \A k \in 1 .. p - 1 + 1 : u[k] = s[1 + k - 1]
    BY <1>1, <2>1, PartLemma DEF Texts
  <2> QED
    BY <1>0, <2>1, <2>2
<1>3. /\ v \in Seq(Chars) /\ Len(v) = Len(s) - n
      /\ \A k \in 1 .. Len(s) - n : v[k] = s[n + k]
  <2>1. PICK m, l : m = n + 1 /\ l = Len(s)
    OBVIOUS
  <2>2. m \in 1 .. Len(s) + 1 /\ l \in m - 1 .. Len(s) /\ l - m + 1 = Len(s) - n
    BY <1>0, <2>1
  <2>3. /\ v \in Seq(Chars) /\ Len(v) = l - m + 1
        /\ \A k \in 1 .. l - m + 1 : v[k] = s[m + k - 1]
    BY <1>1, <2>1, <2>2, PartLemma DEF Texts
  <2>4. \A k \in 1 .. Len(s) - n : m + k - 1 = n + k
    BY <1>0, <2>1
  <2> QED
    BY <2>2, <2>3, <2>4
<1>4. /\ e \in Seq(Chars) /\ Len(e) = Len(u) + Len(v)
      /\ \A i \in 1 .. Len(u) + Len(v) : e[i] = IF i <= Len(u) THEN u[i] ELSE v[i - Len(u)]
  <2>1. e = u \o v /\ u \in Seq(Chars) /\ v \in Seq(Chars)
    BY <1>1, <1>2, <1>3
  <2> QED
    BY <2>1, ConcatOfTwo, ZenonT(40)
<1>5. Len(e) = Len(s) - (n - p) /\ Len(e) < NPos
  <2>1. PICK l, m : l = Len(s) /\ m = Len(e)
    OBVIOUS
  <2>2. m = p + (l - n)
    BY <1>2, <1>3, <1>4, <2>1
  <2>3. l \in Nat /\ l < NPos /\ p <= n
    BY <1>0, <2>1
  <2>4. m = l - (n - p) /\ m < NPos
    BY <1>0, <2>2, <2>3
  <2> QED
    BY <2>1, <2>4
<1>6. ASSUME NEW i \in 1 .. p PROVE e[i] = s[i]
  <2>1. i \in 1 .. Len(u) + Len(v) /\ i <= Len(u)
    BY <1>0, <1>2, <1>3
  <2> QED
    BY <1>2, <1>4, <2>1
<1>7. ASSUME NEW i \in p + 1 .. Len(e) PROVE e[i] = s[i + (n - p)]
  <2>1. PICK j : j = i - p
    OBVIOUS
  <2>2. /\ i \in 1 .. Len(u) + Len(v) /\ ~(i <= Len(u)) /\ i - Len(u) = j
        /\ j \in 1 .. Len(s) - n
    <3>1. Len(u) = p /\ Len(v) = Len(s) - n /\ i \in p + 1 .. Len(s) - (n - p)
      BY <1>2, <1>3, <1>5
    <3> QED
      BY <1>0, <2>1, <3>1
  <2>3. n + j = i + (n - p)
    BY <1>0, <1>5, <1>7, <2>1
  <2>4. e[i] = v[j] /\ v[j] = s[n + j]
    BY <1>3, <1>4, <2>2
  <2> QED
    BY <2>3, <2>4
<1> QED
  BY <1>4, <1>5, <1>6, <1>7 DEF Erased, Texts

----------------------------------------------------------------------------
(* Words *)

\* A word from i to l, and no longer.
WordFrom(s, i, l) ==
  /\ i \in 1 .. Len(s) /\ l \in i .. Len(s)
  /\ \A k \in i .. l : s[k] \in WordChars
  /\ l = Len(s) \/ s[l + 1] \notin WordChars

\* A word that starts at i ends somewhere.
LEMMA WordAtIs ==
  ASSUME NEW s \in Texts, NEW i, NEW l, WordFrom(s, i, l)
  PROVE  WordAt(s, i) = SubSeq(s, i, l)
<1> DEFINE P(j) == /\ j \in i .. Len(s)
                   /\ \A k \in i .. j : s[k] \in WordChars
                   /\ j = Len(s) \/ s[j + 1] \notin WordChars
<1>0. Len(s) \in Nat /\ i \in 1 .. Len(s)
  BY LenProperties DEF Texts, WordFrom
<1>1. P(l)
  BY DEF WordFrom
<1>2. ASSUME NEW j, P(j) PROVE j = l
  <2>1. j + 1 \in i .. Len(s) + 1 /\ l + 1 \in i .. Len(s) + 1 /\ j \in Int /\ l \in Int
    BY <1>0, <1>1, <1>2
  <2>2. CASE j < l
    <3>1. j + 1 \in i .. l /\ j # Len(s)
      BY <1>0, <1>1, <2>1, <2>2
    <3> QED
      BY <1>1, <1>2, <3>1
  <2>3. CASE l < j
    <3>1. l + 1 \in i .. j /\ l # Len(s)
      BY <1>0, <1>1, <1>2, <2>1, <2>3
    <3> QED
      BY <1>1, <1>2, <3>1
  <2> QED
    BY <2>1, <2>2, <2>3
<1>3. WordAt(s, i) = SubSeq(s, i, CHOOSE j : P(j))
  BY DEF WordAt
<1> HIDE DEF P
<1>4. (CHOOSE j : P(j)) = l
  BY <1>1, <1>2
<1> QED
  BY <1>3, <1>4

\* getChannelName takes the first word, which is then erased.
LEMMA FirstWord ==
  ASSUME NEW s \in Texts, NEW i, NEW l, WordFrom(s, i, l),
         \A j \in 1 .. i - 1 : s[j] \notin WordChars
  PROVE  /\ ChannelName(s) = SubSeq(s, i, l)
         /\ EraseText(s, ChannelName(s)) = SubSeq(s, 1, i - 1) \o SubSeq(s, l + 1, Len(s))
<1>0. /\ Len(s) \in Nat /\ Len(s) < NPos /\ NPos \in Int /\ s \in Seq(Chars)
      /\ i \in 1 .. Len(s) /\ l \in i .. Len(s) /\ s[i] \in WordChars
      /\ \A k \in 1 .. Len(s) : s[k] \in Chars
  <2>1. Len(s) \in Nat /\ s \in Seq(Chars) /\ Len(s) < NPos /\ NPos \in Int
    BY LenProperties, NPosIsInt DEF Texts
  <2>2. i \in 1 .. Len(s) /\ l \in i .. Len(s)
    BY DEF WordFrom
  <2>3. i \in i .. l
    BY <2>1, <2>2
  <2>4. s[i] \in WordChars
    BY <2>3 DEF WordFrom
  <2> QED
    BY <2>1, <2>2, <2>4, ElementOfSeq
<1>1. FirstIn(s, WordChars) = i
  <2>1. PICK f : f = FirstIn(s, WordChars)
    OBVIOUS
  <2>2. \/ f = 0 /\ \A j \in 1 .. Len(s) : s[j] \notin WordChars
        \/ f \in 1 .. Len(s) /\ s[f] \in WordChars /\ \A j \in 1 .. f - 1 : s[j] \notin WordChars
    BY <1>0, <2>1, FirstInLemma
  <2>3. f \in 1 .. Len(s) /\ s[f] \in WordChars /\ i \notin 1 .. f - 1
    BY <1>0, <2>2
  <2>4. f \notin 1 .. i - 1
    BY <2>3
  <2> QED
    BY <1>0, <2>1, <2>3, <2>4
<1>2. PICK t : t = SubSeq(s, i, Len(s))
  OBVIOUS
<1>3. /\ t \in Texts /\ Len(t) = Len(s) - i + 1
      /\ \A k \in 1 .. Len(s) - i + 1 : t[k] = s[i + k - 1]
  <2>1. i \in 1 .. Len(s) + 1 /\ Len(s) \in i - 1 .. Len(s)
    BY <1>0
  <2> QED
    BY <1>2, <2>1, PartLemma
<1>4. Substr(s, FirstIn(s, WordChars) - 1, NPos) = t
  <2>1. i - 1 \in 0 .. Len(s) /\ NPos \in Nat /\ NPos >= Len(s) - (i - 1) /\ i - 1 + 1 = i
    BY <1>0
  <2>2. Substr(s, i - 1, NPos) = SubSeq(s, i - 1 + 1, Len(s))
    BY <2>1, SubstrPart
  <2> QED
    BY <1>1, <1>2, <2>1, <2>2
<1>5. PICK next : next = FirstIn(t, Chars \ WordChars)
  OBVIOUS
<1>6. \/ next = 0 /\ \A j \in 1 .. Len(t) : t[j] \notin Chars \ WordChars
      \/ /\ next \in 1 .. Len(t) /\ t[next] \in Chars \ WordChars
         /\ \A j \in 1 .. next - 1 : t[j] \notin Chars \ WordChars
  BY <1>3, <1>5, FirstInLemma DEF Texts
<1>7. ASSUME next = 0, \A j \in 1 .. Len(t) : t[j] \notin Chars \ WordChars
      PROVE  ChannelName(s) = SubSeq(s, i, l)
  <2>1. l = Len(s)
    <3>1. SUFFICES ASSUME l # Len(s) PROVE FALSE
      OBVIOUS
    <3>2. PICK j : j = l + 2 - i
      OBVIOUS
    <3>3. j \in 1 .. Len(s) - i + 1 /\ i + j - 1 = l + 1 /\ l + 1 \in 1 .. Len(s)
      BY <1>0, <3>1, <3>2
    <3>4. t[j] = s[l + 1] /\ s[l + 1] \in Chars /\ s[l + 1] \notin WordChars
      BY <1>0, <1>3, <3>1, <3>3 DEF WordFrom
    <3> QED
      BY <1>3, <1>7, <3>3, <3>4
  <2>2. ChannelName(s) = t
    BY <1>4, <1>5, <1>7, Zenon DEF ChannelName
  <2> QED
    BY <1>2, <2>1, <2>2
<1>8. ASSUME next \in 1 .. Len(t), t[next] \in Chars \ WordChars,
             \A j \in 1 .. next - 1 : t[j] \notin Chars \ WordChars
      PROVE  ChannelName(s) = SubSeq(s, i, l)
  <2>1. PICK e : e = i + next - 1
    OBVIOUS
  <2>2. e \in 1 .. Len(s) /\ next \in 1 .. Len(s) - i + 1 /\ t[next] = s[e] /\ e >= i
    BY <1>0, <1>3, <1>8, <2>1
  <2>3. e > l
    <3>1. e \notin i .. l
      BY <1>8, <2>2 DEF WordFrom
    <3> QED
      BY <1>0, <2>2, <3>1
  <2>4. l + 1 >= e
    <3>1. SUFFICES ASSUME l + 1 < e PROVE FALSE
      BY <1>0, <2>2
    <3>2. PICK j : j = l + 2 - i
      OBVIOUS
    <3>3. /\ j \in 1 .. Len(s) - i + 1 /\ i + j - 1 = l + 1 /\ l + 1 \in 1 .. Len(s)
          /\ j \in 1 .. next - 1 /\ l # Len(s)
      BY <1>0, <2>1, <2>2, <3>1, <3>2
    <3>4. t[j] = s[l + 1] /\ s[l + 1] \in Chars /\ s[l + 1] \notin WordChars
      BY <1>0, <1>3, <3>3 DEF WordFrom
    <3> QED
      BY <1>8, <3>3, <3>4
  <2>5. /\ next - 1 = l - i + 1 /\ 0 \in 0 .. Len(t) /\ next - 1 \in Nat
        /\ next - 1 <= Len(t) - 0 /\ 0 + 1 = 1 /\ 0 + (next - 1) = next - 1
    BY <1>0, <1>3, <1>8, <2>1, <2>2, <2>3, <2>4
  <2>6. Substr(t, 0, next - 1) = SubSeq(t, 0 + 1, 0 + (next - 1))
    BY <1>3, <2>5, SubstrPart
  <2>7. SubSeq(t, 1, next - 1) = SubSeq(s, i, l)
    <3>1. PICK m, n : m = 1 /\ n = next - 1
      OBVIOUS
    <3>2. /\ i \in 1 .. Len(s) + 1 /\ Len(s) \in i - 1 .. Len(s)
          /\ m \in 1 .. Len(s) - i + 2 /\ n \in m - 1 .. Len(s) - i + 1
          /\ i + m - 1 = i /\ i + n - 1 = l
      BY <1>0, <2>5, <3>1, SMTT(30)
    <3>3. SubSeq(SubSeq(s, i, Len(s)), m, n) = SubSeq(s, i + m - 1, i + n - 1)
      BY <3>2, PartOfPart
    <3> QED
      BY <1>2, <3>1, <3>2, <3>3
  <2>8. ChannelName(s) = Substr(t, 0, next - 1)
    <3>1. next # 0
      BY <1>8
    <3> QED
      BY <1>4, <1>5, <3>1, Zenon DEF ChannelName
  <2> QED
    BY <2>5, <2>6, <2>7, <2>8
<1>9. ChannelName(s) = SubSeq(s, i, l)
  BY <1>6, <1>7, <1>8
<1>10. \A q \in 0 .. i - 1 - 1 : ~OccursAt(s, SubSeq(s, i, l), q)
  <2>1. PICK w : w = SubSeq(s, i, l)
    OBVIOUS
  <2>2. w \in Texts /\ Len(w) = l - i + 1 /\ w[1] = s[i]
    <3>1. i \in 1 .. Len(s) + 1 /\ l \in i - 1 .. Len(s)
          /\ 1 \in 1 .. l - i + 1 /\ i + 1 - 1 = i
      BY <1>0
    <3> QED
      BY <2>1, <3>1, PartLemma
  <2>3. ASSUME NEW q \in 0 .. i - 1 - 1, OccursAt(s, w, q) PROVE FALSE
    <3>1. q \in 0 .. Len(s) /\ 1 \in 1 .. Len(w) /\ q + 1 \in 1 .. i - 1
      BY <1>0, <2>2
    <3>2. s[q + 1] = w[1]
      BY <2>2, <2>3, <3>1, OccursIs
    <3> QED
      BY <1>0, <2>2, <3>1, <3>2
  <2> QED
    BY <2>1, <2>3
<1>11. EraseText(s, SubSeq(s, i, l)) = SubSeq(s, 1, i - 1) \o SubSeq(s, l + 1, Len(s))
  <2>1. PICK p : p = i - 1
    OBVIOUS
  <2>2. p \in 0 .. Len(s) /\ l \in p .. Len(s) /\ p + 1 = i
    BY <1>0, <2>1
  <2>3. SubSeq(s, i, l) = SubSeq(s, p + 1, l)
    BY <2>2
  <2>4. \A q \in 0 .. p - 1 : ~OccursAt(s, SubSeq(s, i, l), q)
    BY <1>10, <2>1
  <2> QED
    BY <2>1, <2>2, <2>3, <2>4, EraseAt
<1> QED
  BY <1>9, <1>11

\* Place b of a text is the end of a word or before the first.
IsBetween(s, b) ==
  b \in 0 .. Len(s) /\ (b = 0 \/ b = Len(s) \/ s[b + 1] \notin WordChars)

\* The first word behind place b.
NextWord(s, b, i, l) ==
  /\ WordFrom(s, i, l) /\ i > b
  /\ \A k \in b + 1 .. i - 1 : s[k] \notin WordChars
  /\ i \in WordStarts(s)

\* There is one when there is a word character.
LEMMA HasNextWord ==
  ASSUME NEW s \in Texts, NEW b, IsBetween(s, b),
         NEW j \in b + 1 .. Len(s), s[j] \in WordChars
  PROVE  \E i \in 1 .. j, l \in 1 .. Len(s) : NextWord(s, b, i, l)
<1> DEFINE I == {k \in b + 1 .. Len(s) : s[k] \in WordChars}
<1>0. Len(s) \in Nat /\ b \in 0 .. Len(s) /\ b \in Nat
  BY LenProperties DEF Texts, IsBetween
<1>1. I \in SUBSET Nat /\ j \in I
  BY <1>0
<1>2. PICK i \in I : \A k \in I : i <= k
  <2> HIDE DEF I
  <2> QED
    BY <1>1, LeastElement
<1>3. i \in b + 1 .. Len(s) /\ i \in 1 .. Len(s) /\ i \in Nat /\ s[i] \in WordChars /\ i \in 1 .. j
  BY <1>0, <1>1, <1>2
<1>4. \A k \in b + 1 .. i - 1 : s[k] \notin WordChars
  <2>1. ASSUME NEW k \in b + 1 .. i - 1 PROVE s[k] \notin WordChars
    <3>1. k \in b + 1 .. Len(s) /\ k \notin I
      BY <1>0, <1>2, <1>3, <2>1
    <3> QED
      BY <3>1
  <2> QED
    BY <2>1
<1>5. i \in WordStarts(s)
  <2>1. CASE i = b + 1
    <3>1. b = 0
      BY <1>0, <1>3, <2>1 DEF IsBetween
    <3> QED
      BY <1>3, <2>1, <3>1 DEF WordStarts
  <2>2. CASE i # b + 1
    <3>1. i - 1 \in b + 1 .. i - 1
      BY <1>0, <1>3, <2>2
    <3> QED
      BY <1>3, <1>4, <3>1 DEF WordStarts
  <2> QED
    BY <2>1, <2>2
<1> DEFINE L == {k \in i .. Len(s) : k = Len(s) \/ s[k + 1] \notin WordChars}
<1>6. L \in SUBSET Nat /\ Len(s) \in L
  BY <1>0, <1>3
<1>7. PICK l \in L : \A k \in L : l <= k
  <2> HIDE DEF L
  <2> QED
    BY <1>6, LeastElement
<1>8. l \in i .. Len(s) /\ l \in 1 .. Len(s) /\ (l = Len(s) \/ s[l + 1] \notin WordChars)
  BY <1>3, <1>7
<1>9. ASSUME NEW k \in i .. l PROVE s[k] \in WordChars
  <2>1. CASE k = i
    BY <1>3, <2>1
  <2>2. CASE k # i
    <3>1. k - 1 \in i .. Len(s) /\ k - 1 \notin L /\ k - 1 + 1 = k
      BY <1>0, <1>3, <1>7, <1>8, <1>9, <2>2
    <3> QED
      BY <3>1
  <2> QED
    BY <2>1, <2>2
<1>10. WordFrom(s, i, l)
  BY <1>3, <1>8, <1>9 DEF WordFrom
<1>11. i > b
  BY <1>0, <1>3
<1>12. NextWord(s, b, i, l)
  BY <1>4, <1>5, <1>10, <1>11 DEF NextWord
<1> QED
  BY <1>3, <1>8, <1>12

\* What is left of a text s when the words up to its place b are erased: m
\* characters of no word, the rest of s and the same tail as before.
Left(r, s, b, m, tail) ==
  /\ m \in Nat /\ Len(r) = m + (Len(s) - b) + Len(tail)
  /\ \A k \in 1 .. m : r[k] \notin WordChars
  /\ \A k \in b + 1 .. Len(s) : r[m + (k - b)] = s[k]
  /\ \A k \in 1 .. Len(tail) : r[m + (Len(s) - b) + k] = tail[k]

\* The next word is found and erased there.
LEMMA TakeWord ==
  ASSUME NEW s \in Texts, NEW tail \in Texts, tail # <<>> => tail[1] \notin WordChars,
         NEW r \in Texts, NEW b \in 0 .. Len(s), NEW m, Left(r, s, b, m, tail),
         NEW i, NEW l, NextWord(s, b, i, l)
  PROVE  /\ ChannelName(r) = WordAt(s, i)
         /\ EraseText(r, ChannelName(r)) \in Texts
         /\ Left(EraseText(r, ChannelName(r)), s, l, m + (i - 1 - b), tail)
         /\ \A k \in 1 .. m + (i - 1 - b) : EraseText(r, ChannelName(r))[k] = r[k]
<1>0. /\ Len(s) \in Nat /\ Len(tail) \in Nat /\ m \in Nat /\ b \in Nat /\ Len(r) \in Nat
      /\ i \in b + 1 .. Len(s) /\ l \in i .. Len(s) /\ i \in Nat /\ l \in Nat
      /\ Len(r) = m + (Len(s) - b) + Len(tail)
  BY LenProperties DEF Texts, Left, NextWord, WordFrom
<1>1. PICK f, g : f = m + (i - b) /\ g = m + (l - b)
  OBVIOUS
<1>2. f \in 1 .. Len(r) /\ g \in f .. Len(r) /\ g - f = l - i /\ f \in Nat /\ g \in Nat
  BY <1>0, <1>1
<1>3. \A k \in b + 1 .. Len(s) : r[m + (k - b)] = s[k]
  BY DEF Left
<1>4. WordFrom(r, f, g)
  <2>1. ASSUME NEW k \in f .. g PROVE r[k] \in WordChars
    <3>1. PICK j : j = k - m + b
      OBVIOUS
    <3>2. j \in i .. l /\ j \in b + 1 .. Len(s) /\ m + (j - b) = k
      BY <1>0, <1>1, <1>2, <2>1, <3>1
    <3>3. s[j] \in WordChars
      BY <3>2 DEF NextWord, WordFrom
    <3> QED
      BY <1>3, <3>2, <3>3
  <2>2. ASSUME g # Len(r) PROVE r[g + 1] \notin WordChars
    <3>1. CASE l = Len(s)
      <4>1. g + 1 = m + (Len(s) - b) + 1 /\ 1 \in 1 .. Len(tail)
        BY <1>0, <1>1, <2>2, <3>1
      <4>2. r[g + 1] = tail[1] /\ tail # <<>>
        BY <4>1, EmptySeq DEF Left
      <4> QED
        BY <4>2
    <3>2. CASE l # Len(s)
      <4>0. PICK j : j = l + 1
        OBVIOUS
      <4>1. g + 1 = m + (j - b) /\ j \in b + 1 .. Len(s)
        BY <1>0, <1>1, <3>2, <4>0
      <4>2. s[j] \notin WordChars
        BY <3>2, <4>0 DEF NextWord, WordFrom
      <4> QED
        BY <1>3, <4>1, <4>2
    <3> QED
      BY <3>1, <3>2
  <2> QED
    BY <1>2, <2>1, <2>2 DEF WordFrom
<1>5. \A k \in 1 .. f - 1 : r[k] \notin WordChars
  <2>1. ASSUME NEW k \in 1 .. f - 1 PROVE r[k] \notin WordChars
    <3>1. CASE k <= m
      <4>1. k \in 1 .. m
        BY <1>0, <2>1, <3>1
      <4> QED
        BY <4>1 DEF Left
    <3>2. CASE ~(k <= m)
      <4>1. PICK j : j = k - m + b
        OBVIOUS
      <4>2. j \in b + 1 .. i - 1 /\ j \in b + 1 .. Len(s) /\ m + (j - b) = k
        BY <1>0, <1>1, <1>2, <2>1, <3>2, <4>1
      <4>3. s[j] \notin WordChars
        BY <4>2 DEF NextWord
      <4> QED
        BY <1>3, <4>2, <4>3
    <3> QED
      BY <3>1, <3>2
  <2> QED
    BY <2>1
<1>6. PICK e : e = EraseText(r, ChannelName(r))
  OBVIOUS
<1>7. /\ ChannelName(r) = SubSeq(r, f, g)
      /\ e = SubSeq(r, 1, f - 1) \o SubSeq(r, g + 1, Len(r))
  BY <1>4, <1>5, <1>6, FirstWord
<1>8. SubSeq(r, f, g) = WordAt(s, i)
  <2>1. PICK u, v : u = SubSeq(r, f, g) /\ v = SubSeq(s, i, l)
    OBVIOUS
  <2>2. /\ u \in Seq(Chars) /\ Len(u) = g - f + 1
        /\ \A k \in 1 .. g - f + 1 : u[k] = r[f + k - 1]
    <3>1. f \in 1 .. Len(r) + 1 /\ g \in f - 1 .. Len(r)
      BY <1>2
    <3> QED
      BY <2>1, <3>1, PartLemma DEF Texts
  <2>3. /\ v \in Seq(Chars) /\ Len(v) = l - i + 1
        /\ \A k \in 1 .. l - i + 1 : v[k] = s[i + k - 1]
    <3>1. i \in 1 .. Len(s) + 1 /\ l \in i - 1 .. Len(s)
      BY <1>0
    <3> QED
      BY <2>1, <3>1, PartLemma DEF Texts
  <2>4. ASSUME NEW k \in 1 .. Len(u) PROVE u[k] = v[k]
    <3>1. PICK j : j = i + k - 1
      OBVIOUS
    <3>2. /\ k \in 1 .. g - f + 1 /\ k \in 1 .. l - i + 1 /\ j \in b + 1 .. Len(s)
          /\ f + k - 1 = m + (j - b)
      BY <1>0, <1>1, <1>2, <2>2, <2>4, <3>1
    <3>3. u[k] = r[m + (j - b)] /\ v[k] = s[j]
      BY <2>2, <2>3, <3>1, <3>2
    <3> QED
      BY <1>3, <3>2, <3>3
  <2>5. u = v
    <3>1. Len(u) = Len(v)
      BY <1>2, <2>2, <2>3
    <3> QED
      BY <2>2, <2>3, <2>4, <3>1, SeqEqual
  <2>6. WordAt(s, i) = v
    BY <2>1, WordAtIs DEF NextWord
  <2> QED
    BY <2>1, <2>5, <2>6
<1>9. /\ e \in Texts /\ Len(e) = Len(r) - (l - i + 1)
      /\ \A k \in 1 .. f - 1 : e[k] = r[k]
      /\ \A k \in f .. Len(e) : e[k] = r[k + (l - i + 1)]
  <2>1. PICK p, q : p = f - 1 /\ q = l - i + 1
    OBVIOUS
  <2>2. p \in 0 .. Len(r) /\ g \in p .. Len(r) /\ g - p = q /\ p + 1 = f
    BY <1>0, <1>2, <2>1
  <2>3. e = SubSeq(r, 1, p) \o SubSeq(r, g + 1, Len(r))
    BY <1>7, <2>1
  <2>4. /\ e \in Texts /\ Len(e) = Len(r) - (g - p)
        /\ \A k \in 1 .. p : e[k] = r[k]
        /\ \A k \in p + 1 .. Len(e) : e[k] = r[k + (g - p)]
    <3>1. Erased(r, p, g, e)
      BY <2>2, <2>3, ErasedChars
    <3> QED
      BY <3>1 DEF Erased
  <2> QED
    BY <2>1, <2>2, <2>4
<1>10. Left(e, s, l, m + (i - 1 - b), tail)
  <2>1. PICK n, d : n = m + (i - 1 - b) /\ d = l - i + 1
    OBVIOUS
  <2>2. n \in Nat /\ n = f - 1 /\ d \in Nat /\ Len(e) = n + (Len(s) - l) + Len(tail)
    <3>1. Len(e) = Len(r) - d
      BY <1>9, <2>1
    <3> QED
      BY <1>0, <1>1, <2>1, <3>1
  <2>3. \A k \in 1 .. n : e[k] \notin WordChars
    BY <1>5, <1>9, <2>2
  <2>4. ASSUME NEW k \in l + 1 .. Len(s) PROVE e[n + (k - l)] = s[k]
    <3>1. PICK j : j = n + (k - l)
      OBVIOUS
    <3>2. j \in f .. Len(e) /\ j + d = m + (k - b) /\ k \in b + 1 .. Len(s)
      BY <1>0, <1>1, <2>1, <2>2, <2>4, <3>1
    <3>3. e[j] = r[j + d]
      BY <1>9, <2>1, <3>2
    <3> QED
      BY <1>3, <3>1, <3>2, <3>3
  <2>5. ASSUME NEW k \in 1 .. Len(tail) PROVE e[n + (Len(s) - l) + k] = tail[k]
    <3>1. PICK j : j = n + (Len(s) - l) + k
      OBVIOUS
    <3>2. j \in f .. Len(e) /\ j + d = m + (Len(s) - b) + k
      BY <1>0, <1>1, <2>1, <2>2, <2>5, <3>1
    <3>3. e[j] = r[j + d]
      BY <1>9, <2>1, <3>2
    <3>4. r[m + (Len(s) - b) + k] = tail[k]
      BY <2>5 DEF Left
    <3> QED
      BY <3>1, <3>2, <3>3, <3>4
  <2>6. Left(e, s, l, n, tail)
    BY <2>2, <2>3, <2>4, <2>5 DEF Left
  <2> QED
    BY <2>1, <2>6
<1>11. \A k \in 1 .. m + (i - 1 - b) : e[k] = r[k]
  <2>1. m + (i - 1 - b) = f - 1
    BY <1>0, <1>1
  <2> QED
    BY <1>9, <2>1
<1> QED
  BY <1>6, <1>7, <1>8, <1>9, <1>10, <1>11

\* A word is a text.
LEMMA WordIsText ==
  ASSUME NEW s \in Texts, NEW b, NEW i, NEW l, NextWord(s, b, i, l)
  PROVE  WordAt(s, i) \in Texts
<1>1. WordAt(s, i) = SubSeq(s, i, l)
  BY WordAtIs DEF NextWord
<1>2. i \in 1 .. Len(s) + 1 /\ l \in i - 1 .. Len(s)
  <2>1. Len(s) \in Nat
    BY LenProperties DEF Texts
  <2> QED
    BY <2>1 DEF NextWord, WordFrom
<1> QED
  BY <1>1, <1>2, PartLemma

\* Before anything is erased.
LEMMA LeftAll ==
  ASSUME NEW r \in Texts
  PROVE  /\ Left(r, r, 0, 0, <<>>) /\ IsBetween(r, 0) /\ 0 \in 0 .. Len(r)
         /\ <<>> \in Texts
<1>1. Len(r) \in Nat /\ Len(<<>>) = 0
  BY LenProperties, EmptySeq DEF Texts
<1>2. \A k \in 0 + 1 .. Len(r) : r[0 + (k - 0)] = r[k]
  BY <1>1
<1>3. <<>> \in Texts
  BY <1>1, NPosIsInt, EmptySeq, CommandLineAssumption DEF Texts
<1> QED
  BY <1>1, <1>2, <1>3 DEF Left, IsBetween

----------------------------------------------------------------------------
(* PART and NAMES *)

NameStates == [names : Seq(Texts), rest : Texts]

\* A turn of the loop is one, whatever is left.
LEMMA NamesTurnType ==
  ASSUME NEW set \in SUBSET WordChars, NEW st \in NameStates
  PROVE  NamesTurn(st, set) \in NameStates
<1>0. PICK r, names : r = st.rest /\ names = st.names
  OBVIOUS
<1>1. r \in Texts /\ names \in Seq(Texts) /\ Len(r) \in Nat /\ DOMAIN r = 1 .. Len(r)
  BY <1>0, LenProperties DEF NameStates, Texts
<1>2. CASE ToSet(r) \cap set = {}
  BY <1>0, <1>2 DEF NamesTurn
<1>3. CASE ToSet(r) \cap set # {}
  <2>1. PICK j \in 1 .. Len(r) : r[j] \in WordChars
    BY <1>1, <1>3 DEF ToSet
  <2>2. PICK i, l : NextWord(r, 0, i, l)
    <3>1. j \in 0 + 1 .. Len(r)
      BY <1>1
    <3> QED
      BY <1>1, <2>1, <3>1, HasNextWord, LeftAll
  <2>3. ChannelName(r) = WordAt(r, i) /\ EraseText(r, ChannelName(r)) \in Texts
    <3>1. <<>> # <<>> => <<>>[1] \notin WordChars
      OBVIOUS
    <3> QED
      BY <1>1, <2>2, LeftAll, TakeWord
  <2>4. PICK name, e : name = ChannelName(r) /\ e = EraseText(r, name)
    OBVIOUS
  <2>5. name \in Texts /\ e \in Texts
    BY <1>1, <2>2, <2>3, <2>4, WordIsText
  <2>6. NamesTurn(st, set) = [names |-> Append(names, name), rest |-> e]
    BY <1>0, <1>3, <2>4, Zenon DEF NamesTurn
  <2>7. Append(names, name) \in Seq(Texts)
    BY <1>1, <2>5, AppendProperties
  <2> QED
    BY <2>5, <2>6, <2>7 DEF NameStates
<1> QED
  BY <1>2, <1>3

\* The turns follow each other.
NamesFollow(g, message, set) ==
  /\ g[0] = [names |-> <<>>, rest |-> message]
  /\ \A k \in 0 .. Len(message) : g[k] \in NameStates
  /\ \A k \in 1 .. Len(message) : g[k] = NamesTurn(g[k - 1], set)

\* The loop runs: NamesRun is defined by its recursion.
LEMMA NamesRunIs ==
  ASSUME NEW set \in SUBSET WordChars, NEW message \in Texts
  PROVE  NamesFollow(NamesRun(message, set), message, set)
<1> DEFINE n == Len(message)
           start == [names |-> <<>>, rest |-> message]
           Def(h) == h = [k \in 0 .. n |-> IF k = 0 THEN start ELSE NamesTurn(h[k - 1], set)]
           step == [p \in (1 .. n) \X NameStates |-> NamesTurn(p[2], set)]
<1> PICK g : g = NamesRun(message, set)
  OBVIOUS
<1>0. n \in Nat
  BY LenProperties DEF Texts
<1>1. start \in NameStates
  BY EmptySeq DEF NameStates
<1>2. step \in [(1 .. n) \X NameStates -> NameStates]
  BY NamesTurnType
<1>3. \A k \in 1 .. n, x \in NameStates : step[<<k, x>>] = NamesTurn(x, set)
  OBVIOUS
<1>4. g = CHOOSE h : Def(h)
  BY DEF NamesRun
<1> HIDE DEF start, step, n
<1>5. \E h : Def(h)
  <2>1. PICK f \in [0 .. n -> NameStates] :
          f[0] = start /\ \A k \in 1 .. n : f[k] = step[<<k, f[k - 1]>>]
    <3>1. HasRun(n, NameStates, start, step)
      BY <1>0, <1>1, <1>2, LoopRuns
    <3> QED
      BY <3>1 DEF HasRun
  <2>2. ASSUME NEW k \in 0 .. n
        PROVE  f[k] = IF k = 0 THEN start ELSE NamesTurn(f[k - 1], set)
    <3>1. CASE k = 0
      BY <2>1, <3>1
    <3>2. CASE k # 0
      <4>1. k \in 1 .. n /\ k - 1 \in 0 .. n
        BY <1>0, <3>2
      <4> QED
        BY <1>3, <2>1, <3>2, <4>1
    <3> QED
      BY <3>1, <3>2
  <2>3. Def(f)
    BY <2>2
  <2> QED
    BY <2>3
<1>6. Def(g)
  <2> HIDE DEF Def
  <2> QED
    BY <1>4, <1>5
<1>7. g[0] = start
  BY <1>0, <1>6
<1>8. ASSUME NEW k \in 1 .. n PROVE g[k] = NamesTurn(g[k - 1], set)
  <2>1. k \in 0 .. n /\ k # 0
    BY <1>0
  <2> QED
    BY <1>6, <2>1
<1>9. \A k \in 0 .. n : g[k] \in NameStates
  <2> DEFINE S == {k \in 0 .. n : g[k] \in NameStates}
  <2>1. 0 \in S
    BY <1>0, <1>1, <1>7
  <2>2. ASSUME NEW k \in 1 .. n, k - 1 \in S PROVE k \in S
    BY <1>0, <1>8, <2>2, NamesTurnType
  <2>3. \A k \in 0 .. n : k \in S
    <3> HIDE DEF S
    <3> QED
      BY <1>0, <2>1, <2>2, RangeInduction
  <2> QED
    BY <2>3
<1> QED
  BY <1>7, <1>8, <1>9 DEF NamesFollow, start, n

\* The words up to the end of the next one.
LEMMA NextWordStarts ==
  ASSUME NEW s \in Texts, NEW b \in 0 .. Len(s), NEW i, NEW l, NextWord(s, b, i, l)
  PROVE  /\ {k \in WordStarts(s) : k <= l} = {k \in WordStarts(s) : k <= b} \cup {i}
         /\ IsBetween(s, l) /\ l \in 0 .. Len(s) /\ i \in 1 .. Len(s)
         /\ l > b /\ i <= l
         /\ {k \in WordStarts(s) : k <= b} \in SUBSET (1 .. Len(s))
         /\ \A k \in {j \in WordStarts(s) : j <= b} : k < i
<1>0. /\ Len(s) \in Nat /\ i \in 1 .. Len(s) /\ l \in i .. Len(s) /\ i > b
      /\ i \in WordStarts(s)
  BY LenProperties DEF Texts, NextWord, WordFrom
<1>1. ASSUME NEW k \in WordStarts(s), k <= l, ~(k <= b) PROVE k = i
  <2>1. k \in 1 .. Len(s) /\ s[k] \in WordChars /\ (k = 1 \/ s[k - 1] \notin WordChars)
    BY <1>1 DEF WordStarts
  <2>2. ~(k < i)
    <3>1. SUFFICES ASSUME k < i PROVE FALSE
      OBVIOUS
    <3>2. k \in b + 1 .. i - 1
      BY <1>0, <1>1, <2>1, <3>1
    <3> QED
      BY <2>1, <3>2 DEF NextWord
  <2>3. ~(i < k)
    <3>1. SUFFICES ASSUME i < k PROVE FALSE
      OBVIOUS
    <3>2. k - 1 \in i .. l /\ k # 1
      BY <1>0, <1>1, <2>1, <3>1
    <3> QED
      BY <2>1, <3>2 DEF NextWord, WordFrom
  <2> QED
    BY <1>0, <2>1, <2>2, <2>3
<1>2. \A k \in WordStarts(s) : k \in 1 .. Len(s)
  BY DEF WordStarts
<1>3. \A k \in WordStarts(s) : k <= b => k <= l /\ k < i
  BY <1>0, <1>2
<1>4. i <= l /\ l > b
  BY <1>0
<1>5. IsBetween(s, l) /\ l \in 0 .. Len(s)
  BY <1>0 DEF IsBetween, NextWord, WordFrom
<1>6. {k \in WordStarts(s) : k <= l} = {k \in WordStarts(s) : k <= b} \cup {i}
  BY <1>0, <1>1, <1>3, <1>4
<1> QED
  BY <1>0, <1>2, <1>3, <1>4, <1>5, <1>6

\* The names are the words of s up to a place b, behind which the loop finds
\* the rest. It goes on while there is a character of the set.
HasNames(s, tail, set, st, k) ==
  \E b \in 0 .. Len(s), m \in Nat :
    /\ Left(st.rest, s, b, m, tail) /\ IsBetween(s, b)
    /\ InOrder(st.names, WordsUpTo(s, b))
    /\ \A i \in WordStarts(s) : i <= b => i <= LastIn(s, set)
    /\ b >= k \/ LastIn(s, set) <= b

\* A turn, for what is left of a list.
LEMMA NamesStep ==
  ASSUME NEW set \in SUBSET WordChars, NEW st \in NameStates,
         NEW s \in Texts, NEW tail \in Texts, \A k \in 1 .. Len(tail) : tail[k] \notin WordChars,
         NEW n \in Nat, HasNames(s, tail, set, st, n)
  PROVE  HasNames(s, tail, set, NamesTurn(st, set), n + 1)
<1>0. PICK r, names : r = st.rest /\ names = st.names
  OBVIOUS
<1>1. /\ r \in Texts /\ names \in Seq(Texts) /\ Len(r) \in Nat /\ DOMAIN r = 1 .. Len(r)
      /\ Len(s) \in Nat /\ Len(tail) \in Nat /\ s \in Seq(Chars)
  BY <1>0, LenProperties DEF NameStates, Texts
<1>2. PICK b \in 0 .. Len(s), m \in Nat :
        /\ Left(r, s, b, m, tail) /\ IsBetween(s, b)
        /\ InOrder(names, WordsUpTo(s, b))
        /\ \A i \in WordStarts(s) : i <= b => i <= LastIn(s, set)
        /\ b >= n \/ LastIn(s, set) <= b
  BY <1>0 DEF HasNames
<1>3. PICK last : last = LastIn(s, set)
  OBVIOUS
<1>4. \/ last = 0 /\ \A j \in 1 .. Len(s) : s[j] \notin set
      \/ last \in 1 .. Len(s) /\ s[last] \in set /\ \A j \in last + 1 .. Len(s) : s[j] \notin set
  BY <1>1, <1>3, LastInLemma
<1>5. /\ Len(r) = m + (Len(s) - b) + Len(tail)
      /\ \A k \in 1 .. m : r[k] \notin WordChars
      /\ \A k \in b + 1 .. Len(s) : r[m + (k - b)] = s[k]
      /\ \A k \in 1 .. Len(tail) : r[m + (Len(s) - b) + k] = tail[k]
  BY <1>2 DEF Left
<1>6. CASE ToSet(r) \cap set = {}
  <2>1. last <= b
    <3>1. SUFFICES ASSUME ~(last <= b) PROVE FALSE
      OBVIOUS
    <3>2. last \in b + 1 .. Len(s) /\ s[last] \in set
      BY <1>1, <1>4, <3>1
    <3>3. PICK j : j = m + (last - b)
      OBVIOUS
    <3>4. j \in 1 .. Len(r) /\ r[j] = s[last]
      BY <1>1, <1>5, <3>2, <3>3
    <3> QED
      BY <1>1, <1>6, <3>2, <3>4 DEF ToSet
  <2>2. NamesTurn(st, set) = st
    BY <1>0, <1>6 DEF NamesTurn
  <2> QED
    BY <1>0, <1>2, <1>3, <2>1, <2>2 DEF HasNames
<1>7. CASE ToSet(r) \cap set # {}
  <2>1. PICK x \in 1 .. Len(r) : r[x] \in set
    BY <1>1, <1>7 DEF ToSet
  <2>2. x > m
    BY <1>1, <1>5, <2>1
  <2>3. x <= m + (Len(s) - b)
    <3>1. SUFFICES ASSUME ~(x <= m + (Len(s) - b)) PROVE FALSE
      BY <1>1
    <3>2. PICK k : k = x - (m + (Len(s) - b))
      OBVIOUS
    <3>3. k \in 1 .. Len(tail) /\ m + (Len(s) - b) + k = x
      BY <1>1, <1>5, <2>1, <3>1, <3>2
    <3> QED
      BY <1>5, <2>1, <3>3
  <2>4. PICK j : j = x - m + b
    OBVIOUS
  <2>5. j \in b + 1 .. Len(s) /\ j \in 1 .. Len(s) /\ m + (j - b) = x
    BY <1>1, <2>1, <2>2, <2>3, <2>4
  <2>6. s[j] \in set
    BY <1>5, <2>1, <2>5
  <2>7. last \in 1 .. Len(s) /\ j <= last
    BY <1>1, <1>4, <2>5, <2>6
  <2>8. PICK i \in 1 .. j, l \in 1 .. Len(s) : NextWord(s, b, i, l)
    <3>1. s[j] \in WordChars
      BY <2>6
    <3> QED
      BY <1>2, <2>5, <3>1, HasNextWord
  <2>9. PICK name, e : name = ChannelName(r) /\ e = EraseText(r, name)
    OBVIOUS
  <2>10. /\ name = WordAt(s, i) /\ e \in Texts /\ name \in Texts
         /\ Left(e, s, l, m + (i - 1 - b), tail)
    <3>1. tail # <<>> => tail[1] \notin WordChars
      <4>1. tail # <<>> => 1 \in 1 .. Len(tail)
        <5>1. tail # <<>> => Len(tail) # 0
          BY EmptySeq DEF Texts
        <5> QED
          BY <1>1, <5>1
      <4> QED
        BY <4>1
    <3> QED
      BY <1>1, <1>2, <2>8, <2>9, <3>1, TakeWord, WordIsText
  <2>11. NamesTurn(st, set) = [names |-> Append(names, name), rest |-> e]
    BY <1>0, <1>7, <2>9, Zenon DEF NamesTurn
  <2> DEFINE D == {k \in WordStarts(s) : k <= b}
             E == {k \in WordStarts(s) : k <= l}
  <2>12. /\ E = D \cup {i} /\ IsBetween(s, l) /\ l \in 0 .. Len(s) /\ i \in 1 .. Len(s)
         /\ l > b /\ i <= l /\ D \in SUBSET (1 .. Len(s)) /\ \A k \in D : k < i
    BY <2>8, NextWordStarts
  <2>13. /\ DOMAIN WordsUpTo(s, b) = D /\ DOMAIN WordsUpTo(s, l) = E
         /\ \A k \in D : WordsUpTo(s, b)[k] = WordAt(s, k)
         /\ \A k \in E : WordsUpTo(s, l)[k] = WordAt(s, k)
    BY DEF WordsUpTo
  <2>14. InOrder(Append(names, name), WordsUpTo(s, l))
    <3>1. PICK v, w : v = WordsUpTo(s, b) /\ w = WordsUpTo(s, l)
      OBVIOUS
    <3> HIDE DEF D, E
    <3>2. AddsTo(w, v, Len(s), i, name)
      BY <2>10, <2>12, <2>13, <3>1 DEF AddsTo
    <3>3. InOrder(names, v)
      BY <1>2, <3>1
    <3>4. InOrder(Append(names, name), w)
      BY <1>1, <2>10, <3>2, <3>3, InOrderAppend
    <3> QED
      BY <3>1, <3>4
  <2>15. \A k \in WordStarts(s) : k <= l => k <= last
    <3>1. ASSUME NEW k \in WordStarts(s), k <= l PROVE k <= last
      <4>1. k \in D \/ k = i
        BY <2>12, <3>1
      <4>2. k = i => k <= last
        BY <1>1, <2>5, <2>7, <2>8
      <4> QED
        BY <1>2, <1>3, <4>1, <4>2
    <3> QED
      BY <3>1
  <2>16. l >= n + 1 \/ last <= l
    BY <1>1, <1>2, <1>3, <2>7, <2>12
  <2>17. m + (i - 1 - b) \in Nat
    BY <2>10 DEF Left
  <2>18. PICK t : t = NamesTurn(st, set)
    OBVIOUS
  <2>19. t.names = Append(names, name) /\ t.rest = e
    BY <2>11, <2>18
  <2>20. HasNames(s, tail, set, t, n + 1)
    <3> HIDE DEF D, E
    <3>1. PICK c : c = m + (i - 1 - b)
      OBVIOUS
    <3>2. c \in Nat /\ Left(t.rest, s, l, c, tail) /\ InOrder(t.names, WordsUpTo(s, l))
      BY <2>10, <2>14, <2>17, <2>19, <3>1
    <3> QED
      BY <1>3, <2>12, <2>15, <2>16, <3>2 DEF HasNames
  <2> QED
    BY <2>18, <2>20
<1> QED
  BY <1>6, <1>7

\* The loop comes to the words of a list, behind which there may be others
\* than word characters, as far as a character of the set follows.
LEMMA NamesAre ==
  ASSUME NEW set \in SUBSET WordChars, NEW message \in Texts,
         NEW s \in Texts, NEW tail \in Texts, \A k \in 1 .. Len(tail) : tail[k] \notin WordChars,
         Left(message, s, 0, 0, tail)
  PROVE  InOrder(Names(message, set), WordsUpTo(s, LastIn(s, set)))
<1>0. /\ Len(s) \in Nat /\ Len(message) \in Nat /\ Len(tail) \in Nat /\ s \in Seq(Chars)
      /\ Len(message) = Len(s) + Len(tail)
  BY LenProperties DEF Texts, Left
<1>1. PICK g, last, end : g = NamesRun(message, set) /\ last = LastIn(s, set) /\ end = Len(message)
  OBVIOUS
<1>2. /\ g[0] = [names |-> <<>>, rest |-> message]
      /\ \A k \in 0 .. end : g[k] \in NameStates
      /\ \A k \in 1 .. end : g[k] = NamesTurn(g[k - 1], set)
  <2>1. NamesFollow(g, message, set)
    BY <1>1, NamesRunIs
  <2> QED
    BY <1>1, <2>1 DEF NamesFollow
<1>3. HasNames(s, tail, set, g[0], 0)
  <2>1. g[0].rest = message /\ g[0].names = <<>>
    BY <1>2
  <2>2. 0 \in 0 .. Len(s) /\ IsBetween(s, 0) /\ 0 \in Nat /\ 0 >= 0
    BY <1>0 DEF IsBetween
  <2>3. \A i \in WordStarts(s) : ~(i <= 0)
    BY <1>0 DEF WordStarts
  <2>4. InOrder(<<>>, WordsUpTo(s, 0))
    <3>1. DOMAIN WordsUpTo(s, 0) = {}
      BY <2>3 DEF WordsUpTo
    <3> QED
      BY <3>1, InOrderEmpty
  <2> QED
    BY <2>1, <2>2, <2>3, <2>4 DEF HasNames
<1>4. \A k \in 0 .. end : HasNames(s, tail, set, g[k], k)
  <2> DEFINE S == {k \in 0 .. end : HasNames(s, tail, set, g[k], k)}
  <2>1. 0 \in S
    BY <1>0, <1>1, <1>3
  <2>2. ASSUME NEW k \in 1 .. end, k - 1 \in S PROVE k \in S
    <3>1. PICK j : j = k - 1
      OBVIOUS
    <3>2. j \in Nat /\ j \in 0 .. end /\ j + 1 = k /\ k \in 0 .. end
      BY <1>0, <1>1, <3>1
    <3>3. g[j] \in NameStates /\ HasNames(s, tail, set, g[j], j) /\ g[k] = NamesTurn(g[j], set)
      BY <1>2, <2>2, <3>1, <3>2
    <3>4. HasNames(s, tail, set, NamesTurn(g[j], set), j + 1)
      BY <3>2, <3>3, NamesStep
    <3> QED
      BY <3>2, <3>3, <3>4
  <2>3. \A k \in 0 .. end : k \in S
    <3> HIDE DEF S
    <3> QED
      BY <1>0, <1>1, <2>1, <2>2, RangeInduction
  <2> QED
    BY <2>3
<1>5. HasNames(s, tail, set, g[end], end)
  <2>1. end \in 0 .. end
    BY <1>0, <1>1
  <2> QED
    BY <1>4, <2>1
<1>6. PICK b \in 0 .. Len(s) :
        /\ InOrder(g[end].names, WordsUpTo(s, b))
        /\ \A i \in WordStarts(s) : i <= b => i <= last
        /\ b >= end \/ last <= b
  BY <1>1, <1>5 DEF HasNames
<1>7. last \in 0 .. Len(s)
  <2>1. last = 0 \/ last \in 1 .. Len(s)
    BY <1>0, <1>1, LastInLemma
  <2> QED
    BY <1>0, <2>1
<1>8. \A i \in WordStarts(s) : i <= b <=> i <= last
  <2>1. last <= b
    BY <1>0, <1>1, <1>6, <1>7
  <2>2. \A i \in WordStarts(s) : i \in Nat
    BY DEF WordStarts
  <2> QED
    BY <1>6, <1>7, <2>1, <2>2
<1>9. WordsUpTo(s, b) = WordsUpTo(s, last)
  <2>1. {k \in WordStarts(s) : k <= b} = {k \in WordStarts(s) : k <= last}
    BY <1>8
  <2> QED
    BY <2>1 DEF WordsUpTo
<1>10. Names(message, set) = g[end].names
  BY <1>1 DEF Names
<1> QED
  BY <1>1, <1>6, <1>9, <1>10

\* What find returns, for a text that occurs in another one.
LEMMA FoundText ==
  ASSUME NEW s \in Texts, NEW t \in Texts, NEW q \in 0 .. Len(s), OccursAt(s, t, q),
         NEW p, p = FindText(s, t)
  PROVE  p \in 0 .. q /\ OccursAt(s, t, p) /\ \A k \in 0 .. p - 1 : ~OccursAt(s, t, k)
<1> DEFINE T == {k \in 0 .. Len(s) : OccursAt(s, t, k)}
           P(k) == k \in 0 .. Len(s) /\ OccursAt(s, t, k) /\ \A j \in 0 .. k - 1 : ~OccursAt(s, t, j)
<1>0. Len(s) \in Nat
  BY LenProperties DEF Texts
<1>1. PICK k \in T : \A j \in T : k <= j
  <2>1. T \in SUBSET Nat /\ q \in T
    OBVIOUS
  <2> HIDE DEF T
  <2> QED
    BY <2>1, LeastElement
<1>2. P(k)
  <2>1. ASSUME NEW j \in 0 .. k - 1 PROVE ~OccursAt(s, t, j)
    <3>1. j \in 0 .. Len(s) /\ ~(k <= j)
      BY <1>0, <1>1, <2>1
    <3> QED
      BY <1>1, <3>1
  <2> QED
    BY <1>1, <2>1
<1>3. p = CHOOSE j : P(j)
  BY DEF FindText
<1>4. P(p)
  <2> HIDE DEF P
  <2> QED
    BY <1>2, <1>3
<1>5. p <= q
  BY <1>0, <1>4
<1> QED
  BY <1>0, <1>4, <1>5

\* Erasing nothing changes nothing.
LEMMA EraseNothing ==
  ASSUME NEW s \in Texts
  PROVE  EraseText(s, <<>>) = s
<1>0. Len(s) \in Nat /\ s \in Seq(Chars)
  BY LenProperties DEF Texts
<1>1. PICK e, o : e = EraseText(s, <<>>) /\ o = 0
  OBVIOUS
<1>2. o \in 0 .. Len(s) /\ o \in o .. Len(s) /\ <<>> = SubSeq(s, o + 1, o)
      /\ \A q \in 0 .. o - 1 : ~OccursAt(s, <<>>, q)
  <2>1. SubSeq(s, o + 1, o) = <<>>
    <3>1. o + 1 \in 1 .. Len(s) + 1 /\ o \in o + 1 - 1 .. Len(s)
      BY <1>0, <1>1
    <3> QED
      BY <1>1, <3>1, PartChars
  <2> QED
    BY <1>0, <1>1, <2>1
<1>3. e = SubSeq(s, 1, o) \o SubSeq(s, o + 1, Len(s))
  BY <1>1, <1>2, EraseAt
<1>4. Erased(s, o, o, e)
  BY <1>2, <1>3, ErasedChars
<1>5. e \in Seq(Chars) /\ Len(e) = Len(s) /\ \A k \in 1 .. Len(e) : e[k] = s[k]
  <2>1. e \in Seq(Chars) /\ Len(e) = Len(s) - (o - o)
    BY <1>4 DEF Erased, Texts
  <2>2. ASSUME NEW k \in o + 1 .. Len(e) PROVE e[k] = s[k]
    <3>1. e[k] = s[k + (o - o)]
      BY <1>4, <2>2 DEF Erased
    <3>2. k + (o - o) = k
      BY <1>1, <2>2
    <3> QED
      BY <3>1, <3>2
  <2> QED
    BY <1>0, <1>1, <2>1, <2>2
<1> QED
  BY <1>0, <1>1, <1>5, SeqEqual

\* What part() has of a message with its first colon at c: it leaves the list
\* and one more character, the colon, also when all of the reason are colons.
LEMMA ReasonErased ==
  ASSUME NEW s \in Texts, NEW c \in 1 .. Len(s), s[c] = ":", \A j \in 1 .. c - 1 : s[j] # ":",
         Reason(s) = <<>> \/ FindText(s, Reason(s)) >= c - 1,
         NEW e, e = EraseText(s, Reason(s))
  PROVE  e \in Texts /\ Len(e) = c /\ e[c] = ":" /\ \A k \in 1 .. c - 1 : e[k] = s[k]
<1>0. /\ Len(s) \in Nat /\ s \in Seq(Chars) /\ Len(s) < NPos /\ NPos \in Int /\ NPos \in Nat
      /\ c \in Nat
  BY LenProperties, NPosIsInt DEF Texts
<1>1. PICK u, reason, l, d :
        /\ u = SubSeq(s, c, Len(s)) /\ reason = SubSeq(s, c + 1, Len(s))
        /\ l = Len(s) - c /\ d = c + 1
  OBVIOUS
<1>2. From(s, ":") = u
  <2>1. PICK n : n = c - 1
    OBVIOUS
  <2>2. n \in 0 .. Len(s) /\ n + 1 = c
    BY <1>0, <2>1
  <2>3. s[n + 1] = ":" /\ \A j \in 1 .. n : s[j] # ":"
    BY <2>1, <2>2
  <2>4. From(s, ":") = SubSeq(s, n + 1, Len(s))
    BY <2>2, <2>3, BeforeIs
  <2> QED
    BY <1>1, <2>2, <2>4
<1>3. u \in Texts /\ Len(u) = l + 1
  <2>1. c \in 1 .. Len(s) + 1 /\ Len(s) \in c - 1 .. Len(s) /\ Len(s) - c + 1 = l + 1
    BY <1>0, <1>1
  <2> QED
    BY <1>1, <2>1, PartLemma
<1>4. Reason(s) = reason
  <2>1. PICK m, n : m = 2 /\ n = l + 1
    OBVIOUS
  <2>2. 1 \in 0 .. Len(u) /\ NPos >= Len(u) - 1 /\ 1 + 1 = m
    BY <1>0, <1>1, <1>3, <2>1
  <2>3. Substr(u, 1, NPos) = SubSeq(u, 1 + 1, Len(u))
    BY <1>0, <1>3, <2>2, SubstrPart
  <2>4. /\ c \in 1 .. Len(s) + 1 /\ Len(s) \in c - 1 .. Len(s)
        /\ m \in 1 .. Len(s) - c + 2 /\ n \in m - 1 .. Len(s) - c + 1
        /\ c + m - 1 = c + 1 /\ c + n - 1 = Len(s) /\ Len(u) = n
    BY <1>0, <1>1, <1>3, <2>1
  <2>5. SubSeq(SubSeq(s, c, Len(s)), m, n) = SubSeq(s, c + m - 1, c + n - 1)
    BY <2>4, PartOfPart
  <2>6. SubSeq(u, m, n) = reason
    BY <1>1, <2>4, <2>5
  <2>7. Reason(s) = SubSeq(u, m, n)
    BY <1>2, <2>2, <2>3, <2>4 DEF Reason
  <2> QED
    BY <2>6, <2>7
<1>5. /\ reason \in Texts /\ Len(reason) = l /\ l \in Nat /\ d \in Nat
      /\ \A k \in 1 .. l : reason[k] = s[c + k]
  <2>1. d \in 1 .. Len(s) + 1 /\ Len(s) \in d - 1 .. Len(s) /\ Len(s) - d + 1 = l /\ l \in Nat
    BY <1>0, <1>1
  <2>2. /\ reason \in Texts /\ Len(reason) = Len(s) - d + 1
        /\ \A k \in 1 .. Len(s) - d + 1 : reason[k] = s[d + k - 1]
    BY <1>1, <2>1, PartLemma
  <2>3. ASSUME NEW k \in 1 .. l PROVE reason[k] = s[c + k]
    <3>1. k \in 1 .. Len(s) - d + 1 /\ d + k - 1 = c + k
      BY <1>0, <1>1, <2>1
    <3>2. reason[k] = s[d + k - 1]
      BY <2>2, <3>1
    <3> QED
      BY <3>1, <3>2
  <2> QED
    BY <1>0, <1>1, <2>1, <2>2, <2>3
<1>6. CASE reason = <<>>
  <2>1. e = s
    BY <1>4, <1>6, EraseNothing
  <2>2. l = 0
    BY <1>5, <1>6, EmptySeq
  <2> QED
    BY <1>0, <1>1, <2>1, <2>2
<1>7. CASE reason # <<>>
  <2>1. PICK p : p = FindText(s, reason)
    OBVIOUS
  <2>2. OccursAt(s, reason, c)
    <3>1. c \in 0 .. Len(s) /\ c + Len(reason) <= Len(s)
      BY <1>0, <1>1, <1>5
    <3> QED
      BY <1>5, <3>1, OccursIs
  <2>3. p \in 0 .. c /\ OccursAt(s, reason, p) /\ \A k \in 0 .. p - 1 : ~OccursAt(s, reason, k)
    <3>1. c \in 0 .. Len(s)
      BY <1>0
    <3> QED
      BY <1>5, <2>1, <2>2, <3>1, FoundText
  <2>4. p >= c - 1
    BY <1>4, <1>7, <2>1
  <2>5. PICK n : n = p + l
    OBVIOUS
  <2>6. p \in 0 .. Len(s) /\ n \in p .. Len(s) /\ n - p = l /\ p \in Nat
    BY <1>0, <1>1, <1>5, <2>3, <2>5
  <2>7. \A k \in 1 .. l : s[p + k] = s[c + k]
    <3>1. \A k \in 1 .. Len(reason) : s[p + k] = reason[k]
      BY <1>5, <2>3, <2>6, OccursIs
    <3> QED
      BY <1>5, <3>1
  <2>8. reason = SubSeq(s, p + 1, n)
    <3>1. l <= Len(s) - p
      BY <1>0, <2>5, <2>6
    <3>2. Substr(s, p, l) = SubSeq(s, p + 1, p + l)
      BY <1>5, <2>6, <3>1, SubstrPart
    <3> QED
      BY <1>5, <2>3, <2>5, <3>2 DEF OccursAt
  <2>9. e = SubSeq(s, 1, p) \o SubSeq(s, n + 1, Len(s))
    <3>1. EraseText(s, reason) = SubSeq(s, 1, p) \o SubSeq(s, n + 1, Len(s))
      BY <2>3, <2>6, <2>8, EraseAt
    <3> QED
      BY <1>4, <3>1
  <2>10. Erased(s, p, n, e)
    BY <2>6, <2>9, ErasedChars
  <2>11. /\ e \in Texts /\ Len(e) = c
         /\ \A k \in 1 .. p : e[k] = s[k]
         /\ \A k \in p + 1 .. c : e[k] = s[k + l]
    <3>1. /\ e \in Texts /\ Len(e) = Len(s) - (n - p)
          /\ \A k \in 1 .. p : e[k] = s[k]
          /\ \A k \in p + 1 .. Len(e) : e[k] = s[k + (n - p)]
      BY <2>10 DEF Erased
    <3>2. Len(s) - (n - p) = c /\ n - p = l
      BY <1>0, <1>1, <2>6
    <3> QED
      BY <3>1, <3>2
  <2>12. \A k \in 1 .. c - 1 : e[k] = s[k]
    BY <1>0, <2>4, <2>6, <2>11
  <2>13. CASE p = c
    <3>1. c \in 1 .. p
      BY <1>0, <2>13
    <3> QED
      BY <2>11, <2>12, <3>1
  <2>14. CASE p = c - 1
    <3>1. \A k \in 0 .. l : s[c + k] = ":"
      <4> DEFINE S == {k \in 0 .. l : s[c + k] = ":"}
      <4>1. 0 \in S
        BY <1>0, <1>5
      <4>2. ASSUME NEW k \in 1 .. l, k - 1 \in S PROVE k \in S
        <5>1. PICK j : j = c + (k - 1)
          OBVIOUS
        <5>2. p + k = j /\ s[j] = ":" /\ k \in 0 .. l
          BY <1>0, <1>5, <2>14, <4>2, <5>1
        <5> QED
          BY <2>7, <5>2
      <4>3. \A k \in 0 .. l : k \in S
        <5> HIDE DEF S
        <5> QED
          BY <1>5, <4>1, <4>2, RangeInduction
      <4> QED
        BY <4>3
    <3>2. c \in p + 1 .. c /\ l \in 0 .. l
      BY <1>0, <1>5, <2>14
    <3>3. e[c] = s[c + l]
      BY <2>11, <3>2
    <3> QED
      BY <2>11, <2>12, <3>1, <3>2, <3>3
  <2> QED
    BY <1>0, <2>3, <2>4, <2>13, <2>14
<1> QED
  BY <1>6, <1>7

\* The rest of nothing.
LEMMA NothingBehind == Substr(<<>>, 1, NPos) = <<>>
<1>0. NPos \in Int /\ NPos >= 0
  BY NPosIsInt, CommandLineAssumption
<1>1. Substr(<<>>, 1, NPos) = SubSeq(<<>>, 2, 0)
  <2>1. Len(<<>>) = 0 /\ NPos > 0 - 1 /\ 1 + 1 = 2
    BY <1>0, EmptySeq
  <2> QED
    BY <2>1 DEF Substr
<1>2. <<>> \in Seq(Chars) /\ Len(<<>>) = 0
  BY EmptySeq
<1>3. SubSeq(<<>>, 2, 0) \in Seq(Chars) /\ Len(SubSeq(<<>>, 2, 0)) = 0
  BY <1>2, SubSeqProperties
<1> QED
  BY <1>1, <1>3, EmptySeq

\* Without a colon there is no reason.
LEMMA NoReason ==
  ASSUME NEW s \in Texts, \A j \in 1 .. Len(s) : s[j] # ":"
  PROVE  Reason(s) = <<>>
<1>0. Len(s) \in Nat
  BY LenProperties DEF Texts
<1>1. PICK n : n = Len(s)
  OBVIOUS
<1>2. From(s, ":") = SubSeq(s, n + 1, Len(s))
  <2>1. n \in 0 .. Len(s) /\ n = Len(s)
    BY <1>0, <1>1
  <2>2. \A j \in 1 .. n : s[j] # ":"
    BY <1>1
  <2> QED
    BY <2>1, <2>2, BeforeIs
<1>3. SubSeq(s, n + 1, Len(s)) = <<>>
  <2>1. PICK i, j : i = n + 1 /\ j = Len(s)
    OBVIOUS
  <2>2. i \in 1 .. Len(s) + 1 /\ j \in i - 1 .. Len(s) /\ j = i - 1
    BY <1>0, <1>1, <2>1
  <2> QED
    BY <2>1, <2>2, PartChars
<1> QED
  BY <1>2, <1>3, NothingBehind DEF Reason

\* The words of a list of which the loop has read everything.
LEMMA AllWords ==
  ASSUME NEW s \in Texts
  PROVE  WordsUpTo(s, LastIn(s, WordChars)) = WordsUpTo(s, Len(s))
<1>1. PICK last : last = LastIn(s, WordChars)
  OBVIOUS
<1>2. /\ s \in Seq(Chars) /\ Len(s) \in Nat
      /\ \/ last = 0 /\ \A j \in 1 .. Len(s) : s[j] \notin WordChars
         \/ /\ last \in 1 .. Len(s)
            /\ \A j \in last + 1 .. Len(s) : s[j] \notin WordChars
  BY <1>1, LenProperties, LastInLemma DEF Texts
<1>3. ASSUME NEW k \in WordStarts(s) PROVE k <= last /\ k <= Len(s)
  BY <1>2 DEF WordStarts
<1>4. {k \in WordStarts(s) : k <= last} = {k \in WordStarts(s) : k <= Len(s)}
  BY <1>3
<1> QED
  BY <1>1, <1>4 DEF WordsUpTo

LEMMA LettersLastWords ==
  ASSUME NEW s \in Texts, LettersLast(s)
  PROVE  WordsUpTo(s, LastIn(s, Alpha)) = WordsOf(s)
<1>1. PICK last : last = LastIn(s, Alpha)
  OBVIOUS
<1>2. ASSUME NEW k \in WordStarts(s) PROVE k <= last /\ k <= Len(s)
  <2>1. k <= last
    BY <1>1 DEF LettersLast
  <2>2. k <= Len(s)
    BY LenProperties DEF Texts, WordStarts
  <2> QED
    BY <2>1, <2>2
<1>3. {k \in WordStarts(s) : k <= last} = {k \in WordStarts(s) : k <= Len(s)}
  BY <1>2
<1> QED
  BY <1>1, <1>3 DEF WordsUpTo, WordsOf

LEMMA WordsAt ==
  ASSUME NEW s \in Texts
  PROVE  DOMAIN WordsOf(s) = WordStarts(s) /\ \A k \in WordStarts(s) : WordsOf(s)[k] = WordAt(s, k)
<1>1. \A k \in WordStarts(s) : k <= Len(s)
  BY LenProperties DEF Texts, WordStarts
<1> QED
  BY <1>1 DEF WordsOf, WordsUpTo

\* PART leaves the channels in front of the first colon,
LEMMA PartsBefore ==
  ASSUME NEW s \in Texts, NEW c \in 1 .. Len(s), s[c] = ":", \A j \in 1 .. c - 1 : s[j] # ":",
         NEW list, list = SubSeq(s, 1, c - 1),
         Reason(s) = <<>> \/ FindText(s, Reason(s)) >= Len(list)
  PROVE  InOrder(Parts(s), WordsUpTo(list, LastIn(list, Alpha)))
<1>0. /\ Len(s) \in Nat /\ c \in Nat
      /\ Alpha \in SUBSET WordChars /\ ":" \notin WordChars
  BY LenProperties, CommandLineAssumption DEF Texts, WordChars
<1> PICK e : e = EraseText(s, Reason(s))
  OBVIOUS
<1>1. PICK tail, n : tail = SubSeq(s, c, c) /\ n = c - 1
  OBVIOUS
<1>2. /\ list \in Texts /\ Len(list) = n /\ n \in Nat
      /\ \A k \in 1 .. n : list[k] = s[k]
  <2>1. 1 \in 1 .. Len(s) + 1 /\ n \in 1 - 1 .. Len(s) /\ n - 1 + 1 = n /\ n \in Nat
    BY <1>0, <1>1
  <2>2. list = SubSeq(s, 1, n)
    BY <1>0, <1>1
  <2>3. /\ list \in Texts /\ Len(list) = n - 1 + 1
        /\ \A k \in 1 .. n - 1 + 1 : list[k] = s[1 + k - 1]
    BY <2>1, <2>2, PartLemma
  <2>4. \A k \in 1 .. n : 1 + k - 1 = k
    OBVIOUS
  <2> QED
    BY <2>1, <2>3, <2>4
<1>3. tail \in Texts /\ Len(tail) = 1 /\ tail[1] = s[c]
  <2>1. c \in 1 .. Len(s) + 1 /\ c \in c - 1 .. Len(s) /\ c - c + 1 = 1 /\ c + 1 - 1 = c
    BY <1>0
  <2>2. tail \in Texts /\ Len(tail) = c - c + 1 /\ \A k \in 1 .. c - c + 1 : tail[k] = s[c + k - 1]
    BY <1>1, <2>1, PartLemma
  <2>3. 1 \in 1 .. c - c + 1 /\ tail[1] = s[c + 1 - 1]
    BY <2>1, <2>2
  <2> QED
    BY <2>1, <2>2, <2>3
<1>4. e \in Texts /\ Len(e) = c /\ e[c] = ":" /\ \A k \in 1 .. c - 1 : e[k] = s[k]
  <2>1. Reason(s) = <<>> \/ FindText(s, Reason(s)) >= c - 1
    BY <1>1, <1>2
  <2> QED
    BY <1>0, <2>1, ReasonErased
<1>5. Left(e, list, 0, 0, tail)
  <2>1. Len(e) = 0 + (Len(list) - 0) + Len(tail) /\ 0 + (Len(list) - 0) + 1 = c
    BY <1>0, <1>1, <1>2, <1>3, <1>4
  <2>2. \A k \in 0 + 1 .. Len(list) : e[0 + (k - 0)] = list[k]
    BY <1>1, <1>2, <1>4
  <2>3. \A k \in 1 .. Len(tail) : e[0 + (Len(list) - 0) + k] = tail[k]
    <3>1. ASSUME NEW k \in 1 .. Len(tail) PROVE e[0 + (Len(list) - 0) + k] = tail[k]
      <4>1. k = 1 /\ tail[k] = ":"
        BY <1>0, <1>3, <3>1
      <4> QED
        BY <1>4, <2>1, <4>1
    <3> QED
      BY <3>1
  <2>4. 0 \in Nat /\ \A k \in 1 .. 0 : e[k] \notin WordChars
    OBVIOUS
  <2> QED
    BY <2>1, <2>2, <2>3, <2>4 DEF Left
<1>6. \A k \in 1 .. Len(tail) : tail[k] \notin WordChars
  BY <1>0, <1>3
<1>7. InOrder(Names(e, Alpha), WordsUpTo(list, LastIn(list, Alpha)))
  BY <1>0, <1>2, <1>3, <1>4, <1>5, <1>6, NamesAre
<1> QED
  BY <1>7 DEF Parts

\* or all of them.
LEMMA PartsWithout ==
  ASSUME NEW s \in Texts, \A j \in 1 .. Len(s) : s[j] # ":"
  PROVE  InOrder(Parts(s), WordsUpTo(s, LastIn(s, Alpha)))
<1>1. Alpha \in SUBSET WordChars
  BY DEF WordChars
<1>2. Parts(s) = Names(s, Alpha)
  <2>1. EraseText(s, Reason(s)) = s
    BY NoReason, EraseNothing
  <2> QED
    BY <2>1 DEF Parts
<1>3. \A k \in 1 .. Len(<<>>) : <<>>[k] \notin WordChars
  BY EmptySeq
<1>4. Left(s, s, 0, 0, <<>>) /\ <<>> \in Texts
  BY LeftAll
<1> QED
  BY <1>1, <1>2, <1>3, <1>4, NamesAre

\* NAMES asks about every word of a text, whatever the words are.
THEOREM NamesAreAsked == ParsingSpec => []NamesAsksEachWord
<1>1. TextInv => NamesAsksEachWord
  <2> SUFFICES ASSUME TextInv PROVE InOrder(Asked(text), WordsUpTo(text, Len(text)))
    BY DEF NamesAsksEachWord
  <2>1. text \in Texts
    BY DEF TextInv
  <2>2. Left(text, text, 0, 0, <<>>) /\ <<>> \in Texts
    BY <2>1, LeftAll
  <2>3. \A k \in 1 .. Len(<<>>) : <<>>[k] \notin WordChars
    BY EmptySeq
  <2>4. InOrder(Names(text, WordChars), WordsUpTo(text, LastIn(text, WordChars)))
    BY <2>1, <2>2, <2>3, NamesAre
  <2> QED
    BY <2>1, <2>4, AllWords DEF Asked
<1> QED
  BY <1>1, TextInvHolds, PTL

\* PART leaves the channels listed before the colon and no others, when a
\* letter follows or is in each, whatever the reason has in common with them
\* behind the list.
THEOREM ListedAreLeft == ParsingSpec => []PartLeavesListed
<1>1. TextInv => PartLeavesListed
  <2> SUFFICES ASSUME TextInv PROVE PartLeavesListed
    OBVIOUS
  <2>1. PICK c, list : /\ c = FirstIn(text, {":"}) /\ list = ListedIn(text)
                       /\ list = IF c = 0 THEN text ELSE SubSeq(text, 1, c - 1)
    BY DEF ListedIn
  <2>2. ASSUME LettersLast(list),
               Reason(text) = <<>> \/ FindText(text, Reason(text)) >= Len(list)
        PROVE  InOrder(Parts(text), WordsOf(list))
    <3>1. \/ c = 0 /\ \A j \in 1 .. Len(text) : text[j] \notin {":"}
          \/ c \in 1 .. Len(text) /\ text[c] \in {":"} /\ \A j \in 1 .. c - 1 : text[j] \notin {":"}
      BY <2>1, FirstInLemma DEF TextInv, Texts
    <3>2. CASE c = 0 /\ \A j \in 1 .. Len(text) : text[j] \notin {":"}
      <4>1. list = text /\ \A j \in 1 .. Len(text) : text[j] # ":"
        BY <2>1, <3>2
      <4>2. InOrder(Parts(list), WordsUpTo(list, LastIn(list, Alpha))) /\ list \in Texts
        BY <4>1, PartsWithout DEF TextInv
      <4>3. WordsUpTo(list, LastIn(list, Alpha)) = WordsOf(list)
        BY <2>2, <4>2, LettersLastWords
      <4> QED
        BY <4>1, <4>2, <4>3
    <3>3. CASE c \in 1 .. Len(text) /\ text[c] \in {":"} /\ \A j \in 1 .. c - 1 : text[j] \notin {":"}
      <4>1. /\ c \in 1 .. Len(text) /\ c # 0 /\ text[c] = ":"
            /\ \A j \in 1 .. c - 1 : text[j] # ":"
        BY <3>3
      <4>2. list = SubSeq(text, 1, c - 1)
        BY <2>1, <4>1
      <4>3. InOrder(Parts(text), WordsUpTo(list, LastIn(list, Alpha)))
        BY <2>2, <4>1, <4>2, PartsBefore DEF TextInv
      <4>4. list \in Texts
        <5>1. PICK n : n = c - 1
          OBVIOUS
        <5>2. 1 \in 1 .. Len(text) + 1 /\ n \in 1 - 1 .. Len(text)
          BY <4>1, <5>1, LenProperties DEF TextInv, Texts
        <5> QED
          BY <4>2, <5>1, <5>2, PartLemma DEF TextInv
      <4> QED
        BY <2>2, <4>3, <4>4, LettersLastWords
    <3> QED
      BY <3>1, <3>2, <3>3
  <2> QED
    BY <2>1, <2>2 DEF PartLeavesListed
<1> QED
  BY <1>1, TextInvHolds, PTL

----------------------------------------------------------------------------
(* JOIN *)

\* The word characters of the first characters of a text.
KeptFollow(kept, s) ==
  /\ kept[0] = <<>>
  /\ \A k \in 1 .. Len(s) :
       kept[k] = IF s[k] \in WordChars THEN Append(kept[k - 1], s[k]) ELSE kept[k - 1]
  /\ WordCharsOf(s) = kept[Len(s)]

\* WordCharsOf is defined by its recursion.
LEMMA WordCharsAre ==
  ASSUME NEW s \in Texts
  PROVE  \E kept \in [0 .. Len(s) -> Texts] : KeptFollow(kept, s)
<1> DEFINE n == Len(s)
           Next1(x, k) == IF s[k] \in WordChars THEN Append(x, s[k]) ELSE x
           Def(h) == h = [k \in 0 .. n |->
                            IF k = 0 THEN <<>>
                            ELSE IF s[k] \in WordChars THEN Append(h[k - 1], s[k]) ELSE h[k - 1]]
           step == [p \in (1 .. n) \X Seq(Chars) |-> Next1(p[2], p[1])]
<1>0. n \in Nat /\ n < NPos /\ NPos \in Int /\ \A k \in 1 .. n : s[k] \in Chars
  <2>1. n \in Nat /\ s \in Seq(Chars) /\ n < NPos
    BY LenProperties DEF Texts
  <2> QED
    BY <2>1, ElementOfSeq, NPosIsInt
<1>1. <<>> \in Seq(Chars) /\ Len(<<>>) = 0
  BY EmptySeq
<1>2. ASSUME NEW x \in Seq(Chars), NEW k \in 1 .. n
      PROVE  /\ Next1(x, k) \in Seq(Chars) /\ Len(x) \in Nat
             /\ Len(Next1(x, k)) \in Nat /\ Len(Next1(x, k)) <= Len(x) + 1
  <2>1. /\ Append(x, s[k]) \in Seq(Chars) /\ Len(Append(x, s[k])) = Len(x) + 1
        /\ Len(x) \in Nat
    BY <1>0, <1>2, AppendProperties, LenProperties
  <2> QED
    BY <1>2, <2>1
<1>3. step \in [(1 .. n) \X Seq(Chars) -> Seq(Chars)]
  BY <1>2
<1>4. \A k \in 1 .. n, x \in Seq(Chars) : step[<<k, x>>] = Next1(x, k)
  OBVIOUS
<1> HIDE DEF step, n
<1>5. \E h \in [0 .. n -> Seq(Chars)] : Def(h)
  <2>1. PICK f \in [0 .. n -> Seq(Chars)] :
          f[0] = <<>> /\ \A k \in 1 .. n : f[k] = step[<<k, f[k - 1]>>]
    <3>1. HasRun(n, Seq(Chars), <<>>, step)
      BY <1>0, <1>1, <1>3, LoopRuns
    <3> QED
      BY <3>1 DEF HasRun
  <2>2. ASSUME NEW k \in 0 .. n
        PROVE  f[k] = IF k = 0 THEN <<>> ELSE Next1(f[k - 1], k)
    <3>1. CASE k = 0
      BY <2>1, <3>1
    <3>2. CASE k # 0
      <4>1. k \in 1 .. n /\ k - 1 \in 0 .. n
        BY <1>0, <3>2
      <4>2. f[k - 1] \in Seq(Chars)
        BY <2>1, <4>1
      <4>3. f[k] = Next1(f[k - 1], k)
        BY <1>4, <2>1, <4>1, <4>2
      <4> QED
        BY <3>2, <4>3
    <3> QED
      BY <3>1, <3>2
  <2>3. Def(f)
    BY <2>1, <2>2
  <2> QED
    BY <2>1, <2>3
<1>6. PICK g : /\ g = (CHOOSE h : Def(h)) /\ WordCharsOf(s) = g[n]
  BY DEF WordCharsOf, n
<1>7. Def(g)
  <2> HIDE DEF Def
  <2> QED
    BY <1>5, <1>6
<1>8. g[0] = <<>>
  BY <1>0, <1>7
<1>9. ASSUME NEW k \in 1 .. n PROVE g[k] = Next1(g[k - 1], k)
  <2>1. k \in 0 .. n /\ k # 0
    BY <1>0
  <2> QED
    BY <1>7, <2>1
<1>10. \A k \in 0 .. n : g[k] \in Texts /\ Len(g[k]) <= k
  <2>0. PICK values : values = Seq(Chars)
    OBVIOUS
  <2> DEFINE S == {k \in 0 .. n : g[k] \in values /\ Len(g[k]) <= k}
  <2>1. 0 \in S
    <3>1. g[0] \in values /\ Len(g[0]) <= 0
      BY <1>1, <1>8, <2>0
    <3> QED
      BY <1>0, <3>1
  <2>2. ASSUME NEW k \in 1 .. n, k - 1 \in S PROVE k \in S
    <3>1. PICK x : x = g[k - 1]
      OBVIOUS
    <3>2. x \in Seq(Chars) /\ Len(x) <= k - 1 /\ g[k] = Next1(x, k)
      BY <1>9, <2>0, <2>2, <3>1
    <3>3. g[k] \in Seq(Chars) /\ Len(g[k]) \in Nat /\ Len(g[k]) <= Len(x) + 1 /\ Len(x) \in Nat
      BY <1>2, <3>2
    <3>4. g[k] \in values /\ Len(g[k]) <= k /\ k \in 0 .. n
      BY <1>0, <2>0, <3>2, <3>3
    <3> QED
      BY <3>4
  <2>3. \A k \in 0 .. n : k \in S
    <3> HIDE DEF S
    <3> QED
      BY <1>0, <2>1, <2>2, RangeInduction
  <2>4. ASSUME NEW k \in 0 .. n PROVE g[k] \in Texts /\ Len(g[k]) <= k
    <3>1. g[k] \in Seq(Chars) /\ Len(g[k]) <= k /\ Len(g[k]) \in Nat
      BY <2>0, <2>3, LenProperties
    <3> QED
      BY <1>0, <3>1 DEF Texts
  <2> QED
    BY <2>4
<1>11. g \in [0 .. n -> Texts]
  <2>1. DOMAIN g = 0 .. n /\ g = [k \in 0 .. n |-> g[k]]
    BY <1>7
  <2> QED
    BY <1>10, <2>1
<1>12. KeptFollow(g, s)
  BY <1>6, <1>8, <1>9 DEF KeptFollow, n
<1> QED
  BY <1>11, <1>12 DEF n

\* A word has word characters only.
LEMMA WordCharsOfWord ==
  ASSUME NEW s \in Texts, \A k \in 1 .. Len(s) : s[k] \in WordChars
  PROVE  WordCharsOf(s) = s
<1>0. Len(s) \in Nat /\ s \in Seq(Chars)
  BY LenProperties DEF Texts
<1>1. PICK kept \in [0 .. Len(s) -> Texts] : KeptFollow(kept, s)
  BY WordCharsAre
<1>2. \A k \in 0 .. Len(s) : Len(kept[k]) = k /\ \A i \in 1 .. k : kept[k][i] = s[i]
  <2> DEFINE S == {k \in 0 .. Len(s) : Len(kept[k]) = k /\ \A i \in 1 .. k : kept[k][i] = s[i]}
  <2>1. 0 \in S
    BY <1>0, <1>1, EmptySeq DEF KeptFollow
  <2>2. ASSUME NEW k \in 1 .. Len(s), k - 1 \in S PROVE k \in S
    <3>1. PICK x, j : x = kept[k - 1] /\ j = k - 1
      OBVIOUS
    <3>2. /\ j \in 0 .. Len(s) /\ j + 1 = k /\ k \in 0 .. Len(s)
          /\ Len(x) = j /\ \A i \in 1 .. j : x[i] = s[i]
      BY <1>0, <2>2, <3>1
    <3>3. x \in Seq(Chars) /\ s[k] \in Chars
      BY <1>0, <1>1, <3>1, <3>2, ElementOfSeq DEF Texts
    <3>4. kept[k] = Append(x, s[k])
      BY <1>1, <3>1 DEF KeptFollow
    <3>5. /\ Len(Append(x, s[k])) = k /\ Append(x, s[k])[k] = s[k]
          /\ \A i \in 1 .. j : Append(x, s[k])[i] = x[i]
      BY <3>2, <3>3, AppendProperties
    <3>6. \A i \in 1 .. k : i \in 1 .. j \/ i = k
      BY <3>2
    <3> QED
      BY <3>2, <3>4, <3>5, <3>6
  <2>3. \A k \in 0 .. Len(s) : k \in S
    <3> HIDE DEF S
    <3> QED
      BY <1>0, <2>1, <2>2, RangeInduction
  <2> QED
    BY <2>3
<1>3. PICK t : t = kept[Len(s)]
  OBVIOUS
<1>4. t \in Seq(Chars) /\ Len(t) = Len(s) /\ \A i \in 1 .. Len(s) : t[i] = s[i]
  <2>1. Len(s) \in 0 .. Len(s)
    BY <1>0
  <2> QED
    BY <1>1, <1>2, <1>3, <2>1 DEF Texts
<1>5. t = s
  BY <1>0, <1>4, SeqEqual
<1> QED
  BY <1>1, <1>3, <1>5 DEF KeptFollow

\* Other characters are left out.
LEMMA NoWordChars ==
  ASSUME NEW s \in Texts, \A k \in 1 .. Len(s) : s[k] \notin WordChars
  PROVE  WordCharsOf(s) = <<>>
<1>0. Len(s) \in Nat
  BY LenProperties DEF Texts
<1>1. PICK kept \in [0 .. Len(s) -> Texts] : KeptFollow(kept, s)
  BY WordCharsAre
<1>2. \A k \in 0 .. Len(s) : kept[k] = <<>>
  <2> DEFINE S == {k \in 0 .. Len(s) : kept[k] = <<>>}
  <2>1. 0 \in S
    BY <1>0, <1>1 DEF KeptFollow
  <2>2. ASSUME NEW k \in 1 .. Len(s), k - 1 \in S PROVE k \in S
    BY <1>0, <1>1, <2>2 DEF KeptFollow
  <2>3. \A k \in 0 .. Len(s) : k \in S
    <3> HIDE DEF S
    <3> QED
      BY <1>0, <2>1, <2>2, RangeInduction
  <2> QED
    BY <2>3
<1> QED
  BY <1>0, <1>1, <1>2 DEF KeptFollow

\* Behind the last blank, at p, and one comma at most the next key is what
\* stands from f to g, up to the next comma.
KeyAt(s, p, f, g) ==
  /\ p \in 1 .. Len(s) /\ s[p] = "sp" /\ \A j \in p + 1 .. Len(s) : s[j] # "sp"
  /\ f = IF p < Len(s) /\ s[p + 1] = "comma" THEN p + 2 ELSE p + 1
  /\ g \in f - 1 .. Len(s)
  /\ \A j \in f .. g : s[j] # "comma"
  /\ g = Len(s) \/ s[g + 1] = "comma"

\* retrieveKey
LEMMA RetrieveIs ==
  ASSUME NEW s \in Texts, NEW p, NEW f, NEW g, KeyAt(s, p, f, g)
  PROVE  RetrieveKey(s) = WordCharsOf(SubSeq(s, f, g))
<1>1. PICK n, begin, q : n = Len(s) - p /\ begin = f - p - 1 /\ q = g - f + 1
  OBVIOUS
<1>2. /\ Len(s) \in Nat /\ NPos \in Nat /\ NPos > Len(s)
      /\ p \in 1 .. Len(s) /\ s[p] = "sp" /\ n \in Nat
  BY <1>1, LenProperties, NPosIsInt DEF KeyAt, Texts
<1>3. begin = IF n > 0 /\ s[p + 1] = "comma" THEN 1 ELSE 0
  <2>1. f = IF n > 0 /\ s[p + 1] = "comma" THEN p + 2 ELSE p + 1
    BY <1>1, <1>2 DEF KeyAt
  <2> QED
    BY <1>1, <1>2, <2>1
<1>4. /\ f = p + 1 + begin /\ begin \in {0, 1} /\ begin <= n /\ f \in 1 .. Len(s) + 1
      /\ g \in f - 1 .. Len(s)
  <2>1. f = IF n > 0 /\ s[p + 1] = "comma" THEN p + 2 ELSE p + 1
    BY <1>1, <1>2 DEF KeyAt
  <2>2. begin \in {0, 1} /\ begin <= n /\ f = p + 1 + begin
    BY <1>2, <1>3, <2>1
  <2>3. f \in 1 .. Len(s) + 1
    BY <1>1, <1>2, <2>2
  <2> QED
    BY <2>2, <2>3 DEF KeyAt
<1>5. PICK i, end : i = p + 1 /\ end = Len(s)
  OBVIOUS
<1>6. PICK keys, rest : keys = SubSeq(s, i, end) /\ rest = SubSeq(s, f, end)
  OBVIOUS
<1>7. i \in 1 .. Len(s) + 1 /\ end \in i - 1 .. Len(s) /\ end - i + 1 = n
  BY <1>1, <1>2, <1>5
<1>8. keys \in Texts /\ Len(keys) = n /\ \A k \in 1 .. n : keys[k] = s[i + k - 1]
  BY <1>6, <1>7, PartLemma
<1>9. Substr(s, FindLast(s, "sp") + 1, NPos) = keys
  <2>1. PICK j : j = p - 1
    OBVIOUS
  <2>2. j \in 0 .. Len(s) - 1 /\ j + 1 = p /\ j + 2 = p + 1
    BY <1>2, <2>1
  <2>3. s[j + 1] = "sp" /\ \A k \in j + 2 .. Len(s) : s[k] # "sp"
    BY <1>2, <2>2 DEF KeyAt
  <2>4. FindLast(s, "sp") = j
    BY <2>2, <2>3, FindLastIs
  <2>5. p \in 0 .. Len(s) /\ NPos >= Len(s) - p
    BY <1>2
  <2>6. Substr(s, p, NPos) = SubSeq(s, p + 1, Len(s))
    BY <1>2, <2>5, SubstrPart
  <2> QED
    BY <1>5, <1>6, <2>2, <2>4, <2>6
<1>10. (IF Find(keys, "comma") = 0 THEN 1 ELSE 0) = begin
  <2>1. PICK c : c = Find(keys, "comma")
    OBVIOUS
  <2>2. \/ c = NPos /\ \A j \in 1 .. n : keys[j] # "comma"
        \/ c \in 0 .. n - 1 /\ keys[c + 1] = "comma" /\ \A j \in 1 .. c : keys[j] # "comma"
    BY <1>8, <2>1, FindLemma
  <2>3. n > 0 => keys[1] = s[p + 1]
    <3>1. n > 0 => 1 \in 1 .. n /\ i + 1 - 1 = p + 1
      BY <1>2, <1>5
    <3> QED
      BY <1>8, <3>1
  <2>4. CASE n > 0 /\ s[p + 1] = "comma"
    <3>1. 1 \in 1 .. n /\ keys[1] = "comma"
      BY <1>2, <2>3, <2>4
    <3>2. c = 0
      <4>1. c \in 0 .. n - 1 /\ 1 \notin 1 .. c
        BY <2>2, <3>1
      <4> QED
        BY <1>2, <4>1
    <3> QED
      BY <1>3, <2>1, <2>4, <3>2
  <2>5. CASE ~(n > 0 /\ s[p + 1] = "comma")
    <3>1. c # 0
      <4>1. SUFFICES ASSUME c = 0 PROVE FALSE
        OBVIOUS
      <4>2. n > 0 /\ keys[1] = "comma"
        BY <1>2, <2>2, <4>1
      <4> QED
        BY <2>3, <2>5, <4>2
    <3> QED
      BY <1>3, <2>1, <2>5, <3>1
  <2> QED
    BY <2>4, <2>5
<1>11. Substr(keys, begin, NPos) = rest
  <2>1. PICK m : m = begin + 1
    OBVIOUS
  <2>2. begin \in 0 .. Len(keys) /\ NPos >= Len(keys) - begin
        /\ m \in 1 .. end - i + 2 /\ n \in m - 1 .. end - i + 1
        /\ i + m - 1 = f /\ i + n - 1 = end
    BY <1>1, <1>2, <1>4, <1>5, <1>7, <1>8, <2>1
  <2>3. Substr(keys, begin, NPos) = SubSeq(keys, m, n)
    BY <1>2, <1>8, <2>1, <2>2, SubstrPart
  <2>4. SubSeq(SubSeq(s, i, end), m, n) = SubSeq(s, i + m - 1, i + n - 1)
    BY <1>7, <2>2, PartOfPart
  <2> QED
    BY <1>6, <2>2, <2>3, <2>4
<1>12. end \in f - 1 .. Len(s)
  BY <1>2, <1>4, <1>5
<1>13. rest \in Texts /\ Len(rest) = end - f + 1
       /\ \A k \in 1 .. end - f + 1 : rest[k] = s[f + k - 1]
  BY <1>4, <1>6, <1>12, PartLemma
<1>14. Before(rest, "comma") = SubSeq(rest, 1, q)
  <2>1. q \in 0 .. Len(rest)
    BY <1>1, <1>2, <1>4, <1>5, <1>13
  <2>2. ASSUME q # Len(rest) PROVE rest[q + 1] = "comma"
    <3>1. PICK k : k = q + 1
      OBVIOUS
    <3>2. k \in 1 .. end - f + 1 /\ f + k - 1 = g + 1 /\ g # Len(s)
      BY <1>1, <1>2, <1>4, <1>5, <1>13, <2>1, <2>2, <3>1
    <3>3. rest[k] = s[g + 1] /\ s[g + 1] = "comma"
      BY <1>13, <3>2 DEF KeyAt
    <3> QED
      BY <3>1, <3>3
  <2>3. ASSUME NEW k \in 1 .. q PROVE rest[k] # "comma"
    <3>1. PICK j : j = f + k - 1
      OBVIOUS
    <3>2. k \in 1 .. end - f + 1 /\ j \in f .. g
      BY <1>1, <1>2, <1>4, <1>5, <1>13, <2>1, <2>3, <3>1
    <3>3. rest[k] = s[j] /\ s[j] # "comma"
      BY <1>13, <3>1, <3>2 DEF KeyAt
    <3> QED
      BY <3>3
  <2> QED
    BY <1>13, <2>1, <2>2, <2>3, BeforeIs
<1>15. SubSeq(rest, 1, q) = SubSeq(s, f, g)
  <2>1. 1 \in 1 .. end - f + 2 /\ q \in 1 - 1 .. end - f + 1 /\ f + 1 - 1 = f /\ f + q - 1 = g
    BY <1>1, <1>2, <1>4, <1>5
  <2>2. SubSeq(SubSeq(s, f, end), 1, q) = SubSeq(s, f + 1 - 1, f + q - 1)
    BY <1>4, <1>12, <2>1, PartOfPart
  <2> QED
    BY <1>6, <2>1, <2>2
<1>16. RetrieveKey(s) = WordCharsOf(Before(Substr(keys, begin, NPos), "comma"))
  BY <1>9, <1>10 DEF RetrieveKey
<1> QED
  BY <1>11, <1>14, <1>15, <1>16

\* A key of word characters is taken as it is, and others as none.
LEMMA KeyIs ==
  ASSUME NEW s \in Texts, NEW p, NEW f, NEW g, KeyAt(s, p, f, g)
  PROVE  /\ (\A j \in f .. g : s[j] \in WordChars) => RetrieveKey(s) = SubSeq(s, f, g)
         /\ (\A j \in f .. g : s[j] \notin WordChars) => RetrieveKey(s) = <<>>
<1>1. f \in 1 .. Len(s) + 1 /\ g \in f - 1 .. Len(s) /\ Len(s) \in Nat
  <2>1. /\ Len(s) \in Nat /\ p \in 1 .. Len(s) /\ g \in f - 1 .. Len(s)
        /\ f = IF p < Len(s) /\ s[p + 1] = "comma" THEN p + 2 ELSE p + 1
    BY LenProperties DEF KeyAt, Texts
  <2> QED
    BY <2>1
<1>2. PICK t : t = SubSeq(s, f, g)
  OBVIOUS
<1>3. t \in Texts /\ Len(t) = g - f + 1 /\ \A k \in 1 .. g - f + 1 : t[k] = s[f + k - 1]
  BY <1>1, <1>2, PartLemma
<1>4. RetrieveKey(s) = WordCharsOf(t)
  BY <1>2, RetrieveIs
<1>5. \A k \in 1 .. g - f + 1 : f + k - 1 \in f .. g
  BY <1>1
<1>6. (\A j \in f .. g : s[j] \in WordChars) => \A k \in 1 .. Len(t) : t[k] \in WordChars
  BY <1>3, <1>5
<1>7. (\A j \in f .. g : s[j] \notin WordChars) => \A k \in 1 .. Len(t) : t[k] \notin WordChars
  BY <1>3, <1>5
<1> QED
  BY <1>2, <1>3, <1>4, <1>6, <1>7, WordCharsOfWord, NoWordChars

\* What is behind f ends at a comma or with the text.
LEMMA HasKeyEnd ==
  ASSUME NEW s \in Texts, NEW f \in 1 .. Len(s) + 1
  PROVE  \E g \in f - 1 .. Len(s) :
           (\A j \in f .. g : s[j] # "comma") /\ (g = Len(s) \/ s[g + 1] = "comma")
<1>0. Len(s) \in Nat
  BY LenProperties DEF Texts
<1> DEFINE G == {k \in f - 1 .. Len(s) : k = Len(s) \/ s[k + 1] = "comma"}
<1>1. G \in SUBSET Nat /\ Len(s) \in G
  BY <1>0
<1>2. PICK g \in G : \A k \in G : g <= k
  <2> HIDE DEF G
  <2> QED
    BY <1>1, LeastElement
<1>3. g \in f - 1 .. Len(s) /\ (g = Len(s) \/ s[g + 1] = "comma")
  OBVIOUS
<1>4. ASSUME NEW j \in f .. g PROVE s[j] # "comma"
  <2>1. PICK k : k = j - 1
    OBVIOUS
  <2>2. k \in f - 1 .. Len(s) /\ k + 1 = j /\ ~(g <= k)
    BY <1>0, <1>3, <1>4, <2>1
  <2> QED
    BY <1>2, <2>2
<1> QED
  BY <1>3, <1>4

\* The next key, which may be nothing, is what stands from f to g of what is
\* behind the list.
HasKey(tail, f, g) ==
  KeyAt(tail, 1, f, g) /\ \A j \in f .. g : tail[j] \in WordChars

\* A key that a list does not have in it.
IsNotIn(s, key) ==
  key = <<>> \/ \A p \in 0 .. Len(s) : ~OccursAt(s, key, p)

LEMMA HasKeyIs ==
  ASSUME NEW tail \in Texts, NEW f, NEW g, HasKey(tail, f, g)
  PROVE  /\ Len(tail) \in Nat /\ Len(tail) >= 1 /\ tail[1] = "sp"
         /\ \A j \in 2 .. Len(tail) : tail[j] # "sp"
         /\ f \in 2 .. Len(tail) + 1 /\ g \in f - 1 .. Len(tail)
         /\ \A j \in f .. g : tail[j] \in WordChars
         /\ f = IF 1 < Len(tail) /\ tail[2] = "comma" THEN 3 ELSE 2
         /\ g = Len(tail) \/ tail[g + 1] = "comma"
         /\ "sp" \notin WordChars /\ "comma" \notin WordChars
<1>1. Len(tail) \in Nat
  BY LenProperties DEF Texts
<1>2. /\ 1 \in 1 .. Len(tail) /\ tail[1] = "sp"
      /\ \A j \in 1 + 1 .. Len(tail) : tail[j] # "sp"
      /\ f = IF 1 < Len(tail) /\ tail[1 + 1] = "comma" THEN 1 + 2 ELSE 1 + 1
      /\ g \in f - 1 .. Len(tail)
      /\ g = Len(tail) \/ tail[g + 1] = "comma"
  BY DEF HasKey, KeyAt
<1>3. "sp" \notin WordChars /\ "comma" \notin WordChars
  BY CommandLineAssumption
<1>4. f \in 2 .. Len(tail) + 1
  BY <1>1, <1>2
<1>5. \A j \in f .. g : tail[j] \in WordChars
  BY DEF HasKey
<1> QED
  BY <1>1, <1>2, <1>3, <1>4, <1>5

\* The same part of what is behind a list.
LEMMA BehindList ==
  ASSUME NEW tail \in Texts, NEW r \in Texts, NEW body \in Nat,
         Len(r) = body + Len(tail), \A k \in 1 .. Len(tail) : r[body + k] = tail[k],
         NEW f \in 1 .. Len(tail) + 1, NEW g \in f - 1 .. Len(tail)
  PROVE  SubSeq(r, body + f, body + g) = SubSeq(tail, f, g)
<1>0. Len(tail) \in Nat
  BY LenProperties DEF Texts
<1>1. PICK u, v, x, y : /\ u = body + f /\ v = body + g
                        /\ x = SubSeq(r, u, v) /\ y = SubSeq(tail, f, g)
  OBVIOUS
<1>2. u \in 1 .. Len(r) + 1 /\ v \in u - 1 .. Len(r) /\ v - u + 1 = g - f + 1
  BY <1>0, <1>1
<1>3. x \in Texts /\ Len(x) = v - u + 1 /\ \A k \in 1 .. v - u + 1 : x[k] = r[u + k - 1]
  BY <1>1, <1>2, PartLemma
<1>4. y \in Texts /\ Len(y) = g - f + 1 /\ \A k \in 1 .. g - f + 1 : y[k] = tail[f + k - 1]
  BY <1>1, PartLemma
<1>5. ASSUME NEW k \in 1 .. g - f + 1 PROVE x[k] = y[k]
  <2>1. PICK j : j = f + k - 1
    OBVIOUS
  <2>2. j \in 1 .. Len(tail) /\ body + j = u + k - 1
    BY <1>0, <1>1, <1>5, <2>1
  <2>3. x[k] = r[u + k - 1] /\ y[k] = tail[j]
    BY <1>2, <1>3, <1>4, <1>5, <2>1
  <2> QED
    BY <2>2, <2>3
<1>6. x \in Seq(Chars) /\ y \in Seq(Chars) /\ Len(x) = Len(y)
  BY <1>2, <1>3, <1>4 DEF Texts
<1> QED
  BY <1>1, <1>4, <1>5, <1>6, SeqEqual

\* The key is read behind the last blank, also with a list before it.
LEMMA KeyOfRest ==
  ASSUME NEW s \in Texts, NEW tail \in Texts, NEW r \in Texts,
         NEW b \in 0 .. Len(s), NEW m, Left(r, s, b, m, tail),
         NEW f, NEW g, HasKey(tail, f, g)
  PROVE  RetrieveKey(r) = SubSeq(tail, f, g)
<1>0. /\ Len(s) \in Nat /\ m \in Nat /\ b \in Nat /\ Len(r) \in Nat /\ Len(tail) \in Nat
      /\ Len(tail) >= 1 /\ tail[1] = "sp" /\ \A j \in 2 .. Len(tail) : tail[j] # "sp"
      /\ f \in 2 .. Len(tail) + 1 /\ g \in f - 1 .. Len(tail)
      /\ \A j \in f .. g : tail[j] \in WordChars
      /\ f = IF 1 < Len(tail) /\ tail[2] = "comma" THEN 3 ELSE 2
      /\ g = Len(tail) \/ tail[g + 1] = "comma"
      /\ "comma" \notin WordChars
  <2>1. Len(s) \in Nat /\ m \in Nat /\ b \in Nat /\ Len(r) \in Nat
    BY LenProperties DEF Texts, Left
  <2> QED
    BY <2>1, HasKeyIs
<1>1. PICK body, p, u, v : body = m + (Len(s) - b) /\ p = body + 1 /\ u = body + f /\ v = body + g
  OBVIOUS
<1>2. /\ body \in Nat /\ Len(r) = body + Len(tail)
      /\ \A k \in 1 .. Len(tail) : r[body + k] = tail[k]
  <2>1. body \in Nat
    BY <1>0, <1>1
  <2> QED
    BY <1>1, <2>1 DEF Left
<1>11. PICK n, end : n = Len(tail) /\ end = Len(r)
  OBVIOUS
<1>12. /\ body \in Nat /\ n \in Nat /\ n >= 1 /\ end = body + n
       /\ f \in 2 .. n + 1 /\ g \in f - 1 .. n
       /\ p = body + 1 /\ u = body + f /\ v = body + g
  BY <1>0, <1>1, <1>2, <1>11
<1>3. p \in 1 .. Len(r) /\ r[p] = "sp"
  <2>1. 1 \in 1 .. n /\ p \in 1 .. end
    BY <1>12
  <2> QED
    BY <1>0, <1>2, <1>11, <1>12, <2>1
<1>4. ASSUME NEW j \in p + 1 .. Len(r) PROVE r[j] # "sp"
  <2>1. PICK k : k = j - body
    OBVIOUS
  <2>2. k \in 2 .. Len(tail) /\ k \in 1 .. Len(tail) /\ body + k = j
    BY <1>11, <1>12, <2>1
  <2> QED
    BY <1>0, <1>2, <2>2
<1>5. u = IF p < Len(r) /\ r[p + 1] = "comma" THEN p + 2 ELSE p + 1
  <2>1. p < Len(r) <=> 1 < Len(tail)
    BY <1>11, <1>12
  <2>2. 1 < Len(tail) => r[p + 1] = tail[2]
    <3>1. 1 < Len(tail) => 2 \in 1 .. Len(tail) /\ body + 2 = p + 1
      BY <1>0, <1>1, <1>2
    <3> QED
      BY <1>2, <3>1
  <2>3. CASE 1 < Len(tail) /\ tail[2] = "comma"
    <3>1. f = 3 /\ p < Len(r) /\ r[p + 1] = "comma"
      BY <1>0, <2>1, <2>2, <2>3
    <3> QED
      BY <1>1, <1>2, <3>1
  <2>4. CASE ~(1 < Len(tail) /\ tail[2] = "comma")
    <3>1. f = 2 /\ ~(p < Len(r) /\ r[p + 1] = "comma")
      BY <1>0, <2>1, <2>2, <2>4
    <3> QED
      BY <1>1, <1>2, <3>1
  <2> QED
    BY <2>3, <2>4
<1>6. v \in u - 1 .. Len(r)
  BY <1>11, <1>12
<1>7. ASSUME NEW j \in u .. v PROVE r[j] \in WordChars /\ r[j] # "comma"
  <2>1. PICK k : k = j - body
    OBVIOUS
  <2>2. k \in f .. g /\ k \in 1 .. Len(tail) /\ body + k = j
    BY <1>11, <1>12, <2>1
  <2> QED
    BY <1>0, <1>2, <2>2
<1>8. v = Len(r) \/ r[v + 1] = "comma"
  <2>1. SUFFICES ASSUME v # Len(r) PROVE r[v + 1] = "comma"
    OBVIOUS
  <2>2. PICK k : k = g + 1
    OBVIOUS
  <2>3. k \in 1 .. Len(tail) /\ body + k = v + 1 /\ g # Len(tail)
    BY <1>11, <1>12, <2>1, <2>2
  <2> QED
    BY <1>0, <1>2, <2>2, <2>3
<1>9. RetrieveKey(r) = SubSeq(r, u, v)
  <2>1. KeyAt(r, p, u, v)
    BY <1>3, <1>4, <1>5, <1>6, <1>7, <1>8 DEF KeyAt
  <2> QED
    BY <1>7, <2>1, KeyIs
<1>10. SubSeq(r, u, v) = SubSeq(tail, f, g)
  <2>1. f \in 1 .. Len(tail) + 1 /\ g \in f - 1 .. Len(tail)
    BY <1>0
  <2>2. SubSeq(r, body + f, body + g) = SubSeq(tail, f, g)
    BY <1>2, <2>1, BehindList
  <2> QED
    BY <1>1, <2>2
<1> QED
  BY <1>9, <1>10

\* Before the key there is no other occurrence of it.
LEMMA KeyIsFirst ==
  ASSUME NEW s \in Texts, NEW tail \in Texts, NEW r \in Texts,
         NEW b \in 0 .. Len(s), NEW m, Left(r, s, b, m, tail),
         NEW f, NEW g, HasKey(tail, f, g), g >= f,
         NEW key, key = SubSeq(tail, f, g), IsNotIn(s, key),
         NEW q \in 0 .. m + (Len(s) - b) + f - 2
  PROVE  ~OccursAt(r, key, q)
<1>1. PICK body, n, end, top, l :
        /\ body = m + (Len(s) - b) /\ n = Len(tail) /\ end = Len(r) /\ top = Len(s)
        /\ l = g - f + 1
  OBVIOUS
<1>2. /\ n \in Nat /\ n >= 1 /\ tail[1] = "sp"
      /\ f \in 2 .. n + 1 /\ g \in f - 1 .. n
      /\ \A j \in f .. g : tail[j] \in WordChars
      /\ f = IF 1 < n /\ tail[2] = "comma" THEN 3 ELSE 2
      /\ "sp" \notin WordChars /\ "comma" \notin WordChars
  BY <1>1, HasKeyIs
<1>3. f \in 2 .. 3 /\ (f = 3 => n > 1 /\ tail[2] = "comma")
  BY <1>2
<1>4. top \in Nat /\ m \in Nat /\ b \in 0 .. top /\ body = m + (top - b) /\ end = body + n
  <2>1. Len(s) \in Nat /\ Len(r) \in Nat /\ Len(r) = m + (Len(s) - b) + Len(tail) /\ m \in Nat
    BY LenProperties DEF Texts, Left
  <2> QED
    BY <1>1, <2>1
<1>5. /\ \A k \in 1 .. m : r[k] \notin WordChars
      /\ \A k \in b + 1 .. top : r[m + (k - b)] = s[k]
      /\ \A k \in 1 .. n : r[body + k] = tail[k]
  BY <1>1 DEF Left
<1>6. key \in Texts /\ Len(key) = l /\ \A k \in 1 .. l : key[k] = tail[f + k - 1]
  <2>1. f \in 1 .. Len(tail) + 1 /\ g \in f - 1 .. Len(tail)
    BY <1>1, <1>2
  <2>2. /\ SubSeq(tail, f, g) \in Texts /\ Len(SubSeq(tail, f, g)) = g - f + 1
        /\ \A k \in 1 .. g - f + 1 : SubSeq(tail, f, g)[k] = tail[f + k - 1]
    BY <2>1, PartLemma
  <2> QED
    BY <1>1, <2>2
<1>7. l \in Nat /\ l >= 1
  BY <1>1, <1>2
<1>8. ASSUME NEW k \in 1 .. l PROVE key[k] \in WordChars
  <2>1. PICK j : j = f + k - 1
    OBVIOUS
  <2>2. j \in f .. g
    BY <1>1, <1>2, <2>1
  <2> QED
    BY <1>2, <1>6, <2>1, <2>2
<1>9. q \in 0 .. body + f - 2
  BY <1>1
<1>10. SUFFICES ASSUME OccursAt(r, key, q) PROVE FALSE
  OBVIOUS
<1>11. q + l <= end /\ \A k \in 1 .. l : r[q + k] = key[k] /\ r[q + k] \in WordChars
  <2>1. q \in 0 .. Len(r)
    BY <1>1, <1>2, <1>4, <1>9
  <2>2. q + Len(key) <= Len(r) /\ \A k \in 1 .. Len(key) : r[q + k] = key[k]
    BY <1>6, <1>10, <2>1, OccursIs
  <2> QED
    BY <1>1, <1>6, <1>8, <2>2
<1>12. q >= m
  <2>1. SUFFICES ASSUME ~(q >= m) PROVE FALSE
    OBVIOUS
  <2>2. q + 1 \in 1 .. m /\ 1 \in 1 .. l
    BY <1>4, <1>7, <1>9, <2>1
  <2> QED
    BY <1>5, <1>11, <2>2
<1>13. CASE q + l <= body
  <2>1. PICK p : p = b + (q - m)
    OBVIOUS
  <2>2. p \in 0 .. top /\ p + l <= top /\ q \in Nat /\ m \in Nat /\ b \in Nat /\ p >= b
    BY <1>2, <1>4, <1>7, <1>9, <1>12, <1>13, <2>1
  <2>3. ASSUME NEW k \in 1 .. l PROVE s[p + k] = key[k]
    <3>1. PICK j : j = p + k
      OBVIOUS
    <3>2. j \in b + 1 .. top /\ m + (j - b) = q + k
      BY <1>4, <1>7, <2>1, <2>2, <2>3, <3>1
    <3>3. r[m + (j - b)] = s[j]
      BY <1>5, <3>2
    <3> QED
      BY <1>11, <3>1, <3>2, <3>3
  <2>4. OccursAt(s, key, p)
    <3>1. p \in 0 .. Len(s) /\ p + Len(key) <= Len(s) /\ \A k \in 1 .. Len(key) : s[p + k] = key[k]
      BY <1>1, <1>6, <2>2, <2>3
    <3>2. OccursAt(s, key, p)
            <=> p + Len(key) <= Len(s) /\ \A k \in 1 .. Len(key) : s[p + k] = key[k]
      BY <1>6, <3>1, OccursIs
    <3> QED
      BY <3>1, <3>2
  <2>5. key # <<>>
    <3>1. Len(key) # 0
      BY <1>6, <1>7
    <3> QED
      BY <3>1, EmptySeq
  <2> QED
    BY <1>1, <2>2, <2>4, <2>5 DEF IsNotIn
<1>14. CASE q + l > body /\ q <= body
  <2>1. PICK k : k = body + 1 - q
    OBVIOUS
  <2>2. k \in 1 .. l /\ q + k = body + 1 /\ 1 \in 1 .. n
    BY <1>2, <1>4, <1>7, <1>9, <1>14, <2>1
  <2> QED
    BY <1>2, <1>5, <1>11, <2>2
<1>15. CASE q > body
  <2>1. f = 3 /\ q + 1 = body + 2 /\ 1 \in 1 .. l
    BY <1>3, <1>4, <1>7, <1>9, <1>15
  <2>2. 2 \in 1 .. n /\ tail[2] = "comma"
    BY <1>2, <1>3, <2>1
  <2> QED
    BY <1>2, <1>5, <1>11, <2>1, <2>2
<1> QED
  BY <1>4, <1>7, <1>9, <1>13, <1>14, <1>15

\* The key of a list from f to g, and what is behind the list without it.
KeyTaken(s, tail, f, g, key, next) ==
  /\ HasKey(tail, f, g) /\ key = SubSeq(tail, f, g)
  /\ Erased(tail, f - 1, g, next) /\ IsNotIn(s, key)

\* The key is erased behind the list.
LEMMA TakeKey ==
  ASSUME NEW s \in Texts, NEW tail \in Texts, NEW r \in Texts,
         NEW b \in 0 .. Len(s), NEW m, Left(r, s, b, m, tail),
         NEW f, NEW g, NEW key, NEW next, KeyTaken(s, tail, f, g, key, next)
  PROVE  /\ EraseText(r, key) \in Texts
         /\ Left(EraseText(r, key), s, b, m, next)
         /\ \A k \in 1 .. m : EraseText(r, key)[k] = r[k]
<1>0. /\ HasKey(tail, f, g) /\ key = SubSeq(tail, f, g)
      /\ Erased(tail, f - 1, g, next) /\ IsNotIn(s, key)
  BY DEF KeyTaken
<1>1. PICK body, n, end, top, l, u, v, e :
        /\ body = m + (Len(s) - b) /\ n = Len(tail) /\ end = Len(r) /\ top = Len(s)
        /\ l = g - f + 1 /\ u = body + f /\ v = body + g /\ e = EraseText(r, key)
  OBVIOUS
<1>2. n \in Nat /\ n >= 1 /\ f \in 2 .. n + 1 /\ g \in f - 1 .. n /\ l \in Nat
  <2>1. n \in Nat /\ n >= 1 /\ f \in 2 .. n + 1 /\ g \in f - 1 .. n
    BY <1>0, <1>1, HasKeyIs
  <2> QED
    BY <1>1, <2>1
<1>3. top \in Nat /\ m \in Nat /\ b \in 0 .. top /\ body = m + (top - b) /\ end = body + n
  <2>1. Len(s) \in Nat /\ Len(r) \in Nat /\ Len(r) = m + (Len(s) - b) + Len(tail) /\ m \in Nat
    BY LenProperties DEF Texts, Left
  <2> QED
    BY <1>1, <2>1
<1>4. body \in Nat /\ body >= m
  BY <1>3
<1>5. /\ next \in Texts /\ Len(next) = n - l
      /\ \A i \in 1 .. f - 1 : next[i] = tail[i]
      /\ \A i \in f .. n - l : next[i] = tail[i + l]
  <2>1. g - (f - 1) = l /\ f - 1 + 1 = f
    BY <1>1, <1>2
  <2> QED
    BY <1>0, <1>1, <2>1 DEF Erased
<1>6. CASE l = 0
  <2>1. key = <<>>
    <3>1. f \in 1 .. Len(tail) + 1 /\ g \in f - 1 .. Len(tail) /\ g = f - 1
      BY <1>1, <1>2, <1>6
    <3> QED
      BY <1>0, <3>1, PartChars
  <2>2. e = r
    BY <1>1, <2>1, EraseNothing
  <2>3. next = tail
    <3>1. Len(next) = n /\ \A i \in 1 .. n : next[i] = tail[i]
      <4>1. \A i \in 1 .. n : i \in 1 .. f - 1 \/ (i \in f .. n - l /\ i + l = i)
        BY <1>2, <1>6
      <4> QED
        BY <1>2, <1>5, <1>6, <4>1
    <3> QED
      BY <1>1, <1>5, <3>1, SeqEqual DEF Texts
  <2> QED
    BY <1>1, <2>2, <2>3
<1>7. CASE l # 0
  <2>1. l >= 1 /\ g >= f
    BY <1>1, <1>2, <1>7
  <2>2. PICK p : p = u - 1
    OBVIOUS
  <2>3. p \in 0 .. end /\ v \in p .. end /\ v - p = l /\ p = body + f - 1 /\ p + 1 = u /\ p >= m
    <3>1. u = body + f /\ v = body + g /\ l = g - f + 1
      BY <1>1
    <3> QED
      BY <1>2, <1>3, <1>4, <2>1, <2>2, <3>1
  <2>4. key = SubSeq(r, p + 1, v)
    <3>1. SubSeq(r, body + f, body + g) = SubSeq(tail, f, g)
      <4>1. f \in 1 .. Len(tail) + 1 /\ g \in f - 1 .. Len(tail)
        BY <1>1, <1>2
      <4>2. Len(r) = body + Len(tail) /\ \A k \in 1 .. Len(tail) : r[body + k] = tail[k]
        BY <1>1, <1>3 DEF Left
      <4> QED
        BY <1>4, <4>1, <4>2, BehindList
    <3>2. body + f = p + 1 /\ body + g = v
      BY <1>1, <2>3
    <3> QED
      BY <1>0, <3>1, <3>2
  <2>5. ASSUME NEW q \in 0 .. p - 1 PROVE ~OccursAt(r, key, q)
    <3>1. q \in 0 .. body + f - 2
      BY <1>2, <1>4, <2>3, <2>5
    <3> QED
      BY <1>0, <1>1, <2>1, <3>1, KeyIsFirst
  <2>6. e = SubSeq(r, 1, p) \o SubSeq(r, v + 1, Len(r))
    BY <1>1, <2>3, <2>4, <2>5, EraseAt
  <2>7. Erased(r, p, v, e)
    BY <1>1, <2>3, <2>6, ErasedChars
  <2>8. /\ e \in Texts /\ Len(e) = end - l
        /\ \A i \in 1 .. p : e[i] = r[i]
        /\ \A i \in p + 1 .. end - l : e[i] = r[i + l]
    <3>1. /\ e \in Texts /\ Len(e) = Len(r) - (v - p)
          /\ \A i \in 1 .. p : e[i] = r[i]
          /\ \A i \in p + 1 .. Len(e) : e[i] = r[i + (v - p)]
      BY <2>7 DEF Erased
    <3>2. v - p = l /\ Len(r) = end
      BY <1>1, <2>3
    <3>3. Len(e) = end - l
      BY <3>1, <3>2
    <3> QED
      BY <3>1, <3>2, <3>3
  <2>9. \A i \in 1 .. body : e[i] = r[i]
    <3>1. \A i \in 1 .. body : i \in 1 .. p
      BY <1>2, <1>4, <2>3
    <3> QED
      BY <2>8, <3>1
  <2>10. /\ \A k \in 1 .. m : r[k] \notin WordChars
         /\ \A k \in b + 1 .. top : r[m + (k - b)] = s[k]
         /\ \A k \in 1 .. n : r[body + k] = tail[k]
    BY <1>1 DEF Left
  <2>11. \A k \in 1 .. m : e[k] = r[k]
    <3>1. \A k \in 1 .. m : k \in 1 .. body
      BY <1>3, <1>4
    <3> QED
      BY <2>9, <3>1
  <2>12. ASSUME NEW k \in b + 1 .. top PROVE e[m + (k - b)] = s[k]
    <3>1. m + (k - b) \in 1 .. body
      BY <1>3, <2>12
    <3> QED
      BY <2>9, <2>10, <3>1
  <2>13. ASSUME NEW k \in 1 .. n - l PROVE e[body + k] = next[k]
    <3>1. PICK j : j = body + k
      OBVIOUS
    <3>2. CASE k <= f - 1
      <4>1. k \in 1 .. f - 1 /\ k \in 1 .. n /\ j \in 1 .. p
        BY <1>2, <1>4, <2>3, <2>13, <3>1, <3>2
      <4> QED
        BY <1>5, <2>8, <2>10, <3>1, <4>1
    <3>3. CASE ~(k <= f - 1)
      <4>1. PICK i : i = k + l
        OBVIOUS
      <4>2. k \in f .. n - l /\ i \in 1 .. n /\ j \in p + 1 .. end - l /\ j + l = body + i
        BY <1>2, <1>3, <1>4, <2>3, <2>13, <3>1, <3>3, <4>1
      <4>3. e[j] = r[body + i] /\ next[k] = tail[i]
        BY <1>5, <2>8, <4>1, <4>2
      <4> QED
        BY <2>10, <3>1, <4>2, <4>3
    <3> QED
      BY <3>2, <3>3
  <2>14. Len(e) = m + (Len(s) - b) + Len(next)
    BY <1>1, <1>2, <1>3, <1>5, <2>8
  <2>15. Left(e, s, b, m, next)
    <3>1. \A k \in 1 .. m : e[k] \notin WordChars
      BY <2>10, <2>11
    <3> QED
      BY <1>1, <1>3, <1>5, <2>12, <2>13, <2>14, <3>1 DEF Left
  <2> QED
    BY <1>1, <2>8, <2>11, <2>15
<1> QED
  BY <1>6, <1>7

\* What is left of a message for JOIN: a list without its words up to place b
\* and what is behind it. It has no blank between the first character and the
\* end of the list.
JoinLeft(r, list, b, m, tail) ==
  /\ Left(r, list, b, m, tail)
  /\ (b = 0 /\ m = 0) \/ (b >= 3 /\ m >= 2 /\ list[b] \in WordChars)
  /\ r[1] = "sp" /\ \A k \in 2 .. m : r[k] # "sp"
  /\ tail = <<>> \/ tail[1] = "sp"

\* The characters of the list that are left.
LEMMA JoinLeftIs ==
  ASSUME NEW list \in Texts, IsList(list), NEW tail \in Texts, NEW r \in Texts,
         NEW b \in 0 .. Len(list), NEW m, JoinLeft(r, list, b, m, tail),
         NEW body, body = m + (Len(list) - b)
  PROVE  /\ body \in Nat /\ body >= 1 /\ body <= Len(r) /\ m \in Nat
         /\ r[1] = "sp" /\ \A k \in 2 .. body : r[k] # "sp"
         /\ body = Len(r) \/ r[body + 1] = "sp"
         /\ \A k \in b + 1 .. Len(list) : r[m + (k - b)] = list[k]
         /\ \A k \in 1 .. m : r[k] \notin WordChars
<1>1. PICK n, top, end : n = Len(tail) /\ top = Len(list) /\ end = Len(r)
  OBVIOUS
<1>2. /\ n \in Nat /\ top \in Nat /\ end \in Nat /\ m \in Nat /\ b \in 0 .. top
      /\ body = m + (top - b) /\ end = body + n
      /\ \A k \in 1 .. m : r[k] \notin WordChars
      /\ \A k \in b + 1 .. top : r[m + (k - b)] = list[k]
      /\ \A k \in 1 .. n : r[body + k] = tail[k]
  <2>1. Left(r, list, b, m, tail) /\ n \in Nat /\ top \in Nat /\ end \in Nat
    BY <1>1, LenProperties DEF JoinLeft, Texts
  <2> QED
    BY <1>1, <2>1 DEF Left
<1>3. top >= 1 /\ \A i \in 2 .. top : list[i] # "sp"
  <2>1. list # <<>> /\ \A i \in 2 .. Len(list) : list[i] # "sp"
    BY DEF IsList
  <2>2. Len(list) # 0
    BY <2>1, EmptySeq DEF Texts
  <2> QED
    BY <1>1, <1>2, <2>1, <2>2
<1>4. /\ (b = 0 /\ m = 0) \/ (b >= 3 /\ m >= 2)
      /\ r[1] = "sp" /\ \A k \in 2 .. m : r[k] # "sp"
      /\ tail = <<>> \/ tail[1] = "sp"
  BY DEF JoinLeft
<1>5. body \in Nat /\ body >= 1 /\ body <= end
  BY <1>2, <1>3, <1>4
<1>6. ASSUME NEW k \in 2 .. body PROVE r[k] # "sp"
  <2>1. CASE k <= m
    BY <1>2, <1>4, <1>6, <2>1
  <2>2. CASE ~(k <= m)
    <3>1. PICK j : j = k - m + b
      OBVIOUS
    <3>2. j \in b + 1 .. top /\ j \in 2 .. top /\ m + (j - b) = k
      BY <1>2, <1>4, <1>5, <1>6, <2>2, <3>1
    <3> QED
      BY <1>2, <1>3, <3>2
  <2> QED
    BY <2>1, <2>2
<1>7. body = end \/ r[body + 1] = "sp"
  <2>1. SUFFICES ASSUME body # end PROVE r[body + 1] = "sp"
    OBVIOUS
  <2>2. n # 0 /\ 1 \in 1 .. n
    <3>1. n \in Nat /\ end = body + n /\ body \in Nat
      BY <1>2, <1>5
    <3> QED
      BY <2>1, <3>1
  <2>3. tail[1] = "sp"
    BY <1>1, <1>4, <2>2, EmptySeq
  <2> QED
    BY <1>2, <2>2, <2>3
<1> QED
  BY <1>1, <1>2, <1>4, <1>5, <1>6, <1>7

\* The loop goes on as long as a letter of the list is left.
LEMMA JoinGoesOn ==
  ASSUME NEW list \in Texts, IsList(list), NEW tail \in Texts, NEW r \in Texts,
         NEW b \in 0 .. Len(list), NEW m, JoinLeft(r, list, b, m, tail)
  PROVE  HasAlpha(Before(DropBlank(r), "sp"))
           <=> \E k \in b + 1 .. Len(list) : list[k] \in Alpha
<1>1. PICK body, end, top, d, n :
        /\ body = m + (Len(list) - b) /\ end = Len(r) /\ top = Len(list)
        /\ d = SubSeq(r, 2, end) /\ n = body - 1
  OBVIOUS
<1>2. /\ body \in Nat /\ body >= 1 /\ body <= end /\ m \in Nat
      /\ r[1] = "sp" /\ \A k \in 2 .. body : r[k] # "sp"
      /\ body = end \/ r[body + 1] = "sp"
      /\ \A k \in b + 1 .. top : r[m + (k - b)] = list[k]
      /\ \A k \in 1 .. m : r[k] \notin WordChars
  <2>1. body = m + (Len(list) - b)
    BY <1>1
  <2>2. /\ body \in Nat /\ body >= 1 /\ body <= Len(r) /\ m \in Nat
        /\ r[1] = "sp" /\ \A k \in 2 .. body : r[k] # "sp"
        /\ body = Len(r) \/ r[body + 1] = "sp"
        /\ \A k \in b + 1 .. Len(list) : r[m + (k - b)] = list[k]
        /\ \A k \in 1 .. m : r[k] \notin WordChars
    BY <2>1, JoinLeftIs
  <2> QED
    BY <1>1, <2>2
<1>3. top \in Nat /\ end \in Nat /\ b \in 0 .. top /\ r # <<>>
  <2>1. top \in Nat /\ end \in Nat
    BY <1>1, LenProperties DEF Texts
  <2>2. r # <<>>
    BY <1>1, <1>2, EmptySeq
  <2> QED
    BY <1>1, <2>1, <2>2
<1>11. /\ body \in Nat /\ body >= 1 /\ body <= end /\ end \in Nat /\ n = body - 1 /\ n \in Nat
       /\ top \in Nat /\ b \in 0 .. top /\ m \in Nat /\ body = m + (top - b)
  BY <1>1, <1>2, <1>3
<1>4. d \in Texts /\ Len(d) = end - 1 /\ \A k \in 1 .. end - 1 : d[k] = r[k + 1]
  <2>1. PICK i : i = 2
    OBVIOUS
  <2>2. i \in 1 .. Len(r) + 1 /\ end \in i - 1 .. Len(r) /\ end - i + 1 = end - 1
    BY <1>1, <1>2, <1>3, <2>1
  <2>3. /\ SubSeq(r, i, end) \in Texts /\ Len(SubSeq(r, i, end)) = end - i + 1
        /\ \A k \in 1 .. end - i + 1 : SubSeq(r, i, end)[k] = r[i + k - 1]
    BY <2>2, PartLemma
  <2>4. \A k \in 1 .. end - 1 : i + k - 1 = k + 1
    BY <2>1
  <2> QED
    BY <1>1, <2>1, <2>2, <2>3, <2>4
<1>5. DropBlank(r) = d
  <2>1. Tail(r) = d
    BY <1>1, <1>3, TailIsSubSeq DEF Texts
  <2> QED
    BY <1>2, <1>3, <2>1 DEF DropBlank
<1>6. Before(d, "sp") = SubSeq(d, 1, n)
  <2>1. n \in 0 .. Len(d)
    BY <1>1, <1>2, <1>3, <1>4
  <2>2. n = Len(d) \/ d[n + 1] = "sp"
    <3>1. CASE body = end
      BY <1>1, <1>4, <3>1
    <3>2. CASE body # end
      <4>1. body \in 1 .. end - 1 /\ n + 1 = body
        BY <1>11, <3>2
      <4> QED
        BY <1>2, <1>4, <3>2, <4>1
    <3> QED
      BY <3>1, <3>2
  <2>3. ASSUME NEW k \in 1 .. n PROVE d[k] # "sp"
    <3>1. k \in 1 .. end - 1 /\ k + 1 \in 2 .. body
      BY <1>11, <2>3
    <3> QED
      BY <1>2, <1>4, <3>1
  <2> QED
    BY <1>4, <2>1, <2>2, <2>3, BeforeIs
<1>7. ToSet(SubSeq(d, 1, n)) = {d[k] : k \in 1 .. n}
  <2>1. 1 \in 1 .. Len(d) + 1 /\ n \in 1 - 1 .. Len(d)
    BY <1>1, <1>2, <1>3, <1>4
  <2> QED
    BY <1>4, <2>1, PartChars
<1>8. ASSUME NEW k \in 1 .. n, d[k] \in Alpha
      PROVE  \E j \in b + 1 .. top : list[j] \in Alpha
  <2>1. k \in 1 .. end - 1 /\ k + 1 \in 2 .. body
    BY <1>11, <1>8
  <2>2. r[k + 1] \in Alpha /\ k + 1 \notin 1 .. m
    BY <1>2, <1>4, <1>8, <2>1 DEF WordChars
  <2>3. PICK j : j = k + 1 - m + b
    OBVIOUS
  <2>4. j \in b + 1 .. top /\ m + (j - b) = k + 1
    BY <1>11, <2>1, <2>2, <2>3
  <2>5. list[j] \in Alpha
    BY <1>2, <2>2, <2>4
  <2> QED
    BY <2>4, <2>5
<1>9. ASSUME NEW j \in b + 1 .. top, list[j] \in Alpha
      PROVE  \E k \in 1 .. n : d[k] \in Alpha
  <2>1. PICK k : k = m + (j - b) - 1
    OBVIOUS
  <2>2. k + 1 \in 1 .. body /\ k + 1 = m + (j - b)
    BY <1>11, <1>9, <2>1
  <2>3. r[k + 1] = list[j]
    BY <1>2, <1>9, <2>2
  <2>4. k + 1 # 1
    <3>1. "sp" \notin Alpha
      BY CommandLineAssumption DEF WordChars
    <3> QED
      BY <1>2, <1>9, <2>3, <3>1
  <2>5. k \in 1 .. n /\ k \in 1 .. end - 1
    BY <1>9, <1>11, <2>1, <2>2, <2>4
  <2>6. d[k] \in Alpha
    BY <1>4, <1>9, <2>3, <2>5
  <2> QED
    BY <2>5, <2>6
<1>10. HasAlpha(Before(DropBlank(r), "sp")) <=> \E k \in 1 .. n : d[k] \in Alpha
  <2>1. HasAlpha(Before(DropBlank(r), "sp")) <=> {d[k] : k \in 1 .. n} \cap Alpha # {}
    BY <1>5, <1>6, <1>7 DEF HasAlpha
  <2> QED
    BY <2>1
<1> QED
  BY <1>1, <1>8, <1>9, <1>10

\* Without keys, what is behind the blank is the list itself: the comma before
\* its next word ends the search.
LEMMA NoKey ==
  ASSUME NEW list \in Texts, IsList(list), NEW r \in Texts,
         NEW b \in 0 .. Len(list), b # 0, IsBetween(list, b),
         NEW m, JoinLeft(r, list, b, m, <<>>)
  PROVE  RetrieveKey(r) = <<>>
<1>1. PICK end, top : end = Len(r) /\ top = Len(list)
  OBVIOUS
<1>2. /\ end \in Nat /\ top \in Nat /\ m \in Nat /\ b \in 0 .. top
      /\ end = m + (top - b) /\ b >= 3 /\ m >= 2 /\ list[b] \in WordChars
      /\ r[1] = "sp"
      /\ \A k \in b + 1 .. top : r[m + (k - b)] = list[k]
      /\ \A k \in 1 .. m : r[k] \notin WordChars
  <2>1. end \in Nat /\ top \in Nat
    BY <1>1, LenProperties DEF Texts
  <2>2. Left(r, list, b, m, <<>>) /\ Len(<<>>) = 0
    BY EmptySeq DEF JoinLeft
  <2>3. /\ b >= 3 /\ m >= 2 /\ list[b] \in WordChars /\ r[1] = "sp"
    BY DEF JoinLeft
  <2>4. m \in Nat /\ end = m + (top - b) + 0
    BY <1>1, <2>2 DEF Left
  <2>5. /\ \A k \in b + 1 .. top : r[m + (k - b)] = list[k]
        /\ \A k \in 1 .. m : r[k] \notin WordChars
    BY <1>1, <2>2 DEF Left
  <2> QED
    BY <1>1, <2>1, <2>3, <2>4, <2>5
<1>3. \A k \in 2 .. end : r[k] # "sp"
  <2>1. PICK body : body = m + (Len(list) - b)
    OBVIOUS
  <2>2. \A k \in 2 .. body : r[k] # "sp"
    <3>1. <<>> \in Texts
      BY LeftAll
    <3> QED
      BY <2>1, <3>1, JoinLeftIs
  <2> QED
    BY <1>1, <1>2, <2>1, <2>2
<1>4. end \in Nat /\ end >= 2
  BY <1>2
<1>5. PICK f : f = IF 1 < end /\ r[1 + 1] = "comma" THEN 1 + 2 ELSE 1 + 1
  OBVIOUS
<1>6. f \in 2 .. 3 /\ f \in 1 .. end + 1
  BY <1>4, <1>5
<1>7. PICK g \in f - 1 .. end :
        (\A j \in f .. g : r[j] # "comma") /\ (g = end \/ r[g + 1] = "comma")
  <2>1. \E g \in f - 1 .. Len(r) :
          (\A j \in f .. g : r[j] # "comma") /\ (g = Len(r) \/ r[g + 1] = "comma")
    BY <1>1, <1>6, HasKeyEnd
  <2> QED
    BY <1>1, <2>1
<1>8. KeyAt(r, 1, f, g)
  <2>1. 1 \in 1 .. end /\ \A j \in 1 + 1 .. end : r[j] # "sp"
    BY <1>3, <1>4
  <2> QED
    BY <1>1, <1>2, <1>5, <1>7, <2>1 DEF KeyAt
<1>9. ASSUME NEW x \in f .. g, r[x] \in WordChars PROVE FALSE
  <2>1. PICK j : j = x - m + b
    OBVIOUS
  <2>2. x \in 1 .. end /\ x \notin 1 .. m
    BY <1>2, <1>6, <1>7, <1>9
  <2>3. j \in b + 1 .. top /\ m + (j - b) = x /\ x > m
    BY <1>2, <2>1, <2>2
  <2>4. list[j] \in WordChars
    BY <1>2, <1>9, <2>3
  <2>5. PICK i \in 1 .. j, l \in 1 .. Len(list) : NextWord(list, b, i, l)
    BY <1>1, <2>3, <2>4, HasNextWord
  <2>6. i > b /\ i \in WordStarts(list)
    BY <2>5 DEF NextWord
  <2>7. list[i - 1] = "#" /\ list[i - 2] = "comma"
    <3>1. list[i - 1] = "#" /\ (i = 3 \/ list[i - 2] = "comma")
      BY <2>6 DEF IsList
    <3> QED
      BY <1>2, <2>6, <3>1
  <2>8. "#" \notin WordChars /\ "comma" \notin WordChars
    BY CommandLineAssumption
  <2>9. i - 1 # b /\ i - 2 # b
    BY <1>2, <2>7, <2>8
  <2>10. PICK k, y : k = i - 2 /\ y = m + (k - b)
    OBVIOUS
  <2>11. k \in b + 1 .. top /\ y >= 3 /\ y < x
    BY <1>2, <2>3, <2>5, <2>6, <2>9, <2>10
  <2>12. r[y] = "comma"
    BY <1>2, <2>7, <2>10, <2>11
  <2>13. y \in f .. g
    BY <1>2, <1>6, <1>7, <1>9, <2>10, <2>11
  <2> QED
    BY <1>7, <2>12, <2>13
<1> QED
  BY <1>8, <1>9, KeyIs

\* A key behind the list is found, and so is no key.
LEMMA KeyOccurs ==
  ASSUME NEW s \in Texts, NEW tail \in Texts, NEW r \in Texts,
         NEW b \in 0 .. Len(s), NEW m, Left(r, s, b, m, tail),
         NEW f, NEW g, HasKey(tail, f, g), NEW key, key = SubSeq(tail, f, g)
  PROVE  Occurs(r, key)
<1>1. PICK body, n, end, p, l : /\ body = m + (Len(s) - b) /\ n = Len(tail) /\ end = Len(r)
                                /\ p = body + f - 1 /\ l = g - f + 1
  OBVIOUS
<1>2. n \in Nat /\ f \in 2 .. n + 1 /\ g \in f - 1 .. n
  BY <1>1, HasKeyIs
<1>3. body \in Nat /\ end = body + n /\ \A k \in 1 .. n : r[body + k] = tail[k]
  <2>1. Len(s) \in Nat /\ m \in Nat /\ Len(r) = m + (Len(s) - b) + Len(tail)
    BY LenProperties DEF Texts, Left
  <2>2. body \in Nat /\ end = body + n
    BY <1>1, <2>1
  <2>3. \A k \in 1 .. n : r[body + k] = tail[k]
    BY <1>1 DEF Left
  <2> QED
    BY <2>2, <2>3
<1>4. p \in 0 .. end /\ l \in Nat /\ p + l <= end
  <2>1. p = body + f - 1 /\ l = g - f + 1
    BY <1>1
  <2>2. p \in Nat /\ l \in Nat /\ p + l = body + g
    BY <1>2, <1>3, <2>1
  <2> QED
    BY <1>2, <1>3, <2>1, <2>2
<1>5. key \in Texts /\ Len(key) = l /\ \A k \in 1 .. l : key[k] = tail[f + k - 1]
  <2>1. f \in 1 .. Len(tail) + 1 /\ g \in f - 1 .. Len(tail)
    BY <1>1, <1>2
  <2>2. /\ SubSeq(tail, f, g) \in Texts /\ Len(SubSeq(tail, f, g)) = g - f + 1
        /\ \A k \in 1 .. g - f + 1 : SubSeq(tail, f, g)[k] = tail[f + k - 1]
    BY <2>1, PartLemma
  <2> QED
    BY <1>1, <2>2
<1>6. ASSUME NEW k \in 1 .. l PROVE r[p + k] = key[k]
  <2>1. PICK j : j = f + k - 1
    OBVIOUS
  <2>2. j \in 1 .. n /\ body + j = p + k
    BY <1>1, <1>2, <1>3, <1>6, <2>1
  <2> QED
    BY <1>3, <1>5, <2>1, <2>2
<1>7. OccursAt(r, key, p)
  <2>1. /\ p \in 0 .. Len(r) /\ p + Len(key) <= Len(r)
        /\ \A k \in 1 .. Len(key) : r[p + k] = key[k]
    BY <1>1, <1>4, <1>5, <1>6
  <2>2. OccursAt(r, key, p)
          <=> p + Len(key) <= Len(r) /\ \A k \in 1 .. Len(key) : r[p + k] = key[k]
    BY <1>5, <2>1, OccursIs
  <2> QED
    BY <2>1, <2>2
<1> QED
  BY <1>1, <1>4, <1>7 DEF Occurs

LEMMA NothingOccurs ==
  ASSUME NEW r \in Texts
  PROVE  Occurs(r, <<>>)
<1>1. <<>> \in Texts /\ Len(<<>>) = 0 /\ Len(r) \in Nat
  BY LeftAll, LenProperties, EmptySeq DEF Texts
<1>2. 0 \in 0 .. Len(r) /\ 0 + Len(<<>>) <= Len(r) /\ \A k \in 1 .. Len(<<>>) : r[0 + k] = <<>>[k]
  BY <1>1
<1>3. OccursAt(r, <<>>, 0)
  BY <1>1, <1>2, OccursIs
<1> QED
  BY <1>2, <1>3 DEF Occurs

\* From one key to the next: what is behind a list before and after.
TakesKey(list, tail, key, next) ==
  \/ tail = <<>> /\ key = <<>> /\ next = <<>>
  \/ \E f, g : KeyTaken(list, tail, f, g, key, next)

LEMMA NextKey ==
  ASSUME NEW list \in Texts, IsList(list), NEW r \in Texts,
         NEW b \in 0 .. Len(list), b # 0, IsBetween(list, b),
         NEW tail \in Texts, NEW key \in Texts, NEW next \in Texts,
         TakesKey(list, tail, key, next),
         NEW m, JoinLeft(r, list, b, m, tail)
  PROVE  /\ RetrieveKey(r) = key /\ ~KeyThrows(r)
         /\ EraseText(r, key) \in Texts
         /\ JoinLeft(EraseText(r, key), list, b, m, next)
<1>0. "sp" \in ToSet(r)
  <2>1. PICK body : body = m + (Len(list) - b)
    OBVIOUS
  <2>2. /\ body \in Nat /\ body >= 1 /\ body <= Len(r) /\ r[1] = "sp"
        /\ Len(r) \in Nat /\ r \in Seq(Chars)
    BY <2>1, JoinLeftIs, LenProperties DEF Texts
  <2>3. 1 \in DOMAIN r
    BY <2>2, LenProperties
  <2> QED
    BY <2>2, <2>3 DEF ToSet
<1>1. CASE tail = <<>> /\ key = <<>> /\ next = <<>>
  <2>1. RetrieveKey(r) = key
    BY <1>1, NoKey
  <2>2. ~KeyThrows(r)
    BY <1>0, <1>1, <2>1, NothingOccurs DEF KeyThrows
  <2> QED
    BY <1>1, <2>1, <2>2, EraseNothing
<1>2. ASSUME NEW f, NEW g, KeyTaken(list, tail, f, g, key, next)
      PROVE  /\ RetrieveKey(r) = key /\ ~KeyThrows(r)
             /\ EraseText(r, key) \in Texts
             /\ JoinLeft(EraseText(r, key), list, b, m, next)
  <2>1. PICK e : e = EraseText(r, key)
    OBVIOUS
  <2>2. /\ Left(r, list, b, m, tail) /\ b >= 3 /\ m >= 2 /\ list[b] \in WordChars
        /\ r[1] = "sp" /\ \A k \in 2 .. m : r[k] # "sp"
    BY DEF JoinLeft
  <2>3. RetrieveKey(r) = key
    BY <1>2, <2>2, KeyOfRest DEF KeyTaken
  <2>4. e \in Texts /\ Left(e, list, b, m, next) /\ \A k \in 1 .. m : e[k] = r[k]
    <3>1. /\ EraseText(r, key) \in Texts
          /\ Left(EraseText(r, key), list, b, m, next)
          /\ \A k \in 1 .. m : EraseText(r, key)[k] = r[k]
      BY <1>2, <2>2, TakeKey
    <3> QED
      BY <2>1, <3>1
  <2>5. m \in Nat
    BY <2>2 DEF Left
  <2>6. e[1] = "sp" /\ \A k \in 2 .. m : e[k] # "sp"
    <3>1. 1 \in 1 .. m /\ \A k \in 2 .. m : k \in 1 .. m
      BY <2>2, <2>5
    <3> QED
      BY <2>2, <2>4, <3>1
  <2>7. next[1] = "sp"
    <3>1. Len(tail) \in Nat /\ tail[1] = "sp" /\ f \in 2 .. Len(tail) + 1
      BY <1>2, HasKeyIs DEF KeyTaken
    <3>2. 1 \in 1 .. f - 1
      BY <3>1
    <3> QED
      BY <1>2, <3>1, <3>2 DEF Erased, KeyTaken
  <2>8. JoinLeft(e, list, b, m, next)
    BY <2>2, <2>4, <2>6, <2>7 DEF JoinLeft
  <2>9. ~KeyThrows(r)
    <3>1. Occurs(r, key)
      BY <1>2, <2>2, KeyOccurs DEF KeyTaken
    <3> QED
      BY <1>0, <2>3, <3>1 DEF KeyThrows
  <2> QED
    BY <2>1, <2>3, <2>4, <2>8, <2>9
<1> QED
  BY <1>1, <1>2 DEF TakesKey

\* The next channel is found and erased.
LEMMA JoinWord ==
  ASSUME NEW list \in Texts, IsList(list), NEW tail \in Texts, NEW r \in Texts,
         NEW b \in 0 .. Len(list), NEW m, JoinLeft(r, list, b, m, tail),
         NEW i, NEW l, NextWord(list, b, i, l)
  PROVE  /\ ChannelName(r) = WordAt(list, i)
         /\ EraseText(r, ChannelName(r)) \in Texts
         /\ JoinLeft(EraseText(r, ChannelName(r)), list, l, m + (i - 1 - b), tail)
<1>1. PICK e, c, top, body : /\ e = EraseText(r, ChannelName(r)) /\ c = m + (i - 1 - b)
                             /\ top = Len(list) /\ body = m + (Len(list) - b)
  OBVIOUS
<1>2. /\ top \in Nat /\ b \in 0 .. top /\ i \in b + 1 .. top /\ l \in i .. top
      /\ list[l] \in WordChars /\ i \in WordStarts(list)
  <2>1. top \in Nat
    BY <1>1, LenProperties DEF Texts
  <2>2. i > b /\ i \in WordStarts(list) /\ WordFrom(list, i, l)
    BY DEF NextWord
  <2>3. i \in 1 .. top /\ l \in i .. top /\ \A k \in i .. l : list[k] \in WordChars
    BY <1>1, <2>2 DEF WordFrom
  <2>4. l \in i .. l
    BY <2>1, <2>3
  <2> QED
    BY <1>1, <2>1, <2>2, <2>3, <2>4
<1>3. i >= 3
  <2>1. list[1] = "sp" /\ list[i - 1] = "#" /\ i \in 1 .. Len(list) /\ list[i] \in WordChars
    BY <1>2 DEF IsList, WordStarts
  <2>2. "sp" \notin WordChars /\ "sp" # "#"
    BY CommandLineAssumption
  <2>3. i # 1 /\ i - 1 # 1
    BY <2>1, <2>2
  <2> QED
    BY <1>1, <1>2, <2>3
<1>4. /\ body \in Nat /\ m \in Nat /\ r[1] = "sp" /\ \A k \in 2 .. body : r[k] # "sp"
      /\ (b = 0 /\ m = 0) \/ (b >= 3 /\ m >= 2)
      /\ tail = <<>> \/ tail[1] = "sp"
  <2>1. /\ body \in Nat /\ m \in Nat /\ r[1] = "sp" /\ \A k \in 2 .. body : r[k] # "sp"
    BY <1>1, JoinLeftIs
  <2>2. ((b = 0 /\ m = 0) \/ (b >= 3 /\ m >= 2)) /\ (tail = <<>> \/ tail[1] = "sp")
    BY DEF JoinLeft
  <2> QED
    BY <2>1, <2>2
<1>5. c \in Nat /\ c >= 2 /\ c <= body /\ l >= 3
  BY <1>1, <1>2, <1>3, <1>4
<1>6. /\ ChannelName(r) = WordAt(list, i) /\ e \in Texts
      /\ Left(e, list, l, c, tail) /\ \A k \in 1 .. c : e[k] = r[k]
  <2>1. tail # <<>> => tail[1] \notin WordChars
    <3>1. "sp" \notin WordChars
      BY CommandLineAssumption
    <3> QED
      BY <1>4, <3>1
  <2>2. Left(r, list, b, m, tail)
    BY DEF JoinLeft
  <2>3. /\ ChannelName(r) = WordAt(list, i)
        /\ EraseText(r, ChannelName(r)) \in Texts
        /\ Left(EraseText(r, ChannelName(r)), list, l, m + (i - 1 - b), tail)
        /\ \A k \in 1 .. m + (i - 1 - b) : EraseText(r, ChannelName(r))[k] = r[k]
    BY <2>1, <2>2, TakeWord
  <2> QED
    BY <1>1, <2>3
<1>7. e[1] = "sp" /\ \A k \in 2 .. c : e[k] # "sp"
  <2>1. 1 \in 1 .. c /\ \A k \in 2 .. c : k \in 1 .. c /\ k \in 2 .. body
    BY <1>4, <1>5
  <2> QED
    BY <1>4, <1>6, <2>1
<1>8. JoinLeft(e, list, l, c, tail)
  BY <1>2, <1>4, <1>5, <1>6, <1>7 DEF JoinLeft
<1> QED
  BY <1>1, <1>6, <1>8

\* The channels up to place b that ask for a key.
AsksUpTo(list, b, asks) ==
  Cardinality({k \in WordStarts(list) : k <= b /\ WordAt(list, k) \in asks})

LEMMA AsksStep ==
  ASSUME NEW list \in Texts, NEW asks, NEW b \in 0 .. Len(list),
         NEW i, NEW l, NextWord(list, b, i, l)
  PROVE  /\ AsksUpTo(list, b, asks) \in Nat
         /\ AsksUpTo(list, l, asks) = IF WordAt(list, i) \in asks
                                      THEN AsksUpTo(list, b, asks) + 1
                                      ELSE AsksUpTo(list, b, asks)
         /\ AsksUpTo(list, i, asks) = AsksUpTo(list, l, asks)
<1> DEFINE D(n) == {k \in WordStarts(list) : k <= n}
           A(n) == {k \in WordStarts(list) : k <= n /\ WordAt(list, k) \in asks}
<1>0. Len(list) \in Nat
  BY LenProperties DEF Texts
<1>1. /\ D(l) = D(b) \cup {i} /\ i <= l /\ D(b) \in SUBSET (1 .. Len(list))
      /\ \A k \in D(b) : k < i
  BY NextWordStarts
<1>2. i \in WordStarts(list) /\ i \in 1 .. Len(list) /\ l \in i .. Len(list)
  BY DEF NextWord, WordFrom
<1>3. A(l) = IF WordAt(list, i) \in asks THEN A(b) \cup {i} ELSE A(b)
  <2>1. PICK x, y, d, f : x = A(l) /\ y = A(b) /\ d = D(l) /\ f = D(b)
    OBVIOUS
  <2>2. /\ \A k : k \in x <=> k \in d /\ WordAt(list, k) \in asks
        /\ \A k : k \in y <=> k \in f /\ WordAt(list, k) \in asks
    BY <2>1
  <2>3. d = f \cup {i}
    BY <1>1, <2>1
  <2>4. x = IF WordAt(list, i) \in asks THEN y \cup {i} ELSE y
    BY <2>2, <2>3
  <2> QED
    BY <2>1, <2>4
<1>4. A(i) = A(l)
  <2>1. D(i) = D(l)
    <3>1. ASSUME NEW k \in WordStarts(list) PROVE k <= i <=> k <= l
      <4>1. k \in 1 .. Len(list)
        BY <3>1 DEF WordStarts
      <4>2. k <= l => k \in D(b) \/ k = i
        BY <1>1, <3>1
      <4>3. k \in D(b) => k < i
        BY <1>1
      <4> QED
        BY <1>0, <1>1, <1>2, <4>1, <4>2, <4>3
    <3> QED
      BY <3>1
  <2> QED
    BY <2>1
<1>5. IsFiniteSet(A(b)) /\ Cardinality(A(b)) \in Nat /\ i \notin A(b)
  <2>1. IsFiniteSet(1 .. Len(list))
    BY <1>0, FS_Interval
  <2>2. A(b) \in SUBSET (1 .. Len(list)) /\ i \notin A(b)
    BY <1>1, <1>2
  <2> HIDE DEF A
  <2> QED
    BY <2>1, <2>2, FS_Subset, FS_CardinalityType
<1>6. \A n : AsksUpTo(list, n, asks) = Cardinality(A(n))
  BY DEF AsksUpTo
<1> HIDE DEF A
<1>7. Cardinality(A(b) \cup {i}) = Cardinality(A(b)) + 1
  BY <1>5, FS_AddElement
<1> QED
  BY <1>3, <1>4, <1>5, <1>6, <1>7

Joined == [chan : Texts, key : Texts]

JoinStates == [joins : Seq(Joined), rest : Texts]

\* What is left behind the list after each number of keys, and the keys.
KeysAre(list, tails, keys) ==
  /\ tails \in [Nat -> Texts] /\ keys \in [Nat -> Texts]
  /\ \A a \in Nat : TakesKey(list, tails[a], keys[a + 1], tails[a + 1])

\* The channels of a list up to place b, with the keys of those that ask.
JoinsUpTo(list, b, asks, keys) ==
  [i \in {k \in WordStarts(list) : k <= b} |->
     [chan |-> WordAt(list, i),
      key |-> IF WordAt(list, i) \in asks THEN keys[AsksUpTo(list, i, asks)] ELSE <<>>]]

\* The loop has joined the channels up to a place b, and as many keys as ask
\* for one are taken. It goes on while there is a letter.
HasJoins(list, tails, keys, asks, st, n) ==
  \E b \in 0 .. Len(list), m \in Nat :
    /\ JoinLeft(st.rest, list, b, m, tails[AsksUpTo(list, b, asks)]) /\ IsBetween(list, b)
    /\ InOrder(st.joins, JoinsUpTo(list, b, asks, keys))
    /\ \A i \in WordStarts(list) : i <= b => i <= LastIn(list, Alpha)
    /\ b >= n \/ LastIn(list, Alpha) <= b

\* A turn joins one more, and leaves the list from place l.
JoinsNext(list, tails, asks, st, l, one) ==
  /\ one \in Joined
  /\ \E e \in Texts :
       /\ JoinsTurn(st, asks) = [joins |-> Append(st.joins, one), rest |-> e]
       /\ \E c \in Nat : JoinLeft(e, list, l, c, tails[AsksUpTo(list, l, asks)])

\* A channel that asks is joined with its key, and others with none.
LEMMA JoinsOne ==
  ASSUME NEW list \in Texts, IsList(list), NEW tails, NEW keys, KeysAre(list, tails, keys),
         NEW asks, NEW st \in JoinStates, NEW b \in 0 .. Len(list), NEW m,
         JoinLeft(st.rest, list, b, m, tails[AsksUpTo(list, b, asks)]),
         NEW i, NEW l, NextWord(list, b, i, l),
         HasAlpha(Before(DropBlank(st.rest), "sp")),
         NEW one, one = JoinsUpTo(list, l, asks, keys)[i]
  PROVE  JoinsNext(list, tails, asks, st, l, one)
<1>1. PICK r, name, e, c, a, d, tail :
        /\ r = st.rest /\ name = ChannelName(r) /\ e = EraseText(r, name)
        /\ c = m + (i - 1 - b) /\ a = AsksUpTo(list, b, asks) /\ d = AsksUpTo(list, l, asks)
        /\ tail = tails[a]
  OBVIOUS
<1>2. a \in Nat /\ d = IF WordAt(list, i) \in asks THEN a + 1 ELSE a
  BY <1>1, AsksStep
<1>3. /\ r \in Texts /\ tail \in Texts /\ tails \in [Nat -> Texts] /\ keys \in [Nat -> Texts]
      /\ st.joins \in Seq(Joined)
      /\ TakesKey(list, tail, keys[a + 1], tails[a + 1])
  BY <1>1, <1>2 DEF JoinStates, KeysAre
<1>4. /\ name = WordAt(list, i) /\ e \in Texts /\ name \in Texts
      /\ JoinLeft(e, list, l, c, tail)
  <2>1. JoinLeft(r, list, b, m, tail)
    BY <1>1
  <2>2. /\ ChannelName(r) = WordAt(list, i)
        /\ EraseText(r, ChannelName(r)) \in Texts
        /\ JoinLeft(EraseText(r, ChannelName(r)), list, l, m + (i - 1 - b), tail)
    BY <1>3, <2>1, JoinWord
  <2>3. WordAt(list, i) \in Texts
    BY WordIsText
  <2> QED
    BY <1>1, <2>2, <2>3
<1>5. c \in Nat /\ l \in 0 .. Len(list) /\ l # 0 /\ IsBetween(list, l)
      /\ i \in {k \in WordStarts(list) : k <= l}
  <2>1. /\ {k \in WordStarts(list) : k <= l} = {k \in WordStarts(list) : k <= b} \cup {i}
        /\ IsBetween(list, l) /\ l \in 0 .. Len(list) /\ l > b
    BY NextWordStarts
  <2>2. c \in Nat
    BY <1>4 DEF JoinLeft, Left
  <2>3. l # 0
    BY <2>1
  <2> QED
    BY <2>1, <2>2, <2>3
<1>6. one = [chan |-> name, key |-> IF name \in asks THEN keys[d] ELSE <<>>]
  <2>1. AsksUpTo(list, i, asks) = d
    BY <1>1, AsksStep
  <2> QED
    BY <1>4, <1>5, <2>1 DEF JoinsUpTo
<1>7. PICK key : key = IF name \in asks THEN RetrieveKey(e) ELSE <<>>
  OBVIOUS
<1>8. name \in asks => ~KeyThrows(e)
  <2>1. SUFFICES ASSUME name \in asks PROVE ~KeyThrows(e)
    OBVIOUS
  <2>2. d = a + 1 /\ keys[d] \in Texts /\ tails[d] \in Texts
    BY <1>2, <1>3, <1>4, <2>1
  <2>3. TakesKey(list, tail, keys[d], tails[d])
    BY <1>3, <2>2
  <2> QED
    BY <1>3, <1>4, <1>5, <2>2, <2>3, NextKey
<1>9. JoinsTurn(st, asks) = [joins |-> Append(st.joins, [chan |-> name, key |-> key]),
                              rest |-> EraseText(e, key)]
  BY <1>1, <1>7, <1>8, Zenon DEF JoinsTurn
<1>10. CASE name \in asks
  <2>1. d = a + 1 /\ keys[d] \in Texts /\ tails[d] \in Texts
    BY <1>2, <1>3, <1>4, <1>10
  <2>2. /\ RetrieveKey(e) = keys[d] /\ EraseText(e, keys[d]) \in Texts
        /\ JoinLeft(EraseText(e, keys[d]), list, l, c, tails[d])
    <3>1. TakesKey(list, tail, keys[d], tails[d])
      BY <1>3, <2>1
    <3> QED
      BY <1>3, <1>4, <1>5, <2>1, <3>1, NextKey
  <2>3. key = keys[d]
    BY <1>7, <1>10, <2>2
  <2>4. one = [chan |-> name, key |-> key] /\ one \in Joined
    BY <1>4, <1>6, <1>10, <2>1, <2>3 DEF Joined
  <2> QED
    BY <1>1, <1>5, <1>9, <2>2, <2>3, <2>4 DEF JoinsNext
<1>11. CASE name \notin asks
  <2>1. d = a /\ key = <<>>
    BY <1>2, <1>4, <1>7, <1>11
  <2>2. EraseText(e, key) = e
    BY <1>4, <2>1, EraseNothing
  <2>3. one = [chan |-> name, key |-> key] /\ one \in Joined
    <3>1. <<>> \in Texts
      BY LeftAll
    <3> QED
      BY <1>4, <1>6, <1>11, <2>1, <3>1 DEF Joined
  <2> QED
    BY <1>1, <1>4, <1>5, <1>9, <2>1, <2>2, <2>3 DEF JoinsNext
<1> QED
  BY <1>10, <1>11

\* A turn, for what is left of a message.
LEMMA JoinsStep ==
  ASSUME NEW list \in Texts, IsList(list), NEW tails, NEW keys, KeysAre(list, tails, keys),
         NEW asks, NEW st \in JoinStates, NEW n \in Nat, HasJoins(list, tails, keys, asks, st, n)
  PROVE  /\ JoinsTurn(st, asks) \in JoinStates
         /\ HasJoins(list, tails, keys, asks, JoinsTurn(st, asks), n + 1)
<1>1. PICK r, joins, last, top :
        r = st.rest /\ joins = st.joins /\ last = LastIn(list, Alpha) /\ top = Len(list)
  OBVIOUS
<1>2. PICK b \in 0 .. Len(list), m \in Nat :
        /\ JoinLeft(r, list, b, m, tails[AsksUpTo(list, b, asks)]) /\ IsBetween(list, b)
        /\ InOrder(joins, JoinsUpTo(list, b, asks, keys))
        /\ \A i \in WordStarts(list) : i <= b => i <= last
        /\ b >= n \/ last <= b
  BY <1>1 DEF HasJoins
<1>3. top \in Nat /\ list \in Seq(Chars) /\ joins \in Seq(Joined) /\ r \in Texts
  BY <1>1, LenProperties DEF Texts, JoinStates
<1>4. \/ last = 0 /\ \A j \in 1 .. top : list[j] \notin Alpha
      \/ last \in 1 .. top /\ list[last] \in Alpha /\ \A j \in last + 1 .. top : list[j] \notin Alpha
  BY <1>1, <1>3, LastInLemma
<1>5. HasAlpha(Before(DropBlank(r), "sp")) <=> \E k \in b + 1 .. top : list[k] \in Alpha
  <2>1. PICK a : a = AsksUpTo(list, b, asks)
    OBVIOUS
  <2>2. tails[a] \in Texts
    <3>1. a \in Nat
      <4> DEFINE A == {k \in WordStarts(list) : k <= b /\ WordAt(list, k) \in asks}
      <4>1. IsFiniteSet(1 .. top) /\ A \in SUBSET (1 .. top)
        BY <1>1, <1>3, FS_Interval DEF WordStarts
      <4>2. a = Cardinality(A)
        BY <2>1 DEF AsksUpTo
      <4> HIDE DEF A
      <4> QED
        BY <4>1, <4>2, FS_Subset, FS_CardinalityType
    <3> QED
      BY <3>1 DEF KeysAre
  <2>3. JoinLeft(r, list, b, m, tails[a])
    BY <1>2, <2>1
  <2> QED
    BY <1>1, <1>3, <2>2, <2>3, JoinGoesOn
<1>6. CASE ~HasAlpha(Before(DropBlank(r), "sp"))
  <2>1. JoinsTurn(st, asks) = st
    BY <1>1, <1>6 DEF JoinsTurn
  <2>2. last <= b
    <3>1. last \notin b + 1 .. top \/ last = 0
      BY <1>4, <1>5, <1>6
    <3> QED
      BY <1>1, <1>3, <1>4, <3>1
  <2> QED
    BY <1>1, <1>2, <2>1, <2>2 DEF HasJoins
<1>7. CASE HasAlpha(Before(DropBlank(r), "sp"))
  <2>1. PICK k \in b + 1 .. top : list[k] \in Alpha
    BY <1>5, <1>7
  <2>2. last \in 1 .. top /\ k <= last
    <3>1. k \in 1 .. top
      BY <1>1, <1>3, <2>1
    <3>2. last \in 1 .. top /\ k \notin last + 1 .. top
      BY <1>4, <2>1, <3>1
    <3> QED
      BY <1>3, <3>1, <3>2
  <2>3. PICK i \in 1 .. k, l \in 1 .. Len(list) : NextWord(list, b, i, l)
    <3>1. list[k] \in WordChars
      BY <2>1 DEF WordChars
    <3> QED
      BY <1>1, <1>2, <2>1, <3>1, HasNextWord
  <2>4. PICK one : one = JoinsUpTo(list, l, asks, keys)[i]
    OBVIOUS
  <2>5. one \in Joined
        /\ \E e \in Texts :
             /\ JoinsTurn(st, asks) = [joins |-> Append(st.joins, one), rest |-> e]
             /\ \E c \in Nat : JoinLeft(e, list, l, c, tails[AsksUpTo(list, l, asks)])
    <3>1. JoinLeft(st.rest, list, b, m, tails[AsksUpTo(list, b, asks)])
      BY <1>1, <1>2
    <3>2. HasAlpha(Before(DropBlank(st.rest), "sp"))
      BY <1>1, <1>7
    <3>3. JoinsNext(list, tails, asks, st, l, one)
      BY <2>3, <2>4, <3>1, <3>2, JoinsOne
    <3> QED
      BY <3>3 DEF JoinsNext
  <2>6. PICK e \in Texts, c \in Nat :
          /\ JoinsTurn(st, asks) = [joins |-> Append(joins, one), rest |-> e]
          /\ JoinLeft(e, list, l, c, tails[AsksUpTo(list, l, asks)])
    BY <1>1, <2>5
  <2>7. Append(joins, one) \in Seq(Joined)
    BY <1>3, <2>5, AppendProperties
  <2> DEFINE D == {j \in WordStarts(list) : j <= b}
             E == {j \in WordStarts(list) : j <= l}
  <2>8. /\ E = D \cup {i} /\ IsBetween(list, l) /\ l \in 0 .. Len(list) /\ i \in 1 .. Len(list)
        /\ l > b /\ i <= l /\ D \in SUBSET (1 .. Len(list)) /\ \A j \in D : j < i
    BY <2>3, NextWordStarts
  <2>9. PICK v, w : v = JoinsUpTo(list, b, asks, keys) /\ w = JoinsUpTo(list, l, asks, keys)
    OBVIOUS
  <2>10. DOMAIN v = D /\ DOMAIN w = E /\ \A j \in D : j \in E => w[j] = v[j]
    BY <2>9 DEF JoinsUpTo
  <2>11. InOrder(Append(joins, one), w)
    <3> HIDE DEF D, E
    <3>1. AddsTo(w, v, Len(list), i, one)
      BY <2>4, <2>8, <2>9, <2>10 DEF AddsTo
    <3>2. InOrder(joins, v) /\ Len(list) \in Nat
      BY <1>1, <1>2, <1>3, <2>9
    <3> QED
      BY <1>3, <2>5, <3>1, <3>2, InOrderAppend
  <2>12. \A j \in WordStarts(list) : j <= l => j <= last
    <3>1. ASSUME NEW j \in WordStarts(list), j <= l PROVE j <= last
      <4>1. j \in D \/ j = i
        BY <2>8, <3>1
      <4>2. j = i => j <= last
        BY <1>1, <1>3, <2>1, <2>2, <2>3
      <4> QED
        BY <1>2, <4>1, <4>2
    <3> QED
      BY <3>1
  <2>13. l >= n + 1 \/ last <= l
    BY <1>1, <1>2, <1>3, <2>2, <2>8
  <2>14. PICK t : t = JoinsTurn(st, asks)
    OBVIOUS
  <2>15. t.joins = Append(joins, one) /\ t.rest = e /\ t \in JoinStates
    BY <2>6, <2>7, <2>14 DEF JoinStates
  <2>16. HasJoins(list, tails, keys, asks, t, n + 1)
    <3> HIDE DEF D, E
    <3>1. JoinLeft(t.rest, list, l, c, tails[AsksUpTo(list, l, asks)])
      BY <2>6, <2>15
    <3>2. InOrder(t.joins, JoinsUpTo(list, l, asks, keys))
      BY <2>9, <2>11, <2>15
    <3> QED
      BY <1>1, <2>8, <2>12, <2>13, <3>1, <3>2 DEF HasJoins
  <2> QED
    BY <2>14, <2>15, <2>16
<1> QED
  BY <1>6, <1>7

\* The turns follow each other, and the loop runs until no letter is left.
LEMMA JoinsAre ==
  ASSUME NEW list \in Texts, IsList(list), NEW tails, NEW keys, KeysAre(list, tails, keys),
         NEW asks, NEW message \in Texts, Left(message, list, 0, 0, tails[0]),
         tails[0] = <<>> \/ tails[0][1] = "sp"
  PROVE  InOrder(Joins(message, asks), JoinsUpTo(list, LastIn(list, Alpha), asks, keys))
<1> DEFINE n == Len(message)
           start == [joins |-> <<>>, rest |-> message]
           Def(h) == h = [k \in 0 .. n |-> IF k = 0 THEN start ELSE JoinsTurn(h[k - 1], asks)]
           X == {st \in JoinStates : HasJoins(list, tails, keys, asks, st, 0)}
           step == [p \in (1 .. n) \X X |-> JoinsTurn(p[2], asks)]
<1> PICK g : g = JoinsRun(message, asks)
  OBVIOUS
<1>0. n \in Nat /\ Len(list) \in Nat /\ Len(list) <= n /\ list \in Seq(Chars)
  <2>1. Len(message) = 0 + (Len(list) - 0) + Len(tails[0])
    BY DEF Left
  <2>2. tails[0] \in Texts
    BY DEF KeysAre
  <2>3. n \in Nat /\ Len(list) \in Nat /\ Len(tails[0]) \in Nat /\ list \in Seq(Chars)
    BY <2>2, LenProperties DEF Texts
  <2> QED
    BY <2>1, <2>3
<1>1. start \in JoinStates
  BY EmptySeq DEF JoinStates
<1>2. HasJoins(list, tails, keys, asks, start, 0)
  <2>1. start.rest = message /\ start.joins = <<>>
    OBVIOUS
  <2>2. 0 \in 0 .. Len(list) /\ IsBetween(list, 0) /\ 0 \in Nat /\ 0 >= 0
    BY <1>0 DEF IsBetween
  <2>3. \A i \in WordStarts(list) : ~(i <= 0)
    BY <1>0 DEF WordStarts
  <2>4. InOrder(<<>>, JoinsUpTo(list, 0, asks, keys))
    <3>1. DOMAIN JoinsUpTo(list, 0, asks, keys) = {}
      BY <2>3 DEF JoinsUpTo
    <3> QED
      BY <3>1, InOrderEmpty
  <2>5. AsksUpTo(list, 0, asks) = 0
    <3>1. {k \in WordStarts(list) : k <= 0 /\ WordAt(list, k) \in asks} = {}
      BY <2>3
    <3> QED
      BY <3>1, FS_EmptySet DEF AsksUpTo
  <2>6. message[1] = "sp"
    <3>1. list # <<>> /\ list[1] = "sp"
      BY DEF IsList
    <3>2. Len(list) # 0
      BY <3>1, EmptySeq DEF Texts
    <3>3. 1 \in 0 + 1 .. Len(list) /\ 0 + (1 - 0) = 1
      BY <1>0, <3>2
    <3>4. message[0 + (1 - 0)] = list[1]
      BY <3>3 DEF Left
    <3> QED
      BY <3>1, <3>3, <3>4
  <2>7. JoinLeft(message, list, 0, 0, tails[0])
    BY <2>6 DEF JoinLeft
  <2> HIDE DEF start
  <2> QED
    BY <2>1, <2>2, <2>3, <2>4, <2>5, <2>7 DEF HasJoins
<1>3. ASSUME NEW st \in X PROVE JoinsTurn(st, asks) \in X
  <2>1. PICK t, o : t = JoinsTurn(st, asks) /\ o = 0
    OBVIOUS
  <2>2. t \in JoinStates /\ HasJoins(list, tails, keys, asks, t, o + 1)
    BY <2>1, JoinsStep
  <2>3. HasJoins(list, tails, keys, asks, t, 0)
    <3>1. \A b \in 0 .. Len(list) : b >= 0
      BY <1>0
    <3> QED
      BY <2>2, <3>1 DEF HasJoins
  <2> QED
    BY <2>1, <2>2, <2>3
<1>4. step \in [(1 .. n) \X X -> X]
  <2> HIDE DEF X
  <2> QED
    BY <1>3
<1>5. \A k \in 1 .. n, x \in X : step[<<k, x>>] = JoinsTurn(x, asks)
  OBVIOUS
<1>6. g = CHOOSE h : Def(h)
  BY DEF JoinsRun
<1>7. start \in X
  BY <1>1, <1>2
<1> HIDE DEF start, step, n, X
<1>8. \E h : Def(h)
  <2>1. PICK f \in [0 .. n -> X] : f[0] = start /\ \A k \in 1 .. n : f[k] = step[<<k, f[k - 1]>>]
    <3>1. HasRun(n, X, start, step)
      BY <1>0, <1>4, <1>7, LoopRuns
    <3> QED
      BY <3>1 DEF HasRun
  <2>2. ASSUME NEW k \in 0 .. n
        PROVE  f[k] = IF k = 0 THEN start ELSE JoinsTurn(f[k - 1], asks)
    <3>1. CASE k = 0
      BY <2>1, <3>1
    <3>2. CASE k # 0
      <4>1. k \in 1 .. n /\ k - 1 \in 0 .. n
        BY <1>0, <3>2
      <4> QED
        BY <1>5, <2>1, <3>2, <4>1
    <3> QED
      BY <3>1, <3>2
  <2>3. Def(f)
    BY <2>2
  <2> QED
    BY <2>3
<1>9. Def(g)
  <2> HIDE DEF Def
  <2> QED
    BY <1>6, <1>8
<1>10. g[0] = start
  BY <1>0, <1>9
<1>11. ASSUME NEW k \in 1 .. n PROVE g[k] = JoinsTurn(g[k - 1], asks)
  <2>1. k \in 0 .. n /\ k # 0
    BY <1>0
  <2> QED
    BY <1>9, <2>1
<1>12. \A k \in 0 .. n : g[k] \in JoinStates /\ HasJoins(list, tails, keys, asks, g[k], k)
  <2> DEFINE S == {k \in 0 .. n : g[k] \in JoinStates /\ HasJoins(list, tails, keys, asks, g[k], k)}
  <2>1. 0 \in S
    BY <1>0, <1>1, <1>2, <1>10
  <2>2. ASSUME NEW k \in 1 .. n, k - 1 \in S PROVE k \in S
    <3>1. PICK j : j = k - 1
      OBVIOUS
    <3>2. j \in Nat /\ j \in 0 .. n /\ j + 1 = k /\ k \in 0 .. n
      BY <1>0, <3>1
    <3>3. /\ g[j] \in JoinStates /\ HasJoins(list, tails, keys, asks, g[j], j)
          /\ g[k] = JoinsTurn(g[j], asks)
      BY <1>11, <2>2, <3>1, <3>2
    <3>4. /\ JoinsTurn(g[j], asks) \in JoinStates
          /\ HasJoins(list, tails, keys, asks, JoinsTurn(g[j], asks), j + 1)
      BY <3>2, <3>3, JoinsStep
    <3> QED
      BY <3>2, <3>3, <3>4
  <2>3. \A k \in 0 .. n : k \in S
    <3> HIDE DEF S
    <3> QED
      BY <1>0, <2>1, <2>2, RangeInduction
  <2> QED
    BY <2>3
<1> PICK last : last = LastIn(list, Alpha)
  OBVIOUS
<1>13. PICK b \in 0 .. Len(list) :
         /\ InOrder(g[n].joins, JoinsUpTo(list, b, asks, keys))
         /\ \A i \in WordStarts(list) : i <= b => i <= last
         /\ b >= n \/ last <= b
  <2>1. n \in 0 .. n
    BY <1>0
  <2>2. HasJoins(list, tails, keys, asks, g[n], n)
    BY <1>12, <2>1
  <2>3. PICK b \in 0 .. Len(list) :
          /\ InOrder(g[n].joins, JoinsUpTo(list, b, asks, keys))
          /\ \A i \in WordStarts(list) : i <= b => i <= LastIn(list, Alpha)
          /\ b >= n \/ LastIn(list, Alpha) <= b
    BY <2>2 DEF HasJoins
  <2> QED
    BY <2>3
<1>14. last \in 0 .. Len(list)
  <2>1. last = 0 \/ last \in 1 .. Len(list)
    BY <1>0, <1>13, LastInLemma
  <2> QED
    BY <1>0, <2>1
<1>15. JoinsUpTo(list, b, asks, keys) = JoinsUpTo(list, last, asks, keys)
  <2>1. last <= b
    BY <1>0, <1>13, <1>14
  <2>2. \A i \in WordStarts(list) : i \in Nat
    BY DEF WordStarts
  <2>3. \A i \in WordStarts(list) : i <= b <=> i <= last
    BY <1>13, <1>14, <2>1, <2>2
  <2>4. {k \in WordStarts(list) : k <= b} = {k \in WordStarts(list) : k <= last}
    BY <2>3
  <2> QED
    BY <2>4 DEF JoinsUpTo
<1>16. Joins(message, asks) = g[n].joins
  BY DEF Joins, n
<1> QED
  BY <1>13, <1>15, <1>16

\* How many words start up to some place, and the n-th word.
WordRank(s, k) == Cardinality({l \in WordStarts(s) : l <= k})

NthWord(s, n) == {k \in WordStarts(s) : n = WordRank(s, k)}

LEMMA RankGrows ==
  ASSUME NEW s \in Texts, NEW j \in Nat, NEW k \in WordStarts(s), j < k
  PROVE  /\ WordRank(s, j) \in Nat /\ WordRank(s, k) \in Nat
         /\ WordRank(s, j) < WordRank(s, k)
<1> DEFINE A == {l \in WordStarts(s) : l <= j}
           B == {l \in WordStarts(s) : l <= k}
<1>0. Len(s) \in Nat /\ k \in 1 .. Len(s)
  BY LenProperties DEF Texts, WordStarts
<1>1. /\ A \in SUBSET (1 .. Len(s)) /\ B \in SUBSET (1 .. Len(s))
      /\ k \notin A /\ k \in B
  BY <1>0 DEF WordStarts
<1>2. \A l \in A : l \in B
  <2>1. ASSUME NEW l \in A PROVE l <= k
    <3>1. l \in 1 .. Len(s) /\ l <= j
      BY <1>1
    <3> QED
      BY <1>0, <3>1
  <2> QED
    BY <2>1
<1>3. WordRank(s, j) = Cardinality(A) /\ WordRank(s, k) = Cardinality(B)
  BY DEF WordRank
<1> HIDE DEF A, B
<1>4. A \cup {k} \in SUBSET B
  BY <1>1, <1>2
<1>5. IsFiniteSet(1 .. Len(s))
  BY <1>0, FS_Interval
<1>6. IsFiniteSet(A) /\ IsFiniteSet(B)
  BY <1>1, <1>5, FS_Subset
<1>7. /\ Cardinality(A) \in Nat /\ Cardinality(B) \in Nat
      /\ Cardinality(A \cup {k}) = Cardinality(A) + 1
      /\ Cardinality(A \cup {k}) <= Cardinality(B)
  BY <1>1, <1>4, <1>6, FS_AddElement, FS_CardinalityType, FS_Subset
<1> QED
  BY <1>3, <1>7

\* The word that has a rank is the only one.
LEMMA NthWordIs ==
  ASSUME NEW s \in Texts, NEW i \in WordStarts(s), NEW n, n = WordRank(s, i)
  PROVE  NthWord(s, n) = {i}
<1>1. ASSUME NEW k \in WordStarts(s), k # i PROVE WordRank(s, k) # n
  <2>1. k \in Nat /\ i \in Nat
    BY <1>1 DEF WordStarts
  <2>2. CASE k < i
    <3>1. /\ WordRank(s, k) \in Nat /\ WordRank(s, i) \in Nat
          /\ WordRank(s, k) < WordRank(s, i)
      BY <1>1, <2>1, <2>2, RankGrows
    <3> QED
      BY <3>1
  <2>3. CASE i < k
    <3>1. /\ WordRank(s, k) \in Nat /\ WordRank(s, i) \in Nat
          /\ WordRank(s, i) < WordRank(s, k)
      BY <1>1, <2>1, <2>3, RankGrows
    <3> QED
      BY <3>1
  <2> QED
    BY <1>1, <2>1, <2>2, <2>3
<1>2. \A k \in WordStarts(s) : n = WordRank(s, k) <=> k = i
  BY <1>1
<1> QED
  BY <1>2 DEF NthWord

\* The next word is one more.
LEMMA RankNext ==
  ASSUME NEW s \in Texts, NEW b \in 0 .. Len(s), NEW i, NEW l, NextWord(s, b, i, l)
  PROVE  /\ WordRank(s, b) \in Nat /\ WordRank(s, i) = WordRank(s, b) + 1
         /\ WordRank(s, l) = WordRank(s, i) /\ i \in WordStarts(s)
<1>1. PICK asks : asks = {WordAt(s, k) : k \in WordStarts(s)}
  OBVIOUS
<1>2. \A n : AsksUpTo(s, n, asks) = WordRank(s, n)
  <2>1. ASSUME NEW n PROVE AsksUpTo(s, n, asks) = WordRank(s, n)
    <3>1. \A k \in WordStarts(s) : WordAt(s, k) \in asks
      BY <1>1
    <3>2. {k \in WordStarts(s) : k <= n /\ WordAt(s, k) \in asks} = {k \in WordStarts(s) : k <= n}
      BY <3>1
    <3> QED
      BY <3>2 DEF AsksUpTo, WordRank
  <2> QED
    BY <2>1
<1>3. i \in WordStarts(s)
  BY DEF NextWord
<1>4. WordAt(s, i) \in asks
  BY <1>1, <1>3
<1>5. /\ AsksUpTo(s, b, asks) \in Nat
      /\ AsksUpTo(s, l, asks) = AsksUpTo(s, b, asks) + 1
      /\ AsksUpTo(s, i, asks) = AsksUpTo(s, l, asks)
  BY <1>4, AsksStep
<1> QED
  BY <1>2, <1>3, <1>5

\* The first word, the second, and none behind them.
LEMMA FirstNth ==
  ASSUME NEW s \in Texts, NEW i, NEW l, NextWord(s, 0, i, l)
  PROVE  /\ NthWord(s, 1) = {i} /\ WordRank(s, l) = 1
         /\ (\A k \in l + 1 .. Len(s) : s[k] \notin WordChars) => NthWord(s, 2) = {}
<1>0. Len(s) \in Nat /\ 0 \in 0 .. Len(s)
  BY LenProperties DEF Texts
<1>1. WordRank(s, 0) = 0
  <2>1. {k \in WordStarts(s) : k <= 0} = {}
    BY <1>0 DEF WordStarts
  <2> QED
    BY <2>1, FS_EmptySet DEF WordRank
<1>2. WordRank(s, i) = 1 /\ WordRank(s, l) = 1 /\ i \in WordStarts(s)
  BY <1>0, <1>1, RankNext
<1>3. NthWord(s, 1) = {i}
  BY <1>2, NthWordIs
<1>4. ASSUME \A k \in l + 1 .. Len(s) : s[k] \notin WordChars
      PROVE  NthWord(s, 2) = {}
  <2>1. ASSUME NEW k \in WordStarts(s) PROVE k = i
    <3>1. k \in 1 .. Len(s) /\ s[k] \in WordChars
      BY <2>1 DEF WordStarts
    <3>2. /\ {j \in WordStarts(s) : j <= l} = {j \in WordStarts(s) : j <= 0} \cup {i}
          /\ l \in 0 .. Len(s)
      BY <1>0, NextWordStarts
    <3>3. k <= l
      BY <1>0, <1>4, <3>1, <3>2
    <3>4. ~(k <= 0)
      BY <3>1
    <3> QED
      BY <2>1, <3>2, <3>3, <3>4
  <2>2. 1 # 2
    OBVIOUS
  <2> QED
    BY <1>2, <2>1, <2>2 DEF NthWord
<1> QED
  BY <1>2, <1>3, <1>4

LEMMA SecondNth ==
  ASSUME NEW s \in Texts, NEW b \in 0 .. Len(s), WordRank(s, b) = 1,
         NEW i, NEW l, NextWord(s, b, i, l)
  PROVE  NthWord(s, 2) = {i}
<1>1. WordRank(s, i) = 2 /\ i \in WordStarts(s)
  <2>1. WordRank(s, i) = WordRank(s, b) + 1 /\ i \in WordStarts(s)
    BY RankNext
  <2> QED
    BY <2>1
<1> QED
  BY <1>1, NthWordIs

LEMMA NoNth ==
  ASSUME NEW s \in Texts, s = <<>>, NEW n
  PROVE  NthWord(s, n) = {}
<1>1. Len(s) = 0
  BY EmptySeq
<1> QED
  BY <1>1 DEF NthWord, WordStarts

\* What is behind a list when no key is: a blank, and two commas at most
\* before anything else.
IsDead(t) ==
  /\ t \in Texts /\ Len(t) >= 1 /\ t[1] = "sp" /\ \A j \in 2 .. Len(t) : t[j] # "sp"
  /\ Len(t) = 1 \/ (t[2] = "comma" /\ (Len(t) = 2 \/ t[3] = "comma"))

\* No key is taken from it any more.
LEMMA DeadTail ==
  ASSUME NEW list, NEW t, IsDead(t)
  PROVE  TakesKey(list, t, <<>>, t)
<1>0. /\ Len(t) \in Nat /\ Len(t) >= 1 /\ t \in Texts /\ t[1] = "sp" /\ t \in Seq(Chars)
      /\ \A j \in 2 .. Len(t) : t[j] # "sp"
      /\ Len(t) = 1 \/ (t[2] = "comma" /\ (Len(t) = 2 \/ t[3] = "comma"))
  BY LenProperties DEF Texts, IsDead
<1>1. PICK f, g : f = (IF Len(t) = 1 THEN 2 ELSE 3) /\ g = f - 1
  OBVIOUS
<1>2. /\ f = IF 1 < Len(t) /\ t[1 + 1] = "comma" THEN 1 + 2 ELSE 1 + 1
      /\ g \in f - 1 .. Len(t) /\ f .. g = {}
      /\ g = Len(t) \/ t[g + 1] = "comma"
      /\ 1 \in 1 .. Len(t) /\ \A j \in 1 + 1 .. Len(t) : t[j] # "sp"
      /\ f \in 1 .. Len(t) + 1 /\ g = f - 1 /\ g \in 0 .. Len(t)
  <2>1. CASE Len(t) = 1
    BY <1>0, <1>1, <2>1
  <2>2. CASE Len(t) # 1
    <3>1. f = 3 /\ g = 2 /\ Len(t) >= 2 /\ Len(t) \in Nat
      <4>1. f = 3 /\ g = f - 1
        BY <1>1, <2>2
      <4>2. Len(t) \in Nat /\ Len(t) >= 1
        BY <1>0
      <4>3. Len(t) >= 2
        <5>1. PICK n : n = Len(t)
          OBVIOUS
        <5>2. n \in Nat /\ n >= 1 /\ n # 1
          BY <2>2, <4>2, <5>1
        <5>3. n >= 2
          BY <5>2
        <5> QED
          BY <5>1, <5>3
      <4>4. g = 2
        BY <4>1
      <4> QED
        BY <4>1, <4>2, <4>3, <4>4
    <3>2. t[1 + 1] = "comma" /\ 1 < Len(t) /\ (2 = Len(t) \/ t[2 + 1] = "comma")
      BY <1>0, <2>2, <3>1
    <3>3. /\ 1 \in 1 .. Len(t) /\ 2 \in 3 - 1 .. Len(t) /\ 3 .. 2 = {}
          /\ 3 \in 1 .. Len(t) + 1 /\ 2 \in 0 .. Len(t) /\ 1 + 1 = 2
      BY <3>1
    <3> QED
      BY <1>0, <3>1, <3>2, <3>3
  <2> QED
    BY <2>1, <2>2
<1>3. HasKey(t, f, g)
  BY <1>0, <1>2 DEF HasKey, KeyAt
<1>4. SubSeq(t, f, g) = <<>>
  <2>1. SubSeq(t, f, g) \in Texts /\ Len(SubSeq(t, f, g)) = g - f + 1
    BY <1>0, <1>2, PartLemma
  <2>2. Len(SubSeq(t, f, g)) = 0
    BY <1>2, <2>1
  <2> QED
    BY <2>1, <2>2, EmptySeq DEF Texts
<1>5. Erased(t, f - 1, g, t)
  <2>1. f - 1 = g
    BY <1>2
  <2>2. Len(t) = Len(t) - (g - g) /\ \A i \in g + 1 .. Len(t) : i + (g - g) = i
    BY <1>0, <1>2
  <2>3. Erased(t, g, g, t)
    BY <1>0, <2>2 DEF Erased
  <2> QED
    BY <2>1, <2>3
<1> QED
  BY <1>3, <1>4, <1>5 DEF TakesKey, KeyTaken, IsNotIn

\* A key is taken from it.
LEMMA LiveTail ==
  ASSUME NEW list, NEW t \in Texts, NEW f, NEW g, HasKey(t, f, g),
         NEW key, key = SubSeq(t, f, g), IsNotIn(list, key)
  PROVE  \E next \in Texts : Erased(t, f - 1, g, next) /\ TakesKey(list, t, key, next)
<1>1. PICK p, next : p = f - 1 /\ next = SubSeq(t, 1, p) \o SubSeq(t, g + 1, Len(t))
  OBVIOUS
<1>2. p \in 0 .. Len(t) /\ g \in p .. Len(t)
  <2>1. /\ Len(t) \in Nat /\ f \in 2 .. Len(t) + 1 /\ g \in f - 1 .. Len(t)
    BY HasKeyIs
  <2> QED
    BY <1>1, <2>1
<1>3. Erased(t, p, g, next)
  BY <1>1, <1>2, ErasedChars
<1>4. next \in Texts /\ Erased(t, f - 1, g, next)
  BY <1>1, <1>3 DEF Erased
<1>5. TakesKey(list, t, key, next)
  BY <1>4 DEF TakesKey, KeyTaken
<1> QED
  BY <1>4, <1>5

\* A blank, and the keys without the first l characters.
KeyedFrom(t, keyed, l) ==
  /\ t \in Texts /\ Len(t) = 1 + (Len(keyed) - l) /\ t[1] = "sp"
  /\ \A j \in l + 1 .. Len(keyed) : t[1 + (j - l)] = keyed[j]

\* A place where a key of a list of keys has just ended, and the place where
\* the next one would start.
KeyEnds(keyed, l, i) ==
  \/ l = 0 /\ i = 1
  \/ /\ l \in 1 .. Len(keyed) /\ i = l + 2 /\ keyed[l] \in WordChars
     /\ l = Len(keyed) \/ keyed[l + 1] \notin WordChars

LEMMA KeyedChars ==
  ASSUME NEW keyed \in Texts, AreKeys(keyed), NEW l, NEW i, KeyEnds(keyed, l, i)
  PROVE  /\ Len(keyed) \in Nat /\ l \in 0 .. Len(keyed) /\ i \in l + 1 .. l + 2
         /\ i = (IF l = 0 THEN 1 ELSE l + 2)
         /\ \A j \in 1 .. Len(keyed) : keyed[j] # "sp"
         /\ l # 0 /\ l < Len(keyed) => keyed[l + 1] = "comma"
         /\ i <= Len(keyed) => keyed[i] \in WordChars
         /\ "sp" \notin WordChars /\ "comma" \notin WordChars
<1>0. Len(keyed) \in Nat /\ "sp" \notin WordChars /\ "comma" \notin WordChars
  BY LenProperties, CommandLineAssumption DEF Texts
<1>1. l \in 0 .. Len(keyed) /\ i \in l + 1 .. l + 2 /\ i = (IF l = 0 THEN 1 ELSE l + 2)
  BY <1>0 DEF KeyEnds
<1>2. \A j \in 1 .. Len(keyed) :
        keyed[j] \in WordChars \/ (keyed[j] = "comma" /\ j # 1 /\ keyed[j - 1] \in WordChars)
  BY DEF AreKeys
<1>3. \A j \in 1 .. Len(keyed) : keyed[j] # "sp"
  <2>1. "comma" # "sp"
    OBVIOUS
  <2> QED
    BY <1>0, <1>2, <2>1
<1>4. ASSUME l # 0, l < Len(keyed) PROVE keyed[l + 1] = "comma"
  <2>1. l + 1 \in 1 .. Len(keyed) /\ keyed[l + 1] \notin WordChars
    BY <1>0, <1>1, <1>4 DEF KeyEnds
  <2> QED
    BY <1>2, <2>1
<1>5. ASSUME i <= Len(keyed) PROVE keyed[i] \in WordChars
  <2>1. i \in 1 .. Len(keyed)
    BY <1>0, <1>1, <1>5
  <2>2. CASE l = 0
    BY <1>1, <1>2, <2>1, <2>2
  <2>3. CASE l # 0
    <3>1. l < Len(keyed) /\ i - 1 = l + 1
      BY <1>0, <1>1, <1>5, <2>3
    <3>2. keyed[i - 1] \notin WordChars
      BY <1>0, <1>4, <2>3, <3>1
    <3> QED
      BY <1>2, <2>1, <3>2
  <2> QED
    BY <2>2, <2>3
<1> QED
  BY <1>0, <1>1, <1>3, <1>4, <1>5

\* The next key is a word, and stands in what is behind the list.
LEMMA KeyedWord ==
  ASSUME NEW keyed \in Texts, AreKeys(keyed), NEW l, NEW i, KeyEnds(keyed, l, i),
         NEW t, KeyedFrom(t, keyed, l), i <= Len(keyed)
  PROVE  \E e \in i .. Len(keyed) :
           /\ NextWord(keyed, l, i, e)
           /\ HasKey(t, i - l + 1, e - l + 1)
           /\ SubSeq(t, i - l + 1, e - l + 1) = WordAt(keyed, i)
<1>0. /\ Len(keyed) \in Nat /\ l \in 0 .. Len(keyed) /\ i \in l + 1 .. l + 2
      /\ i = (IF l = 0 THEN 1 ELSE l + 2)
      /\ \A j \in 1 .. Len(keyed) : keyed[j] # "sp"
      /\ l # 0 /\ l < Len(keyed) => keyed[l + 1] = "comma"
      /\ keyed[i] \in WordChars
      /\ "sp" \notin WordChars /\ "comma" \notin WordChars
  BY KeyedChars
<1>1. PICK n, top : n = Len(keyed) /\ top = Len(t)
  OBVIOUS
<1>2. /\ t \in Texts /\ top = 1 + (n - l) /\ t[1] = "sp" /\ n \in Nat /\ i <= n
      /\ \A j \in l + 1 .. n : t[1 + (j - l)] = keyed[j]
  BY <1>0, <1>1 DEF KeyedFrom
<1>3. IsBetween(keyed, l)
  <2>1. l = 0 \/ l = n \/ keyed[l + 1] \notin WordChars
    BY <1>0, <1>1
  <2> QED
    BY <1>0, <1>1, <2>1 DEF IsBetween
<1>4. PICK x \in 1 .. i, e \in 1 .. Len(keyed) : NextWord(keyed, l, x, e)
  <2>1. i \in l + 1 .. Len(keyed)
    BY <1>0, <1>1, <1>2
  <2> QED
    BY <1>0, <1>3, <2>1, HasNextWord
<1>5. x = i
  <2>1. x > l /\ keyed[x] \in WordChars
    BY <1>4 DEF NextWord, WordStarts
  <2>2. CASE l = 0
    BY <1>0, <1>4, <2>2
  <2>3. CASE l # 0
    <3>1. l < n /\ keyed[l + 1] = "comma" /\ i = l + 2
      BY <1>0, <1>1, <1>2, <2>3
    <3>2. x # l + 1
      BY <1>0, <2>1, <3>1
    <3> QED
      BY <1>0, <1>4, <2>1, <3>1, <3>2
  <2> QED
    BY <2>2, <2>3
<1>6. /\ NextWord(keyed, l, i, e) /\ e \in i .. n /\ WordFrom(keyed, i, e)
      /\ \A k \in i .. e : keyed[k] \in WordChars
      /\ e = n \/ keyed[e + 1] \notin WordChars
  BY <1>1, <1>4, <1>5 DEF NextWord, WordFrom
<1>7. PICK f, g : f = i - l + 1 /\ g = e - l + 1
  OBVIOUS
<1>8. f \in 2 .. 3 /\ f <= top /\ g \in f .. top /\ top \in Nat /\ g - f = e - i
  BY <1>0, <1>2, <1>6, <1>7
<1>9. ASSUME NEW y \in 2 .. top
      PROVE  t[y] = keyed[y - 1 + l] /\ y - 1 + l \in l + 1 .. n
  <2>1. PICK j : j = y - 1 + l
    OBVIOUS
  <2>2. j \in l + 1 .. n /\ 1 + (j - l) = y
    BY <1>0, <1>2, <1>8, <2>1
  <2> QED
    BY <1>2, <2>1, <2>2
<1>10. ASSUME NEW y \in f .. g PROVE t[y] \in WordChars
  <2>1. y \in 2 .. top /\ y - 1 + l \in i .. e
    BY <1>0, <1>6, <1>7, <1>8
  <2> QED
    BY <1>6, <1>9, <2>1
<1>11. HasKey(t, f, g)
  <2>1. 1 \in 1 .. top /\ t[1] = "sp"
    BY <1>2, <1>8
  <2>2. ASSUME NEW y \in 1 + 1 .. top PROVE t[y] # "sp"
    <3>1. y \in 2 .. top /\ l + 1 .. n \subseteq 1 .. n
      BY <1>0
    <3> QED
      BY <1>0, <1>1, <1>9, <3>1
  <2>3. f = IF 1 < top /\ t[1 + 1] = "comma" THEN 1 + 2 ELSE 1 + 1
    <3>1. 2 \in 2 .. top /\ 1 < top /\ 2 - 1 + l = l + 1 /\ 1 + 1 = 2 /\ 1 + 2 = 3
      BY <1>0, <1>8
    <3>2. t[2] = keyed[l + 1]
      BY <1>9, <3>1
    <3>3. CASE l = 0
      <4>1. i = 1 /\ f = 2 /\ l + 1 = i
        BY <1>0, <1>7, <3>3
      <4>2. t[2] # "comma"
        BY <1>0, <3>2, <4>1
      <4> QED
        BY <3>1, <4>1, <4>2
    <3>4. CASE l # 0
      <4>1. l < n /\ f = 3
        BY <1>0, <1>1, <1>2, <1>7, <3>4
      <4>2. t[2] = "comma"
        BY <1>0, <1>1, <3>2, <3>4, <4>1
      <4> QED
        BY <3>1, <4>1, <4>2
    <3> QED
      BY <3>3, <3>4
  <2>4. g \in f - 1 .. top
    BY <1>8
  <2>5. \A y \in f .. g : t[y] # "comma"
    BY <1>0, <1>10
  <2>6. g = top \/ t[g + 1] = "comma"
    <3>1. CASE e = n
      BY <1>0, <1>2, <1>7, <3>1
    <3>2. CASE e # n
      <4>1. PICK x1, y : x1 = e + 1 /\ y = g + 1
        OBVIOUS
      <4>2. x1 \in 1 .. n /\ keyed[x1] \notin WordChars /\ y \in 2 .. top /\ y - 1 + l = x1
        BY <1>0, <1>2, <1>6, <1>7, <1>8, <3>2, <4>1
      <4>3. keyed[x1] = "comma"
        BY <1>1, <4>2 DEF AreKeys
      <4>4. t[y] = keyed[x1]
        BY <1>9, <4>2
      <4> QED
        BY <4>1, <4>3, <4>4
    <3> QED
      BY <3>1, <3>2
  <2> QED
    BY <1>1, <1>10, <2>1, <2>2, <2>3, <2>4, <2>5, <2>6 DEF HasKey, KeyAt
<1>12. SubSeq(t, f, g) = WordAt(keyed, i)
  <2>1. PICK m : m = g - f + 1
    OBVIOUS
  <2>2. m \in Nat /\ e - i + 1 = m /\ i \in 1 .. n + 1 /\ e \in i - 1 .. n
        /\ f \in 1 .. top + 1 /\ g \in f - 1 .. top
    BY <1>0, <1>2, <1>6, <1>8, <2>1
  <2>3. ASSUME NEW k \in 1 .. m PROVE t[f + k - 1] = keyed[i + k - 1]
    <3>1. PICK y : y = f + k - 1
      OBVIOUS
    <3>2. y \in 2 .. top /\ y - 1 + l = i + k - 1
      BY <1>0, <1>7, <1>8, <2>1, <3>1
    <3> QED
      BY <1>9, <3>1, <3>2
  <2>4. SubSeq(t, f, g) = SubSeq(keyed, i, e)
    <3>1. PICK u, v : u = SubSeq(t, f, g) /\ v = SubSeq(keyed, i, e)
      OBVIOUS
    <3>2. u \in Texts /\ Len(u) = g - f + 1 /\ \A k \in 1 .. g - f + 1 : u[k] = t[f + k - 1]
      <4>1. t \in Texts
        BY <1>2
      <4>2. f \in 1 .. Len(t) + 1 /\ g \in f - 1 .. Len(t)
        BY <1>1, <2>2
      <4>3. /\ SubSeq(t, f, g) \in Texts /\ Len(SubSeq(t, f, g)) = g - f + 1
            /\ \A k \in 1 .. g - f + 1 : SubSeq(t, f, g)[k] = t[f + k - 1]
        BY <4>1, <4>2, PartLemma
      <4> QED
        BY <3>1, <4>3
    <3>3. /\ v \in Texts /\ Len(v) = e - i + 1
          /\ \A k \in 1 .. e - i + 1 : v[k] = keyed[i + k - 1]
      BY <1>1, <2>2, <3>1, PartLemma
    <3>4. Len(u) = m /\ Len(v) = m /\ \A k \in 1 .. m : u[k] = v[k]
      BY <2>1, <2>2, <2>3, <3>2, <3>3
    <3>5. u = v
      BY <3>2, <3>3, <3>4, SeqEqual DEF Texts
    <3> QED
      BY <3>1, <3>5
  <2>5. WordAt(keyed, i) = SubSeq(keyed, i, e)
    BY <1>6, WordAtIs
  <2> QED
    BY <2>4, <2>5
<1> QED
  BY <1>1, <1>6, <1>7, <1>11, <1>12

\* Behind the last key there is no word, and nothing to take.
LEMMA KeyedEnd ==
  ASSUME NEW keyed \in Texts, AreKeys(keyed), NEW l, NEW i, KeyEnds(keyed, l, i),
         NEW t, KeyedFrom(t, keyed, l), ~(i <= Len(keyed))
  PROVE  IsDead(t) /\ \A k \in l + 1 .. Len(keyed) : keyed[k] \notin WordChars
<1>0. /\ Len(keyed) \in Nat /\ l \in 0 .. Len(keyed) /\ i \in l + 1 .. l + 2
      /\ i = (IF l = 0 THEN 1 ELSE l + 2)
      /\ l # 0 /\ l < Len(keyed) => keyed[l + 1] = "comma"
      /\ "comma" \notin WordChars
  BY KeyedChars
<1>1. PICK n, top : n = Len(keyed) /\ top = Len(t)
  OBVIOUS
<1>2. /\ t \in Texts /\ top = 1 + (n - l) /\ t[1] = "sp" /\ n \in Nat /\ i > n
      /\ \A j \in l + 1 .. n : t[1 + (j - l)] = keyed[j]
  BY <1>0, <1>1 DEF KeyedFrom
<1>3. CASE l = n
  <2>1. top = 1 /\ \A j \in 2 .. 1 : t[j] # "sp"
    BY <1>0, <1>2, <1>3
  <2>2. l + 1 .. Len(keyed) = {}
    BY <1>0, <1>1, <1>3
  <2>3. IsDead(t)
    BY <1>1, <1>2, <2>1 DEF IsDead
  <2> QED
    BY <2>2, <2>3
<1>4. CASE l # n
  <2>1. l # 0 /\ l + 1 = n /\ l < n
    BY <1>0, <1>1, <1>2, <1>4
  <2>2. keyed[n] = "comma"
    BY <1>0, <1>1, <2>1
  <2>3. n \in l + 1 .. n /\ 1 + (n - l) = 2 /\ top = 2
    BY <1>0, <1>1, <1>2, <2>1
  <2>4. t[2] = "comma"
    <3>1. t[1 + (n - l)] = keyed[n]
      BY <1>2, <2>3
    <3> QED
      BY <2>2, <2>3, <3>1
  <2>5. IsDead(t)
    <3>1. top >= 1 /\ \A j \in 2 .. 2 : j = 2
      BY <2>3
    <3>2. \A j \in 2 .. top : t[j] # "sp"
      BY <2>3, <2>4, <3>1
    <3> QED
      BY <1>1, <1>2, <2>3, <2>4, <3>1, <3>2 DEF IsDead
  <2>6. \A k \in l + 1 .. Len(keyed) : k = n
    BY <1>0, <1>1, <2>1
  <2> QED
    BY <1>0, <2>2, <2>5, <2>6
<1> QED
  BY <1>3, <1>4

\* Without the first key the second is next.
LEMMA KeyedFirst ==
  ASSUME NEW keyed \in Texts, NEW t, KeyedFrom(t, keyed, 0),
         NEW e, NextWord(keyed, 0, 1, e),
         NEW next, Erased(t, 2 - 1, e + 1, next)
  PROVE  KeyedFrom(next, keyed, e) /\ KeyEnds(keyed, e, e + 2)
<1>0. /\ Len(keyed) \in Nat /\ e \in 1 .. Len(keyed)
      /\ keyed[e] \in WordChars /\ (e = Len(keyed) \/ keyed[e + 1] \notin WordChars)
  BY LenProperties DEF Texts, NextWord, WordFrom
<1>1. PICK n, top, p, g : n = Len(keyed) /\ top = Len(next) /\ p = 2 - 1 /\ g = e + 1
  OBVIOUS
<1>2. /\ Len(t) = 1 + (n - 0) /\ t[1] = "sp"
      /\ \A j \in 0 + 1 .. n : t[1 + (j - 0)] = keyed[j]
  BY <1>1 DEF KeyedFrom
<1>3. /\ next \in Texts /\ top = Len(t) - (g - p)
      /\ \A j \in 1 .. p : next[j] = t[j]
      /\ \A j \in p + 1 .. top : next[j] = t[j + (g - p)]
  <2>1. Erased(t, p, g, next)
    BY <1>1
  <2> QED
    BY <1>1, <2>1 DEF Erased
<1>4. p = 1 /\ g - p = e /\ top = 1 + (n - e) /\ n \in Nat
  BY <1>0, <1>1, <1>2, <1>3
<1>5. next[1] = "sp"
  BY <1>2, <1>3, <1>4
<1>6. ASSUME NEW j \in e + 1 .. n PROVE next[1 + (j - e)] = keyed[j]
  <2>1. PICK y, z : y = 1 + (j - e) /\ z = 1 + (j - 0)
    OBVIOUS
  <2>2. y \in p + 1 .. top /\ y + (g - p) = z /\ j \in 0 + 1 .. n
    BY <1>0, <1>1, <1>4, <2>1
  <2>3. next[y] = t[z]
    BY <1>3, <2>2
  <2>4. t[z] = keyed[j]
    BY <1>2, <2>1, <2>2
  <2> QED
    BY <2>1, <2>3, <2>4
<1>7. KeyedFrom(next, keyed, e)
  BY <1>1, <1>3, <1>4, <1>5, <1>6 DEF KeyedFrom
<1>8. KeyEnds(keyed, e, e + 2)
  BY <1>0 DEF KeyEnds
<1> QED
  BY <1>7, <1>8

\* Without the second none is.
LEMMA KeyedSecond ==
  ASSUME NEW keyed \in Texts, AreKeys(keyed), NEW l, l # 0, KeyEnds(keyed, l, l + 2),
         NEW t, KeyedFrom(t, keyed, l),
         NEW e, NextWord(keyed, l, l + 2, e), l + 2 <= Len(keyed),
         NEW next, Erased(t, 3 - 1, e - l + 1, next)
  PROVE  IsDead(next)
<1>0. /\ Len(keyed) \in Nat /\ l \in 1 .. Len(keyed)
      /\ keyed[l + 1] = "comma" /\ \A j \in 1 .. Len(keyed) : keyed[j] # "sp"
  <2>1. PICK i : i = l + 2
    OBVIOUS
  <2>2. KeyEnds(keyed, l, i)
    BY <2>1
  <2>3. /\ Len(keyed) \in Nat /\ l \in 0 .. Len(keyed)
        /\ l # 0 /\ l < Len(keyed) => keyed[l + 1] = "comma"
        /\ \A j \in 1 .. Len(keyed) : keyed[j] # "sp"
    BY <2>2, KeyedChars
  <2>4. l < Len(keyed) /\ l \in 1 .. Len(keyed)
    BY <2>3
  <2> QED
    BY <2>3, <2>4
<1>1. PICK n, top, p, g : n = Len(keyed) /\ top = Len(next) /\ p = 3 - 1 /\ g = e - l + 1
  OBVIOUS
<1>2. /\ Len(t) = 1 + (n - l) /\ t[1] = "sp"
      /\ \A j \in l + 1 .. n : t[1 + (j - l)] = keyed[j]
  BY <1>1 DEF KeyedFrom
<1>3. /\ next \in Texts /\ top = Len(t) - (g - p)
      /\ \A j \in 1 .. p : next[j] = t[j]
      /\ \A j \in p + 1 .. top : next[j] = t[j + (g - p)]
  <2>1. Erased(t, p, g, next)
    BY <1>1
  <2> QED
    BY <1>1, <2>1 DEF Erased
<1>4. e \in l + 2 .. n /\ (e = n \/ keyed[e + 1] = "comma")
  <2>1. /\ e \in l + 2 .. n /\ (e = n \/ keyed[e + 1] \notin WordChars)
    BY <1>1 DEF NextWord, WordFrom
  <2>2. ASSUME e # n PROVE keyed[e + 1] = "comma"
    <3>1. e + 1 \in 1 .. Len(keyed)
      BY <1>0, <1>1, <2>1, <2>2
    <3> QED
      BY <2>1, <2>2, <3>1 DEF AreKeys
  <2> QED
    BY <2>1, <2>2
<1>5. p = 2 /\ g - p = e - l - 1 /\ top = 2 + (n - e) /\ n \in Nat /\ e \in Nat /\ top >= 2
  BY <1>0, <1>1, <1>2, <1>3, <1>4
<1>6. next[1] = "sp"
  BY <1>2, <1>3, <1>5
<1>7. next[2] = "comma"
  <2>1. PICK y : y = l + 1
    OBVIOUS
  <2>2. y \in l + 1 .. n /\ 1 + (y - l) = 2
    BY <1>0, <1>4, <1>5, <2>1
  <2>3. t[2] = "comma"
    <3>1. t[1 + (y - l)] = keyed[y]
      BY <1>2, <2>2
    <3>2. keyed[y] = "comma"
      BY <1>0, <2>1
    <3> QED
      BY <2>2, <3>1, <3>2
  <2>4. 2 \in 1 .. p
    BY <1>5
  <2> QED
    BY <1>3, <2>3, <2>4
<1>8. ASSUME NEW j \in 3 .. top
      PROVE  next[j] = keyed[j - 2 + e] /\ j - 2 + e \in e + 1 .. n
  <2>1. PICK x, y : x = j - 2 + e /\ y = j + (g - p)
    OBVIOUS
  <2>2. j \in p + 1 .. top /\ x \in l + 1 .. n /\ 1 + (x - l) = y /\ x \in e + 1 .. n
    BY <1>0, <1>4, <1>5, <2>1
  <2>3. next[j] = t[y]
    BY <1>3, <2>1, <2>2
  <2>4. t[1 + (x - l)] = keyed[x]
    BY <1>2, <2>2
  <2> QED
    BY <2>1, <2>2, <2>3, <2>4
<1>9. \A j \in 2 .. top : next[j] # "sp"
  <2>1. ASSUME NEW j \in 2 .. top PROVE next[j] # "sp"
    <3>1. CASE j = 2
      BY <1>7, <3>1
    <3>2. CASE j # 2
      <4>1. j \in 3 .. top /\ \A k \in e + 1 .. n : k \in 1 .. Len(keyed)
        BY <1>1, <1>5, <2>1, <3>2
      <4> QED
        BY <1>0, <1>8, <4>1
    <3> QED
      BY <3>1, <3>2
  <2> QED
    BY <2>1
<1>10. top = 2 \/ next[3] = "comma"
  <2>1. CASE e = n
    BY <1>5, <2>1
  <2>2. CASE e # n
    <3>1. 3 \in 3 .. top /\ 3 - 2 + e = e + 1
      BY <1>4, <1>5, <2>2
    <3>2. next[3] = keyed[3 - 2 + e]
      BY <1>8, <3>1
    <3>3. keyed[e + 1] = "comma"
      BY <1>4, <2>2
    <3> QED
      BY <3>1, <3>2, <3>3
  <2> QED
    BY <2>1, <2>2
<1>11. top >= 1
  BY <1>5
<1> QED
  BY <1>1, <1>3, <1>6, <1>7, <1>9, <1>10, <1>11 DEF IsDead

\* The n-th key, for the first two: the third is behind two commas.
KeyOf(keyed, n) ==
  IF n <= 2 /\ NthWord(keyed, n) # {}
  THEN WordAt(keyed, CHOOSE k \in NthWord(keyed, n) : TRUE)
  ELSE <<>>

\* What is taken one after the other, when nothing is left behind two keys.
LEMMA TwoKeys ==
  ASSUME NEW list, NEW t0 \in Texts, NEW t1 \in Texts, NEW t2 \in Texts,
         NEW k1 \in Texts, NEW k2 \in Texts,
         TakesKey(list, t0, k1, t1), TakesKey(list, t1, k2, t2), TakesKey(list, t2, <<>>, t2)
  PROVE  \E tails, keys :
           /\ KeysAre(list, tails, keys) /\ tails[0] = t0
           /\ keys[1] = k1 /\ keys[2] = k2 /\ \A n \in Nat : n > 2 => keys[n] = <<>>
<1>1. PICK tails, keys :
        /\ tails = [a \in Nat |-> IF a = 0 THEN t0 ELSE IF a = 1 THEN t1 ELSE t2]
        /\ keys = [a \in Nat |-> IF a = 1 THEN k1 ELSE IF a = 2 THEN k2 ELSE <<>>]
  OBVIOUS
<1>2. <<>> \in Texts
  BY LeftAll
<1>3. /\ tails \in [Nat -> Texts] /\ keys \in [Nat -> Texts]
      /\ tails[0] = t0 /\ tails[1] = t1 /\ keys[1] = k1 /\ keys[2] = k2
      /\ \A a \in Nat : a > 1 => tails[a] = t2
      /\ \A a \in Nat : a > 2 => keys[a] = <<>>
  BY <1>1, <1>2
<1>4. ASSUME NEW a \in Nat PROVE TakesKey(list, tails[a], keys[a + 1], tails[a + 1])
  <2>1. PICK b : b = a + 1
    OBVIOUS
  <2>2. b \in Nat
    BY <2>1
  <2>3. TakesKey(list, tails[a], keys[b], tails[b])
    <3>1. CASE a = 0
      <4>1. b = 1
        BY <2>1, <3>1
      <4> QED
        BY <1>3, <3>1, <4>1
    <3>2. CASE a = 1
      <4>1. b = 2 /\ b > 1
        BY <2>1, <3>2
      <4>2. tails[b] = t2
        BY <1>3, <2>2, <4>1
      <4> QED
        BY <1>3, <3>2, <4>1, <4>2
    <3>3. CASE a # 0 /\ a # 1
      <4>1. a > 1 /\ b > 1 /\ b > 2
        BY <2>1, <3>3
      <4>2. tails[a] = t2 /\ tails[b] = t2 /\ keys[b] = <<>>
        BY <1>3, <2>2, <4>1
      <4> QED
        BY <4>2
    <3> QED
      BY <3>1, <3>2, <3>3
  <2> QED
    BY <2>1, <2>3
<1>5. KeysAre(list, tails, keys)
  BY <1>3, <1>4 DEF KeysAre
<1> QED
  BY <1>3, <1>5

\* No key has its first occurrence in the list.
NoKeyIn(list, keyed) == \A k \in WordStarts(keyed) : IsNotIn(list, WordAt(keyed, k))

\* So the first two keys are taken in their order, and no other.
LEMMA KeysTaken ==
  ASSUME NEW list, NEW keyed \in Texts, AreKeys(keyed),
         NEW t, KeyedFrom(t, keyed, 0),
         NoKeyIn(list, keyed)
  PROVE  \E tails, keys :
           /\ KeysAre(list, tails, keys) /\ tails[0] = t
           /\ keys[1] = KeyOf(keyed, 1) /\ keys[2] = KeyOf(keyed, 2)
           /\ \A n \in Nat : n > 2 => keys[n] = <<>>
<1>0. /\ Len(keyed) \in Nat /\ t \in Texts /\ <<>> \in Texts /\ 0 \in 0 .. Len(keyed)
      /\ \A k \in WordStarts(keyed) : IsNotIn(list, WordAt(keyed, k))
  BY LenProperties, LeftAll DEF Texts, KeyedFrom, NoKeyIn
<1>1. KeyEnds(keyed, 0, 1)
  BY DEF KeyEnds
<1>2. CASE ~(1 <= Len(keyed))
  <2>1. IsDead(t)
    BY <1>1, <1>2, KeyedEnd
  <2>2. keyed = <<>>
    <3>1. Len(keyed) = 0
      BY <1>0, <1>2
    <3> QED
      BY <3>1, EmptySeq DEF Texts
  <2>3. KeyOf(keyed, 1) = <<>> /\ KeyOf(keyed, 2) = <<>>
    BY <2>2, NoNth DEF KeyOf
  <2>4. TakesKey(list, t, <<>>, t)
    BY <2>1, DeadTail
  <2> QED
    BY <1>0, <2>3, <2>4, TwoKeys
<1>3. CASE 1 <= Len(keyed)
  <2>1. PICK e \in 1 .. Len(keyed) :
          /\ NextWord(keyed, 0, 1, e)
          /\ HasKey(t, 2, e + 1) /\ SubSeq(t, 2, e + 1) = WordAt(keyed, 1)
    <3>1. \E e \in 1 .. Len(keyed) :
            /\ NextWord(keyed, 0, 1, e)
            /\ HasKey(t, 1 - 0 + 1, e - 0 + 1)
            /\ SubSeq(t, 1 - 0 + 1, e - 0 + 1) = WordAt(keyed, 1)
      BY <1>1, <1>3, KeyedWord
    <3>2. PICK e \in 1 .. Len(keyed) :
            /\ NextWord(keyed, 0, 1, e)
            /\ HasKey(t, 1 - 0 + 1, e - 0 + 1)
            /\ SubSeq(t, 1 - 0 + 1, e - 0 + 1) = WordAt(keyed, 1)
      BY <3>1
    <3>3. 1 - 0 + 1 = 2 /\ e - 0 + 1 = e + 1
      OBVIOUS
    <3> QED
      BY <3>2, <3>3
  <2>2. PICK k1 : k1 = WordAt(keyed, 1)
    OBVIOUS
  <2>3. /\ NthWord(keyed, 1) = {1} /\ WordRank(keyed, e) = 1
        /\ (\A k \in e + 1 .. Len(keyed) : keyed[k] \notin WordChars) => NthWord(keyed, 2) = {}
    BY <2>1, FirstNth
  <2>4. k1 = KeyOf(keyed, 1) /\ k1 \in Texts /\ IsNotIn(list, k1)
    <3>1. 1 \in WordStarts(keyed)
      BY <2>1 DEF NextWord
    <3>2. k1 \in Texts
      BY <2>1, <2>2, WordIsText
    <3>3. (CHOOSE k \in NthWord(keyed, 1) : TRUE) = 1 /\ NthWord(keyed, 1) # {}
      BY <2>3
    <3>4. 1 <= 2
      OBVIOUS
    <3> QED
      BY <1>0, <2>2, <3>1, <3>2, <3>3, <3>4 DEF KeyOf
  <2>5. PICK t1 \in Texts : Erased(t, 2 - 1, e + 1, t1) /\ TakesKey(list, t, k1, t1)
    BY <1>0, <2>1, <2>2, <2>4, LiveTail
  <2>6. KeyedFrom(t1, keyed, e) /\ KeyEnds(keyed, e, e + 2)
    BY <2>1, <2>5, KeyedFirst
  <2>7. CASE ~(e + 2 <= Len(keyed))
    <3>1. PICK i : i = e + 2
      OBVIOUS
    <3>2. KeyEnds(keyed, e, i) /\ ~(i <= Len(keyed))
      BY <2>6, <2>7, <3>1
    <3>3. IsDead(t1) /\ \A k \in e + 1 .. Len(keyed) : keyed[k] \notin WordChars
      BY <2>6, <3>2, KeyedEnd
    <3>4. KeyOf(keyed, 2) = <<>>
      BY <2>3, <3>3 DEF KeyOf
    <3>5. TakesKey(list, t1, <<>>, t1)
      BY <3>3, DeadTail
    <3> QED
      BY <1>0, <2>4, <2>5, <3>4, <3>5, TwoKeys
  <2>8. CASE e + 2 <= Len(keyed)
    <3>1. PICK i : i = e + 2
      OBVIOUS
    <3>2. KeyEnds(keyed, e, i) /\ i <= Len(keyed) /\ e # 0 /\ e \in 0 .. Len(keyed)
      BY <1>0, <2>1, <2>6, <2>8, <3>1
    <3>3. PICK h \in i .. Len(keyed) :
            /\ NextWord(keyed, e, i, h)
            /\ HasKey(t1, i - e + 1, h - e + 1)
            /\ SubSeq(t1, i - e + 1, h - e + 1) = WordAt(keyed, i)
      BY <2>6, <3>2, KeyedWord
    <3>4. i - e + 1 = 3
      BY <1>0, <3>1, <3>2
    <3>5. PICK k2, g : k2 = WordAt(keyed, i) /\ g = h - e + 1
      OBVIOUS
    <3>6. HasKey(t1, 3, g) /\ k2 = SubSeq(t1, 3, g)
      BY <3>3, <3>4, <3>5
    <3>7. NthWord(keyed, 2) = {i}
      BY <2>3, <3>2, <3>3, SecondNth
    <3>8. k2 = KeyOf(keyed, 2) /\ k2 \in Texts /\ IsNotIn(list, k2)
      <4>1. i \in WordStarts(keyed)
        BY <3>3 DEF NextWord
      <4>2. k2 \in Texts
        BY <3>3, <3>5, WordIsText
      <4>3. (CHOOSE k \in NthWord(keyed, 2) : TRUE) = i /\ NthWord(keyed, 2) # {}
        BY <3>7
      <4>4. 2 <= 2
        OBVIOUS
      <4>5. KeyOf(keyed, 2) = WordAt(keyed, i)
        BY <4>3, <4>4 DEF KeyOf
      <4> QED
        BY <1>0, <3>5, <4>1, <4>2, <4>5
    <3>9. PICK t2 \in Texts : Erased(t1, 3 - 1, g, t2) /\ TakesKey(list, t1, k2, t2)
      BY <3>6, <3>8, LiveTail
    <3>10. IsDead(t2)
      <4>1. Erased(t1, 3 - 1, h - e + 1, t2)
        BY <3>5, <3>9
      <4>2. NextWord(keyed, e, e + 2, h) /\ KeyEnds(keyed, e, e + 2) /\ e # 0
        BY <2>6, <3>1, <3>2, <3>3
      <4> QED
        BY <2>6, <2>8, <4>1, <4>2, KeyedSecond
    <3>11. TakesKey(list, t2, <<>>, t2)
      BY <3>10, DeadTail
    <3> QED
      BY <1>0, <2>4, <2>5, <3>8, <3>9, <3>11, TwoKeys
  <2> QED
    BY <2>7, <2>8
<1> QED
  BY <1>2, <1>3

\* The keys that are offered one after the other.
KeysOffered(keyed, keys) ==
  /\ keys[1] = KeyOf(keyed, 1) /\ keys[2] = KeyOf(keyed, 2)
  /\ \A n \in Nat : n > 2 => keys[n] = <<>>

\* Which keys the channels are offered, by their rank among those that ask.
OffersAre(names, words, asks, rank, offered) ==
  /\ rank = [i \in DOMAIN names |->
               Cardinality({k \in DOMAIN names : k <= i /\ names[k] \in asks})]
  /\ offered = [i \in DOMAIN names |->
                  {k \in DOMAIN words :
                     /\ names[i] \in asks /\ rank[i] <= 2
                     /\ rank[i] = Cardinality({l \in DOMAIN words : l <= k})}]

PairedWith(names, words, offered) ==
  [i \in DOMAIN names |->
     [chan |-> names[i],
      key |-> IF offered[i] = {} THEN <<>> ELSE words[CHOOSE k \in offered[i] : TRUE]]]

\* The n-th channel that asks has the n-th key, for the first two.
LEMMA PairedKeys ==
  ASSUME NEW list \in Texts, NEW keyed \in Texts, NEW last,
         NEW names, names = WordsUpTo(list, last),
         NEW words, words = WordsUpTo(keyed, Len(keyed)),
         NEW keys, KeysOffered(keyed, keys), NEW asks,
         NEW rank, NEW offered, OffersAre(names, words, asks, rank, offered),
         last \in 0 .. Len(list)
  PROVE  PairedWith(names, words, offered) = JoinsUpTo(list, last, asks, keys)
<1> DEFINE D == {k \in WordStarts(list) : k <= last}
<1>0. Len(list) \in Nat /\ Len(keyed) \in Nat
  BY LenProperties DEF Texts
<1>a. /\ keys[1] = KeyOf(keyed, 1) /\ keys[2] = KeyOf(keyed, 2)
      /\ \A n \in Nat : n > 2 => keys[n] = <<>>
  BY DEF KeysOffered
<1>b. /\ rank = [i \in DOMAIN names |->
                   Cardinality({k \in DOMAIN names : k <= i /\ names[k] \in asks})]
      /\ offered = [i \in DOMAIN names |->
                      {k \in DOMAIN words :
                         /\ names[i] \in asks /\ rank[i] <= 2
                         /\ rank[i] = Cardinality({l \in DOMAIN words : l <= k})}]
  BY DEF OffersAre
<1>1. DOMAIN names = D /\ \A i \in D : names[i] = WordAt(list, i)
  BY DEF WordsUpTo
<1>2. DOMAIN words = WordStarts(keyed) /\ \A k \in WordStarts(keyed) : words[k] = WordAt(keyed, k)
  <2>1. \A k \in WordStarts(keyed) : k <= Len(keyed)
    BY <1>0 DEF WordStarts
  <2> QED
    BY <2>1 DEF WordsUpTo
<1>3. ASSUME NEW i \in D
      PROVE  (IF offered[i] = {} THEN <<>> ELSE words[CHOOSE k \in offered[i] : TRUE])
             = (IF WordAt(list, i) \in asks THEN keys[AsksUpTo(list, i, asks)] ELSE <<>>)
  <2>1. PICK n : n = AsksUpTo(list, i, asks)
    OBVIOUS
  <2>2. i \in 1 .. Len(list) /\ i <= last /\ i \in WordStarts(list)
    BY <1>3 DEF WordStarts
  <2>3. rank[i] = n
    <3>1. {k \in DOMAIN names : k <= i /\ names[k] \in asks}
          = {k \in WordStarts(list) : k <= i /\ WordAt(list, k) \in asks}
      <4>1. \A k \in WordStarts(list) : k \in 1 .. Len(list)
        BY DEF WordStarts
      <4>2. \A k \in WordStarts(list) : k <= i => k <= last
        BY <1>0, <2>2, <4>1
      <4>3. \A k \in WordStarts(list) : k <= i => k \in D /\ names[k] = WordAt(list, k)
        BY <1>1, <4>2
      <4> QED
        BY <1>1, <4>3
    <3>2. rank[i] = Cardinality({k \in DOMAIN names : k <= i /\ names[k] \in asks})
      BY <1>b, <1>1, <1>3
    <3> QED
      BY <2>1, <3>1, <3>2 DEF AsksUpTo
  <2>4. offered[i] = {k \in WordStarts(keyed) :
                        WordAt(list, i) \in asks /\ n <= 2 /\ n = WordRank(keyed, k)}
    <3>1. offered[i] = {k \in DOMAIN words :
                          /\ names[i] \in asks /\ rank[i] <= 2
                          /\ rank[i] = Cardinality({l \in DOMAIN words : l <= k})}
      BY <1>b, <1>1, <1>3
    <3> QED
      BY <1>1, <1>2, <1>3, <2>3, <3>1 DEF WordRank
  <2>5. CASE WordAt(list, i) \notin asks
    <3>1. offered[i] = {}
      BY <2>4, <2>5
    <3> QED
      BY <2>5, <3>1
  <2>6. CASE WordAt(list, i) \in asks
    <3>1. n \in Nat /\ n # 0
      <4> DEFINE A == {k \in WordStarts(list) : k <= i /\ WordAt(list, k) \in asks}
      <4>1. IsFiniteSet(1 .. Len(list)) /\ A \in SUBSET (1 .. Len(list))
        BY <1>0, FS_Interval DEF WordStarts
      <4>2. n = Cardinality(A)
        BY <2>1 DEF AsksUpTo
      <4>3. i \in A
        BY <2>2, <2>6
      <4> HIDE DEF A
      <4>4. IsFiniteSet(A) /\ A # {}
        BY <4>1, <4>3, FS_Subset
      <4> QED
        BY <4>2, <4>4, FS_CardinalityType, FS_EmptySet
    <3>2. CASE n > 2
      <4>1. offered[i] = {}
        <5>1. ~(n <= 2)
          BY <3>1, <3>2
        <5> QED
          BY <2>4, <5>1
      <4>2. keys[n] = <<>>
        BY <1>a, <3>1, <3>2
      <4> QED
        BY <2>1, <2>6, <4>1, <4>2
    <3>3. CASE ~(n > 2)
      <4>1. n <= 2 /\ (n = 1 \/ n = 2)
        BY <3>1, <3>3
      <4>2. keys[n] = KeyOf(keyed, n)
        BY <1>a, <4>1
      <4>3. offered[i] = NthWord(keyed, n)
        BY <2>4, <2>6, <4>1 DEF NthWord
      <4>4. CASE NthWord(keyed, n) = {}
        <5>1. KeyOf(keyed, n) = <<>>
          BY <4>4 DEF KeyOf
        <5> QED
          BY <2>1, <2>6, <4>2, <4>3, <4>4, <5>1
      <4>5. CASE NthWord(keyed, n) # {}
        <5>1. PICK k : k = CHOOSE j \in NthWord(keyed, n) : TRUE
          OBVIOUS
        <5>2. k \in NthWord(keyed, n)
          BY <4>5, <5>1
        <5>3. KeyOf(keyed, n) = WordAt(keyed, k)
          BY <4>1, <4>5, <5>1 DEF KeyOf
        <5>4. words[k] = WordAt(keyed, k)
          BY <1>2, <5>2 DEF NthWord
        <5>5. (CHOOSE j \in offered[i] : TRUE) = k
          BY <4>3, <5>1
        <5> QED
          BY <2>1, <2>6, <4>2, <4>3, <4>5, <5>3, <5>4, <5>5
      <4> QED
        BY <4>4, <4>5
    <3> QED
      BY <3>2, <3>3
  <2> QED
    BY <2>5, <2>6
<1> QED
  <2>1. \A i \in D :
          [chan |-> names[i],
           key |-> IF offered[i] = {} THEN <<>> ELSE words[CHOOSE k \in offered[i] : TRUE]]
          = [chan |-> WordAt(list, i),
             key |-> IF WordAt(list, i) \in asks THEN keys[AsksUpTo(list, i, asks)] ELSE <<>>]
    BY <1>1, <1>3
  <2>2. [i \in DOMAIN names |->
            [chan |-> names[i],
             key |-> IF offered[i] = {} THEN <<>> ELSE words[CHOOSE k \in offered[i] : TRUE]]]
        = [i \in D |->
            [chan |-> WordAt(list, i),
             key |-> IF WordAt(list, i) \in asks THEN keys[AsksUpTo(list, i, asks)] ELSE <<>>]]
    BY <1>1, <2>1
  <2> QED
    BY <2>2 DEF JoinsUpTo, PairedWith

\* A line of JOIN: a list, and behind a blank its keys.
IsJoinLine(s, blank, list, keyed) ==
  /\ blank = LastIn(s, {"sp"})
  /\ list = (IF blank <= 1 THEN s ELSE SubSeq(s, 1, blank - 1))
  /\ keyed = (IF blank <= 1 THEN <<>> ELSE SubSeq(s, blank + 1, Len(s)))

LEMMA JoinLine ==
  ASSUME NEW s \in Texts, NEW blank, NEW list, NEW keyed, IsJoinLine(s, blank, list, keyed)
  PROVE  /\ list \in Texts /\ keyed \in Texts
         /\ \E tail \in Texts :
              /\ Left(s, list, 0, 0, tail)
              /\ (tail = <<>> /\ keyed = <<>>) \/ KeyedFrom(tail, keyed, 0)
<1>0. Len(s) \in Nat /\ s \in Seq(Chars) /\ <<>> \in Texts /\ Len(<<>>) = 0
  BY LenProperties, LeftAll, EmptySeq DEF Texts
<1>a. /\ blank = LastIn(s, {"sp"})
      /\ list = (IF blank <= 1 THEN s ELSE SubSeq(s, 1, blank - 1))
      /\ keyed = (IF blank <= 1 THEN <<>> ELSE SubSeq(s, blank + 1, Len(s)))
  BY DEF IsJoinLine
<1>1. \/ blank = 0
      \/ blank \in 1 .. Len(s) /\ s[blank] = "sp"
  <2>1. \/ blank = 0 /\ \A j \in 1 .. Len(s) : s[j] \notin {"sp"}
        \/ blank \in 1 .. Len(s) /\ s[blank] \in {"sp"}
           /\ \A j \in blank + 1 .. Len(s) : s[j] \notin {"sp"}
    BY <1>0, <1>a, LastInLemma
  <2> QED
    BY <2>1
<1>2. CASE blank <= 1
  <2>1. list = s /\ keyed = <<>>
    BY <1>a, <1>2
  <2>2. Left(s, list, 0, 0, <<>>)
    BY <2>1, LeftAll
  <2> QED
    BY <1>0, <2>1, <2>2
<1>3. CASE ~(blank <= 1)
  <2>1. blank \in 2 .. Len(s) /\ s[blank] = "sp"
    BY <1>0, <1>1, <1>3
  <2>2. PICK n, p, q : n = Len(s) /\ p = blank - 1 /\ q = blank + 1
    OBVIOUS
  <2>3. PICK tail : tail = SubSeq(s, blank, n)
    OBVIOUS
  <2>4. list = SubSeq(s, 1, p) /\ keyed = SubSeq(s, q, n)
    BY <1>a, <1>3, <2>2
  <2>5. list \in Texts /\ Len(list) = p /\ \A k \in 1 .. p : list[k] = s[k]
    <3>1. 1 \in 1 .. Len(s) + 1 /\ p \in 1 - 1 .. Len(s) /\ p - 1 + 1 = p
      BY <1>0, <2>1, <2>2
    <3>2. /\ list \in Texts /\ Len(list) = p - 1 + 1
          /\ \A k \in 1 .. p - 1 + 1 : list[k] = s[1 + k - 1]
      BY <2>4, <3>1, PartLemma
    <3>3. \A k \in 1 .. p : 1 + k - 1 = k
      BY <3>1
    <3> QED
      BY <3>1, <3>2, <3>3
  <2>6. keyed \in Texts /\ Len(keyed) = n - blank /\ \A k \in 1 .. n - blank : keyed[k] = s[blank + k]
    <3>1. q \in 1 .. Len(s) + 1 /\ n \in q - 1 .. Len(s) /\ n - q + 1 = n - blank
      BY <1>0, <2>1, <2>2
    <3>2. /\ keyed \in Texts /\ Len(keyed) = n - q + 1
          /\ \A k \in 1 .. n - q + 1 : keyed[k] = s[q + k - 1]
      BY <2>4, <3>1, PartLemma
    <3>3. \A k \in 1 .. n - blank : q + k - 1 = blank + k
      BY <1>0, <2>1, <2>2
    <3> QED
      BY <3>1, <3>2, <3>3
  <2>7. /\ tail \in Texts /\ Len(tail) = n - p
        /\ \A k \in 1 .. n - p : tail[k] = s[p + k]
    <3>1. /\ blank \in 1 .. Len(s) + 1 /\ n \in blank - 1 .. Len(s)
          /\ n - blank + 1 = n - p
      BY <1>0, <2>1, <2>2
    <3>2. /\ tail \in Texts /\ Len(tail) = n - blank + 1
          /\ \A k \in 1 .. n - blank + 1 : tail[k] = s[blank + k - 1]
      BY <2>3, <3>1, PartLemma
    <3>3. \A k \in 1 .. n - p : blank + k - 1 = p + k
      BY <1>0, <2>1, <2>2
    <3> QED
      BY <3>1, <3>2, <3>3
  <2>8. n \in Nat /\ p \in Nat /\ p <= n /\ blank = p + 1 /\ blank <= n
    BY <1>0, <2>1, <2>2
  <2>9. Left(s, list, 0, 0, tail)
    <3>1. n = 0 + (p - 0) + (n - p) /\ 0 \in Nat /\ 1 .. 0 = {}
      BY <2>8
    <3>2. ASSUME NEW k \in 0 + 1 .. p PROVE s[0 + (k - 0)] = list[k]
      <4>1. k \in 1 .. p /\ 0 + (k - 0) = k
        BY <2>8
      <4> QED
        BY <2>5, <4>1
    <3>3. ASSUME NEW k \in 1 .. n - p PROVE s[0 + (p - 0) + k] = tail[k]
      <4>1. 0 + (p - 0) + k = p + k
        BY <2>8
      <4> QED
        BY <2>7, <4>1
    <3> QED
      BY <2>2, <2>5, <2>7, <3>1, <3>2, <3>3 DEF Left
  <2>10. KeyedFrom(tail, keyed, 0)
    <3>1. n - p = 1 + (n - blank - 0) /\ 1 \in 1 .. n - p /\ p + 1 = blank
      BY <2>8
    <3>2. tail[1] = "sp"
      <4>1. tail[1] = s[p + 1]
        BY <2>7, <3>1
      <4> QED
        BY <2>1, <3>1, <4>1
    <3>3. ASSUME NEW j \in 0 + 1 .. n - blank PROVE tail[1 + (j - 0)] = keyed[j]
      <4>1. PICK x : x = 1 + (j - 0)
        OBVIOUS
      <4>2. x \in 1 .. n - p /\ p + x = blank + j /\ j \in 1 .. n - blank
        BY <2>8, <4>1
      <4>3. tail[x] = s[p + x] /\ keyed[j] = s[blank + j]
        BY <2>6, <2>7, <4>2
      <4> QED
        BY <4>1, <4>2, <4>3
    <3> QED
      BY <2>6, <2>7, <3>1, <3>2, <3>3 DEF KeyedFrom
  <2> QED
    BY <2>5, <2>6, <2>7, <2>9, <2>10
<1> QED
  BY <1>2, <1>3

\* What JOIN makes of such a line.
LEMMA JoinsPaired ==
  ASSUME NEW s \in Texts, NEW blank, NEW list, NEW keyed, IsJoinLine(s, blank, list, keyed),
         IsList(list), AreKeys(keyed), NoKeyIn(list, keyed),
         NEW asks
  PROVE  \E keys :
           /\ KeysOffered(keyed, keys)
           /\ InOrder(Joins(s, asks), JoinsUpTo(list, LastIn(list, Alpha), asks, keys))
<1>1. list \in Texts /\ keyed \in Texts
  BY JoinLine
<1>2. PICK tail \in Texts :
        /\ Left(s, list, 0, 0, tail)
        /\ (tail = <<>> /\ keyed = <<>>) \/ KeyedFrom(tail, keyed, 0)
  BY JoinLine
<1>3. PICK tails, keys :
        /\ KeysAre(list, tails, keys) /\ tails[0] = tail
        /\ keys[1] = KeyOf(keyed, 1) /\ keys[2] = KeyOf(keyed, 2)
        /\ \A n \in Nat : n > 2 => keys[n] = <<>>
  <2>1. CASE tail = <<>> /\ keyed = <<>>
    <3>1. KeyOf(keyed, 1) = <<>> /\ KeyOf(keyed, 2) = <<>>
      BY <1>1, <2>1, NoNth DEF KeyOf
    <3>2. TakesKey(list, <<>>, <<>>, <<>>)
      BY DEF TakesKey
    <3>3. <<>> \in Texts
      BY LeftAll
    <3> QED
      BY <2>1, <3>1, <3>2, <3>3, TwoKeys
  <2>2. CASE KeyedFrom(tail, keyed, 0)
    BY <1>1, <2>2, KeysTaken
  <2> QED
    BY <1>2, <2>1, <2>2
<1>4. tails[0] = <<>> \/ tails[0][1] = "sp"
  BY <1>2, <1>3 DEF KeyedFrom
<1>5. Left(s, list, 0, 0, tails[0])
  BY <1>2, <1>3
<1>6. InOrder(Joins(s, asks), JoinsUpTo(list, LastIn(list, Alpha), asks, keys))
  BY <1>1, <1>3, <1>4, <1>5, JoinsAre
<1> QED
  BY <1>3, <1>6 DEF KeysOffered

\* When the channels that ask are the first ones, the rank of a channel among
\* them is its place in the list, and the first two of them or of the keys are
\* all there are.
TwoAreEnough(names, keys, asking) ==
  /\ asking \in SUBSET DOMAIN names
  /\ \A l \in asking, k \in DOMAIN names : k <= l => k \in asking
  /\ Cardinality(asking) <= 2 \/ Cardinality(DOMAIN keys) <= 2

LEMMA PlacesAgree ==
  ASSUME NEW line \in Texts, NEW names, names = WordsOf(line),
         NEW behind \in Texts, NEW keys, keys = WordsOf(behind),
         NEW asking, TwoAreEnough(names, keys, asking),
         NEW i \in asking, NEW rank, rank = Cardinality({k \in DOMAIN names : k <= i /\ k \in asking})
  PROVE  {k \in DOMAIN keys : rank <= 2 /\ rank = WordRank(behind, k)}
         = {k \in DOMAIN keys : Place(keys, k) = Place(names, i)}
<1>0. /\ asking \in SUBSET DOMAIN names
      /\ \A l \in asking, k \in DOMAIN names : k <= l => k \in asking
      /\ Cardinality(asking) <= 2 \/ Cardinality(DOMAIN keys) <= 2
  BY DEF TwoAreEnough
<1>1. DOMAIN names = WordStarts(line) /\ DOMAIN keys = WordStarts(behind)
  BY WordsAt
<1>2. /\ IsFiniteSet(1 .. Len(line)) /\ IsFiniteSet(1 .. Len(behind))
      /\ WordStarts(line) \in SUBSET (1 .. Len(line))
      /\ WordStarts(behind) \in SUBSET (1 .. Len(behind))
  <2>1. Len(line) \in Nat /\ Len(behind) \in Nat
    BY LenProperties DEF Texts
  <2>2. IsFiniteSet(1 .. Len(line)) /\ IsFiniteSet(1 .. Len(behind))
    BY <2>1, FS_Interval
  <2>3. /\ WordStarts(line) \in SUBSET (1 .. Len(line))
        /\ WordStarts(behind) \in SUBSET (1 .. Len(behind))
    BY DEF WordStarts
  <2> QED
    BY <2>2, <2>3
<1>3. IsFiniteSet(DOMAIN names) /\ IsFiniteSet(DOMAIN keys)
  BY <1>1, <1>2, FS_Subset
<1>4. IsFiniteSet(asking) /\ Cardinality(asking) \in Nat /\ Cardinality(DOMAIN keys) \in Nat
  BY <1>0, <1>3, FS_Subset, FS_CardinalityType
<1>5. PICK upto : upto = {k \in DOMAIN names : k <= i}
  OBVIOUS
<1>6. upto = {k \in DOMAIN names : k <= i /\ k \in asking} /\ upto \in SUBSET asking
  BY <1>0, <1>5
<1>7. rank = Place(names, i)
  BY <1>5, <1>6 DEF Place
<1>8. rank \in Nat /\ rank <= Cardinality(asking)
  <2>1. rank = Cardinality(upto)
    BY <1>6
  <2> QED
    BY <1>4, <1>6, <2>1, FS_Subset, FS_CardinalityType
<1>9. ASSUME NEW k \in DOMAIN keys
      PROVE  Place(keys, k) = WordRank(behind, k) /\ Place(keys, k) \in Nat
             /\ Place(keys, k) <= Cardinality(DOMAIN keys)
  <2>1. PICK low : low = {l \in DOMAIN keys : l <= k}
    OBVIOUS
  <2>2. Place(keys, k) = Cardinality(low) /\ low \in SUBSET DOMAIN keys
    BY <2>1 DEF Place
  <2>3. WordRank(behind, k) = Cardinality(low)
    BY <1>1, <2>1 DEF WordRank
  <2> QED
    BY <1>3, <2>2, <2>3, FS_Subset, FS_CardinalityType
<1>10. ASSUME NEW k \in DOMAIN keys
       PROVE  (rank <= 2 /\ rank = WordRank(behind, k)) <=> Place(keys, k) = Place(names, i)
  <2>1. PICK w : w = WordRank(behind, k)
    OBVIOUS
  <2>2. w \in Nat /\ w = Place(keys, k) /\ w <= Cardinality(DOMAIN keys)
    BY <1>9, <2>1
  <2>3. rank = w => rank <= 2
    BY <1>0, <1>4, <1>8, <2>2
  <2> QED
    BY <1>7, <2>1, <2>2, <2>3
<1> QED
  BY <1>10

\* So a channel that asks is offered the key of its place.
ArePlaces(keys, behind, n, places, chosen) ==
  /\ places = {k \in DOMAIN keys : n = WordRank(behind, k)}
  /\ chosen = {keys[k] : k \in places}

LEMMA KeyOfPlace ==
  ASSUME NEW behind \in Texts, NEW keys, keys = WordsOf(behind),
         NEW n, NEW places, NEW chosen, ArePlaces(keys, behind, n, places, chosen)
  PROVE  (IF places = {} THEN <<>> ELSE keys[CHOOSE k \in places : TRUE])
         = (IF chosen # {} THEN CHOOSE key \in chosen : TRUE ELSE <<>>)
<1>0. /\ places = {k \in DOMAIN keys : n = WordRank(behind, k)}
      /\ chosen = {keys[k] : k \in places}
  BY DEF ArePlaces
<1>1. DOMAIN keys = WordStarts(behind)
  BY WordsAt
<1>2. CASE places = {}
  BY <1>0, <1>2
<1>3. CASE places # {}
  <2>1. PICK i \in places : TRUE
    BY <1>3
  <2>2. i \in WordStarts(behind) /\ n = WordRank(behind, i)
    BY <1>0, <1>1, <2>1
  <2>3. places = {i}
    BY <1>0, <1>1, <2>2, NthWordIs DEF NthWord
  <2>4. chosen = {keys[i]}
    BY <1>0, <2>3
  <2>5. (CHOOSE k \in places : TRUE) = i /\ (CHOOSE key \in chosen : TRUE) = keys[i]
    BY <2>3, <2>4
  <2> QED
    BY <1>3, <2>4, <2>5
<1> QED
  BY <1>2, <1>3

\* JOIN comes to the channels of a list in order, and offers those that ask the
\* keys at their places, as long as the third key is not needed.
THEOREM KeysArePaired == ParsingSpec => []JoinPairsKeys
<1>1. TextInv => JoinPairsKeys
  <2> SUFFICES ASSUME TextInv PROVE JoinPairsKeys
    OBVIOUS
  <2> DEFINE listed == WordsOf(ListOf(text))
             given == WordsOf(KeysOf(text))
             those(asks) == {i \in DOMAIN listed : listed[i] \in asks}
  <2>0. SUFFICES ASSUME IsJoin(text), KeysAreApart(text),
                        NEW asks \in SUBSET {listed[i] : i \in DOMAIN listed},
                        \A i \in those(asks), l \in DOMAIN listed : l <= i => l \in those(asks),
                        Cardinality(those(asks)) <= 2 \/ Cardinality(DOMAIN given) <= 2
                 PROVE  InOrder(Joins(text, asks),
                          [i \in DOMAIN listed |->
                             [chan |-> listed[i],
                              key |-> IF i \in those(asks) /\ KeysFor(text, i) # {}
                                      THEN CHOOSE key \in KeysFor(text, i) : TRUE
                                      ELSE <<>>]])
    BY DEF JoinPairsKeys
  <2>1. PICK names, keys, asking :
          /\ names = listed /\ keys = given /\ asking = those(asks)
          /\ asking = {i \in DOMAIN names : names[i] \in asks}
          /\ names = WordsOf(ListOf(text)) /\ keys = WordsOf(KeysOf(text))
    OBVIOUS
  <2> HIDE DEF listed, given, those
  <2>a. TwoAreEnough(names, keys, asking)
    BY <2>0, <2>1 DEF TwoAreEnough
  <2>2. PICK b, line, behind, last :
          /\ b = LastIn(text, {"sp"}) /\ line = ListOf(text) /\ behind = KeysOf(text)
          /\ last = LastIn(line, Alpha)
    OBVIOUS
  <2>3. IsJoinLine(text, b, line, behind)
    BY <2>2 DEF IsJoinLine, ListOf, KeysOf
  <2>4. text \in Texts /\ line \in Texts /\ behind \in Texts
    <3>1. text \in Texts
      BY DEF TextInv
    <3> QED
      BY <2>3, <3>1, JoinLine
  <2>5. IsList(line) /\ LettersLast(line) /\ AreKeys(behind)
    BY <2>0, <2>2 DEF IsJoin
  <2>6. names = WordsUpTo(line, last) /\ names = WordsOf(line)
    BY <2>1, <2>2, <2>4, <2>5, LettersLastWords
  <2>7. keys = WordsOf(behind) /\ keys = WordsUpTo(behind, Len(behind))
    BY <2>1, <2>2 DEF WordsOf
  <2>8. NoKeyIn(line, behind)
    <3>1. \A k \in DOMAIN keys, p \in 0 .. Len(line) : ~OccursAt(line, keys[k], p)
      BY <2>0, <2>1, <2>2 DEF KeysAreApart
    <3>2. \A k \in WordStarts(behind) : k \in DOMAIN keys /\ keys[k] = WordAt(behind, k)
      BY <2>4, <2>7, WordsAt
    <3> QED
      BY <3>1, <3>2 DEF IsNotIn, NoKeyIn
  <2>9. PICK offer :
          /\ KeysOffered(behind, offer)
          /\ InOrder(Joins(text, asks), JoinsUpTo(line, LastIn(line, Alpha), asks, offer))
    BY <2>3, <2>4, <2>5, <2>8, JoinsPaired
  <2>10. last \in 0 .. Len(line)
    <3>1. Len(line) \in Nat /\ line \in Seq(Chars)
      BY <2>4, LenProperties DEF Texts
    <3>2. last = 0 \/ last \in 1 .. Len(line)
      BY <2>2, <3>1, LastInLemma
    <3> QED
      BY <3>1, <3>2
  <2>11. PICK ranks, offers :
           /\ ranks = [i \in DOMAIN names |->
                         Cardinality({k \in DOMAIN names : k <= i /\ names[k] \in asks})]
           /\ offers = [i \in DOMAIN names |->
                          {k \in DOMAIN keys :
                             /\ names[i] \in asks /\ ranks[i] <= 2
                             /\ ranks[i] = Cardinality({l \in DOMAIN keys : l <= k})}]
    OBVIOUS
  <2>12. OffersAre(names, keys, asks, ranks, offers)
    BY <2>11 DEF OffersAre
  <2>13. PairedWith(names, keys, offers) = JoinsUpTo(line, last, asks, offer)
    <3>1. names = WordsUpTo(line, last)
      BY <2>6
    <3>2. keys = WordsUpTo(behind, Len(behind))
      BY <2>7
    <3>3. KeysOffered(behind, offer)
      BY <2>9
    <3> QED
      BY <2>4, <2>10, <2>12, <3>1, <3>2, <3>3, PairedKeys
  <2>14. ASSUME NEW i \in DOMAIN names
         PROVE  (IF offers[i] = {} THEN <<>> ELSE keys[CHOOSE k \in offers[i] : TRUE])
                = (IF i \in asking /\ KeysFor(text, i) # {}
                   THEN CHOOSE key \in KeysFor(text, i) : TRUE ELSE <<>>)
    <3>1. DOMAIN keys = WordStarts(behind)
      BY <2>4, <2>7, WordsAt
    <3>2. \A k : Cardinality({l \in DOMAIN keys : l <= k}) = WordRank(behind, k)
      BY <3>1 DEF WordRank
    <3>3. CASE i \notin asking
      <4>1. names[i] \notin asks
        BY <2>1, <3>3
      <4>2. offers[i] = {}
        BY <2>11, <4>1
      <4> QED
        BY <3>3, <4>2
    <3>4. CASE i \in asking
      <4>1. PICK places, rank :
              /\ places = {k \in DOMAIN keys : Place(keys, k) = Place(names, i)}
              /\ rank = Cardinality({k \in DOMAIN names : k <= i /\ k \in asking})
        OBVIOUS
      <4>2. {k \in DOMAIN keys : rank <= 2 /\ rank = WordRank(behind, k)} = places
        <5>1. names = WordsOf(line) /\ keys = WordsOf(behind)
          BY <2>6, <2>7
        <5> QED
          BY <2>4, <2>a, <3>4, <4>1, <5>1, PlacesAgree
      <4>3. ranks[i] = rank
        <5>1. {k \in DOMAIN names : k <= i /\ k \in asking}
              = {k \in DOMAIN names : k <= i /\ names[k] \in asks}
          BY <2>1
        <5> QED
          BY <2>11, <4>1, <5>1
      <4>4. offers[i] = places
        <5>1. names[i] \in asks
          BY <2>1, <3>4
        <5>2. offers[i] = {k \in DOMAIN keys : rank <= 2 /\ rank = WordRank(behind, k)}
          BY <2>11, <3>2, <4>3, <5>1
        <5> QED
          BY <4>2, <5>2
      <4>5. KeysFor(text, i) = {keys[k] : k \in places}
        BY <2>1, <4>1 DEF KeysFor
      <4>6. PICK n : n = Place(names, i)
        OBVIOUS
      <4>7. places = {k \in DOMAIN keys : n = WordRank(behind, k)}
        <5>1. \A k : Place(keys, k) = WordRank(behind, k)
          BY <3>2 DEF Place
        <5> QED
          BY <4>1, <4>6, <5>1
      <4>8. (IF places = {} THEN <<>> ELSE keys[CHOOSE k \in places : TRUE])
            = (IF KeysFor(text, i) # {} THEN CHOOSE key \in KeysFor(text, i) : TRUE ELSE <<>>)
        <5>1. PICK chosen : chosen = KeysFor(text, i)
          OBVIOUS
        <5>2. ArePlaces(keys, behind, n, places, chosen)
          BY <4>5, <4>7, <5>1 DEF ArePlaces
        <5>3. keys = WordsOf(behind)
          BY <2>7
        <5>4. (IF places = {} THEN <<>> ELSE keys[CHOOSE k \in places : TRUE])
              = (IF chosen # {} THEN CHOOSE key \in chosen : TRUE ELSE <<>>)
          BY <2>4, <5>2, <5>3, KeyOfPlace
        <5> QED
          BY <5>1, <5>4
      <4> QED
        BY <3>4, <4>4, <4>8
    <3> QED
      BY <3>3, <3>4
  <2>15. PairedWith(names, keys, offers)
         = [i \in DOMAIN names |->
              [chan |-> names[i],
               key |-> IF i \in asking /\ KeysFor(text, i) # {}
                       THEN CHOOSE key \in KeysFor(text, i) : TRUE
                       ELSE <<>>]]
    BY <2>14, Zenon DEF PairedWith
  <2>16. InOrder(Joins(text, asks), PairedWith(names, keys, offers))
    BY <2>2, <2>9, <2>13
  <2> QED
    BY <2>1, <2>15, <2>16
<1> QED
  BY <1>1, TextInvHolds, PTL

----------------------------------------------------------------------------
(* MODE of a user *)

\* The sign of a letter is the last one in front of it.
LEMMA SignIs ==
  ASSUME NEW mode \in Texts, NEW k \in 1 .. Len(mode), NEW p \in 1 .. k,
         mode[p] \in Signs, \A j \in p + 1 .. k : mode[j] \notin Signs
  PROVE  SignAt(mode, k) = mode[p]
<1>0. Len(mode) \in Nat
  BY LenProperties DEF Texts
<1>1. PICK part, i : part = SubSeq(mode, 1, k) /\ i = LastIn(part, Signs)
  OBVIOUS
<1>2. part \in Seq(Chars) /\ Len(part) = k /\ \A j \in 1 .. k : part[j] = mode[j]
  <2>1. 1 \in 1 .. Len(mode) + 1 /\ k \in 1 - 1 .. Len(mode) /\ k - 1 + 1 = k
    BY <1>0
  <2>2. /\ part \in Seq(Chars) /\ Len(part) = k - 1 + 1
        /\ \A j \in 1 .. k - 1 + 1 : part[j] = mode[1 + j - 1]
    BY <1>1, <2>1, PartLemma DEF Texts
  <2> QED
    BY <1>0, <2>1, <2>2
<1>3. \/ i = 0 /\ \A j \in 1 .. k : mode[j] \notin Signs
      \/ i \in 1 .. k /\ mode[i] \in Signs /\ \A j \in i + 1 .. k : mode[j] \notin Signs
  <2>1. \/ i = 0 /\ \A j \in 1 .. Len(part) : part[j] \notin Signs
        \/ i \in 1 .. Len(part) /\ part[i] \in Signs
           /\ \A j \in i + 1 .. Len(part) : part[j] \notin Signs
    BY <1>1, <1>2, LastInLemma
  <2> QED
    BY <1>0, <1>2, <2>1
<1>4. i = p
  <2>1. i \in 1 .. k /\ mode[i] \in Signs /\ p \notin i + 1 .. k
    BY <1>0, <1>3
  <2>2. i \notin p + 1 .. k
    BY <2>1
  <2> QED
    BY <1>0, <2>1, <2>2
<1> QED
  BY <1>1, <1>4 DEF SignAt

\* There is one behind a sign.
LEMMA HasSign ==
  ASSUME NEW mode \in Texts, mode # <<>>, mode[1] \in Signs, NEW k \in 1 .. Len(mode)
  PROVE  \E p \in 1 .. k : mode[p] \in Signs /\ \A j \in p + 1 .. k : mode[j] \notin Signs
<1>0. Len(mode) \in Nat
  BY LenProperties DEF Texts
<1>1. PICK part, i : part = SubSeq(mode, 1, k) /\ i = LastIn(part, Signs)
  OBVIOUS
<1>2. part \in Seq(Chars) /\ Len(part) = k /\ \A j \in 1 .. k : part[j] = mode[j]
  <2>1. 1 \in 1 .. Len(mode) + 1 /\ k \in 1 - 1 .. Len(mode) /\ k - 1 + 1 = k
    BY <1>0
  <2>2. /\ part \in Seq(Chars) /\ Len(part) = k - 1 + 1
        /\ \A j \in 1 .. k - 1 + 1 : part[j] = mode[1 + j - 1]
    BY <1>1, <2>1, PartLemma DEF Texts
  <2> QED
    BY <1>0, <2>1, <2>2
<1>3. \/ i = 0 /\ \A j \in 1 .. Len(part) : part[j] \notin Signs
      \/ i \in 1 .. Len(part) /\ part[i] \in Signs
         /\ \A j \in i + 1 .. Len(part) : part[j] \notin Signs
  BY <1>1, <1>2, LastInLemma
<1>4. 1 \in 1 .. k
  BY <1>0
<1> QED
  BY <1>2, <1>3, <1>4

Changed == [sign : Chars, letter : Chars]
UserStates == [sign : Chars, changes : Seq(Changed)]

\* A step of the scan is one.
LEMMA ReadModeType ==
  ASSUME NEW st \in UserStates, NEW c \in Chars
  PROVE  ReadMode(st, c) \in UserStates
<1>0. PICK sign, changes : sign = st.sign /\ changes = st.changes
  OBVIOUS
<1>1. st = [sign |-> sign, changes |-> changes] /\ sign \in Chars /\ changes \in Seq(Changed)
  BY <1>0 DEF UserStates
<1>2. PICK change : change = [sign |-> sign, letter |-> c]
  OBVIOUS
<1>3. Append(changes, change) \in Seq(Changed)
  <2>1. change \in Changed
    BY <1>1, <1>2 DEF Changed
  <2> QED
    BY <1>1, <2>1, AppendProperties
<1>4. \/ ReadMode(st, c) = [sign |-> c, changes |-> changes]
      \/ ReadMode(st, c) = [sign |-> sign, changes |-> Append(changes, change)]
      \/ ReadMode(st, c) = st
  BY <1>1, <1>2 DEF ReadMode
<1> QED
  BY <1>1, <1>3, <1>4 DEF UserStates

\* The steps follow each other.
UserFollow(g, mode) ==
  /\ g[0] = [sign |-> mode[1], changes |-> <<>>]
  /\ \A k \in 0 .. Len(mode) : g[k] \in UserStates
  /\ \A k \in 1 .. Len(mode) : g[k] = ReadMode(g[k - 1], mode[k])

\* The scan runs: UserRun is defined by its recursion.
LEMMA UserRunIs ==
  ASSUME NEW mode \in Texts, mode # <<>>
  PROVE  UserFollow(UserRun(mode), mode)
<1> DEFINE n == Len(mode)
           start == [sign |-> mode[1], changes |-> <<>>]
           Def(h) == h = [k \in 0 .. n |-> IF k = 0 THEN start ELSE ReadMode(h[k - 1], mode[k])]
           step == [p \in (1 .. n) \X UserStates |-> ReadMode(p[2], mode[p[1]])]
<1> PICK g : g = UserRun(mode)
  OBVIOUS
<1>0. n \in Nat /\ n >= 1 /\ \A k \in 1 .. n : mode[k] \in Chars
  <2>1. n \in Nat /\ n # 0 /\ mode \in Seq(Chars)
    BY LenProperties, EmptySeq DEF Texts
  <2> QED
    BY <2>1, ElementOfSeq
<1>1. start \in UserStates
  BY <1>0, EmptySeq DEF UserStates
<1>2. step \in [(1 .. n) \X UserStates -> UserStates]
  BY <1>0, ReadModeType
<1>3. \A k \in 1 .. n, x \in UserStates : step[<<k, x>>] = ReadMode(x, mode[k])
  OBVIOUS
<1>4. g = CHOOSE h : Def(h)
  BY DEF UserRun
<1> HIDE DEF start, step, n
<1>5. \E h : Def(h)
  <2>1. PICK f \in [0 .. n -> UserStates] :
          f[0] = start /\ \A k \in 1 .. n : f[k] = step[<<k, f[k - 1]>>]
    <3>1. HasRun(n, UserStates, start, step)
      BY <1>0, <1>1, <1>2, LoopRuns
    <3> QED
      BY <3>1 DEF HasRun
  <2>2. ASSUME NEW k \in 0 .. n
        PROVE  f[k] = IF k = 0 THEN start ELSE ReadMode(f[k - 1], mode[k])
    <3>1. CASE k = 0
      BY <2>1, <3>1
    <3>2. CASE k # 0
      <4>1. k \in 1 .. n /\ k - 1 \in 0 .. n
        BY <1>0, <3>2
      <4> QED
        BY <1>3, <2>1, <3>2, <4>1
    <3> QED
      BY <3>1, <3>2
  <2>3. Def(f)
    BY <2>2
  <2> QED
    BY <2>3
<1>6. Def(g)
  <2> HIDE DEF Def
  <2> QED
    BY <1>4, <1>5
<1>7. g[0] = start
  BY <1>0, <1>6
<1>8. ASSUME NEW k \in 1 .. n PROVE g[k] = ReadMode(g[k - 1], mode[k])
  <2>1. k \in 0 .. n /\ k # 0
    BY <1>0
  <2> QED
    BY <1>6, <2>1
<1>9. \A k \in 0 .. n : g[k] \in UserStates
  <2> DEFINE S == {k \in 0 .. n : g[k] \in UserStates}
  <2>1. 0 \in S
    BY <1>0, <1>1, <1>7
  <2>2. ASSUME NEW k \in 1 .. n, k - 1 \in S PROVE k \in S
    BY <1>0, <1>8, <2>2, ReadModeType
  <2>3. \A k \in 0 .. n : k \in S
    <3> HIDE DEF S
    <3> QED
      BY <1>0, <2>1, <2>2, RangeInduction
  <2> QED
    BY <2>3
<1> QED
  BY <1>7, <1>8, <1>9 DEF UserFollow, start, n

\* The changes that the scan has come to after k characters, and the last sign.
IsTaken(mode, k) == mode[k] = "i" \/ (mode[k] = "o" /\ SignAt(mode, k) = "-")
Taken(mode, n) ==
  [i \in {k \in 1 .. Len(mode) : k <= n /\ IsTaken(mode, k)} |->
     [sign |-> SignAt(mode, i), letter |-> mode[i]]]

HasTaken(mode, st, k) ==
  /\ st.sign = IF k = 0 THEN mode[1] ELSE SignAt(mode, k)
  /\ InOrder(st.changes, Taken(mode, k))

\* A step, for the next character.
LEMMA ReadModeStep ==
  ASSUME NEW mode \in Texts, mode # <<>>, mode[1] \in Signs,
         NEW k \in 1 .. Len(mode), NEW st \in UserStates, HasTaken(mode, st, k - 1)
  PROVE  HasTaken(mode, ReadMode(st, mode[k]), k)
<1>0. Len(mode) \in Nat /\ mode[k] \in Chars
  BY LenProperties, ElementOfSeq DEF Texts
<1>1. PICK j, c, sign, changes : /\ j = k - 1 /\ c = mode[k]
                                 /\ sign = st.sign /\ changes = st.changes
  OBVIOUS
<1>2. /\ st = [sign |-> sign, changes |-> changes]
      /\ sign \in Chars /\ changes \in Seq(Changed) /\ c \in Chars
  BY <1>0, <1>1 DEF UserStates
<1>3. sign = (IF j = 0 THEN mode[1] ELSE SignAt(mode, j)) /\ InOrder(changes, Taken(mode, j))
  BY <1>1 DEF HasTaken
<1>4. SignAt(mode, k) = IF c \in Signs THEN c ELSE sign
  <2>1. CASE c \in Signs
    <3>1. k \in 1 .. k /\ \A i \in k + 1 .. k : mode[i] \notin Signs
      BY <1>0
    <3>2. SignAt(mode, k) = mode[k]
      BY <1>1, <2>1, <3>1, SignIs
    <3> QED
      BY <1>1, <2>1, <3>2
  <2>2. CASE c \notin Signs
    <3>1. j \in 1 .. Len(mode) /\ j # 0 /\ j + 1 = k
      BY <1>0, <1>1, <2>2
    <3>2. PICK p \in 1 .. j : mode[p] \in Signs /\ \A i \in p + 1 .. j : mode[i] \notin Signs
      BY <3>1, HasSign
    <3>3. p \in 1 .. k /\ \A i \in p + 1 .. k : mode[i] \notin Signs
      BY <1>0, <1>1, <2>2, <3>1, <3>2
    <3>4. SignAt(mode, j) = mode[p] /\ SignAt(mode, k) = mode[p]
      BY <3>1, <3>2, <3>3, SignIs
    <3> QED
      BY <1>3, <2>2, <3>1, <3>4
  <2> QED
    BY <2>1, <2>2
<1>5. PICK v, w : v = Taken(mode, j) /\ w = Taken(mode, k)
  OBVIOUS
<1> DEFINE D == {i \in 1 .. Len(mode) : i <= j /\ IsTaken(mode, i)}
           E == {i \in 1 .. Len(mode) : i <= k /\ IsTaken(mode, i)}
<1>6. /\ DOMAIN v = D /\ DOMAIN w = E
      /\ \A i \in D : v[i] = [sign |-> SignAt(mode, i), letter |-> mode[i]]
      /\ \A i \in E : w[i] = [sign |-> SignAt(mode, i), letter |-> mode[i]]
  BY <1>5 DEF Taken
<1>7. E = IF IsTaken(mode, k) THEN D \cup {k} ELSE D
  <2>1. \A i \in 1 .. Len(mode) : i <= k <=> i <= j \/ i = k
    BY <1>0, <1>1
  <2> QED
    BY <2>1
<1>8. ASSUME ~IsTaken(mode, k) PROVE v = w
  <2>1. Taken(mode, j) = Taken(mode, k)
    BY <1>7, <1>8 DEF Taken
  <2> QED
    BY <1>5, <2>1
<1>9. CASE c \in Signs
  <2>1. ReadMode(st, c) = [sign |-> c, changes |-> changes]
    BY <1>2, <1>9 DEF ReadMode
  <2>2. ~IsTaken(mode, k)
    BY <1>1, <1>9 DEF IsTaken, Signs
  <2> QED
    BY <1>0, <1>1, <1>3, <1>4, <1>5, <1>8, <1>9, <2>1, <2>2 DEF HasTaken
<1>10. CASE c \notin Signs /\ ~IsTaken(mode, k)
  <2>1. ReadMode(st, c) = st
    BY <1>1, <1>4, <1>10 DEF ReadMode, IsTaken
  <2> QED
    BY <1>0, <1>1, <1>3, <1>4, <1>5, <1>8, <1>10, <2>1 DEF HasTaken
<1>11. CASE c \notin Signs /\ IsTaken(mode, k)
  <2>1. PICK x : x = [sign |-> sign, letter |-> c]
    OBVIOUS
  <2>2. ReadMode(st, c) = [sign |-> sign, changes |-> Append(changes, x)]
    BY <1>1, <1>2, <1>4, <1>11, <2>1 DEF ReadMode, IsTaken
  <2>3. x \in Changed
    BY <1>2, <2>1 DEF Changed
  <2>4. AddsTo(w, v, Len(mode), k, x)
    <3>1. \A i \in D : i < k
      BY <1>0, <1>1
    <3>2. D \in SUBSET (1 .. Len(mode)) /\ E = D \cup {k}
      BY <1>7, <1>11
    <3>3. w[k] = x
      BY <1>1, <1>4, <1>6, <1>11, <2>1, <3>2
    <3> HIDE DEF D, E
    <3> QED
      BY <1>6, <3>1, <3>2, <3>3 DEF AddsTo
  <2>5. InOrder(Append(changes, x), w)
    <3>1. InOrder(changes, v)
      BY <1>3, <1>5
    <3> QED
      BY <1>0, <1>2, <2>3, <2>4, <3>1, InOrderAppend
  <2> QED
    BY <1>0, <1>1, <1>4, <1>5, <1>11, <2>2, <2>5 DEF HasTaken
<1> QED
  BY <1>9, <1>10, <1>11

\* The scan takes the letters in their order.
LEMMA UserChangesAre ==
  ASSUME NEW mode \in Texts, mode # <<>>, mode[1] \in Signs
  PROVE  InOrder(UserChanges(mode), Taken(mode, Len(mode)))
<1>0. Len(mode) \in Nat
  BY LenProperties DEF Texts
<1>1. PICK g, end : g = UserRun(mode) /\ end = Len(mode)
  OBVIOUS
<1>2. /\ g[0] = [sign |-> mode[1], changes |-> <<>>]
      /\ \A k \in 0 .. end : g[k] \in UserStates
      /\ \A k \in 1 .. end : g[k] = ReadMode(g[k - 1], mode[k])
  <2>1. UserFollow(g, mode)
    BY <1>1, UserRunIs
  <2> QED
    BY <1>1, <2>1 DEF UserFollow
<1>3. HasTaken(mode, g[0], 0)
  <2>1. DOMAIN Taken(mode, 0) = {}
    BY <1>0 DEF Taken
  <2> QED
    BY <1>2, <2>1, InOrderEmpty DEF HasTaken
<1>4. \A k \in 0 .. end : HasTaken(mode, g[k], k)
  <2> DEFINE S == {k \in 0 .. end : HasTaken(mode, g[k], k)}
  <2>1. 0 \in S
    BY <1>0, <1>1, <1>3
  <2>2. ASSUME NEW k \in 1 .. end, k - 1 \in S PROVE k \in S
    <3>1. k \in 1 .. Len(mode) /\ k \in 0 .. end /\ k - 1 \in 0 .. end
      BY <1>0, <1>1
    <3>2. PICK st : st = g[k - 1]
      OBVIOUS
    <3>3. st \in UserStates /\ HasTaken(mode, st, k - 1) /\ g[k] = ReadMode(st, mode[k])
      BY <1>2, <2>2, <3>1, <3>2
    <3> QED
      BY <3>1, <3>3, ReadModeStep
  <2>3. \A k \in 0 .. end : k \in S
    <3> HIDE DEF S
    <3> QED
      BY <1>0, <1>1, <2>1, <2>2, RangeInduction
  <2> QED
    BY <2>3
<1>5. HasTaken(mode, g[end], end)
  BY <1>0, <1>1, <1>4
<1>6. UserChanges(mode) = g[end].changes
  BY <1>1 DEF UserChanges
<1> QED
  BY <1>1, <1>5, <1>6 DEF HasTaken

\* The scan of user modes takes the letters it knows in the order they are
\* written in, each with the sign before it.
THEOREM UserModesAreTaken == ParsingSpec => []UserModesAreRead
<1>1. TextInv => UserModesAreRead
  <2> SUFFICES ASSUME TextInv, text # <<>>, text[1] \in Signs
               PROVE  InOrder(UserChanges(text),
                        [i \in {k \in 1 .. Len(text) :
                                 text[k] = "i" \/ (text[k] = "o" /\ SignAt(text, k) = "-")} |->
                           [sign |-> SignAt(text, i), letter |-> text[i]]])
    BY DEF UserModesAreRead
  <2>1. text \in Texts /\ Len(text) \in Nat
    BY LenProperties DEF TextInv, Texts
  <2>2. {k \in 1 .. Len(text) : k <= Len(text) /\ IsTaken(text, k)}
          = {k \in 1 .. Len(text) : text[k] = "i" \/ (text[k] = "o" /\ SignAt(text, k) = "-")}
    BY <2>1 DEF IsTaken
  <2>3. InOrder(UserChanges(text), Taken(text, Len(text)))
    BY <2>1, UserChangesAre
  <2> QED
    BY <2>2, <2>3, Zenon DEF Taken
<1> QED
  BY <1>1, TextInvHolds, PTL

----------------------------------------------------------------------------
(* MODE of a channel *)

\* A group ends in front of the next sign, or with the text.
IsRun(mode, n) ==
  /\ n \in 1 .. Len(mode)
  /\ \A k \in 2 .. n : mode[k] \notin Signs
  /\ n = Len(mode) \/ mode[n + 1] \in Signs

LEMMA RunLengthIs ==
  ASSUME NEW mode \in Texts, mode # <<>>
  PROVE  IsRun(mode, RunLength(mode))
<1>1. PICK tail, i, n : tail = Tail(mode) /\ i = FirstIn(tail, Signs) /\ n = RunLength(mode)
  OBVIOUS
<1>2. mode \in Seq(Chars) /\ Len(mode) \in Nat /\ Len(mode) >= 1
  <2>1. mode \in Seq(Chars) /\ Len(mode) \in Nat /\ Len(mode) # 0
    BY LenProperties, EmptySeq DEF Texts
  <2> QED
    BY <2>1
<1>3. /\ tail \in Seq(Chars) /\ Len(tail) = Len(mode) - 1
      /\ \A k \in 1 .. Len(mode) - 1 : tail[k] = mode[k + 1]
  BY <1>1, <1>2, HeadTailProperties
<1>4. \/ i = 0 /\ \A j \in 1 .. Len(tail) : tail[j] \notin Signs
      \/ i \in 1 .. Len(tail) /\ tail[i] \in Signs /\ \A j \in 1 .. i - 1 : tail[j] \notin Signs
  BY <1>1, <1>3, FirstInLemma
<1>5. n = IF i = 0 THEN Len(mode) ELSE i
  BY <1>1 DEF RunLength
<1>6. n \in 1 .. Len(mode)
  BY <1>2, <1>3, <1>4, <1>5
<1>7. ASSUME NEW k \in 2 .. n PROVE mode[k] \notin Signs
  <2>1. PICK j : j = k - 1
    OBVIOUS
  <2>2. j \in 1 .. Len(mode) - 1 /\ j + 1 = k /\ (i # 0 => j \in 1 .. i - 1)
    BY <1>2, <1>5, <1>6, <2>1
  <2>3. tail[j] = mode[k] /\ j \in 1 .. Len(tail)
    BY <1>3, <2>2
  <2> QED
    BY <1>4, <2>2, <2>3
<1>8. ASSUME n # Len(mode) PROVE mode[n + 1] \in Signs
  <2>1. i # 0 /\ i = n
    BY <1>5, <1>8
  <2>2. i \in 1 .. Len(mode) - 1 /\ tail[i] \in Signs
    BY <1>3, <1>4, <2>1
  <2> QED
    BY <1>3, <2>1, <2>2
<1> QED
  BY <1>1, <1>6, <1>7, <1>8 DEF IsRun

GroupsStates == [groups : Seq(Texts), rest : Texts \ {<<>>}]

\* A turn leaves a last group or cuts the first off.
LEMMA GroupsTurnIs ==
  ASSUME NEW st \in GroupsStates,
         NEW n, n = RunLength(st.rest)
  PROVE  /\ n = Len(st.rest) => GroupsTurn(st) = st
         /\ n # Len(st.rest) =>
              GroupsTurn(st) = [groups |-> Append(st.groups, SubSeq(st.rest, 1, n)),
                                rest |-> SubSeq(st.rest, n + 1, Len(st.rest))]
<1>1. PICK r, end : r = st.rest /\ end = Len(r)
  OBVIOUS
<1>2. r \in Texts /\ end \in Nat /\ n \in 1 .. end /\ end < NPos /\ NPos \in Int
  BY <1>1, RunLengthIs, LenProperties, NPosIsInt DEF GroupsStates, Texts, IsRun
<1>3. Substr(r, 0, n) = SubSeq(r, 1, n)
  <2>1. 0 \in 0 .. Len(r) /\ n <= Len(r) - 0 /\ n \in Nat /\ 0 + 1 = 1 /\ 0 + n = n
    BY <1>1, <1>2
  <2>2. Substr(r, 0, n) = SubSeq(r, 0 + 1, 0 + n)
    BY <1>2, <2>1, SubstrPart
  <2> QED
    BY <2>1, <2>2
<1>4. Substr(r, n, NPos) = SubSeq(r, n + 1, end)
  <2>1. n \in 0 .. Len(r) /\ NPos \in Nat /\ NPos >= Len(r) - n
    BY <1>1, <1>2
  <2> QED
    BY <1>1, <1>2, <2>1, SubstrPart
<1>5. n = Len(r) => GroupsTurn(st) = st
  BY <1>1, Zenon DEF GroupsTurn
<1>6. n # Len(r) =>
        GroupsTurn(st) = [groups |-> Append(st.groups, Substr(r, 0, n)), rest |-> Substr(r, n, NPos)]
  BY <1>1, Zenon DEF GroupsTurn
<1> QED
  BY <1>1, <1>3, <1>4, <1>5, <1>6

LEMMA GroupsTurnType ==
  ASSUME NEW st \in GroupsStates
  PROVE  GroupsTurn(st) \in GroupsStates
<1>1. PICK r, n, groups : r = st.rest /\ n = RunLength(r) /\ groups = st.groups
  OBVIOUS
<1>2. /\ r \in Texts /\ r # <<>> /\ groups \in Seq(Texts) /\ Len(r) \in Nat
      /\ n \in 1 .. Len(r)
  BY <1>1, RunLengthIs, LenProperties DEF GroupsStates, Texts, IsRun
<1>3. CASE n = Len(r)
  BY <1>1, <1>3, GroupsTurnIs
<1>4. CASE n # Len(r)
  <2>1. PICK u, v : u = SubSeq(r, 1, n) /\ v = SubSeq(r, n + 1, Len(r))
    OBVIOUS
  <2>2. u \in Texts
    <3>1. 1 \in 1 .. Len(r) + 1 /\ n \in 1 - 1 .. Len(r)
      BY <1>2
    <3> QED
      BY <1>2, <2>1, <3>1, PartLemma
  <2>3. v \in Texts /\ v # <<>>
    <3>1. PICK i, j : i = n + 1 /\ j = Len(r)
      OBVIOUS
    <3>2. i \in 1 .. Len(r) + 1 /\ j \in i - 1 .. Len(r) /\ j # i - 1
      BY <1>2, <1>4, <3>1
    <3> QED
      BY <1>2, <2>1, <3>1, <3>2, PartLemma, PartChars
  <2>4. Append(groups, u) \in Seq(Texts)
    BY <1>2, <2>2, AppendProperties
  <2>5. GroupsTurn(st) = [groups |-> Append(groups, u), rest |-> v]
    BY <1>1, <1>4, <2>1, GroupsTurnIs
  <2> QED
    BY <2>3, <2>4, <2>5 DEF GroupsStates
<1> QED
  BY <1>3, <1>4

\* The turns follow each other.
GroupsFollow(g, mode) ==
  /\ g[0] = [groups |-> <<>>, rest |-> mode]
  /\ \A k \in 0 .. Len(mode) : g[k] \in GroupsStates
  /\ \A k \in 1 .. Len(mode) : g[k] = GroupsTurn(g[k - 1])

\* The loop runs: GroupsRun is defined by its recursion.
LEMMA GroupsRunIs ==
  ASSUME NEW mode \in Texts, mode # <<>>
  PROVE  GroupsFollow(GroupsRun(mode), mode)
<1> DEFINE n == Len(mode)
           start == [groups |-> <<>>, rest |-> mode]
           Def(h) == h = [k \in 0 .. n |-> IF k = 0 THEN start ELSE GroupsTurn(h[k - 1])]
           step == [p \in (1 .. n) \X GroupsStates |-> GroupsTurn(p[2])]
<1> PICK g : g = GroupsRun(mode)
  OBVIOUS
<1>0. n \in Nat
  BY LenProperties DEF Texts
<1>1. start \in GroupsStates
  BY EmptySeq DEF GroupsStates
<1>2. step \in [(1 .. n) \X GroupsStates -> GroupsStates]
  BY GroupsTurnType
<1>3. \A k \in 1 .. n, x \in GroupsStates : step[<<k, x>>] = GroupsTurn(x)
  OBVIOUS
<1>4. g = CHOOSE h : Def(h)
  BY DEF GroupsRun
<1> HIDE DEF start, step, n
<1>5. \E h : Def(h)
  <2>1. PICK f \in [0 .. n -> GroupsStates] :
          f[0] = start /\ \A k \in 1 .. n : f[k] = step[<<k, f[k - 1]>>]
    <3>1. HasRun(n, GroupsStates, start, step)
      BY <1>0, <1>1, <1>2, LoopRuns
    <3> QED
      BY <3>1 DEF HasRun
  <2>2. ASSUME NEW k \in 0 .. n
        PROVE  f[k] = IF k = 0 THEN start ELSE GroupsTurn(f[k - 1])
    <3>1. CASE k = 0
      BY <2>1, <3>1
    <3>2. CASE k # 0
      <4>1. k \in 1 .. n /\ k - 1 \in 0 .. n
        BY <1>0, <3>2
      <4> QED
        BY <1>3, <2>1, <3>2, <4>1
    <3> QED
      BY <3>1, <3>2
  <2>3. Def(f)
    BY <2>2
  <2> QED
    BY <2>3
<1>6. Def(g)
  <2> HIDE DEF Def
  <2> QED
    BY <1>4, <1>5
<1>7. g[0] = start
  BY <1>0, <1>6
<1>8. ASSUME NEW k \in 1 .. n PROVE g[k] = GroupsTurn(g[k - 1])
  <2>1. k \in 0 .. n /\ k # 0
    BY <1>0
  <2> QED
    BY <1>6, <2>1
<1>9. \A k \in 0 .. n : g[k] \in GroupsStates
  <2> DEFINE S == {k \in 0 .. n : g[k] \in GroupsStates}
  <2>1. 0 \in S
    BY <1>0, <1>1, <1>7
  <2>2. ASSUME NEW k \in 1 .. n, k - 1 \in S PROVE k \in S
    BY <1>0, <1>8, <2>2, GroupsTurnType
  <2>3. \A k \in 0 .. n : k \in S
    <3> HIDE DEF S
    <3> QED
      BY <1>0, <2>1, <2>2, RangeInduction
  <2> QED
    BY <2>3
<1> QED
  BY <1>7, <1>8, <1>9 DEF GroupsFollow, start, n

\* A change of a letter takes the place of an earlier one.
LEMMA FinalAppend ==
  ASSUME NEW x \in Seq(Changed), NEW c \in Changed
  PROVE  Final(Append(x, c)) = {d \in Final(x) : d.letter # c.letter} \cup {c}
<1>1. PICK y, n : y = Append(x, c) /\ n = Len(x)
  OBVIOUS
<1>2. /\ n \in Nat /\ Len(y) = n + 1 /\ y[n + 1] = c
      /\ \A k \in 1 .. n : y[k] = x[k]
  BY <1>1, LenProperties, AppendProperties
<1> DEFINE I == {k \in 1 .. n : \A l \in k + 1 .. n : x[l].letter # x[k].letter}
           J == {k \in 1 .. n + 1 : \A l \in k + 1 .. n + 1 : y[l].letter # y[k].letter}
<1>3. Final(x) = {x[i] : i \in I} /\ Final(y) = {y[i] : i \in J}
  BY <1>1, <1>2 DEF Final
<1>4. n + 1 \in J
  BY <1>2
<1>5. ASSUME NEW k \in 1 .. n PROVE k \in J <=> k \in I /\ x[k].letter # c.letter
  <2>1. \A l \in k + 1 .. n + 1 : l \in k + 1 .. n \/ l = n + 1
    BY <1>2
  <2>2. n + 1 \in k + 1 .. n + 1 /\ k \in 1 .. n + 1 /\ \A l \in k + 1 .. n : l \in k + 1 .. n + 1
    BY <1>2
  <2>3. \A l \in k + 1 .. n : y[l] = x[l]
    BY <1>2
  <2> QED
    BY <1>2, <2>1, <2>2, <2>3
<1>6. \A k \in J : k \in 1 .. n \/ k = n + 1
  BY <1>2
<1>7. I \in SUBSET (1 .. n)
  OBVIOUS
<1> HIDE DEF I, J
<1>8. ASSUME NEW d \in Final(y) PROVE d \in {e \in Final(x) : e.letter # c.letter} \cup {c}
  BY <1>2, <1>3, <1>5, <1>6, <1>8
<1>9. ASSUME NEW d \in {e \in Final(x) : e.letter # c.letter} \cup {c} PROVE d \in Final(y)
  <2>1. CASE d = c
    BY <1>2, <1>3, <1>4, <2>1
  <2>2. CASE d # c
    <3>1. PICK i \in I : d = x[i] /\ x[i].letter # c.letter
      BY <1>3, <1>9, <2>2
    <3> QED
      BY <1>2, <1>3, <1>5, <1>7, <3>1
  <2> QED
    BY <2>1, <2>2
<1> QED
  BY <1>1, <1>8, <1>9

\* What a group adds for a letter.
LEMMA FinalWith ==
  ASSUME NEW x \in Seq(Changed), NEW group \in Texts, NEW c,
         NEW y, y = x \o With(group, c)
  PROVE  /\ y \in Seq(Changed)
         /\ Final(y) = IF c \in ToSet(group)
                       THEN {d \in Final(x) : d.letter # c} \cup {[sign |-> group[1], letter |-> c]}
                       ELSE Final(x)
<1>1. CASE c \in ToSet(group)
  <2>1. PICK d : d = [sign |-> group[1], letter |-> c]
    OBVIOUS
  <2>2. d \in Changed /\ d.letter = c
    <3>1. PICK k \in DOMAIN group : group[k] = c
      BY <1>1 DEF ToSet
    <3>2. group \in Seq(Chars) /\ Len(group) \in Nat /\ k \in 1 .. Len(group)
      BY LenProperties DEF Texts
    <3>3. 1 \in 1 .. Len(group)
      BY <3>2
    <3>4. c \in Chars /\ group[1] \in Chars
      BY <3>1, <3>2, <3>3, ElementOfSeq
    <3> QED
      BY <2>1, <3>4 DEF Changed
  <2>3. x \o <<d>> = Append(x, d)
    BY <2>2, AppendIsConcat
  <2>4. y = Append(x, d)
    BY <1>1, <2>1, <2>3 DEF With
  <2> QED
    BY <1>1, <2>1, <2>2, <2>4, AppendProperties, FinalAppend
<1>2. CASE c \notin ToSet(group)
  <2>1. y = x \o <<>>
    BY <1>2 DEF With
  <2>2. y = x
    BY <2>1, ConcatEmptySeq
  <2> QED
    BY <1>2, <2>2
<1> QED
  BY <1>1, <1>2

ModeLetters == {"o", "t", "s", "k"}

\* The changes of a group behind others.
Behind(x, group) ==
  x \o With(group, "o") \o With(group, "t") \o With(group, "s") \o With(group, "k")

\* The letters of a group take the place of earlier ones.
Replaced(final, group) ==
  {d \in final : d.letter \notin ToSet(group)}
    \cup {[sign |-> group[1], letter |-> c] : c \in ModeLetters \cap ToSet(group)}

LEMMA FinalBehind ==
  ASSUME NEW x \in Seq(Changed), NEW group \in Texts,
         \A d \in Final(x) : d.letter \in ModeLetters
  PROVE  /\ Behind(x, group) \in Seq(Changed)
         /\ Final(Behind(x, group)) = Replaced(Final(x), group)
         /\ \A d \in Final(Behind(x, group)) : d.letter \in ModeLetters
<1>1. PICK x1, x2, x3, x4 :
        /\ x1 = x \o With(group, "o") /\ x2 = x1 \o With(group, "t")
        /\ x3 = x2 \o With(group, "s") /\ x4 = x3 \o With(group, "k")
  OBVIOUS
<1>2. /\ x1 \in Seq(Changed)
      /\ Final(x1) = IF "o" \in ToSet(group)
                     THEN {d \in Final(x) : d.letter # "o"} \cup {[sign |-> group[1], letter |-> "o"]}
                     ELSE Final(x)
  BY <1>1, FinalWith
<1>3. /\ x2 \in Seq(Changed)
      /\ Final(x2) = IF "t" \in ToSet(group)
                     THEN {d \in Final(x1) : d.letter # "t"} \cup {[sign |-> group[1], letter |-> "t"]}
                     ELSE Final(x1)
  <2>1. x1 \in Seq(Changed) /\ x2 = x1 \o With(group, "t")
    BY <1>1, <1>2
  <2> QED
    BY <2>1, FinalWith, ZenonT(40)
<1>4. /\ x3 \in Seq(Changed)
      /\ Final(x3) = IF "s" \in ToSet(group)
                     THEN {d \in Final(x2) : d.letter # "s"} \cup {[sign |-> group[1], letter |-> "s"]}
                     ELSE Final(x2)
  <2>1. x2 \in Seq(Changed) /\ x3 = x2 \o With(group, "s")
    BY <1>1, <1>3
  <2> QED
    BY <2>1, FinalWith, ZenonT(40)
<1>5. /\ x4 \in Seq(Changed)
      /\ Final(x4) = IF "k" \in ToSet(group)
                     THEN {d \in Final(x3) : d.letter # "k"} \cup {[sign |-> group[1], letter |-> "k"]}
                     ELSE Final(x3)
  <2>1. x3 \in Seq(Changed) /\ x4 = x3 \o With(group, "k")
    BY <1>1, <1>4
  <2> QED
    BY <2>1, FinalWith, ZenonT(40)
<1>6. Behind(x, group) = x4
  BY <1>1 DEF Behind
<1>7. PICK f0, f1, f2, f3, f4, h : /\ f0 = Final(x) /\ f1 = Final(x1) /\ f2 = Final(x2)
                                   /\ f3 = Final(x3) /\ f4 = Final(x4) /\ h = group[1]
  OBVIOUS
<1> DEFINE Of(c) == [sign |-> h, letter |-> c]
<1>8. \A d : d \in f4 <=> \/ d \in f0 /\ d.letter \notin ToSet(group)
                          \/ \E c \in ModeLetters \cap ToSet(group) : d = Of(c)
  <2>1. \A d : d \in f1 <=> \/ d \in f0 /\ ("o" \in ToSet(group) => d.letter # "o")
                            \/ "o" \in ToSet(group) /\ d = Of("o")
    BY <1>2, <1>7
  <2>2. \A d : d \in f2 <=> \/ d \in f1 /\ ("t" \in ToSet(group) => d.letter # "t")
                            \/ "t" \in ToSet(group) /\ d = Of("t")
    BY <1>3, <1>7
  <2>3. \A d : d \in f3 <=> \/ d \in f2 /\ ("s" \in ToSet(group) => d.letter # "s")
                            \/ "s" \in ToSet(group) /\ d = Of("s")
    BY <1>4, <1>7
  <2>4. \A d : d \in f4 <=> \/ d \in f3 /\ ("k" \in ToSet(group) => d.letter # "k")
                            \/ "k" \in ToSet(group) /\ d = Of("k")
    BY <1>5, <1>7
  <2>5. \A d \in f0 : d.letter \in ModeLetters
    BY <1>7
  <2>6. \A c : Of(c).letter = c
    OBVIOUS
  <2> HIDE DEF Of
  <2> QED
    BY <2>1, <2>2, <2>3, <2>4, <2>5, <2>6 DEF ModeLetters
<1>9. f4 = Replaced(f0, group)
  BY <1>7, <1>8 DEF Replaced
<1>10. \A d \in f4 : d.letter \in ModeLetters
  BY <1>7, <1>8
<1> QED
  BY <1>5, <1>6, <1>7, <1>9, <1>10

LEMMA BehindType ==
  ASSUME NEW x \in Seq(Changed), NEW group \in Texts
  PROVE  Behind(x, group) \in Seq(Changed)
<1>1. PICK x1, x2, x3 :
        /\ x1 = x \o With(group, "o") /\ x2 = x1 \o With(group, "t")
        /\ x3 = x2 \o With(group, "s")
  OBVIOUS
<1>2. x1 \in Seq(Changed)
  BY <1>1, FinalWith
<1>3. x2 \in Seq(Changed)
  BY <1>1, <1>2, FinalWith
<1>4. x3 \in Seq(Changed)
  BY <1>1, <1>3, FinalWith
<1>5. x3 \o With(group, "k") \in Seq(Changed)
  BY <1>4, FinalWith
<1> QED
  BY <1>1, <1>5 DEF Behind

\* The groups are taken one after the other.
ChangesFollow(f, groups) ==
  /\ f[0] = <<>>
  /\ \A k \in 0 .. Len(groups) : f[k] \in Seq(Changed)
  /\ \A k \in 1 .. Len(groups) : f[k] = Behind(f[k - 1], groups[k])

\* The loop runs: ChangesRun is defined by its recursion.
LEMMA ChangesRunIs ==
  ASSUME NEW groups \in Seq(Texts)
  PROVE  ChangesFollow(ChangesRun(groups), groups)
<1> DEFINE n == Len(groups)
           Def(h) == h = [k \in 0 .. n |-> IF k = 0 THEN <<>> ELSE Behind(h[k - 1], groups[k])]
           step == [p \in (1 .. n) \X Seq(Changed) |-> Behind(p[2], groups[p[1]])]
<1> PICK g : g = ChangesRun(groups)
  OBVIOUS
<1>0. n \in Nat /\ \A k \in 1 .. n : groups[k] \in Texts
  BY LenProperties, ElementOfSeq
<1>1. <<>> \in Seq(Changed)
  BY EmptySeq
<1>2. step \in [(1 .. n) \X Seq(Changed) -> Seq(Changed)]
  BY <1>0, BehindType
<1>3. \A k \in 1 .. n, x \in Seq(Changed) : step[<<k, x>>] = Behind(x, groups[k])
  OBVIOUS
<1>4. g = CHOOSE h : Def(h)
  BY DEF ChangesRun, Behind
<1> HIDE DEF step, n
<1>5. \E h : Def(h)
  <2>1. PICK f \in [0 .. n -> Seq(Changed)] :
          f[0] = <<>> /\ \A k \in 1 .. n : f[k] = step[<<k, f[k - 1]>>]
    <3>1. HasRun(n, Seq(Changed), <<>>, step)
      BY <1>0, <1>1, <1>2, LoopRuns
    <3> QED
      BY <3>1 DEF HasRun
  <2>2. ASSUME NEW k \in 0 .. n
        PROVE  f[k] = IF k = 0 THEN <<>> ELSE Behind(f[k - 1], groups[k])
    <3>1. CASE k = 0
      BY <2>1, <3>1
    <3>2. CASE k # 0
      <4>1. k \in 1 .. n /\ k - 1 \in 0 .. n
        BY <1>0, <3>2
      <4> QED
        BY <1>3, <2>1, <3>2, <4>1
    <3> QED
      BY <3>1, <3>2
  <2>3. Def(f)
    BY <2>2
  <2> QED
    BY <2>3
<1>6. Def(g)
  <2> HIDE DEF Def
  <2> QED
    BY <1>4, <1>5
<1>7. g[0] = <<>>
  BY <1>0, <1>6
<1>8. ASSUME NEW k \in 1 .. n PROVE g[k] = Behind(g[k - 1], groups[k])
  <2>1. k \in 0 .. n /\ k # 0
    BY <1>0
  <2> QED
    BY <1>6, <2>1
<1>9. \A k \in 0 .. n : g[k] \in Seq(Changed)
  <2>0. PICK values : values = Seq(Changed)
    OBVIOUS
  <2> DEFINE S == {k \in 0 .. n : g[k] \in values}
  <2>1. 0 \in S
    <3>1. g[0] \in values
      BY <1>1, <1>7, <2>0
    <3> QED
      BY <1>0, <3>1
  <2>2. ASSUME NEW k \in 1 .. n, k - 1 \in S PROVE k \in S
    <3>1. g[k - 1] \in Seq(Changed) /\ groups[k] \in Texts /\ k \in 0 .. n
      BY <1>0, <2>0, <2>2
    <3>2. g[k] \in values
      BY <1>8, <2>0, <3>1, BehindType
    <3> QED
      BY <3>1, <3>2
  <2>3. \A k \in 0 .. n : k \in S
    <3> HIDE DEF S
    <3> QED
      BY <1>0, <2>1, <2>2, RangeInduction
  <2> QED
    BY <2>0, <2>3
<1> QED
  BY <1>7, <1>8, <1>9 DEF ChangesFollow, n

ChangesOf(groups) == ChangesRun(groups)[Len(groups)]

\* One group more.
LEMMA ChangesAppend ==
  ASSUME NEW groups \in Seq(Texts), NEW group \in Texts
  PROVE  /\ ChangesOf(groups) \in Seq(Changed)
         /\ ChangesOf(Append(groups, group)) = Behind(ChangesOf(groups), group)
<1>1. PICK n, more, f, g : /\ n = Len(groups) /\ more = Append(groups, group)
                           /\ f = ChangesRun(groups) /\ g = ChangesRun(more)
  OBVIOUS
<1>2. /\ n \in Nat /\ more \in Seq(Texts) /\ Len(more) = n + 1
      /\ more[n + 1] = group /\ \A k \in 1 .. n : more[k] = groups[k]
  BY <1>1, LenProperties, AppendProperties
<1>3. /\ f[0] = <<>>
      /\ \A k \in 0 .. n : f[k] \in Seq(Changed)
      /\ \A k \in 1 .. n : f[k] = Behind(f[k - 1], groups[k])
  <2>1. ChangesFollow(f, groups)
    BY <1>1, ChangesRunIs
  <2> QED
    BY <1>1, <2>1 DEF ChangesFollow
<1>4. /\ g[0] = <<>>
      /\ \A k \in 1 .. n + 1 : g[k] = Behind(g[k - 1], more[k])
  <2>1. ChangesFollow(g, more)
    BY <1>1, <1>2, ChangesRunIs
  <2> QED
    BY <1>2, <2>1 DEF ChangesFollow
<1>5. \A k \in 0 .. n : f[k] = g[k]
  <2> DEFINE S == {k \in 0 .. n : f[k] = g[k]}
  <2>1. 0 \in S
    BY <1>2, <1>3, <1>4
  <2>2. ASSUME NEW k \in 1 .. n, k - 1 \in S PROVE k \in S
    <3>1. k \in 1 .. n + 1 /\ k \in 0 .. n
      BY <1>2
    <3> QED
      BY <1>2, <1>3, <1>4, <2>2, <3>1
  <2>3. \A k \in 0 .. n : k \in S
    <3> HIDE DEF S
    <3> QED
      BY <1>2, <2>1, <2>2, RangeInduction
  <2> QED
    BY <2>3
<1>6. g[n + 1] = Behind(f[n], group)
  <2>1. n + 1 \in 1 .. n + 1 /\ n + 1 - 1 = n /\ n \in 0 .. n
    BY <1>2
  <2> QED
    BY <1>2, <1>4, <1>5, <2>1
<1>7. n \in 0 .. n
  BY <1>2
<1> QED
  BY <1>1, <1>2, <1>3, <1>6, <1>7 DEF ChangesOf

\* What the first characters of a mode string say about the letters.
ReadUpTo(mode, n) ==
  {[sign |-> SignAt(mode, i), letter |-> mode[i]] :
     i \in {k \in 1 .. n : mode[k] \in ModeLetters /\ \A l \in k + 1 .. n : mode[l] # mode[k]}}

\* The sign and the letters behind place b, up to e.
LEMMA ReadStep ==
  ASSUME NEW mode \in Texts, NEW b \in 0 .. Len(mode), NEW e \in b + 1 .. Len(mode),
         mode[b + 1] \in Signs, \A k \in b + 2 .. e : mode[k] \notin Signs,
         NEW group, group = SubSeq(mode, b + 1, e)
  PROVE  ReadUpTo(mode, e) = Replaced(ReadUpTo(mode, b), group)
<1>0. Len(mode) \in Nat /\ b \in Nat /\ e \in Nat /\ b < e
  BY LenProperties DEF Texts
<1> DEFINE I(n) == {k \in 1 .. n : mode[k] \in ModeLetters /\ \A l \in k + 1 .. n : mode[l] # mode[k]}
           Said(i) == [sign |-> SignAt(mode, i), letter |-> mode[i]]
<1>1. PICK m, h, set : m = b + 1 /\ h = mode[m] /\ set = ToSet(group)
  OBVIOUS
<1>2. /\ group[1] = h
      /\ set = {mode[k] : k \in m .. e}
      /\ group \in Seq(Chars) /\ Len(group) = e - b
      /\ \A k \in 1 .. e - b : group[k] = mode[b + k]
  <2>1. m \in 1 .. Len(mode) + 1 /\ e \in m - 1 .. Len(mode) /\ e - m + 1 = e - b
    BY <1>0, <1>1
  <2>2. /\ set = {mode[k] : k \in m .. e}
        /\ group \in Seq(Chars) /\ Len(group) = e - m + 1
        /\ \A k \in 1 .. e - m + 1 : group[k] = mode[m + k - 1]
    <3>1. group = SubSeq(mode, m, e)
      BY <1>1
    <3>2. /\ group \in Texts /\ Len(group) = e - m + 1
          /\ \A k \in 1 .. e - m + 1 : group[k] = mode[m + k - 1]
      <4>1. /\ SubSeq(mode, m, e) \in Texts /\ Len(SubSeq(mode, m, e)) = e - m + 1
            /\ \A k \in 1 .. e - m + 1 : SubSeq(mode, m, e)[k] = mode[m + k - 1]
        BY <2>1, PartLemma
      <4> QED
        BY <3>1, <4>1
    <3>3. ToSet(group) = {mode[k] : k \in m .. e}
      BY <2>1, <3>1, PartChars, ZenonT(40)
    <3> QED
      BY <1>1, <3>2, <3>3 DEF Texts
  <2>3. \A k \in 1 .. e - b : m + k - 1 = b + k
    BY <1>0, <1>1
  <2>4. 1 \in 1 .. e - b /\ b + 1 = m
    BY <1>0, <1>1
  <2> QED
    BY <1>1, <2>1, <2>2, <2>3, <2>4
<1>3. ASSUME NEW i \in m + 1 .. e PROVE SignAt(mode, i) = h
  <2>1. i \in 1 .. Len(mode) /\ m \in 1 .. i /\ \A j \in m + 1 .. i : j \in b + 2 .. e
    BY <1>0, <1>1
  <2> QED
    BY <1>1, <2>1, SignIs
<1>4. h \notin ModeLetters
  BY <1>1 DEF Signs, ModeLetters
<1>5. /\ ReadUpTo(mode, e) = {Said(i) : i \in I(e)} /\ ReadUpTo(mode, b) = {Said(i) : i \in I(b)}
  BY DEF ReadUpTo
<1>6. ASSUME NEW d \in ReadUpTo(mode, e) PROVE d \in Replaced(ReadUpTo(mode, b), group)
  <2>1. PICK i \in 1 .. e : /\ mode[i] \in ModeLetters /\ \A l \in i + 1 .. e : mode[l] # mode[i]
                            /\ d = [sign |-> SignAt(mode, i), letter |-> mode[i]]
    BY <1>5, <1>6
  <2>2. CASE i > b
    <3>1. i \in m .. e /\ i # m
      BY <1>0, <1>1, <1>4, <2>1, <2>2
    <3>2. i \in m + 1 .. e /\ mode[i] \in set
      BY <1>0, <1>1, <1>2, <3>1
    <3>3. d = [sign |-> group[1], letter |-> mode[i]]
      BY <1>2, <1>3, <2>1, <3>2
    <3> QED
      BY <1>1, <2>1, <3>2, <3>3 DEF Replaced
  <2>3. CASE ~(i > b)
    <3>1. i \in 1 .. b /\ \A l \in i + 1 .. b : l \in i + 1 .. e
      BY <1>0, <2>1, <2>3
    <3>2. i \in I(b)
      BY <2>1, <3>1
    <3>3. \A l \in m .. e : l \in i + 1 .. e
      BY <1>0, <1>1, <3>1
    <3>4. d.letter = mode[i] /\ mode[i] \notin set
      BY <1>2, <2>1, <3>3
    <3>5. d \in ReadUpTo(mode, b)
      BY <1>5, <2>1, <3>2
    <3> QED
      BY <1>1, <3>4, <3>5 DEF Replaced
  <2> QED
    BY <2>2, <2>3
<1>7. ASSUME NEW d \in ReadUpTo(mode, b), d.letter \notin set PROVE d \in ReadUpTo(mode, e)
  <2>1. PICK i \in 1 .. b : /\ mode[i] \in ModeLetters /\ \A l \in i + 1 .. b : mode[l] # mode[i]
                            /\ d = [sign |-> SignAt(mode, i), letter |-> mode[i]]
    BY <1>5, <1>7
  <2>2. i \in 1 .. e /\ \A l \in i + 1 .. e : l \in i + 1 .. b \/ l \in m .. e
    BY <1>0, <1>1
  <2>3. \A l \in m .. e : mode[l] # mode[i]
    BY <1>2, <1>7, <2>1
  <2>4. i \in I(e)
    BY <2>1, <2>2, <2>3
  <2> QED
    BY <1>5, <2>1, <2>4
<1>8. ASSUME NEW c \in ModeLetters \cap set
      PROVE  [sign |-> group[1], letter |-> c] \in ReadUpTo(mode, e)
  <2>1. PICK j : j = LastIn(group, {c})
    OBVIOUS
  <2>2. /\ j \in 1 .. Len(group) /\ group[j] = c
        /\ \A l \in j + 1 .. Len(group) : group[l] # c
    <3>1. \/ j = 0 /\ \A l \in 1 .. Len(group) : group[l] \notin {c}
          \/ j \in 1 .. Len(group) /\ group[j] \in {c}
             /\ \A l \in j + 1 .. Len(group) : group[l] \notin {c}
      BY <1>2, <2>1, LastInLemma
    <3>2. PICK k \in m .. e : mode[k] = c
      BY <1>2, <1>8
    <3>3. PICK l : l = k - b
      OBVIOUS
    <3>4. l \in 1 .. e - b /\ b + l = k
      BY <1>0, <1>1, <3>3
    <3>5. l \in 1 .. Len(group) /\ group[l] = c
      BY <1>2, <3>2, <3>4
    <3> QED
      BY <3>1, <3>5
  <2>3. PICK i : i = b + j
    OBVIOUS
  <2>4. i \in 1 .. e /\ i \in m .. e /\ mode[i] = c
    BY <1>0, <1>1, <1>2, <2>2, <2>3
  <2>5. ASSUME NEW l \in i + 1 .. e PROVE mode[l] # mode[i]
    <3>1. PICK k : k = l - b
      OBVIOUS
    <3>2. k \in 1 .. e - b /\ k \in j + 1 .. e - b /\ b + k = l
      BY <1>0, <1>2, <2>2, <2>3, <2>5, <3>1
    <3> QED
      BY <1>2, <2>2, <2>4, <3>2, SMTT(30)
  <2>6. i \in I(e)
    BY <2>4, <2>5
  <2>7. i # m
    BY <1>1, <1>4, <1>8, <2>4
  <2>8. i \in m + 1 .. e
    BY <1>0, <1>1, <2>4, <2>7
  <2> QED
    BY <1>2, <1>3, <1>5, <2>4, <2>6, <2>8
<1>9. ASSUME NEW d \in Replaced(ReadUpTo(mode, b), group) PROVE d \in ReadUpTo(mode, e)
  BY <1>1, <1>7, <1>8, <1>9 DEF Replaced
<1> QED
  BY <1>6, <1>9

\* A sign and its letters behind place b, up to e.
NextGroup(mode, b, e) ==
  /\ e \in b + 1 .. Len(mode)
  /\ \A k \in b + 2 .. e : mode[k] \notin Signs
  /\ e = Len(mode) \/ mode[e + 1] \in Signs

\* What is left behind place b, and its first n characters as the next group.
IsRest(mode, b, rest) ==
  b \in 0 .. Len(mode) - 1 /\ rest = SubSeq(mode, b + 1, Len(mode))

CutsGroup(mode, b, rest, n) ==
  /\ NextGroup(mode, b, b + n) /\ (n = Len(rest) <=> b + n = Len(mode))
  /\ SubSeq(rest, 1, n) = SubSeq(mode, b + 1, b + n)
  /\ SubSeq(rest, n + 1, Len(rest)) = SubSeq(mode, b + n + 1, Len(mode))

LEMMA NextGroupIs ==
  ASSUME NEW mode \in Texts, NEW b, NEW rest, IsRest(mode, b, rest)
  PROVE  CutsGroup(mode, b, rest, RunLength(rest))
<1>0. Len(mode) \in Nat /\ b \in Nat /\ b < Len(mode)
  <2>1. Len(mode) \in Nat /\ b \in 0 .. Len(mode) - 1
    BY LenProperties DEF Texts, IsRest
  <2> QED
    BY <2>1
<1>1. PICK m, l, end, n, e : /\ m = b + 1 /\ l = Len(mode) - b /\ end = Len(mode)
                             /\ n = RunLength(rest) /\ e = b + n
  OBVIOUS
<1>2. m \in 1 .. Len(mode) + 1 /\ end \in m - 1 .. Len(mode) /\ end - m + 1 = l /\ l \in Nat
      /\ end # m - 1
  BY <1>0, <1>1
<1>3. /\ rest \in Texts /\ Len(rest) = l /\ rest # <<>>
      /\ \A k \in 1 .. l : rest[k] = mode[m + k - 1]
  <2>1. rest = SubSeq(mode, m, end)
    BY <1>1 DEF IsRest
  <2>2. /\ rest \in Texts /\ Len(rest) = end - m + 1
        /\ \A k \in 1 .. end - m + 1 : rest[k] = mode[m + k - 1]
    BY <1>2, <2>1, PartLemma
  <2>3. rest # <<>>
    BY <1>2, <2>1, PartChars
  <2> QED
    BY <1>2, <2>2, <2>3
<1>4. n \in 1 .. l
  BY <1>1, <1>3, RunLengthIs DEF IsRun
<1>5. \A k \in 2 .. n : rest[k] \notin Signs
  BY <1>1, <1>3, RunLengthIs DEF IsRun
<1>6. n # l => rest[n + 1] \in Signs
  BY <1>1, <1>3, RunLengthIs DEF IsRun
<1>7. e \in b + 1 .. Len(mode) /\ (n = l <=> e = Len(mode))
  BY <1>0, <1>1, <1>4
<1>8. ASSUME NEW k \in b + 2 .. e PROVE mode[k] \notin Signs
  <2>1. PICK j : j = k - b
    OBVIOUS
  <2>2. j \in 2 .. n /\ j \in 1 .. l /\ m + j - 1 = k
    BY <1>0, <1>1, <1>4, <2>1
  <2> QED
    BY <1>3, <1>5, <2>2
<1>9. ASSUME e # Len(mode) PROVE mode[e + 1] \in Signs
  <2>1. n # l
    BY <1>7, <1>9
  <2>2. PICK j : j = n + 1
    OBVIOUS
  <2>3. j \in 1 .. l /\ m + j - 1 = e + 1
    BY <1>0, <1>1, <1>2, <1>4, <2>1, <2>2
  <2> QED
    BY <1>3, <1>6, <2>1, <2>2, <2>3
<1>10. rest = SubSeq(mode, m, end)
  BY <1>1 DEF IsRest
<1>11. SubSeq(rest, 1, n) = SubSeq(mode, b + 1, e)
  <2>1. 1 \in 1 .. end - m + 2 /\ n \in 1 - 1 .. end - m + 1 /\ m + 1 - 1 = b + 1 /\ m + n - 1 = e
    BY <1>0, <1>1, <1>4
  <2>2. SubSeq(rest, 1, n) = SubSeq(mode, m + 1 - 1, m + n - 1)
    BY <1>2, <1>10, <2>1, PartOfPart
  <2> QED
    BY <2>1, <2>2
<1>12. SubSeq(rest, n + 1, Len(rest)) = SubSeq(mode, e + 1, Len(mode))
  <2>1. PICK i, j : i = n + 1 /\ j = l
    OBVIOUS
  <2>2. i \in 1 .. end - m + 2 /\ j \in i - 1 .. end - m + 1
        /\ m + i - 1 = e + 1 /\ m + j - 1 = Len(mode)
    BY <1>0, <1>1, <1>4, <2>1, SMTT(30)
  <2>3. SubSeq(rest, i, j) = SubSeq(mode, m + i - 1, m + j - 1)
    BY <1>2, <1>10, <2>2, PartOfPart
  <2> QED
    BY <1>3, <2>1, <2>2, <2>3
<1>13. NextGroup(mode, b, e)
  BY <1>7, <1>8, <1>9 DEF NextGroup
<1>14. n = Len(rest) <=> e = Len(mode)
  BY <1>3, <1>7
<1> QED
  BY <1>1, <1>11, <1>12, <1>13, <1>14 DEF CutsGroup

\* The groups say what the mode string says up to a place b, behind which the
\* loop finds the rest. It goes on until the rest is a group.
HasRead(mode, st, k) ==
  \E b \in 0 .. Len(mode) - 1 :
    /\ st.rest = SubSeq(mode, b + 1, Len(mode)) /\ mode[b + 1] \in Signs
    /\ Final(ChangesOf(st.groups)) = ReadUpTo(mode, b)
    /\ b >= k \/ RunLength(st.rest) = Len(st.rest)

\* The next group.
LEMMA GroupRead ==
  ASSUME NEW mode \in Texts, NEW b \in 0 .. Len(mode) - 1, mode[b + 1] \in Signs,
         NEW groups \in Seq(Texts), Final(ChangesOf(groups)) = ReadUpTo(mode, b),
         NEW e, NextGroup(mode, b, e), NEW group, group = SubSeq(mode, b + 1, e)
  PROVE  Final(ChangesOf(Append(groups, group))) = ReadUpTo(mode, e)
<1>0. /\ Len(mode) \in Nat /\ e \in b + 1 .. Len(mode) /\ b \in 0 .. Len(mode)
      /\ \A k \in b + 2 .. e : mode[k] \notin Signs
  BY LenProperties DEF Texts, NextGroup
<1>1. group \in Texts
  <2>1. PICK i : i = b + 1
    OBVIOUS
  <2>2. i \in 1 .. Len(mode) + 1 /\ e \in i - 1 .. Len(mode)
    BY <1>0, <2>1
  <2> QED
    BY <2>1, <2>2, PartLemma
<1>2. PICK x : x = ChangesOf(groups)
  OBVIOUS
<1>3. x \in Seq(Changed) /\ ChangesOf(Append(groups, group)) = Behind(x, group)
  BY <1>1, <1>2, ChangesAppend
<1>4. \A d \in Final(x) : d.letter \in ModeLetters
  <2>1. \A d \in ReadUpTo(mode, b) : d.letter \in ModeLetters
    BY DEF ReadUpTo
  <2> QED
    BY <1>2, <2>1
<1>5. Final(Behind(x, group)) = Replaced(Final(x), group)
  BY <1>1, <1>3, <1>4, FinalBehind
<1>6. ReadUpTo(mode, e) = Replaced(ReadUpTo(mode, b), group)
  BY <1>0, ReadStep
<1> QED
  BY <1>2, <1>3, <1>5, <1>6

LEMMA GroupsStep ==
  ASSUME NEW mode \in Texts, NEW st \in GroupsStates, NEW k \in Nat, HasRead(mode, st, k)
  PROVE  HasRead(mode, GroupsTurn(st), k + 1)
<1>0. PICK rest, groups, n : rest = st.rest /\ groups = st.groups /\ n = RunLength(rest)
  OBVIOUS
<1>1. Len(mode) \in Nat /\ groups \in Seq(Texts)
  BY <1>0, LenProperties DEF GroupsStates, Texts
<1>2. PICK b \in 0 .. Len(mode) - 1 :
        /\ rest = SubSeq(mode, b + 1, Len(mode)) /\ mode[b + 1] \in Signs
        /\ Final(ChangesOf(groups)) = ReadUpTo(mode, b)
        /\ b >= k \/ n = Len(rest)
  BY <1>0 DEF HasRead
<1>3. CASE n = Len(rest)
  <2>1. GroupsTurn(st) = st
    BY <1>0, <1>3, GroupsTurnIs
  <2> QED
    BY <1>0, <1>2, <1>3, <2>1 DEF HasRead
<1>4. CASE n # Len(rest)
  <2>0. CutsGroup(mode, b, rest, n)
    <3>1. IsRest(mode, b, rest)
      BY <1>2 DEF IsRest
    <3> QED
      BY <1>0, <3>1, NextGroupIs
  <2>1. PICK e, group, behind : /\ e = b + n /\ group = SubSeq(mode, b + 1, e)
                                /\ behind = SubSeq(mode, e + 1, Len(mode))
    OBVIOUS
  <2>2. /\ NextGroup(mode, b, e) /\ e # Len(mode)
        /\ SubSeq(rest, 1, n) = group /\ SubSeq(rest, n + 1, Len(rest)) = behind
    BY <1>4, <2>0, <2>1 DEF CutsGroup
  <2>3. GroupsTurn(st) = [groups |-> Append(groups, group), rest |-> behind]
    <3>1. n = RunLength(st.rest) /\ n # Len(st.rest)
      BY <1>0, <1>4
    <3>2. GroupsTurn(st) = [groups |-> Append(st.groups, SubSeq(st.rest, 1, n)),
                            rest |-> SubSeq(st.rest, n + 1, Len(st.rest))]
      BY <3>1, GroupsTurnIs
    <3> QED
      BY <1>0, <2>2, <3>2
  <2>4. Final(ChangesOf(Append(groups, group))) = ReadUpTo(mode, e)
    BY <1>1, <1>2, <2>1, <2>2, GroupRead
  <2>5. e \in b + 1 .. Len(mode) /\ mode[e + 1] \in Signs
    BY <2>2 DEF NextGroup
  <2>6. e \in 0 .. Len(mode) - 1 /\ e >= b + 1
    BY <1>1, <2>2, <2>5
  <2>7. e >= k + 1
    BY <1>1, <1>2, <1>4, <2>6
  <2>8. PICK t : t = GroupsTurn(st)
    OBVIOUS
  <2>9. t.rest = behind /\ t.groups = Append(groups, group)
    BY <2>3, <2>8
  <2>10. HasRead(mode, t, k + 1)
    BY <2>1, <2>4, <2>5, <2>6, <2>7, <2>9 DEF HasRead
  <2> QED
    BY <2>8, <2>10
<1> QED
  BY <1>3, <1>4

\* The groups say what the mode string says.
LEMMA ChangesAre ==
  ASSUME NEW mode \in Texts, mode # <<>>, mode[1] \in Signs
  PROVE  Final(Changes(mode)) = ReadUpTo(mode, Len(mode))
<1>0. Len(mode) \in Nat /\ Len(mode) # 0
  BY LenProperties, EmptySeq DEF Texts
<1>1. PICK g, end : g = GroupsRun(mode) /\ end = Len(mode)
  OBVIOUS
<1>2. /\ g[0] = [groups |-> <<>>, rest |-> mode]
      /\ \A k \in 0 .. end : g[k] \in GroupsStates
      /\ \A k \in 1 .. end : g[k] = GroupsTurn(g[k - 1])
  <2>1. GroupsFollow(g, mode)
    BY <1>1, GroupsRunIs
  <2> QED
    BY <1>1, <2>1 DEF GroupsFollow
<1>3. HasRead(mode, g[0], 0)
  <2>1. g[0].groups = <<>> /\ g[0].rest = mode
    BY <1>2
  <2>2. ChangesOf(<<>>) = <<>>
    <3>1. <<>> \in Seq(Texts) /\ Len(<<>>) = 0
      BY EmptySeq
    <3>2. ChangesFollow(ChangesRun(<<>>), <<>>)
      BY <3>1, ChangesRunIs
    <3> QED
      BY <3>1, <3>2 DEF ChangesFollow, ChangesOf
  <2>3. Final(<<>>) = {} /\ ReadUpTo(mode, 0) = {}
    BY EmptySeq DEF Final, ReadUpTo
  <2>4. 0 \in 0 .. Len(mode) - 1 /\ 0 + 1 = 1 /\ 0 >= 0
    BY <1>0
  <2>5. mode = SubSeq(mode, 1, Len(mode))
    BY SubSeqFull DEF Texts
  <2> QED
    BY <2>1, <2>2, <2>3, <2>4, <2>5 DEF HasRead
<1>4. \A k \in 0 .. end : HasRead(mode, g[k], k)
  <2> DEFINE S == {k \in 0 .. end : HasRead(mode, g[k], k)}
  <2>1. 0 \in S
    BY <1>0, <1>1, <1>3
  <2>2. ASSUME NEW k \in 1 .. end, k - 1 \in S PROVE k \in S
    <3>1. PICK j : j = k - 1
      OBVIOUS
    <3>2. j \in Nat /\ j \in 0 .. end /\ j + 1 = k /\ k \in 0 .. end
      BY <1>0, <1>1, <3>1
    <3>3. g[j] \in GroupsStates /\ HasRead(mode, g[j], j) /\ g[k] = GroupsTurn(g[j])
      BY <1>2, <2>2, <3>1, <3>2
    <3>4. HasRead(mode, GroupsTurn(g[j]), j + 1)
      BY <3>2, <3>3, GroupsStep
    <3> QED
      BY <3>2, <3>3, <3>4
  <2>3. \A k \in 0 .. end : k \in S
    <3> HIDE DEF S
    <3> QED
      BY <1>0, <1>1, <2>1, <2>2, RangeInduction
  <2> QED
    BY <2>3
<1>5. PICK groups, rest : groups = g[end].groups /\ rest = g[end].rest
  OBVIOUS
<1>6. end \in 0 .. end
  BY <1>0, <1>1
<1>7. groups \in Seq(Texts)
  BY <1>2, <1>5, <1>6 DEF GroupsStates
<1>8. PICK b \in 0 .. Len(mode) - 1 :
        /\ rest = SubSeq(mode, b + 1, Len(mode)) /\ mode[b + 1] \in Signs
        /\ Final(ChangesOf(groups)) = ReadUpTo(mode, b)
        /\ RunLength(rest) = Len(rest)
  <2>1. HasRead(mode, g[end], end)
    BY <1>4, <1>6
  <2>2. \A b \in 0 .. Len(mode) - 1 : ~(b >= end)
    BY <1>0, <1>1
  <2> QED
    BY <1>5, <2>1, <2>2 DEF HasRead
<1>9. NextGroup(mode, b, Len(mode))
  <2>1. PICK n, e : n = RunLength(rest) /\ e = b + n
    OBVIOUS
  <2>2. NextGroup(mode, b, e) /\ (n = Len(rest) <=> e = Len(mode))
    <3>1. IsRest(mode, b, rest)
      BY <1>8 DEF IsRest
    <3>2. CutsGroup(mode, b, rest, n)
      BY <2>1, <3>1, NextGroupIs
    <3> QED
      BY <2>1, <3>2 DEF CutsGroup
  <2> QED
    BY <1>8, <2>1, <2>2
<1>10. Final(ChangesOf(Append(groups, rest))) = ReadUpTo(mode, Len(mode))
  BY <1>7, <1>8, <1>9, GroupRead, ZenonT(40)
<1>11. Groups(mode) = Append(groups, rest)
  BY <1>1, <1>5 DEF Groups
<1> QED
  BY <1>10, <1>11 DEF Changes, ChangesOf

\* The mode string of MODE is a text.
LEMMA ModeIsText ==
  ASSUME NEW s \in Texts
  PROVE  ModeFields(s).mode \in Texts
<1>1. ASSUME NEW t \in Texts PROVE Before(t, "sp") \in Texts /\ From(t, "sp") \in Texts
  <2>1. PICK n \in 0 .. Len(t) : (n = Len(t) \/ t[n + 1] = "sp") /\ \A j \in 1 .. n : t[j] # "sp"
    BY <1>1, FirstPlace
  <2>2. Before(t, "sp") = SubSeq(t, 1, n) /\ From(t, "sp") = SubSeq(t, n + 1, Len(t))
    BY <1>1, <2>1, BeforeIs
  <2>3. Len(t) \in Nat
    BY <1>1, LenProperties DEF Texts
  <2>4. PICK i, j : i = n + 1 /\ j = Len(t)
    OBVIOUS
  <2>5. /\ 1 \in 1 .. Len(t) + 1 /\ n \in 1 - 1 .. Len(t)
        /\ i \in 1 .. Len(t) + 1 /\ j \in i - 1 .. Len(t)
    BY <2>3, <2>4
  <2>6. SubSeq(t, 1, n) \in Texts
    BY <1>1, <2>5, PartLemma
  <2>7. SubSeq(t, i, j) \in Texts
    BY <1>1, <2>5, PartLemma
  <2> QED
    BY <2>2, <2>4, <2>6, <2>7
<1>2. ASSUME NEW t \in Texts PROVE Substr(t, 1, NPos) \in Texts
  <2>1. CASE t = <<>>
    BY <1>2, <2>1, NothingBehind
  <2>2. CASE t # <<>>
    <3>1. Len(t) \in Nat /\ Len(t) # 0
      BY <1>2, <2>2, LenProperties, EmptySeq DEF Texts
    <3>2. 1 \in 0 .. Len(t) /\ NPos \in Nat
      BY <3>1, NPosIsInt, CommandLineAssumption DEF NPos
    <3> QED
      BY <1>2, <3>2, SubstrPart
  <2> QED
    BY <2>1, <2>2
<1>3. PICK tail : tail = Substr(From(s, "sp"), 1, NPos)
  OBVIOUS
<1>4. tail \in Texts
  BY <1>1, <1>2, <1>3
<1>5. ModeFields(s).mode = Before(tail, "sp")
  BY <1>3 DEF ModeFields
<1> QED
  BY <1>1, <1>4, <1>5

\* The groups of a mode string leave every letter of a channel as the string
\* does from left to right.
THEOREM ModesAreTaken == ParsingSpec => []ModesAreRead
<1>1. TextInv => ModesAreRead
  <2> SUFFICES ASSUME TextInv, NEW mode, mode = ModeFields(text).mode,
                      mode # <<>>, mode[1] \in Signs
               PROVE  Final(Changes(mode))
                        = {c \in Reading(mode) : c.letter \in {"o", "t", "s", "k"}}
    BY DEF ModesAreRead
  <2>1. mode \in Texts
    BY ModeIsText DEF TextInv
  <2>2. {c \in Reading(mode) : c.letter \in {"o", "t", "s", "k"}} = ReadUpTo(mode, Len(mode))
    <3>1. ModeLetters \cap Signs = {}
      BY DEF ModeLetters, Signs
    <3> QED
      BY <3>1 DEF Reading, ReadUpTo, ModeLetters
  <2> QED
    BY <2>1, <2>2, ChangesAre
<1> QED
  BY <1>1, TextInvHolds, PTL
=============================================================================
