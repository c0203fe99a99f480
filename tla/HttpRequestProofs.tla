--------------------------- MODULE HttpRequestProofs ---------------------------
(***************************************************************************)
(* Proofs about HttpRequestParser and HttpRequest, for all texts: just the *)
(* requests are accepted, each is the text that was read, and its          *)
(* parameters are what the text of its URI says.                           *)
(***************************************************************************)
EXTENDS HttpRequest, SequenceTheorems, WellFoundedInduction, TLAPS

-------------------------------------------------------------------------------
(* Induction, from the library's well-foundedness of the naturals.         *)

\* A set of naturals that is not empty has a least element.
LEMMA LeastNatural ==
  ASSUME NEW T, T \subseteq Nat, T # {}
  PROVE  \E n \in T : \A m \in T : n <= m
<1> DEFINE R == OpToRel(<, Nat)
<1>1. IsWellFoundedOn(R, Nat)
  BY NatLessThanWellFounded
<1>2. \A x, y \in Nat : x < y => <<x, y>> \in R
  BY DEF OpToRel
<1> HIDE DEF R
<1>3. PICK n \in T : \A y \in T : <<y, n>> \notin R
  BY <1>1, WFMin
<1>4. \A m \in T : ~(m < n)
  BY <1>2, <1>3
<1>5. \A m \in T : m \in Nat /\ n \in Nat
  OBVIOUS
<1>6. \A m \in T : n <= m
  BY <1>4, <1>5
<1>7. QED
  BY <1>6

\* A set with zero and the successor of each of its naturals has them all.
LEMMA Induction ==
  ASSUME NEW T, 0 \in T, \A n \in Nat : n \in T => n + 1 \in T
  PROVE  \A n \in Nat : n \in T
<1> SUFFICES ASSUME Nat \ T # {} PROVE FALSE
  OBVIOUS
<1>1. PICK n \in Nat \ T : \A m \in Nat \ T : n <= m
  BY LeastNatural
<1>2. n # 0 /\ n - 1 \in Nat /\ n - 1 \in T
  BY <1>1
<1>3. QED
  BY <1>1, <1>2

-------------------------------------------------------------------------------
(* Texts that grow at their end.                                           *)

\* A character added at the end, in one sequence or in the last of two.
LEMMA AppendLast ==
  ASSUME NEW S, NEW s \in Seq(S), NEW t \in Seq(S), NEW c \in S
  PROVE  /\ Append(s \o t, c) = s \o Append(t, c)
         /\ Append(s, c) = s \o <<c>>
<1>1. <<c>> \in Seq(S) /\ s \o t \in Seq(S)
  BY ConcatProperties
<1>2. Append(s \o t, c) = (s \o t) \o <<c>>
  BY <1>1, AppendIsConcat
<1>3. (s \o t) \o <<c>> = s \o (t \o <<c>>)
  BY <1>1, ConcatAssociative
<1>4. Append(t, c) = t \o <<c>> /\ Append(s, c) = s \o <<c>>
  BY AppendIsConcat
<1>5. QED
  BY <1>2, <1>3, <1>4

\* The functions behind HeadersText, up to any number of headers.
LinesBy(g, headers, n) ==
  g = [i \in 0 .. n |-> IF i = 0 THEN <<>> ELSE g[i - 1] \o HeaderText(headers[i])]

\* The function that HeadersText is defined by exists.
LEMMA LinesByExists ==
  ASSUME NEW headers
  PROVE  \A n \in Nat : \E g : LinesBy(g, headers, n)
<1> DEFINE T == {n \in Nat : \E g : LinesBy(g, headers, n)}
<1>1. 0 \in T
  <2>1. LinesBy([i \in 0 .. 0 |-> <<>>], headers, 0)
    BY DEF LinesBy
  <2>2. QED
    BY <2>1
<1>2. ASSUME NEW n \in Nat, n \in T
      PROVE  n + 1 \in T
  <2>1. PICK g : LinesBy(g, headers, n)
    BY <1>2
  <2> DEFINE h == [i \in 0 .. n + 1 |-> IF i <= n THEN g[i]
                                                  ELSE g[n] \o HeaderText(headers[n + 1])]
  <2>2. \A i \in 0 .. n : g[i] = IF i = 0 THEN <<>> ELSE g[i - 1] \o HeaderText(headers[i])
    BY <2>1 DEF LinesBy
  <2>3. ASSUME NEW i \in 0 .. n + 1
        PROVE  h[i] = IF i = 0 THEN <<>> ELSE h[i - 1] \o HeaderText(headers[i])
    <3>1. CASE i <= n
      BY <2>2, <3>1
    <3>2. CASE i = n + 1
      BY <3>2
    <3>3. QED
      BY <3>1, <3>2
  <2>4. h = [i \in 0 .. n + 1 |-> h[i]]
    OBVIOUS
  <2> HIDE DEF h
  <2>5. LinesBy(h, headers, n + 1)
    BY <2>3, <2>4 DEF LinesBy
  <2>6. QED
    BY <2>5
<1> HIDE DEF T
<1>3. \A n \in Nat : n \in T
  BY <1>1, <1>2, Induction
<1>4. QED
  BY <1>3 DEF T

\* HeadersText is the value of that function at its last index.
LEMMA HeadersTextIs ==
  ASSUME NEW headers, Len(headers) \in Nat
  PROVE  \E g : LinesBy(g, headers, Len(headers)) /\ HeadersText(headers) = g[Len(headers)]
<1> DEFINE g == CHOOSE g : LinesBy(g, headers, Len(headers))
<1>1. LinesBy(g, headers, Len(headers))
  BY LinesByExists
<1>2. HeadersText(headers) = g[Len(headers)]
  BY DEF HeadersText, LinesBy
<1>3. QED
  BY <1>1, <1>2

\* What the parser keeps of a header.
Header == [name : Seq(Chars), value : Seq(Chars)]

\* The text of headers takes them one by one.
LEMMA HeadersTextAppend ==
  /\ HeadersText(<<>>) = <<>>
  /\ \A headers \in Seq(Header), x \in Header :
       HeadersText(Append(headers, x)) = HeadersText(headers) \o HeaderText(x)
<1>1. HeadersText(<<>>) = <<>>
  <2>1. PICK e, z : e = <<>> /\ z = 0
    OBVIOUS
  <2>2. Len(e) = z /\ z \in Nat
    BY <2>1
  <2>3. PICK g : LinesBy(g, e, z) /\ HeadersText(e) = g[z]
    BY <2>2, HeadersTextIs
  <2>4. \A i \in 0 .. z : g[i] = IF i = 0 THEN <<>> ELSE g[i - 1] \o HeaderText(e[i])
    BY <2>3 DEF LinesBy
  <2>5. z \in 0 .. z
    BY <2>1
  <2>6. g[z] = <<>>
    BY <2>1, <2>4, <2>5
  <2>7. QED
    BY <2>1, <2>3, <2>6
<1>2. ASSUME NEW headers \in Seq(Header), NEW x \in Header
      PROVE  HeadersText(Append(headers, x)) = HeadersText(headers) \o HeaderText(x)
  <2>1. PICK more, n : more = Append(headers, x) /\ n = Len(headers)
    OBVIOUS
  <2>2. /\ n \in Nat /\ Len(more) = n + 1 /\ more[n + 1] = x
        /\ \A i \in 1 .. n : more[i] = headers[i]
    BY <2>1, AppendProperties, LenProperties
  <2>3. PICK g : LinesBy(g, headers, n) /\ HeadersText(headers) = g[n]
    BY <2>1, <2>2, HeadersTextIs
  <2>4. PICK h : LinesBy(h, more, n + 1) /\ HeadersText(more) = h[n + 1]
    BY <2>2, HeadersTextIs
  <2>5. \A i \in 0 .. n : g[i] = IF i = 0 THEN <<>> ELSE g[i - 1] \o HeaderText(headers[i])
    BY <2>3 DEF LinesBy
  <2>6. \A i \in 0 .. n + 1 : h[i] = IF i = 0 THEN <<>> ELSE h[i - 1] \o HeaderText(more[i])
    BY <2>4 DEF LinesBy
  <2> DEFINE T == {i \in Nat : i <= n => g[i] = h[i]}
  <2>7. 0 \in T
    BY <2>2, <2>5, <2>6
  <2>8. ASSUME NEW i \in Nat, i \in T
        PROVE  i + 1 \in T
    <3> SUFFICES ASSUME i + 1 <= n PROVE g[i + 1] = h[i + 1]
      OBVIOUS
    <3>1. i + 1 \in 1 .. n /\ i + 1 \in 0 .. n /\ i + 1 \in 0 .. n + 1 /\ i + 1 # 0
          /\ i + 1 - 1 = i /\ i <= n
      BY <2>2
    <3>2. g[i] = h[i] /\ more[i + 1] = headers[i + 1]
      BY <2>2, <2>8, <3>1
    <3>3. QED
      BY <2>5, <2>6, <3>1, <3>2
  <2> HIDE DEF T
  <2>9. \A i \in Nat : i \in T
    BY <2>7, <2>8, Induction
  <2>10. g[n] = h[n]
    BY <2>2, <2>9 DEF T
  <2>11. h[n + 1] = h[n] \o HeaderText(x)
    <3>1. PICK m : m = n + 1
      OBVIOUS
    <3>2. m \in 0 .. n + 1 /\ m # 0 /\ m - 1 = n /\ more[m] = x
      BY <2>2, <3>1
    <3>3. h[m] = h[m - 1] \o HeaderText(more[m])
      BY <2>6, <3>2
    <3>4. QED
      BY <3>1, <3>2, <3>3
  <2>12. QED
    BY <2>1, <2>3, <2>4, <2>10, <2>11
<1>3. QED
  BY <1>1, <1>2

-------------------------------------------------------------------------------
(* Folds.                                                                  *)

\* The text u begins with t, which has n characters.
Extends(u, t, n) ==
  /\ n \in Nat /\ n = Len(t) /\ Len(u) \in Nat /\ n <= Len(u)
  /\ \A j \in 1 .. n : u[j] = t[j]

\* An append is an extension.
LEMMA AppendExtends ==
  ASSUME NEW t \in Seq(Chars), NEW c \in Chars
  PROVE  Extends(Append(t, c), t, Len(t))
<1>1. PICK u, n : u = Append(t, c) /\ n = Len(t)
  OBVIOUS
<1>2. n \in Nat /\ Len(u) = n + 1 /\ \A j \in 1 .. n : u[j] = t[j]
  BY <1>1, AppendProperties, LenProperties
<1>3. Extends(u, t, n)
  BY <1>1, <1>2 DEF Extends
<1>4. QED
  BY <1>1, <1>3

\* Which line breaks continue a line does not change when more is read.
LEMMA ContinuesExtends ==
  ASSUME NEW t, NEW u, NEW n, Extends(u, t, n), NEW h \in Nat, h >= 1
  PROVE  /\ Continues(t, h) => h + 2 <= n /\ Continues(u, h)
         /\ h + 2 <= n /\ Continues(u, h) => Continues(t, h)
<1>1. h + 2 <= n => h \in 1 .. n /\ h + 1 \in 1 .. n /\ h + 2 \in 1 .. n
  BY DEF Extends
<1>2. h + 2 <= n => u[h] = t[h] /\ u[h + 1] = t[h + 1] /\ u[h + 2] = t[h + 2]
  BY <1>1 DEF Extends
<1>3. QED
  BY <1>2 DEF Extends, Continues

\* Nor does what is in a value, but for the last two characters.
LEMMA InValueExtends ==
  ASSUME NEW t, NEW u, NEW n, Extends(u, t, n), NEW i \in Nat
  PROVE  /\ i <= n + 1 /\ InValue(t, i) => InValue(u, i)
         /\ i <= n - 1 /\ InValue(u, i) => InValue(t, i)
<1>1. ASSUME i <= n + 1, InValue(t, i)
      PROVE  InValue(u, i)
  <2>1. PICK g \in 1 .. i - 1 : \E j \in g + 1 .. i - 2 :
               /\ t[g] = "cr" /\ t[j] = ":" /\ t[j + 1] = "sp"
               /\ \A h \in g + 1 .. i - 1 : t[h] = "cr" => Continues(t, h)
    BY <1>1 DEF InValue
  <2>2. PICK j \in g + 1 .. i - 2 :
               /\ t[g] = "cr" /\ t[j] = ":" /\ t[j + 1] = "sp"
               /\ \A h \in g + 1 .. i - 1 : t[h] = "cr" => Continues(t, h)
    BY <2>1
  <2>3. g \in 1 .. n /\ j \in 1 .. n /\ j + 1 \in 1 .. n
    BY <1>1, <2>1, <2>2 DEF Extends
  <2>4. u[g] = "cr" /\ u[j] = ":" /\ u[j + 1] = "sp"
    BY <2>2, <2>3 DEF Extends
  <2>5. ASSUME NEW h \in g + 1 .. i - 1, u[h] = "cr" PROVE Continues(u, h)
    <3>1. h \in Nat /\ h >= 1 /\ h \in 1 .. n
      BY <1>1, <2>1 DEF Extends
    <3>2. t[h] = "cr"
      BY <2>5, <3>1 DEF Extends
    <3>3. Continues(t, h)
      BY <2>2, <3>2
    <3>4. QED
      BY <3>1, <3>3, ContinuesExtends
  <2>6. QED
    BY <2>1, <2>2, <2>4, <2>5 DEF InValue
<1>2. ASSUME i <= n - 1, InValue(u, i)
      PROVE  InValue(t, i)
  <2>1. PICK g \in 1 .. i - 1 : \E j \in g + 1 .. i - 2 :
               /\ u[g] = "cr" /\ u[j] = ":" /\ u[j + 1] = "sp"
               /\ \A h \in g + 1 .. i - 1 : u[h] = "cr" => Continues(u, h)
    BY <1>2 DEF InValue
  <2>2. PICK j \in g + 1 .. i - 2 :
               /\ u[g] = "cr" /\ u[j] = ":" /\ u[j + 1] = "sp"
               /\ \A h \in g + 1 .. i - 1 : u[h] = "cr" => Continues(u, h)
    BY <2>1
  <2>3. g \in 1 .. n /\ j \in 1 .. n /\ j + 1 \in 1 .. n
    BY <1>2, <2>1, <2>2 DEF Extends
  <2>4. t[g] = "cr" /\ t[j] = ":" /\ t[j + 1] = "sp"
    BY <2>2, <2>3 DEF Extends
  <2>5. ASSUME NEW h \in g + 1 .. i - 1, t[h] = "cr" PROVE Continues(t, h)
    <3>1. h \in Nat /\ h >= 1 /\ h \in 1 .. n /\ h + 2 <= n
      BY <1>2, <2>1 DEF Extends
    <3>2. u[h] = "cr"
      BY <2>5, <3>1 DEF Extends
    <3>3. Continues(u, h)
      BY <2>2, <3>2
    <3>4. QED
      BY <3>1, <3>3, ContinuesExtends
  <2>6. QED
    BY <2>1, <2>2, <2>4, <2>5 DEF InValue
<1>3. QED
  BY <1>1, <1>2

\* Nor do folds.
LEMMA FoldExtends ==
  ASSUME NEW t, NEW u, NEW n, Extends(u, t, n), NEW f \in Nat, f >= 1
  PROVE  /\ Fold(t, f) => f + 2 <= n /\ Fold(u, f)
         /\ f + 2 <= n /\ Fold(u, f) => Fold(t, f)
<1>1. ASSUME Fold(t, f) PROVE f + 2 <= n /\ Fold(u, f)
  <2>1. f + 2 <= n /\ Continues(u, f)
    BY <1>1, ContinuesExtends DEF Fold
  <2>2. f <= n + 1 /\ InValue(t, f)
    BY <1>1, <2>1 DEF Extends, Fold
  <2>3. QED
    BY <2>1, <2>2, InValueExtends DEF Fold
<1>2. ASSUME f + 2 <= n, Fold(u, f) PROVE Fold(t, f)
  <2>1. Continues(t, f)
    BY <1>2, ContinuesExtends DEF Fold
  <2>2. f <= n - 1 /\ InValue(u, f)
    BY <1>2 DEF Extends, Fold
  <2>3. QED
    BY <2>1, <2>2, InValueExtends DEF Fold
<1>3. QED
  BY <1>1, <1>2

\* A character at the end changes what is in a fold only if it completes one.
LEMMA InFoldAppend ==
  ASSUME NEW t \in Seq(Chars), NEW c \in Chars, NEW n, n = Len(t),
         NEW u, u = Append(t, c), NEW i \in 1 .. n
  PROVE  InFold(u, i) <=> InFold(t, i) \/ (Fold(u, n - 1) /\ i >= n - 1)
<1>1. n \in Nat /\ Len(u) = n + 1 /\ \A j \in 1 .. n : u[j] = t[j]
  BY AppendProperties, LenProperties
<1>2. ASSUME NEW f \in Nat, f >= 1, f + 2 <= n
      PROVE  Fold(u, f) <=> Fold(t, f)
  <2>1. Extends(u, t, n)
    BY AppendExtends
  <2>2. QED
    BY <1>2, <2>1, FoldExtends
<1>3. ASSUME InFold(t, i)
      PROVE  InFold(u, i)
  <2>1. PICK f \in 1 .. i : Fold(t, f) /\ \A j \in f + 2 .. i : t[j] \in Lws
    BY <1>3 DEF InFold
  <2>2. f \in Nat /\ f >= 1 /\ f + 2 <= n
    BY <1>1, <2>1 DEF Fold, Continues
  <2>3. Fold(u, f)
    BY <1>2, <2>1, <2>2
  <2>4. \A j \in f + 2 .. i : u[j] = t[j]
    BY <1>1, <2>2
  <2>5. QED
    BY <2>1, <2>3, <2>4 DEF InFold
<1>4. ASSUME Fold(u, n - 1), i >= n - 1
      PROVE  InFold(u, i)
  <2>1. PICK g \in 1 .. n - 1 - 1 : TRUE
    BY <1>4 DEF Fold, InValue
  <2>2. n - 1 \in 1 .. i /\ ~\E j \in Int : j \in n - 1 + 2 .. i
    BY <1>1, <1>4, <2>1
  <2>3. \A j \in n - 1 + 2 .. i : u[j] \in Lws
    BY <1>1, <2>2
  <2>4. QED
    BY <1>4, <2>2, <2>3 DEF InFold
<1>5. ASSUME InFold(u, i)
      PROVE  InFold(t, i) \/ (Fold(u, n - 1) /\ i >= n - 1)
  <2>1. PICK f \in 1 .. i : Fold(u, f) /\ \A j \in f + 2 .. i : u[j] \in Lws
    BY <1>5 DEF InFold
  <2>2. f \in Nat /\ f >= 1 /\ f + 2 <= n + 1
    BY <1>1, <2>1 DEF Fold, Continues
  <2>3. CASE f + 2 <= n
    <3>1. Fold(t, f)
      BY <1>2, <2>1, <2>2, <2>3
    <3>2. \A j \in f + 2 .. i : u[j] = t[j]
      BY <1>1, <2>2
    <3>3. QED
      BY <2>1, <3>1, <3>2 DEF InFold
  <2>4. CASE f = n - 1
    BY <2>1, <2>4
  <2>5. QED
    BY <1>1, <2>2, <2>3, <2>4
<1>6. QED
  BY <1>3, <1>4, <1>5

\* It is in a fold itself if it is white space and goes on with one.
LEMMA LastInFold ==
  ASSUME NEW t \in Seq(Chars), NEW c \in Chars, NEW n, n = Len(t),
         NEW u, u = Append(t, c)
  PROVE  InFold(u, n + 1) <=> c \in Lws /\ ((n > 0 /\ InFold(t, n)) \/ (n > 1 /\ Fold(u, n - 1)))
<1>1. n \in Nat /\ Len(u) = n + 1 /\ (\A j \in 1 .. n : u[j] = t[j]) /\ u[n + 1] = c
  BY AppendProperties, LenProperties
<1>2. ASSUME NEW f \in Nat, f >= 1, f + 2 <= n
      PROVE  Fold(u, f) <=> Fold(t, f)
  <2>1. Extends(u, t, n)
    BY AppendExtends
  <2>2. QED
    BY <1>2, <2>1, FoldExtends
<1>3. ASSUME c \in Lws, n > 0, InFold(t, n)
      PROVE  InFold(u, n + 1)
  <2>1. PICK f \in 1 .. n : Fold(t, f) /\ \A j \in f + 2 .. n : t[j] \in Lws
    BY <1>3 DEF InFold
  <2>2. f \in Nat /\ f >= 1 /\ f + 2 <= n /\ f \in 1 .. n + 1
    BY <1>1, <2>1 DEF Fold, Continues
  <2>3. Fold(u, f)
    BY <1>2, <2>1, <2>2
  <2>4. ASSUME NEW j \in f + 2 .. n + 1 PROVE u[j] \in Lws
    <3>1. (j \in f + 2 .. n /\ j \in 1 .. n) \/ j = n + 1
      BY <1>1, <2>2
    <3>2. QED
      BY <1>1, <1>3, <2>1, <3>1
  <2>5. QED
    BY <2>2, <2>3, <2>4 DEF InFold
<1>4. ASSUME n > 1, Fold(u, n - 1)
      PROVE  InFold(u, n + 1)
  <2>1. n - 1 + 2 = n + 1 /\ n - 1 \in 1 .. n + 1
    BY <1>1, <1>4
  <2>2. u[n + 1] \in Lws
    BY <1>4, <2>1 DEF Fold, Continues
  <2>3. \A j \in n - 1 + 2 .. n + 1 : j = n + 1
    BY <1>1, <2>1
  <2>4. QED
    BY <1>4, <2>1, <2>2, <2>3 DEF InFold
<1>5. ASSUME InFold(u, n + 1)
      PROVE  c \in Lws /\ ((n > 0 /\ InFold(t, n)) \/ (n > 1 /\ Fold(u, n - 1)))
  <2>1. PICK f \in 1 .. n + 1 : Fold(u, f) /\ \A j \in f + 2 .. n + 1 : u[j] \in Lws
    BY <1>5 DEF InFold
  <2>2. f \in Nat /\ f >= 1 /\ f + 2 <= n + 1 /\ n + 1 \in f + 2 .. n + 1
    BY <1>1, <2>1 DEF Fold, Continues
  <2>3. c \in Lws
    BY <1>1, <2>1, <2>2
  <2>4. CASE f + 2 <= n
    <3>1. Fold(t, f) /\ f \in 1 .. n
      BY <1>1, <1>2, <2>1, <2>2, <2>4
    <3>2. \A j \in f + 2 .. n : u[j] = t[j] /\ j \in f + 2 .. n + 1
      BY <1>1, <2>2
    <3>3. InFold(t, n)
      BY <2>1, <3>1, <3>2 DEF InFold
    <3>4. QED
      BY <1>1, <2>2, <2>3, <2>4, <3>3
  <2>5. CASE f = n - 1
    BY <1>1, <2>1, <2>2, <2>3, <2>5
  <2>6. QED
    BY <1>1, <2>2, <2>4, <2>5
<1>6. QED
  BY <1>3, <1>4, <1>5

\* The functions behind Unfold, up to any number of characters.
KeptBy(g, t, n) == g = [i \in 0 .. n |-> IF i = 0 THEN <<>> ELSE Keep(g[i - 1], t, i)]

\* The function that Unfold is defined by exists.
LEMMA KeptByExists ==
  ASSUME NEW t
  PROVE  \A n \in Nat : \E g : KeptBy(g, t, n)
<1> DEFINE T == {n \in Nat : \E g : KeptBy(g, t, n)}
<1>1. 0 \in T
  <2>1. KeptBy([i \in 0 .. 0 |-> <<>>], t, 0)
    BY DEF KeptBy
  <2>2. QED
    BY <2>1
<1>2. ASSUME NEW n \in Nat, n \in T
      PROVE  n + 1 \in T
  <2>1. PICK g : KeptBy(g, t, n)
    BY <1>2
  <2> DEFINE h == [i \in 0 .. n + 1 |-> IF i <= n THEN g[i] ELSE Keep(g[n], t, n + 1)]
  <2>2. \A i \in 0 .. n : g[i] = IF i = 0 THEN <<>> ELSE Keep(g[i - 1], t, i)
    BY <2>1 DEF KeptBy
  <2>3. ASSUME NEW i \in 0 .. n + 1
        PROVE  h[i] = IF i = 0 THEN <<>> ELSE Keep(h[i - 1], t, i)
    <3>1. CASE i <= n
      BY <2>2, <3>1
    <3>2. CASE i = n + 1
      BY <3>2
    <3>3. QED
      BY <3>1, <3>2
  <2>4. h = [i \in 0 .. n + 1 |-> h[i]]
    OBVIOUS
  <2> HIDE DEF h
  <2>5. KeptBy(h, t, n + 1)
    BY <2>3, <2>4 DEF KeptBy
  <2>6. QED
    BY <2>5
<1> HIDE DEF T
<1>3. \A n \in Nat : n \in T
  BY <1>1, <1>2, Induction
<1>4. QED
  BY <1>3 DEF T

\* Unfold is the value of that function at the last character.
LEMMA UnfoldIs ==
  ASSUME NEW t, Len(t) \in Nat
  PROVE  \E g : KeptBy(g, t, Len(t)) /\ Unfold(t) = g[Len(t)]
<1> DEFINE g == CHOOSE g : KeptBy(g, t, Len(t))
<1>1. KeptBy(g, t, Len(t))
  BY KeptByExists
<1>2. Unfold(t) = g[Len(t)]
  BY DEF Unfold, KeptBy
<1>3. QED
  BY <1>1, <1>2

\* Two texts are the same, folds included, for m characters.
SameFolds(t, u, m) == \A i \in 1 .. m : u[i] = t[i] /\ (InFold(u, i) <=> InFold(t, i))

\* What is kept of two texts agrees as long as they and their folds do.
LEMMA KeptAgrees ==
  ASSUME NEW t \in Seq(Chars), NEW u, NEW m \in Nat, SameFolds(t, u, m)
  PROVE  \A n, k \in Nat : \A g, h :
           m <= n /\ m <= k /\ n <= Len(t) /\ KeptBy(g, t, n) /\ KeptBy(h, u, k) =>
             \A i \in 0 .. m : g[i] = h[i] /\ g[i] \in Seq(Chars)
<1> SUFFICES ASSUME NEW n \in Nat, NEW k \in Nat, NEW g, NEW h,
                    m <= n, m <= k, n <= Len(t), KeptBy(g, t, n), KeptBy(h, u, k)
             PROVE  \A i \in 0 .. m : g[i] = h[i] /\ g[i] \in Seq(Chars)
  OBVIOUS
<1>1. \A i \in 0 .. n : g[i] = IF i = 0 THEN <<>> ELSE Keep(g[i - 1], t, i)
  BY DEF KeptBy
<1>2. \A i \in 0 .. k : h[i] = IF i = 0 THEN <<>> ELSE Keep(h[i - 1], u, i)
  BY DEF KeptBy
<1> DEFINE T == {i \in Nat : i <= m => g[i] = h[i] /\ g[i] \in Seq(Chars)}
<1>3. 0 \in T
  <2>1. 0 \in 0 .. n /\ 0 \in 0 .. k /\ <<>> \in Seq(Chars)
    BY EmptySeq
  <2>2. QED
    BY <1>1, <1>2, <2>1
<1>4. ASSUME NEW i \in Nat, i \in T
      PROVE  i + 1 \in T
  <2> SUFFICES ASSUME i + 1 <= m PROVE g[i + 1] = h[i + 1] /\ g[i + 1] \in Seq(Chars)
    OBVIOUS
  <2>1. PICK j : j = i + 1
    OBVIOUS
  <2>2. /\ j \in 1 .. m /\ j \in 0 .. n /\ j \in 0 .. k /\ j # 0 /\ j - 1 = i /\ i <= m
        /\ j \in 1 .. Len(t)
    <3>1. Len(t) \in Nat
      BY LenProperties
    <3>2. QED
      BY <2>1, <3>1
  <2>3. g[i] = h[i] /\ g[i] \in Seq(Chars)
    BY <1>4, <2>2
  <2>4. g[j] = Keep(g[i], t, j) /\ h[j] = Keep(h[i], u, j)
    BY <1>1, <1>2, <2>2
  <2>5. t[j] \in Chars
    BY <2>2, ElementOfSeq
  <2>6. Keep(g[i], t, j) = Keep(h[i], u, j)
    BY <2>2, <2>3 DEF Keep, SameFolds
  <2>7. Keep(g[i], t, j) \in Seq(Chars)
    BY <2>3, <2>5, AppendProperties DEF Keep
  <2>8. QED
    BY <2>1, <2>4, <2>6, <2>7
<1> HIDE DEF T
<1>5. \A i \in Nat : i \in T
  BY <1>3, <1>4, Induction
<1>6. QED
  BY <1>5 DEF T

\* A text without its folds is a text.
LEMMA UnfoldType ==
  ASSUME NEW t \in Seq(Chars)
  PROVE  Unfold(t) \in Seq(Chars)
<1>1. PICK n \in Nat : n = Len(t)
  BY LenProperties
<1>2. PICK g : KeptBy(g, t, n) /\ Unfold(t) = g[n]
  BY <1>1, UnfoldIs
<1>3. \A i \in 0 .. n : g[i] \in Seq(Chars)
  <2>1. SameFolds(t, t, n)
    BY DEF SameFolds
  <2>2. n <= n /\ n <= Len(t)
    BY <1>1
  <2>3. \A k, l \in Nat : \A a, b :
          n <= k /\ n <= l /\ k <= Len(t) /\ KeptBy(a, t, k) /\ KeptBy(b, t, l) =>
            \A i \in 0 .. n : a[i] = b[i] /\ a[i] \in Seq(Chars)
    BY <2>1, KeptAgrees
  <2>4. QED
    BY <1>2, <2>2, <2>3
<1>4. QED
  BY <1>2, <1>3

\* A character that completes no fold is kept, or is white space of the last fold.
LEMMA UnfoldAppend ==
  ASSUME NEW t \in Seq(Chars), NEW c \in Chars, NEW n, n = Len(t),
         NEW u, u = Append(t, c), ~(n > 1 /\ Fold(u, n - 1))
  PROVE  Unfold(u) = IF c \in Lws /\ n > 0 /\ InFold(t, n) THEN Unfold(t) ELSE Append(Unfold(t), c)
<1>1. n \in Nat /\ Len(u) = n + 1 /\ (\A j \in 1 .. n : u[j] = t[j]) /\ u[n + 1] = c
  BY AppendProperties, LenProperties
<1>2. PICK g : KeptBy(g, t, n) /\ Unfold(t) = g[n]
  BY <1>1, UnfoldIs
<1>3. PICK k \in Nat : k = n + 1
  BY <1>1
<1>4. PICK h : KeptBy(h, u, k) /\ Unfold(u) = h[k]
  BY <1>1, <1>3, UnfoldIs
<1>5. ASSUME NEW i \in 1 .. n PROVE InFold(u, i) <=> InFold(t, i)
  <2>1. ~Fold(u, n - 1)
    <3>1. ASSUME Fold(u, n - 1) PROVE n > 1
      BY <1>1, <3>1 DEF Fold, Continues, InValue
    <3>2. QED
      BY <3>1
  <2>2. QED
    BY <2>1, InFoldAppend
<1>6. g[n] = h[n]
  <2>1. n <= n /\ n <= k /\ n <= Len(t)
    BY <1>1, <1>3
  <2>2. n \in Nat /\ SameFolds(t, u, n)
    BY <1>1, <1>5 DEF SameFolds
  <2>3. \A j, l \in Nat : \A a, b :
          n <= j /\ n <= l /\ j <= Len(t) /\ KeptBy(a, t, j) /\ KeptBy(b, u, l) =>
            \A i \in 0 .. n : a[i] = b[i] /\ a[i] \in Seq(Chars)
    BY <2>2, KeptAgrees
  <2>4. \A i \in 0 .. n : g[i] = h[i]
    BY <1>2, <1>4, <2>1, <2>2, <2>3
  <2>5. QED
    BY <1>1, <2>4
<1>7. h[k] = Keep(h[n], u, k)
  <2>1. k \in 0 .. k /\ k # 0 /\ k - 1 = n
    BY <1>1, <1>3
  <2>2. QED
    BY <1>4, <2>1 DEF KeptBy
<1>8. InFold(u, k) <=> c \in Lws /\ n > 0 /\ InFold(t, n)
  BY <1>3, LastInFold
<1>9. QED
  BY <1>1, <1>2, <1>3, <1>4, <1>6, <1>7, <1>8 DEF Keep

\* A character that completes a fold takes the line break back.
LEMMA UnfoldFold ==
  ASSUME NEW t \in Seq(Chars), NEW c \in Chars, NEW n, n = Len(t),
         NEW u, u = Append(t, c), n > 1, Fold(u, n - 1)
  PROVE  /\ Unfold(u) \in Seq(Chars)
         /\ Unfold(t) = Append(Append(Unfold(u), "cr"), "lf")
<1>1. n \in Nat /\ Len(u) = n + 1 /\ (\A j \in 1 .. n : u[j] = t[j]) /\ u[n + 1] = c
  BY AppendProperties, LenProperties
<1>2. PICK g : KeptBy(g, t, n) /\ Unfold(t) = g[n]
  BY <1>1, UnfoldIs
<1>3. PICK k \in Nat : k = n + 1
  BY <1>1
<1>4. PICK h : KeptBy(h, u, k) /\ Unfold(u) = h[k]
  BY <1>1, <1>3, UnfoldIs
<1>5. PICK l \in Nat, m \in Nat : l = n - 1 /\ m = n - 2
  BY <1>1
<1>6. /\ n - 1 = l /\ l - 1 = m /\ k - 1 = n /\ m <= n /\ m <= k /\ n <= Len(t)
      /\ l \in 1 .. n /\ n \in 1 .. n /\ l + 1 = n /\ l + 2 = k
      /\ l \in 0 .. n /\ n \in 0 .. n /\ l \in 0 .. k /\ n \in 0 .. k /\ k \in 0 .. k
      /\ l # 0 /\ n # 0 /\ k # 0 /\ m \in 0 .. m
  BY <1>1, <1>3, <1>5
<1>7. t[l] = "cr" /\ t[n] = "lf" /\ c \in Lws
  <2>1. u[l] = "cr" /\ u[l + 1] = "lf" /\ u[l + 2] \in Lws
    BY <1>6 DEF Fold, Continues
  <2>2. QED
    BY <1>1, <1>3, <1>6, <2>1
<1>8. "cr" \notin Lws /\ "lf" \notin Lws
  BY DEF Lws
<1>9. ASSUME NEW i \in {l, n} PROVE ~InFold(t, i)
  <2> SUFFICES ASSUME InFold(t, i) PROVE FALSE
    OBVIOUS
  <2>1. PICK f \in 1 .. i : Fold(t, f) /\ \A j \in f + 2 .. i : t[j] \in Lws
    BY DEF InFold
  <2>2. f + 2 <= n /\ t[f + 2] \in Lws
    BY <2>1 DEF Fold, Continues
  <2>3. CASE f + 2 <= i
    <3>1. i \in f + 2 .. i
      BY <1>6, <2>1, <2>3
    <3>2. QED
      BY <1>7, <1>8, <2>1, <3>1
  <2>4. CASE ~(f + 2 <= i)
    <3>1. i \in Nat /\ f \in Nat
      BY <1>6, <2>1
    <3>2. f + 2 = n
      BY <1>6, <2>1, <2>2, <2>4, <3>1
    <3>3. QED
      BY <1>7, <1>8, <2>2, <3>2
  <2>5. QED
    BY <2>3, <2>4
<1>10. InFold(u, l) /\ InFold(u, n) /\ InFold(u, k)
  <2>1. l >= n - 1 /\ n >= n - 1
    BY <1>1, <1>6
  <2>2. InFold(u, l)
    BY <1>6, <2>1, InFoldAppend
  <2>3. InFold(u, n)
    BY <1>6, <2>1, InFoldAppend
  <2>4. InFold(u, n + 1)
    BY <1>7, LastInFold
  <2>5. QED
    BY <1>3, <2>2, <2>3, <2>4
<1>11. g[m] = h[m] /\ g[m] \in Seq(Chars)
  <2>1. ASSUME NEW i \in 1 .. m PROVE u[i] = t[i] /\ (InFold(u, i) <=> InFold(t, i))
    <3>1. i \in 1 .. n /\ ~(i >= n - 1)
      BY <1>1, <1>5
    <3>2. InFold(u, i) <=> InFold(t, i)
      BY <3>1, InFoldAppend
    <3>3. QED
      BY <1>1, <3>1, <3>2
  <2>2. SameFolds(t, u, m)
    BY <2>1 DEF SameFolds
  <2>3. \A j, i \in Nat : \A a, b :
          m <= j /\ m <= i /\ j <= Len(t) /\ KeptBy(a, t, j) /\ KeptBy(b, u, i) =>
            \A x \in 0 .. m : a[x] = b[x] /\ a[x] \in Seq(Chars)
    BY <2>2, KeptAgrees
  <2>4. \A i \in 0 .. m : g[i] = h[i] /\ g[i] \in Seq(Chars)
    BY <1>1, <1>2, <1>4, <1>6, <2>3
  <2>5. QED
    BY <1>6, <2>4
<1>12. g[n] = Append(Append(g[m], "cr"), "lf")
  <2>1. g[l] = Keep(g[m], t, l) /\ g[n] = Keep(g[l], t, n)
    BY <1>2, <1>6 DEF KeptBy
  <2>2. QED
    BY <1>7, <1>9, <2>1 DEF Keep
<1>13. h[k] = h[m]
  <2>1. h[l] = Keep(h[m], u, l) /\ h[n] = Keep(h[l], u, n) /\ h[k] = Keep(h[n], u, k)
    BY <1>4, <1>6 DEF KeptBy
  <2>2. QED
    BY <1>10, <2>1 DEF Keep
<1>14. QED
  BY <1>2, <1>4, <1>11, <1>12, <1>13

-------------------------------------------------------------------------------
(* Texts, put together: the provers unfold \o and Append, but not these.   *)

Then(a, b) == a \o b
With(a, c) == Append(a, c)

\* Texts make texts, whatever the order they are put together in.
LEMMA TextType ==
  /\ <<>> \in Seq(Chars)
  /\ \A a, b \in Seq(Chars) : Then(a, b) \in Seq(Chars)
  /\ \A a \in Seq(Chars), c \in Chars : With(a, c) \in Seq(Chars)
<1>1. <<>> \in Seq(Chars)
  BY EmptySeq
<1>2. \A a, b \in Seq(Chars) : Then(a, b) \in Seq(Chars)
  BY ConcatProperties DEF Then
<1>3. \A a \in Seq(Chars), c \in Chars : With(a, c) \in Seq(Chars)
  BY AppendProperties DEF With
<1>4. QED
  BY <1>1, <1>2, <1>3

\* A text and nothing is the text.
LEMMA ThenNothing ==
  \A a \in Seq(Chars) : Then(a, <<>>) = a
BY ConcatEmptySeq DEF Then

\* A text of one character is the character.
LEMMA ThenOne ==
  \A a \in Seq(Chars), c \in Chars : Then(a, <<c>>) = With(a, c)
BY AppendIsConcat DEF Then, With

\* A character added to a text that follows another ends the two.
LEMMA ThenWith ==
  \A a, b \in Seq(Chars), c \in Chars : Then(a, With(b, c)) = With(Then(a, b), c)
BY AppendLast DEF Then, With

\* How texts are bracketed does not matter.
LEMMA ThenThen ==
  \A a, b, c \in Seq(Chars) : Then(a, Then(b, c)) = Then(Then(a, b), c)
BY ConcatAssociative DEF Then

\* Texts with a last character are the same if what comes before it is.
LEMMA WithInjective ==
  \A a, b \in Seq(Chars), c, d \in Chars : With(a, c) = With(b, d) => a = b /\ c = d
BY AppendInjective DEF With

\* A sequence that is another one and one more element.
LEMMA Longer ==
  ASSUME NEW S, NEW s \in Seq(S), NEW t \in Seq(S), NEW c \in S
  PROVE  \A n \in Nat :
           /\ Len(s) = n /\ Len(t) = n + 1
           /\ \A i \in 1 .. n : t[i] = s[i]
           /\ t[n + 1] = c
           => Append(s, c) = t
<1> SUFFICES ASSUME NEW n \in Nat, Len(s) = n, Len(t) = n + 1,
                    \A i \in 1 .. n : t[i] = s[i], t[n + 1] = c
             PROVE  Append(s, c) = t
  OBVIOUS
<1>1. /\ Append(s, c) \in Seq(S) /\ Len(Append(s, c)) = n + 1
      /\ \A i \in 1 .. n : Append(s, c)[i] = s[i]
      /\ Append(s, c)[n + 1] = c
  BY AppendProperties
<1>2. \A i \in 1 .. n + 1 : i \in 1 .. n \/ i = n + 1
  OBVIOUS
<1>3. \A i \in 1 .. Len(Append(s, c)) : Append(s, c)[i] = t[i]
  BY <1>1, <1>2
<1>4. QED
  BY <1>1, <1>3, SeqEqual

\* Short texts, one character after the other.
LEMMA Spellings ==
  /\ Append(<<"sp">>, "H") = <<"sp", "H">>
  /\ Append(<<"sp", "H">>, "T") = <<"sp", "H", "T">>
  /\ Append(<<"sp", "H", "T">>, "T") = <<"sp", "H", "T", "T">>
  /\ Append(<<"sp", "H", "T", "T">>, "P") = <<"sp", "H", "T", "T", "P">>
  /\ Append(<<"sp", "H", "T", "T", "P">>, "/") = <<"sp", "H", "T", "T", "P", "/">>
  /\ Append(<<":">>, "sp") = <<":", "sp">>
  /\ Append(<<"cr">>, "lf") = <<"cr", "lf">>
<1>1. PICK S : S = {"sp", "H", "T", "P", "/", ":", "cr", "lf"}
  OBVIOUS
<1>2. Append(<<"sp">>, "H") = <<"sp", "H">>
  <2>1. PICK s, t : s = <<"sp">> /\ t = <<"sp", "H">>
    OBVIOUS
  <2>2. s \in Seq(S) /\ t \in Seq(S) /\ "H" \in S
    BY <1>1, <2>1
  <2>3. Len(s) = 1 /\ Len(t) = 1 + 1 /\ (\A i \in 1 .. 1 : t[i] = s[i]) /\ t[1 + 1] = "H"
    BY <2>1
  <2>4. \A n \in Nat :
          /\ Len(s) = n /\ Len(t) = n + 1
          /\ \A i \in 1 .. n : t[i] = s[i]
          /\ t[n + 1] = "H"
          => Append(s, "H") = t
    BY <2>2, Longer
  <2>5. QED
    BY <2>1, <2>3, <2>4
<1>3. Append(<<"sp", "H">>, "T") = <<"sp", "H", "T">>
  <2>1. PICK s, t : s = <<"sp", "H">> /\ t = <<"sp", "H", "T">>
    OBVIOUS
  <2>2. s \in Seq(S) /\ t \in Seq(S) /\ "T" \in S
    BY <1>1, <2>1
  <2>3. Len(s) = 2 /\ Len(t) = 2 + 1 /\ (\A i \in 1 .. 2 : t[i] = s[i]) /\ t[2 + 1] = "T"
    BY <2>1
  <2>4. \A n \in Nat :
          /\ Len(s) = n /\ Len(t) = n + 1
          /\ \A i \in 1 .. n : t[i] = s[i]
          /\ t[n + 1] = "T"
          => Append(s, "T") = t
    BY <2>2, Longer
  <2>5. QED
    BY <2>1, <2>3, <2>4
<1>4. Append(<<"sp", "H", "T">>, "T") = <<"sp", "H", "T", "T">>
  <2>1. PICK s, t : s = <<"sp", "H", "T">> /\ t = <<"sp", "H", "T", "T">>
    OBVIOUS
  <2>2. s \in Seq(S) /\ t \in Seq(S) /\ "T" \in S
    BY <1>1, <2>1
  <2>3. Len(s) = 3 /\ Len(t) = 3 + 1 /\ (\A i \in 1 .. 3 : t[i] = s[i]) /\ t[3 + 1] = "T"
    BY <2>1
  <2>4. \A n \in Nat :
          /\ Len(s) = n /\ Len(t) = n + 1
          /\ \A i \in 1 .. n : t[i] = s[i]
          /\ t[n + 1] = "T"
          => Append(s, "T") = t
    BY <2>2, Longer
  <2>5. QED
    BY <2>1, <2>3, <2>4
<1>5. Append(<<"sp", "H", "T", "T">>, "P") = <<"sp", "H", "T", "T", "P">>
  <2>1. PICK s, t : s = <<"sp", "H", "T", "T">> /\ t = <<"sp", "H", "T", "T", "P">>
    OBVIOUS
  <2>2. s \in Seq(S) /\ t \in Seq(S) /\ "P" \in S
    BY <1>1, <2>1
  <2>3. Len(s) = 4 /\ Len(t) = 4 + 1 /\ (\A i \in 1 .. 4 : t[i] = s[i]) /\ t[4 + 1] = "P"
    BY <2>1
  <2>4. \A n \in Nat :
          /\ Len(s) = n /\ Len(t) = n + 1
          /\ \A i \in 1 .. n : t[i] = s[i]
          /\ t[n + 1] = "P"
          => Append(s, "P") = t
    BY <2>2, Longer
  <2>5. QED
    BY <2>1, <2>3, <2>4
<1>6. Append(<<"sp", "H", "T", "T", "P">>, "/") = <<"sp", "H", "T", "T", "P", "/">>
  <2>1. PICK s, t : s = <<"sp", "H", "T", "T", "P">> /\ t = <<"sp", "H", "T", "T", "P", "/">>
    OBVIOUS
  <2>2. s \in Seq(S) /\ t \in Seq(S) /\ "/" \in S
    BY <1>1, <2>1
  <2>3. Len(s) = 5 /\ Len(t) = 5 + 1 /\ (\A i \in 1 .. 5 : t[i] = s[i]) /\ t[5 + 1] = "/"
    BY <2>1
  <2>4. \A n \in Nat :
          /\ Len(s) = n /\ Len(t) = n + 1
          /\ \A i \in 1 .. n : t[i] = s[i]
          /\ t[n + 1] = "/"
          => Append(s, "/") = t
    BY <2>2, Longer
  <2>5. QED
    BY <2>1, <2>3, <2>4
<1>7. Append(<<":">>, "sp") = <<":", "sp">>
  <2>1. PICK s, t : s = <<":">> /\ t = <<":", "sp">>
    OBVIOUS
  <2>2. s \in Seq(S) /\ t \in Seq(S) /\ "sp" \in S
    BY <1>1, <2>1
  <2>3. Len(s) = 1 /\ Len(t) = 1 + 1 /\ (\A i \in 1 .. 1 : t[i] = s[i]) /\ t[1 + 1] = "sp"
    BY <2>1
  <2>4. \A n \in Nat :
          /\ Len(s) = n /\ Len(t) = n + 1
          /\ \A i \in 1 .. n : t[i] = s[i]
          /\ t[n + 1] = "sp"
          => Append(s, "sp") = t
    BY <2>2, Longer
  <2>5. QED
    BY <2>1, <2>3, <2>4
<1>8. Append(<<"cr">>, "lf") = <<"cr", "lf">>
  <2>1. PICK s, t : s = <<"cr">> /\ t = <<"cr", "lf">>
    OBVIOUS
  <2>2. s \in Seq(S) /\ t \in Seq(S) /\ "lf" \in S
    BY <1>1, <2>1
  <2>3. Len(s) = 1 /\ Len(t) = 1 + 1 /\ (\A i \in 1 .. 1 : t[i] = s[i]) /\ t[1 + 1] = "lf"
    BY <2>1
  <2>4. \A n \in Nat :
          /\ Len(s) = n /\ Len(t) = n + 1
          /\ \A i \in 1 .. n : t[i] = s[i]
          /\ t[n + 1] = "lf"
          => Append(s, "lf") = t
    BY <2>2, Longer
  <2>5. QED
    BY <2>1, <2>3, <2>4
<1>9. QED
  BY <1>2, <1>3, <1>4, <1>5, <1>6, <1>7, <1>8

\* The characters with a role of their own.
LEMMA OwnRole ==
  {"sp", "H", "T", "P", "/", ":", ".", "cr", "lf"} \subseteq Chars
BY DEF Chars, NotCtl, Token, Tspecial, Ctl

\* Text that does not depend on the request, one character after the other.
LEMMA ThenFixed ==
  ASSUME NEW a \in Seq(Chars)
  PROVE  /\ Then(a, <<"sp">>) = With(a, "sp")
         /\ Then(a, <<".">>) = With(a, ".")
         /\ Then(a, <<":", "sp">>) = With(With(a, ":"), "sp")
         /\ Then(a, Crlf) = With(With(a, "cr"), "lf")
         /\ Then(a, <<"sp", "H", "T", "T", "P", "/">>)
              = With(With(With(With(With(With(a, "sp"), "H"), "T"), "T"), "P"), "/")
<1>1. \A c \in {"sp", ".", ":", "cr"} : <<c>> \in Seq(Chars) /\ Then(a, <<c>>) = With(a, c)
  <2>1. ASSUME NEW c \in {"sp", ".", ":", "cr"}
        PROVE  <<c>> \in Seq(Chars) /\ Then(a, <<c>>) = With(a, c)
    <3>1. c \in Chars
      BY OwnRole
    <3>2. QED
      BY <3>1, ThenOne
  <2>2. QED
    BY <2>1
<1>2. Then(a, <<":", "sp">>) = With(With(a, ":"), "sp")
  <2>1. PICK b : b = <<":">>
    OBVIOUS
  <2>2. b \in Seq(Chars) /\ Then(a, b) = With(a, ":") /\ "sp" \in Chars
    BY <1>1, <2>1, OwnRole
  <2>3. <<":", "sp">> = With(b, "sp")
    BY <2>1, Spellings DEF With
  <2>4. Then(a, With(b, "sp")) = With(Then(a, b), "sp")
    BY <2>2, ThenWith
  <2>5. QED
    BY <2>2, <2>3, <2>4
<1>3. Then(a, Crlf) = With(With(a, "cr"), "lf")
  <2>1. PICK b : b = <<"cr">>
    OBVIOUS
  <2>2. b \in Seq(Chars) /\ Then(a, b) = With(a, "cr") /\ "lf" \in Chars
    BY <1>1, <2>1, OwnRole
  <2>3. Crlf = With(b, "lf")
    BY <2>1, Spellings DEF With, Crlf
  <2>4. Then(a, With(b, "lf")) = With(Then(a, b), "lf")
    BY <2>2, ThenWith
  <2>5. QED
    BY <2>2, <2>3, <2>4
<1>4. Then(a, <<"sp", "H", "T", "T", "P", "/">>)
        = With(With(With(With(With(With(a, "sp"), "H"), "T"), "T"), "P"), "/")
  <2>1. PICK b : b = <<"sp">>
    OBVIOUS
  <2>2. b \in Seq(Chars) /\ Then(a, b) = With(a, "sp")
    BY <1>1, <2>1
  <2>3. "H" \in Chars /\ "T" \in Chars /\ "P" \in Chars /\ "/" \in Chars
    BY OwnRole
  <2>4. PICK h, t, tt, p : h = With(b, "H") /\ t = With(h, "T") /\ tt = With(t, "T") /\ p = With(tt, "P")
    OBVIOUS
  <2>5. <<"sp", "H", "T", "T", "P", "/">> = With(p, "/")
    <3>1. h = <<"sp", "H">>
      BY <2>1, <2>4, Spellings DEF With
    <3>2. t = <<"sp", "H", "T">>
      BY <2>4, <3>1, Spellings DEF With
    <3>3. tt = <<"sp", "H", "T", "T">>
      BY <2>4, <3>2, Spellings DEF With
    <3>4. p = <<"sp", "H", "T", "T", "P">>
      BY <2>4, <3>3, Spellings DEF With
    <3>5. QED
      BY <3>4, Spellings DEF With
  <2>6. h \in Seq(Chars) /\ t \in Seq(Chars) /\ tt \in Seq(Chars) /\ p \in Seq(Chars)
    BY <2>2, <2>3, <2>4, TextType
  <2>7. /\ Then(a, h) = With(Then(a, b), "H") /\ Then(a, t) = With(Then(a, h), "T")
        /\ Then(a, tt) = With(Then(a, t), "T") /\ Then(a, p) = With(Then(a, tt), "P")
        /\ Then(a, With(p, "/")) = With(Then(a, p), "/")
    BY <2>2, <2>3, <2>4, <2>6, ThenWith
  <2>8. QED
    BY <2>2, <2>5, <2>7
<1>5. QED
  BY <1>1, <1>2, <1>3, <1>4

-------------------------------------------------------------------------------
(* The text a request has been read from, in every state of the parser.    *)

\* What the parser keeps of a request.
Request == [method : Seq(Chars), uri : Seq(Chars), major : Seq(Chars), minor : Seq(Chars),
            headers : Seq(Header)]

\* The text of a request, piece by piece.
UriText(r) == Then(With(r.method, "sp"), r.uri)
HText(r) == With(UriText(r), "sp")
T1Text(r) == With(HText(r), "H")
T2Text(r) == With(T1Text(r), "T")
PText(r) == With(T2Text(r), "T")
SlashText(r) == With(PText(r), "P")
MajorText(r) == With(SlashText(r), "/")
DotText(r) == With(Then(MajorText(r), r.major), ".")
LineText(r) == With(With(Then(DotText(r), r.minor), "cr"), "lf")
NameText(r, hs, h) == Then(Then(LineText(r), HeadersText(hs)), h.name)
ValueText(r, hs, h) == Then(With(With(NameText(r, hs, h), ":"), "sp"), h.value)

\* A request that has been read up to its minor version, or up to its major one.
NoMinor(r) == r.minor = <<>> /\ r.headers = <<>>
NoVersion(r) == r.major = <<>> /\ NoMinor(r)

\* The states in which a header is being read.
HeaderStates == {"header_name", "space_before_header_value", "header_value", "header_lws",
                 "expecting_newline_2"}

\* The text read for the last of the headers.
HeaderPart(u, s, r, hs, h) ==
  \/ s = "header_name" /\ u = NameText(r, hs, h) /\ h.value = <<>>
  \/ s = "space_before_header_value" /\ u = With(NameText(r, hs, h), ":") /\ h.value = <<>>
  \/ s \in {"header_value", "header_lws"} /\ u = ValueText(r, hs, h)
  \/ s = "expecting_newline_2" /\ u = With(ValueText(r, hs, h), "cr")

\* The last header of the request is h, after the headers hs.
LastIs(r, hs, h) == r.headers = Append(hs, h)

\* The text, without folds, that leaves the parser in state s with request r.
Spelled(u, s, r) ==
  \/ s = "method_start" /\ u = <<>> /\ r.method = <<>> /\ r.uri = <<>> /\ NoVersion(r)
  \/ s = "method" /\ u = r.method /\ r.uri = <<>> /\ NoVersion(r)
  \/ s = "uri" /\ u = UriText(r) /\ NoVersion(r)
  \/ s = "http_version_h" /\ u = HText(r) /\ NoVersion(r)
  \/ s = "http_version_t_1" /\ u = T1Text(r) /\ NoVersion(r)
  \/ s = "http_version_t_2" /\ u = T2Text(r) /\ NoVersion(r)
  \/ s = "http_version_p" /\ u = PText(r) /\ NoVersion(r)
  \/ s = "http_version_slash" /\ u = SlashText(r) /\ NoVersion(r)
  \/ s = "http_version_major_start" /\ u = MajorText(r) /\ NoVersion(r)
  \/ s = "http_version_major" /\ u = Then(MajorText(r), r.major) /\ NoMinor(r)
  \/ s = "http_version_minor_start" /\ u = DotText(r) /\ NoMinor(r)
  \/ s = "http_version_minor" /\ u = Then(DotText(r), r.minor) /\ r.headers = <<>>
  \/ s = "expecting_newline_1" /\ u = With(Then(DotText(r), r.minor), "cr") /\ r.headers = <<>>
  \/ s = "header_line_start" /\ u = Then(LineText(r), HeadersText(r.headers))
  \/ s = "expecting_newline_3" /\ u = With(Then(LineText(r), HeadersText(r.headers)), "cr")
  \/ /\ s \in HeaderStates
     /\ \E hs \in Seq(Header), h \in Header :
          LastIs(r, hs, h) /\ HeaderPart(u, s, r, hs, h)

\* The text of a header, and of headers, is one.
LEMMA HeaderIs ==
  ASSUME NEW h \in Header
  PROVE  /\ h.name \in Seq(Chars) /\ h.value \in Seq(Chars) /\ HeaderText(h) \in Seq(Chars)
         /\ HeaderText(h)
              = With(With(Then(With(With(h.name, ":"), "sp"), h.value), "cr"), "lf")
<1>1. h.name \in Seq(Chars) /\ h.value \in Seq(Chars)
  BY DEF Header
<1>2. HeaderText(h) = Then(Then(Then(h.name, <<":", "sp">>), h.value), Crlf)
  BY DEF HeaderText, Then
<1>3. ":" \in Chars /\ "sp" \in Chars /\ "cr" \in Chars /\ "lf" \in Chars
  BY OwnRole
<1>4. PICK m : m = With(With(h.name, ":"), "sp")
  OBVIOUS
<1>5. m \in Seq(Chars) /\ Then(m, h.value) \in Seq(Chars)
  BY <1>1, <1>3, <1>4, TextType
<1>6. Then(h.name, <<":", "sp">>) = m
  BY <1>1, <1>4, ThenFixed
<1>7. Then(Then(m, h.value), Crlf) = With(With(Then(m, h.value), "cr"), "lf")
  BY <1>5, ThenFixed
<1>8. With(With(Then(m, h.value), "cr"), "lf") \in Seq(Chars)
  BY <1>3, <1>5, TextType
<1>9. QED
  BY <1>1, <1>2, <1>4, <1>6, <1>7, <1>8

\* The text of headers is a text.
LEMMA HeaderTextType ==
  ASSUME NEW hs \in Seq(Header)
  PROVE  HeadersText(hs) \in Seq(Chars)
<1> DEFINE T == {n \in Nat : \A s \in Seq(Header) : Len(s) = n => HeadersText(s) \in Seq(Chars)}
<1>1. 0 \in T
  <2>1. <<>> \in Seq(Chars)
    BY EmptySeq
  <2>2. \A s \in Seq(Header) : Len(s) = 0 => s = <<>>
    BY EmptySeq
  <2>3. QED
    BY <2>1, <2>2, HeadersTextAppend
<1>2. ASSUME NEW n \in Nat, n \in T
      PROVE  n + 1 \in T
  <2> SUFFICES ASSUME NEW s \in Seq(Header), Len(s) = n + 1
               PROVE  HeadersText(s) \in Seq(Chars)
    OBVIOUS
  <2>1. PICK t \in Seq(Header), h \in Header : s = Append(t, h)
    <3>1. s # <<>>
      <4>1. ASSUME s = <<>> PROVE Len(s) = 0
        BY <4>1
      <4>2. QED
        BY <4>1
    <3>2. QED
      BY <3>1, SequenceEmptyOrAppend
  <2>2. Len(t) = n
    <3>1. Len(t) \in Nat /\ Len(s) = Len(t) + 1
      BY <2>1, AppendProperties, LenProperties
    <3>2. QED
      BY <3>1
  <2>3. HeadersText(t) \in Seq(Chars)
    BY <1>2, <2>2
  <2>4. HeaderText(h) \in Seq(Chars)
    BY HeaderIs
  <2>5. QED
    BY <2>1, <2>3, <2>4, HeadersTextAppend, ConcatProperties
<1> HIDE DEF T
<1>3. \A n \in Nat : n \in T
  BY <1>1, <1>2, Induction
<1>4. Len(hs) \in Nat
  BY LenProperties
<1>5. QED
  BY <1>3, <1>4 DEF T

\* And so are all the texts a request is spelled with.
LEMMA TextTypes ==
  ASSUME NEW r \in Request
  PROVE  /\ r.method \in Seq(Chars) /\ r.uri \in Seq(Chars)
         /\ r.major \in Seq(Chars) /\ r.minor \in Seq(Chars)
         /\ UriText(r) \in Seq(Chars) /\ MajorText(r) \in Seq(Chars)
         /\ DotText(r) \in Seq(Chars) /\ LineText(r) \in Seq(Chars)
<1>1. /\ r.method \in Seq(Chars) /\ r.uri \in Seq(Chars)
      /\ r.major \in Seq(Chars) /\ r.minor \in Seq(Chars)
  BY DEF Request
<1>2. /\ "sp" \in Chars /\ "H" \in Chars /\ "T" \in Chars /\ "P" \in Chars /\ "/" \in Chars
      /\ "." \in Chars /\ "cr" \in Chars /\ "lf" \in Chars
  BY OwnRole
<1>3. UriText(r) \in Seq(Chars)
  BY <1>1, <1>2, TextType DEF UriText
<1>4. MajorText(r) \in Seq(Chars)
  BY <1>2, <1>3, TextType DEF MajorText, SlashText, PText, T2Text, T1Text, HText
<1>5. DotText(r) \in Seq(Chars)
  BY <1>1, <1>2, <1>4, TextType DEF DotText
<1>6. LineText(r) \in Seq(Chars)
  BY <1>1, <1>2, <1>5, TextType DEF LineText
<1>7. QED
  BY <1>1, <1>3, <1>4, <1>5, <1>6

\* The text up to any part of the last header is a text.
LEMMA HeaderTypes ==
  ASSUME NEW r \in Request, NEW hs \in Seq(Header), NEW h \in Header
  PROVE  /\ Then(LineText(r), HeadersText(hs)) \in Seq(Chars)
         /\ NameText(r, hs, h) \in Seq(Chars)
         /\ With(With(NameText(r, hs, h), ":"), "sp") \in Seq(Chars)
         /\ ValueText(r, hs, h) \in Seq(Chars)
<1>1. LineText(r) \in Seq(Chars) /\ HeadersText(hs) \in Seq(Chars)
  BY TextTypes, HeaderTextType
<1>2. h.name \in Seq(Chars) /\ h.value \in Seq(Chars)
  BY HeaderIs
<1>3. ":" \in Chars /\ "sp" \in Chars
  BY OwnRole
<1>4. Then(LineText(r), HeadersText(hs)) \in Seq(Chars)
  BY <1>1, TextType
<1>5. NameText(r, hs, h) \in Seq(Chars)
  BY <1>2, <1>4, TextType DEF NameText
<1>6. With(With(NameText(r, hs, h), ":"), "sp") \in Seq(Chars)
  BY <1>3, <1>5, TextType
<1>7. ValueText(r, hs, h) \in Seq(Chars)
  BY <1>2, <1>6, TextType DEF ValueText
<1>8. QED
  BY <1>4, <1>5, <1>6, <1>7

\* A header ends its line.
LEMMA HeaderLine ==
  ASSUME NEW r \in Request, NEW hs \in Seq(Header), NEW h \in Header
  PROVE  Then(LineText(r), HeadersText(Append(hs, h)))
           = With(With(ValueText(r, hs, h), "cr"), "lf")
<1>1. PICK l, x, n, v, m, mv, xm :
        /\ l = LineText(r) /\ x = HeadersText(hs) /\ n = h.name /\ v = h.value
        /\ m = With(With(n, ":"), "sp") /\ mv = Then(m, v) /\ xm = Then(x, m)
  OBVIOUS
<1>2. l \in Seq(Chars) /\ x \in Seq(Chars) /\ n \in Seq(Chars) /\ v \in Seq(Chars)
  BY <1>1, TextTypes, HeaderTextType, HeaderIs
<1>3. ":" \in Chars /\ "sp" \in Chars /\ "cr" \in Chars /\ "lf" \in Chars
  BY OwnRole
<1>4. /\ m \in Seq(Chars) /\ mv \in Seq(Chars) /\ xm \in Seq(Chars) /\ With(n, ":") \in Seq(Chars)
      /\ With(mv, "cr") \in Seq(Chars) /\ Then(x, mv) \in Seq(Chars)
      /\ With(Then(x, mv), "cr") \in Seq(Chars) /\ Then(l, x) \in Seq(Chars)
  BY <1>1, <1>2, <1>3, TextType
<1>5. HeadersText(Append(hs, h)) = Then(x, With(With(mv, "cr"), "lf"))
  BY <1>1, HeadersTextAppend, HeaderIs DEF Then
<1>6. Then(x, With(With(mv, "cr"), "lf")) = With(With(Then(x, mv), "cr"), "lf")
  BY <1>2, <1>3, <1>4, ThenWith
<1>7. Then(l, With(With(Then(x, mv), "cr"), "lf")) = With(With(Then(l, Then(x, mv)), "cr"), "lf")
  BY <1>2, <1>3, <1>4, ThenWith
<1>8. Then(l, Then(x, mv)) = Then(Then(l, x), mv)
  BY <1>2, <1>4, ThenThen
<1>9. Then(Then(l, x), mv) = Then(Then(Then(l, x), m), v)
  BY <1>1, <1>2, <1>4, ThenThen
<1>10. Then(Then(l, x), m) = With(With(Then(Then(l, x), n), ":"), "sp")
  BY <1>1, <1>2, <1>3, <1>4, ThenWith
<1>11. ValueText(r, hs, h) = Then(With(With(Then(Then(l, x), n), ":"), "sp"), v)
  BY <1>1 DEF ValueText, NameText
<1>12. QED
  BY <1>1, <1>5, <1>6, <1>7, <1>8, <1>9, <1>10, <1>11

\* The whole text, up to the last byte.
LEMMA RequestIs ==
  ASSUME NEW r \in Request
  PROVE  RequestText(r) = With(With(Then(LineText(r), HeadersText(r.headers)), "cr"), "lf")
<1>1. RequestText(r) =
        Then(Then(Then(Then(Then(Then(Then(Then(Then(r.method, <<"sp">>), r.uri),
          <<"sp", "H", "T", "T", "P", "/">>), r.major), <<".">>), r.minor), Crlf),
          HeadersText(r.headers)), Crlf)
  BY DEF RequestText, Then
<1>2. /\ r.method \in Seq(Chars) /\ r.uri \in Seq(Chars)
      /\ r.major \in Seq(Chars) /\ r.minor \in Seq(Chars) /\ r.headers \in Seq(Header)
  BY DEF Request
<1>3. Then(Then(r.method, <<"sp">>), r.uri) = UriText(r)
  BY <1>2, ThenFixed DEF UriText
<1>4. Then(UriText(r), <<"sp", "H", "T", "T", "P", "/">>) = MajorText(r)
  <2>1. UriText(r) \in Seq(Chars)
    BY TextTypes
  <2>2. QED
    BY <2>1, ThenFixed DEF MajorText, SlashText, PText, T2Text, T1Text, HText
<1>5. Then(Then(MajorText(r), r.major), <<".">>) = DotText(r)
  <2>1. Then(MajorText(r), r.major) \in Seq(Chars)
    BY <1>2, TextTypes, TextType
  <2>2. QED
    BY <2>1, ThenFixed DEF DotText
<1>6. Then(Then(DotText(r), r.minor), Crlf) = LineText(r)
  <2>1. Then(DotText(r), r.minor) \in Seq(Chars)
    BY <1>2, TextTypes, TextType
  <2>2. QED
    BY <2>1, ThenFixed DEF LineText
<1>7. Then(Then(LineText(r), HeadersText(r.headers)), Crlf)
        = With(With(Then(LineText(r), HeadersText(r.headers)), "cr"), "lf")
  <2>1. Then(LineText(r), HeadersText(r.headers)) \in Seq(Chars)
    BY <1>2, TextTypes, HeaderTextType, TextType
  <2>2. QED
    BY <2>1, ThenFixed
<1>8. QED
  BY <1>1, <1>3, <1>4, <1>5, <1>6, <1>7

-------------------------------------------------------------------------------
(* One transition.                                                         *)

\* A character that goes to a field of the request is put at its end.
LEMMA PutIs ==
  ASSUME req \in Request, NEW c \in Chars
  PROVE  /\ Put("nothing", c) = req
         /\ Put("method", c) = [req EXCEPT !.method = Append(@, c)]
         /\ Put("uri", c) = [req EXCEPT !.uri = Append(@, c)]
         /\ Put("major", c) = [req EXCEPT !.major = Append(@, c)]
         /\ Put("minor", c) = [req EXCEPT !.minor = Append(@, c)]
         /\ Put("header", c)
              = [req EXCEPT !.headers = Append(@, [name |-> <<c>>, value |-> <<>>])]
<1>1. Put("nothing", c) = req
  BY DEF Put
<1>2. Put("method", c) = [req EXCEPT !.method = Append(@, c)]
  BY DEF Put, Request
<1>3. Put("uri", c) = [req EXCEPT !.uri = Append(@, c)]
  BY DEF Put, Request
<1>4. Put("major", c) = [req EXCEPT !.major = Append(@, c)]
  BY DEF Put, Request
<1>5. Put("minor", c) = [req EXCEPT !.minor = Append(@, c)]
  BY DEF Put, Request
<1>6. Put("header", c) = [req EXCEPT !.headers = Append(@, [name |-> <<c>>, value |-> <<>>])]
  BY DEF Put, Request
<1>7. QED
  BY <1>1, <1>2, <1>3, <1>4, <1>5, <1>6

\* The request stays one.
LEMMA PutType ==
  ASSUME req \in Request, NEW c \in Chars,
         NEW where \in {"nothing", "method", "uri", "major", "minor", "header"}
  PROVE  Put(where, c) \in Request
<1>1. CASE where = "nothing"
  BY <1>1, PutIs
<1>2. \A s \in Seq(Chars) : Append(s, c) \in Seq(Chars)
  BY AppendProperties
<1>3. CASE where = "method"
  <2>1. Put(where, c) = [req EXCEPT !.method = Append(@, c)]
    BY <1>3, PutIs
  <2>2. QED
    BY <1>2, <2>1 DEF Request
<1>4. CASE where = "uri"
  <2>1. Put(where, c) = [req EXCEPT !.uri = Append(@, c)]
    BY <1>4, PutIs
  <2>2. QED
    BY <1>2, <2>1 DEF Request
<1>5. CASE where = "major"
  <2>1. Put(where, c) = [req EXCEPT !.major = Append(@, c)]
    BY <1>5, PutIs
  <2>2. QED
    BY <1>2, <2>1 DEF Request
<1>6. CASE where = "minor"
  <2>1. Put(where, c) = [req EXCEPT !.minor = Append(@, c)]
    BY <1>6, PutIs
  <2>2. QED
    BY <1>2, <2>1 DEF Request
<1>7. CASE where = "header"
  <2>1. PICK h : h = [name |-> <<c>>, value |-> <<>>]
    OBVIOUS
  <2>2. Put(where, c) = [req EXCEPT !.headers = Append(@, h)]
    BY <1>7, <2>1, PutIs
  <2>3. <<c>> \in Seq(Chars) /\ <<>> \in Seq(Chars)
    BY EmptySeq
  <2>4. h \in Header
    BY <2>1, <2>3 DEF Header
  <2>5. \A hs \in Seq(Header) : Append(hs, h) \in Seq(Header)
    BY <2>4, AppendProperties
  <2>6. QED
    BY <2>2, <2>5 DEF Request
<1>8. QED
  BY <1>1, <1>3, <1>4, <1>5, <1>6, <1>7

\* Name and value are those of the last header.
LEMMA PutLast ==
  ASSUME req \in Request, NEW c \in Chars, NEW hs \in Seq(Header), NEW h \in Header,
         LastIs(req, hs, h)
  PROVE  /\ \E x \in Header :
              /\ x.name = With(h.name, c) /\ x.value = h.value
              /\ LastIs(Put("name", c), hs, x)
         /\ \E x \in Header :
              /\ x.name = h.name /\ x.value = With(h.value, c)
              /\ LastIs(Put("value", c), hs, x)
         /\ \A where \in {"name", "value"} :
              /\ Put(where, c) \in Request
              /\ \A q : q = Put(where, c) =>
                   /\ q.method = req.method /\ q.uri = req.uri
                   /\ q.major = req.major /\ q.minor = req.minor
<1>0. req.headers = Append(hs, h)
  BY DEF LastIs
<1>1. PICK n, k : n = Len(hs) /\ k = n + 1
  OBVIOUS
<1>2. /\ n \in Nat /\ k \in Nat /\ Len(req.headers) = k /\ req.headers[k] = h
      /\ \A i \in 1 .. n : req.headers[i] = hs[i]
  BY <1>0, <1>1, AppendProperties, LenProperties
<1>3. [h EXCEPT !.name = Append(@, c)] \in Header /\ [h EXCEPT !.value = Append(@, c)] \in Header
  <2>1. h.name \in Seq(Chars) /\ h.value \in Seq(Chars)
    BY DEF Header
  <2>2. Append(h.name, c) \in Seq(Chars) /\ Append(h.value, c) \in Seq(Chars)
    BY <2>1, AppendProperties
  <2>3. QED
    BY <2>2 DEF Header
<1>4. ASSUME NEW x \in Header
      PROVE  [req.headers EXCEPT ![k] = x] = Append(hs, x)
  <2>1. PICK a : a = [req.headers EXCEPT ![k] = x]
    OBVIOUS
  <2>2. req.headers \in Seq(Header) /\ k \in 1 .. Len(req.headers)
    BY <1>1, <1>2 DEF Request
  <2>3. /\ a \in Seq(Header) /\ Len(a) = k /\ a[k] = x
        /\ \A i \in 1 .. n : a[i] = req.headers[i]
    <3>1. a \in Seq(Header) /\ Len(a) = Len(req.headers)
      BY <2>1, <2>2, ExceptSeq
    <3>2. \A j \in 1 .. Len(req.headers) : a[j] = IF j = k THEN x ELSE req.headers[j]
      <4>1. DOMAIN req.headers = 1 .. Len(req.headers)
        BY <2>2, LenProperties
      <4>2. QED
        BY <2>1, <4>1
    <3>3. a[k] = x
      BY <2>2, <3>2
    <3>4. \A i \in 1 .. n : i \in 1 .. Len(req.headers) /\ i # k
      BY <1>1, <1>2
    <3>5. QED
      BY <1>2, <3>1, <3>2, <3>3, <3>4
  <2>4. Len(hs) = n /\ Len(a) = n + 1 /\ (\A i \in 1 .. n : a[i] = hs[i]) /\ a[n + 1] = x
    BY <1>1, <1>2, <2>3
  <2>5. \A m \in Nat :
          /\ Len(hs) = m /\ Len(a) = m + 1
          /\ \A i \in 1 .. m : a[i] = hs[i]
          /\ a[m + 1] = x
          => Append(hs, x) = a
    BY <2>3, Longer
  <2>6. QED
    BY <1>2, <2>1, <2>4, <2>5
<1>5. Put("name", c) = [req EXCEPT !.headers = Append(hs, [h EXCEPT !.name = Append(@, c)])]
  <2>1. PICK x : x = [h EXCEPT !.name = Append(@, c)]
    OBVIOUS
  <2>2. Put("name", c) = [req EXCEPT !.headers[k]["name"] = Append(@, c)]
    BY <1>2 DEF Put
  <2>3. [req EXCEPT !.headers[k]["name"] = Append(@, c)]
          = [req EXCEPT !.headers = [req.headers EXCEPT ![k] =
                                       [req.headers[k] EXCEPT !.name = Append(req.headers[k].name, c)]]]
    OBVIOUS
  <2>4. [req.headers[k] EXCEPT !.name = Append(req.headers[k].name, c)] = x
    BY <1>2, <2>1
  <2>5. [req.headers EXCEPT ![k] = x] = Append(hs, x)
    BY <1>3, <1>4, <2>1
  <2>6. QED
    BY <2>1, <2>2, <2>3, <2>4, <2>5
<1>6. Put("value", c) = [req EXCEPT !.headers = Append(hs, [h EXCEPT !.value = Append(@, c)])]
  <2>1. PICK x : x = [h EXCEPT !.value = Append(@, c)]
    OBVIOUS
  <2>2. Put("value", c) = [req EXCEPT !.headers[k]["value"] = Append(@, c)]
    BY <1>2 DEF Put
  <2>3. [req EXCEPT !.headers[k]["value"] = Append(@, c)]
          = [req EXCEPT !.headers = [req.headers EXCEPT ![k] =
                                       [req.headers[k] EXCEPT !.value = Append(req.headers[k].value, c)]]]
    OBVIOUS
  <2>4. [req.headers[k] EXCEPT !.value = Append(req.headers[k].value, c)] = x
    BY <1>2, <2>1
  <2>5. [req.headers EXCEPT ![k] = x] = Append(hs, x)
    BY <1>3, <1>4, <2>1
  <2>6. QED
    BY <2>1, <2>2, <2>3, <2>4, <2>5
<1>7. \A x \in Header : Append(hs, x) \in Seq(Header)
  BY AppendProperties
<1>8. Put("name", c) \in Request /\ Put("value", c) \in Request
  BY <1>3, <1>5, <1>6, <1>7 DEF Request
<1>9. \E x \in Header :
        /\ x.name = With(h.name, c) /\ x.value = h.value
        /\ LastIs(Put("name", c), hs, x)
  <2>1. PICK x \in Header : x = [h EXCEPT !.name = Append(@, c)]
    BY <1>3
  <2>2. x.name = With(h.name, c) /\ x.value = h.value
    BY <2>1 DEF Header, With
  <2>3. LastIs(Put("name", c), hs, x)
    BY <1>5, <2>1 DEF Request, LastIs
  <2>4. QED
    BY <2>2, <2>3
<1>10. \E x \in Header :
         /\ x.name = h.name /\ x.value = With(h.value, c)
         /\ LastIs(Put("value", c), hs, x)
  <2>1. PICK x \in Header : x = [h EXCEPT !.value = Append(@, c)]
    BY <1>3
  <2>2. x.name = h.name /\ x.value = With(h.value, c)
    BY <2>1 DEF Header, With
  <2>3. LastIs(Put("value", c), hs, x)
    BY <1>6, <2>1 DEF Request, LastIs
  <2>4. QED
    BY <2>2, <2>3
<1>11. \A q : q = Put("name", c) =>
         /\ q.method = req.method /\ q.uri = req.uri
         /\ q.major = req.major /\ q.minor = req.minor
  BY <1>5 DEF Request
<1>12. \A q : q = Put("value", c) =>
         /\ q.method = req.method /\ q.uri = req.uri
         /\ q.major = req.major /\ q.minor = req.minor
  BY <1>6 DEF Request
<1>13. QED
  BY <1>8, <1>9, <1>10, <1>11, <1>12

\* The states behind the request line, and those at a line break.
LaterStates == HeaderStates \cup {"header_line_start", "expecting_newline_3"}
NewlineStates == {"expecting_newline_1", "expecting_newline_2", "expecting_newline_3"}

NoBreak(t, n) == \A h \in 1 .. n : t[h] # "cr"

\* The line break at g ends a line, and there are only the characters of a name
\* behind it.
NameSince(t, g, n) ==
  g \in 1 .. n - 2 /\ t[g] = "cr" /\ t[g + 1] = "lf" /\ \A h \in g + 2 .. n : t[h] \in Token

\* What the state says of the lines of the text, of n characters, that led to it.
LinesTo(t, n, s, r) ==
  /\ s = "header_lws" <=> n > 0 /\ InFold(t, n)
  /\ s = "header_line_start" <=> n > 0 /\ t[n] = "lf"
  /\ s = "header_line_start" => n > 1 /\ t[n - 1] = "cr"
  /\ s \in NewlineStates <=> n > 0 /\ t[n] = "cr"
  /\ s \notin LaterStates => NoBreak(t, n - 1) /\ r.headers = <<>>
  /\ s = "header_line_start" => IF r.headers = <<>> THEN NoBreak(t, n - 2) ELSE InValue(t, n - 1)
  /\ s \in HeaderStates => r.headers # <<>>
  /\ s = "header_name" => \E g : NameSince(t, g, n)
  /\ s = "space_before_header_value" => t[n] = ":" /\ \E g : NameSince(t, g, n - 1)
  /\ s \in {"header_value", "header_lws"} => InValue(t, n + 1)
  /\ s = "expecting_newline_2" => InValue(t, n)

Lines(t, s, r) == LinesTo(t, Len(t), s, r)

\* Classes of characters that have none in common.
LEMMA Classes ==
  /\ "cr" \notin NotCtl /\ "lf" \notin NotCtl /\ "cr" \notin Token /\ "lf" \notin Token
  /\ "cr" \notin Lws /\ "lf" \notin Lws /\ "cr" \notin Digit /\ "lf" \notin Digit
  /\ \A c \in Token : c \notin Lws
  /\ NotCtl \subseteq Chars /\ Token \subseteq Chars /\ Lws \subseteq Chars /\ Digit \subseteq Chars
BY DEF Chars, NotCtl, Token, Lws, Digit, Tspecial, Ctl

\* What all transitions have in common.
RowLines(row, c) ==
  /\ row.to = "header_lws" <=> c \in Lws /\ row.from \in {"header_lws", "header_line_start"}
  /\ row.to = "header_line_start" <=> c = "lf"
  /\ row.to = "header_line_start" => row.from \in {"expecting_newline_1", "expecting_newline_2"}
  /\ row.to \in NewlineStates <=> c = "cr"
  /\ row.to \notin LaterStates => row.from \notin LaterStates \cup NewlineStates
  /\ row.to \in HeaderStates => row.from \in LaterStates
  /\ row.to = "header_name" =>
       c \in Token /\ row.from \in {"header_line_start", "header_name"}
  /\ row.to = "space_before_header_value" => c = ":" /\ row.from = "header_name"
  /\ row.to \in {"header_value", "header_lws"} =>
       row.from \in {"space_before_header_value", "header_value", "header_lws", "header_line_start"}
  /\ row.from = "space_before_header_value" => c = "sp"
  /\ row.from = "header_line_start" /\ row.to \in {"header_value", "header_lws"} => c \in Lws
  /\ row.to = "expecting_newline_2" => row.from \in {"header_value", "header_lws"}

\* Every transition of the parser goes where the character's line is.
LEMMA RowsLines ==
  ASSUME NEW c, NEW row \in RequestLine \cup HttpVersion \cup Headers(req.headers), c \in row.on
  PROVE  RowLines(row, c)
<1>1. CASE row \in RequestLine
  BY <1>1, Classes DEF RequestLine, On, RowLines, LaterStates, NewlineStates, HeaderStates
<1>2. CASE row \in HttpVersion
  BY <1>2, Classes DEF HttpVersion, On, RowLines, LaterStates, NewlineStates, HeaderStates
<1>3. CASE row \in Headers(req.headers)
  BY <1>3, Classes DEF Headers, On, RowLines, LaterStates, NewlineStates, HeaderStates
<1>4. QED
  BY <1>1, <1>2, <1>3

\* What all transitions have in common, for the request they fill in.
RowPut(row, c) ==
  /\ row.put \in {"nothing", "method", "uri", "major", "minor", "header", "name", "value"}
  /\ row.put \in {"name", "value"} => row.from \in HeaderStates
  /\ row.put = "header" => row.from = "header_line_start"
  /\ row.to \in HeaderStates =>
       \/ row.from \in HeaderStates
       \/ row.from = "header_line_start" /\ (row.put = "header" \/ req.headers # <<>>)
  /\ row.from = "header_line_start" /\ c \in Lws => row.to = "header_lws" /\ req.headers # <<>>

\* Every transition of the parser fills in the part that its state is about.
LEMMA RowsPut ==
  ASSUME NEW c, NEW row \in RequestLine \cup HttpVersion \cup Headers(req.headers), c \in row.on
  PROVE  RowPut(row, c)
<1>1. CASE row \in RequestLine
  BY <1>1, Classes DEF RequestLine, On, RowPut, HeaderStates
<1>2. CASE row \in HttpVersion
  BY <1>2, Classes DEF HttpVersion, On, RowPut, HeaderStates
<1>3. CASE row \in Headers(req.headers)
  BY <1>3, Classes DEF Headers, On, RowPut, HeaderStates
<1>4. QED
  BY <1>1, <1>2, <1>3

\* What is in a value stays in it as long as lines are continued.
LEMMA InValueGoesOn ==
  ASSUME NEW u, NEW i \in Nat, NEW k \in Nat, i <= k, InValue(u, i),
         \A h \in i .. k - 1 : u[h] = "cr" => Continues(u, h)
  PROVE  InValue(u, k)
<1>1. PICK g \in 1 .. i - 1 : \E j \in g + 1 .. i - 2 :
             /\ u[g] = "cr" /\ u[j] = ":" /\ u[j + 1] = "sp"
             /\ \A h \in g + 1 .. i - 1 : u[h] = "cr" => Continues(u, h)
  BY DEF InValue
<1>2. PICK j \in g + 1 .. i - 2 :
             /\ u[g] = "cr" /\ u[j] = ":" /\ u[j + 1] = "sp"
             /\ \A h \in g + 1 .. i - 1 : u[h] = "cr" => Continues(u, h)
  BY <1>1
<1>3. g \in 1 .. k - 1 /\ j \in g + 1 .. k - 2
  BY <1>1, <1>2
<1>4. \A h \in g + 1 .. k - 1 : h \in g + 1 .. i - 1 \/ h \in i .. k - 1
  BY <1>1
<1>5. \A h \in g + 1 .. k - 1 : u[h] = "cr" => Continues(u, h)
  BY <1>2, <1>4
<1>6. QED
  BY <1>2, <1>3, <1>5 DEF InValue

\* A fold is completed at the start of a line, if there was a line before it
\* that is not the request line.
LEMMA FoldsAtLineStart ==
  ASSUME NEW t \in Seq(Chars), NEW c \in Chars, NEW n, n = Len(t),
         NEW u, u = Append(t, c), NEW s, NEW r, Lines(t, s, r)
  PROVE  /\ n > 1 /\ Fold(u, n - 1) => s = "header_line_start" /\ c \in Lws /\ r.headers # <<>>
         /\ s = "header_line_start" /\ c \in Lws /\ r.headers # <<>> => n > 1 /\ Fold(u, n - 1)
<1>1. n \in Nat /\ Len(u) = n + 1 /\ (\A j \in 1 .. n : u[j] = t[j]) /\ u[n + 1] = c
  BY AppendProperties, LenProperties
<1>2. n > 1 => n - 1 + 1 = n /\ n - 1 + 2 = n + 1 /\ n - 1 - 1 = n - 2 /\ n - 1 \in 1 .. n /\ n \in 1 .. n
  BY <1>1
<1>3. ASSUME n > 1, Fold(u, n - 1)
      PROVE  s = "header_line_start" /\ c \in Lws /\ r.headers # <<>>
  <2>1. u[n - 1 + 1] = "lf" /\ u[n - 1 + 2] \in Lws
    BY <1>3 DEF Fold, Continues
  <2>2. t[n] = "lf" /\ c \in Lws
    BY <1>1, <1>2, <1>3, <2>1
  <2>3. s = "header_line_start" <=> n > 0 /\ t[n] = "lf"
    BY DEF Lines, LinesTo
  <2>4. PICK g \in 1 .. n - 2 : u[g] = "cr"
    BY <1>2, <1>3 DEF Fold, InValue
  <2>5. t[g] = "cr"
    BY <1>1, <1>2, <1>3, <2>4
  <2>6. s = "header_line_start"
    BY <1>1, <1>3, <2>2, <2>3
  <2>7. r.headers = <<>> => NoBreak(t, n - 2)
    BY <2>6 DEF Lines, LinesTo
  <2>8. QED
    BY <2>2, <2>4, <2>5, <2>6, <2>7 DEF NoBreak
<1>4. ASSUME s = "header_line_start", c \in Lws, r.headers # <<>>
      PROVE  n > 1 /\ Fold(u, n - 1)
  <2>1. n > 1 /\ t[n - 1] = "cr" /\ t[n] = "lf" /\ InValue(t, n - 1)
    BY <1>4 DEF Lines, LinesTo
  <2>2. u[n - 1] = "cr" /\ u[n] = "lf"
    BY <1>1, <1>2, <2>1
  <2>3. Continues(u, n - 1)
    BY <1>1, <1>2, <1>4, <2>1, <2>2 DEF Continues
  <2>4. InValue(u, n - 1)
    <3>1. n - 1 \in Nat /\ n - 1 <= n + 1
      BY <1>1, <2>1
    <3>2. Extends(u, t, n)
      BY AppendExtends
    <3>3. QED
      BY <2>1, <3>1, <3>2, InValueExtends
  <2>5. QED
    BY <2>1, <2>3, <2>4 DEF Fold
<1>5. QED
  BY <1>3, <1>4

\* The text u is t and the character that is read after it.
Reads(t, c, u) == t \in Seq(Chars) /\ c \in Chars /\ u = Append(t, c)

\* What a character adds to the text without folds.
LEMMA TextStep ==
  ASSUME NEW t, NEW c, NEW u, Reads(t, c, u), NEW s, NEW r, Lines(t, s, r)
  PROVE  /\ ~(s \in {"header_line_start", "header_lws"} /\ c \in Lws) =>
              Unfold(u) = With(Unfold(t), c)
         /\ s = "header_lws" /\ c \in Lws => Unfold(u) = Unfold(t)
         /\ s = "header_line_start" /\ r.headers = <<>> => Unfold(u) = With(Unfold(t), c)
         /\ s = "header_line_start" /\ c \in Lws /\ r.headers # <<>> =>
              /\ Unfold(u) \in Seq(Chars)
              /\ Unfold(t) = With(With(Unfold(u), "cr"), "lf")
<1>0. t \in Seq(Chars) /\ c \in Chars /\ u = Append(t, c)
  BY DEF Reads
<1>1. PICK n \in Nat : n = Len(t)
  BY <1>0, LenProperties
<1>2. s = "header_lws" <=> n > 0 /\ InFold(t, n)
  BY <1>1 DEF Lines, LinesTo
<1>3. CASE ~(s = "header_line_start" /\ c \in Lws /\ r.headers # <<>>)
  <2>1. ~(n > 1 /\ Fold(u, n - 1))
    <3>1. n > 1 /\ Fold(u, n - 1) => s = "header_line_start" /\ c \in Lws /\ r.headers # <<>>
      BY <1>0, <1>1, FoldsAtLineStart
    <3>2. QED
      BY <1>3, <3>1
  <2>2. Unfold(u) = IF c \in Lws /\ n > 0 /\ InFold(t, n) THEN Unfold(t) ELSE With(Unfold(t), c)
    BY <1>0, <1>1, <2>1, UnfoldAppend DEF With
  <2>3. QED
    BY <1>2, <1>3, <2>2
<1>4. CASE s = "header_line_start" /\ c \in Lws /\ r.headers # <<>>
  <2>1. n > 1 /\ Fold(u, n - 1)
    <3>1. s = "header_line_start" /\ c \in Lws /\ r.headers # <<>> => n > 1 /\ Fold(u, n - 1)
      BY <1>0, <1>1, FoldsAtLineStart
    <3>2. QED
      BY <1>4, <3>1
  <2>2. Unfold(u) \in Seq(Chars) /\ Unfold(t) = With(With(Unfold(u), "cr"), "lf")
    BY <1>0, <1>1, <2>1, UnfoldFold DEF With
  <2>3. QED
    BY <1>4, <2>2
<1>5. QED
  BY <1>3, <1>4

\* A field other than the headers, or the last header, leaves none or some.
LEMMA PutHeaders ==
  ASSUME req \in Request, NEW c \in Chars,
         NEW where \in {"nothing", "method", "uri", "major", "minor"}
  PROVE  Put(where, c).headers = req.headers
<1>1. CASE where = "nothing"
  BY <1>1, PutIs
<1>2. CASE where = "method"
  BY <1>2, PutIs DEF Request
<1>3. CASE where = "uri"
  BY <1>3, PutIs DEF Request
<1>4. CASE where = "major"
  BY <1>4, PutIs DEF Request
<1>5. CASE where = "minor"
  BY <1>5, PutIs DEF Request
<1>6. QED
  BY <1>1, <1>2, <1>3, <1>4, <1>5

\* The other fields stay.
LEMMA PutFields ==
  ASSUME req \in Request, NEW c \in Chars
  PROVE  /\ \A r : r = Put("method", c) =>
              /\ r.method = With(req.method, c) /\ r.uri = req.uri
              /\ r.major = req.major /\ r.minor = req.minor /\ r.headers = req.headers
         /\ \A r : r = Put("uri", c) =>
              /\ r.method = req.method /\ r.uri = With(req.uri, c)
              /\ r.major = req.major /\ r.minor = req.minor /\ r.headers = req.headers
         /\ \A r : r = Put("major", c) =>
              /\ r.method = req.method /\ r.uri = req.uri
              /\ r.major = With(req.major, c) /\ r.minor = req.minor /\ r.headers = req.headers
         /\ \A r : r = Put("minor", c) =>
              /\ r.method = req.method /\ r.uri = req.uri
              /\ r.major = req.major /\ r.minor = With(req.minor, c) /\ r.headers = req.headers
<1>1. Put("method", c) = [req EXCEPT !.method = Append(@, c)]
  BY PutIs
<1>2. Put("uri", c) = [req EXCEPT !.uri = Append(@, c)]
  BY PutIs
<1>3. Put("major", c) = [req EXCEPT !.major = Append(@, c)]
  BY PutIs
<1>4. Put("minor", c) = [req EXCEPT !.minor = Append(@, c)]
  BY PutIs
<1>5. \A r : r = Put("method", c) =>
       /\ r.method = With(req.method, c) /\ r.uri = req.uri /\ r.major = req.major /\ r.minor = req.minor
       /\ r.headers = req.headers
  BY <1>1 DEF Request, With
<1>6. \A r : r = Put("uri", c) =>
       /\ r.method = req.method /\ r.uri = With(req.uri, c) /\ r.major = req.major /\ r.minor = req.minor
       /\ r.headers = req.headers
  BY <1>2 DEF Request, With
<1>7. \A r : r = Put("major", c) =>
       /\ r.method = req.method /\ r.uri = req.uri /\ r.major = With(req.major, c) /\ r.minor = req.minor
       /\ r.headers = req.headers
  BY <1>3 DEF Request, With
<1>8. \A r : r = Put("minor", c) =>
       /\ r.method = req.method /\ r.uri = req.uri /\ r.major = req.major /\ r.minor = With(req.minor, c)
       /\ r.headers = req.headers
  BY <1>4 DEF Request, With
<1>9. QED
  BY <1>5, <1>6, <1>7, <1>8

\* There are headers from the first one on.
LEMMA PutSomeHeaders ==
  ASSUME req \in Request, NEW c \in Chars,
         NEW row \in RequestLine \cup HttpVersion \cup Headers(req.headers), c \in row.on,
         row.from \in HeaderStates => req.headers # <<>>
  PROVE  /\ req.headers # <<>> \/ row.to \in HeaderStates => Put(row.put, c).headers # <<>>
         /\ req.headers = <<>> /\ row.put # "header" => Put(row.put, c).headers = <<>>
<1>1. RowPut(row, c)
  BY RowsPut
<1>2. PICK q : q = Put(row.put, c)
  OBVIOUS
<1>3. CASE row.put \in {"nothing", "method", "uri", "major", "minor"}
  <2>1. q.headers = req.headers
    BY <1>2, <1>3, PutHeaders
  <2>2. row.to \in HeaderStates => req.headers # <<>>
    BY <1>1, <1>3 DEF RowPut
  <2>3. QED
    BY <1>2, <2>1, <2>2
<1>4. CASE row.put = "header"
  <2>1. Put("header", c) = [req EXCEPT !.headers = Append(@, [name |-> <<c>>, value |-> <<>>])]
    BY PutIs
  <2>2. PICK hs, h : hs = req.headers /\ h = [name |-> <<c>>, value |-> <<>>]
    OBVIOUS
  <2>3. q.headers = Append(hs, h)
    BY <1>2, <1>4, <2>1, <2>2 DEF Request
  <2>4. hs \in Seq(Header) /\ h \in Header
    <3>1. <<>> \in Seq(Chars) /\ <<c>> \in Seq(Chars)
      BY EmptySeq
    <3>2. QED
      BY <2>2, <3>1 DEF Request, Header
  <2>5. Append(hs, h) # <<>>
    BY <2>4, AppendProperties
  <2>6. QED
    BY <1>2, <1>4, <2>3, <2>5
<1>5. CASE row.put \in {"name", "value"}
  <2>1. req.headers # <<>>
    BY <1>1, <1>5 DEF RowPut
  <2>2. PICK hs \in Seq(Header), h \in Header : LastIs(req, hs, h)
    <3>1. req.headers \in Seq(Header)
      BY DEF Request
    <3>2. \E hs \in Seq(Header), h \in Header : req.headers = Append(hs, h)
      BY <2>1, <3>1, SequenceEmptyOrAppend
    <3>3. QED
      BY <3>2 DEF LastIs
  <2>3. \A y \in Header : Append(hs, y) # <<>>
    BY AppendProperties
  <2>4. CASE row.put = "name"
    <3>1. PICK x \in Header : LastIs(Put("name", c), hs, x)
      BY <2>2, PutLast
    <3>2. QED
      BY <2>1, <2>3, <2>4, <3>1 DEF LastIs
  <2>5. CASE row.put = "value"
    <3>1. PICK x \in Header : LastIs(Put("value", c), hs, x)
      BY <2>2, PutLast
    <3>2. QED
      BY <2>1, <2>3, <2>5, <3>1 DEF LastIs
  <2>6. QED
    BY <1>5, <2>4, <2>5
<1>6. QED
  BY <1>1, <1>3, <1>4, <1>5 DEF RowPut

\* The line a header's value goes on from or starts in, and the name before it.
LEMMA ValueStep ==
  ASSUME NEW t \in Seq(Chars), NEW c \in Chars, NEW n, n = Len(t), NEW u, u = Append(t, c)
  PROVE  /\ InValue(t, n + 1) => InValue(u, n + 1)
         /\ InValue(t, n + 1) /\ c # "cr" => InValue(u, n + 2)
         /\ n > 0 /\ InValue(t, n) => InValue(u, n)
         /\ n > 1 /\ Fold(u, n - 1) => InValue(u, n + 2)
         /\ \A g : NameSince(t, g, n) /\ c \in Token => NameSince(u, g, n + 1)
         /\ \A g : NameSince(t, g, n) => NameSince(u, g, n)
         /\ n > 1 /\ t[n - 1] = "cr" /\ t[n] = "lf" /\ c \in Token => NameSince(u, n - 1, n + 1)
         /\ \A g : t[n] = ":" /\ NameSince(t, g, n - 1) /\ c = "sp" => InValue(u, n + 2)
<1>1. n \in Nat /\ Len(u) = n + 1 /\ (\A j \in 1 .. n : u[j] = t[j]) /\ u[n + 1] = c
  BY AppendProperties, LenProperties
<1>2. Extends(u, t, n)
  BY AppendExtends
<1>3. InValue(t, n + 1) => InValue(u, n + 1)
  BY <1>1, <1>2, InValueExtends
<1>4. n > 0 /\ InValue(t, n) => InValue(u, n)
  BY <1>1, <1>2, InValueExtends
<1>5. ASSUME InValue(t, n + 1), c # "cr" PROVE InValue(u, n + 2)
  <2>1. PICK i \in Nat, k \in Nat : i = n + 1 /\ k = n + 2
    BY <1>1
  <2>2. i <= k /\ \A h \in i .. k - 1 : u[h] = "cr" => Continues(u, h)
    BY <1>1, <1>5, <2>1
  <2>3. InValue(u, i)
    BY <1>3, <1>5, <2>1
  <2>4. InValue(u, k)
    BY <2>2, <2>3, InValueGoesOn
  <2>5. QED
    BY <2>1, <2>4
<1>6. ASSUME n > 1, Fold(u, n - 1) PROVE InValue(u, n + 2)
  <2>1. PICK i \in Nat, k \in Nat : i = n - 1 /\ k = n + 2
    BY <1>1, <1>6
  <2>2. Continues(u, n - 1) /\ InValue(u, n - 1)
    BY <1>6 DEF Fold
  <2>3. n - 1 + 1 = n /\ n - 1 + 2 = n + 1
    BY <1>1
  <2>4. u[n] = "lf" /\ u[n + 1] \in Lws
    BY <2>2, <2>3 DEF Continues
  <2>5. u[n] # "cr" /\ u[n + 1] # "cr"
    BY <2>4 DEF Lws
  <2>6. \A h \in i .. k - 1 : h = n - 1 \/ h = n \/ h = n + 1
    BY <1>1, <2>1
  <2>7. i <= k /\ \A h \in i .. k - 1 : u[h] = "cr" => Continues(u, h)
    BY <1>1, <2>1, <2>2, <2>5, <2>6
  <2>8. InValue(u, i)
    BY <2>1, <2>2
  <2>9. InValue(u, k)
    BY <2>7, <2>8, InValueGoesOn
  <2>10. QED
    BY <2>1, <2>9
<1>7. ASSUME NEW g, NameSince(t, g, n), c \in Token PROVE NameSince(u, g, n + 1)
  <2>1. g \in 1 .. n /\ g + 1 \in 1 .. n /\ g \in 1 .. n + 1 - 2
    BY <1>1, <1>7 DEF NameSince
  <2>2. \A h \in g + 2 .. n + 1 : h = n + 1 \/ (h \in g + 2 .. n /\ h \in 1 .. n)
    BY <1>1, <2>1
  <2>3. QED
    BY <1>1, <1>7, <2>1, <2>2 DEF NameSince
<1>8. ASSUME NEW g, NameSince(t, g, n) PROVE NameSince(u, g, n)
  <2>1. g \in 1 .. n /\ g + 1 \in 1 .. n
    BY <1>1, <1>8 DEF NameSince
  <2>2. \A h \in g + 2 .. n : h \in 1 .. n
    BY <1>1, <2>1
  <2>3. QED
    BY <1>1, <1>8, <2>1, <2>2 DEF NameSince
<1>9. ASSUME n > 1, t[n - 1] = "cr", t[n] = "lf", c \in Token PROVE NameSince(u, n - 1, n + 1)
  <2>1. n - 1 \in 1 .. n + 1 - 2 /\ n - 1 \in 1 .. n /\ n \in 1 .. n /\ n - 1 + 1 = n
    BY <1>1, <1>9
  <2>2. \A h \in n - 1 + 2 .. n + 1 : h = n + 1
    BY <1>1
  <2>3. QED
    BY <1>1, <1>9, <2>1, <2>2 DEF NameSince
<1>10. ASSUME NEW g, t[n] = ":", NameSince(t, g, n - 1), c = "sp" PROVE InValue(u, n + 2)
  <2>1. g \in 1 .. n - 1 - 2 /\ t[g] = "cr" /\ t[g + 1] = "lf"
        /\ \A h \in g + 2 .. n - 1 : t[h] \in Token
    BY <1>10 DEF NameSince
  <2>2. g \in 1 .. n /\ n \in 1 .. n /\ g + 1 \in 1 .. n
        /\ g \in 1 .. n + 2 - 1 /\ n \in g + 1 .. n + 2 - 2
    BY <1>1, <2>1
  <2>3. u[g] = "cr" /\ u[n] = ":" /\ u[n + 1] = "sp" /\ u[g + 1] = "lf"
    BY <1>1, <1>10, <2>1, <2>2
  <2>4. ASSUME NEW h \in g + 1 .. n + 2 - 1 PROVE u[h] # "cr"
    <3>1. h = g + 1 \/ (h \in g + 2 .. n - 1 /\ h \in 1 .. n) \/ h = n \/ h = n + 1
      BY <1>1, <2>2
    <3>2. h \in g + 2 .. n - 1 /\ h \in 1 .. n => u[h] # "cr"
      BY <1>1, <2>1, Classes
    <3>3. QED
      BY <2>3, <3>1, <3>2
  <2>5. QED
    BY <2>2, <2>3, <2>4 DEF InValue
<1>11. QED
  BY <1>3, <1>4, <1>5, <1>6, <1>7, <1>8, <1>9, <1>10

\* Every transition keeps what the state says of the lines.
LEMMA LinesStep ==
  ASSUME req \in Request, NEW t \in Seq(Chars), NEW c \in Chars, NEW u, u = Append(t, c),
         Lines(t, state_, req),
         NEW row \in RequestLine \cup HttpVersion \cup Headers(req.headers),
         row.from = state_, c \in row.on
  PROVE  Lines(u, row.to, Put(row.put, c))
<1>1. PICK n \in Nat : n = Len(t)
  BY LenProperties
<1>2. PICK s, r, q : s = state_ /\ r = req /\ q = Put(row.put, c)
  OBVIOUS
<1>3. Lines(t, s, r) /\ LinesTo(t, n, s, r) /\ row.from = s
  BY <1>1, <1>2 DEF Lines
<1>4. Len(u) = n + 1 /\ (\A j \in 1 .. n : u[j] = t[j]) /\ u[n + 1] = c
  BY <1>1, AppendProperties
<1>5. RowLines(row, c) /\ RowPut(row, c)
  BY RowsLines, RowsPut
<1>6. /\ r.headers # <<>> \/ row.to \in HeaderStates => q.headers # <<>>
      /\ r.headers = <<>> /\ row.put # "header" => q.headers = <<>>
  <2>1. row.from \in HeaderStates => req.headers # <<>>
    BY <1>2, <1>3 DEF LinesTo
  <2>2. QED
    BY <1>2, <2>1, PutSomeHeaders
<1>7. /\ n > 1 /\ Fold(u, n - 1) => s = "header_line_start" /\ c \in Lws /\ r.headers # <<>>
      /\ s = "header_line_start" /\ c \in Lws /\ r.headers # <<>> => n > 1 /\ Fold(u, n - 1)
  <2>1. Lines(t, s, r) /\ n = Len(t)
    BY <1>1, <1>3
  <2>2. n > 1 /\ Fold(u, n - 1) => s = "header_line_start" /\ c \in Lws /\ r.headers # <<>>
    BY <2>1, FoldsAtLineStart
  <2>3. s = "header_line_start" /\ c \in Lws /\ r.headers # <<>> => n > 1 /\ Fold(u, n - 1)
    BY <2>1, FoldsAtLineStart
  <2>4. QED
    BY <2>2, <2>3
<1>8. s = "header_line_start" /\ c \in Lws => r.headers # <<>>
  BY <1>2, <1>3, <1>5 DEF RowPut
<1>9. /\ InValue(t, n + 1) => InValue(u, n + 1)
      /\ InValue(t, n + 1) /\ c # "cr" => InValue(u, n + 2)
      /\ n > 0 /\ InValue(t, n) => InValue(u, n)
      /\ n > 1 /\ Fold(u, n - 1) => InValue(u, n + 2)
      /\ \A g : NameSince(t, g, n) /\ c \in Token => NameSince(u, g, n + 1)
      /\ \A g : NameSince(t, g, n) => NameSince(u, g, n)
      /\ n > 1 /\ t[n - 1] = "cr" /\ t[n] = "lf" /\ c \in Token => NameSince(u, n - 1, n + 1)
      /\ \A g : t[n] = ":" /\ NameSince(t, g, n - 1) /\ c = "sp" => InValue(u, n + 2)
  BY <1>1, ValueStep
<1>10. s = "header_line_start" => n > 1 /\ t[n - 1] = "cr" /\ t[n] = "lf"
  BY <1>3 DEF LinesTo
<1>11. row.to = "header_lws" <=> n + 1 > 0 /\ InFold(u, n + 1)
  <2>1. InFold(u, n + 1) <=> c \in Lws /\ ((n > 0 /\ InFold(t, n)) \/ (n > 1 /\ Fold(u, n - 1)))
    BY <1>1, LastInFold
  <2>2. s = "header_lws" <=> n > 0 /\ InFold(t, n)
    BY <1>3 DEF LinesTo
  <2>3. row.to = "header_lws" <=> c \in Lws /\ s \in {"header_lws", "header_line_start"}
    BY <1>3, <1>5 DEF RowLines
  <2>4. n + 1 > 0
    BY <1>1
  <2>5. QED
    BY <1>7, <1>8, <2>1, <2>2, <2>3, <2>4
<1>12. /\ row.to = "header_line_start" <=> n + 1 > 0 /\ u[n + 1] = "lf"
       /\ row.to \in NewlineStates <=> n + 1 > 0 /\ u[n + 1] = "cr"
  <2>1. /\ row.to = "header_line_start" <=> c = "lf"
        /\ row.to \in NewlineStates <=> c = "cr"
    BY <1>5 DEF RowLines
  <2>2. QED
    BY <1>1, <1>4, <2>1
<1>13. row.to = "header_line_start" =>
         /\ s \in {"expecting_newline_1", "expecting_newline_2"} /\ s \in NewlineStates
         /\ n > 0 /\ t[n] = "cr" /\ n \in 1 .. n /\ u[n] = "cr"
  <2> SUFFICES ASSUME row.to = "header_line_start"
               PROVE  /\ s \in {"expecting_newline_1", "expecting_newline_2"} /\ s \in NewlineStates
                      /\ n > 0 /\ t[n] = "cr" /\ n \in 1 .. n /\ u[n] = "cr"
    OBVIOUS
  <2>1. s \in {"expecting_newline_1", "expecting_newline_2"} /\ s \in NewlineStates
    BY <1>3, <1>5 DEF RowLines, NewlineStates
  <2>2. n > 0 /\ t[n] = "cr"
    BY <1>3, <2>1 DEF LinesTo
  <2>3. n \in 1 .. n
    BY <1>1, <2>2
  <2>4. QED
    BY <1>4, <2>1, <2>2, <2>3
<1>14. row.to \notin LaterStates => NoBreak(u, n + 1 - 1) /\ q.headers = <<>>
  <2> SUFFICES ASSUME row.to \notin LaterStates PROVE NoBreak(u, n) /\ q.headers = <<>>
    BY <1>1
  <2>1. s \notin LaterStates /\ s \notin NewlineStates
    BY <1>3, <1>5 DEF RowLines
  <2>2. NoBreak(t, n - 1) /\ r.headers = <<>>
    BY <1>3, <2>1 DEF LinesTo
  <2>3. ~(n > 0 /\ t[n] = "cr")
    BY <1>3, <2>1 DEF LinesTo
  <2>4. ASSUME NEW h \in 1 .. n PROVE u[h] # "cr"
    <3>1. h \in 1 .. n - 1 \/ (h = n /\ n > 0)
      BY <1>1
    <3>2. QED
      BY <1>4, <2>2, <2>3, <3>1 DEF NoBreak
  <2>5. row.put # "header"
    BY <1>3, <1>5, <2>1 DEF RowPut, LaterStates
  <2>6. QED
    BY <1>6, <2>2, <2>4, <2>5 DEF NoBreak
<1>15. row.to = "header_line_start" =>
         IF q.headers = <<>> THEN NoBreak(u, n + 1 - 2) ELSE InValue(u, n + 1 - 1)
  <2> SUFFICES ASSUME row.to = "header_line_start"
               PROVE  IF q.headers = <<>> THEN NoBreak(u, n - 1) ELSE InValue(u, n)
    BY <1>1
  <2>1. row.put # "header"
    BY <1>3, <1>5, <1>13 DEF RowPut
  <2>2. CASE s = "expecting_newline_1"
    <3>1. NoBreak(t, n - 1) /\ r.headers = <<>>
      BY <1>3, <2>2 DEF LinesTo, LaterStates, HeaderStates
    <3>2. q.headers = <<>>
      BY <1>6, <2>1, <3>1
    <3>3. \A h \in 1 .. n - 1 : h \in 1 .. n
      BY <1>1
    <3>4. NoBreak(u, n - 1)
      BY <1>4, <3>1, <3>3 DEF NoBreak
    <3>5. QED
      BY <3>2, <3>4
  <2>3. CASE s = "expecting_newline_2"
    <3>1. InValue(t, n) /\ r.headers # <<>>
      BY <1>3, <2>3 DEF LinesTo, HeaderStates
    <3>2. InValue(u, n) /\ q.headers # <<>>
      BY <1>6, <1>9, <1>13, <3>1
    <3>3. QED
      BY <3>2
  <2>4. QED
    BY <1>13, <2>2, <2>3
<1>16. row.to = "header_name" => \E g : NameSince(u, g, n + 1)
  <2> SUFFICES ASSUME row.to = "header_name" PROVE \E g : NameSince(u, g, n + 1)
    OBVIOUS
  <2>1. c \in Token /\ s \in {"header_line_start", "header_name"}
    BY <1>3, <1>5 DEF RowLines
  <2>2. CASE s = "header_line_start"
    BY <1>9, <1>10, <2>1, <2>2
  <2>3. CASE s = "header_name"
    <3>1. PICK g : NameSince(t, g, n)
      BY <1>3, <2>3 DEF LinesTo
    <3>2. QED
      BY <1>9, <2>1, <3>1
  <2>4. QED
    BY <2>1, <2>2, <2>3
<1>17. row.to = "space_before_header_value" =>
         u[n + 1] = ":" /\ \E g : NameSince(u, g, n + 1 - 1)
  <2> SUFFICES ASSUME row.to = "space_before_header_value"
               PROVE  u[n + 1] = ":" /\ \E g : NameSince(u, g, n)
    BY <1>1
  <2>1. c = ":" /\ s = "header_name"
    BY <1>3, <1>5 DEF RowLines
  <2>2. PICK g : NameSince(t, g, n)
    BY <1>3, <2>1 DEF LinesTo
  <2>3. QED
    BY <1>4, <1>9, <2>1, <2>2
<1>18. row.to \in {"header_value", "header_lws"} => InValue(u, n + 1 + 1)
  <2> SUFFICES ASSUME row.to \in {"header_value", "header_lws"} PROVE InValue(u, n + 2)
    BY <1>1
  <2>1. s \in {"space_before_header_value", "header_value", "header_lws", "header_line_start"}
    BY <1>3, <1>5 DEF RowLines
  <2>2. CASE s = "space_before_header_value"
    <3>1. t[n] = ":" /\ \E g : NameSince(t, g, n - 1)
      BY <1>3, <2>2 DEF LinesTo
    <3>2. PICK g : NameSince(t, g, n - 1)
      BY <3>1
    <3>3. c = "sp"
      BY <1>3, <1>5, <2>2 DEF RowLines
    <3>4. QED
      BY <1>9, <3>1, <3>2, <3>3
  <2>3. CASE s \in {"header_value", "header_lws"}
    <3>1. InValue(t, n + 1)
      BY <1>3, <2>3 DEF LinesTo
    <3>2. c # "cr"
      BY <1>5 DEF RowLines, NewlineStates
    <3>3. QED
      BY <1>9, <3>1, <3>2
  <2>4. CASE s = "header_line_start"
    <3>1. c \in Lws
      BY <1>3, <1>5, <2>4 DEF RowLines
    <3>2. n > 1 /\ Fold(u, n - 1)
      BY <1>7, <1>8, <2>4, <3>1
    <3>3. QED
      BY <1>9, <3>2
  <2>5. QED
    BY <2>1, <2>2, <2>3, <2>4
<1>19. row.to = "expecting_newline_2" => InValue(u, n + 1)
  <2> SUFFICES ASSUME row.to = "expecting_newline_2" PROVE InValue(u, n + 1)
    OBVIOUS
  <2>1. s \in {"header_value", "header_lws"}
    BY <1>3, <1>5 DEF RowLines
  <2>2. QED
    BY <1>3, <1>9, <2>1 DEF LinesTo
<1>20. row.to = "header_line_start" => n + 1 > 1 /\ u[n + 1 - 1] = "cr"
  <2>1. n > 0 => n + 1 > 1 /\ n + 1 - 1 = n
    BY <1>1
  <2>2. QED
    BY <1>13, <2>1
<1>21. PICK k \in Nat : k = n + 1
  BY <1>1
<1>22. LinesTo(u, k, row.to, q)
  <2>1. row.to \in HeaderStates => q.headers # <<>>
    BY <1>6
  <2>2. PICK a, b, d : a = n + 1 - 1 /\ b = n + 1 - 2 /\ d = n + 1 + 1
    OBVIOUS
  <2>3. a = k - 1 /\ b = k - 2 /\ d = k + 1
    BY <1>21, <2>2
  <2>4. /\ row.to = "header_lws" <=> k > 0 /\ InFold(u, k)
        /\ row.to = "header_line_start" <=> k > 0 /\ u[k] = "lf"
        /\ row.to \in NewlineStates <=> k > 0 /\ u[k] = "cr"
    BY <1>11, <1>12, <1>21
  <2>5. /\ row.to = "header_line_start" => k > 1 /\ u[a] = "cr"
        /\ row.to \notin LaterStates => NoBreak(u, a) /\ q.headers = <<>>
        /\ row.to = "header_line_start" =>
             IF q.headers = <<>> THEN NoBreak(u, b) ELSE InValue(u, a)
    BY <1>14, <1>15, <1>20, <1>21, <2>2
  <2>6. /\ row.to = "header_name" => \E g : NameSince(u, g, k)
        /\ row.to = "space_before_header_value" => u[k] = ":" /\ \E g : NameSince(u, g, a)
    BY <1>16, <1>17, <1>21, <2>2
  <2>7. /\ row.to \in {"header_value", "header_lws"} => InValue(u, d)
        /\ row.to = "expecting_newline_2" => InValue(u, k)
    BY <1>18, <1>19, <1>21, <2>2
  <2>8. QED
    BY <2>1, <2>3, <2>4, <2>5, <2>6, <2>7 DEF LinesTo
<1>23. QED
  BY <1>2, <1>4, <1>21, <1>22 DEF Lines


\* What the request line, the version and the headers leave of the texts
\* before them when a field grows.
LEMMA SameTexts ==
  ASSUME NEW r, NEW q
  PROVE  /\ q.method = r.method /\ q.uri = r.uri => MajorText(q) = MajorText(r)
         /\ q.method = r.method /\ q.uri = r.uri /\ q.major = r.major => DotText(q) = DotText(r)
         /\ q.method = r.method /\ q.uri = r.uri /\ q.major = r.major /\ q.minor = r.minor =>
              LineText(q) = LineText(r)
<1>1. q.method = r.method /\ q.uri = r.uri => MajorText(q) = MajorText(r)
  BY DEF MajorText, SlashText, PText, T2Text, T1Text, HText, UriText
<1>2. q.method = r.method /\ q.uri = r.uri /\ q.major = r.major => DotText(q) = DotText(r)
  BY <1>1 DEF DotText
<1>3. q.method = r.method /\ q.uri = r.uri /\ q.major = r.major /\ q.minor = r.minor =>
        LineText(q) = LineText(r)
  BY <1>2 DEF LineText
<1>4. QED
  BY <1>1, <1>2, <1>3

\* The request line is spelled up to its version.
LEMMA RequestLineStep ==
  ASSUME req \in Request, NEW c \in Chars, NEW u \in Seq(Chars), Spelled(u, state_, req),
         NEW row \in RequestLine, row.from = state_, c \in row.on
  PROVE  Put(row.put, c) \in Request /\ Spelled(With(u, c), row.to, Put(row.put, c))
<1>1. row.put \in {"nothing", "method", "uri"}
  BY DEF RequestLine, On
<1>2. Put(row.put, c) \in Request
  BY <1>1, PutType
<1>3. req.method \in Seq(Chars) /\ req.uri \in Seq(Chars)
  BY TextTypes
<1>4. PICK q : q = Put(row.put, c)
  OBVIOUS
<1>5. CASE row = On("method_start", Token, "method", "method")
  <2>1. state_ = "method_start" /\ row.to = "method" /\ row.put = "method"
    BY <1>5 DEF On
  <2>2. u = <<>> /\ req.method = <<>> /\ req.uri = <<>> /\ NoVersion(req)
    BY <2>1 DEF Spelled, HeaderStates
  <2>3. /\ q.method = With(req.method, c) /\ q.uri = req.uri /\ q.major = req.major
        /\ q.minor = req.minor /\ q.headers = req.headers
    BY <1>4, <2>1, PutFields
  <2>4. Spelled(With(u, c), "method", q)
    BY <2>2, <2>3 DEF Spelled, NoVersion, NoMinor
  <2>5. QED
    BY <1>2, <1>4, <2>1, <2>4
<1>6. CASE row = On("method", {"sp"}, "uri", "nothing")
  <2>1. state_ = "method" /\ c = "sp" /\ row.to = "uri" /\ Put(row.put, c) = req
    BY <1>6, PutIs DEF On
  <2>2. u = req.method /\ req.uri = <<>> /\ NoVersion(req)
    BY <2>1 DEF Spelled, HeaderStates
  <2>3. With(u, c) \in Seq(Chars)
    BY TextType
  <2>4. With(u, c) = UriText(req)
    BY <2>1, <2>2, <2>3, ThenNothing DEF UriText
  <2>5. Spelled(With(u, c), "uri", req)
    BY <2>2, <2>4 DEF Spelled
  <2>6. QED
    BY <1>2, <2>1, <2>5
<1>7. CASE row = On("method", Token, "method", "method")
  <2>1. state_ = "method" /\ row.to = "method" /\ row.put = "method"
    BY <1>7 DEF On
  <2>2. u = req.method /\ req.uri = <<>> /\ NoVersion(req)
    BY <2>1 DEF Spelled, HeaderStates
  <2>3. /\ q.method = With(req.method, c) /\ q.uri = req.uri /\ q.major = req.major
        /\ q.minor = req.minor /\ q.headers = req.headers
    BY <1>4, <2>1, PutFields
  <2>4. Spelled(With(u, c), "method", q)
    BY <2>2, <2>3 DEF Spelled, NoVersion, NoMinor
  <2>5. QED
    BY <1>2, <1>4, <2>1, <2>4
<1>8. CASE row = On("uri", {"sp"}, "http_version_h", "nothing")
  <2>1. state_ = "uri" /\ c = "sp" /\ row.to = "http_version_h" /\ Put(row.put, c) = req
    BY <1>8, PutIs DEF On
  <2>2. u = UriText(req) /\ NoVersion(req)
    BY <2>1 DEF Spelled, HeaderStates
  <2>3. Spelled(With(u, c), "http_version_h", req)
    BY <2>1, <2>2 DEF Spelled, HText
  <2>4. QED
    BY <1>2, <2>1, <2>3
<1>9. CASE row = On("uri", NotCtl \ {"sp"}, "uri", "uri")
  <2>1. state_ = "uri" /\ row.to = "uri" /\ row.put = "uri"
    BY <1>9 DEF On
  <2>2. u = UriText(req) /\ NoVersion(req)
    BY <2>1 DEF Spelled, HeaderStates
  <2>3. /\ q.method = req.method /\ q.uri = With(req.uri, c) /\ q.major = req.major
        /\ q.minor = req.minor /\ q.headers = req.headers
    BY <1>4, <2>1, PutFields
  <2>4. With(req.method, "sp") \in Seq(Chars)
    BY <1>3, OwnRole, TextType
  <2>5. With(u, c) = UriText(q)
    BY <1>3, <2>2, <2>3, <2>4, ThenWith DEF UriText
  <2>6. Spelled(With(u, c), "uri", q)
    BY <2>2, <2>3, <2>5 DEF Spelled, NoVersion, NoMinor
  <2>7. QED
    BY <1>2, <1>4, <2>1, <2>6
<1>10. QED
  BY <1>5, <1>6, <1>7, <1>8, <1>9 DEF RequestLine

\* So is the version.
LEMMA HttpVersionStep ==
  ASSUME req \in Request, NEW c \in Chars, NEW u \in Seq(Chars), Spelled(u, state_, req),
         NEW row \in HttpVersion, row.from = state_, c \in row.on
  PROVE  Put(row.put, c) \in Request /\ Spelled(With(u, c), row.to, Put(row.put, c))
<1>1. row.put \in {"nothing", "major", "minor"}
  BY DEF HttpVersion, On
<1>2. Put(row.put, c) \in Request
  BY <1>1, PutType
<1>3. /\ req.major \in Seq(Chars) /\ req.minor \in Seq(Chars)
      /\ MajorText(req) \in Seq(Chars) /\ DotText(req) \in Seq(Chars) /\ LineText(req) \in Seq(Chars)
  BY TextTypes
<1>4. PICK q : q = Put(row.put, c)
  OBVIOUS
<1>5. CASE row = On("http_version_h", {"H"}, "http_version_t_1", "nothing")
  <2>1. state_ = "http_version_h" /\ c = "H" /\ row.to = "http_version_t_1" /\ Put(row.put, c) = req
    BY <1>5, PutIs DEF On
  <2>2. u = HText(req) /\ NoVersion(req)
    BY <2>1 DEF Spelled, HeaderStates
  <2>3. Spelled(With(u, c), "http_version_t_1", req)
    BY <2>1, <2>2 DEF Spelled, T1Text
  <2>4. QED
    BY <1>2, <2>1, <2>3
<1>6. CASE row = On("http_version_t_1", {"T"}, "http_version_t_2", "nothing")
  <2>1. state_ = "http_version_t_1" /\ c = "T" /\ row.to = "http_version_t_2" /\ Put(row.put, c) = req
    BY <1>6, PutIs DEF On
  <2>2. u = T1Text(req) /\ NoVersion(req)
    BY <2>1 DEF Spelled, HeaderStates
  <2>3. Spelled(With(u, c), "http_version_t_2", req)
    BY <2>1, <2>2 DEF Spelled, T2Text
  <2>4. QED
    BY <1>2, <2>1, <2>3
<1>7. CASE row = On("http_version_t_2", {"T"}, "http_version_p", "nothing")
  <2>1. state_ = "http_version_t_2" /\ c = "T" /\ row.to = "http_version_p" /\ Put(row.put, c) = req
    BY <1>7, PutIs DEF On
  <2>2. u = T2Text(req) /\ NoVersion(req)
    BY <2>1 DEF Spelled, HeaderStates
  <2>3. Spelled(With(u, c), "http_version_p", req)
    BY <2>1, <2>2 DEF Spelled, PText
  <2>4. QED
    BY <1>2, <2>1, <2>3
<1>8. CASE row = On("http_version_p", {"P"}, "http_version_slash", "nothing")
  <2>1. state_ = "http_version_p" /\ c = "P" /\ row.to = "http_version_slash" /\ Put(row.put, c) = req
    BY <1>8, PutIs DEF On
  <2>2. u = PText(req) /\ NoVersion(req)
    BY <2>1 DEF Spelled, HeaderStates
  <2>3. Spelled(With(u, c), "http_version_slash", req)
    BY <2>1, <2>2 DEF Spelled, SlashText
  <2>4. QED
    BY <1>2, <2>1, <2>3
<1>9. CASE row = On("http_version_slash", {"/"}, "http_version_major_start", "nothing")
  <2>1. state_ = "http_version_slash" /\ c = "/" /\ row.to = "http_version_major_start" /\ Put(row.put, c) = req
    BY <1>9, PutIs DEF On
  <2>2. u = SlashText(req) /\ NoVersion(req)
    BY <2>1 DEF Spelled, HeaderStates
  <2>3. Spelled(With(u, c), "http_version_major_start", req)
    BY <2>1, <2>2 DEF Spelled, MajorText
  <2>4. QED
    BY <1>2, <2>1, <2>3
<1>10. CASE row = On("http_version_major_start", Digit, "http_version_major", "major")
  <2>1. state_ = "http_version_major_start" /\ row.to = "http_version_major" /\ row.put = "major"
    BY <1>10 DEF On
  <2>2. u = MajorText(req) /\ req.major = <<>> /\ NoMinor(req)
    BY <2>1 DEF Spelled, HeaderStates, NoVersion
  <2>3. /\ q.method = req.method /\ q.uri = req.uri /\ q.major = With(req.major, c) /\ q.minor = req.minor
        /\ q.headers = req.headers
    BY <1>4, <2>1, PutFields
  <2>4. MajorText(q) = MajorText(req)
    BY <2>3, SameTexts
  <2>5. u = Then(MajorText(req), req.major)
    BY <1>3, <2>2, ThenNothing
  <2>6. With(u, c) = Then(MajorText(q), q.major)
    BY <1>3, <2>3, <2>4, <2>5, ThenWith
  <2>7. Spelled(With(u, c), "http_version_major", q)
    BY <2>2, <2>3, <2>6 DEF Spelled, NoMinor
  <2>8. QED
    BY <1>2, <1>4, <2>1, <2>7
<1>11. CASE row = On("http_version_major", Digit, "http_version_major", "major")
  <2>1. state_ = "http_version_major" /\ row.to = "http_version_major" /\ row.put = "major"
    BY <1>11 DEF On
  <2>2. u = Then(MajorText(req), req.major) /\ NoMinor(req)
    BY <2>1 DEF Spelled, HeaderStates
  <2>3. /\ q.method = req.method /\ q.uri = req.uri /\ q.major = With(req.major, c) /\ q.minor = req.minor
        /\ q.headers = req.headers
    BY <1>4, <2>1, PutFields
  <2>4. MajorText(q) = MajorText(req)
    BY <2>3, SameTexts
  <2>5. u = Then(MajorText(req), req.major)
    BY <1>3, <2>2, ThenNothing
  <2>6. With(u, c) = Then(MajorText(q), q.major)
    BY <1>3, <2>3, <2>4, <2>5, ThenWith
  <2>7. Spelled(With(u, c), "http_version_major", q)
    BY <2>2, <2>3, <2>6 DEF Spelled, NoMinor
  <2>8. QED
    BY <1>2, <1>4, <2>1, <2>7
<1>12. CASE row = On("http_version_major", {"."}, "http_version_minor_start", "nothing")
  <2>1. state_ = "http_version_major" /\ c = "." /\ row.to = "http_version_minor_start"
        /\ Put(row.put, c) = req
    BY <1>12, PutIs DEF On
  <2>2. u = Then(MajorText(req), req.major) /\ NoMinor(req)
    BY <2>1 DEF Spelled, HeaderStates
  <2>3. Spelled(With(u, c), "http_version_minor_start", req)
    BY <2>1, <2>2 DEF Spelled, DotText
  <2>4. QED
    BY <1>2, <2>1, <2>3
<1>13. CASE row = On("http_version_minor_start", Digit, "http_version_minor", "minor")
  <2>1. state_ = "http_version_minor_start" /\ row.to = "http_version_minor" /\ row.put = "minor"
    BY <1>13 DEF On
  <2>2. u = DotText(req) /\ req.minor = <<>> /\ req.headers = <<>>
    BY <2>1 DEF Spelled, HeaderStates, NoMinor
  <2>3. /\ q.method = req.method /\ q.uri = req.uri /\ q.major = req.major /\ q.minor = With(req.minor, c)
        /\ q.headers = req.headers
    BY <1>4, <2>1, PutFields
  <2>4. DotText(q) = DotText(req)
    BY <2>3, SameTexts
  <2>5. u = Then(DotText(req), req.minor)
    BY <1>3, <2>2, ThenNothing
  <2>6. With(u, c) = Then(DotText(q), q.minor)
    BY <1>3, <2>3, <2>4, <2>5, ThenWith
  <2>7. Spelled(With(u, c), "http_version_minor", q)
    BY <2>2, <2>3, <2>6 DEF Spelled
  <2>8. QED
    BY <1>2, <1>4, <2>1, <2>7
<1>14. CASE row = On("http_version_minor", Digit, "http_version_minor", "minor")
  <2>1. state_ = "http_version_minor" /\ row.to = "http_version_minor" /\ row.put = "minor"
    BY <1>14 DEF On
  <2>2. u = Then(DotText(req), req.minor) /\ req.headers = <<>>
    BY <2>1 DEF Spelled, HeaderStates
  <2>3. /\ q.method = req.method /\ q.uri = req.uri /\ q.major = req.major /\ q.minor = With(req.minor, c)
        /\ q.headers = req.headers
    BY <1>4, <2>1, PutFields
  <2>4. DotText(q) = DotText(req)
    BY <2>3, SameTexts
  <2>5. u = Then(DotText(req), req.minor)
    BY <1>3, <2>2, ThenNothing
  <2>6. With(u, c) = Then(DotText(q), q.minor)
    BY <1>3, <2>3, <2>4, <2>5, ThenWith
  <2>7. Spelled(With(u, c), "http_version_minor", q)
    BY <2>2, <2>3, <2>6 DEF Spelled
  <2>8. QED
    BY <1>2, <1>4, <2>1, <2>7
<1>15. CASE row = On("http_version_minor", {"cr"}, "expecting_newline_1", "nothing")
  <2>1. state_ = "http_version_minor" /\ c = "cr" /\ row.to = "expecting_newline_1"
        /\ Put(row.put, c) = req
    BY <1>15, PutIs DEF On
  <2>2. u = Then(DotText(req), req.minor) /\ req.headers = <<>>
    BY <2>1 DEF Spelled, HeaderStates
  <2>3. Spelled(With(u, c), "expecting_newline_1", req)
    BY <2>1, <2>2 DEF Spelled
  <2>4. QED
    BY <1>2, <2>1, <2>3
<1>16. CASE row = On("expecting_newline_1", {"lf"}, "header_line_start", "nothing")
  <2>1. state_ = "expecting_newline_1" /\ c = "lf" /\ row.to = "header_line_start"
        /\ Put(row.put, c) = req
    BY <1>16, PutIs DEF On
  <2>2. u = With(Then(DotText(req), req.minor), "cr") /\ req.headers = <<>>
    BY <2>1 DEF Spelled, HeaderStates
  <2>3. With(u, c) = LineText(req)
    BY <2>1, <2>2 DEF LineText
  <2>4. HeadersText(req.headers) = <<>>
    BY <2>2, HeadersTextAppend
  <2>5. With(u, c) = Then(LineText(req), HeadersText(req.headers))
    BY <1>3, <2>3, <2>4, ThenNothing
  <2>6. Spelled(With(u, c), "header_line_start", req)
    BY <2>5 DEF Spelled
  <2>7. QED
    BY <1>2, <2>1, <2>6
<1>17. QED
  BY <1>5, <1>6, <1>7, <1>8, <1>9, <1>10, <1>11, <1>12, <1>13, <1>14, <1>15, <1>16 DEF HttpVersion

\* What a character makes of the text without folds.
Adds(u, c, v) ==
  /\ ~(state_ \in {"header_line_start", "header_lws"} /\ c \in Lws) => v = With(u, c)
  /\ state_ = "header_lws" /\ c \in Lws => v = u
  /\ state_ = "header_line_start" /\ c \in Lws /\ req.headers # <<>> =>
       u = With(With(v, "cr"), "lf")

\* At the start of a line: the end, a header, or the last header goes on.
LEMMA LineStartStep ==
  ASSUME req \in Request, NEW c \in Chars, NEW u \in Seq(Chars), NEW v \in Seq(Chars),
         Spelled(u, state_, req), Adds(u, c, v),
         NEW row \in Headers(req.headers), row.from = state_, c \in row.on,
         state_ = "header_line_start"
  PROVE  Put(row.put, c) \in Request /\ Spelled(v, row.to, Put(row.put, c))
<1>1. row.put \in {"nothing", "header"}
  BY DEF Headers, On
<1>2. Put(row.put, c) \in Request
  BY <1>1, PutType
<1>3. u = Then(LineText(req), HeadersText(req.headers))
  BY DEF Spelled, HeaderStates
<1>4. CASE row = On("header_line_start", {"cr"}, "expecting_newline_3", "nothing")
  <2>1. c = "cr" /\ row.to = "expecting_newline_3" /\ Put(row.put, c) = req
    BY <1>4, PutIs DEF On
  <2>2. v = With(u, c)
    BY <2>1, Classes DEF Adds
  <2>3. Spelled(v, "expecting_newline_3", req)
    BY <1>3, <2>1, <2>2 DEF Spelled
  <2>4. QED
    BY <1>2, <2>1, <2>3
<1>5. CASE row = On("header_line_start", IF req.headers = <<>> THEN {} ELSE Lws, "header_lws", "nothing")
  <2>1. /\ req.headers # <<>> /\ c \in Lws /\ row.to = "header_lws"
        /\ Put(row.put, c) = req
    BY <1>5, PutIs DEF On
  <2>2. u = With(With(v, "cr"), "lf")
    BY <2>1 DEF Adds
  <2>3. req.headers \in Seq(Header)
    BY DEF Request
  <2>4. PICK hs \in Seq(Header), h \in Header : req.headers = Append(hs, h)
    <3>1. PICK hd \in Seq(Header) : hd = req.headers
      BY <2>3
    <3>2. hd # <<>>
      BY <2>1, <3>1
    <3>3. \E hs \in Seq(Header), h \in Header : hd = Append(hs, h)
      BY <3>2, SequenceEmptyOrAppend
    <3>4. QED
      BY <3>1, <3>3
  <2>5. u = With(With(ValueText(req, hs, h), "cr"), "lf")
    BY <1>3, <2>4, HeaderLine
  <2>6. /\ ValueText(req, hs, h) \in Seq(Chars) /\ "cr" \in Chars /\ "lf" \in Chars
    BY HeaderTypes, OwnRole
  <2>7. With(v, "cr") \in Seq(Chars) /\ With(ValueText(req, hs, h), "cr") \in Seq(Chars)
    BY <2>6, TextType
  <2>8. With(v, "cr") = With(ValueText(req, hs, h), "cr")
    BY <2>2, <2>5, <2>6, <2>7, WithInjective
  <2>9. v = ValueText(req, hs, h)
    BY <2>6, <2>8, WithInjective
  <2>10. Spelled(v, "header_lws", req)
    BY <2>4, <2>9 DEF Spelled, HeaderStates, HeaderPart, LastIs
  <2>11. QED
    BY <1>2, <2>1, <2>10
<1>6. CASE row = On("header_line_start", Token, "header_name", "header")
  <2>1. c \in Token /\ row.to = "header_name" /\ row.put = "header"
    BY <1>6 DEF On
  <2>2. v = With(u, c)
    BY <2>1, Classes DEF Adds
  <2>3. PICK q : q = Put(row.put, c)
    OBVIOUS
  <2>4. PICK h : h = [name |-> <<c>>, value |-> <<>>]
    OBVIOUS
  <2>5. h \in Header /\ h.name = <<c>> /\ h.value = <<>>
    <3>1. <<c>> \in Seq(Chars) /\ <<>> \in Seq(Chars)
      BY EmptySeq
    <3>2. QED
      BY <2>4, <3>1 DEF Header
  <2>6. PICK hs \in Seq(Header) : hs = req.headers
    BY DEF Request
  <2>7. q = [req EXCEPT !.headers = Append(@, h)]
    BY <2>1, <2>3, <2>4, PutIs
  <2>8. /\ q.method = req.method /\ q.uri = req.uri /\ q.major = req.major /\ q.minor = req.minor
        /\ q.headers = Append(hs, h)
    BY <2>6, <2>7 DEF Request
  <2>9. LineText(q) = LineText(req)
    BY <2>8, SameTexts
  <2>10. v = NameText(q, hs, h)
    <3>1. Then(u, <<c>>) = With(u, c)
      BY ThenOne
    <3>2. QED
      BY <1>3, <2>2, <2>5, <2>6, <2>9, <3>1 DEF NameText
  <2>11. Spelled(v, "header_name", q)
    BY <2>5, <2>8, <2>10 DEF Spelled, HeaderStates, HeaderPart, LastIs
  <2>12. QED
    BY <1>2, <2>1, <2>3, <2>11
<1>7. QED
  BY <1>4, <1>5, <1>6 DEF Headers, On

\* The parts of a header, when one of its fields grows.
LEMMA HeaderGrows ==
  ASSUME req \in Request, NEW c \in Chars, NEW hs \in Seq(Header), NEW h \in Header,
         LastIs(req, hs, h)
  PROVE  /\ \E x \in Header :
              /\ LastIs(Put("name", c), hs, x)
              /\ x.value = h.value
              /\ NameText(Put("name", c), hs, x) = With(NameText(req, hs, h), c)
         /\ \E x \in Header :
              /\ LastIs(Put("value", c), hs, x)
              /\ ValueText(Put("value", c), hs, x) = With(ValueText(req, hs, h), c)
<1>1. /\ Then(LineText(req), HeadersText(hs)) \in Seq(Chars)
      /\ With(With(NameText(req, hs, h), ":"), "sp") \in Seq(Chars)
      /\ h.name \in Seq(Chars) /\ h.value \in Seq(Chars)
  BY HeaderTypes, HeaderIs
<1>2. ASSUME NEW where \in {"name", "value"}
      PROVE  LineText(Put(where, c)) = LineText(req)
  <2>1. PICK q : q = Put(where, c)
    OBVIOUS
  <2>2. q.method = req.method /\ q.uri = req.uri /\ q.major = req.major /\ q.minor = req.minor
    BY <2>1, PutLast
  <2>3. QED
    BY <2>1, <2>2, SameTexts
<1>3. \E x \in Header :
        /\ LastIs(Put("name", c), hs, x)
        /\ x.value = h.value
        /\ NameText(Put("name", c), hs, x) = With(NameText(req, hs, h), c)
  <2>1. PICK x \in Header : /\ x.name = With(h.name, c) /\ x.value = h.value
                            /\ LastIs(Put("name", c), hs, x)
    BY PutLast
  <2>2. NameText(Put("name", c), hs, x) = With(NameText(req, hs, h), c)
    BY <1>1, <1>2, <2>1, ThenWith DEF NameText
  <2>3. QED
    BY <2>1, <2>2
<1>4. \E x \in Header :
        /\ LastIs(Put("value", c), hs, x)
        /\ ValueText(Put("value", c), hs, x) = With(ValueText(req, hs, h), c)
  <2>1. PICK x \in Header : /\ x.name = h.name /\ x.value = With(h.value, c)
                            /\ LastIs(Put("value", c), hs, x)
    BY PutLast
  <2>2. NameText(Put("value", c), hs, x) = NameText(req, hs, h)
    BY <1>2, <2>1 DEF NameText
  <2>3. ValueText(Put("value", c), hs, x) = With(ValueText(req, hs, h), c)
    BY <1>1, <2>1, <2>2, ThenWith DEF ValueText
  <2>4. QED
    BY <2>1, <2>3
<1>5. QED
  BY <1>3, <1>4

\* In a header: its name, its value, its end, and the white space of a fold.
LEMMA InHeaderStep ==
  ASSUME req \in Request, NEW c \in Chars, NEW u \in Seq(Chars), NEW v \in Seq(Chars),
         Spelled(u, state_, req), Adds(u, c, v),
         NEW row \in Headers(req.headers), row.from = state_, c \in row.on,
         state_ \in HeaderStates
  PROVE  Put(row.put, c) \in Request /\ Spelled(v, row.to, Put(row.put, c))
<1>1. PICK hs \in Seq(Header), h \in Header : LastIs(req, hs, h) /\ HeaderPart(u, state_, req, hs, h)
  BY DEF Spelled, HeaderStates
<1>2. /\ NameText(req, hs, h) \in Seq(Chars) /\ ValueText(req, hs, h) \in Seq(Chars)
      /\ With(With(NameText(req, hs, h), ":"), "sp") \in Seq(Chars)
  BY HeaderTypes
<1>3. Put("nothing", c) = req
  BY PutIs
<1>4. PICK q : q = Put(row.put, c)
  OBVIOUS
<1>5. CASE row = On("header_lws", {"cr"}, "expecting_newline_2", "nothing")
  <2>1. state_ = "header_lws" /\ c = "cr" /\ row.to = "expecting_newline_2" /\ Put(row.put, c) = req
    BY <1>3, <1>5 DEF On
  <2>2. u = ValueText(req, hs, h)
    BY <1>1, <2>1 DEF HeaderPart
  <2>3. v = With(u, c)
    BY <2>1, Classes DEF Adds
  <2>4. HeaderPart(v, "expecting_newline_2", req, hs, h)
    BY <2>1, <2>2, <2>3 DEF HeaderPart
  <2>5. Spelled(v, "expecting_newline_2", req)
    BY <1>1, <2>4 DEF Spelled, HeaderStates
  <2>6. QED
    BY <2>1, <2>5
<1>6. CASE row = On("header_lws", Lws, "header_lws", "nothing")
  <2>1. state_ = "header_lws" /\ c \in Lws /\ row.to = "header_lws" /\ Put(row.put, c) = req
    BY <1>3, <1>6 DEF On
  <2>2. v = u
    BY <2>1 DEF Adds
  <2>3. QED
    BY <2>1, <2>2
<1>7. CASE row = On("header_lws", (NotCtl \ Lws), "header_value", "value")
  <2>1. state_ = "header_lws" /\ c \in (NotCtl \ Lws) /\ row.to = "header_value" /\ row.put = "value"
    BY <1>7 DEF On
  <2>2. u = ValueText(req, hs, h)
    BY <1>1, <2>1 DEF HeaderPart
  <2>3. v = With(u, c)
    BY <2>1, Classes DEF Adds
  <2>4. PICK x \in Header :
          /\ LastIs(q, hs, x)
          /\ ValueText(q, hs, x) = With(ValueText(req, hs, h), c)
    <3>1. \E x \in Header :
            /\ LastIs(Put("value", c), hs, x)
            /\ ValueText(Put("value", c), hs, x) = With(ValueText(req, hs, h), c)
      BY <1>1, HeaderGrows
    <3>2. QED
      BY <1>4, <2>1, <3>1
  <2>5. HeaderPart(v, "header_value", q, hs, x)
    BY <2>2, <2>3, <2>4 DEF HeaderPart
  <2>6. Spelled(v, "header_value", q)
    BY <2>4, <2>5 DEF Spelled, HeaderStates
  <2>7. q \in Request
    BY <1>1, <1>4, <2>1, PutLast
  <2>8. QED
    BY <1>4, <2>1, <2>6, <2>7
<1>8. CASE row = On("header_name", {":"}, "space_before_header_value", "nothing")
  <2>1. state_ = "header_name" /\ c = ":" /\ row.to = "space_before_header_value" /\ Put(row.put, c) = req
    BY <1>3, <1>8 DEF On
  <2>2. u = NameText(req, hs, h) /\ h.value = <<>>
    BY <1>1, <2>1 DEF HeaderPart
  <2>3. v = With(u, c)
    BY <2>1, Classes DEF Adds
  <2>4. HeaderPart(v, "space_before_header_value", req, hs, h)
    BY <2>1, <2>2, <2>3 DEF HeaderPart
  <2>5. Spelled(v, "space_before_header_value", req)
    BY <1>1, <2>4 DEF Spelled, HeaderStates
  <2>6. QED
    BY <2>1, <2>5
<1>9. CASE row = On("header_name", Token, "header_name", "name")
  <2>1. state_ = "header_name" /\ c \in Token /\ row.to = "header_name" /\ row.put = "name"
    BY <1>9 DEF On
  <2>2. u = NameText(req, hs, h) /\ h.value = <<>>
    BY <1>1, <2>1 DEF HeaderPart
  <2>3. v = With(u, c)
    BY <2>1, Classes DEF Adds
  <2>4. PICK x \in Header :
          /\ LastIs(q, hs, x) /\ x.value = h.value
          /\ NameText(q, hs, x) = With(NameText(req, hs, h), c)
    <3>1. \E x \in Header :
            /\ LastIs(Put("name", c), hs, x) /\ x.value = h.value
            /\ NameText(Put("name", c), hs, x) = With(NameText(req, hs, h), c)
      BY <1>1, HeaderGrows
    <3>2. QED
      BY <1>4, <2>1, <3>1
  <2>5. HeaderPart(v, "header_name", q, hs, x)
    BY <2>2, <2>3, <2>4 DEF HeaderPart
  <2>6. Spelled(v, "header_name", q)
    BY <2>4, <2>5 DEF Spelled, HeaderStates
  <2>7. q \in Request
    BY <1>1, <1>4, <2>1, PutLast
  <2>8. QED
    BY <1>4, <2>1, <2>6, <2>7
<1>10. CASE row = On("space_before_header_value", {"sp"}, "header_value", "nothing")
  <2>1. state_ = "space_before_header_value" /\ c = "sp" /\ row.to = "header_value"
        /\ Put(row.put, c) = req
    BY <1>3, <1>10 DEF On
  <2>2. u = With(NameText(req, hs, h), ":") /\ h.value = <<>>
    BY <1>1, <2>1 DEF HeaderPart
  <2>3. v = With(u, c)
    BY <2>1 DEF Adds
  <2>4. v = ValueText(req, hs, h)
    BY <1>2, <2>1, <2>2, <2>3, ThenNothing DEF ValueText
  <2>5. Spelled(v, "header_value", req)
    BY <1>1, <2>4 DEF Spelled, HeaderStates, HeaderPart
  <2>6. QED
    BY <2>1, <2>5
<1>11. CASE row = On("header_value", {"cr"}, "expecting_newline_2", "nothing")
  <2>1. state_ = "header_value" /\ c = "cr" /\ row.to = "expecting_newline_2" /\ Put(row.put, c) = req
    BY <1>3, <1>11 DEF On
  <2>2. u = ValueText(req, hs, h)
    BY <1>1, <2>1 DEF HeaderPart
  <2>3. v = With(u, c)
    BY <2>1, Classes DEF Adds
  <2>4. HeaderPart(v, "expecting_newline_2", req, hs, h)
    BY <2>1, <2>2, <2>3 DEF HeaderPart
  <2>5. Spelled(v, "expecting_newline_2", req)
    BY <1>1, <2>4 DEF Spelled, HeaderStates
  <2>6. QED
    BY <2>1, <2>5
<1>12. CASE row = On("header_value", NotCtl, "header_value", "value")
  <2>1. state_ = "header_value" /\ c \in NotCtl /\ row.to = "header_value" /\ row.put = "value"
    BY <1>12 DEF On
  <2>2. u = ValueText(req, hs, h)
    BY <1>1, <2>1 DEF HeaderPart
  <2>3. v = With(u, c)
    BY <2>1, Classes DEF Adds
  <2>4. PICK x \in Header :
          /\ LastIs(q, hs, x)
          /\ ValueText(q, hs, x) = With(ValueText(req, hs, h), c)
    <3>1. \E x \in Header :
            /\ LastIs(Put("value", c), hs, x)
            /\ ValueText(Put("value", c), hs, x) = With(ValueText(req, hs, h), c)
      BY <1>1, HeaderGrows
    <3>2. QED
      BY <1>4, <2>1, <3>1
  <2>5. HeaderPart(v, "header_value", q, hs, x)
    BY <2>2, <2>3, <2>4 DEF HeaderPart
  <2>6. Spelled(v, "header_value", q)
    BY <2>4, <2>5 DEF Spelled, HeaderStates
  <2>7. q \in Request
    BY <1>1, <1>4, <2>1, PutLast
  <2>8. QED
    BY <1>4, <2>1, <2>6, <2>7
<1>13. CASE row = On("expecting_newline_2", {"lf"}, "header_line_start", "nothing")
  <2>1. state_ = "expecting_newline_2" /\ c = "lf" /\ row.to = "header_line_start"
        /\ Put(row.put, c) = req
    BY <1>3, <1>13 DEF On
  <2>2. u = With(ValueText(req, hs, h), "cr")
    BY <1>1, <2>1 DEF HeaderPart
  <2>3. v = With(u, c)
    BY <2>1 DEF Adds
  <2>4. v = Then(LineText(req), HeadersText(Append(hs, h)))
    BY <2>1, <2>2, <2>3, HeaderLine
  <2>5. HeadersText(req.headers) = HeadersText(Append(hs, h))
    BY <1>1 DEF LastIs
  <2>6. Spelled(v, "header_line_start", req)
    BY <2>4, <2>5 DEF Spelled
  <2>7. QED
    BY <2>1, <2>6
<1>14. QED
  BY <1>5, <1>6, <1>7, <1>8, <1>9, <1>10, <1>11, <1>12, <1>13 DEF Headers, On, HeaderStates

\* Every transition keeps the request spelled by the text without folds.
LEMMA SpelledStep ==
  ASSUME req \in Request, NEW c \in Chars, NEW u \in Seq(Chars), NEW v \in Seq(Chars),
         Spelled(u, state_, req), Adds(u, c, v),
         NEW row \in RequestLine \cup HttpVersion \cup Headers(req.headers),
         row.from = state_, c \in row.on
  PROVE  Put(row.put, c) \in Request /\ Spelled(v, row.to, Put(row.put, c))
<1>1. CASE row \in RequestLine
  <2>1. state_ \notin {"header_line_start", "header_lws"}
    BY <1>1 DEF RequestLine, On
  <2>2. v = With(u, c)
    BY <2>1 DEF Adds
  <2>3. QED
    BY <1>1, <2>2, RequestLineStep
<1>2. CASE row \in HttpVersion
  <2>1. state_ \notin {"header_line_start", "header_lws"}
    BY <1>2 DEF HttpVersion, On
  <2>2. v = With(u, c)
    BY <2>1 DEF Adds
  <2>3. QED
    BY <1>2, <2>2, HttpVersionStep
<1>3. CASE row \in Headers(req.headers)
  <2>1. state_ = "header_line_start" \/ state_ \in HeaderStates
    BY <1>3 DEF Headers, On, HeaderStates
  <2>2. QED
    BY <1>3, <2>1, LineStartStep, InHeaderStep
<1>4. QED
  BY <1>1, <1>2, <1>3

-------------------------------------------------------------------------------
(* The inductive invariant.                                                *)

\* What the parser reads and what it keeps have their types.
RequestType ==
  /\ text \in Seq(Chars)
  /\ pos \in Nat /\ pos <= Len(text)
  /\ result \in {"none", "true", "false"}
  /\ req \in Request

\* While the parser reads, its state and its request are those of the text
\* read so far; what it has accepted is that text.
ReadInv ==
  /\ RequestType
  /\ result = "none" => /\ Spelled(Unfold(Consumed(pos)), state_, req)
                        /\ Lines(Consumed(pos), state_, req)
  /\ RequestIsItsText

\* The text read so far is empty at first.
LEMMA NothingRead ==
  ASSUME NEW t \in Seq(Chars)
  PROVE  SubSeq(t, 1, 0) = <<>> /\ Unfold(<<>>) = <<>>
<1>1. SubSeq(t, 1, 0) = <<>>
  <2>1. Len(t) \in Nat
    BY LenProperties
  <2>2. QED
    BY <2>1, SubSeqEmpty
<1>2. Unfold(<<>>) = <<>>
  <2>1. PICK e, z : e = <<>> /\ z = 0
    OBVIOUS
  <2>2. Len(e) = z /\ z \in Nat
    BY <2>1
  <2>3. PICK g : KeptBy(g, e, z) /\ Unfold(e) = g[z]
    BY <2>2, UnfoldIs
  <2>4. \A i \in 0 .. z : g[i] = IF i = 0 THEN <<>> ELSE Keep(g[i - 1], e, i)
    BY <2>3 DEF KeptBy
  <2>5. z \in 0 .. z
    BY <2>1
  <2>6. QED
    BY <2>1, <2>3, <2>4, <2>5
<1>3. QED
  BY <1>1, <1>2

\* The next byte is appended to it.
LEMMA ReadOne ==
  ASSUME NEW t \in Seq(Chars), NEW n \in Nat, n < Len(t)
  PROVE  /\ SubSeq(t, 1, n) \in Seq(Chars) /\ t[n + 1] \in Chars
         /\ SubSeq(t, 1, n + 1) = Append(SubSeq(t, 1, n), t[n + 1])
<1>1. Len(t) \in Nat
  BY LenProperties
<1>2. PICK k \in Nat : k = n + 1
  OBVIOUS
<1>3. 1 \in 1 .. Len(t) /\ k \in 1 .. Len(t) /\ k - 1 = n
  BY <1>1, <1>2
<1>4. t[k] \in Chars
  BY <1>3, ElementOfSeq
<1>5. SubSeq(t, 1, n) \in Seq(Chars)
  BY SubSeqProperties
<1>6. SubSeq(t, 1, k) = SubSeq(t, 1, k - 1) \o <<t[k]>>
  BY <1>3, SubSeqRecursiveSecond
<1>7. \A s \in Seq(Chars), c \in Chars : Append(s, c) = s \o <<c>>
  BY AppendIsConcat
<1>8. QED
  BY <1>2, <1>3, <1>4, <1>5, <1>6, <1>7

\* The first bytes of a text.
LEMMA PrefixRead ==
  ASSUME NEW t \in Seq(Chars), NEW n \in Nat, n <= Len(t)
  PROVE  /\ SubSeq(t, 1, n) \in Seq(Chars) /\ Len(SubSeq(t, 1, n)) = n
         /\ \A i \in 1 .. n : SubSeq(t, 1, n)[i] = t[i]
<1>1. Len(t) \in Nat
  BY LenProperties
<1>2. PICK x : x = SubSeq(t, 1, n)
  OBVIOUS
<1>3. x \in Seq(Chars)
  BY <1>2, SubSeqProperties
<1>4. CASE n = 0
  <2>1. x = <<>>
    BY <1>1, <1>2, <1>4, SubSeqEmpty
  <2>2. Len(x) = 0
    BY <2>1
  <2>3. QED
    BY <1>2, <1>3, <1>4, <2>2
<1>5. CASE n > 0
  <2>1. 1 \in 1 .. Len(t) + 1 /\ n \in 0 .. Len(t) /\ 1 <= n + 1
    BY <1>1, <1>5
  <2>2. Len(x) = n /\ \A i \in 1 .. n : x[i] = t[i]
    BY <1>1, <1>2, <2>1, SubSeqProperties
  <2>3. QED
    BY <1>2, <1>3, <2>2
<1>6. QED
  BY <1>4, <1>5

\* The parser starts with nothing read.
LEMMA RequestInitReads ==
  RequestInit => ReadInv
<1> SUFFICES ASSUME RequestInit PROVE ReadInv
  OBVIOUS
<1>1. /\ text \in Texts /\ pos = 0 /\ state_ = "method_start" /\ result = "none"
      /\ req = [method |-> <<>>, uri |-> <<>>, major |-> <<>>, minor |-> <<>>, headers |-> <<>>]
  BY DEF RequestInit, ParserInit
<1>2. text \in Seq(Chars)
  BY <1>1, TextsAssumption
<1>3. req \in Request
  <2>1. <<>> \in Seq(Chars) /\ <<>> \in Seq(Header)
    BY EmptySeq
  <2>2. QED
    BY <1>1, <2>1 DEF Request
<1>4. RequestType
  <2>1. Len(text) \in Nat
    BY <1>2, LenProperties
  <2>2. QED
    BY <1>1, <1>2, <1>3, <2>1 DEF RequestType
<1>5. Consumed(pos) = <<>> /\ Unfold(Consumed(pos)) = <<>>
  BY <1>1, <1>2, NothingRead DEF Consumed
<1>6. /\ req.method = <<>> /\ req.uri = <<>> /\ req.major = <<>> /\ req.minor = <<>>
      /\ req.headers = <<>>
  BY <1>1
<1>7. Spelled(Unfold(Consumed(pos)), state_, req)
  BY <1>1, <1>5, <1>6 DEF Spelled, NoVersion, NoMinor
<1>8. Lines(Consumed(pos), state_, req)
  <2>1. PICK e : e = Consumed(pos)
    OBVIOUS
  <2>2. ~(Len(e) > 0)
    <3>1. Len(e) = 0
      BY <1>5, <2>1
    <3>2. QED
      BY <3>1
  <2>3. Lines(e, state_, req)
    BY <1>1, <1>6, <2>2 DEF Lines, LinesTo, LaterStates, NewlineStates, HeaderStates, NoBreak
  <2>4. QED
    BY <2>1, <2>3
<1>9. RequestIsItsText
  BY <1>1 DEF RequestIsItsText
<1>10. QED
  BY <1>4, <1>7, <1>8, <1>9 DEF ReadInv

\* What a character makes of the text without folds.
LEMMA ReadsAdds ==
  ASSUME NEW t, NEW c, NEW w, Reads(t, c, w), Lines(t, state_, req), NEW u, u = Unfold(t),
         NEW v, v = Unfold(w)
  PROVE  Adds(u, c, v)
<1>1. PICK s, r : s = state_ /\ r = req
  OBVIOUS
<1>2. Lines(t, s, r)
  BY <1>1
<1>3. ~(s \in {"header_line_start", "header_lws"} /\ c \in Lws) =>
        Unfold(w) = With(Unfold(t), c)
  BY <1>2, TextStep
<1>4. s = "header_lws" /\ c \in Lws => Unfold(w) = Unfold(t)
  BY <1>2, TextStep
<1>5. s = "header_line_start" /\ c \in Lws /\ r.headers # <<>> =>
        Unfold(t) = With(With(Unfold(w), "cr"), "lf")
  BY <1>2, TextStep
<1>6. QED
  BY <1>1, <1>3, <1>4, <1>5 DEF Adds

\* A byte that a transition takes.
LEMMA TransitionReads ==
  ASSUME ReadInv, result = "none", NEW t \in Seq(Chars), NEW c \in Chars, NEW w, w = Append(t, c),
         t = Consumed(pos), NEW row \in Transitions(c)
  PROVE  /\ Put(row.put, c) \in Request
         /\ Spelled(Unfold(w), row.to, Put(row.put, c))
         /\ Lines(w, row.to, Put(row.put, c))
<1>1. /\ row \in RequestLine \cup HttpVersion \cup Headers(req.headers)
      /\ row.from = state_ /\ c \in row.on
  BY DEF Transitions
<1>2. req \in Request /\ Spelled(Unfold(t), state_, req) /\ Lines(t, state_, req)
  BY DEF ReadInv, RequestType
<1>3. Lines(w, row.to, Put(row.put, c))
  BY <1>1, <1>2, LinesStep
<1>4. PICK u \in Seq(Chars), v \in Seq(Chars) : u = Unfold(t) /\ v = Unfold(w)
  <2>1. w \in Seq(Chars)
    BY AppendProperties
  <2>2. QED
    BY <2>1, UnfoldType
<1>5. Adds(u, c, v)
  <2>1. Reads(t, c, w)
    BY DEF Reads
  <2>2. QED
    BY <1>2, <1>4, <2>1, ReadsAdds
<1>6. Put(row.put, c) \in Request /\ Spelled(v, row.to, Put(row.put, c))
  <2>1. Spelled(u, state_, req)
    BY <1>2, <1>4
  <2>2. QED
    BY <1>1, <1>2, <1>5, <2>1, SpelledStep
<1>7. QED
  BY <1>3, <1>4, <1>6

\* The last byte of a request.
LEMMA LastReads ==
  ASSUME ReadInv, result = "none", NEW t \in Seq(Chars), NEW w, w = Append(t, "lf"),
         t = Consumed(pos), state_ = "expecting_newline_3"
  PROVE  RequestText(req) = Unfold(w)
<1>1. req \in Request /\ Spelled(Unfold(t), state_, req) /\ Lines(t, state_, req)
  BY DEF ReadInv, RequestType
<1>2. "lf" \in Chars
  BY OwnRole
<1>3. PICK s, r, c : s = state_ /\ r = req /\ c = "lf"
  OBVIOUS
<1>4. Lines(t, s, r) /\ Reads(t, c, w)
  BY <1>1, <1>2, <1>3 DEF Reads
<1>5. Unfold(w) = With(Unfold(t), c)
  <2>1. ~(s \in {"header_line_start", "header_lws"} /\ c \in Lws) => Unfold(w) = With(Unfold(t), c)
    BY <1>4, TextStep
  <2>2. QED
    BY <1>3, <2>1
<1>6. Unfold(t) = With(Then(LineText(req), HeadersText(req.headers)), "cr")
  BY <1>1 DEF Spelled, HeaderStates
<1>7. QED
  BY <1>1, <1>3, <1>5, <1>6, RequestIs

\* Whatever the character, parse() keeps the request to what was read.
LEMMA ParseReads ==
  ASSUME ReadInv, Parse
  PROVE  ReadInv'
<1>1. /\ result = "none" /\ pos < Len(text) /\ pos' = pos + 1 /\ text' = text
      /\ Consume(text[pos + 1])
  BY DEF Parse
<1>2. text \in Seq(Chars) /\ pos \in Nat /\ req \in Request
  BY DEF ReadInv, RequestType
<1> PICK t, c : t = Consumed(pos) /\ c = text[pos + 1]
  OBVIOUS
<1> PICK w : w = Append(t, c)
  OBVIOUS
<1>3. /\ t \in Seq(Chars) /\ c \in Chars
      /\ t = Consumed(pos) /\ c = text[pos + 1] /\ w = Append(t, c) /\ w = Consumed(pos)'
  BY <1>1, <1>2, ReadOne DEF Consumed
<1>4. text' \in Seq(Chars) /\ pos' \in Nat /\ pos' <= Len(text')
  <2>1. Len(text) \in Nat
    BY <1>2, LenProperties
  <2>2. QED
    BY <1>1, <1>2, <2>1
<1>5. ASSUME NEW row \in Transitions(c), state_' = row.to, req' = Put(row.put, c), result' = result
      PROVE  ReadInv'
  <2>1. /\ Put(row.put, c) \in Request
        /\ Spelled(Unfold(w), row.to, Put(row.put, c))
        /\ Lines(w, row.to, Put(row.put, c))
    BY <1>1, <1>3, TransitionReads
  <2>2. RequestType'
    BY <1>1, <1>4, <1>5, <2>1 DEF RequestType
  <2>3. Spelled(Unfold(Consumed(pos)'), state_', req') /\ Lines(Consumed(pos)', state_', req')
    BY <1>3, <1>5, <2>1
  <2>4. RequestIsItsText'
    BY <1>1, <1>5 DEF RequestIsItsText
  <2>5. QED
    BY <2>2, <2>3, <2>4 DEF ReadInv
<1>6. ASSUME Transitions(c) = {}, state_' = state_, req' = req,
             result' = IF state_ = "expecting_newline_3" /\ c = "lf" THEN "true" ELSE "false"
      PROVE  ReadInv'
  <2>1. RequestType'
    BY <1>2, <1>4, <1>6 DEF RequestType
  <2>2. RequestIsItsText'
    <3>1. CASE state_ = "expecting_newline_3" /\ c = "lf"
      <4>1. w = Append(t, "lf")
        BY <1>3, <3>1
      <4>2. RequestText(req) = Unfold(w)
        BY <1>1, <1>3, <3>1, <4>1, LastReads
      <4>3. RequestText(req') = Unfold(Consumed(pos)')
        BY <1>3, <1>6, <4>2
      <4>4. QED
        BY <4>3 DEF RequestIsItsText
    <3>2. CASE ~(state_ = "expecting_newline_3" /\ c = "lf")
      BY <1>6, <3>2 DEF RequestIsItsText
    <3>3. QED
      BY <3>1, <3>2
  <2>3. result' # "none"
    BY <1>6
  <2>4. QED
    BY <2>1, <2>2, <2>3 DEF ReadInv
<1>7. QED
  BY <1>1, <1>3, <1>5, <1>6 DEF Consume

\* So does every step.
LEMMA RequestNextReads ==
  ReadInv /\ [RequestNext]_requestVars => ReadInv'
<1> SUFFICES ASSUME ReadInv, [RequestNext]_requestVars PROVE ReadInv'
  OBVIOUS
<1>1. CASE Parse
  BY <1>1, ParseReads
<1>2. CASE UNCHANGED parserVars
  <2>1. text' = text /\ pos' = pos /\ state_' = state_ /\ result' = result /\ req' = req
    BY <1>2 DEF parserVars
  <2>2. QED
    BY <2>1 DEF ReadInv, RequestType, RequestIsItsText, Consumed
<1>3. QED
  BY <1>1, <1>2 DEF RequestNext, ParseUri, requestVars

\* What the parser reads and what it keeps have their types, whatever the
\* bytes the client sends.
THEOREM RequestTyped == RequestSpec => []RequestType
<1>1. ReadInv => RequestType
  BY DEF ReadInv
<1>2. QED
  BY RequestInitReads, RequestNextReads, <1>1, PTL DEF RequestSpec

\* Whatever the bytes, and wherever the folds in them: an HttpRequest the
\* parser accepts is the text it has read.
THEOREM RequestWhole == RequestSpec => []RequestIsItsText
<1>1. ReadInv => RequestIsItsText
  BY DEF ReadInv
<1>2. QED
  BY RequestInitReads, RequestNextReads, <1>1, PTL DEF RequestSpec

-------------------------------------------------------------------------------
(* The lines of the text without folds.                                    *)

\* The states of the parser.
ParserStates ==
  {"method_start", "method", "uri", "http_version_h", "http_version_t_1", "http_version_t_2",
   "http_version_p", "http_version_slash", "http_version_major_start", "http_version_major",
   "http_version_minor_start", "http_version_minor", "expecting_newline_1"} \cup LaterStates

\* There is no line break from a up to e.
Plain(u, a, e) == \A h \in a .. e - 1 : u[h] # "cr" /\ u[h] # "lf"

\* A line is what its place in the text asks for.
LineAt(u, a, e) == IF a = 1 THEN IsRequestLine(u, e) ELSE IsHeader(u, a, e)

\* A line starts at a, and every line before it is whole.
LinesDone(u, a) ==
  /\ a \in Nat /\ a >= 1 /\ (a = 1 \/ u[a - 1] = "lf")
  /\ \A h \in 1 .. a - 1 : u[h] = "cr" => h + 1 <= a - 1 /\ u[h + 1] = "lf"
  /\ \A h \in 1 .. a - 1 : u[h] = "lf" => h > 1 /\ u[h - 1] = "cr"
  /\ \A h \in 1 .. a - 1 : u[h] = "cr" => \A b \in 1 .. h : IsLine(u, b, h) => LineAt(u, b, h)

\* METHOD SP URI, up to e; and up to the space behind it, at j.
UriAt(u, i, e) ==
  /\ i \in 1 .. e - 1 /\ u[i] = "sp" /\ Filled(u, 1, i, Token)
  /\ Only(u, i + 1, e, NotCtl \ {"sp"})
VersionAt(u, i, j) == u[j] = "sp" /\ UriAt(u, i, j)

\* HTTP/ behind j, and a digit or more behind it up to e.
Http(u, j) == u[j + 1] = "H" /\ u[j + 2] = "T" /\ u[j + 3] = "T" /\ u[j + 4] = "P" /\ u[j + 5] = "/"
MajorAt(u, i, j, e) == VersionAt(u, i, j) /\ Http(u, j) /\ Filled(u, j + 6, e, Digit)

\* What the state says of the characters of the request line, up to e.
RequestLinePart(u, e, s) ==
  /\ s = "method_start" => e = 1
  /\ s = "method" => Filled(u, 1, e, Token)
  /\ s = "uri" => \E i \in 1 .. e : UriAt(u, i, e)
  /\ s = "http_version_h" => \E i, j \in 1 .. e : VersionAt(u, i, j) /\ e = j + 1
  /\ s = "http_version_t_1" =>
       \E i, j \in 1 .. e : VersionAt(u, i, j) /\ e = j + 2 /\ u[j + 1] = "H"
  /\ s = "http_version_t_2" =>
       \E i, j \in 1 .. e : VersionAt(u, i, j) /\ e = j + 3 /\ u[j + 1] = "H" /\ u[j + 2] = "T"
  /\ s = "http_version_p" =>
       \E i, j \in 1 .. e : /\ VersionAt(u, i, j) /\ e = j + 4
                            /\ u[j + 1] = "H" /\ u[j + 2] = "T" /\ u[j + 3] = "T"
  /\ s = "http_version_slash" =>
       \E i, j \in 1 .. e : /\ VersionAt(u, i, j) /\ e = j + 5
                            /\ u[j + 1] = "H" /\ u[j + 2] = "T" /\ u[j + 3] = "T" /\ u[j + 4] = "P"
  /\ s = "http_version_major_start" =>
       \E i, j \in 1 .. e : VersionAt(u, i, j) /\ e = j + 6 /\ Http(u, j)
  /\ s = "http_version_major" => \E i, j \in 1 .. e : MajorAt(u, i, j, e)
  /\ s = "http_version_minor_start" =>
       \E i, j \in 1 .. e : MajorAt(u, i, j, e - 1) /\ u[e - 1] = "."
  /\ s = "http_version_minor" => IsRequestLine(u, e)
  /\ s = "expecting_newline_1" => u[e - 1] = "cr" /\ IsRequestLine(u, e - 1)

\* What it says of the characters of a header, from a up to e.
HeaderLinePart(u, a, e, s) ==
  /\ s = "header_name" => Filled(u, a, e, Token)
  /\ s = "space_before_header_value" => Filled(u, a, e - 1, Token) /\ u[e - 1] = ":"
  /\ s \in {"header_value", "header_lws"} => IsHeader(u, a, e)
  /\ s = "expecting_newline_2" => u[e - 1] = "cr" /\ IsHeader(u, a, e - 1)

\* What it says of the last line, from a up to e, and where that is broken.
Part(u, a, e, s) ==
  /\ RequestLinePart(u, e, s)
  /\ HeaderLinePart(u, a, e, s)
  /\ s = "header_line_start" => e > 2 /\ u[e - 2] = "cr" /\ u[e - 1] = "lf" /\ LineAt(u, a, e - 2)
  /\ s = "expecting_newline_3" => a = e - 1 /\ a > 1 /\ u[a] = "cr"
  /\ Plain(u, a, IF s = "header_line_start" THEN e - 2
                 ELSE IF s \in NewlineStates THEN e - 1 ELSE e)

\* The text without folds is whole lines, and then what the state says of it.
Shape(u, s, r) ==
  /\ s \in ParserStates
  /\ \E a \in 1 .. Len(u) + 1 :
       /\ LinesDone(u, a) /\ Part(u, a, Len(u) + 1, s)
       /\ s # "expecting_newline_3" => (a = 1 <=> r.headers = <<>>)

\* The version's prefix, character by character.
LEMMA ReadingHttp ==
  ASSUME NEW u, NEW j \in Nat
  PROVE  Reading(u, j + 1, <<"H", "T", "T", "P", "/">>) <=> Http(u, j)
<1>1. PICK lit : lit = <<"H", "T", "T", "P", "/">>
  OBVIOUS
<1>2. /\ DOMAIN lit = 1 .. 5 /\ lit[1] = "H" /\ lit[2] = "T" /\ lit[3] = "T" /\ lit[4] = "P"
      /\ lit[5] = "/"
  BY <1>1
<1>3. /\ j + 1 + 1 - 1 = j + 1 /\ j + 1 + 2 - 1 = j + 2 /\ j + 1 + 3 - 1 = j + 3
      /\ j + 1 + 4 - 1 = j + 4 /\ j + 1 + 5 - 1 = j + 5
  OBVIOUS
<1>4. ASSUME Reading(u, j + 1, lit) PROVE Http(u, j)
  <2>1. \A k \in 1 .. 5 : u[j + 1 + k - 1] = lit[k]
    BY <1>2, <1>4 DEF Reading
  <2>2. 1 \in 1 .. 5 /\ 2 \in 1 .. 5 /\ 3 \in 1 .. 5 /\ 4 \in 1 .. 5 /\ 5 \in 1 .. 5
    OBVIOUS
  <2>3. /\ u[j + 1 + 1 - 1] = lit[1] /\ u[j + 1 + 2 - 1] = lit[2] /\ u[j + 1 + 3 - 1] = lit[3]
        /\ u[j + 1 + 4 - 1] = lit[4] /\ u[j + 1 + 5 - 1] = lit[5]
    BY <2>1, <2>2
  <2>4. QED
    BY <1>2, <1>3, <2>3 DEF Http
<1>5. ASSUME Http(u, j) PROVE Reading(u, j + 1, lit)
  <2>1. ASSUME NEW k \in 1 .. 5 PROVE u[j + 1 + k - 1] = lit[k]
    <3>1. k = 1 \/ k = 2 \/ k = 3 \/ k = 4 \/ k = 5
      OBVIOUS
    <3>2. QED
      BY <1>2, <1>3, <1>5, <3>1 DEF Http
  <2>2. QED
    BY <1>2, <2>1 DEF Reading
<1>6. QED
  BY <1>1, <1>4, <1>5

\* A request line, part by part.
LEMMA RequestLineIs ==
  ASSUME NEW u, NEW e \in Nat
  PROVE  IsRequestLine(u, e) <=>
           \E i, j, k \in 1 .. e - 1 :
             MajorAt(u, i, j, k) /\ u[k] = "." /\ Filled(u, k + 1, e, Digit)
<1>1. ASSUME NEW j \in 1 .. e - 1
      PROVE  Reading(u, j + 1, <<"H", "T", "T", "P", "/">>) <=> Http(u, j)
  BY ReadingHttp
<1>2. ASSUME IsRequestLine(u, e)
      PROVE  \E i, j, k \in 1 .. e - 1 :
               MajorAt(u, i, j, k) /\ u[k] = "." /\ Filled(u, k + 1, e, Digit)
  <2>1. PICK i \in 1 .. e - 1, j \in 1 .. e - 1, k \in 1 .. e - 1 :
          /\ u[i] = "sp" /\ Filled(u, 1, i, Token)
          /\ i < j /\ u[j] = "sp" /\ Only(u, i + 1, j, NotCtl \ {"sp"})
          /\ j + 5 < k /\ Reading(u, j + 1, <<"H", "T", "T", "P", "/">>)
          /\ u[k] = "." /\ Filled(u, j + 6, k, Digit) /\ Filled(u, k + 1, e, Digit)
    BY <1>2 DEF IsRequestLine
  <2>2. UriAt(u, i, j) /\ Http(u, j)
    BY <1>1, <2>1 DEF UriAt
  <2>3. QED
    BY <2>1, <2>2 DEF MajorAt, VersionAt
<1>3. ASSUME NEW i \in 1 .. e - 1, NEW j \in 1 .. e - 1, NEW k \in 1 .. e - 1,
             MajorAt(u, i, j, k), u[k] = ".", Filled(u, k + 1, e, Digit)
      PROVE  IsRequestLine(u, e)
  <2>1. /\ u[j] = "sp" /\ i < j /\ u[i] = "sp" /\ Filled(u, 1, i, Token)
        /\ Only(u, i + 1, j, NotCtl \ {"sp"})
    BY <1>3 DEF MajorAt, VersionAt, UriAt
  <2>2. Reading(u, j + 1, <<"H", "T", "T", "P", "/">>) /\ Filled(u, j + 6, k, Digit)
    BY <1>1, <1>3 DEF MajorAt
  <2>3. j + 5 < k
    BY <2>2 DEF Filled
  <2>4. QED
    BY <1>3, <2>1, <2>2, <2>3 DEF IsRequestLine
<1>4. QED
  BY <1>2, <1>3

\* The first space and the second are where they are.
LEMMA SpacesAre ==
  ASSUME NEW w, NEW i, NEW e \in Nat, UriAt(w, i, e)
  PROVE  /\ \A l \in Nat : w[l] = "sp" /\ Filled(w, 1, l, Token) => l = i
         /\ \A l, m \in Nat : VersionAt(w, l, m) => l = i /\ e <= m
<1>1. i \in 1 .. e - 1 /\ w[i] = "sp" /\ (\A k \in 1 .. i - 1 : w[k] \in Token)
      /\ \A k \in i + 1 .. e - 1 : w[k] # "sp"
  BY DEF UriAt, Filled, Only
<1>2. "sp" \notin Token
  BY OwnRole, Classes DEF Lws
<1>3. ASSUME NEW l \in Nat, w[l] = "sp", Filled(w, 1, l, Token) PROVE l = i
  <2>1. 1 < l /\ \A k \in 1 .. l - 1 : w[k] \in Token
    BY <1>3 DEF Filled, Only
  <2>2. ~(l < i)
    BY <1>1, <1>2, <1>3, <2>1
  <2>3. ~(i < l)
    BY <1>1, <1>2, <2>1
  <2>4. QED
    BY <1>1, <2>2, <2>3
<1>4. ASSUME NEW l \in Nat, NEW m \in Nat, VersionAt(w, l, m) PROVE l = i /\ e <= m
  <2>1. l = i
    BY <1>3, <1>4 DEF VersionAt, UriAt
  <2>2. w[m] = "sp" /\ m > i
    BY <1>1, <1>4, <2>1 DEF VersionAt, UriAt
  <2>3. QED
    BY <1>1, <2>1, <2>2
<1>5. QED
  BY <1>3, <1>4

\* What may come next in a state, if a request is to come of it.
Takes(s, c) ==
  /\ s = "method_start" => c \in Token
  /\ s = "method" => c = "sp" \/ c \in Token
  /\ s = "uri" => c \in NotCtl
  /\ s = "http_version_h" => c = "H"
  /\ s \in {"http_version_t_1", "http_version_t_2"} => c = "T"
  /\ s = "http_version_p" => c = "P"
  /\ s = "http_version_slash" => c = "/"
  /\ s \in {"http_version_major_start", "http_version_minor_start"} => c \in Digit
  /\ s = "http_version_major" => c = "." \/ c \in Digit
  /\ s = "http_version_minor" => c = "cr" \/ c \in Digit
  /\ s \in NewlineStates => c = "lf"
  /\ s = "header_line_start" => c = "cr" \/ c \in Token
  /\ s = "header_name" => c = ":" \/ c \in Token
  /\ s = "space_before_header_value" => c = "sp"
  /\ s \in {"header_value", "header_lws"} => c = "cr" \/ c \in NotCtl

\* What is there up to e goes on to a request line.
LEMMA NextInRequestLine ==
  ASSUME NEW w, NEW e \in Nat, e >= 1, NEW f \in Nat, e <= f, w[f] = "cr",
         IsRequestLine(w, f), NEW s, RequestLinePart(w, e, s)
  PROVE  s \notin LaterStates \cup NewlineStates => Takes(s, w[e])
<1>1. PICK i \in 1 .. f - 1, j \in 1 .. f - 1, k \in 1 .. f - 1 :
        MajorAt(w, i, j, k) /\ w[k] = "." /\ Filled(w, k + 1, f, Digit)
  BY RequestLineIs
<1>2. /\ i < j /\ j + 6 < k /\ k + 1 < f
      /\ w[i] = "sp" /\ w[j] = "sp" /\ w[k] = "."
      /\ \A h \in 1 .. i - 1 : w[h] \in Token
      /\ \A h \in i + 1 .. j - 1 : w[h] \in NotCtl \ {"sp"}
      /\ \A h \in j + 6 .. k - 1 : w[h] \in Digit
      /\ \A h \in k + 1 .. f - 1 : w[h] \in Digit
      /\ w[j + 1] = "H" /\ w[j + 2] = "T" /\ w[j + 3] = "T" /\ w[j + 4] = "P" /\ w[j + 5] = "/"
      /\ 1 < i
  BY <1>1 DEF MajorAt, VersionAt, UriAt, Filled, Only, Http
<1>3. "sp" \notin Token /\ "." \notin Digit /\ "cr" \notin Digit /\ "sp" \in NotCtl
  BY Classes DEF Lws, Digit, NotCtl, Tspecial
<1>4. VersionAt(w, i, j)
  BY <1>1 DEF MajorAt
<1>5. \A l, m \in 1 .. e : VersionAt(w, l, m) => l = i /\ m = j
  <2> SUFFICES ASSUME NEW l \in 1 .. e, NEW m \in 1 .. e, VersionAt(w, l, m)
               PROVE  l = i /\ m = j
    OBVIOUS
  <2>1. UriAt(w, l, m) /\ UriAt(w, i, j) /\ VersionAt(w, i, j)
    BY <1>4 DEF VersionAt
  <2>2. l = i /\ m <= j
    BY <1>4, <2>1, SpacesAre
  <2>3. j <= m
    BY <1>4, <2>1, SpacesAre
  <2>4. QED
    BY <2>2, <2>3
<1>6. s = "method_start" => w[e] \in Token
  BY <1>2 DEF RequestLinePart
<1>7. s = "method" => w[e] = "sp" \/ w[e] \in Token
  <2>1. s = "method" => \A h \in 1 .. e - 1 : w[h] \in Token
    BY DEF RequestLinePart, Filled, Only
  <2>2. QED
    BY <1>2, <1>3, <2>1
<1>8. s = "uri" => w[e] \in NotCtl
  <2> SUFFICES ASSUME s = "uri" PROVE w[e] \in NotCtl
    OBVIOUS
  <2>1. PICK l \in 1 .. e : UriAt(w, l, e)
    BY DEF RequestLinePart
  <2>2. l = i /\ e <= j
    BY <1>4, <2>1, SpacesAre
  <2>3. i < e
    BY <2>1, <2>2 DEF UriAt
  <2>4. QED
    BY <1>2, <1>3, <2>2, <2>3
<1>9. s = "http_version_h" => w[e] = "H"
  BY <1>2, <1>5 DEF RequestLinePart
<1>10. s \in {"http_version_t_1", "http_version_t_2"} => w[e] = "T"
  BY <1>2, <1>5 DEF RequestLinePart
<1>11. s = "http_version_p" => w[e] = "P"
  BY <1>2, <1>5 DEF RequestLinePart
<1>12. s = "http_version_slash" => w[e] = "/"
  BY <1>2, <1>5 DEF RequestLinePart
<1>13. s = "http_version_major_start" => w[e] \in Digit
  BY <1>2, <1>5 DEF RequestLinePart
<1>14. s = "http_version_major" => w[e] = "." \/ w[e] \in Digit
  <2> SUFFICES ASSUME s = "http_version_major" PROVE w[e] = "." \/ w[e] \in Digit
    OBVIOUS
  <2>1. PICK l \in 1 .. e, m \in 1 .. e : MajorAt(w, l, m, e)
    BY DEF RequestLinePart
  <2>2. m = j
    BY <1>5, <2>1 DEF MajorAt
  <2>3. j + 6 < e /\ \A h \in j + 6 .. e - 1 : w[h] \in Digit
    BY <2>1, <2>2 DEF MajorAt, Filled, Only
  <2>4. e <= k
    BY <1>2, <1>3, <2>3
  <2>5. QED
    BY <1>2, <2>3, <2>4
<1>15. s = "http_version_minor_start" => w[e] \in Digit
  <2> SUFFICES ASSUME s = "http_version_minor_start" PROVE w[e] \in Digit
    OBVIOUS
  <2>1. PICK l \in 1 .. e, m \in 1 .. e : MajorAt(w, l, m, e - 1) /\ w[e - 1] = "."
    BY DEF RequestLinePart
  <2>2. m = j
    BY <1>5, <2>1 DEF MajorAt
  <2>3. j + 6 < e - 1 /\ \A h \in j + 6 .. e - 1 - 1 : w[h] \in Digit
    BY <2>1, <2>2 DEF MajorAt, Filled, Only
  <2>4. e - 1 = k
    BY <1>2, <1>3, <2>1, <2>3
  <2>5. QED
    BY <1>2, <2>4
<1>16. s = "http_version_minor" => w[e] = "cr" \/ w[e] \in Digit
  <2> SUFFICES ASSUME s = "http_version_minor" PROVE w[e] = "cr" \/ w[e] \in Digit
    OBVIOUS
  <2>1. IsRequestLine(w, e)
    BY DEF RequestLinePart
  <2>2. PICK l \in 1 .. e - 1, m \in 1 .. e - 1, n \in 1 .. e - 1 :
          MajorAt(w, l, m, n) /\ w[n] = "." /\ Filled(w, n + 1, e, Digit)
    BY <2>1, RequestLineIs
  <2>3. m = j
    BY <1>5, <2>2 DEF MajorAt
  <2>4. /\ j + 6 < n /\ n + 1 < e /\ \A h \in j + 6 .. n - 1 : w[h] \in Digit
        /\ \A h \in n + 1 .. e - 1 : w[h] \in Digit
    BY <2>2, <2>3 DEF MajorAt, Filled, Only
  <2>5. n = k
    BY <1>2, <1>3, <2>2, <2>4
  <2>6. QED
    BY <1>2, <2>4, <2>5
<1>17. QED
  BY <1>6, <1>7, <1>8, <1>9, <1>10, <1>11, <1>12, <1>13, <1>14, <1>15, <1>16
     DEF Takes, LaterStates, HeaderStates

\* So does what is there of a header.
LEMMA NextInHeader ==
  ASSUME NEW w, NEW a \in Nat, a >= 1, NEW e \in Nat, a <= e, NEW f \in Nat, e <= f, w[f] = "cr",
         IsHeader(w, a, f), NEW s, HeaderLinePart(w, a, e, s)
  PROVE  /\ s \in {"header_name", "space_before_header_value", "header_value", "header_lws"} =>
              Takes(s, w[e])
         /\ w[a] \in Token
<1>1. PICK i \in a .. f - 2 :
        /\ Filled(w, a, i, Token) /\ w[i] = ":" /\ w[i + 1] = "sp" /\ Only(w, i + 2, f, NotCtl)
  BY DEF IsHeader
<1>2. /\ a < i /\ i + 2 <= f /\ w[i] = ":" /\ w[i + 1] = "sp"
      /\ \A h \in a .. i - 1 : w[h] \in Token
      /\ \A h \in i + 2 .. f - 1 : w[h] \in NotCtl
  BY <1>1 DEF Filled, Only
<1>3. ":" \notin Token
  BY DEF Token, Digit
<1>4. s = "header_name" => w[e] = ":" \/ w[e] \in Token
  <2>1. s = "header_name" => \A h \in a .. e - 1 : w[h] \in Token
    BY DEF HeaderLinePart, Filled, Only
  <2>2. QED
    BY <1>2, <1>3, <2>1
<1>5. s = "space_before_header_value" => w[e] = "sp"
  <2> SUFFICES ASSUME s = "space_before_header_value" PROVE w[e] = "sp"
    OBVIOUS
  <2>1. a < e - 1 /\ (\A h \in a .. e - 1 - 1 : w[h] \in Token) /\ w[e - 1] = ":"
    BY DEF HeaderLinePart, Filled, Only
  <2>2. e - 1 = i
    BY <1>2, <1>3, <2>1
  <2>3. QED
    BY <1>2, <2>2
<1>6. s \in {"header_value", "header_lws"} => w[e] = "cr" \/ w[e] \in NotCtl
  <2> SUFFICES ASSUME s \in {"header_value", "header_lws"} PROVE w[e] = "cr" \/ w[e] \in NotCtl
    OBVIOUS
  <2>1. IsHeader(w, a, e)
    BY DEF HeaderLinePart
  <2>2. PICK l \in a .. e - 2 : Filled(w, a, l, Token) /\ w[l] = ":"
    BY <2>1 DEF IsHeader
  <2>3. a < l /\ l + 2 <= e /\ \A h \in a .. l - 1 : w[h] \in Token
    BY <2>2 DEF Filled, Only
  <2>4. l = i
    BY <1>2, <1>3, <2>2, <2>3
  <2>5. QED
    BY <1>2, <2>3, <2>4
<1>7. QED
  BY <1>2, <1>4, <1>5, <1>6 DEF Takes, NewlineStates

\* A line that starts in a request is its last or is whole.
LEMMA LineOf ==
  ASSUME NEW w, NEW n \in Nat, n = Len(w), IsUnfoldedRequest(w),
         NEW a \in Nat, a >= 1, a <= n, a = 1 \/ w[a - 1] = "lf"
  PROVE  \/ a = n - 1 /\ a > 1 /\ w[a] = "cr"
         \/ \E f \in a .. n - 2 : w[f] = "cr" /\ Plain(w, a, f) /\ LineAt(w, a, f)
<1>1. /\ n > 2 /\ w[n - 2] = "lf" /\ w[n - 1] = "cr"
      /\ \A i \in 1 .. n : w[i] = "cr" => i < n /\ w[i + 1] = "lf"
      /\ \A i \in 1 .. n : w[i] = "lf" => i > 1 /\ w[i - 1] = "cr"
      /\ \A f \in 1 .. n - 2 : w[f] = "cr" =>
           \A b \in 1 .. f :
             IsLine(w, b, f) => IF b = 1 THEN IsRequestLine(w, f) ELSE IsHeader(w, b, f)
  BY DEF IsUnfoldedRequest
<1>2. a <= n - 1
  <2>1. a # n
    BY <1>1
  <2>2. QED
    BY <2>1
<1> DEFINE T == {h \in a .. n : w[h] = "cr"}
<1>3. PICK f \in T : \A h \in T : f <= h
  <2>1. n - 1 \in T
    BY <1>1, <1>2
  <2>2. T \subseteq Nat /\ T # {}
    BY <2>1
  <2>3. QED
    BY <2>2, LeastNatural
<1>4. f \in a .. n /\ w[f] = "cr" /\ \A h \in a .. f - 1 : w[h] # "cr"
  BY <1>3
<1> HIDE DEF T
<1>5. ASSUME NEW h \in a .. f - 1 PROVE w[h] # "lf"
  <2>1. w[h] = "lf" => h > 1 /\ w[h - 1] = "cr"
    BY <1>1, <1>4
  <2>2. CASE h = a
    BY <2>1, <2>2
  <2>3. CASE h > a
    <3>1. h - 1 \in a .. f - 1
      BY <1>4, <2>3
    <3>2. QED
      BY <1>4, <2>1, <3>1
  <2>4. QED
    BY <2>2, <2>3
<1>6. Plain(w, a, f)
  BY <1>4, <1>5 DEF Plain
<1>7. f <= n - 1
  BY <1>1, <1>4
<1>8. CASE f = n - 1
  <2>1. ~(a < n - 1)
    BY <1>1, <1>5, <1>8
  <2>2. QED
    BY <1>1, <1>2, <1>4, <1>8, <2>1
<1>9. CASE f <= n - 2
  <2>1. IsLine(w, a, f)
    BY <1>4 DEF IsLine
  <2>2. LineAt(w, a, f)
    BY <1>1, <1>4, <1>9, <2>1 DEF LineAt
  <2>3. QED
    BY <1>4, <1>6, <1>9, <2>2
<1>10. QED
  BY <1>4, <1>7, <1>8, <1>9

\* In a request, what follows the characters read is what the state may take.
LEMMA NextFits ==
  ASSUME NEW w, NEW n \in Nat, n = Len(w), IsUnfoldedRequest(w),
         NEW a \in Nat, NEW e \in Nat, a <= e, e <= n, LinesDone(w, a),
         NEW s \in ParserStates, Part(w, a, e, s),
         s \notin LaterStates => a = 1, s \in HeaderStates => a # 1
  PROVE  Takes(s, w[e])
<1>1. /\ a >= 1 /\ (a = 1 \/ w[a - 1] = "lf")
      /\ RequestLinePart(w, e, s) /\ HeaderLinePart(w, a, e, s)
  BY DEF LinesDone, Part
<1>2. CASE s \in NewlineStates
  <2>1. w[e - 1] = "cr" /\ e > 1
    <3>1. CASE s = "expecting_newline_1"
      BY <1>1, <3>1 DEF RequestLinePart, IsRequestLine
    <3>2. CASE s = "expecting_newline_2"
      BY <1>1, <3>2 DEF HeaderLinePart, IsHeader
    <3>3. CASE s = "expecting_newline_3"
      BY <1>1, <3>3 DEF Part
    <3>4. QED
      BY <1>2, <3>1, <3>2, <3>3 DEF NewlineStates
  <2>2. \A i \in 1 .. n : w[i] = "cr" => i < n /\ w[i + 1] = "lf"
    BY DEF IsUnfoldedRequest
  <2>3. e - 1 \in 1 .. n /\ e - 1 + 1 = e
    BY <2>1
  <2>4. w[e] = "lf"
    BY <2>1, <2>2, <2>3
  <2>5. QED
    BY <1>2, <2>4 DEF Takes, NewlineStates
<1>3. CASE s = "header_line_start"
  <2>1. e > 2 /\ w[e - 1] = "lf"
    BY <1>3 DEF Part
  <2>2. CASE w[e] = "cr"
    BY <1>3, <2>2 DEF Takes, NewlineStates
  <2>3. CASE w[e] # "cr"
    <3>1. PICK f \in e .. n - 2 : w[f] = "cr" /\ LineAt(w, e, f)
      BY <2>1, <2>3, LineOf
    <3>2. IsHeader(w, e, f)
      BY <2>1, <3>1 DEF LineAt
    <3>3. HeaderLinePart(w, e, e, s)
      BY <1>3 DEF HeaderLinePart
    <3>4. w[e] \in Token
      BY <2>1, <3>1, <3>2, <3>3, NextInHeader
    <3>5. QED
      BY <1>3, <3>4 DEF Takes, NewlineStates
  <2>4. QED
    BY <2>2, <2>3
<1>4. CASE s \notin NewlineStates /\ s # "header_line_start"
  <2>1. Plain(w, a, e)
    BY <1>4 DEF Part
  <2>2. ASSUME NEW f \in a .. n - 2, w[f] = "cr" PROVE e <= f
    BY <2>1, <2>2 DEF Plain
  <2>3. CASE s \notin LaterStates
    <3>1. PICK f \in a .. n - 2 : w[f] = "cr" /\ LineAt(w, a, f)
      BY <1>1, <2>3, LineOf
    <3>2. f \in Nat /\ e <= f /\ IsRequestLine(w, f) /\ e >= 1
      BY <1>1, <2>2, <2>3, <3>1 DEF LineAt
    <3>3. QED
      BY <1>1, <1>4, <2>3, <3>1, <3>2, NextInRequestLine
  <2>4. CASE s \in HeaderStates
    <3>1. s \in {"header_name", "space_before_header_value", "header_value", "header_lws"}
      BY <1>4, <2>4 DEF HeaderStates, NewlineStates
    <3>2. w[a] # "cr"
      <4>1. a < e
        BY <1>1, <3>1 DEF HeaderLinePart, Filled, IsHeader
      <4>2. QED
        BY <1>1, <2>1, <4>1 DEF Plain
    <3>3. a <= n
      OBVIOUS
    <3>4. PICK f \in a .. n - 2 : w[f] = "cr" /\ LineAt(w, a, f)
      BY <1>1, <3>2, <3>3, LineOf
    <3>5. f \in Nat /\ e <= f /\ IsHeader(w, a, f)
      BY <1>1, <2>2, <2>4, <3>4 DEF LineAt
    <3>6. QED
      BY <1>1, <3>1, <3>4, <3>5, NextInHeader
  <2>5. QED
    BY <1>4, <2>3, <2>4 DEF LaterStates, NewlineStates
<1>5. QED
  BY <1>2, <1>3, <1>4

-------------------------------------------------------------------------------
(* What is rejected has no continuation that is a request.                 *)

\* A character that the transitions do not take.
Refused(s, r, c) ==
  /\ s = "header_line_start" /\ r.headers # <<>> => c \notin Lws
  /\ s = "header_lws" => c \notin Lws
  /\ s \in NewlineStates => c # "lf"
  /\ s \in {"header_line_start", "header_value", "header_lws"} => c # "cr"
  /\ s \in ParserStates => ~Takes(s, c)

\* A character without a transition is refused, but for the last newline.
LEMMA NoTransition ==
  ASSUME NEW c, Transitions(c) = {}, ~(state_ = "expecting_newline_3" /\ c = "lf")
  PROVE  Refused(state_, req, c)
<1>1. ASSUME NEW from, NEW on, NEW to, NEW put, state_ = from,
             On(from, on, to, put) \in RequestLine \cup HttpVersion \cup Headers(req.headers)
      PROVE  c \notin on
  BY <1>1 DEF Transitions, On
<1>2. /\ state_ = "method_start" => c \notin Token
      /\ state_ = "method" => c # "sp" /\ c \notin Token
      /\ state_ = "uri" => c # "sp" /\ c \notin NotCtl \ {"sp"}
  <2>1. On("method_start", Token, "method", "method") \in RequestLine
    BY DEF RequestLine
  <2>2. On("method", {"sp"}, "uri", "nothing") \in RequestLine
    BY DEF RequestLine
  <2>3. On("method", Token, "method", "method") \in RequestLine
    BY DEF RequestLine
  <2>4. On("uri", {"sp"}, "http_version_h", "nothing") \in RequestLine
    BY DEF RequestLine
  <2>5. On("uri", NotCtl \ {"sp"}, "uri", "uri") \in RequestLine
    BY DEF RequestLine
  <2>6. QED
    BY <1>1, <2>1, <2>2, <2>3, <2>4, <2>5
<1>3. /\ state_ = "http_version_h" => c # "H"
      /\ state_ \in {"http_version_t_1", "http_version_t_2"} => c # "T"
      /\ state_ = "http_version_p" => c # "P"
      /\ state_ = "http_version_slash" => c # "/"
      /\ state_ \in {"http_version_major_start", "http_version_minor_start"} => c \notin Digit
      /\ state_ = "http_version_major" => c # "." /\ c \notin Digit
      /\ state_ = "http_version_minor" => c # "cr" /\ c \notin Digit
      /\ state_ = "expecting_newline_1" => c # "lf"
  <2>1. On("http_version_h", {"H"}, "http_version_t_1", "nothing") \in HttpVersion
    BY DEF HttpVersion
  <2>2. On("http_version_t_1", {"T"}, "http_version_t_2", "nothing") \in HttpVersion
    BY DEF HttpVersion
  <2>3. On("http_version_t_2", {"T"}, "http_version_p", "nothing") \in HttpVersion
    BY DEF HttpVersion
  <2>4. On("http_version_p", {"P"}, "http_version_slash", "nothing") \in HttpVersion
    BY DEF HttpVersion
  <2>5. On("http_version_slash", {"/"}, "http_version_major_start", "nothing") \in HttpVersion
    BY DEF HttpVersion
  <2>6. On("http_version_major_start", Digit, "http_version_major", "major") \in HttpVersion
    BY DEF HttpVersion
  <2>7. On("http_version_major", {"."}, "http_version_minor_start", "nothing") \in HttpVersion
    BY DEF HttpVersion
  <2>8. On("http_version_major", Digit, "http_version_major", "major") \in HttpVersion
    BY DEF HttpVersion
  <2>9. On("http_version_minor_start", Digit, "http_version_minor", "minor") \in HttpVersion
    BY DEF HttpVersion
  <2>10. On("http_version_minor", {"cr"}, "expecting_newline_1", "nothing") \in HttpVersion
    BY DEF HttpVersion
  <2>11. On("http_version_minor", Digit, "http_version_minor", "minor") \in HttpVersion
    BY DEF HttpVersion
  <2>12. On("expecting_newline_1", {"lf"}, "header_line_start", "nothing") \in HttpVersion
    BY DEF HttpVersion
  <2>13. QED
    BY <1>1, <2>1, <2>2, <2>3, <2>4, <2>5, <2>6, <2>7, <2>8, <2>9, <2>10, <2>11, <2>12
<1>4. /\ state_ = "header_line_start" => c # "cr" /\ c \notin Token
      /\ state_ = "header_line_start" /\ req.headers # <<>> => c \notin Lws
      /\ state_ = "header_name" => c # ":" /\ c \notin Token
      /\ state_ = "space_before_header_value" => c # "sp"
      /\ state_ = "header_value" => c # "cr" /\ c \notin NotCtl
      /\ state_ = "header_lws" => c # "cr" /\ c \notin NotCtl \ Lws /\ c \notin Lws
      /\ state_ = "expecting_newline_2" => c # "lf"
  <2>1. On("header_line_start", {"cr"}, "expecting_newline_3", "nothing") \in Headers(req.headers)
    BY DEF Headers
  <2>2. On("header_line_start", IF req.headers = <<>> THEN {} ELSE Lws, "header_lws", "nothing") \in Headers(req.headers)
    BY DEF Headers
  <2>3. On("header_line_start", Token, "header_name", "header") \in Headers(req.headers)
    BY DEF Headers
  <2>4. On("header_lws", {"cr"}, "expecting_newline_2", "nothing") \in Headers(req.headers)
    BY DEF Headers
  <2>5. On("header_lws", Lws, "header_lws", "nothing") \in Headers(req.headers)
    BY DEF Headers
  <2>6. On("header_lws", NotCtl \ Lws, "header_value", "value") \in Headers(req.headers)
    BY DEF Headers
  <2>7. On("header_name", {":"}, "space_before_header_value", "nothing") \in Headers(req.headers)
    BY DEF Headers
  <2>8. On("header_name", Token, "header_name", "name") \in Headers(req.headers)
    BY DEF Headers
  <2>9. On("space_before_header_value", {"sp"}, "header_value", "nothing") \in Headers(req.headers)
    BY DEF Headers
  <2>10. On("header_value", {"cr"}, "expecting_newline_2", "nothing") \in Headers(req.headers)
    BY DEF Headers
  <2>11. On("header_value", NotCtl, "header_value", "value") \in Headers(req.headers)
    BY DEF Headers
  <2>12. On("expecting_newline_2", {"lf"}, "header_line_start", "nothing") \in Headers(req.headers)
    BY DEF Headers
  <2>13. QED
    BY <1>1, <2>1, <2>2, <2>3, <2>4, <2>5, <2>6, <2>7, <2>8, <2>9, <2>10, <2>11, <2>12
<1>5. state_ \in ParserStates => ~Takes(state_, c)
  BY <1>2, <1>3, <1>4 DEF Takes, ParserStates, LaterStates, HeaderStates, NewlineStates
<1>6. QED
  BY <1>3, <1>4, <1>5 DEF Refused, NewlineStates

\* No value goes on behind the name of a header.
LEMMA NotInName ==
  ASSUME NEW x, NEW k \in Nat, NEW g, NameSince(x, g, k), NEW i \in Nat, k < i, i <= k + 2
  PROVE  ~InValue(x, i)
<1> SUFFICES ASSUME InValue(x, i) PROVE FALSE
  OBVIOUS
<1>1. /\ g \in 1 .. k - 2 /\ x[g] = "cr" /\ x[g + 1] = "lf"
      /\ \A h \in g + 2 .. k : x[h] \in Token
  BY DEF NameSince
<1>2. PICK f \in 1 .. i - 1 : \E j \in f + 1 .. i - 2 :
             /\ x[f] = "cr" /\ x[j] = ":" /\ x[j + 1] = "sp"
             /\ \A h \in f + 1 .. i - 1 : x[h] = "cr" => Continues(x, h)
  BY DEF InValue
<1>3. PICK j \in f + 1 .. i - 2 :
             /\ x[f] = "cr" /\ x[j] = ":" /\ x[j + 1] = "sp"
             /\ \A h \in f + 1 .. i - 1 : x[h] = "cr" => Continues(x, h)
  BY <1>2
<1>4. "cr" \notin Token /\ ":" \notin Token /\ \A c \in Token : c \notin Lws
  BY Classes DEF Token, Digit
<1>5. CASE f < g
  <2>1. Continues(x, g)
    BY <1>1, <1>2, <1>3, <1>5
  <2>2. x[g + 2] \in Lws
    BY <2>1 DEF Continues
  <2>3. QED
    BY <1>1, <1>4, <2>2
<1>6. CASE f >= g
  <2>1. f = g \/ f = g + 1 \/ f \in g + 2 .. k
    BY <1>1, <1>2, <1>3, <1>6
  <2>2. f = g
    BY <1>1, <1>3, <1>4, <2>1
  <2>3. j = g + 1 \/ j \in g + 2 .. k
    BY <1>1, <1>3, <2>2
  <2>4. QED
    BY <1>1, <1>3, <1>4, <2>3
<1>7. QED
  BY <1>1, <1>2, <1>5, <1>6

\* No fold begins with a character that is refused, or ends with it.
LEMMA NoFoldRefused ==
  ASSUME NEW t \in Seq(Chars), NEW c \in Chars, NEW n, n = Len(t), NEW u, u = Append(t, c),
         NEW s, NEW r, Lines(t, s, r), Refused(s, r, c), NEW x, Extends(x, u, n + 1)
  PROVE  /\ n > 0 => ~Fold(x, n)
         /\ ~Fold(x, n + 1)
<1>1. n \in Nat /\ Len(u) = n + 1 /\ (\A j \in 1 .. n : u[j] = t[j]) /\ u[n + 1] = c
  BY AppendProperties, LenProperties
<1>2. (\A j \in 1 .. n : x[j] = t[j]) /\ x[n + 1] = c
  BY <1>1 DEF Extends
<1>3. s \in NewlineStates <=> n > 0 /\ t[n] = "cr"
  BY DEF Lines, LinesTo
<1>4. n > 0 => ~Fold(x, n)
  <2> SUFFICES ASSUME n > 0, x[n] = "cr", x[n + 1] = "lf" PROVE FALSE
    BY DEF Fold, Continues
  <2>1. t[n] = "cr" /\ c = "lf"
    BY <1>1, <1>2
  <2>2. QED
    BY <1>3, <2>1 DEF Refused
<1>5. ~Fold(x, n + 1)
  <2> SUFFICES ASSUME x[n + 1] = "cr", InValue(x, n + 1) PROVE FALSE
    BY DEF Fold, Continues
  <2>1. c = "cr"
    BY <1>2
  <2>2. s \notin {"header_line_start", "header_value", "header_lws"}
    BY <2>1 DEF Refused
  <2>3. PICK k \in Nat : k = n + 1
    BY <1>1
  <2>4. PICK g \in 1 .. k - 1 : \E j \in g + 1 .. k - 2 :
               /\ x[g] = "cr" /\ x[j] = ":" /\ x[j + 1] = "sp"
               /\ \A h \in g + 1 .. k - 1 : x[h] = "cr" => Continues(x, h)
    BY <2>3 DEF InValue
  <2>5. g \in 1 .. n - 1 - 1 /\ g \in 1 .. n /\ x[g] = "cr" /\ n \in g + 1 .. k - 1
        /\ (x[n] = "cr" => Continues(x, n))
    BY <1>1, <2>3, <2>4
  <2>6. t[g] = "cr"
    BY <1>2, <2>5
  <2>7. CASE s \notin LaterStates
    <3>1. NoBreak(t, n - 1)
      BY <2>7 DEF Lines, LinesTo
    <3>2. g \in 1 .. n - 1
      BY <1>1, <2>5
    <3>3. QED
      BY <2>6, <3>1, <3>2 DEF NoBreak
  <2>8. CASE s \in NewlineStates
    <3>1. t[n] = "cr" /\ n \in 1 .. n
      BY <1>1, <1>3, <2>8
    <3>2. Continues(x, n)
      BY <1>2, <2>5, <3>1
    <3>3. x[n + 1] = "lf"
      BY <3>2 DEF Continues
    <3>4. QED
      BY <1>2, <2>1, <3>3
  <2>9. CASE s = "header_name"
    <3>1. PICK l : NameSince(t, l, n)
      BY <2>9 DEF Lines, LinesTo
    <3>2. NameSince(x, l, n)
      <4>1. l \in 1 .. n /\ l + 1 \in 1 .. n
        BY <1>1, <3>1 DEF NameSince
      <4>2. \A h \in l + 2 .. n : h \in 1 .. n
        BY <1>1, <4>1
      <4>3. QED
        BY <1>2, <3>1, <4>1, <4>2 DEF NameSince
    <3>3. n < k /\ k <= n + 2
      BY <1>1, <2>3
    <3>4. ~InValue(x, k)
      BY <1>1, <3>2, <3>3, NotInName
    <3>5. QED
      BY <2>3, <3>4
  <2>10. CASE s = "space_before_header_value"
    <3>1. PICK l : NameSince(t, l, n - 1)
      BY <2>10 DEF Lines, LinesTo
    <3>2. PICK m : m = n - 1
      OBVIOUS
    <3>3. NameSince(x, l, m)
      <4>1. l \in 1 .. n /\ l + 1 \in 1 .. n
        BY <1>1, <3>1 DEF NameSince
      <4>2. \A h \in l + 2 .. m : h \in 1 .. n
        BY <1>1, <3>2, <4>1
      <4>3. QED
        BY <1>2, <3>1, <3>2, <4>1, <4>2 DEF NameSince
    <3>4. m \in Nat /\ m < k /\ k <= m + 2
      BY <1>1, <2>3, <2>5, <3>2
    <3>5. ~InValue(x, k)
      BY <3>3, <3>4, NotInName
    <3>6. QED
      BY <2>3, <3>5
  <2>11. QED
    BY <2>2, <2>7, <2>8, <2>9, <2>10 DEF LaterStates, HeaderStates, NewlineStates
<1>6. QED
  BY <1>4, <1>5

\* What is kept of a text begins with what is kept of its first characters.
LEMMA KeptGrows ==
  ASSUME NEW x \in Seq(Chars), NEW k \in Nat, k <= Len(x), NEW h, KeptBy(h, x, k),
         NEW m \in Nat, m <= k
  PROVE  Extends(h[k], h[m], Len(h[m]))
<1>1. \A i \in 0 .. k : h[i] = IF i = 0 THEN <<>> ELSE Keep(h[i - 1], x, i)
  BY DEF KeptBy
<1>2. \A i \in 0 .. k : h[i] \in Seq(Chars)
  <2>1. SameFolds(x, x, k)
    BY DEF SameFolds
  <2>2. \A l, n \in Nat : \A a, b :
          k <= l /\ k <= n /\ l <= Len(x) /\ KeptBy(a, x, l) /\ KeptBy(b, x, n) =>
            \A i \in 0 .. k : a[i] = b[i] /\ a[i] \in Seq(Chars)
    BY <2>1, KeptAgrees
  <2>3. QED
    BY <2>2
<1> DEFINE T == {i \in Nat : m <= i /\ i <= k => Extends(h[i], h[m], Len(h[m]))}
<1>3. m \in 0 .. k
  OBVIOUS
<1>4. Extends(h[m], h[m], Len(h[m]))
  <2>1. Len(h[m]) \in Nat
    BY <1>2, <1>3, LenProperties
  <2>2. QED
    BY <2>1 DEF Extends
<1>5. 0 \in T
  BY <1>4
<1>6. ASSUME NEW i \in Nat, i \in T PROVE i + 1 \in T
  <2> SUFFICES ASSUME m <= i + 1, i + 1 <= k PROVE Extends(h[i + 1], h[m], Len(h[m]))
    OBVIOUS
  <2>1. PICK j : j = i + 1
    OBVIOUS
  <2>2. CASE m = i + 1
    BY <1>4, <2>2
  <2>3. CASE m <= i
    <3>1. Extends(h[i], h[m], Len(h[m]))
      BY <1>6, <2>3
    <3>2. i \in 0 .. k /\ j \in 0 .. k /\ j # 0 /\ j - 1 = i /\ j \in 1 .. Len(x)
      <4>1. Len(x) \in Nat
        BY LenProperties
      <4>2. QED
        BY <2>1, <4>1
    <3>3. h[j] = Keep(h[i], x, j)
      BY <1>1, <3>2
    <3>4. h[i] \in Seq(Chars) /\ x[j] \in Chars
      BY <1>2, <3>2, ElementOfSeq
    <3>5. PICK a, b : a = Append(h[i], x[j]) /\ b = h[i]
      OBVIOUS
    <3>6. Len(b) \in Nat /\ Len(a) = Len(b) + 1 /\ \A l \in 1 .. Len(b) : a[l] = b[l]
      BY <3>4, <3>5, AppendProperties, LenProperties
    <3>7. Extends(a, h[m], Len(h[m]))
      BY <3>1, <3>5, <3>6 DEF Extends
    <3>8. QED
      BY <2>1, <3>1, <3>3, <3>5, <3>7 DEF Keep
  <2>4. QED
    BY <2>2, <2>3
<1> HIDE DEF T
<1>7. \A i \in Nat : i \in T
  BY <1>5, <1>6, Induction
<1>8. QED
  BY <1>7 DEF T

\* Whatever follows a refused character, the text without folds begins with
\* what it was before, and the character.
LEMMA RefusedIsKept ==
  ASSUME NEW t, NEW c, NEW u, Reads(t, c, u), NEW s, NEW r, Lines(t, s, r), Refused(s, r, c),
         NEW x \in Seq(Chars), Extends(x, u, Len(u))
  PROVE  Extends(Unfold(x), With(Unfold(t), c), Len(With(Unfold(t), c)))
<1>1. t \in Seq(Chars) /\ c \in Chars /\ u = Append(t, c)
  BY DEF Reads
<1>2. PICK n \in Nat : n = Len(t)
  BY <1>1, LenProperties
<1>3. PICK m \in Nat : m = n + 1
  BY <1>2
<1>4. u \in Seq(Chars) /\ Len(u) = m
  BY <1>1, <1>2, <1>3, AppendProperties
<1>5. Unfold(u) = With(Unfold(t), c)
  <2>1. ~(s \in {"header_line_start", "header_lws"} /\ c \in Lws) => Unfold(u) = With(Unfold(t), c)
    BY TextStep
  <2>2. s = "header_line_start" /\ r.headers = <<>> => Unfold(u) = With(Unfold(t), c)
    BY TextStep
  <2>3. QED
    BY <2>1, <2>2 DEF Refused
<1>6. (n > 0 => ~Fold(x, n)) /\ ~Fold(x, n + 1)
  <2>1. Extends(x, u, n + 1)
    BY <1>3, <1>4
  <2>2. QED
    BY <1>1, <1>2, <2>1, NoFoldRefused
<1>7. SameFolds(u, x, m)
  <2> SUFFICES ASSUME NEW i \in 1 .. m PROVE x[i] = u[i] /\ (InFold(x, i) <=> InFold(u, i))
    BY DEF SameFolds
  <2>1. \A j \in 1 .. m : x[j] = u[j]
    BY <1>4 DEF Extends
  <2>2. ASSUME NEW f \in 1 .. i PROVE Fold(x, f) <=> Fold(u, f)
    <3>1. f \in Nat /\ f >= 1 /\ Extends(x, u, m)
      BY <1>4
    <3>2. Fold(u, f) => Fold(x, f)
      BY <3>1, FoldExtends
    <3>3. f + 2 <= m /\ Fold(x, f) => Fold(u, f)
      BY <3>1, FoldExtends
    <3>4. f + 2 <= m \/ (f = n /\ n > 0) \/ f = n + 1
      BY <1>3
    <3>5. QED
      BY <1>6, <3>2, <3>3, <3>4
  <2>3. \A f \in 1 .. i : \A j \in f + 2 .. i : x[j] = u[j]
    BY <2>1
  <2>4. QED
    BY <2>1, <2>2, <2>3 DEF InFold
<1>8. PICK k \in Nat : k = Len(x)
  BY LenProperties
<1>9. PICK g : KeptBy(g, u, m) /\ Unfold(u) = g[m]
  BY <1>4, UnfoldIs
<1>10. PICK h : KeptBy(h, x, k) /\ Unfold(x) = h[k]
  BY <1>8, UnfoldIs
<1>11. m <= k
  BY <1>4, <1>8 DEF Extends
<1>12. g[m] = h[m]
  <2>1. \A a, b \in Nat : \A p, q :
          m <= a /\ m <= b /\ a <= Len(u) /\ KeptBy(p, u, a) /\ KeptBy(q, x, b) =>
            \A i \in 0 .. m : p[i] = q[i] /\ p[i] \in Seq(Chars)
    BY <1>4, <1>7, KeptAgrees
  <2>2. m <= m /\ m <= Len(u) /\ m \in 0 .. m
    BY <1>4
  <2>3. QED
    BY <1>9, <1>10, <1>11, <2>1, <2>2
<1>13. Extends(h[k], h[m], Len(h[m]))
  <2>1. k <= Len(x)
    BY <1>8
  <2>2. QED
    BY <1>10, <1>11, <2>1, KeptGrows
<1>14. QED
  BY <1>5, <1>9, <1>10, <1>12, <1>13

\* Two texts are the same up to e.
Agree(u, w, e) == \A h \in 1 .. e - 1 : w[h] = u[h]

\* Texts that agree up to e have the same parts up to there.
LEMMA PartsAgree ==
  ASSUME NEW u, NEW w, NEW e \in Nat, Agree(u, w, e)
  PROVE  /\ \A i \in 1 .. e, j \in 0 .. e : \A chars : Only(u, i, j, chars) => Only(w, i, j, chars)
         /\ \A i \in 1 .. e, j \in 0 .. e : \A chars : Filled(u, i, j, chars) => Filled(w, i, j, chars)
         /\ \A i \in 1 .. e, j \in 0 .. e : UriAt(u, i, j) => UriAt(w, i, j)
         /\ \A i, j \in 1 .. e - 1 : VersionAt(u, i, j) => VersionAt(w, i, j)
         /\ \A i, j \in 1 .. e, k \in 0 .. e : MajorAt(u, i, j, k) => MajorAt(w, i, j, k)
         /\ \A f \in 0 .. e : IsRequestLine(u, f) => IsRequestLine(w, f)
         /\ \A a \in 1 .. e, f \in 0 .. e : IsHeader(u, a, f) => IsHeader(w, a, f)
         /\ \A a \in 1 .. e, f \in 0 .. e : LineAt(u, a, f) => LineAt(w, a, f)
<1>1. \A i \in 1 .. e, j \in 0 .. e : \A chars : Only(u, i, j, chars) => Only(w, i, j, chars)
  BY DEF Agree, Only
<1>2. \A i \in 1 .. e, j \in 0 .. e : \A chars : Filled(u, i, j, chars) => Filled(w, i, j, chars)
  BY <1>1 DEF Filled
<1>3. ASSUME NEW i \in 1 .. e, NEW j \in 0 .. e, UriAt(u, i, j) PROVE UriAt(w, i, j)
  <2>1. /\ i \in 1 .. j - 1 /\ u[i] = "sp" /\ Filled(u, 1, i, Token)
        /\ Only(u, i + 1, j, NotCtl \ {"sp"})
    BY <1>3 DEF UriAt
  <2>2. w[i] = "sp"
    BY <2>1 DEF Agree
  <2>3. 1 \in 1 .. e /\ i \in 0 .. e /\ i + 1 \in 1 .. e
    BY <2>1
  <2>4. Filled(w, 1, i, Token)
    BY <1>2, <2>1, <2>3
  <2>5. Only(w, i + 1, j, NotCtl \ {"sp"})
    BY <1>1, <2>1, <2>3
  <2>6. QED
    BY <2>1, <2>2, <2>4, <2>5 DEF UriAt
<1>4. ASSUME NEW i \in 1 .. e - 1, NEW j \in 1 .. e - 1, VersionAt(u, i, j) PROVE VersionAt(w, i, j)
  BY <1>3, <1>4 DEF VersionAt, Agree
<1>5. ASSUME NEW i \in 1 .. e, NEW j \in 1 .. e, NEW k \in 0 .. e, MajorAt(u, i, j, k)
      PROVE  MajorAt(w, i, j, k)
  <2>1. VersionAt(u, i, j) /\ Http(u, j) /\ Filled(u, j + 6, k, Digit)
    BY <1>5 DEF MajorAt
  <2>2. j + 6 < k /\ i < j
    BY <2>1 DEF Filled, VersionAt, UriAt
  <2>3. VersionAt(w, i, j)
    BY <1>4, <2>1, <2>2
  <2>4. Http(w, j)
    <3>1. /\ j + 1 \in 1 .. e - 1 /\ j + 2 \in 1 .. e - 1 /\ j + 3 \in 1 .. e - 1
          /\ j + 4 \in 1 .. e - 1 /\ j + 5 \in 1 .. e - 1
      BY <2>2
    <3>2. QED
      BY <2>1, <3>1 DEF Http, Agree
  <2>5. Filled(w, j + 6, k, Digit)
    <3>1. j + 6 \in 1 .. e
      BY <2>2
    <3>2. QED
      BY <1>2, <2>1, <3>1
  <2>6. QED
    BY <2>3, <2>4, <2>5 DEF MajorAt
<1>6. ASSUME NEW f \in 0 .. e, IsRequestLine(u, f) PROVE IsRequestLine(w, f)
  <2>1. PICK i \in 1 .. f - 1, j \in 1 .. f - 1, k \in 1 .. f - 1 :
          MajorAt(u, i, j, k) /\ u[k] = "." /\ Filled(u, k + 1, f, Digit)
    BY <1>6, RequestLineIs
  <2>2. i \in 1 .. e /\ j \in 1 .. e /\ k \in 0 .. e /\ k \in 1 .. e - 1 /\ k + 1 \in 1 .. e
    OBVIOUS
  <2>3. MajorAt(w, i, j, k)
    BY <1>5, <2>1, <2>2
  <2>4. w[k] = "."
    BY <2>1, <2>2 DEF Agree
  <2>5. Filled(w, k + 1, f, Digit)
    BY <1>2, <2>1, <2>2
  <2>6. f \in Nat
    OBVIOUS
  <2>7. QED
    BY <2>3, <2>4, <2>5, <2>6, RequestLineIs
<1>7. ASSUME NEW a \in 1 .. e, NEW f \in 0 .. e, IsHeader(u, a, f) PROVE IsHeader(w, a, f)
  <2>1. PICK i \in a .. f - 2 :
          /\ Filled(u, a, i, Token) /\ u[i] = ":" /\ u[i + 1] = "sp" /\ Only(u, i + 2, f, NotCtl)
    BY <1>7 DEF IsHeader
  <2>2. i \in 0 .. e /\ i \in 1 .. e - 1 /\ i + 1 \in 1 .. e - 1 /\ i + 2 \in 1 .. e
    OBVIOUS
  <2>3. w[i] = ":" /\ w[i + 1] = "sp"
    BY <2>1, <2>2 DEF Agree
  <2>4. Filled(w, a, i, Token)
    BY <1>2, <2>1, <2>2
  <2>5. Only(w, i + 2, f, NotCtl)
    BY <1>1, <2>1, <2>2
  <2>6. QED
    BY <2>3, <2>4, <2>5 DEF IsHeader
<1>8. \A a \in 1 .. e, f \in 0 .. e : LineAt(u, a, f) => LineAt(w, a, f)
  BY <1>6, <1>7 DEF LineAt
<1>9. QED
  BY <1>1, <1>2, <1>3, <1>4, <1>5, <1>6, <1>7, <1>8

\* So the state says the same of them.
LEMMA PartAgrees ==
  ASSUME NEW u, NEW w, NEW e \in Nat, Agree(u, w, e), NEW a \in 1 .. e, NEW s, Part(u, a, e, s)
  PROVE  Part(w, a, e, s)
<1>1. /\ \A i \in 1 .. e, j \in 0 .. e : \A chars : Filled(u, i, j, chars) => Filled(w, i, j, chars)
      /\ \A i \in 1 .. e, j \in 0 .. e : UriAt(u, i, j) => UriAt(w, i, j)
      /\ \A i, j \in 1 .. e - 1 : VersionAt(u, i, j) => VersionAt(w, i, j)
      /\ \A i, j \in 1 .. e, k \in 0 .. e : MajorAt(u, i, j, k) => MajorAt(w, i, j, k)
      /\ \A f \in 0 .. e : IsRequestLine(u, f) => IsRequestLine(w, f)
      /\ \A b \in 1 .. e, f \in 0 .. e : IsHeader(u, b, f) => IsHeader(w, b, f)
      /\ \A b \in 1 .. e, f \in 0 .. e : LineAt(u, b, f) => LineAt(w, b, f)
  BY PartsAgree
<1>2. RequestLinePart(u, e, s) /\ HeaderLinePart(u, a, e, s)
  BY DEF Part
<1>3. \A h \in 1 .. e - 1 : w[h] = u[h]
  BY DEF Agree
<1>4. \A i, j \in 1 .. e : VersionAt(u, i, j) /\ j < e => VersionAt(w, i, j)
  <2>1. \A i, j \in 1 .. e : VersionAt(u, i, j) /\ j < e => i \in 1 .. e - 1 /\ j \in 1 .. e - 1
    BY DEF VersionAt, UriAt
  <2>2. QED
    BY <1>1, <2>1
<1>5. RequestLinePart(w, e, s)
  <2>1. s = "method" => Filled(w, 1, e, Token)
    <3>1. s = "method" => Filled(u, 1, e, Token)
      BY <1>2 DEF RequestLinePart
    <3>2. 1 \in 1 .. e /\ e \in 0 .. e
      OBVIOUS
    <3>3. QED
      BY <1>1, <3>1, <3>2
  <2>2. s = "uri" => \E i \in 1 .. e : UriAt(w, i, e)
    <3>1. s = "uri" => \E i \in 1 .. e : UriAt(u, i, e)
      BY <1>2 DEF RequestLinePart
    <3>2. e \in 0 .. e
      OBVIOUS
    <3>3. QED
      BY <1>1, <3>1, <3>2
  <2>3. s = "http_version_h" => \E i, j \in 1 .. e : VersionAt(w, i, j) /\ e = j + 1
    BY <1>2, <1>4 DEF RequestLinePart
  <2>4. s = "http_version_t_1" =>
          \E i, j \in 1 .. e : VersionAt(w, i, j) /\ e = j + 2 /\ w[j + 1] = "H"
    BY <1>2, <1>3, <1>4 DEF RequestLinePart
  <2>5. s = "http_version_t_2" =>
          \E i, j \in 1 .. e : VersionAt(w, i, j) /\ e = j + 3 /\ w[j + 1] = "H" /\ w[j + 2] = "T"
    BY <1>2, <1>3, <1>4 DEF RequestLinePart
  <2>6. s = "http_version_p" =>
          \E i, j \in 1 .. e : /\ VersionAt(w, i, j) /\ e = j + 4
                               /\ w[j + 1] = "H" /\ w[j + 2] = "T" /\ w[j + 3] = "T"
    BY <1>2, <1>3, <1>4 DEF RequestLinePart
  <2>7. s = "http_version_slash" =>
          \E i, j \in 1 .. e : /\ VersionAt(w, i, j) /\ e = j + 5
                               /\ w[j + 1] = "H" /\ w[j + 2] = "T" /\ w[j + 3] = "T" /\ w[j + 4] = "P"
    BY <1>2, <1>3, <1>4 DEF RequestLinePart
  <2>8. s = "http_version_major_start" =>
          \E i, j \in 1 .. e : VersionAt(w, i, j) /\ e = j + 6 /\ Http(w, j)
    BY <1>2, <1>3, <1>4 DEF RequestLinePart, Http
  <2>9. s = "http_version_major" => \E i, j \in 1 .. e : MajorAt(w, i, j, e)
    <3>1. e \in 0 .. e
      OBVIOUS
    <3>2. QED
      BY <1>1, <1>2, <3>1 DEF RequestLinePart
  <2>10. s = "http_version_minor_start" =>
           \E i, j \in 1 .. e : MajorAt(w, i, j, e - 1) /\ w[e - 1] = "."
    <3> SUFFICES ASSUME s = "http_version_minor_start"
                 PROVE  \E i, j \in 1 .. e : MajorAt(w, i, j, e - 1) /\ w[e - 1] = "."
      OBVIOUS
    <3>1. PICK i \in 1 .. e, j \in 1 .. e : MajorAt(u, i, j, e - 1) /\ u[e - 1] = "."
      BY <1>2 DEF RequestLinePart
    <3>2. e - 1 \in 0 .. e /\ e - 1 \in 1 .. e - 1
      BY <3>1 DEF MajorAt, Filled
    <3>3. MajorAt(w, i, j, e - 1) /\ w[e - 1] = "."
      BY <1>1, <1>3, <3>1, <3>2
    <3>4. QED
      BY <3>3
  <2>11. s = "http_version_minor" => IsRequestLine(w, e)
    <3>1. e \in 0 .. e
      OBVIOUS
    <3>2. QED
      BY <1>1, <1>2, <3>1 DEF RequestLinePart
  <2>12. s = "expecting_newline_1" => w[e - 1] = "cr" /\ IsRequestLine(w, e - 1)
    <3> SUFFICES ASSUME s = "expecting_newline_1"
                 PROVE  w[e - 1] = "cr" /\ IsRequestLine(w, e - 1)
      OBVIOUS
    <3>1. u[e - 1] = "cr" /\ IsRequestLine(u, e - 1)
      BY <1>2 DEF RequestLinePart
    <3>2. e - 1 \in 0 .. e /\ e - 1 \in 1 .. e - 1
      BY <3>1 DEF IsRequestLine
    <3>3. QED
      BY <1>1, <1>3, <3>1, <3>2
  <2>13. s = "method_start" => e = 1
    BY <1>2 DEF RequestLinePart
  <2>14. QED
    BY <2>1, <2>2, <2>3, <2>4, <2>5, <2>6, <2>7, <2>8, <2>9, <2>10, <2>11, <2>12, <2>13
       DEF RequestLinePart
<1>6. HeaderLinePart(w, a, e, s)
  <2>1. s = "header_name" => Filled(w, a, e, Token)
    <3>1. e \in 0 .. e
      OBVIOUS
    <3>2. QED
      BY <1>1, <1>2, <3>1 DEF HeaderLinePart
  <2>2. s = "space_before_header_value" => Filled(w, a, e - 1, Token) /\ w[e - 1] = ":"
    <3> SUFFICES ASSUME s = "space_before_header_value"
                 PROVE  Filled(w, a, e - 1, Token) /\ w[e - 1] = ":"
      OBVIOUS
    <3>1. Filled(u, a, e - 1, Token) /\ u[e - 1] = ":"
      BY <1>2 DEF HeaderLinePart
    <3>2. e - 1 \in 0 .. e /\ e - 1 \in 1 .. e - 1
      BY <3>1 DEF Filled
    <3>3. QED
      BY <1>1, <1>3, <3>1, <3>2
  <2>3. s \in {"header_value", "header_lws"} => IsHeader(w, a, e)
    <3>1. e \in 0 .. e
      OBVIOUS
    <3>2. QED
      BY <1>1, <1>2, <3>1 DEF HeaderLinePart
  <2>4. s = "expecting_newline_2" => w[e - 1] = "cr" /\ IsHeader(w, a, e - 1)
    <3> SUFFICES ASSUME s = "expecting_newline_2"
                 PROVE  w[e - 1] = "cr" /\ IsHeader(w, a, e - 1)
      OBVIOUS
    <3>1. u[e - 1] = "cr" /\ IsHeader(u, a, e - 1)
      BY <1>2 DEF HeaderLinePart
    <3>2. e - 1 \in 0 .. e /\ e - 1 \in 1 .. e - 1
      BY <3>1 DEF IsHeader
    <3>3. QED
      BY <1>1, <1>3, <3>1, <3>2
  <2>5. QED
    BY <2>1, <2>2, <2>3, <2>4 DEF HeaderLinePart
<1>7. s = "header_line_start" => e > 2 /\ w[e - 2] = "cr" /\ w[e - 1] = "lf" /\ LineAt(w, a, e - 2)
  <2> SUFFICES ASSUME s = "header_line_start"
               PROVE  e > 2 /\ w[e - 2] = "cr" /\ w[e - 1] = "lf" /\ LineAt(w, a, e - 2)
    OBVIOUS
  <2>1. e > 2 /\ u[e - 2] = "cr" /\ u[e - 1] = "lf" /\ LineAt(u, a, e - 2)
    BY DEF Part
  <2>2. e - 2 \in 0 .. e /\ e - 2 \in 1 .. e - 1 /\ e - 1 \in 1 .. e - 1
    BY <2>1
  <2>3. QED
    BY <1>1, <1>3, <2>1, <2>2
<1>8. s = "expecting_newline_3" => a = e - 1 /\ a > 1 /\ w[a] = "cr"
  <2>1. s = "expecting_newline_3" => a = e - 1 /\ a > 1 /\ u[a] = "cr"
    BY DEF Part
  <2>2. QED
    BY <1>3, <2>1
<1>9. Plain(w, a, IF s = "header_line_start" THEN e - 2
                  ELSE IF s \in NewlineStates THEN e - 1 ELSE e)
  <2>1. PICK f : f = IF s = "header_line_start" THEN e - 2
                     ELSE IF s \in NewlineStates THEN e - 1 ELSE e
    OBVIOUS
  <2>2. f \in Int /\ f <= e
    BY <2>1
  <2>3. Plain(u, a, f)
    BY <2>1 DEF Part
  <2>4. \A h \in a .. f - 1 : h \in 1 .. e - 1
    BY <2>2
  <2>5. Plain(w, a, f)
    BY <1>3, <2>3, <2>4 DEF Plain
  <2>6. QED
    BY <2>1, <2>5
<1>10. QED
  BY <1>5, <1>6, <1>7, <1>8, <1>9 DEF Part

\* And the lines that are whole in one are in the other.
LEMMA LinesDoneAgree ==
  ASSUME NEW u, NEW w, NEW e \in Nat, Agree(u, w, e), NEW a \in 1 .. e, LinesDone(u, a)
  PROVE  LinesDone(w, a)
<1>1. \A h \in 1 .. e - 1 : w[h] = u[h]
  BY DEF Agree
<1>2. /\ a \in Nat /\ a >= 1 /\ (a = 1 \/ u[a - 1] = "lf")
      /\ \A h \in 1 .. a - 1 : u[h] = "cr" => h + 1 <= a - 1 /\ u[h + 1] = "lf"
      /\ \A h \in 1 .. a - 1 : u[h] = "lf" => h > 1 /\ u[h - 1] = "cr"
      /\ \A h \in 1 .. a - 1 : u[h] = "cr" => \A b \in 1 .. h : IsLine(u, b, h) => LineAt(u, b, h)
  BY DEF LinesDone
<1>3. a = 1 \/ w[a - 1] = "lf"
  BY <1>1, <1>2
<1>4. ASSUME NEW h \in 1 .. a - 1, w[h] = "cr" PROVE h + 1 <= a - 1 /\ w[h + 1] = "lf"
  BY <1>1, <1>2, <1>4
<1>5. ASSUME NEW h \in 1 .. a - 1, w[h] = "lf" PROVE h > 1 /\ w[h - 1] = "cr"
  BY <1>1, <1>2, <1>5
<1>6. ASSUME NEW h \in 1 .. a - 1, w[h] = "cr", NEW b \in 1 .. h, IsLine(w, b, h)
      PROVE  LineAt(w, b, h)
  <2>1. u[h] = "cr" /\ h \in 1 .. e - 1
    BY <1>1, <1>6
  <2>2. IsLine(u, b, h)
    <3>1. b = 1 \/ u[b - 1] = "lf"
      BY <1>1, <1>6 DEF IsLine
    <3>2. \A k \in b .. h - 1 : u[k] # "cr"
      BY <1>1, <1>6 DEF IsLine
    <3>3. QED
      BY <2>1, <3>1, <3>2 DEF IsLine
  <2>3. LineAt(u, b, h)
    BY <1>2, <2>1, <2>2
  <2>4. b \in 1 .. e /\ h \in 0 .. e
    OBVIOUS
  <2>5. QED
    BY <2>3, <2>4, PartsAgree
<1>7. QED
  BY <1>2, <1>3, <1>4, <1>5, <1>6 DEF LinesDone

\* What a character added at the end leaves, and where it is.
LEMMA WithAgrees ==
  ASSUME NEW u \in Seq(Chars), NEW c \in Chars, NEW v, v = With(u, c), NEW e, e = Len(u) + 1
  PROVE  e \in Nat /\ e >= 1 /\ Len(v) = e /\ Agree(u, v, e) /\ v[e] = c
<1>1. v = Append(u, c)
  BY DEF With
<1>2. PICK n : n = Len(u)
  OBVIOUS
<1>3. n \in Nat /\ Len(v) = n + 1 /\ (\A j \in 1 .. n : v[j] = u[j]) /\ v[n + 1] = c
  BY <1>1, <1>2, AppendProperties, LenProperties
<1>4. e = n + 1 /\ e - 1 = n
  BY <1>2, <1>3
<1>5. QED
  BY <1>3, <1>4 DEF Agree

\* No continuation of a text whose last character is refused is a request.
LEMMA RefusedEnds ==
  ASSUME NEW t, NEW c, NEW y, Reads(t, c, y), NEW s, NEW r, Lines(t, s, r), Shape(Unfold(t), s, r),
         Refused(s, r, c), NEW x \in Seq(Chars), Extends(x, y, Len(y))
  PROVE  ~IsRequest(x)
<1>1. t \in Seq(Chars) /\ c \in Chars
  BY DEF Reads
<1>2. PICK u \in Seq(Chars) : u = Unfold(t)
  BY <1>1, UnfoldType
<1>3. PICK w \in Seq(Chars) : w = Unfold(x)
  BY UnfoldType
<1>4. PICK v, e : v = With(u, c) /\ e = Len(u) + 1
  OBVIOUS
<1>5. e \in Nat /\ e >= 1 /\ Len(v) = e /\ Agree(u, v, e) /\ v[e] = c
  BY <1>1, <1>4, WithAgrees
<1>6. PICK n \in Nat : n = Len(w)
  BY LenProperties
<1>7. e <= n /\ Agree(u, w, e) /\ w[e] = c
  <2>1. Extends(Unfold(x), With(Unfold(t), c), Len(With(Unfold(t), c)))
    BY RefusedIsKept
  <2>2. Extends(w, v, e)
    BY <1>2, <1>3, <1>4, <1>5, <2>1
  <2>3. e <= n /\ \A j \in 1 .. e : w[j] = v[j]
    BY <1>6, <2>2 DEF Extends
  <2>4. \A j \in 1 .. e - 1 : w[j] = u[j]
    BY <1>5, <2>3 DEF Agree
  <2>5. QED
    BY <1>5, <2>3, <2>4 DEF Agree
<1>8. s \in ParserStates
  BY DEF Shape
<1>9. PICK a \in 1 .. e : /\ LinesDone(u, a) /\ Part(u, a, e, s)
                          /\ s # "expecting_newline_3" => (a = 1 <=> r.headers = <<>>)
  BY <1>2, <1>4 DEF Shape
<1>10. LinesDone(w, a) /\ Part(w, a, e, s)
  BY <1>5, <1>7, <1>9, PartAgrees, LinesDoneAgree
<1>11. (s \notin LaterStates => a = 1) /\ (s \in HeaderStates => a # 1)
  <2>1. (s \notin LaterStates => r.headers = <<>>) /\ (s \in HeaderStates => r.headers # <<>>)
    BY DEF Lines, LinesTo
  <2>2. s \notin LaterStates \/ s \in HeaderStates => s # "expecting_newline_3"
    BY DEF LaterStates, HeaderStates
  <2>3. QED
    BY <1>9, <2>1, <2>2
<1>12. ASSUME IsUnfoldedRequest(w) PROVE FALSE
  <2>1. a \in Nat /\ a <= e
    BY <1>5
  <2>2. Takes(s, w[e])
    BY <1>5, <1>6, <1>7, <1>8, <1>10, <1>11, <1>12, <2>1, NextFits
  <2>3. QED
    BY <1>7, <1>8, <2>2 DEF Refused
<1>13. QED
  BY <1>3, <1>12 DEF IsRequest

-------------------------------------------------------------------------------
(* What is taken keeps the text a request's beginning.                     *)

\* Where a transition goes, and from which states and with which characters.
Moves(s, c, k) ==
  /\ k \in ParserStates \ {"method_start"}
  /\ k = "method" => c \in Token /\ s \in {"method_start", "method"}
  /\ k = "uri" => (s = "method" /\ c = "sp") \/ (s = "uri" /\ c \in NotCtl \ {"sp"})
  /\ k = "http_version_h" => s = "uri" /\ c = "sp"
  /\ k = "http_version_t_1" => s = "http_version_h" /\ c = "H"
  /\ k = "http_version_t_2" => s = "http_version_t_1" /\ c = "T"
  /\ k = "http_version_p" => s = "http_version_t_2" /\ c = "T"
  /\ k = "http_version_slash" => s = "http_version_p" /\ c = "P"
  /\ k = "http_version_major_start" => s = "http_version_slash" /\ c = "/"
  /\ k = "http_version_major" =>
       c \in Digit /\ s \in {"http_version_major_start", "http_version_major"}
  /\ k = "http_version_minor_start" => s = "http_version_major" /\ c = "."
  /\ k = "http_version_minor" =>
       c \in Digit /\ s \in {"http_version_minor_start", "http_version_minor"}
  /\ k = "expecting_newline_1" => s = "http_version_minor" /\ c = "cr"
  /\ k = "header_line_start" => c = "lf" /\ s \in {"expecting_newline_1", "expecting_newline_2"}
  /\ k = "header_name" => c \in Token /\ s \in {"header_line_start", "header_name"}
  /\ k = "space_before_header_value" => c = ":" /\ s = "header_name"
  /\ k = "header_value" => \/ s = "space_before_header_value" /\ c = "sp"
                           \/ s \in {"header_value", "header_lws"} /\ c \in NotCtl
  /\ k = "header_lws" => c \in Lws /\ s \in {"header_line_start", "header_lws"}
  /\ k = "expecting_newline_2" => c = "cr" /\ s \in {"header_value", "header_lws"}
  /\ k = "expecting_newline_3" => c = "cr" /\ s = "header_line_start"

\* Every transition of the parser is one of those.
LEMMA RowsMove ==
  ASSUME NEW c, NEW row \in RequestLine \cup HttpVersion \cup Headers(req.headers), c \in row.on
  PROVE  Moves(row.from, c, row.to)
<1>1. CASE row \in RequestLine
  BY <1>1 DEF RequestLine, On, Moves, ParserStates
<1>2. CASE row \in HttpVersion
  BY <1>2 DEF HttpVersion, On, Moves, ParserStates, LaterStates
<1>3. CASE row \in Headers(req.headers)
  BY <1>3 DEF Headers, On, Moves, ParserStates, LaterStates, HeaderStates
<1>4. QED
  BY <1>1, <1>2, <1>3

\* Those of the request line go on with it.
LEMMA RequestLinePartGoesOn ==
  ASSUME NEW v, NEW e \in Nat, e >= 1, NEW s, RequestLinePart(v, e, s), NEW c, v[e] = c,
         NEW k, Moves(s, c, k), NEW f, f = e + 1
  PROVE  RequestLinePart(v, f, k)
<1>0. f \in Nat /\ f - 1 = e /\ f >= 1
  OBVIOUS
<1>1. k # "method_start"
  BY DEF Moves
<1>2. k = "method" => Filled(v, 1, f, Token)
  <2> SUFFICES ASSUME k = "method" PROVE Filled(v, 1, f, Token)
    OBVIOUS
  <2>1. c \in Token /\ s \in {"method_start", "method"}
    BY DEF Moves
  <2>2. \A h \in 1 .. e - 1 : v[h] \in Token
    BY <2>1 DEF RequestLinePart, Filled, Only
  <2>3. QED
    BY <1>0, <2>1, <2>2 DEF Filled, Only
<1>3. k = "uri" => \E i \in 1 .. f : UriAt(v, i, f)
  <2> SUFFICES ASSUME k = "uri" PROVE \E i \in 1 .. f : UriAt(v, i, f)
    OBVIOUS
  <2>1. CASE s = "method" /\ c = "sp"
    <3>1. Filled(v, 1, e, Token)
      BY <2>1 DEF RequestLinePart
    <3>2. UriAt(v, e, f)
      BY <1>0, <2>1, <3>1 DEF UriAt, Only
    <3>3. QED
      BY <1>0, <3>2
  <2>2. CASE s = "uri" /\ c \in NotCtl \ {"sp"}
    <3>1. PICK i \in 1 .. e : UriAt(v, i, e)
      BY <2>2 DEF RequestLinePart
    <3>2. UriAt(v, i, f)
      BY <1>0, <2>2, <3>1 DEF UriAt, Only
    <3>3. QED
      BY <1>0, <3>2
  <2>3. QED
    BY <2>1, <2>2 DEF Moves
<1>4. k = "http_version_h" => \E i, j \in 1 .. f : VersionAt(v, i, j) /\ f = j + 1
  <2> SUFFICES ASSUME k = "http_version_h"
               PROVE  \E i, j \in 1 .. f : VersionAt(v, i, j) /\ f = j + 1
    OBVIOUS
  <2>1. s = "uri" /\ c = "sp"
    BY DEF Moves
  <2>2. PICK i \in 1 .. e : UriAt(v, i, e)
    BY <2>1 DEF RequestLinePart
  <2>3. VersionAt(v, i, e)
    BY <2>1, <2>2 DEF VersionAt
  <2>4. QED
    BY <1>0, <2>3
<1>5. k = "http_version_t_1" =>
        \E i, j \in 1 .. f : VersionAt(v, i, j) /\ f = j + 2 /\ v[j + 1] = "H"
  <2>1. k = "http_version_t_1" => s = "http_version_h" /\ c = "H"
    BY DEF Moves
  <2>2. s = "http_version_h" => \E i, j \in 1 .. e : VersionAt(v, i, j) /\ e = j + 1
    BY DEF RequestLinePart
  <2>3. QED
    BY <1>0, <2>1, <2>2
<1>6. k = "http_version_t_2" =>
        \E i, j \in 1 .. f : VersionAt(v, i, j) /\ f = j + 3 /\ v[j + 1] = "H" /\ v[j + 2] = "T"
  <2>1. k = "http_version_t_2" => s = "http_version_t_1" /\ c = "T"
    BY DEF Moves
  <2>2. s = "http_version_t_1" =>
          \E i, j \in 1 .. e : VersionAt(v, i, j) /\ e = j + 2 /\ v[j + 1] = "H"
    BY DEF RequestLinePart
  <2>3. QED
    BY <1>0, <2>1, <2>2
<1>7. k = "http_version_p" =>
        \E i, j \in 1 .. f : /\ VersionAt(v, i, j) /\ f = j + 4
                             /\ v[j + 1] = "H" /\ v[j + 2] = "T" /\ v[j + 3] = "T"
  <2>1. k = "http_version_p" => s = "http_version_t_2" /\ c = "T"
    BY DEF Moves
  <2>2. s = "http_version_t_2" =>
          \E i, j \in 1 .. e : VersionAt(v, i, j) /\ e = j + 3 /\ v[j + 1] = "H" /\ v[j + 2] = "T"
    BY DEF RequestLinePart
  <2>3. QED
    BY <1>0, <2>1, <2>2
<1>8. k = "http_version_slash" =>
        \E i, j \in 1 .. f : /\ VersionAt(v, i, j) /\ f = j + 5
                             /\ v[j + 1] = "H" /\ v[j + 2] = "T" /\ v[j + 3] = "T" /\ v[j + 4] = "P"
  <2>1. k = "http_version_slash" => s = "http_version_p" /\ c = "P"
    BY DEF Moves
  <2>2. s = "http_version_p" =>
          \E i, j \in 1 .. e : /\ VersionAt(v, i, j) /\ e = j + 4
                               /\ v[j + 1] = "H" /\ v[j + 2] = "T" /\ v[j + 3] = "T"
    BY DEF RequestLinePart
  <2>3. QED
    BY <1>0, <2>1, <2>2
<1>9. k = "http_version_major_start" =>
        \E i, j \in 1 .. f : VersionAt(v, i, j) /\ f = j + 6 /\ Http(v, j)
  <2>1. k = "http_version_major_start" => s = "http_version_slash" /\ c = "/"
    BY DEF Moves
  <2>2. s = "http_version_slash" =>
          \E i, j \in 1 .. e : /\ VersionAt(v, i, j) /\ e = j + 5
                               /\ v[j + 1] = "H" /\ v[j + 2] = "T" /\ v[j + 3] = "T" /\ v[j + 4] = "P"
    BY DEF RequestLinePart
  <2>3. QED
    BY <1>0, <2>1, <2>2 DEF Http
<1>10. k = "http_version_major" => \E i, j \in 1 .. f : MajorAt(v, i, j, f)
  <2> SUFFICES ASSUME k = "http_version_major" PROVE \E i, j \in 1 .. f : MajorAt(v, i, j, f)
    OBVIOUS
  <2>1. c \in Digit /\ s \in {"http_version_major_start", "http_version_major"}
    BY DEF Moves
  <2>2. CASE s = "http_version_major_start"
    <3>1. PICK i \in 1 .. e, j \in 1 .. e : VersionAt(v, i, j) /\ e = j + 6 /\ Http(v, j)
      BY <2>2 DEF RequestLinePart
    <3>2. Filled(v, j + 6, f, Digit)
      BY <1>0, <2>1, <3>1 DEF Filled, Only
    <3>3. QED
      BY <1>0, <3>1, <3>2 DEF MajorAt
  <2>3. CASE s = "http_version_major"
    <3>1. PICK i \in 1 .. e, j \in 1 .. e : MajorAt(v, i, j, e)
      BY <2>3 DEF RequestLinePart
    <3>2. Filled(v, j + 6, f, Digit)
      BY <1>0, <2>1, <3>1 DEF MajorAt, Filled, Only
    <3>3. QED
      BY <1>0, <3>1, <3>2 DEF MajorAt
  <2>4. QED
    BY <2>1, <2>2, <2>3
<1>11. k = "http_version_minor_start" => \E i, j \in 1 .. f : MajorAt(v, i, j, f - 1) /\ v[f - 1] = "."
  <2>1. k = "http_version_minor_start" => s = "http_version_major" /\ c = "."
    BY DEF Moves
  <2>2. s = "http_version_major" => \E i, j \in 1 .. e : MajorAt(v, i, j, e)
    BY DEF RequestLinePart
  <2>3. QED
    BY <1>0, <2>1, <2>2
<1>12. k = "http_version_minor" => IsRequestLine(v, f)
  <2> SUFFICES ASSUME k = "http_version_minor" PROVE IsRequestLine(v, f)
    OBVIOUS
  <2>1. c \in Digit /\ s \in {"http_version_minor_start", "http_version_minor"}
    BY DEF Moves
  <2>2. CASE s = "http_version_minor_start"
    <3>1. PICK i \in 1 .. e, j \in 1 .. e : MajorAt(v, i, j, e - 1) /\ v[e - 1] = "."
      BY <2>2 DEF RequestLinePart
    <3>2. i < j /\ j + 6 < e - 1
      BY <3>1 DEF MajorAt, VersionAt, UriAt, Filled
    <3>3. PICK d : d = e - 1
      OBVIOUS
    <3>4. Filled(v, d + 1, f, Digit)
      BY <1>0, <2>1, <3>3 DEF Filled, Only
    <3>5. MajorAt(v, i, j, d) /\ v[d] = "."
      BY <3>1, <3>3
    <3>6. i \in 1 .. f - 1 /\ j \in 1 .. f - 1 /\ d \in 1 .. f - 1
      BY <1>0, <3>2, <3>3
    <3>7. QED
      BY <1>0, <3>4, <3>5, <3>6, RequestLineIs
  <2>3. CASE s = "http_version_minor"
    <3>1. IsRequestLine(v, e)
      BY <2>3 DEF RequestLinePart
    <3>2. PICK i \in 1 .. e - 1, j \in 1 .. e - 1, d \in 1 .. e - 1 :
            MajorAt(v, i, j, d) /\ v[d] = "." /\ Filled(v, d + 1, e, Digit)
      BY <3>1, RequestLineIs
    <3>3. Filled(v, d + 1, f, Digit)
      BY <1>0, <2>1, <3>2 DEF Filled, Only
    <3>4. i \in 1 .. f - 1 /\ j \in 1 .. f - 1 /\ d \in 1 .. f - 1
      BY <1>0
    <3>5. QED
      BY <1>0, <3>2, <3>3, <3>4, RequestLineIs
  <2>4. QED
    BY <2>1, <2>2, <2>3
<1>13. k = "expecting_newline_1" => v[f - 1] = "cr" /\ IsRequestLine(v, f - 1)
  <2>1. k = "expecting_newline_1" => s = "http_version_minor" /\ c = "cr"
    BY DEF Moves
  <2>2. s = "http_version_minor" => IsRequestLine(v, e)
    BY DEF RequestLinePart
  <2>3. QED
    BY <1>0, <2>1, <2>2
<1>14. QED
  BY <1>1, <1>2, <1>3, <1>4, <1>5, <1>6, <1>7, <1>8, <1>9, <1>10, <1>11, <1>12, <1>13
     DEF RequestLinePart

\* Those of a header go on with it.
LEMMA HeaderLinePartGoesOn ==
  ASSUME NEW v, NEW a \in Nat, a >= 1, NEW e \in Nat, a <= e, NEW s, HeaderLinePart(v, a, e, s),
         NEW c, v[e] = c, NEW k, Moves(s, c, k), s # "header_line_start", k # "header_lws",
         NEW f, f = e + 1
  PROVE  HeaderLinePart(v, a, f, k)
<1>0. f \in Nat /\ f - 1 = e
  OBVIOUS
<1>1. k = "header_name" => Filled(v, a, f, Token)
  <2> SUFFICES ASSUME k = "header_name" PROVE Filled(v, a, f, Token)
    OBVIOUS
  <2>1. c \in Token /\ s = "header_name"
    BY DEF Moves
  <2>2. Filled(v, a, e, Token)
    BY <2>1 DEF HeaderLinePart
  <2>3. QED
    BY <1>0, <2>1, <2>2 DEF Filled, Only
<1>2. k = "space_before_header_value" => Filled(v, a, f - 1, Token) /\ v[f - 1] = ":"
  <2>1. k = "space_before_header_value" => s = "header_name" /\ c = ":"
    BY DEF Moves
  <2>2. s = "header_name" => Filled(v, a, e, Token)
    BY DEF HeaderLinePart
  <2>3. QED
    BY <1>0, <2>1, <2>2
<1>3. k = "header_value" => IsHeader(v, a, f)
  <2> SUFFICES ASSUME k = "header_value" PROVE IsHeader(v, a, f)
    OBVIOUS
  <2>1. CASE s = "space_before_header_value" /\ c = "sp"
    <3>1. Filled(v, a, e - 1, Token) /\ v[e - 1] = ":"
      BY <2>1 DEF HeaderLinePart
    <3>2. PICK i : i = e - 1
      OBVIOUS
    <3>3. /\ i \in a .. f - 2 /\ Filled(v, a, i, Token) /\ v[i] = ":" /\ v[i + 1] = "sp"
          /\ Only(v, i + 2, f, NotCtl)
      BY <1>0, <2>1, <3>1, <3>2 DEF Filled, Only
    <3>4. QED
      BY <3>3 DEF IsHeader
  <2>2. CASE s \in {"header_value", "header_lws"} /\ c \in NotCtl
    <3>1. IsHeader(v, a, e)
      BY <2>2 DEF HeaderLinePart
    <3>2. PICK i \in a .. e - 2 :
            /\ Filled(v, a, i, Token) /\ v[i] = ":" /\ v[i + 1] = "sp" /\ Only(v, i + 2, e, NotCtl)
      BY <3>1 DEF IsHeader
    <3>3. i \in a .. f - 2 /\ Only(v, i + 2, f, NotCtl)
      BY <1>0, <2>2, <3>2 DEF Only
    <3>4. QED
      BY <3>2, <3>3 DEF IsHeader
  <2>3. QED
    BY <2>1, <2>2 DEF Moves
<1>4. k = "expecting_newline_2" => v[f - 1] = "cr" /\ IsHeader(v, a, f - 1)
  <2>1. k = "expecting_newline_2" => s \in {"header_value", "header_lws"} /\ c = "cr"
    BY DEF Moves
  <2>2. s \in {"header_value", "header_lws"} => IsHeader(v, a, e)
    BY DEF HeaderLinePart
  <2>3. QED
    BY <1>0, <2>1, <2>2
<1>5. QED
  BY <1>1, <1>2, <1>3, <1>4 DEF HeaderLinePart

\* A line that is ended is whole, and another starts.
LEMMA LineEnds ==
  ASSUME NEW v, NEW e \in Nat, NEW a \in Nat, a < e - 2, LinesDone(v, a), Plain(v, a, e - 2),
         v[e - 2] = "cr", v[e - 1] = "lf", LineAt(v, a, e - 2)
  PROVE  LinesDone(v, e)
<1>1. /\ a >= 1 /\ (a = 1 \/ v[a - 1] = "lf")
      /\ \A h \in 1 .. a - 1 : v[h] = "cr" => h + 1 <= a - 1 /\ v[h + 1] = "lf"
      /\ \A h \in 1 .. a - 1 : v[h] = "lf" => h > 1 /\ v[h - 1] = "cr"
      /\ \A h \in 1 .. a - 1 : v[h] = "cr" => \A b \in 1 .. h : IsLine(v, b, h) => LineAt(v, b, h)
  BY DEF LinesDone
<1>2. PICK d \in Nat : d = e - 2
  OBVIOUS
<1>3. /\ d + 1 = e - 1 /\ a < d /\ v[d] = "cr" /\ v[d + 1] = "lf" /\ LineAt(v, a, d)
      /\ \A h \in a .. d - 1 : v[h] # "cr" /\ v[h] # "lf"
  BY <1>2 DEF Plain
<1>4. \A h \in 1 .. e - 1 : h \in 1 .. a - 1 \/ h \in a .. d - 1 \/ h = d \/ h = d + 1
  BY <1>1, <1>2
<1>5. ASSUME NEW h \in 1 .. e - 1, v[h] = "cr" PROVE h + 1 <= e - 1 /\ v[h + 1] = "lf"
  <2>1. h \in 1 .. a - 1 \/ h = d
    BY <1>3, <1>4, <1>5
  <2>2. QED
    BY <1>1, <1>2, <1>3, <1>5, <2>1
<1>6. ASSUME NEW h \in 1 .. e - 1, v[h] = "lf" PROVE h > 1 /\ v[h - 1] = "cr"
  <2>1. h \in 1 .. a - 1 \/ h = d + 1
    BY <1>3, <1>4, <1>6
  <2>2. QED
    BY <1>1, <1>2, <1>3, <1>6, <2>1
<1>7. ASSUME NEW h \in 1 .. e - 1, v[h] = "cr", NEW b \in 1 .. h, IsLine(v, b, h)
      PROVE  LineAt(v, b, h)
  <2>1. h \in 1 .. a - 1 \/ h = d
    BY <1>3, <1>4, <1>7
  <2>2. CASE h \in 1 .. a - 1
    BY <1>1, <1>7, <2>2
  <2>3. CASE h = d
    <3>1. (b = 1 \/ v[b - 1] = "lf") /\ \A l \in b .. d - 1 : v[l] # "cr"
      BY <1>7, <2>3 DEF IsLine
    <3>2. ~(b > a)
      <4>1. b > a => b - 1 \in a .. d - 1 /\ b # 1
        BY <1>1, <1>2, <2>3
      <4>2. QED
        BY <1>3, <3>1, <4>1
    <3>3. ~(b < a)
      <4> SUFFICES ASSUME b < a PROVE FALSE
        OBVIOUS
      <4>1. a - 1 \in 1 .. a - 1 /\ v[a - 1] = "lf"
        BY <1>1
      <4>2. a - 1 > 1 /\ v[a - 2] = "cr"
        BY <1>1, <4>1
      <4>3. a - 2 < b
        BY <1>2, <1>3, <2>3, <3>1, <4>2
      <4>4. b = a - 1
        BY <4>3
      <4>5. QED
        BY <3>1, <4>2, <4>4
    <3>4. QED
      BY <1>3, <2>3, <3>2, <3>3
  <2>4. QED
    BY <2>1, <2>2, <2>3
<1>8. QED
  BY <1>1, <1>2, <1>5, <1>6, <1>7 DEF LinesDone

\* A line that may end has characters.
LEMMA LineAtFills ==
  ASSUME NEW v, NEW a \in Nat, a >= 1, NEW e \in Int, LineAt(v, a, e)
  PROVE  a < e
BY DEF LineAt, IsRequestLine, IsHeader

\* Within a line, a character that is taken continues it or ends it.
LEMMA PartGoesOn ==
  ASSUME NEW v, NEW a \in Nat, a >= 1, NEW e \in Nat, a <= e, NEW s, Part(v, a, e, s),
         NEW c, v[e] = c, NEW k, Moves(s, c, k), s # "header_line_start", k # "header_lws",
         s = "expecting_newline_1" => a = 1, s = "expecting_newline_2" => a # 1,
         NEW f, f = e + 1
  PROVE  Part(v, a, f, k)
<1>0. f \in Nat /\ f - 1 = e /\ f - 2 = e - 1
  OBVIOUS
<1>1. RequestLinePart(v, f, k)
  <2>1. e >= 1 /\ RequestLinePart(v, e, s)
    BY DEF Part
  <2>2. QED
    BY <2>1, RequestLinePartGoesOn
<1>2. HeaderLinePart(v, a, f, k)
  <2>1. HeaderLinePart(v, a, e, s)
    BY DEF Part
  <2>2. QED
    BY <2>1, HeaderLinePartGoesOn
<1>3. k = "header_line_start" => f > 2 /\ v[f - 2] = "cr" /\ v[f - 1] = "lf" /\ LineAt(v, a, f - 2)
  <2> SUFFICES ASSUME k = "header_line_start"
               PROVE  f > 2 /\ v[f - 2] = "cr" /\ v[f - 1] = "lf" /\ LineAt(v, a, f - 2)
    OBVIOUS
  <2>1. c = "lf" /\ s \in {"expecting_newline_1", "expecting_newline_2"}
    BY DEF Moves
  <2>2. v[e - 1] = "cr" /\ LineAt(v, a, e - 1)
    <3>1. s = "expecting_newline_1" => v[e - 1] = "cr" /\ IsRequestLine(v, e - 1)
      BY DEF Part, RequestLinePart
    <3>2. s = "expecting_newline_2" => v[e - 1] = "cr" /\ IsHeader(v, a, e - 1)
      BY DEF Part, HeaderLinePart
    <3>3. QED
      BY <2>1, <3>1, <3>2 DEF LineAt
  <2>3. e > 1
    BY <2>2, LineAtFills
  <2>4. QED
    BY <1>0, <2>1, <2>2, <2>3
<1>4. k # "expecting_newline_3"
  BY DEF Moves
<1>5. Plain(v, a, IF k = "header_line_start" THEN f - 2
                  ELSE IF k \in NewlineStates THEN f - 1 ELSE f)
  <2>1. CASE k = "header_line_start"
    <3>1. s \in NewlineStates
      BY <2>1 DEF Moves, NewlineStates
    <3>2. Plain(v, a, e - 1)
      BY <3>1 DEF Part
    <3>3. QED
      BY <1>0, <2>1, <3>2
  <2>2. CASE k \in NewlineStates
    <3>1. s \notin NewlineStates
      BY <1>4, <2>2 DEF Moves, NewlineStates
    <3>2. Plain(v, a, e)
      BY <3>1 DEF Part
    <3>3. QED
      BY <1>0, <2>2, <3>2 DEF NewlineStates
  <2>3. CASE k # "header_line_start" /\ k \notin NewlineStates
    <3>1. s \notin NewlineStates /\ c # "cr" /\ c # "lf"
      BY <2>3, Classes
         DEF Moves, NewlineStates, ParserStates, LaterStates, HeaderStates
    <3>2. Plain(v, a, e)
      BY <3>1 DEF Part
    <3>3. Plain(v, a, f)
      BY <1>0, <3>1, <3>2 DEF Plain
    <3>4. QED
      BY <2>3, <3>3
  <2>4. QED
    BY <2>1, <2>2, <2>3
<1>6. QED
  BY <1>1, <1>2, <1>3, <1>4, <1>5 DEF Part

\* At the start of a line, one that is taken starts a header or the last line.
LEMMA PartStarts ==
  ASSUME NEW v, NEW e \in Nat, e > 2, NEW c, v[e] = c, NEW k, Moves("header_line_start", c, k),
         k # "header_lws", NEW f, f = e + 1
  PROVE  Part(v, e, f, k)
<1>0. f \in Nat /\ f - 1 = e
  OBVIOUS
<1>1. (k = "header_name" /\ c \in Token) \/ (k = "expecting_newline_3" /\ c = "cr")
  BY DEF Moves, ParserStates, LaterStates, HeaderStates
<1>2. CASE k = "header_name" /\ c \in Token
  <2>1. Filled(v, e, f, Token)
    BY <1>0, <1>2 DEF Filled, Only
  <2>2. Plain(v, e, f)
    BY <1>0, <1>2, Classes DEF Plain
  <2>3. QED
    BY <1>2, <2>1, <2>2 DEF Part, RequestLinePart, HeaderLinePart, NewlineStates
<1>3. CASE k = "expecting_newline_3" /\ c = "cr"
  <2>1. Plain(v, e, e)
    BY DEF Plain
  <2>2. QED
    BY <1>0, <1>3, <2>1 DEF Part, RequestLinePart, HeaderLinePart, NewlineStates
<1>4. QED
  BY <1>1, <1>2, <1>3

\* Every transition keeps what the state says of the text without folds.
LEMMA ShapeStep ==
  ASSUME req \in Request, NEW c \in Chars, NEW u \in Seq(Chars), NEW v \in Seq(Chars),
         NEW t, Lines(t, state_, req), Shape(u, state_, req), Adds(u, c, v),
         NEW row \in RequestLine \cup HttpVersion \cup Headers(req.headers),
         row.from = state_, c \in row.on
  PROVE  Shape(v, row.to, Put(row.put, c))
<1>1. PICK s, k, r, q : s = state_ /\ k = row.to /\ r = req /\ q = Put(row.put, c)
  OBVIOUS
<1>2. Moves(s, c, k) /\ RowLines(row, c) /\ RowPut(row, c)
  BY <1>1, RowsMove, RowsLines, RowsPut
<1>3. (s \notin LaterStates => r.headers = <<>>) /\ (s \in HeaderStates => r.headers # <<>>)
  BY <1>1 DEF Lines, LinesTo
<1>4. /\ r.headers # <<>> \/ k \in HeaderStates => q.headers # <<>>
      /\ r.headers = <<>> /\ row.put # "header" => q.headers = <<>>
  BY <1>1, <1>3, PutSomeHeaders
<1>5. PICK e \in Nat : e = Len(u) + 1 /\ e >= 1
  BY LenProperties
<1>6. k \in ParserStates /\ s # "expecting_newline_3"
  BY <1>2 DEF Moves, ParserStates, LaterStates, HeaderStates
<1>7. PICK a \in 1 .. e : /\ LinesDone(u, a) /\ Part(u, a, e, s) /\ (a = 1 <=> r.headers = <<>>)
  BY <1>1, <1>5, <1>6 DEF Shape
<1>8. CASE s = "header_line_start" /\ k = "header_lws"
  <2>1. c \in Lws /\ r.headers # <<>>
    BY <1>1, <1>2, <1>8 DEF Moves, RowPut
  <2>2. u = With(With(v, "cr"), "lf")
    BY <1>1, <1>8, <2>1 DEF Adds
  <2>3. PICK d \in Nat : d = Len(v) + 1 /\ d >= 1
    BY LenProperties
  <2>4. e = d + 2 /\ Agree(u, v, d)
    <3>1. "cr" \in Chars /\ "lf" \in Chars
      BY DEF Chars, Ctl
    <3>2. PICK y \in Seq(Chars) : y = With(v, "cr")
      BY <3>1, TextType
    <3>3. Len(y) = d /\ Agree(v, y, d)
      BY <2>3, <3>1, <3>2, WithAgrees
    <3>4. PICK g : g = Len(y) + 1
      OBVIOUS
    <3>5. Len(u) = g /\ Agree(y, u, g)
      BY <2>2, <3>1, <3>2, <3>4, WithAgrees
    <3>6. g = d + 1
      BY <3>3, <3>4
    <3>7. \A h \in 1 .. d - 1 : h \in 1 .. g - 1 /\ y[h] = v[h] /\ u[h] = y[h]
      BY <3>3, <3>5, <3>6 DEF Agree
    <3>8. QED
      BY <1>5, <3>5, <3>6, <3>7 DEF Agree
  <2>5. IsHeader(u, a, d) /\ Plain(u, a, d)
    <3>1. LineAt(u, a, e - 2) /\ Plain(u, a, e - 2)
      BY <1>7, <1>8 DEF Part
    <3>2. e - 2 = d
      BY <2>4
    <3>3. QED
      BY <1>7, <2>1, <3>1, <3>2 DEF LineAt
  <2>6. a \in 1 .. d /\ d \in 0 .. d
    BY <2>5 DEF IsHeader
  <2>7. LinesDone(v, a)
    BY <1>7, <2>4, <2>6, LinesDoneAgree
  <2>8. IsHeader(v, a, d)
    BY <2>4, <2>5, <2>6, PartsAgree
  <2>9. Plain(v, a, d)
    BY <2>4, <2>5, <2>6 DEF Plain, Agree
  <2>10. Part(v, a, d, k)
    BY <1>8, <2>8, <2>9 DEF Part, RequestLinePart, HeaderLinePart, NewlineStates
  <2>11. a = 1 <=> q.headers = <<>>
    BY <1>4, <1>7, <2>1
  <2>12. Shape(v, k, q)
    BY <1>6, <2>3, <2>6, <2>7, <2>10, <2>11 DEF Shape
  <2>13. QED
    BY <1>1, <2>12
<1>9. CASE s = "header_lws" /\ k = "header_lws"
  <2>1. v = u
    BY <1>1, <1>2, <1>9 DEF Adds, Moves
  <2>2. q.headers # <<>> /\ r.headers # <<>>
    BY <1>3, <1>4, <1>9 DEF HeaderStates
  <2>3. Shape(v, k, q)
    BY <1>5, <1>6, <1>7, <1>9, <2>1, <2>2 DEF Shape
  <2>4. QED
    BY <1>1, <2>3
<1>10. CASE k # "header_lws"
  <2>1. v = With(u, c)
    BY <1>1, <1>2, <1>10 DEF Adds, RowLines
  <2>2. Len(v) = e /\ Agree(u, v, e) /\ v[e] = c
    BY <1>5, <2>1, WithAgrees
  <2>3. LinesDone(v, a) /\ Part(v, a, e, s)
    BY <1>7, <2>2, PartAgrees, LinesDoneAgree
  <2>4. PICK f \in Nat : f = e + 1
    OBVIOUS
  <2>5. CASE s = "header_line_start"
    <3>1. /\ e > 2 /\ v[e - 2] = "cr" /\ v[e - 1] = "lf" /\ LineAt(v, a, e - 2)
          /\ Plain(v, a, e - 2)
      BY <2>3, <2>5 DEF Part
    <3>2. a < e - 2
      BY <3>1, LineAtFills
    <3>3. LinesDone(v, e)
      BY <2>3, <3>1, <3>2, LineEnds
    <3>4. Part(v, e, f, k)
      BY <1>2, <1>10, <2>2, <2>4, <2>5, <3>1, PartStarts
    <3>5. k # "expecting_newline_3" => q.headers # <<>>
      BY <1>2, <1>4, <1>6, <1>10, <2>5 DEF Moves, ParserStates, LaterStates
    <3>6. e \in 1 .. f /\ f = Len(v) + 1 /\ e # 1
      BY <2>2, <2>4, <3>1
    <3>7. Shape(v, k, q)
      BY <1>6, <3>3, <3>4, <3>5, <3>6 DEF Shape
    <3>8. QED
      BY <1>1, <3>7
  <2>6. CASE s # "header_line_start"
    <3>1. s = "expecting_newline_1" => a = 1
      BY <1>3, <1>7 DEF LaterStates, HeaderStates
    <3>2. s = "expecting_newline_2" => a # 1
      BY <1>3, <1>7 DEF HeaderStates
    <3>3. a \in Nat /\ a >= 1 /\ a <= e
      BY <1>7
    <3>4. Part(v, a, f, k)
      BY <1>2, <1>10, <2>2, <2>3, <2>4, <2>6, <3>1, <3>2, <3>3, PartGoesOn
    <3>5. row.put # "header"
      BY <1>1, <1>2, <2>6 DEF RowPut
    <3>6. a = 1 <=> q.headers = <<>>
      BY <1>4, <1>7, <3>5
    <3>7. a \in 1 .. f /\ f = Len(v) + 1
      BY <2>2, <2>4
    <3>8. Shape(v, k, q)
      BY <1>6, <2>3, <3>4, <3>6, <3>7 DEF Shape
    <3>9. QED
      BY <1>1, <3>8
  <2>7. QED
    BY <2>5, <2>6
<1>11. QED
  BY <1>2, <1>8, <1>9, <1>10 DEF Moves

\* What the parser has read and goes on from is not a request.
LEMMA NotYet ==
  ASSUME NEW t \in Seq(Chars), NEW s, NEW r, Lines(t, s, r), Shape(Unfold(t), s, r)
  PROVE  ~IsRequest(t)
<1> SUFFICES ASSUME IsRequest(t) PROVE FALSE
  OBVIOUS
<1>1. PICK n \in Nat : n = Len(t)
  BY LenProperties
<1>2. t # <<>> /\ t[n] = "lf" /\ IsUnfoldedRequest(Unfold(t))
  BY <1>1 DEF IsRequest
<1>3. n > 0
  <2>1. n = 0 => t = <<>>
    BY <1>1, EmptySeq
  <2>2. QED
    BY <1>2, <2>1
<1>4. s = "header_line_start"
  BY <1>1, <1>2, <1>3 DEF Lines, LinesTo
<1>5. PICK u \in Seq(Chars) : u = Unfold(t)
  BY UnfoldType
<1>6. PICK m \in Nat : m = Len(u)
  BY LenProperties
<1>7. PICK a \in 1 .. m + 1 : Part(u, a, m + 1, s)
  BY <1>5, <1>6 DEF Shape
<1>8. PICK d \in Int : d = m + 1 - 2
  OBVIOUS
<1>9. LineAt(u, a, d) /\ Plain(u, a, d)
  BY <1>4, <1>7, <1>8 DEF Part
<1>10. a < d
  BY <1>9, LineAtFills
<1>11. d - 1 \in a .. d - 1 /\ d - 1 = m - 2
  BY <1>8, <1>10
<1>12. u[m - 2] = "lf"
  BY <1>2, <1>5, <1>6 DEF IsUnfoldedRequest
<1>13. QED
  BY <1>9, <1>11, <1>12 DEF Plain

\* At the last newline it is.
LEMMA AcceptedIsRequest ==
  ASSUME NEW t, NEW w, Reads(t, "lf", w), NEW r, Lines(t, "expecting_newline_3", r),
         Shape(Unfold(t), "expecting_newline_3", r)
  PROVE  IsRequest(w)
<1>1. PICK c : c = "lf"
  OBVIOUS
<1>2. t \in Seq(Chars) /\ c \in Chars /\ w = Append(t, c)
  BY <1>1 DEF Reads
<1>3. w # <<>> /\ w[Len(w)] = "lf"
  <2>1. Len(t) \in Nat /\ Len(w) = Len(t) + 1 /\ w[Len(t) + 1] = c
    BY <1>2, AppendProperties, LenProperties
  <2>2. Len(w) # 0
    BY <2>1
  <2>3. Len(<<>>) = 0
    OBVIOUS
  <2>4. QED
    BY <1>1, <2>1, <2>2, <2>3
<1>4. PICK u \in Seq(Chars) : u = Unfold(t)
  BY <1>2, UnfoldType
<1>5. PICK v, e : v = With(u, c) /\ e = Len(u) + 1
  OBVIOUS
<1>6. e \in Nat /\ e >= 1 /\ Len(v) = e /\ Agree(u, v, e) /\ v[e] = c
  BY <1>2, <1>5, WithAgrees
<1>7. Unfold(w) = v
  <2>1. PICK s : s = "expecting_newline_3"
    OBVIOUS
  <2>2. Reads(t, c, w) /\ Lines(t, s, r)
    BY <1>1, <2>1
  <2>3. ~(s \in {"header_line_start", "header_lws"} /\ c \in Lws) => Unfold(w) = With(Unfold(t), c)
    BY <2>2, TextStep
  <2>4. QED
    BY <1>4, <1>5, <2>1, <2>3
<1>8. PICK a \in 1 .. e : LinesDone(v, a) /\ Part(v, a, e, "expecting_newline_3")
  <2>1. PICK a \in 1 .. e : LinesDone(u, a) /\ Part(u, a, e, "expecting_newline_3")
    BY <1>4, <1>5 DEF Shape
  <2>2. QED
    BY <1>6, <2>1, PartAgrees, LinesDoneAgree
<1>9. a = e - 1 /\ a > 1 /\ v[a] = "cr" /\ v[e] = "lf"
  BY <1>1, <1>6, <1>8 DEF Part
<1>10. /\ v[a - 1] = "lf"
       /\ \A h \in 1 .. a - 1 : v[h] = "cr" => h + 1 <= a - 1 /\ v[h + 1] = "lf"
       /\ \A h \in 1 .. a - 1 : v[h] = "lf" => h > 1 /\ v[h - 1] = "cr"
       /\ \A h \in 1 .. a - 1 : v[h] = "cr" => \A b \in 1 .. h : IsLine(v, b, h) => LineAt(v, b, h)
  BY <1>8, <1>9 DEF LinesDone
<1>11. e > 2 /\ v[e - 2] = "lf" /\ v[e - 1] = "cr"
  BY <1>6, <1>9, <1>10
<1>12. \A i \in 1 .. e : i \in 1 .. a - 1 \/ i = a \/ i = e
  BY <1>6, <1>9
<1>13. ASSUME NEW i \in 1 .. e, v[i] = "cr" PROVE i < e /\ v[i + 1] = "lf"
  BY <1>6, <1>9, <1>10, <1>12, <1>13
<1>14. ASSUME NEW i \in 1 .. e, v[i] = "lf" PROVE i > 1 /\ v[i - 1] = "cr"
  BY <1>6, <1>9, <1>10, <1>12, <1>14
<1>15. ASSUME NEW h \in 1 .. e - 2, v[h] = "cr", NEW b \in 1 .. h, IsLine(v, b, h)
       PROVE  IF b = 1 THEN IsRequestLine(v, h) ELSE IsHeader(v, b, h)
  BY <1>6, <1>9, <1>10, <1>15 DEF LineAt
<1>16. IsUnfoldedRequest(v)
  BY <1>6, <1>11, <1>13, <1>14, <1>15 DEF IsUnfoldedRequest
<1>17. QED
  BY <1>3, <1>7, <1>16 DEF IsRequest

-------------------------------------------------------------------------------
(* What is accepted and what is rejected.                                  *)

\* While the parser reads, what it has read is the beginning of a request, as
\* the state says, and none yet; what it has accepted is one, and what it has
\* rejected has no continuation that is.
AcceptInv ==
  /\ result = "none" => Shape(Unfold(Consumed(pos)), state_, req) /\ ~IsRequest(Consumed(pos))
  /\ AcceptsExactlyRequests

\* With nothing read there is no line.
LEMMA RequestInitAccepts ==
  RequestInit => AcceptInv
<1> SUFFICES ASSUME RequestInit PROVE AcceptInv
  OBVIOUS
<1>1. /\ text \in Texts /\ pos = 0 /\ state_ = "method_start" /\ result = "none"
      /\ req = [method |-> <<>>, uri |-> <<>>, major |-> <<>>, minor |-> <<>>, headers |-> <<>>]
  BY DEF RequestInit, ParserInit
<1>2. text \in Seq(Chars)
  BY <1>1, TextsAssumption
<1>3. Consumed(pos) = <<>> /\ Unfold(Consumed(pos)) = <<>>
  BY <1>1, <1>2, NothingRead DEF Consumed
<1>4. ~IsRequest(Consumed(pos))
  BY <1>3 DEF IsRequest
<1>5. Shape(Unfold(Consumed(pos)), state_, req)
  <2>1. PICK u : u = Unfold(Consumed(pos))
    OBVIOUS
  <2>2. Len(u) = 0
    BY <1>3, <2>1
  <2>3. LinesDone(u, 1)
    BY DEF LinesDone
  <2>4. Plain(u, 1, 1)
    BY DEF Plain
  <2>5. Part(u, 1, 1, "method_start")
    BY <2>4 DEF Part, RequestLinePart, HeaderLinePart, NewlineStates
  <2>6. "method_start" \in ParserStates /\ req.headers = <<>>
    BY <1>1 DEF ParserStates
  <2>7. 1 \in 1 .. Len(u) + 1 /\ Len(u) + 1 = 1
    BY <2>2
  <2>8. Shape(u, "method_start", req)
    BY <2>3, <2>5, <2>6, <2>7 DEF Shape
  <2>9. QED
    BY <1>1, <2>1, <2>8
<1>6. QED
  BY <1>1, <1>4, <1>5 DEF AcceptInv, AcceptsExactlyRequests

\* A byte that a transition takes.
LEMMA TransitionAccepts ==
  ASSUME ReadInv, AcceptInv, result = "none", NEW t \in Seq(Chars), NEW c \in Chars,
         NEW w, w = Append(t, c), t = Consumed(pos), NEW row \in Transitions(c)
  PROVE  Shape(Unfold(w), row.to, Put(row.put, c)) /\ ~IsRequest(w)
<1>1. /\ row \in RequestLine \cup HttpVersion \cup Headers(req.headers)
      /\ row.from = state_ /\ c \in row.on
  BY DEF Transitions
<1>2. req \in Request /\ Lines(t, state_, req) /\ Shape(Unfold(t), state_, req)
  BY DEF ReadInv, RequestType, AcceptInv
<1>3. w \in Seq(Chars)
  BY AppendProperties
<1>4. PICK u \in Seq(Chars), v \in Seq(Chars) : u = Unfold(t) /\ v = Unfold(w)
  BY <1>3, UnfoldType
<1>5. Adds(u, c, v)
  <2>1. Reads(t, c, w)
    BY DEF Reads
  <2>2. QED
    BY <1>2, <1>4, <2>1, ReadsAdds
<1>6. Shape(v, row.to, Put(row.put, c))
  <2>1. Shape(u, state_, req)
    BY <1>2, <1>4
  <2>2. QED
    BY <1>1, <1>2, <1>5, <2>1, ShapeStep
<1>7. Lines(w, row.to, Put(row.put, c))
  BY TransitionReads
<1>8. PICK k, q : k = row.to /\ q = Put(row.put, c)
  OBVIOUS
<1>9. ~IsRequest(w)
  <2>1. Lines(w, k, q) /\ Shape(Unfold(w), k, q)
    BY <1>4, <1>6, <1>7, <1>8
  <2>2. QED
    BY <1>3, <2>1, NotYet
<1>10. QED
  BY <1>4, <1>6, <1>9

\* One that nothing takes.
LEMMA RejectionHolds ==
  ASSUME ReadInv, AcceptInv, result = "none", NEW t \in Seq(Chars), NEW c \in Chars,
         t = Consumed(pos), pos < Len(text), c = text[pos + 1], Transitions(c) = {},
         ~(state_ = "expecting_newline_3" /\ c = "lf"), NEW n \in pos + 1 .. Len(text)
  PROVE  ~IsRequest(Consumed(n))
<1>1. /\ text \in Seq(Chars) /\ pos \in Nat /\ req \in Request
      /\ Lines(t, state_, req) /\ Shape(Unfold(t), state_, req)
  BY DEF ReadInv, RequestType, AcceptInv
<1>2. PICK s, r : s = state_ /\ r = req
  OBVIOUS
<1>3. Lines(t, s, r) /\ Shape(Unfold(t), s, r) /\ Refused(s, r, c)
  BY <1>1, <1>2, NoTransition
<1>4. PICK w, x, k : w = Append(t, c) /\ x = Consumed(n) /\ k = pos + 1
  OBVIOUS
<1>5. Reads(t, c, w) /\ w = Consumed(k)
  BY <1>1, <1>4, ReadOne DEF Reads, Consumed
<1>6. Len(text) \in Nat /\ k \in Nat /\ n \in Nat /\ k <= n /\ n <= Len(text)
  BY <1>1, <1>4, LenProperties
<1>7. /\ x \in Seq(Chars) /\ Len(x) = n /\ \A i \in 1 .. n : x[i] = text[i]
      /\ Len(w) = k /\ \A i \in 1 .. k : w[i] = text[i]
  <2>1. \A m \in Nat : m <= Len(text) =>
          /\ Consumed(m) \in Seq(Chars) /\ Len(Consumed(m)) = m
          /\ \A i \in 1 .. m : Consumed(m)[i] = text[i]
    BY <1>1, PrefixRead DEF Consumed
  <2>2. k <= Len(text)
    BY <1>6
  <2>3. QED
    BY <1>4, <1>5, <1>6, <2>1, <2>2
<1>8. Extends(x, w, Len(w))
  BY <1>6, <1>7 DEF Extends
<1>9. ~IsRequest(x)
  BY <1>3, <1>5, <1>7, <1>8, RefusedEnds
<1>10. QED
  BY <1>4, <1>9

\* Whatever the character, parse() accepts and rejects what it should.
LEMMA ParseAccepts ==
  ASSUME ReadInv, AcceptInv, Parse
  PROVE  AcceptInv'
<1>1. /\ result = "none" /\ pos < Len(text) /\ pos' = pos + 1 /\ text' = text
      /\ Consume(text[pos + 1])
  BY DEF Parse
<1>2. text \in Seq(Chars) /\ pos \in Nat /\ req \in Request
  BY DEF ReadInv, RequestType
<1> PICK t, c : t = Consumed(pos) /\ c = text[pos + 1]
  OBVIOUS
<1> PICK w : w = Append(t, c)
  OBVIOUS
<1>3. /\ t \in Seq(Chars) /\ c \in Chars
      /\ t = Consumed(pos) /\ c = text[pos + 1] /\ w = Append(t, c) /\ w = Consumed(pos)'
  BY <1>1, <1>2, ReadOne DEF Consumed
<1>4. ASSUME NEW row \in Transitions(c), state_' = row.to, req' = Put(row.put, c), result' = result
      PROVE  AcceptInv'
  <2>1. Shape(Unfold(w), row.to, Put(row.put, c)) /\ ~IsRequest(w)
    BY <1>1, <1>3, TransitionAccepts
  <2>2. Shape(Unfold(Consumed(pos)'), state_', req') /\ ~IsRequest(Consumed(pos)')
    BY <1>3, <1>4, <2>1
  <2>3. result' = "none"
    BY <1>1, <1>4
  <2>4. QED
    BY <2>2, <2>3 DEF AcceptInv, AcceptsExactlyRequests
<1>5. ASSUME Transitions(c) = {}, state_' = state_, req' = req,
             result' = IF state_ = "expecting_newline_3" /\ c = "lf" THEN "true" ELSE "false"
      PROVE  AcceptInv'
  <2>1. CASE state_ = "expecting_newline_3" /\ c = "lf"
    <3>1. Lines(t, "expecting_newline_3", req) /\ Shape(Unfold(t), "expecting_newline_3", req)
      BY <1>1, <1>3, <2>1 DEF ReadInv, AcceptInv
    <3>2. Reads(t, "lf", w)
      BY <1>3, <2>1 DEF Reads
    <3>3. IsRequest(w)
      BY <3>1, <3>2, AcceptedIsRequest
    <3>4. IsRequest(Consumed(pos)') /\ result' = "true"
      BY <1>3, <1>5, <2>1, <3>3
    <3>5. QED
      BY <3>4 DEF AcceptInv, AcceptsExactlyRequests
  <2>2. CASE ~(state_ = "expecting_newline_3" /\ c = "lf")
    <3>1. \A n \in pos + 1 .. Len(text) : ~IsRequest(Consumed(n))
      BY <1>1, <1>3, <1>5, <2>2, RejectionHolds
    <3>2. result' = "false"
      BY <1>5, <2>2
    <3>3. \A n \in pos' .. Len(text') : ~IsRequest(Consumed(n)')
      BY <1>1, <3>1 DEF Consumed
    <3>4. ~IsRequest(Consumed(pos)')
      <4>1. Len(text) \in Nat /\ pos + 1 \in pos + 1 .. Len(text)
        BY <1>1, <1>2, LenProperties
      <4>2. QED
        BY <1>1, <3>1, <4>1 DEF Consumed
    <3>5. QED
      BY <3>2, <3>3, <3>4 DEF AcceptInv, AcceptsExactlyRequests
  <2>3. QED
    BY <2>1, <2>2
<1>6. QED
  BY <1>1, <1>3, <1>4, <1>5 DEF Consume

\* So does every step.
LEMMA RequestNextAccepts ==
  ReadInv /\ AcceptInv /\ [RequestNext]_requestVars => AcceptInv'
<1> SUFFICES ASSUME ReadInv, AcceptInv, [RequestNext]_requestVars PROVE AcceptInv'
  OBVIOUS
<1>1. CASE Parse
  BY <1>1, ParseAccepts
<1>2. CASE UNCHANGED parserVars
  <2>1. text' = text /\ pos' = pos /\ state_' = state_ /\ result' = result /\ req' = req
    BY <1>2 DEF parserVars
  <2>2. QED
    BY <2>1 DEF AcceptInv, AcceptsExactlyRequests, Consumed
<1>3. QED
  BY <1>1, <1>2 DEF RequestNext, ParseUri, requestVars

\* Whatever the bytes: the parser accepts at the first byte that completes a
\* request, and rejects only what no further byte could complete.
THEOREM RequestAccepted == RequestSpec => []AcceptsExactlyRequests
<1>1. AcceptInv => AcceptsExactlyRequests
  BY DEF AcceptInv
<1>2. QED
  BY RequestInitReads, RequestNextReads, RequestInitAccepts, RequestNextAccepts, <1>1, PTL
     DEF RequestSpec

-------------------------------------------------------------------------------
(* The query and its parameters.                                           *)

\* A string is cut at the first such character, or at its end.
LEMMA CutAtIs ==
  ASSUME NEW input, Len(input) \in Nat, NEW delim
  PROVE  /\ CutAt(input, delim) \in 1 .. Len(input) + 1
         /\ CutAt(input, delim) = Len(input) + 1 \/ input[CutAt(input, delim)] = delim
         /\ \A k \in 1 .. CutAt(input, delim) - 1 : input[k] # delim
<1> DEFINE Cuts == {i \in 1 .. Len(input) + 1 : i = Len(input) + 1 \/ input[i] = delim}
           Is(i) == /\ i = Len(input) + 1 \/ input[i] = delim
                    /\ \A k \in 1 .. i - 1 : input[k] # delim
<1>1. Cuts \subseteq Nat /\ Len(input) + 1 \in Cuts
  OBVIOUS
<1>2. PICK i \in Cuts : \A j \in Cuts : i <= j
  BY <1>1, LeastNatural
<1>3. i \in 1 .. Len(input) + 1 /\ Is(i)
  BY <1>2
<1>4. CutAt(input, delim) = CHOOSE j \in 1 .. Len(input) + 1 : Is(j)
  BY DEF CutAt
<1> HIDE DEF Is
<1>5. CutAt(input, delim) \in 1 .. Len(input) + 1 /\ Is(CutAt(input, delim))
  BY <1>3, <1>4
<1>6. QED
  BY <1>5 DEF Is

\* A token starts behind the last delimiter before its end, or with the input.
LEMMA TokenStartIs ==
  ASSUME NEW input, NEW delim, NEW e \in Nat, e > 0
  PROVE  /\ TokenStart(input, delim, e) \in 1 .. e
         /\ \/ TokenStart(input, delim, e) = 1
            \/ input[TokenStart(input, delim, e) - 1] = delim
         /\ \A k \in TokenStart(input, delim, e) .. e - 1 : input[k] # delim
<1> DEFINE Back == {n \in 0 .. e - 1 : e - n = 1 \/ input[e - n - 1] = delim}
           Is(i) == /\ i = 1 \/ input[i - 1] = delim
                    /\ \A k \in i .. e - 1 : input[k] # delim
<1>1. Back \subseteq Nat /\ e - 1 \in Back
  OBVIOUS
<1>2. PICK n \in Back : \A m \in Back : n <= m
  BY <1>1, LeastNatural
<1>3. e - n \in 1 .. e /\ Is(e - n)
  <2>1. ASSUME NEW k \in e - n .. e - 1, input[k] = delim
        PROVE  FALSE
    <3>1. e - k - 1 \in 0 .. e - 1 /\ e - (e - k - 1) - 1 = k
      BY <1>2
    <3>2. e - k - 1 \in Back
      BY <3>1, <2>1
    <3>3. QED
      BY <3>2, <1>2, <3>1
  <2>2. QED
    BY <1>2, <2>1
<1>4. TokenStart(input, delim, e) = CHOOSE j \in 1 .. e : Is(j)
  BY DEF TokenStart
<1> HIDE DEF Is
<1>5. TokenStart(input, delim, e) \in 1 .. e /\ Is(TokenStart(input, delim, e))
  BY <1>3, <1>4
<1>6. QED
  BY <1>5 DEF Is

\* What the pairs up to a position give, from those up to the one before it.
PairsNext(input, i, params) ==
  IF i = 0 THEN <<>>
  ELSE IF i \in TokenEnds(input, "&")
  THEN AddPair(params, SubSeq(input, TokenStart(input, "&", i), i - 1))
  ELSE params

\* The functions behind QueryParams, up to any position.
PairsBy(g, input, n) == g = [i \in 0 .. n |-> PairsNext(input, i, g[i - 1])]

\* The function that QueryParams is defined by exists.
LEMMA PairsByExists ==
  ASSUME NEW input
  PROVE  \A n \in Nat : \E g : PairsBy(g, input, n)
<1> DEFINE T == {n \in Nat : \E g : PairsBy(g, input, n)}
<1>1. 0 \in T
  <2>1. PairsBy([i \in 0 .. 0 |-> <<>>], input, 0)
    BY DEF PairsBy, PairsNext
  <2>2. QED
    BY <2>1
<1>2. ASSUME NEW n \in Nat, n \in T
      PROVE  n + 1 \in T
  <2>1. PICK g : PairsBy(g, input, n)
    BY <1>2
  <2> DEFINE h == [i \in 0 .. n + 1 |-> IF i <= n THEN g[i] ELSE PairsNext(input, i, g[n])]
  <2>2. \A i \in 0 .. n : g[i] = PairsNext(input, i, g[i - 1])
    BY <2>1 DEF PairsBy
  <2>3. ASSUME NEW i \in 0 .. n + 1
        PROVE  h[i] = PairsNext(input, i, h[i - 1])
    <3>1. CASE i = 0
      BY <2>2, <3>1 DEF PairsNext
    <3>2. CASE i > 0 /\ i <= n
      <4>1. h[i] = g[i] /\ h[i - 1] = g[i - 1]
        BY <3>2
      <4>2. QED
        BY <4>1, <2>2, <3>2
    <3>3. CASE i = n + 1
      <4>1. h[i] = PairsNext(input, i, g[n]) /\ h[i - 1] = g[n]
        BY <3>3
      <4>2. QED
        BY <4>1
    <3>4. QED
      BY <3>1, <3>2, <3>3
  <2>4. h = [i \in 0 .. n + 1 |-> h[i]]
    OBVIOUS
  <2> HIDE DEF h
  <2>5. h = [i \in 0 .. n + 1 |-> PairsNext(input, i, h[i - 1])]
    BY <2>3, <2>4
  <2>6. PairsBy(h, input, n + 1)
    BY <2>5 DEF PairsBy
  <2>7. QED
    BY <2>6
<1> HIDE DEF T
<1>3. \A n \in Nat : n \in T
  BY <1>1, <1>2, Induction
<1>4. QED
  BY <1>3 DEF T

\* QueryParams is the value of that function at its last position.
LEMMA QueryParamsIs ==
  ASSUME NEW input, Len(input) \in Nat
  PROVE  \E g : /\ \A i \in 0 .. Len(input) + 1 : g[i] = PairsNext(input, i, g[i - 1])
                /\ QueryParams(input) = g[Len(input) + 1]
<1> DEFINE g == CHOOSE g : PairsBy(g, input, Len(input) + 1)
<1>1. PairsBy(g, input, Len(input) + 1)
  BY PairsByExists
<1>2. QueryParams(input) = g[Len(input) + 1]
  BY DEF QueryParams, PairsBy, PairsNext
<1> HIDE DEF g
<1>3. ASSUME NEW i \in 0 .. Len(input) + 1
      PROVE  g[i] = PairsNext(input, i, g[i - 1])
  BY <1>1 DEF PairsBy
<1>4. QED
  BY <1>2, <1>3

\* The two parts of a string that is cut.
LEMMA CutParts ==
  ASSUME NEW s \in Seq(Chars), NEW delim
  PROVE  LET c == CutAt(s, delim)
         IN  /\ Before(s, c) \in Seq(Chars) /\ Len(Before(s, c)) = c - 1
             /\ \A i \in 1 .. c - 1 : Before(s, c)[i] = s[i]
             /\ Behind(s, c) \in Seq(Chars)
             /\ Len(Behind(s, c)) = IF c > Len(s) THEN 0 ELSE Len(s) - c
             /\ \A i \in 1 .. Len(s) - c : Behind(s, c)[i] = s[c + i]
<1> DEFINE c == CutAt(s, delim)
<1>1. Len(s) \in Nat /\ \A i \in 1 .. Len(s) : s[i] \in Chars
  BY LenProperties, ElementOfSeq
<1>2. c \in 1 .. Len(s) + 1
  BY <1>1, CutAtIs
<1> HIDE DEF c
<1>3. /\ SubSeq(s, 1, c - 1) \in Seq(Chars) /\ Len(SubSeq(s, 1, c - 1)) = c - 1
      /\ \A i \in 1 .. c - 1 : SubSeq(s, 1, c - 1)[i] = s[i]
  BY <1>1, <1>2, SubSeqProperties
<1>4. /\ SubSeq(s, c + 1, Len(s)) \in Seq(Chars)
      /\ Len(SubSeq(s, c + 1, Len(s))) = IF c > Len(s) THEN 0 ELSE Len(s) - c
      /\ \A i \in 1 .. Len(s) - c : SubSeq(s, c + 1, Len(s))[i] = s[c + i]
  <2>1. CASE c < Len(s)
    BY <1>1, <1>2, <2>1, SubSeqProperties
  <2>2. CASE c >= Len(s)
    <3>1. SubSeq(s, c + 1, Len(s)) = <<>>
      BY <1>1, <1>2, <2>2, SubSeqEmpty
    <3>2. QED
      BY <3>1, <2>2, <1>1, <1>2, EmptySeq
  <2>3. QED
    BY <1>1, <1>2, <2>1, <2>2
<1>5. QED
  BY <1>3, <1>4 DEF Before, Behind, c

\* The name and the value in the text of a pair.
NameIn(s) == Before(s, CutAt(s, "="))
ValueIn(s) == Behind(s, CutAt(s, "="))

\* A stretch gives its name its value, and nothing else anything.
LEMMA GivesIs ==
  ASSUME NEW s \in Seq(Chars), NEW name \in Seq(Chars), NEW value \in Seq(Chars)
  PROVE  Gives(s, name, value) <=> name = NameIn(s) /\ value = ValueIn(s)
<1>1. PICK c : c = CutAt(s, "=")
  OBVIOUS
<1>2. /\ Len(s) \in Nat /\ Len(name) \in Nat /\ Len(value) \in Nat
      /\ DOMAIN name = 1 .. Len(name)
  BY LenProperties
<1>3. /\ c \in 1 .. Len(s) + 1 /\ (c = Len(s) + 1 \/ s[c] = "=")
      /\ \A k \in 1 .. c - 1 : s[k] # "="
  BY <1>1, <1>2, CutAtIs
<1>4. /\ NameIn(s) \in Seq(Chars) /\ Len(NameIn(s)) = c - 1
      /\ \A i \in 1 .. c - 1 : NameIn(s)[i] = s[i]
      /\ ValueIn(s) \in Seq(Chars)
      /\ Len(ValueIn(s)) = IF c > Len(s) THEN 0 ELSE Len(s) - c
      /\ \A i \in 1 .. Len(s) - c : ValueIn(s)[i] = s[c + i]
  BY <1>1, CutParts DEF NameIn, ValueIn
<1>5. <<"=">> \in Seq(Chars) /\ Len(<<"=">>) = 1 /\ <<"=">>[1] = "="
  BY DEF Chars, NotCtl, Tspecial
<1>6. ASSUME NEW n \in Seq(Chars), NEW v \in Seq(Chars)
      PROVE  /\ n \o <<"=">> \o v \in Seq(Chars)
             /\ Len(n \o <<"=">> \o v) = Len(n) + 1 + Len(v)
             /\ \A i \in 1 .. Len(n) : (n \o <<"=">> \o v)[i] = n[i]
             /\ (n \o <<"=">> \o v)[Len(n) + 1] = "="
             /\ \A i \in 1 .. Len(v) : (n \o <<"=">> \o v)[Len(n) + 1 + i] = v[i]
  <2>1. /\ n \o <<"=">> \in Seq(Chars) /\ Len(n \o <<"=">>) = Len(n) + 1
        /\ \A i \in 1 .. Len(n) : (n \o <<"=">>)[i] = n[i]
        /\ (n \o <<"=">>)[Len(n) + 1] = "="
    BY <1>5, ConcatProperties, LenProperties
  <2>2. PICK m : m = n \o <<"=">>
    OBVIOUS
  <2>3. m \in Seq(Chars) /\ Len(m) = Len(n) + 1 /\ Len(n) \in Nat /\ Len(v) \in Nat
    BY <2>1, <2>2, LenProperties
  <2>4. /\ m \o v \in Seq(Chars) /\ Len(m \o v) = Len(m) + Len(v)
        /\ \A i \in 1 .. Len(m) + Len(v) :
             (m \o v)[i] = IF i <= Len(m) THEN m[i] ELSE v[i - Len(m)]
    BY <2>3, ConcatProperties
  <2>5. QED
    BY <2>1, <2>2, <2>3, <2>4
<1>7. ASSUME Gives(s, name, value)
      PROVE  name = NameIn(s) /\ value = ValueIn(s)
  <2>1. \A i \in 1 .. Len(name) : name[i] # "="
    BY <1>7, <1>2 DEF Gives
  <2>2. CASE s = name \o <<"=">> \o value
    <3>1. /\ Len(s) = Len(name) + 1 + Len(value) /\ s[Len(name) + 1] = "="
          /\ \A i \in 1 .. Len(name) : s[i] = name[i]
          /\ \A i \in 1 .. Len(value) : s[Len(name) + 1 + i] = value[i]
      BY <1>6, <2>2
    <3>2. c = Len(name) + 1
      BY <3>1, <2>1, <1>2, <1>3
    <3>3. Len(name) = Len(NameIn(s)) /\ \A i \in 1 .. Len(name) : name[i] = NameIn(s)[i]
      BY <3>1, <3>2, <1>2, <1>4
    <3>4. Len(value) = Len(ValueIn(s)) /\ \A i \in 1 .. Len(value) : value[i] = ValueIn(s)[i]
      BY <3>1, <3>2, <1>2, <1>4
    <3>5. QED
      BY <3>3, <3>4, <1>4, SeqEqual
  <2>3. CASE s = name /\ value = <<>>
    <3>1. c = Len(s) + 1
      BY <2>1, <2>3, <1>2, <1>3
    <3>2. name = NameIn(s)
      BY <3>1, <2>3, <1>2, <1>4, SeqEqual
    <3>3. value = ValueIn(s)
      BY <3>1, <2>3, <1>2, <1>4, EmptySeq
    <3>4. QED
      BY <3>2, <3>3
  <2>4. QED
    BY <1>7, <2>2, <2>3 DEF Gives
<1>8. ASSUME name = NameIn(s), value = ValueIn(s)
      PROVE  Gives(s, name, value)
  <2>1. \A i \in DOMAIN name : name[i] # "="
    BY <1>2, <1>3, <1>4, <1>8
  <2>2. CASE c <= Len(s)
    <3>1. PICK w : w = name \o <<"=">> \o value
      OBVIOUS
    <3>2. /\ w \in Seq(Chars) /\ Len(w) = Len(name) + 1 + Len(value)
          /\ \A i \in 1 .. Len(name) : w[i] = name[i]
          /\ w[Len(name) + 1] = "="
          /\ \A i \in 1 .. Len(value) : w[Len(name) + 1 + i] = value[i]
      BY <1>6, <3>1
    <3>3. /\ Len(name) = c - 1 /\ Len(value) = Len(s) - c /\ Len(w) = Len(s)
          /\ \A i \in 1 .. c - 1 : name[i] = s[i]
          /\ \A i \in 1 .. Len(s) - c : value[i] = s[c + i]
      BY <3>2, <2>2, <1>2, <1>3, <1>4, <1>8
    <3>4. ASSUME NEW i \in 1 .. Len(s)
          PROVE  s[i] = w[i]
      <4>1. CASE i < c
        BY <4>1, <3>2, <3>3, <1>2, <1>3
      <4>2. CASE i = c
        BY <4>2, <3>2, <3>3, <2>2, <1>2, <1>3
      <4>3. CASE i > c
        <5>1. i - c \in 1 .. Len(s) - c /\ c + (i - c) = i /\ Len(name) + 1 + (i - c) = i
          BY <4>3, <3>3, <1>2, <1>3
        <5>2. QED
          BY <5>1, <3>2, <3>3
      <4>4. QED
        BY <4>1, <4>2, <4>3, <1>2, <1>3
    <3>5. s = w
      BY <3>2, <3>3, <3>4, SeqEqual
    <3>6. QED
      BY <2>1, <3>1, <3>5 DEF Gives
  <2>3. CASE c = Len(s) + 1
    <3>1. s = name
      BY <2>3, <1>2, <1>4, <1>8, SeqEqual
    <3>2. value = <<>>
      BY <2>3, <1>2, <1>4, <1>8, EmptySeq
    <3>3. QED
      BY <2>1, <3>1, <3>2 DEF Gives
  <2>4. QED
    BY <2>2, <2>3, <1>2, <1>3
<1>9. QED
  BY <1>7, <1>8

\* The pieces of a query between its "&"s and its ends, those that end before n.
Pieces(q, n) ==
  { e \in (1 .. Len(q)) \X (1 .. Len(q)) :
      /\ e[1] <= e[2] /\ e[2] < n
      /\ e[1] = 1 \/ q[e[1] - 1] = "&"
      /\ \A i \in e[1] .. e[2] : q[i] # "&"
      /\ e[2] = Len(q) \/ q[e[2] + 1] = "&" }

Piece(q, e) == SubSeq(q, e[1], e[2])

\* The parameters are what the pieces before n give, each name what it is
\* given last.
Answers(q, n, params) ==
  \A name :
    LET given == {e \in Pieces(q, n) : NameIn(Piece(q, e)) = name}
    IN  /\ name \in DOMAIN params <=> given # {}
        /\ given # {} => \E e \in given : /\ \A d \in given : d[1] <= e[1]
                                          /\ params[name] = ValueIn(Piece(q, e))

\* A position where no token ends adds no piece.
LEMMA NoTokenNoPiece ==
  ASSUME NEW q \in Seq(Chars), NEW n \in 1 .. Len(q) + 1, n \notin TokenEnds(q, "&")
  PROVE  Pieces(q, n) = Pieces(q, n - 1)
<1>1. Len(q) \in Nat /\ DOMAIN q = 1 .. Len(q)
  BY LenProperties
<1>2. ASSUME NEW e \in Pieces(q, n)
      PROVE  e[2] < n - 1
  <2>1. /\ e[1] \in 1 .. Len(q) /\ e[2] \in 1 .. Len(q) /\ e[1] <= e[2] /\ e[2] < n
        /\ q[e[2]] # "&"
        /\ e[2] = Len(q) \/ q[e[2] + 1] = "&"
    BY <1>1, <1>2 DEF Pieces
  <2>2. SUFFICES ASSUME e[2] = n - 1 PROVE FALSE
    BY <1>1, <2>1
  <2>3. CASE n <= Len(q)
    BY <2>1, <2>2, <2>3, <1>1 DEF TokenEnds
  <2>4. CASE n = Len(q) + 1
    <3>1. q # <<>> /\ q[Len(q)] # "&"
      BY <2>1, <2>2, <2>4, <1>1, EmptySeq
    <3>2. QED
      BY <3>1, <2>4, <1>1 DEF TokenEnds, Last
  <2>5. QED
    BY <2>3, <2>4, <1>1
<1>3. QED
  BY <1>1, <1>2 DEF Pieces

\* A token that is not empty is a piece, and the last one; an empty one is none.
LEMMA TokenIsPiece ==
  ASSUME NEW q \in Seq(Chars), NEW n \in 1 .. Len(q) + 1, n \in TokenEnds(q, "&"),
         NEW s, s = TokenStart(q, "&", n)
  PROVE  /\ s \in 1 .. n
         /\ s = n => Pieces(q, n) = Pieces(q, n - 1)
         /\ s < n => Pieces(q, n) = Pieces(q, n - 1) \cup {<<s, n - 1>>}
         /\ \A d \in Pieces(q, n - 1) : d[1] \in Nat /\ d[1] < s
<1>1. Len(q) \in Nat /\ DOMAIN q = 1 .. Len(q)
  BY LenProperties
<1>2. /\ s \in 1 .. n
      /\ s = 1 \/ q[s - 1] = "&"
      /\ \A k \in s .. n - 1 : q[k] # "&"
  BY <1>1, TokenStartIs
<1>3. n = Len(q) + 1 \/ q[n] = "&"
  BY <1>1 DEF TokenEnds
<1>4. ASSUME NEW e \in Pieces(q, n)
      PROVE  /\ e[1] \in 1 .. Len(q) /\ e[2] \in 1 .. Len(q) /\ e = <<e[1], e[2]>>
             /\ e[1] <= e[2] /\ e[2] < n
             /\ e[1] = 1 \/ q[e[1] - 1] = "&"
             /\ \A i \in e[1] .. e[2] : q[i] # "&"
             /\ e[2] = Len(q) \/ q[e[2] + 1] = "&"
  BY DEF Pieces
<1>5. ASSUME NEW e \in Pieces(q, n), e[2] = n - 1
      PROVE  s < n /\ e = <<s, n - 1>>
  <2>1. ~(e[1] < s)
    <3>1. SUFFICES ASSUME e[1] < s PROVE FALSE
      OBVIOUS
    <3>2. s # 1 /\ s - 1 \in e[1] .. e[2]
      BY <3>1, <1>2, <1>4, <1>5, <1>1
    <3>3. QED
      BY <3>2, <1>2, <1>4
  <2>2. ~(e[1] > s)
    <3>1. SUFFICES ASSUME e[1] > s PROVE FALSE
      OBVIOUS
    <3>2. e[1] # 1 /\ e[1] - 1 \in s .. n - 1
      BY <3>1, <1>2, <1>4, <1>5, <1>1
    <3>3. QED
      BY <3>2, <1>2, <1>4
  <2>3. QED
    BY <2>1, <2>2, <1>1, <1>2, <1>4, <1>5
<1>6. ASSUME s < n
      PROVE  <<s, n - 1>> \in Pieces(q, n)
  <2>1. PICK e : e = <<s, n - 1>>
    OBVIOUS
  <2>2. e[1] = s /\ e[2] = n - 1 /\ e \in (1 .. Len(q)) \X (1 .. Len(q))
    BY <2>1, <1>1, <1>2, <1>6
  <2>3. QED
    BY <2>1, <2>2, <1>1, <1>2, <1>3, <1>6 DEF Pieces
<1>7. Pieces(q, n - 1) = {e \in Pieces(q, n) : e[2] # n - 1}
  BY <1>1 DEF Pieces
<1>8. ASSUME NEW d \in Pieces(q, n - 1)
      PROVE  d[1] \in Nat /\ d[1] < s
  <2>1. d \in Pieces(q, n) /\ d[2] # n - 1
    BY <1>7, <1>8
  <2>2. d[2] + 1 <= n - 1 /\ q[d[2] + 1] = "&"
    BY <2>1, <1>1, <1>4
  <2>3. d[2] + 1 < s
    BY <2>1, <2>2, <1>1, <1>2, <1>4
  <2>4. QED
    BY <2>1, <2>3, <1>1, <1>2, <1>4
<1>9. s = n => Pieces(q, n) = Pieces(q, n - 1)
  <2>1. ASSUME s = n, NEW e \in Pieces(q, n)
        PROVE  e[2] # n - 1
    BY <1>2, <1>5, <2>1
  <2>2. QED
    BY <2>1, <1>7
<1>10. s < n => Pieces(q, n) = Pieces(q, n - 1) \cup {<<s, n - 1>>}
  BY <1>5, <1>6, <1>7
<1>11. QED
  BY <1>2, <1>8, <1>9, <1>10

\* The next position keeps the answers right.
LEMMA AnswersNext ==
  ASSUME NEW q \in Seq(Chars), NEW n \in 1 .. Len(q) + 1, NEW params,
         Answers(q, n - 1, params)
  PROVE  Answers(q, n, PairsNext(q, n, params))
<1> DEFINE s == TokenStart(q, "&", n)
           token == SubSeq(q, s, n - 1)
<1>1. Len(q) \in Nat
  BY LenProperties
<1>2. CASE n \notin TokenEnds(q, "&")
  BY <1>1, <1>2, NoTokenNoPiece DEF Answers, PairsNext
<1>3. CASE n \in TokenEnds(q, "&")
  <2>1. /\ s \in 1 .. n
        /\ s = n => Pieces(q, n) = Pieces(q, n - 1)
        /\ s < n => Pieces(q, n) = Pieces(q, n - 1) \cup {<<s, n - 1>>}
        /\ \A d \in Pieces(q, n - 1) : d[1] \in Nat /\ d[1] < s
    BY <1>3, TokenIsPiece
  <2>2. PairsNext(q, n, params) = AddPair(params, token)
    BY <1>1, <1>3 DEF PairsNext
  <2> HIDE DEF s
  <2>3. CASE s = n
    <3>1. token = <<>>
      BY <2>1, <2>3, <1>1, SubSeqEmpty
    <3>2. PairsNext(q, n, params) = params
      BY <2>2, <3>1 DEF AddPair
    <3>3. QED
      BY <3>2, <2>1, <2>3 DEF Answers
  <2>4. CASE s < n
    <3>1. token \in Seq(Chars) /\ Len(token) = n - s
      BY <2>1, <2>4, <1>1, SubSeqProperties
    <3>2. token # <<>>
      BY <3>1, <2>1, <2>4, <1>1, EmptySeq
    <3>3. PICK e : e = <<s, n - 1>>
      OBVIOUS
    <3>4. e[1] = s /\ e[2] = n - 1 /\ Piece(q, e) = token
      BY <3>3 DEF Piece
    <3> HIDE DEF token
    <3>5. PICK more : more = PairsNext(q, n, params)
      OBVIOUS
    <3>6. /\ DOMAIN more = DOMAIN params \cup {NameIn(token)}
          /\ more[NameIn(token)] = ValueIn(token)
          /\ \A name \in DOMAIN params : name # NameIn(token) => more[name] = params[name]
      BY <3>5, <2>2, <3>2 DEF AddPair, SetParam, NameIn, ValueIn
    <3>7. ASSUME NEW name
          PROVE  LET given == {d \in Pieces(q, n) : NameIn(Piece(q, d)) = name}
                 IN  /\ name \in DOMAIN more <=> given # {}
                     /\ given # {} =>
                          \E d \in given : /\ \A f \in given : f[1] <= d[1]
                                           /\ more[name] = ValueIn(Piece(q, d))
      <4> DEFINE given == {d \in Pieces(q, n) : NameIn(Piece(q, d)) = name}
                 before == {d \in Pieces(q, n - 1) : NameIn(Piece(q, d)) = name}
      <4>1. /\ name \in DOMAIN params <=> before # {}
            /\ before # {} => \E d \in before : /\ \A f \in before : f[1] <= d[1]
                                                /\ params[name] = ValueIn(Piece(q, d))
        BY DEF Answers
      <4>2. CASE name = NameIn(token)
        <5>1. given = before \cup {e}
          BY <4>2, <3>3, <3>4, <2>1, <2>4
        <5>2. \A f \in given : f[1] <= e[1]
          BY <5>1, <3>4, <2>1
        <5>3. more[name] = ValueIn(Piece(q, e))
          BY <4>2, <3>4, <3>6
        <5>4. QED
          BY <5>1, <5>2, <5>3, <4>2, <3>6
      <4>3. CASE name # NameIn(token)
        <5>1. given = before
          BY <4>3, <3>3, <3>4, <2>1, <2>4
        <5>2. name \in DOMAIN more <=> name \in DOMAIN params
          BY <4>3, <3>6
        <5>3. name \in DOMAIN params => more[name] = params[name]
          BY <4>3, <3>6
        <5>4. QED
          BY <5>1, <5>2, <5>3, <4>1
      <4>4. QED
        BY <4>2, <4>3
    <3>8. QED
      BY <3>5, <3>7 DEF Answers
  <2>5. QED
    BY <2>1, <2>3, <2>4, <1>1
<1>4. QED
  BY <1>2, <1>3

\* The parameters of a query are what its pieces give.
LEMMA QueryParamsAnswer ==
  ASSUME NEW q \in Seq(Chars)
  PROVE  Answers(q, Len(q) + 1, QueryParams(q))
<1>1. Len(q) \in Nat
  BY LenProperties
<1>2. PICK g : /\ \A i \in 0 .. Len(q) + 1 : g[i] = PairsNext(q, i, g[i - 1])
               /\ QueryParams(q) = g[Len(q) + 1]
  BY <1>1, QueryParamsIs
<1> DEFINE T == {n \in Nat : n <= Len(q) + 1 => Answers(q, n, g[n])}
<1>3. 0 \in T
  <2>1. g[0] = <<>>
    BY <1>1, <1>2 DEF PairsNext
  <2>2. Pieces(q, 0) = {}
    BY <1>1 DEF Pieces
  <2>3. DOMAIN g[0] = {}
    BY <2>1
  <2>4. QED
    BY <2>2, <2>3 DEF Answers
<1>4. ASSUME NEW n \in Nat, n \in T
      PROVE  n + 1 \in T
  <2>1. SUFFICES ASSUME n + 1 <= Len(q) + 1 PROVE Answers(q, n + 1, g[n + 1])
    OBVIOUS
  <2>2. n + 1 \in 1 .. Len(q) + 1 /\ (n + 1) - 1 = n /\ Answers(q, n, g[n])
    BY <1>1, <1>4, <2>1
  <2>3. Answers(q, n + 1, PairsNext(q, n + 1, g[n]))
    BY <2>2, AnswersNext
  <2>4. g[n + 1] = PairsNext(q, n + 1, g[n])
    BY <1>1, <1>2, <2>2
  <2>5. QED
    BY <2>3, <2>4
<1> HIDE DEF T
<1>5. \A n \in Nat : n \in T
  BY <1>3, <1>4, Induction
<1>6. Len(q) + 1 \in T /\ Len(q) + 1 \in Nat
  BY <1>1, <1>5
<1>7. QED
  BY <1>1, <1>2, <1>6 DEF T

\* A part of a text, and a part of that part.
LEMMA PartIs ==
  ASSUME NEW t \in Seq(Chars), NEW a \in 1 .. Len(t), NEW b \in a .. Len(t)
  PROVE  /\ SubSeq(t, a, b) \in Seq(Chars) /\ Len(SubSeq(t, a, b)) = b - a + 1
         /\ \A i \in 1 .. b - a + 1 : SubSeq(t, a, b)[i] = t[a + i - 1]
<1>1. Len(t) \in Nat /\ \A i \in 1 .. Len(t) : t[i] \in Chars
  BY LenProperties, ElementOfSeq
<1>2. QED
  BY <1>1, SubSeqProperties

\* The value in a part of a text is a part of it.
LEMMA ValueIsPart ==
  ASSUME NEW t \in Seq(Chars), NEW a \in 1 .. Len(t), NEW b \in a .. Len(t)
  PROVE  ValueIn(SubSeq(t, a, b)) \in SubSeqs(t)
<1>1. Len(t) \in Nat
  BY LenProperties
<1>2. PICK s : s = SubSeq(t, a, b)
  OBVIOUS
<1>3. /\ s \in Seq(Chars) /\ Len(s) = b - a + 1
      /\ \A i \in 1 .. b - a + 1 : s[i] = t[a + i - 1]
  BY <1>2, PartIs
<1>4. PICK c : c = CutAt(s, "=")
  OBVIOUS
<1>5. c \in 1 .. Len(s) + 1
  BY <1>1, <1>3, <1>4, CutAtIs
<1>6. /\ ValueIn(s) \in Seq(Chars)
      /\ Len(ValueIn(s)) = IF c > Len(s) THEN 0 ELSE Len(s) - c
      /\ \A i \in 1 .. Len(s) - c : ValueIn(s)[i] = s[c + i]
  BY <1>3, <1>4, CutParts DEF ValueIn
<1>7. CASE c < Len(s)
  <2>1. a + c \in 1 .. Len(t) /\ b \in a + c .. Len(t)
    BY <1>1, <1>3, <1>5, <1>7
  <2>2. PICK v : v = SubSeq(t, a + c, b)
    OBVIOUS
  <2>3. /\ v \in Seq(Chars) /\ Len(v) = b - (a + c) + 1
        /\ \A i \in 1 .. b - (a + c) + 1 : v[i] = t[a + c + i - 1]
    BY <2>1, <2>2, PartIs
  <2>4. Len(v) = Len(s) - c /\ Len(v) = Len(ValueIn(s))
    BY <2>3, <1>1, <1>3, <1>5, <1>6, <1>7
  <2>5. ASSUME NEW i \in 1 .. Len(s) - c
        PROVE  v[i] = ValueIn(s)[i]
    <3>1. c + i \in 1 .. b - a + 1 /\ i \in 1 .. b - (a + c) + 1
      BY <1>1, <1>3, <1>5
    <3>2. v[i] = t[a + c + i - 1] /\ ValueIn(s)[i] = t[a + (c + i) - 1]
      BY <3>1, <2>3, <1>3, <1>6
    <3>3. a + c + i - 1 = a + (c + i) - 1
      BY <1>5
    <3>4. QED
      BY <3>2, <3>3
  <2>6. v = ValueIn(s)
    BY <2>3, <2>4, <2>5, <1>6, SeqEqual
  <2>7. a + c - 1 \in 0 .. Len(t) /\ b \in 0 .. Len(t) /\ (a + c - 1) + 1 = a + c
    BY <2>1, <1>1, <1>5
  <2>8. PICK i : i = a + c - 1
    OBVIOUS
  <2>9. i \in 0 .. Len(t) /\ b \in 0 .. Len(t) /\ ValueIn(s) = SubSeq(t, i + 1, b)
    BY <2>2, <2>6, <2>7, <2>8
  <2>10. QED
    BY <1>2, <2>9 DEF SubSeqs
<1>8. CASE c >= Len(s)
  <2>1. ValueIn(s) = <<>>
    BY <1>3, <1>5, <1>6, <1>8, EmptySeq
  <2>2. SubSeq(t, 0 + 1, 0) = <<>>
    BY <1>1, SubSeqEmpty
  <2>3. QED
    BY <1>1, <1>2, <2>1, <2>2 DEF SubSeqs
<1>9. QED
  BY <1>3, <1>5, <1>7, <1>8

\* The query, as part of the URI.
LEMMA QueryIs ==
  ASSUME NEW uri \in Seq(Chars), NEW m, m = CutAt(uri, "?"), NEW q, q = Behind(uri, m)
  PROVE  /\ m \in 1 .. Len(uri) + 1
         /\ m = Len(uri) + 1 \/ uri[m] = "?"
         /\ \A k \in 1 .. m - 1 : uri[k] # "?"
         /\ q \in Seq(Chars)
         /\ Len(q) = IF m > Len(uri) THEN 0 ELSE Len(uri) - m
         /\ \A i \in 1 .. Len(q) : q[i] = uri[m + i]
<1>1. Len(uri) \in Nat
  BY LenProperties
<1>2. /\ m \in 1 .. Len(uri) + 1 /\ (m = Len(uri) + 1 \/ uri[m] = "?")
      /\ \A k \in 1 .. m - 1 : uri[k] # "?"
  BY <1>1, CutAtIs
<1>3. /\ q \in Seq(Chars) /\ Len(q) = IF m > Len(uri) THEN 0 ELSE Len(uri) - m
      /\ \A i \in 1 .. Len(uri) - m : q[i] = uri[m + i]
  BY CutParts
<1>4. QED
  BY <1>1, <1>2, <1>3

\* The stretches of the URI are the pieces of its query, further behind.
LEMMA StretchesArePieces ==
  ASSUME NEW uri \in Seq(Chars), NEW m, m = CutAt(uri, "?"), NEW q, q = Behind(uri, m)
  PROVE  /\ \A e \in Stretches(uri) : <<e[1] - m, e[2] - m>> \in Pieces(q, Len(q) + 1)
         /\ \A d \in Pieces(q, Len(q) + 1) : <<d[1] + m, d[2] + m>> \in Stretches(uri)
<1>1. PICK n, k : n = Len(uri) /\ k = Len(q)
  OBVIOUS
<1>2. /\ n \in Nat /\ k \in Nat /\ m \in Nat /\ m > 0 /\ m <= n + 1
      /\ m = n + 1 \/ uri[m] = "?"
      /\ \A i \in Nat : i > 0 /\ i < m => uri[i] # "?"
      /\ k > 0 => k = n - m
      /\ m <= n => k = n - m
      /\ \A i \in Nat : i > 0 /\ i <= k => q[i] = uri[m + i]
  <2>1. /\ n \in Nat /\ m \in 1 .. n + 1
        /\ m = n + 1 \/ uri[m] = "?"
        /\ \A i \in 1 .. m - 1 : uri[i] # "?"
        /\ k = IF m > n THEN 0 ELSE n - m
        /\ \A i \in 1 .. k : q[i] = uri[m + i]
    BY <1>1, QueryIs, LenProperties
  <2>2. QED
    BY <2>1
<1>s. /\ n \in Int /\ k \in Int /\ m \in Int
      /\ n >= 0 /\ k >= 0 /\ m > 0 /\ m <= n + 1
  BY <1>2
<1>3. ASSUME NEW e \in Stretches(uri)
      PROVE  <<e[1] - m, e[2] - m>> \in Pieces(q, Len(q) + 1)
  <2>1. PICK a, b : a = e[1] /\ b = e[2]
    OBVIOUS
  <2>2. /\ a \in 1 .. n /\ b \in 1 .. n /\ a <= b
        /\ \E i \in 1 .. a - 1 : uri[i] = "?"
        /\ \A i \in a .. b : uri[i] # "&"
        /\ uri[a - 1] = "&" \/ (uri[a - 1] = "?" /\ \A i \in 1 .. a - 2 : uri[i] # "?")
        /\ b = n \/ uri[b + 1] = "&"
    BY <1>1, <2>1 DEF Stretches
  <2>3. m < a /\ m <= n /\ uri[m] = "?" /\ k = n - m
    BY <1>2, <2>2
  <2>4. PICK d, x, y : d = <<x, y>> /\ x = a - m /\ y = b - m
    OBVIOUS
  <2>n. /\ a \in Int /\ b \in Int /\ m < a /\ a <= b /\ b <= n /\ k = n - m
        /\ x = a - m /\ y = b - m
    BY <2>2, <2>3, <2>4
  <2>5. x \in 1 .. k /\ y \in 1 .. k /\ x <= y /\ y < k + 1
    BY <1>s, <2>n
  <2>6. x = 1 \/ q[x - 1] = "&"
    <3>1. CASE a - 1 = m
      BY <3>1, <2>4, <1>2, <2>2
    <3>2. CASE a - 1 > m
      <4>1. uri[a - 1] = "&"
        <5>1. m \in 1 .. a - 2
          BY <3>2, <1>2, <2>2
        <5>2. QED
          BY <5>1, <2>2, <2>3
      <4>2. x - 1 \in Nat /\ x - 1 > 0 /\ x - 1 <= k /\ m + (x - 1) = a - 1
        BY <3>2, <1>s, <2>n
      <4>3. QED
        BY <4>1, <4>2, <1>2
    <3>3. QED
      BY <3>1, <3>2, <1>2, <2>2, <2>3
  <2>7. ASSUME NEW i \in x .. y
        PROVE  q[i] # "&"
    <3>1. i \in Nat /\ i > 0 /\ i <= k /\ m + i \in a .. b
      BY <1>s, <2>n
    <3>2. QED
      BY <3>1, <1>2, <2>2
  <2>8. y = k \/ q[y + 1] = "&"
    <3>1. CASE b = n
      BY <3>1, <2>3, <2>4
    <3>2. CASE b < n
      <4>1. y + 1 \in Nat /\ y + 1 > 0 /\ y + 1 <= k /\ m + (y + 1) = b + 1
        BY <3>2, <1>s, <2>n
      <4>2. uri[b + 1] = "&"
        BY <3>2, <2>2
      <4>3. QED
        BY <4>1, <4>2, <1>2
    <3>3. QED
      BY <3>1, <3>2, <1>2, <2>2
  <2>9. d[1] = x /\ d[2] = y /\ d \in (1 .. k) \X (1 .. k)
    BY <2>4, <2>5
  <2>10. d \in Pieces(q, Len(q) + 1)
    BY <1>1, <2>5, <2>6, <2>7, <2>8, <2>9 DEF Pieces
  <2>11. QED
    BY <2>1, <2>4, <2>10
<1>4. ASSUME NEW d \in Pieces(q, Len(q) + 1)
      PROVE  <<d[1] + m, d[2] + m>> \in Stretches(uri)
  <2>1. PICK x, y : x = d[1] /\ y = d[2]
    OBVIOUS
  <2>2. /\ x \in 1 .. k /\ y \in 1 .. k /\ x <= y
        /\ x = 1 \/ q[x - 1] = "&"
        /\ \A i \in x .. y : q[i] # "&"
        /\ y = k \/ q[y + 1] = "&"
    BY <1>1, <2>1 DEF Pieces
  <2>3. m <= n /\ uri[m] = "?" /\ k = n - m
    BY <1>2, <2>2
  <2>4. PICK e, a, b : e = <<a, b>> /\ a = x + m /\ b = y + m
    OBVIOUS
  <2>n. /\ x \in Int /\ y \in Int /\ x > 0 /\ x <= y /\ y <= k /\ k = n - m
        /\ a = x + m /\ b = y + m
    BY <2>2, <2>3, <2>4
  <2>5. a \in 1 .. n /\ b \in 1 .. n /\ a <= b /\ m \in 1 .. a - 1
    BY <1>s, <2>n
  <2>6. uri[a - 1] = "&" \/ (uri[a - 1] = "?" /\ \A i \in 1 .. a - 2 : uri[i] # "?")
    <3>1. CASE x = 1
      <4>1. a - 1 = m /\ \A i \in 1 .. a - 2 : i \in Nat /\ i > 0 /\ i < m
        BY <3>1, <2>4, <1>2
      <4>2. QED
        BY <4>1, <2>3, <1>2
    <3>2. CASE x > 1
      <4>1. x - 1 \in Nat /\ x - 1 > 0 /\ x - 1 <= k /\ m + (x - 1) = a - 1
        BY <3>2, <1>s, <2>n
      <4>2. q[x - 1] = "&"
        BY <3>2, <2>2
      <4>3. QED
        BY <4>1, <4>2, <1>2
    <3>3. QED
      BY <3>1, <3>2, <2>2
  <2>7. ASSUME NEW i \in a .. b
        PROVE  uri[i] # "&"
    <3>1. PICK j : j = i - m
      OBVIOUS
    <3>2. i \in Int /\ x + m <= i /\ i <= y + m
      BY <1>s, <2>n
    <3>3. j \in Int /\ x <= j /\ j <= y /\ m + j = i
      <4>1. j \in Int /\ m + j = i
        BY <3>1, <3>2, <1>s
      <4>2. QED
        BY <4>1, <3>2, <1>s, <2>n
    <3>4. j \in x .. y /\ j \in Nat /\ j > 0 /\ j <= k
      BY <3>3, <2>n
    <3>5. QED
      BY <3>3, <3>4, <1>2, <2>2
  <2>8. b = n \/ uri[b + 1] = "&"
    <3>1. CASE y = k
      BY <3>1, <1>2, <2>3, <2>4
    <3>2. CASE y < k
      <4>1. y + 1 \in Nat /\ y + 1 > 0 /\ y + 1 <= k /\ m + (y + 1) = b + 1
        BY <3>2, <1>s, <2>n
      <4>2. q[y + 1] = "&"
        BY <3>2, <2>2
      <4>3. QED
        BY <4>1, <4>2, <1>2
    <3>3. QED
      BY <3>1, <3>2, <1>2, <2>2
  <2>9. e[1] = a /\ e[2] = b /\ e \in (1 .. n) \X (1 .. n)
    BY <2>4, <2>5
  <2>10. \E i \in 1 .. a - 1 : uri[i] = "?"
    BY <2>3, <2>5
  <2>11. e \in Stretches(uri)
    BY <1>1, <2>5, <2>6, <2>7, <2>8, <2>9, <2>10 DEF Stretches
  <2>12. QED
    BY <2>1, <2>4, <2>11
<1>5. QED
  BY <1>3, <1>4

\* A piece of the query is the same text as its stretch of the URI.
LEMMA PieceIsStretch ==
  ASSUME NEW uri \in Seq(Chars), NEW m, m = CutAt(uri, "?"), NEW q, q = Behind(uri, m),
         NEW d \in Pieces(q, Len(q) + 1)
  PROVE  /\ d[1] + m \in 1 .. Len(uri) /\ d[2] + m \in d[1] + m .. Len(uri)
         /\ Piece(q, d) \in Seq(Chars)
         /\ SubSeq(uri, d[1] + m, d[2] + m) = Piece(q, d)
<1>1. PICK n, k, a, b, c, e :
        /\ n = Len(uri) /\ k = Len(q) /\ a = d[1] /\ b = d[2] /\ c = a + m /\ e = b + m
  OBVIOUS
<1>2. /\ n \in Nat /\ k \in Nat /\ m \in 1 .. n + 1 /\ q \in Seq(Chars)
      /\ k = IF m > n THEN 0 ELSE n - m
      /\ \A i \in 1 .. k : q[i] = uri[m + i]
  BY <1>1, QueryIs, LenProperties
<1>3. a \in 1 .. k /\ b \in a .. k
  BY <1>1, <1>2 DEF Pieces
<1>n. /\ a \in Int /\ b \in Int /\ n \in Int /\ k \in Int /\ m \in Int
      /\ 0 < a /\ a <= b /\ b <= k /\ k = n - m /\ 0 < m
      /\ c = a + m /\ e = b + m /\ c \in Int /\ e \in Int
  BY <1>1, <1>2, <1>3
<1>4. c \in 1 .. n /\ e \in c .. n /\ e - c = b - a
  <2>1. c \in 1 .. n
    BY <1>n
  <2>2. e \in c .. n
    BY <1>n
  <2>3. e - c = b - a
    BY <1>n
  <2>4. QED
    BY <2>1, <2>2, <2>3
<1>5. PICK x, y : x = SubSeq(q, a, b) /\ y = SubSeq(uri, c, e)
  OBVIOUS
<1>6. /\ x \in Seq(Chars) /\ Len(x) = b - a + 1
      /\ \A i \in 1 .. b - a + 1 : x[i] = q[a + i - 1]
  <2>1. a \in 1 .. Len(q) /\ b \in a .. Len(q)
    BY <1>1, <1>3
  <2>2. QED
    BY <2>1, <1>2, <1>5, PartIs
<1>7. /\ y \in Seq(Chars) /\ Len(y) = b - a + 1
      /\ \A i \in 1 .. b - a + 1 : y[i] = uri[c + i - 1]
  <2>1. /\ y \in Seq(Chars) /\ Len(y) = e - c + 1
        /\ \A i \in 1 .. e - c + 1 : y[i] = uri[c + i - 1]
    BY <1>1, <1>4, <1>5, PartIs
  <2>2. QED
    BY <2>1, <1>4
<1>8. ASSUME NEW i \in 1 .. b - a + 1
      PROVE  x[i] = y[i]
  <2>1. a + i - 1 \in 1 .. k /\ m + (a + i - 1) = c + i - 1
    BY <1>n
  <2>2. QED
    BY <2>1, <1>2, <1>6, <1>7
<1>9. x = y
  BY <1>6, <1>7, <1>8, SeqEqual
<1>10. QED
  BY <1>1, <1>4, <1>5, <1>6, <1>9 DEF Piece

\* What a look-up returns is what the URI gives the name last, or the default.
LEMMA AnswerIsGiven ==
  ASSUME NEW uri \in Seq(Chars), NEW name \in SubSeqs(uri),
         NEW params, params = QueryParams(Behind(uri, CutAt(uri, "?"))),
         NEW answer, answer = IF name \in DOMAIN params THEN params[name] ELSE <<"absent">>,
         NEW given, given = {e \in Stretches(uri) : \E value \in SubSeqs(uri) :
                               Gives(SubSeq(uri, e[1], e[2]), name, value)}
  PROVE  /\ given = {} => answer = <<"absent">>
         /\ given # {} => \E e \in given : /\ \A d \in given : d[1] <= e[1]
                                           /\ Gives(SubSeq(uri, e[1], e[2]), name, answer)
<1>1. PICK m, q : m = CutAt(uri, "?") /\ q = Behind(uri, m)
  OBVIOUS
<1>2. q \in Seq(Chars) /\ Len(q) \in Nat /\ m \in Nat
  BY <1>1, QueryIs, LenProperties
<1>3. Answers(q, Len(q) + 1, params)
  BY <1>1, <1>2, QueryParamsAnswer
<1>4. PICK pieces : pieces = {d \in Pieces(q, Len(q) + 1) : NameIn(Piece(q, d)) = name}
  OBVIOUS
<1>5. /\ name \in DOMAIN params <=> pieces # {}
      /\ pieces # {} => \E d \in pieces : /\ \A f \in pieces : f[1] <= d[1]
                                          /\ params[name] = ValueIn(Piece(q, d))
  BY <1>3, <1>4 DEF Answers
<1>6. \A w \in SubSeqs(uri) : w \in Seq(Chars)
  <2>1. ASSUME NEW w \in SubSeqs(uri)
        PROVE  w \in Seq(Chars)
    <3>1. PICK i, j \in 0 .. Len(uri) : w = SubSeq(uri, i + 1, j)
      BY DEF SubSeqs
    <3>2. Len(uri) \in Nat
      BY LenProperties
    <3>3. CASE i < j
      <4>1. i + 1 \in 1 .. Len(uri) /\ j \in i + 1 .. Len(uri)
        BY <3>2, <3>3
      <4>2. QED
        BY <4>1, <3>1, PartIs
    <3>4. CASE i >= j
      BY <3>1, <3>2, <3>4, SubSeqEmpty, EmptySeq
    <3>5. QED
      BY <3>2, <3>3, <3>4
  <2>2. QED
    BY <2>1
<1>7. ASSUME NEW d \in Pieces(q, Len(q) + 1), NEW e, e = <<d[1] + m, d[2] + m>>
      PROVE  /\ e \in Stretches(uri)
             /\ SubSeq(uri, e[1], e[2]) = Piece(q, d) /\ Piece(q, d) \in Seq(Chars)
             /\ ValueIn(Piece(q, d)) \in SubSeqs(uri)
             /\ d[1] \in Nat /\ e[1] = d[1] + m
  <2>1. e \in Stretches(uri)
    BY <1>1, <1>7, StretchesArePieces
  <2>2. e[1] = d[1] + m /\ e[2] = d[2] + m
    BY <1>7
  <2>3. /\ e[1] \in 1 .. Len(uri) /\ e[2] \in e[1] .. Len(uri)
        /\ SubSeq(uri, e[1], e[2]) = Piece(q, d) /\ Piece(q, d) \in Seq(Chars)
    BY <1>1, <2>2, PieceIsStretch
  <2>4. ValueIn(Piece(q, d)) \in SubSeqs(uri)
    BY <2>3, ValueIsPart
  <2>5. d[1] \in Nat
    BY <1>2 DEF Pieces
  <2>6. QED
    BY <2>1, <2>2, <2>3, <2>4, <2>5
<1>8. ASSUME NEW d \in pieces, NEW e, e = <<d[1] + m, d[2] + m>>
      PROVE  e \in given /\ e[1] = d[1] + m /\ d[1] \in Nat
             /\ Gives(SubSeq(uri, e[1], e[2]), name, ValueIn(Piece(q, d)))
  <2>1. d \in Pieces(q, Len(q) + 1) /\ NameIn(Piece(q, d)) = name
    BY <1>4, <1>8
  <2>2. /\ e \in Stretches(uri)
        /\ SubSeq(uri, e[1], e[2]) = Piece(q, d) /\ Piece(q, d) \in Seq(Chars)
        /\ ValueIn(Piece(q, d)) \in SubSeqs(uri)
        /\ d[1] \in Nat /\ e[1] = d[1] + m
    BY <1>7, <1>8, <2>1
  <2>3. Gives(Piece(q, d), name, ValueIn(Piece(q, d)))
    BY <1>6, <2>1, <2>2, GivesIs
  <2>4. QED
    BY <2>2, <2>3
<1>9. ASSUME NEW e \in given
      PROVE  \E d \in pieces : e[1] = d[1] + m
  <2>1. PICK d : d = <<e[1] - m, e[2] - m>>
    OBVIOUS
  <2>2. PICK value \in SubSeqs(uri) :
          e \in Stretches(uri) /\ Gives(SubSeq(uri, e[1], e[2]), name, value)
    BY <1>9
  <2>3. d \in Pieces(q, Len(q) + 1)
    BY <1>1, <2>1, <2>2, StretchesArePieces
  <2>4. e[1] \in Nat /\ e[2] \in Nat /\ e = <<e[1], e[2]>>
    BY <2>2, LenProperties DEF Stretches
  <2>5. e = <<d[1] + m, d[2] + m>>
    BY <2>1, <2>4, <1>2
  <2>6. /\ SubSeq(uri, e[1], e[2]) = Piece(q, d) /\ Piece(q, d) \in Seq(Chars)
        /\ e[1] = d[1] + m
    BY <1>7, <2>3, <2>5
  <2>7. NameIn(Piece(q, d)) = name
    BY <1>6, <2>2, <2>6, GivesIs
  <2>8. QED
    BY <1>4, <2>3, <2>6, <2>7
<1>10. given = {} <=> pieces = {}
  BY <1>8, <1>9
<1>11. ASSUME given # {}
       PROVE  \E e \in given : /\ \A d \in given : d[1] <= e[1]
                               /\ Gives(SubSeq(uri, e[1], e[2]), name, answer)
  <2>1. PICK d \in pieces : /\ \A f \in pieces : f[1] <= d[1]
                            /\ params[name] = ValueIn(Piece(q, d))
    BY <1>5, <1>10, <1>11
  <2>2. answer = ValueIn(Piece(q, d))
    BY <1>5, <1>10, <1>11, <2>1
  <2>3. PICK e : e = <<d[1] + m, d[2] + m>>
    OBVIOUS
  <2>4. /\ e \in given /\ e[1] = d[1] + m /\ d[1] \in Nat
        /\ Gives(SubSeq(uri, e[1], e[2]), name, answer)
    BY <1>8, <2>2, <2>3
  <2>5. ASSUME NEW c \in given
        PROVE  c[1] <= e[1]
    <3>1. PICK f \in pieces : c[1] = f[1] + m
      BY <1>9
    <3>2. f[1] <= d[1] /\ f[1] \in Nat
      BY <2>1, <1>8
    <3>3. QED
      BY <3>1, <3>2, <2>4, <1>2
  <2>6. QED
    BY <2>4, <2>5
<1>12. given = {} => answer = <<"absent">>
  BY <1>5, <1>10
<1>13. QED
  BY <1>11, <1>12

\* A request is parsed to its end before its URI is, and look-ups are right.
QueryInv ==
  /\ uri_parsed => result # "none"
  /\ ParamsAreTheQuery

\* A fresh request's query is not parsed.
LEMMA RequestInitQuery ==
  RequestInit => QueryInv
BY DEF RequestInit, QueryInv, ParamsAreTheQuery

\* parse_uri() makes the look-ups right.
LEMMA ParseUriQuery ==
  ASSUME RequestType, ParseUri
  PROVE  ParamsAreTheQuery'
<1>1. PICK uri : uri = req.uri
  OBVIOUS
<1>2. uri \in Seq(Chars)
  BY <1>1 DEF RequestType, Request
<1>3. req' = req /\ query_params' = QueryParams(Behind(uri, CutAt(uri, "?")))
  BY <1>1 DEF ParseUri, parserVars
<1>4. ASSUME NEW name \in SubSeqs(uri)
      PROVE  LET answer == IF name \in DOMAIN query_params' THEN query_params'[name]
                                                             ELSE <<"absent">>
                 given == {e \in Stretches(uri) : \E value \in SubSeqs(uri) :
                             Gives(SubSeq(uri, e[1], e[2]), name, value)}
             IN  IF given = {} THEN answer = <<"absent">>
                 ELSE \E e \in given : /\ \A d \in given : d[1] <= e[1]
                                       /\ Gives(SubSeq(uri, e[1], e[2]), name, answer)
  <2>1. PICK answer, given :
          /\ answer = IF name \in DOMAIN query_params' THEN query_params'[name]
                                                        ELSE <<"absent">>
          /\ given = {e \in Stretches(uri) : \E value \in SubSeqs(uri) :
                        Gives(SubSeq(uri, e[1], e[2]), name, value)}
    OBVIOUS
  <2>2. /\ given = {} => answer = <<"absent">>
        /\ given # {} => \E e \in given : /\ \A d \in given : d[1] <= e[1]
                                          /\ Gives(SubSeq(uri, e[1], e[2]), name, answer)
    BY <1>2, <1>3, <2>1, AnswerIsGiven
  <2>3. QED
    BY <2>1, <2>2
<1>5. QED
  BY <1>1, <1>3, <1>4 DEF ParamsAreTheQuery, GetQueryParamValueOrDefault

\* Every step keeps them right.
LEMMA RequestNextQuery ==
  RequestType /\ QueryInv /\ [RequestNext]_requestVars => QueryInv'
<1> SUFFICES ASSUME RequestType, QueryInv, [RequestNext]_requestVars PROVE QueryInv'
  OBVIOUS
<1>1. CASE Parse /\ UNCHANGED uriVars
  <2>1. result = "none" /\ uri_parsed' = uri_parsed
    BY <1>1 DEF Parse, uriVars
  <2>2. ~uri_parsed'
    BY <2>1 DEF QueryInv
  <2>3. QED
    BY <2>2 DEF QueryInv, ParamsAreTheQuery
<1>2. CASE ParseUri
  <2>1. result' = result /\ result # "none"
    BY <1>2 DEF ParseUri, parserVars
  <2>2. QED
    BY <1>2, <2>1, ParseUriQuery DEF QueryInv
<1>3. CASE UNCHANGED requestVars
  <2>1. /\ result' = result /\ req' = req
        /\ uri_parsed' = uri_parsed /\ query_params' = query_params
    BY <1>3 DEF requestVars, parserVars, uriVars
  <2>2. QED
    BY <2>1 DEF QueryInv, ParamsAreTheQuery, GetQueryParamValueOrDefault
<1>4. QED
  BY <1>1, <1>2, <1>3 DEF RequestNext

\* Whatever the URI: a handler that asks for a parameter gets what the text of
\* the URI gives it last, and its default exactly if the URI does not give it.
THEOREM RequestAnswered == RequestSpec => []ParamsAreTheQuery
<1>1. ReadInv => RequestType
  BY DEF ReadInv
<1>2. QueryInv => ParamsAreTheQuery
  BY DEF QueryInv
<1>3. QED
  BY RequestInitReads, RequestNextReads, RequestInitQuery, RequestNextQuery, <1>1, <1>2, PTL
     DEF RequestSpec
===============================================================================
