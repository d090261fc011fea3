---------------------------- MODULE ParserProofs ----------------------------
(***************************************************************************)
(* What the parsers of text compute, for texts of any length.  Induction   *)
(* over the length of a text is an argument about the least length for     *)
(* which a statement fails; a recursive function in a definition is pinned *)
(* down by showing that a function with its equation exists.               *)
(***************************************************************************)
EXTENDS OSRelease, Kernelmod, Integers, WellFoundedInduction, TLAPS

Less == {p \in Nat \X Nat : p[1] < p[2]}

\* A set of naturals has a least member,
LEMMA LeastNat ==
    ASSUME NEW S \in SUBSET Nat, S # {}
    PROVE  \E x \in S : \A y \in S : x <= y
<1>1. OpToRel(<, Nat) = Less
  BY DEF OpToRel, Less
<1>2. IsWellFoundedOn(Less, Nat)
  BY <1>1, NatLessThanWellFounded
<1>3. PICK x \in S : \A y \in S : ~ (<<y, x>> \in Less)
  BY <1>2, WFMin
<1>4. ASSUME NEW y \in S
      PROVE  x <= y
  <2>1. <<y, x>> \notin Less
    BY <1>3, <1>4
  <2>2. ~(y < x)
    BY <2>1 DEF Less
  <2> QED
    BY <2>2
<1> QED
  BY <1>4

\* A property that holds at 0 and passes from n to n + 1 holds everywhere.
LEMMA SetInduction ==
    ASSUME NEW S \in SUBSET Nat, 0 \in S, \A n \in S : n + 1 \in S
    PROVE  S = Nat
<1> DEFINE Bad == Nat \ S
<1>1. ASSUME Bad # {} PROVE FALSE
  <2>1. PICK n \in Bad : \A m \in Bad : n <= m
    BY <1>1, LeastNat
  <2>2. n # 0 /\ n \in Nat /\ n \notin S
    BY <2>1
  <2>3. n - 1 \in Nat /\ ~(n <= n - 1) /\ (n - 1) + 1 = n
    BY <2>2
  <2>4. n - 1 \in S
    BY <2>1, <2>3
  <2> QED
    BY <2>2, <2>3, <2>4
<1> QED
  BY <1>1

\* A set of numbers has a Min, and a bounded one a Max.
LEMMA MinIs ==
    ASSUME NEW S \in SUBSET Nat, S # {}
    PROVE  Min(S) \in S /\ \A y \in S : Min(S) <= y
BY LeastNat DEF Min

LEMMA MaxIs ==
    ASSUME NEW n \in Nat, NEW S \in SUBSET (0..n), S # {}
    PROVE  Max(S) \in S /\ \A y \in S : Max(S) >= y
<1> DEFINE T == {k \in Nat : n - k \in S}
<1>1. T # {}
  <2>1. PICK x \in S : TRUE
    OBVIOUS
  <2>2. n - x \in Nat /\ n - (n - x) = x
    BY <2>1
  <2>3. n - x \in T
    BY <2>1, <2>2
  <2> QED
    BY <2>3
<1>2. PICK k \in T : \A l \in T : k <= l
  BY <1>1, LeastNat
<1>3. ASSUME NEW y \in S
      PROVE  n - k >= y
  <2>1. n - y \in Nat /\ n - (n - y) = y
    OBVIOUS
  <2>2. k <= n - y
    BY <1>2, <2>1
  <2> QED
    BY <1>2, <2>2
<1>4. n - k \in S
  BY <1>2
<1> QED
  BY <1>3, <1>4 DEF Max

LEMMA MaxOnly ==
    ASSUME NEW S \in SUBSET Nat, NEW m \in S, \A y \in S : m >= y
    PROVE  Max(S) = m
<1>1. \A x \in S : x \in Int
  OBVIOUS
<1>2. \A x \in S : (\A y \in S : x >= y) => x = m
  BY <1>1
<1> QED
  BY <1>2 DEF Max

-----------------------------------------------------------------------------
\* The recursion in FlattenSeq, up to the nth of the sequences.
IsFlat(f, s, n) == f = [i \in 1..n |-> IF i = 1 THEN s[i] ELSE f[i - 1] \o s[i]]

LEMMA FlatExists ==
    ASSUME NEW s
    PROVE  \A n \in Nat : \E f : IsFlat(f, s, n)
<1> DEFINE S == {n \in Nat : \E f : IsFlat(f, s, n)}
<1>1. 0 \in S
  <2> DEFINE f == [i \in 1..0 |-> s[i]]
  <2>1. f = [i \in 1..0 |-> IF i = 1 THEN s[i] ELSE f[i - 1] \o s[i]]
    OBVIOUS
  <2> HIDE DEF f
  <2>2. IsFlat(f, s, 0)
    BY <2>1 DEF IsFlat
  <2> QED
    BY <2>2
<1>2. ASSUME NEW n \in S PROVE n + 1 \in S
  <2>1. n \in Nat /\ n + 1 \in Nat
    OBVIOUS
  <2>2. PICK f : IsFlat(f, s, n)
    OBVIOUS
  <2> DEFINE last == IF n = 0 THEN s[1] ELSE f[n] \o s[n + 1]
             g == [i \in 1..(n + 1) |-> IF i = n + 1 THEN last ELSE f[i]]
  <2>3. DOMAIN g = 1..(n + 1) /\ g = [i \in 1..(n + 1) |-> g[i]]
    OBVIOUS
  <2>4. ASSUME NEW i \in 1..(n + 1)
        PROVE  g[i] = IF i = 1 THEN s[i] ELSE g[i - 1] \o s[i]
    <3>1. CASE i = n + 1
      <4>1. g[i] = last /\ (n # 0 => g[i - 1] = f[n])
        BY <2>1, <3>1
      <4> QED
        BY <2>1, <3>1, <4>1
    <3>2. CASE i # n + 1
      <4>1. i \in 1..n /\ g[i] = f[i] /\ (i # 1 => i - 1 \in 1..n /\ g[i - 1] = f[i - 1])
        BY <2>1, <3>2
      <4>2. f[i] = IF i = 1 THEN s[i] ELSE f[i - 1] \o s[i]
        BY <2>2, <4>1 DEF IsFlat
      <4> QED
        BY <4>1, <4>2
    <3> QED
      BY <3>1, <3>2
  <2> HIDE DEF g
  <2>5. IsFlat(g, s, n + 1)
    BY <2>3, <2>4 DEF IsFlat
  <2> QED
    BY <2>1, <2>5
<1> HIDE DEF S
<1>3. S = Nat
  <2>1. S \in SUBSET Nat
    BY DEF S
  <2> QED
    BY <1>1, <1>2, <2>1, SetInduction
<1> QED
  BY <1>3 DEF S

LEMMA FlatUnique ==
    ASSUME NEW s, NEW t, NEW f, NEW g, NEW m \in Nat, NEW n \in Nat,
           IsFlat(f, s, m), IsFlat(g, t, n),
           NEW k \in Nat, k <= m, k <= n, \A i \in 1..k : s[i] = t[i]
    PROVE  \A i \in 1..k : f[i] = g[i]
<1> DEFINE Bad == {i \in 1..k : f[i] # g[i]}
<1>1. ASSUME Bad # {} PROVE FALSE
  <2>1. PICK i \in Bad : \A j \in Bad : i <= j
    <3>1. Bad \in SUBSET Nat
      OBVIOUS
    <3> HIDE DEF Bad
    <3> QED
      BY <1>1, <3>1, LeastNat
  <2>2. i \in 1..k /\ i \in 1..m /\ i \in 1..n /\ f[i] # g[i] /\ s[i] = t[i]
    BY <2>1
  <2>3. f[i] = IF i = 1 THEN s[i] ELSE f[i - 1] \o s[i]
    BY <2>2 DEF IsFlat
  <2>4. g[i] = IF i = 1 THEN t[i] ELSE g[i - 1] \o t[i]
    BY <2>2 DEF IsFlat
  <2>5. i # 1
    BY <2>2, <2>3, <2>4
  <2>6. i - 1 \in 1..k /\ ~(i <= i - 1)
    BY <2>2, <2>5
  <2>7. f[i - 1] = g[i - 1]
    BY <2>1, <2>6
  <2> QED
    BY <2>2, <2>3, <2>4, <2>5, <2>7
<1> QED
  BY <1>1

LEMMA FlatAgrees ==
    ASSUME NEW s, NEW t, NEW f, NEW g, NEW n \in Nat,
           IsFlat(f, s, n), IsFlat(g, t, n + 1), \A i \in 1..n : s[i] = t[i]
    PROVE  \A i \in 1..n : f[i] = g[i]
<1> DEFINE m == n + 1
<1>1. n <= m /\ n <= n /\ m \in Nat
  OBVIOUS
<1> HIDE DEF m
<1> QED
  BY <1>1, FlatUnique DEF m

\* FlattenSeq is the last of that recursion.
LEMMA FlattenIs ==
    ASSUME NEW T, NEW s \in Seq(T), s # <<>>
    PROVE  \E f : IsFlat(f, s, Len(s)) /\ FlattenSeq(s) = f[Len(s)]
<1>1. Len(s) \in Nat /\ Len(s) # 0
  OBVIOUS
<1>2. \E f : IsFlat(f, s, Len(s))
  BY <1>1, FlatExists
<1> DEFINE flat == CHOOSE f : IsFlat(f, s, Len(s))
<1>3. IsFlat(flat, s, Len(s))
  BY <1>2
<1>4. FlattenSeq(s) = flat[Len(s)]
  BY <1>1 DEF FlattenSeq, IsFlat
<1> QED
  BY <1>3, <1>4

\* What is flattened so far, and one sequence more.
LEMMA FlattenSnoc ==
    ASSUME NEW T, NEW s \in Seq(Seq(T)), NEW x \in Seq(T)
    PROVE  FlattenSeq(Append(s, x)) = FlattenSeq(s) \o x
<1> DEFINE longer == Append(s, x)
           len == Len(s)
<1>1. /\ longer \in Seq(Seq(T)) /\ longer # <<>> /\ Len(longer) = len + 1 /\ len \in Nat
      /\ longer[len + 1] = x /\ \A i \in 1..len : s[i] = longer[i]
  <2>1. len \in Nat /\ longer \in Seq(Seq(T)) /\ Len(longer) = len + 1
    OBVIOUS
  <2>2. longer # <<>>
    <3>1. Len(longer) # Len(<<>>)
      <4> HIDE DEF longer
      <4> QED
        BY <2>1
    <3> QED
      BY <3>1
  <2>3. longer[len + 1] = x
    OBVIOUS
  <2>4. \A i \in 1..len : s[i] = longer[i]
    OBVIOUS
  <2> QED
    BY <2>1, <2>2, <2>3, <2>4
<1> HIDE DEF longer, len
<1>2. PICK g : IsFlat(g, longer, Len(longer)) /\ FlattenSeq(longer) = g[Len(longer)]
  BY <1>1, FlattenIs
<1>3. g[len + 1] = IF len + 1 = 1 THEN x ELSE g[len] \o x
  <2>1. len + 1 \in 1..(len + 1) /\ (len + 1) - 1 = len
    BY <1>1
  <2> QED
    BY <1>1, <1>2, <2>1 DEF IsFlat
<1>4. CASE len = 0
  <2>1. s = <<>> /\ FlattenSeq(s) = <<>>
    BY <1>4 DEF len, FlattenSeq
  <2>2. <<>> \o x = x
    OBVIOUS
  <2> QED
    BY <1>1, <1>2, <1>3, <1>4, <2>1, <2>2 DEF longer
<1>5. CASE len # 0
  <2>1. s # <<>>
    BY <1>5 DEF len
  <2>2. PICK f : IsFlat(f, s, len) /\ FlattenSeq(s) = f[len]
    BY <2>1, FlattenIs DEF len
  <2>3. \A i \in 1..len : f[i] = g[i]
    <3> DEFINE u == s
    <3>1. IsFlat(f, u, len) /\ IsFlat(g, longer, len + 1) /\ len \in Nat /\ \A i \in 1..len : u[i] = longer[i]
      BY <1>1, <1>2, <2>2
    <3> HIDE DEF u
    <3> QED
      BY <3>1, FlatAgrees
  <2>4. len \in 1..len /\ len + 1 # 1
    BY <1>1, <1>5
  <2> QED
    BY <1>1, <1>2, <1>3, <2>2, <2>3, <2>4 DEF longer
<1> QED
  BY <1>4, <1>5

LEMMA FlattenTyped ==
    ASSUME NEW T
    PROVE  \A s \in Seq(Seq(T)) : FlattenSeq(s) \in Seq(T)
<1> DEFINE S == {n \in Nat : \A s \in Seq(Seq(T)) : Len(s) = n => FlattenSeq(s) \in Seq(T)}
<1>1. 0 \in S
  <2> SUFFICES ASSUME NEW s \in Seq(Seq(T)), Len(s) = 0 PROVE FlattenSeq(s) \in Seq(T)
    OBVIOUS
  <2>1. s = <<>> /\ <<>> \in Seq(T)
    OBVIOUS
  <2> QED
    BY <2>1 DEF FlattenSeq
<1>2. ASSUME NEW n \in S PROVE n + 1 \in S
  <2> SUFFICES ASSUME NEW s \in Seq(Seq(T)), Len(s) = n + 1 PROVE FlattenSeq(s) \in Seq(T)
    OBVIOUS
  <2> DEFINE r == SubSeq(s, 1, n)
             x == s[n + 1]
  <2>1. r \in Seq(Seq(T)) /\ Len(r) = n /\ x \in Seq(T) /\ s = Append(r, x)
    OBVIOUS
  <2> HIDE DEF r, x
  <2>2. FlattenSeq(r) \in Seq(T)
    BY <2>1
  <2>3. FlattenSeq(s) = FlattenSeq(r) \o x
    BY <2>1, FlattenSnoc
  <2> QED
    BY <2>1, <2>2, <2>3
<1> HIDE DEF S
<1>3. S = Nat
  <2>1. S \in SUBSET Nat
    BY DEF S
  <2> QED
    BY <1>1, <1>2, <2>1, SetInduction
<1> QED
  BY <1>3 DEF S

\* Flattening a list of texts, one text more.
OneMore(f, g, n, T) ==
    /\ f = [i \in 1..n |-> f[i]] /\ g = [i \in 1..(n + 1) |-> g[i]]
    /\ \A i \in 1..n : f[i] = g[i]
    /\ \A i \in 1..(n + 1) : g[i] \in Seq(T)

FlatGrown(f, g, n, T) ==
    FlattenSeq(f) \in Seq(T) /\ FlattenSeq(g) = FlattenSeq(f) \o g[n + 1]

LEMMA FlatNext ==
    ASSUME NEW T, NEW n \in Nat, NEW f, NEW g, OneMore(f, g, n, T)
    PROVE  FlatGrown(f, g, n, T)
<1> DEFINE x == g[n + 1]
<1>0. /\ f = [i \in 1..n |-> f[i]] /\ g = [i \in 1..(n + 1) |-> g[i]]
      /\ \A i \in 1..n : f[i] = g[i]
      /\ \A i \in 1..(n + 1) : g[i] \in Seq(T)
  BY DEF OneMore
<1>1. \A i \in 1..n : f[i] \in Seq(T)
  <2>1. \A i \in 1..n : i \in 1..(n + 1)
    OBVIOUS
  <2> QED
    BY <1>0, <2>1
<1>2. f \in Seq(Seq(T))
  <2>1. [i \in 1..n |-> f[i]] \in Seq(Seq(T))
    BY <1>1
  <2> QED
    BY <1>0, <2>1
<1>3. x \in Seq(T)
  BY <1>0
<1>4. g = Append(f, x)
  <2>1. Append(f, x) = [i \in 1..(n + 1) |-> IF i = n + 1 THEN x ELSE f[i]]
    BY <1>0
  <2>2. \A i \in 1..(n + 1) : g[i] = IF i = n + 1 THEN x ELSE f[i]
    <3>1. \A i \in 1..(n + 1) : i \in 1..n \/ i = n + 1
      OBVIOUS
    <3> QED
      BY <1>0, <3>1
  <2> QED
    BY <1>0, <2>1, <2>2
<1> HIDE DEF x
<1> QED
  BY <1>2, <1>3, <1>4, FlattenSnoc, FlattenTyped DEF x, FlatGrown

\* A sequence and one element more.
LEMMA AppendIs ==
    ASSUME NEW T, NEW s \in Seq(T), NEW x \in T
    PROVE  s \o <<x>> = Append(s, x) /\ s \o <<>> = s /\ Append(s, x) \in Seq(T)
OBVIOUS

-----------------------------------------------------------------------------
(***************************************************************************)
(* internal/hostinfo: os-release.                                          *)
(***************************************************************************)

\* The recursion in expandDoubleQuoteEscapes, up to position n.
Marks(e, v, n) == e = [i \in 0..n |-> /\ i \in 2..Len(v)
                                      /\ v[i] \in Special \cup {SQ}
                                      /\ v[i - 1] = BS
                                      /\ ~e[i - 1]]

LEMMA MarksExist ==
    ASSUME NEW v
    PROVE  \A n \in Nat : \E e : Marks(e, v, n)
<1> DEFINE cond(i, b) == /\ i \in 2..Len(v)
                         /\ v[i] \in Special \cup {SQ}
                         /\ v[i - 1] = BS
                         /\ ~b
           S == {n \in Nat : \E e : Marks(e, v, n)}
<1>0. \A e, n : Marks(e, v, n) <=> e = [i \in 0..n |-> cond(i, e[i - 1])]
  BY DEF Marks
<1>1. 0 \in S
  <2> DEFINE e == [i \in 0..0 |-> FALSE]
  <2>1. \A b : ~cond(0, b)
    OBVIOUS
  <2> HIDE DEF cond
  <2>2. e = [i \in 0..0 |-> cond(i, e[i - 1])]
    <3>1. \A i \in 0..0 : i = 0
      OBVIOUS
    <3>2. \A i \in 0..0 : cond(i, e[i - 1]) = FALSE
      BY <2>1, <3>1
    <3> QED
      BY <3>2
  <2> HIDE DEF e
  <2> QED
    BY <1>0, <2>2
<1>2. ASSUME NEW n \in S PROVE n + 1 \in S
  <2>1. n \in Nat /\ n + 1 \in Nat
    OBVIOUS
  <2>2. PICK e : Marks(e, v, n)
    OBVIOUS
  <2> DEFINE g == [i \in 0..(n + 1) |-> IF i = n + 1 THEN cond(n + 1, e[n]) ELSE e[i]]
  <2> HIDE DEF cond
  <2>3. DOMAIN g = 0..(n + 1) /\ g = [i \in 0..(n + 1) |-> g[i]]
    OBVIOUS
  <2>4. ASSUME NEW i \in 0..(n + 1)
        PROVE  g[i] = cond(i, g[i - 1])
    <3>1. CASE i = n + 1
      <4>1. g[i] = cond(n + 1, e[n]) /\ g[i - 1] = e[n]
        BY <2>1, <3>1
      <4> QED
        BY <3>1, <4>1
    <3>2. CASE i # n + 1 /\ i # 0
      <4>1. i \in 0..n /\ g[i] = e[i] /\ g[i - 1] = e[i - 1]
        BY <2>1, <3>2
      <4>2. e[i] = cond(i, e[i - 1])
        BY <1>0, <2>2, <4>1
      <4> QED
        BY <4>1, <4>2
    <3>3. CASE i # n + 1 /\ i = 0
      <4>1. \A b : cond(0, b) = FALSE
        BY DEF cond
      <4>2. g[i] = e[i] /\ i \in 0..n
        BY <2>1, <3>3
      <4>3. e[i] = cond(i, e[i - 1])
        BY <1>0, <2>2, <4>2
      <4> QED
        BY <3>3, <4>1, <4>2, <4>3
    <3> QED
      BY <3>1, <3>2, <3>3
  <2> HIDE DEF g
  <2>5. g = [i \in 0..(n + 1) |-> cond(i, g[i - 1])]
    BY <2>3, <2>4
  <2>6. Marks(g, v, n + 1)
    BY <1>0, <2>5
  <2> QED
    BY <2>1, <2>6
<1> HIDE DEF S
<1>3. S = Nat
  <2>1. S \in SUBSET Nat
    BY DEF S
  <2> QED
    BY <1>1, <1>2, <2>1, SetInduction
<1> QED
  BY <1>3 DEF S

Escaped(v) == CHOOSE e : Marks(e, v, Len(v) + 1)

\* A character is escaped by a backslash that is not.
LEMMA EscapedIs ==
    ASSUME NEW T, NEW v \in Seq(T), NEW i \in 0..(Len(v) + 1)
    PROVE  Escaped(v)[i] <=> /\ i \in 2..Len(v)
                             /\ v[i] \in Special \cup {SQ}
                             /\ v[i - 1] = BS
                             /\ ~Escaped(v)[i - 1]
<1>1. \E e : Marks(e, v, Len(v) + 1)
  <2>1. Len(v) + 1 \in Nat
    OBVIOUS
  <2> QED
    BY <2>1, MarksExist
<1>2. Marks(Escaped(v), v, Len(v) + 1)
  BY <1>1 DEF Escaped
<1> HIDE DEF Escaped
<1> QED
  BY <1>2 DEF Marks

\* What stays of each character.
Kept(v) == [i \in DOMAIN v |-> IF Escaped(v)[i + 1] THEN <<>> ELSE <<v[i]>>]

LEMMA ExpandIs ==
    ASSUME NEW v
    PROVE  expandDoubleQuoteEscapes(v) = FlattenSeq(Kept(v))
BY DEF expandDoubleQuoteEscapes, Kept, Escaped, Marks

LEMMA EscapedSame ==
    ASSUME NEW T, NEW v \in Seq(T), NEW w \in Seq(T), Len(v) <= Len(w),
           \A i \in 1..Len(v) : v[i] = w[i]
    PROVE  \A i \in 0..Len(v) : Escaped(v)[i] <=> Escaped(w)[i]
<1> DEFINE Bad == {i \in 0..Len(v) : ~(Escaped(v)[i] <=> Escaped(w)[i])}
<1>1. ASSUME Bad # {} PROVE FALSE
  <2>1. PICK i \in Bad : \A j \in Bad : i <= j
    <3>1. Bad \in SUBSET Nat
      OBVIOUS
    <3> HIDE DEF Bad
    <3> QED
      BY <1>1, <3>1, LeastNat
  <2>2. i \in 0..Len(v) /\ ~(Escaped(v)[i] <=> Escaped(w)[i])
    OBVIOUS
  <2>3. i \in 0..(Len(v) + 1) /\ i \in 0..(Len(w) + 1)
    BY <2>2
  <2>4. Escaped(v)[i] <=> /\ i \in 2..Len(v) /\ v[i] \in Special \cup {SQ}
                          /\ v[i - 1] = BS /\ ~Escaped(v)[i - 1]
    BY <2>3, EscapedIs
  <2>5. Escaped(w)[i] <=> /\ i \in 2..Len(w) /\ w[i] \in Special \cup {SQ}
                          /\ w[i - 1] = BS /\ ~Escaped(w)[i - 1]
    BY <2>3, EscapedIs
  <2>6. i \in 2..Len(v) /\ i \in 2..Len(w)
    BY <2>2, <2>4, <2>5
  <2>7. v[i] = w[i] /\ v[i - 1] = w[i - 1]
    BY <2>6
  <2>8. i - 1 \in 0..Len(v) /\ ~(i <= i - 1)
    BY <2>6
  <2>9. Escaped(v)[i - 1] <=> Escaped(w)[i - 1]
    BY <2>1, <2>8
  <2> QED
    BY <2>2, <2>4, <2>5, <2>6, <2>7, <2>9
<1> QED
  BY <1>1

\* The text ends in no backslash that escapes what comes next.
Closed(v) == v # <<>> /\ v[Len(v)] = BS => Escaped(v)[Len(v)]

\* Two facts for any next character of a closed text.
LEMMA NextChar ==
    ASSUME NEW T, NEW v \in Seq(T), NEW c \in T, Closed(v)
    PROVE  LET w == Append(v, c)
           IN  /\ ~Escaped(w)[Len(v) + 1]
               /\ Kept(w) = Append(Kept(v), <<c>>)
               /\ c # BS => Closed(w)
<1> DEFINE w == Append(v, c)
           n == Len(v)
<1>1. w \in Seq(T) /\ Len(w) = n + 1 /\ n \in Nat /\ w[n + 1] = c /\ \A i \in 1..n : v[i] = w[i]
  <2>1. w \in Seq(T) /\ Len(w) = n + 1 /\ n \in Nat
    OBVIOUS
  <2>2. w[n + 1] = c /\ \A i \in 1..n : v[i] = w[i]
    OBVIOUS
  <2> QED
    BY <2>1, <2>2
<1> HIDE DEF w
<1>2. \A i \in 0..n : Escaped(v)[i] <=> Escaped(w)[i]
  <2>1. Len(v) <= Len(w) /\ \A i \in 1..Len(v) : v[i] = w[i]
    BY <1>1
  <2> QED
    BY <1>1, <2>1, EscapedSame
<1>3. ~Escaped(v)[n + 1]
  <2>1. n + 1 \in 0..(Len(v) + 1) /\ n + 1 \notin 2..Len(v)
    BY <1>1
  <2> HIDE DEF n
  <2> QED
    BY <2>1, EscapedIs
<1>4. ~Escaped(w)[n + 1]
  <2>1. n + 1 \in 0..(Len(w) + 1)
    BY <1>1
  <2>2. Escaped(w)[n + 1] => n + 1 \in 2..Len(w) /\ w[(n + 1) - 1] = BS /\ ~Escaped(w)[(n + 1) - 1]
    BY <1>1, <2>1, EscapedIs
  <2>3. (n + 1) - 1 = n
    BY <1>1
  <2>4. Escaped(w)[n + 1] => n # 0 /\ w[n] = BS /\ ~Escaped(w)[n]
    BY <1>1, <2>2, <2>3
  <2>5. ASSUME n # 0, w[n] = BS PROVE Escaped(w)[n]
    <3>1. v # <<>> /\ v[n] = BS /\ n \in 0..n
      BY <1>1, <2>5
    <3> QED
      BY <1>2, <3>1 DEF Closed
  <2> QED
    BY <2>4, <2>5
<1>5. ~Escaped(w)[n + 2]
  <2>1. n + 2 \in 0..(Len(w) + 1) /\ n + 2 \notin 2..Len(w)
    BY <1>1
  <2> HIDE DEF n
  <2> QED
    BY <1>1, <2>1, EscapedIs
<1>6. Kept(w) = Append(Kept(v), <<c>>)
  <2>1. DOMAIN w = 1..(n + 1) /\ DOMAIN v = 1..n
    BY <1>1
  <2>2. ASSUME NEW i \in 1..n
        PROVE  Escaped(w)[i + 1] <=> Escaped(v)[i + 1]
    <3>1. CASE i = n
      BY <1>3, <1>4, <3>1
    <3>2. CASE i # n
      <4>1. i + 1 \in 0..n
        BY <1>1, <3>2
      <4> QED
        BY <1>2, <4>1
    <3> QED
      BY <3>1, <3>2
  <2> DEFINE k(x, i) == IF Escaped(x)[i + 1] THEN <<>> ELSE <<x[i]>>
  <2>3. Kept(w) = [i \in 1..(n + 1) |-> k(w, i)] /\ Kept(v) = [i \in 1..n |-> k(v, i)]
    BY <2>1 DEF Kept
  <2>4. \A i \in 1..n : k(w, i) = k(v, i)
    BY <1>1, <2>2
  <2>5. k(w, n + 1) = <<c>>
    <3>1. (n + 1) + 1 = n + 2
      BY <1>1
    <3> QED
      BY <1>1, <1>5, <3>1
  <2> HIDE DEF k, n
  <2> QED
    BY <1>1, <2>3, <2>4, <2>5
<1>7. ASSUME c # BS PROVE Closed(w)
  BY <1>1, <1>7 DEF Closed
<1> QED
  BY <1>4, <1>6, <1>7 DEF w

\* An escaped character: the backslash goes, the character stays.
LEMMA NextEscaped ==
    ASSUME NEW T, BS \in T, NEW v \in Seq(T), NEW c \in T, c \in Special, Closed(v)
    PROVE  LET w == Append(Append(v, BS), c)
           IN  /\ Kept(w) = Append(Append(Kept(v), <<>>), <<c>>)
               /\ Closed(w)
<1> DEFINE u == Append(v, BS)
           w == Append(u, c)
           n == Len(v)
<1>1. /\ u \in Seq(T) /\ Len(u) = n + 1 /\ n \in Nat /\ u[n + 1] = BS
      /\ \A i \in 1..n : v[i] = u[i]
  <2>1. u \in Seq(T) /\ Len(u) = n + 1 /\ n \in Nat
    OBVIOUS
  <2>2. u[n + 1] = BS /\ \A i \in 1..n : v[i] = u[i]
    OBVIOUS
  <2> QED
    BY <2>1, <2>2
<1>2. ~Escaped(u)[n + 1] /\ Kept(u) = Append(Kept(v), <<BS>>)
  BY NextChar
<1> HIDE DEF u
<1>3. /\ w \in Seq(T) /\ Len(w) = n + 2 /\ w[n + 2] = c /\ w[n + 1] = BS
      /\ \A i \in 1..(n + 1) : u[i] = w[i]
  <2>1. w \in Seq(T) /\ Len(w) = n + 2
    BY <1>1
  <2>2. w[n + 2] = c /\ \A i \in 1..(n + 1) : u[i] = w[i]
    BY <1>1
  <2>3. n + 1 \in 1..(n + 1)
    BY <1>1
  <2> QED
    BY <1>1, <2>1, <2>2, <2>3
<1> HIDE DEF w
<1>4. \A i \in 0..(n + 1) : Escaped(u)[i] <=> Escaped(w)[i]
  <2>1. Len(u) <= Len(w) /\ (\A i \in 1..Len(u) : u[i] = w[i])
    BY <1>1, <1>3
  <2>2. \A i \in 0..Len(u) : Escaped(u)[i] <=> Escaped(w)[i]
    BY <1>1, <1>3, <2>1, EscapedSame
  <2> QED
    BY <1>1, <2>2
<1>5. Escaped(w)[n + 2]
  <2>1. n + 2 \in 0..(Len(w) + 1) /\ n + 2 \in 2..Len(w) /\ (n + 2) - 1 = n + 1 /\ n + 1 \in 0..(n + 1)
    BY <1>1, <1>3
  <2>2. ~Escaped(w)[n + 1]
    BY <1>2, <1>4, <2>1
  <2>3. w[n + 2] \in Special \cup {SQ} /\ w[(n + 2) - 1] = BS /\ ~Escaped(w)[(n + 2) - 1]
    BY <1>3, <2>1, <2>2
  <2> HIDE DEF n
  <2> QED
    BY <1>3, <2>1, <2>3, EscapedIs
<1>6. ~Escaped(w)[n + 3]
  <2>1. n + 3 \in 0..(Len(w) + 1) /\ n + 3 \notin 2..Len(w)
    BY <1>1, <1>3
  <2> HIDE DEF n
  <2> QED
    BY <1>3, <2>1, EscapedIs
<1>7. Kept(w) = Append(Append(Kept(v), <<>>), <<c>>)
  <2>1. DOMAIN w = 1..(n + 2) /\ DOMAIN v = 1..n /\ DOMAIN u = 1..(n + 1)
    BY <1>1, <1>3
  <2> DEFINE k(x, i) == IF Escaped(x)[i + 1] THEN <<>> ELSE <<x[i]>>
  <2>2. /\ Kept(w) = [i \in 1..(n + 2) |-> k(w, i)] /\ Kept(v) = [i \in 1..n |-> k(v, i)]
        /\ Kept(u) = [i \in 1..(n + 1) |-> k(u, i)]
    BY <2>1 DEF Kept
  <2>3. \A i \in 1..n : k(w, i) = k(v, i)
    <3> SUFFICES ASSUME NEW i \in 1..n PROVE k(w, i) = k(v, i)
      OBVIOUS
    <3>1. i \in 1..(n + 1) /\ i + 1 \in 0..(n + 1)
      BY <1>1
    <3>2. k(w, i) = k(u, i)
      BY <1>3, <1>4, <3>1
    <3>3. Kept(u)[i] = k(u, i) /\ Kept(v)[i] = k(v, i)
      <4> HIDE DEF k
      <4> QED
        BY <2>2, <3>1
    <3>4. Kept(u)[i] = Kept(v)[i]
      <4> DEFINE K == Kept(v)
      <4>1. K = [j \in 1..n |-> k(v, j)]
        BY <2>2
      <4> HIDE DEF K, k, n
      <4>2. Append(K, <<BS>>) = [j \in 1..(n + 1) |-> IF j = n + 1 THEN <<BS>> ELSE k(v, j)]
        BY <1>1, <4>1
      <4>3. i # n + 1 /\ i \in 1..(n + 1)
        BY <1>1, <3>1
      <4> DEFINE A == Append(K, <<BS>>)
                 m == n + 1
                 a(j) == IF j = n + 1 THEN <<BS>> ELSE k(v, j)
      <4>4. A = [j \in 1..m |-> a(j)] /\ i \in 1..m
        BY <4>2, <4>3
      <4>5. a(i) = k(v, i)
        BY <4>3
      <4> HIDE DEF A, a, m
      <4>6. A[i] = k(v, i)
        BY <4>4, <4>5
      <4> QED
        BY <1>2, <3>3, <4>6 DEF A, K
    <3> QED
      BY <3>2, <3>3, <3>4
  <2>4. k(w, n + 1) = <<>>
    <3>1. (n + 1) + 1 = n + 2
      BY <1>1
    <3> QED
      BY <1>5, <3>1
  <2>5. k(w, n + 2) = <<c>>
    <3>1. (n + 2) + 1 = n + 3
      BY <1>1
    <3> QED
      BY <1>3, <1>6, <3>1
  <2> HIDE DEF k, n
  <2>6. Append(Kept(v), <<>>) = [i \in 1..(n + 1) |-> IF i = n + 1 THEN <<>> ELSE k(v, i)]
    BY <1>1, <2>2
  <2>7. Append(Append(Kept(v), <<>>), <<c>>)
            = [i \in 1..(n + 2) |-> IF i = n + 2 THEN <<c>> ELSE IF i = n + 1 THEN <<>> ELSE k(v, i)]
    <3> DEFINE A == Append(Kept(v), <<>>)
               m == n + 1
               a(i) == IF i = n + 1 THEN <<>> ELSE k(v, i)
    <3>1. A = [i \in 1..m |-> a(i)] /\ m \in Nat
      BY <1>1, <2>6
    <3>2. m + 1 = n + 2
      BY <1>1
    <3> HIDE DEF A, m, a
    <3>3. Append(A, <<c>>) = [i \in 1..(m + 1) |-> IF i = m + 1 THEN <<c>> ELSE a(i)]
      BY <3>1
    <3> QED
      BY <3>2, <3>3 DEF A, a
  <2>8. ASSUME NEW i \in 1..(n + 2)
        PROVE  k(w, i) = IF i = n + 2 THEN <<c>> ELSE IF i = n + 1 THEN <<>> ELSE k(v, i)
    <3>1. i = n + 2 \/ i = n + 1 \/ i \in 1..n
      BY <1>1
    <3> QED
      BY <1>1, <2>3, <2>4, <2>5, <3>1
  <2> QED
    BY <2>2, <2>7, <2>8
<1>8. Closed(w)
  BY <1>3, <1>5 DEF Closed
<1> QED
  BY <1>7, <1>8 DEF u, w

\* How a character is written in double quotes.
Shown(c) == IF c \in Special THEN <<BS, c>> ELSE <<c>>

LEMMA EscapeSnoc ==
    ASSUME NEW T, BS \in T, NEW v \in Seq(T), NEW c \in T
    PROVE  Escape(Append(v, c)) = Escape(v) \o Shown(c)
<1> DEFINE w == Append(v, c)
           n == Len(v)
           shown == [i \in 1..n |-> Shown(v[i])]
<1>1. /\ w \in Seq(T) /\ Len(w) = n + 1 /\ n \in Nat /\ w[n + 1] = c
      /\ \A i \in 1..n : v[i] = w[i]
  <2>1. w \in Seq(T) /\ Len(w) = n + 1 /\ n \in Nat
    OBVIOUS
  <2>2. w[n + 1] = c /\ \A i \in 1..n : v[i] = w[i]
    OBVIOUS
  <2> QED
    BY <2>1, <2>2
<1>2. DOMAIN v = 1..n /\ DOMAIN w = 1..(n + 1)
  BY <1>1
<1>3. Escape(v) = FlattenSeq(shown)
  BY <1>2 DEF Escape, Shown
<1>4. Escape(w) = FlattenSeq([i \in 1..(n + 1) |-> Shown(w[i])])
  <2> HIDE DEF w
  <2> QED
    BY <1>2 DEF Escape, Shown
<1> HIDE DEF w, n
<1>5. \A d \in T : Shown(d) \in Seq(T)
  BY DEF Shown
<1>6. shown \in Seq(Seq(T)) /\ Shown(c) \in Seq(T)
  BY <1>1, <1>5 DEF n
<1>7. [i \in 1..(n + 1) |-> Shown(w[i])] = Append(shown, Shown(c))
  <2>1. \A i \in 1..n : Shown(w[i]) = Shown(v[i])
    BY <1>1
  <2>2. Shown(w[n + 1]) = Shown(c)
    BY <1>1
  <2> HIDE DEF Shown
  <2>3. Append(shown, Shown(c)) = [i \in 1..(n + 1) |-> IF i = n + 1 THEN Shown(c) ELSE Shown(v[i])]
    BY <1>1
  <2>4. \A i \in 1..(n + 1) : Shown(w[i]) = IF i = n + 1 THEN Shown(c) ELSE Shown(v[i])
    BY <1>1, <2>1, <2>2
  <2> QED
    BY <2>3, <2>4
<1> HIDE DEF shown
<1>8. FlattenSeq(Append(shown, Shown(c))) = FlattenSeq(shown) \o Shown(c)
  BY <1>6, FlattenSnoc
<1> QED
  BY <1>3, <1>4, <1>7, <1>8 DEF w

\* What a writer puts into double quotes, the parser takes out of them.
LEMMA ExpandEscape ==
    ASSUME NEW T, BS \in T
    PROVE  \A v \in Seq(T) : /\ Escape(v) \in Seq(T)
                             /\ expandDoubleQuoteEscapes(Escape(v)) = v
<1> DEFINE OK(v) == /\ Escape(v) \in Seq(T) /\ Closed(Escape(v))
                    /\ expandDoubleQuoteEscapes(Escape(v)) = v
                    /\ Kept(Escape(v)) \in Seq(Seq(T))
           S == {n \in Nat : \A v \in Seq(T) : Len(v) = n => OK(v)}
<1>1. 0 \in S
  <2> SUFFICES ASSUME NEW v \in Seq(T), Len(v) = 0 PROVE OK(v)
    OBVIOUS
  <2>1. v = <<>>
    OBVIOUS
  <2>2. Escape(v) = <<>>
    BY <2>1 DEF Escape, FlattenSeq
  <2>3. Kept(<<>>) = <<>>
    BY DEF Kept
  <2>4. Closed(<<>>)
    BY DEF Closed
  <2>5. expandDoubleQuoteEscapes(<<>>) = <<>>
    BY <2>3, ExpandIs DEF FlattenSeq
  <2>6. <<>> \in Seq(T) /\ <<>> \in Seq(Seq(T))
    OBVIOUS
  <2> QED
    BY <2>1, <2>2, <2>3, <2>4, <2>5, <2>6
<1>2. ASSUME NEW n \in S PROVE n + 1 \in S
  <2> SUFFICES ASSUME NEW w \in Seq(T), Len(w) = n + 1 PROVE OK(w)
    OBVIOUS
  <2> DEFINE v == SubSeq(w, 1, n)
             c == w[n + 1]
             e == Escape(v)
  <2>1. v \in Seq(T) /\ Len(v) = n /\ c \in T /\ w = Append(v, c)
    OBVIOUS
  <2> HIDE DEF v, c
  <2>2. OK(v)
    BY <2>1
  <2> HIDE DEF S
  <2>3. Escape(w) = e \o Shown(c)
    BY <2>1, EscapeSnoc
  <2>4. FlattenSeq(Kept(e)) = v
    BY <2>2, ExpandIs
  <2>5. CASE c \in Special
    <3>1. Escape(w) = Append(Append(e, BS), c)
      BY <2>2, <2>3, <2>5 DEF Shown
    <3>2. Kept(Escape(w)) = Append(Append(Kept(e), <<>>), <<c>>) /\ Closed(Escape(w))
      BY <2>1, <2>2, <2>5, <3>1, NextEscaped
    <3>3. Append(Append(e, BS), c) \in Seq(T)
      BY <2>1, <2>2
    <3>4. /\ Append(Kept(e), <<>>) \in Seq(Seq(T)) /\ <<>> \in Seq(T) /\ <<c>> \in Seq(T)
          /\ Append(Append(Kept(e), <<>>), <<c>>) \in Seq(Seq(T))
      BY <2>1, <2>2
    <3> HIDE DEF e
    <3>5. FlattenSeq(Append(Kept(e), <<>>)) = FlattenSeq(Kept(e)) \o <<>>
      BY <2>2, <3>4, FlattenSnoc DEF e
    <3>6. FlattenSeq(Append(Append(Kept(e), <<>>), <<c>>)) = FlattenSeq(Append(Kept(e), <<>>)) \o <<c>>
      BY <3>4, FlattenSnoc
    <3>7. expandDoubleQuoteEscapes(Escape(w)) = (v \o <<>>) \o <<c>>
      BY <2>4, <3>2, <3>5, <3>6, ExpandIs
    <3>8. (v \o <<>>) \o <<c>> = w
      BY <2>1
    <3> QED
      BY <3>1, <3>2, <3>3, <3>4, <3>7, <3>8
  <2>6. CASE c \notin Special
    <3>1. Escape(w) = Append(e, c)
      BY <2>2, <2>3, <2>6 DEF Shown
    <3>2. c # BS
      BY <2>6 DEF Special
    <3>3. Kept(Escape(w)) = Append(Kept(e), <<c>>) /\ Closed(Escape(w))
      BY <2>1, <2>2, <3>1, <3>2, NextChar
    <3>4. Append(e, c) \in Seq(T)
      BY <2>1, <2>2
    <3>5. <<c>> \in Seq(T) /\ Append(Kept(e), <<c>>) \in Seq(Seq(T))
      BY <2>1, <2>2
    <3> HIDE DEF e
    <3>6. FlattenSeq(Append(Kept(e), <<c>>)) = FlattenSeq(Kept(e)) \o <<c>>
      BY <2>2, <3>5, FlattenSnoc DEF e
    <3>7. expandDoubleQuoteEscapes(Escape(w)) = v \o <<c>>
      BY <2>4, <3>3, <3>6, ExpandIs
    <3>8. v \o <<c>> = w
      BY <2>1
    <3> QED
      BY <3>1, <3>3, <3>4, <3>5, <3>7, <3>8
  <2> QED
    BY <2>5, <2>6
<1> HIDE DEF S
<1>3. S = Nat
  <2>1. S \in SUBSET Nat
    BY DEF S
  <2> QED
    BY <1>1, <1>2, <2>1, SetInduction
<1> QED
  BY <1>3 DEF S

-----------------------------------------------------------------------------
\* A bounded set of positions has a last one.
LEMMA LastIs ==
    ASSUME NEW n \in Nat, NEW S \in SUBSET (1..n), S # {}
    PROVE  LastOf(S) \in S /\ \A y \in S : y <= LastOf(S)
<1> DEFINE T == {k \in Nat : n - k \in S}
<1>1. T # {}
  <2>1. PICK x \in S : TRUE
    OBVIOUS
  <2>2. n - x \in Nat /\ n - (n - x) = x
    BY <2>1
  <2>3. n - x \in T
    BY <2>1, <2>2
  <2> QED
    BY <2>3
<1>2. PICK k \in T : \A l \in T : k <= l
  BY <1>1, LeastNat
<1>3. ASSUME NEW y \in S
      PROVE  y <= n - k
  <2>1. n - y \in Nat /\ n - (n - y) = y
    OBVIOUS
  <2>2. k <= n - y
    BY <1>2, <2>1
  <2> QED
    BY <1>2, <2>2
<1>4. n - k \in S
  BY <1>2
<1> QED
  BY <1>3, <1>4 DEF LastOf

LEMMA LastOnly ==
    ASSUME NEW S \in SUBSET Nat, NEW m \in S, \A y \in S : y <= m
    PROVE  LastOf(S) = m
<1>1. \A x \in S : x \in Int
  OBVIOUS
<1>2. \A x \in S : (\A y \in S : y <= x) => x = m
  BY <1>1
<1> QED
  BY <1>2 DEF LastOf


\* A line is split exactly if its quotes are closed, and its value comes out
\* as its author meant it.
LEMMA LineIsAsWritten ==
    ASSUME NEW line, AsWritten(line)
    PROVE  /\ WellQuoted(Trimmed(line)) <=> line.form # "open"
           /\ line.form # "open" => unquoteOSReleaseValue(Trimmed(line)) = line.value
<1> DEFINE T == STRING \cup {DQ, SQ, BS, SP}
           v == line.value
           raw == line.raw
<1>1. v \in Seq(T) /\ raw = Raw(line.form, v)
  <2>1. v \in Seq(STRING)
    BY DEF AsWritten
  <2>2. v \in Seq(T)
    BY <2>1
  <2>3. raw = Raw(line.form, v)
    <3>1. line = Assignment(line.key, line.form, line.value)
      BY DEF AsWritten
    <3>2. Assignment(line.key, line.form, line.value).raw = Raw(line.form, v)
      BY DEF Assignment
    <3> QED
      BY <3>1, <3>2
  <2> QED
    BY <2>2, <2>3
<1>2. line.form \in {"plain", "padded", "double", "single", "open"}
  BY DEF AsWritten
<1>3. line.form \in {"plain", "padded"} => ~Begins(v, DQ) /\ ~Begins(v, SQ) /\ ~Ends(v, SP)
  BY DEF AsWritten
<1>4. line.form = "open" => ~Ends(v, DQ) /\ ~Ends(v, SP)
  BY DEF AsWritten
<1>5. DQ # SQ /\ DQ # SP /\ SQ # SP /\ {DQ, SQ, BS, SP} \subseteq T
  BY DEF DQ, SQ, SP
<1>6. Trimmed(line) = TrimRight(raw)
  BY DEF Trimmed
<1> HIDE DEF T, v, raw
<1>7. CASE line.form \in {"plain", "padded"}
  <2>1. TrimRight(raw) = v
    <3>1. CASE line.form = "plain"
      <4>1. raw = v
        BY <1>1, <3>1 DEF Raw
      <4> QED
        BY <1>3, <3>1, <4>1 DEF TrimRight
    <3>2. CASE line.form = "padded"
      <4>1. raw = Append(v, SP)
        BY <1>1, <1>5, <3>2 DEF Raw
      <4>2. Last(raw) = SP /\ raw # <<>> /\ Front(raw) = v
        BY <1>1, <1>5, <4>1 DEF Last, Front
      <4> QED
        BY <4>2 DEF TrimRight, Ends
    <3> QED
      BY <1>7, <3>1, <3>2
  <2> QED
    BY <1>3, <1>6, <1>7, <2>1 DEF WellQuoted, unquoteOSReleaseValue, Quoted, v
<1>8. CASE line.form = "double"
  <2> DEFINE e == Escape(v)
  <2>1. e \in Seq(T) /\ expandDoubleQuoteEscapes(e) = v
    BY <1>1, <1>5, ExpandEscape
  <2>2. raw = <<DQ>> \o e \o <<DQ>>
    BY <1>1, <1>8 DEF Raw
  <2> HIDE DEF e
  <2>3. raw # <<>> /\ raw[1] = DQ /\ raw[Len(raw)] = DQ /\ Len(raw) >= 2 /\ Inner(raw) = e
    BY <1>5, <2>1, <2>2 DEF Inner
  <2>4. Ends(raw, DQ) /\ ~Ends(raw, SP) /\ Begins(raw, DQ) /\ ~Begins(raw, SQ)
    BY <1>5, <2>3 DEF Ends, Begins, Last
  <2> QED
    BY <1>6, <1>8, <2>1, <2>3, <2>4 DEF TrimRight, WellQuoted, unquoteOSReleaseValue, Quoted, Balanced, v
<1>9. CASE line.form = "single"
  <2>1. raw = <<SQ>> \o v \o <<SQ>>
    BY <1>1, <1>9 DEF Raw
  <2>2. raw # <<>> /\ raw[1] = SQ /\ raw[Len(raw)] = SQ /\ Len(raw) >= 2 /\ Inner(raw) = v
    BY <1>1, <1>5, <2>1 DEF Inner
  <2>3. Ends(raw, SQ) /\ ~Ends(raw, SP) /\ Begins(raw, SQ) /\ ~Begins(raw, DQ)
    BY <1>5, <2>2 DEF Ends, Begins, Last
  <2> QED
    BY <1>6, <1>9, <2>2, <2>3 DEF TrimRight, WellQuoted, unquoteOSReleaseValue, Quoted, Balanced, v
<1>10. CASE line.form = "open"
  <2>1. raw = <<DQ>> \o v
    BY <1>1, <1>10 DEF Raw
  <2>2. raw # <<>> /\ raw[1] = DQ
    BY <1>1, <1>5, <2>1
  <2>3. v = <<>> => Len(raw) = 1 /\ Last(raw) = DQ
    BY <1>5, <2>1, <2>2 DEF Last
  <2>4. v # <<>> => Last(raw) = Last(v)
    BY <1>1, <1>5, <2>1 DEF Last
  <2>5. ~Ends(raw, SP) /\ (Ends(raw, DQ) => Len(raw) = 1)
    BY <1>4, <1>5, <1>10, <2>3, <2>4 DEF Ends
  <2>6. TrimRight(raw) = raw /\ ~Balanced(raw, DQ)
    BY <2>5 DEF TrimRight, Balanced
  <2> QED
    BY <1>6, <1>10, <2>2, <2>6 DEF WellQuoted, Quoted, Begins
<1> QED
  BY <1>2, <1>7, <1>8, <1>9, <1>10

\* Every field is the value its author gave last.
LEMMA FileIsAsWritten ==
    ASSUME NEW file, file \in Seq(ToSet(file)), \A i \in DOMAIN file : AsWritten(file[i])
    PROVE  ParseOSRelease(file) = [k \in DOMAIN NoFields |-> Meant(file, k)]
<1> DEFINE parsed(k) == {i \in DOMAIN file : file[i].key = k /\ splitKeyValue(file[i])}
           meant(k) == {i \in DOMAIN file : file[i].key = k /\ file[i].form # "open"}
<1>1. DOMAIN file = 1..Len(file) /\ Len(file) \in Nat
  OBVIOUS
<1>2. DOMAIN NoFields = {"ID", "VERSION_ID"}
  BY DEF NoFields
<1>3. ASSUME NEW k \in DOMAIN NoFields
      PROVE  parsed(k) = meant(k)
  <2>1. isValidOSReleaseKey(k)
    BY <1>2 DEF isValidOSReleaseKey
  <2>2. \A i \in DOMAIN file : WellQuoted(Trimmed(file[i])) <=> file[i].form # "open"
    BY LineIsAsWritten
  <2> QED
    BY <2>1, <2>2 DEF splitKeyValue
<1>4. ASSUME NEW k, meant(k) # {}
      PROVE  unquoteOSReleaseValue(Trimmed(file[LastOf(meant(k))])) = file[LastOf(meant(k))].value
  <2> DEFINE S == meant(k)
             n == Len(file)
  <2>1. S \in SUBSET (1..n) /\ S # {} /\ n \in Nat
    BY <1>1, <1>4
  <2>2. \A i \in S : i \in DOMAIN file /\ file[i].form # "open"
    OBVIOUS
  <2> HIDE DEF S, n
  <2>3. LastOf(S) \in S
    BY <2>1, LastIs
  <2>4. AsWritten(file[LastOf(S)]) /\ file[LastOf(S)].form # "open"
    BY <2>2, <2>3
  <2>5. unquoteOSReleaseValue(Trimmed(file[LastOf(S)])) = file[LastOf(S)].value
    BY <2>4, LineIsAsWritten
  <2> QED
    BY <2>5 DEF S
<1>5. ParseOSRelease(file) = [k \in DOMAIN NoFields |->
         IF parsed(k) = {} THEN <<>> ELSE unquoteOSReleaseValue(Trimmed(file[LastOf(parsed(k))]))]
  BY DEF ParseOSRelease
<1>6. \A k : Meant(file, k) = IF meant(k) = {} THEN <<>> ELSE file[LastOf(meant(k))].value
  BY DEF Meant
<1> HIDE DEF parsed, meant
<1> QED
  BY <1>3, <1>4, <1>5, <1>6

-----------------------------------------------------------------------------
(***************************************************************************)
(* internal/kernelmod: modprobe.d.                                         *)
(***************************************************************************)

IsText(lines, T) == lines \in Seq([words : Seq(T), cont : BOOLEAN])

\* The words since the last line that was complete, up to the nth line.
Open(lines, n) ==
    FlattenSeq([k \in 1..(n - Behind(lines, n + 1)) |-> lines[Behind(lines, n + 1) + k].words])

\* The logical lines that are complete by the nth line.
Whole(lines, n) ==
    FlattenSeq([j \in 1..n |-> IF Completes(lines[j]) THEN <<WordsTo(lines, j)>> ELSE <<>>])

\* What is in a text,
LEMMA TextTyped ==
    ASSUME NEW T, NEW lines, IsText(lines, T)
    PROVE  /\ Len(lines) \in Nat /\ DOMAIN lines = 1..Len(lines)
           /\ \A k \in 1..Len(lines) : lines[k].words \in Seq(T) /\ lines[k].cont \in BOOLEAN
<1> DEFINE R == [words : Seq(T), cont : BOOLEAN]
<1>1. \A r \in R : r.words \in Seq(T) /\ r.cont \in BOOLEAN
  OBVIOUS
<1>2. lines \in Seq(R)
  BY DEF IsText
<1> HIDE DEF R
<1> QED
  BY <1>1, <1>2

\* and where the block of a line begins.
LEMMA BehindIs ==
    ASSUME NEW lines, NEW n \in Nat
    PROVE  /\ Behind(lines, n + 1) \in 0..n
           /\ Behind(lines, n + 2) = IF Completes(lines[n + 1]) THEN n + 1
                                                               ELSE Behind(lines, n + 1)
<1> DEFINE S == {0} \cup {k \in 1..((n + 1) - 1) : Completes(lines[k])}
           U == {0} \cup {k \in 1..((n + 2) - 1) : Completes(lines[k])}
           c == Completes(lines[n + 1])
<1>1. Behind(lines, n + 1) = Max(S) /\ Behind(lines, n + 2) = Max(U)
  BY DEF Behind
<1>2. S \in SUBSET (0..n) /\ S # {}
  OBVIOUS
<1>3. U = IF c THEN S \cup {n + 1} ELSE S
  <2>1. \A k : k \in 1..((n + 2) - 1) <=> k \in 1..((n + 1) - 1) \/ k = n + 1
    OBVIOUS
  <2> QED
    BY <2>1
<1> HIDE DEF S, U, c
<1>4. Max(S) \in S
  BY <1>2, MaxIs
<1>5. CASE c
  <2>1. U \in SUBSET Nat /\ n + 1 \in U /\ \A y \in U : n + 1 >= y
    BY <1>2, <1>3, <1>5
  <2>2. Max(U) = n + 1
    BY <2>1, MaxOnly
  <2> QED
    BY <1>1, <1>2, <1>4, <1>5, <2>2 DEF c
<1>6. CASE ~c
  BY <1>1, <1>2, <1>3, <1>4, <1>6 DEF c
<1> QED
  BY <1>5, <1>6

\* Before the first line nothing is open and nothing is complete.
LEMMA NothingYet ==
    ASSUME NEW lines
    PROVE  Open(lines, 0) = <<>> /\ Whole(lines, 0) = <<>>
<1> DEFINE e(j) == IF Completes(lines[j]) THEN <<WordsTo(lines, j)>> ELSE <<>>
           w(k) == lines[0 + k].words
<1>1. Behind(lines, 0 + 1) = 0
  BY BehindIs
<1>2. Open(lines, 0) = FlattenSeq([k \in 1..0 |-> w(k)])
  BY <1>1 DEF Open
<1>3. Whole(lines, 0) = FlattenSeq([j \in 1..0 |-> e(j)])
  BY DEF Whole
<1> HIDE DEF e, w
<1>4. [k \in 1..0 |-> w(k)] = <<>> /\ [j \in 1..0 |-> e(j)] = <<>>
  OBVIOUS
<1> QED
  BY <1>2, <1>3, <1>4 DEF FlattenSeq

\* One line more: the words up to it, and those that are still open behind it.
LEMMA OpenGrows ==
    ASSUME NEW T, NEW lines, IsText(lines, T), NEW n \in Nat, n < Len(lines)
    PROVE  /\ Open(lines, n) \in Seq(T)
           /\ WordsTo(lines, n + 1) = Open(lines, n) \o lines[n + 1].words
           /\ Open(lines, n + 1) = IF Completes(lines[n + 1]) THEN <<>>
                                                              ELSE WordsTo(lines, n + 1)
<1> DEFINE b == Behind(lines, n + 1)
           w(k) == lines[b + k].words
           s == [k \in 1..(n - b) |-> w(k)]
<1>1. b \in Nat /\ b <= n /\ n + 1 \in Nat
  BY BehindIs
<1>2. \A k \in 1..Len(lines) : lines[k].words \in Seq(T)
  BY TextTyped
<1>3. Len(lines) \in Nat
  BY TextTyped
<1>4. Open(lines, n) = FlattenSeq(s)
  BY DEF Open
<1>5. WordsTo(lines, n + 1) = FlattenSeq([k \in 1..((n + 1) - b) |-> w(k)])
  BY DEF WordsTo
<1> HIDE DEF b
<1>6. \A k \in 1..((n + 1) - b) : w(k) \in Seq(T)
  BY <1>1, <1>2, <1>3
<1>7. w((n + 1) - b) = lines[n + 1].words
  <2>1. b + ((n + 1) - b) = n + 1
    BY <1>1
  <2> QED
    BY <2>1
<1> HIDE DEF w
<1>8. \A k \in 1..(n - b) : w(k) \in Seq(T)
  BY <1>1, <1>6
<1>9. s \in Seq(Seq(T))
  BY <1>1, <1>8
<1>10. [k \in 1..((n + 1) - b) |-> w(k)] = Append(s, w((n + 1) - b))
  BY <1>1
<1>11. w((n + 1) - b) \in Seq(T)
  BY <1>1, <1>6
<1> HIDE DEF s
<1>12. FlattenSeq(Append(s, w((n + 1) - b))) = FlattenSeq(s) \o w((n + 1) - b)
  BY <1>9, <1>11, FlattenSnoc
<1>13. FlattenSeq(s) \in Seq(T)
  BY <1>9, FlattenTyped
<1>14. Open(lines, n + 1) = IF Completes(lines[n + 1]) THEN <<>> ELSE WordsTo(lines, n + 1)
  <2>1. Behind(lines, (n + 1) + 1) = IF Completes(lines[n + 1]) THEN n + 1 ELSE b
    <3>1. (n + 1) + 1 = n + 2
      OBVIOUS
    <3> QED
      BY <3>1, BehindIs DEF b
  <2>2. CASE Completes(lines[n + 1])
    <3>1. Behind(lines, (n + 1) + 1) = n + 1 /\ (n + 1) - (n + 1) = 0
      BY <1>1, <2>1, <2>2
    <3>2. Open(lines, n + 1) = FlattenSeq([k \in 1..0 |-> lines[(n + 1) + k].words])
      BY <3>1 DEF Open
    <3>3. [k \in 1..0 |-> lines[(n + 1) + k].words] = <<>>
      OBVIOUS
    <3> QED
      BY <2>2, <3>2, <3>3 DEF FlattenSeq
  <2>3. CASE ~Completes(lines[n + 1])
    <3>1. Behind(lines, (n + 1) + 1) = b
      BY <2>1, <2>3
    <3>2. Open(lines, n + 1) = FlattenSeq([k \in 1..((n + 1) - b) |-> w(k)])
      BY <3>1 DEF Open, w
    <3> QED
      BY <1>5, <2>3, <3>2
  <2> QED
    BY <2>2, <2>3
<1> QED
  BY <1>4, <1>5, <1>7, <1>10, <1>12, <1>13, <1>14

\* What a block holds; a line that is complete leaves none empty.
LEMMA WordsTyped ==
    ASSUME NEW T, NEW lines, IsText(lines, T), NEW j \in 1..Len(lines)
    PROVE  /\ WordsTo(lines, j) \in Seq(T)
           /\ Completes(lines[j]) => WordsTo(lines, j) # <<>>
<1> DEFINE n == j - 1
<1>1. n \in Nat /\ n < Len(lines) /\ n + 1 = j
  BY TextTyped
<1> HIDE DEF n
<1>2. /\ Open(lines, n) \in Seq(T) /\ WordsTo(lines, n + 1) = Open(lines, n) \o lines[n + 1].words
  BY <1>1, OpenGrows
<1>3. lines[j].words \in Seq(T)
  BY TextTyped
<1>4. Completes(lines[j]) => lines[j].words # <<>>
  BY DEF Completes, IsBlank
<1> DEFINE a == Open(lines, n)
           w == lines[j].words
<1>5. a \in Seq(T) /\ w \in Seq(T) /\ WordsTo(lines, j) = a \o w
  BY <1>1, <1>2, <1>3
<1> HIDE DEF a, w
<1> QED
  BY <1>4, <1>5 DEF w

\* One line more: the logical lines by then.
LEMMA WholeGrows ==
    ASSUME NEW T, NEW lines, IsText(lines, T), NEW n \in Nat, n < Len(lines)
    PROVE  /\ Whole(lines, n) \in Seq(Seq(T))
           /\ Whole(lines, n + 1) = IF Completes(lines[n + 1])
                                    THEN Append(Whole(lines, n), WordsTo(lines, n + 1))
                                    ELSE Whole(lines, n)
<1> DEFINE e(j) == IF Completes(lines[j]) THEN <<WordsTo(lines, j)>> ELSE <<>>
           less == [j \in 1..n |-> e(j)]
           more == [j \in 1..(n + 1) |-> e(j)]
           U == Seq(T)
<1>1. Len(lines) \in Nat
  BY TextTyped
<1>2. \A j \in 1..Len(lines) : WordsTo(lines, j) \in U
  BY WordsTyped
<1> HIDE DEF U
<1>3. \A j \in 1..(n + 1) : j \in 1..Len(lines)
  BY <1>1
<1>4. \A j \in 1..(n + 1) : e(j) \in Seq(U)
  BY <1>2, <1>3
<1>5. Whole(lines, n) = FlattenSeq(less) /\ Whole(lines, n + 1) = FlattenSeq(more)
  BY DEF Whole
<1> HIDE DEF e
<1>6. OneMore(less, more, n, U)
  BY <1>4 DEF OneMore
<1>7. more[n + 1] = e(n + 1)
  OBVIOUS
<1> HIDE DEF less, more
<1>8. FlatGrown(less, more, n, U)
  BY <1>6, FlatNext, Zenon
<1>9. FlattenSeq(less) \in Seq(U) /\ FlattenSeq(more) = FlattenSeq(less) \o e(n + 1)
  BY <1>7, <1>8 DEF FlatGrown
<1>10. WordsTo(lines, n + 1) \in U
  BY <1>1, <1>2
<1>11. CASE Completes(lines[n + 1])
  <2>1. FlattenSeq(less) \o <<WordsTo(lines, n + 1)>> = Append(FlattenSeq(less), WordsTo(lines, n + 1))
    BY <1>9, <1>10
  <2> QED
    BY <1>5, <1>9, <1>11, <2>1 DEF e, U
<1>12. CASE ~Completes(lines[n + 1])
  <2>1. FlattenSeq(less) \o <<>> = FlattenSeq(less)
    BY <1>9
  <2> QED
    BY <1>5, <1>9, <1>12, <2>1 DEF e, U
<1> QED
  BY <1>11, <1>12

\* What is still open is what the last line with anything on it has reached,
\* if that one is continued.
LEMMA OpenIs ==
    ASSUME NEW T, NEW lines, IsText(lines, T)
    PROVE  \A n \in 0..Len(lines) :
              /\ Open(lines, n) # <<>> =>
                    \E m \in 1..n : /\ ~IsBlank(lines[m]) /\ ~Completes(lines[m])
                                    /\ \A k \in (m + 1)..n : IsBlank(lines[k])
                                    /\ WordsTo(lines, m) = Open(lines, n)
              /\ \A m \in 1..n : /\ ~IsBlank(lines[m]) /\ ~Completes(lines[m])
                                 /\ \A k \in (m + 1)..n : IsBlank(lines[k])
                                 => WordsTo(lines, m) = Open(lines, n)
<1> DEFINE last(m, n) == /\ ~IsBlank(lines[m]) /\ ~Completes(lines[m])
                         /\ \A k \in (m + 1)..n : IsBlank(lines[k])
           OK(n) == /\ Open(lines, n) # <<>> =>
                          \E m \in 1..n : last(m, n) /\ WordsTo(lines, m) = Open(lines, n)
                    /\ \A m \in 1..n : last(m, n) => WordsTo(lines, m) = Open(lines, n)
           S == {n \in Nat : n <= Len(lines) => OK(n)}
<1>0. Len(lines) \in Nat
  BY TextTyped
<1>1. 0 \in S
  BY NothingYet
<1>2. ASSUME NEW n \in S PROVE n + 1 \in S
  <2>1. n \in Nat /\ n + 1 \in Nat
    OBVIOUS
  <2> SUFFICES ASSUME n + 1 <= Len(lines) PROVE OK(n + 1)
    BY <2>1
  <2>2. OK(n) /\ n < Len(lines)
    BY <1>0, <2>1
  <2> HIDE DEF S
  <2>3. /\ Open(lines, n) \in Seq(T)
        /\ WordsTo(lines, n + 1) = Open(lines, n) \o lines[n + 1].words
        /\ Open(lines, n + 1) = IF Completes(lines[n + 1]) THEN <<>> ELSE WordsTo(lines, n + 1)
    BY <2>1, <2>2, OpenGrows
  <2>4. \A m \in 1..n : last(m, n + 1) <=> last(m, n) /\ IsBlank(lines[n + 1])
    <3>1. \A m \in 1..n : \A k : k \in (m + 1)..(n + 1) <=> k \in (m + 1)..n \/ k = n + 1
      BY <2>1
    <3> QED
      BY <3>1
  <2>5. last(n + 1, n + 1) <=> ~IsBlank(lines[n + 1]) /\ ~Completes(lines[n + 1])
    <3>1. \A k : k \notin ((n + 1) + 1)..(n + 1)
      BY <2>1
    <3> QED
      BY <3>1
  <2>6. \A m : m \in 1..(n + 1) <=> m \in 1..n \/ m = n + 1
    BY <2>1
  <2>7. CASE IsBlank(lines[n + 1])
    <3>1. ~Completes(lines[n + 1]) /\ lines[n + 1].words = <<>>
      BY <2>7 DEF Completes, IsBlank
    <3> DEFINE a == Open(lines, n)
    <3>2. a \o <<>> = a
      <4>1. a \in Seq(T)
        BY <2>3
      <4> HIDE DEF a
      <4> QED
        BY <4>1
    <3>3. Open(lines, n + 1) = Open(lines, n)
      BY <2>3, <3>1, <3>2
    <3> HIDE DEF last
    <3> QED
      BY <2>2, <2>4, <2>5, <2>6, <2>7, <3>1, <3>3
  <2>8. CASE ~IsBlank(lines[n + 1]) /\ Completes(lines[n + 1])
    <3>1. Open(lines, n + 1) = <<>>
      BY <2>3, <2>8
    <3> HIDE DEF last
    <3> QED
      BY <2>4, <2>5, <2>6, <2>8, <3>1
  <2>9. CASE ~IsBlank(lines[n + 1]) /\ ~Completes(lines[n + 1])
    <3>1. Open(lines, n + 1) = WordsTo(lines, n + 1)
      BY <2>3, <2>9
    <3> HIDE DEF last
    <3> QED
      BY <2>4, <2>5, <2>6, <2>9, <3>1
  <2> QED
    BY <2>7, <2>8, <2>9
<1> HIDE DEF OK
<1>3. S = Nat
  <2>1. S \in SUBSET Nat
    OBVIOUS
  <2> HIDE DEF S
  <2> QED
    BY <1>1, <1>2, <2>1, SetInduction
<1>4. \A n \in 0..Len(lines) : OK(n)
  BY <1>0, <1>3
<1> QED
  BY <1>4 DEF OK

-----------------------------------------------------------------------------
\* The recursion in ParseConfReader, up to line n.
Scans(f, lines, n) ==
    f = [i \in 0..n |-> IF i = 0 THEN Scanner ELSE ScanLine(f[i - 1], lines[i])]

\* A function with its equation exists,
LEMMA ScansExist ==
    ASSUME NEW lines
    PROVE  \A n \in Nat : \E f : Scans(f, lines, n)
<1> DEFINE S == {n \in Nat : \E f : Scans(f, lines, n)}
           step(i, sc) == IF i = 0 THEN Scanner ELSE ScanLine(sc, lines[i])
<1>0. \A f, n : Scans(f, lines, n) <=> f = [i \in 0..n |-> step(i, f[i - 1])]
  BY DEF Scans
<1>1. 0 \in S
  <2> DEFINE f == [i \in 0..0 |-> Scanner]
  <2>1. f = [i \in 0..0 |-> step(i, f[i - 1])]
    <3>1. \A i \in 0..0 : step(i, f[i - 1]) = Scanner
      OBVIOUS
    <3> HIDE DEF step
    <3> QED
      BY <3>1
  <2> HIDE DEF f, step
  <2> QED
    BY <1>0, <2>1
<1>2. ASSUME NEW n \in S PROVE n + 1 \in S
  <2>1. n \in Nat /\ n + 1 \in Nat
    OBVIOUS
  <2>2. PICK f : Scans(f, lines, n)
    OBVIOUS
  <2> HIDE DEF step
  <2> DEFINE g == [i \in 0..(n + 1) |-> IF i = n + 1 THEN step(n + 1, f[n]) ELSE f[i]]
  <2>3. DOMAIN g = 0..(n + 1) /\ g = [i \in 0..(n + 1) |-> g[i]]
    OBVIOUS
  <2>4. ASSUME NEW i \in 0..(n + 1)
        PROVE  g[i] = step(i, g[i - 1])
    <3>1. CASE i = n + 1
      <4>1. g[i] = step(n + 1, f[n]) /\ g[i - 1] = f[n]
        BY <2>1, <3>1
      <4> QED
        BY <3>1, <4>1
    <3>2. CASE i # n + 1 /\ i # 0
      <4>1. i \in 0..n /\ g[i] = f[i] /\ g[i - 1] = f[i - 1]
        BY <2>1, <3>2
      <4>2. f[i] = step(i, f[i - 1])
        BY <1>0, <2>2, <4>1
      <4> QED
        BY <4>1, <4>2
    <3>3. CASE i # n + 1 /\ i = 0
      <4>1. g[i] = f[i] /\ i \in 0..n
        BY <2>1, <3>3
      <4>2. f[i] = step(i, f[i - 1])
        BY <1>0, <2>2, <4>1
      <4> QED
        BY <3>3, <4>1, <4>2 DEF step
    <3> QED
      BY <3>1, <3>2, <3>3
  <2> HIDE DEF g
  <2>5. g = [i \in 0..(n + 1) |-> step(i, g[i - 1])]
    BY <2>3, <2>4
  <2>6. Scans(g, lines, n + 1)
    BY <1>0, <2>5
  <2> QED
    BY <2>1, <2>6
<1> HIDE DEF S
<1>3. S = Nat
  <2>1. S \in SUBSET Nat
    BY DEF S
  <2> QED
    BY <1>1, <1>2, <2>1, SetInduction
<1> QED
  BY <1>3 DEF S

\* so that the scanner after each line is what the equation says.
Scanned(lines) == CHOOSE f : Scans(f, lines, Len(lines))

LEMMA ScannedIs ==
    ASSUME NEW T, NEW lines, IsText(lines, T), NEW i \in 0..Len(lines)
    PROVE  Scanned(lines)[i] = IF i = 0 THEN Scanner ELSE ScanLine(Scanned(lines)[i - 1], lines[i])
<1>1. \E f : Scans(f, lines, Len(lines))
  <2>1. Len(lines) \in Nat
    BY TextTyped
  <2> QED
    BY <2>1, ScansExist
<1>2. Scans(Scanned(lines), lines, Len(lines))
  BY <1>1 DEF Scanned
<1> HIDE DEF Scanned
<1> QED
  BY <1>2 DEF Scans

\* The parser is this scanner and what it does behind the last line.
LEMMA ParseIs ==
    ASSUME NEW lines
    PROVE  ParseConfReader(lines) =
             LET end == Scanned(lines)[Len(lines)]
             IN  IF end.malformed \/ end.pending = <<>> THEN end ELSE Flush(end)
BY DEF ParseConfReader, Scanned, Scans

\* Directives that say what logical lines do.
DirectivesOver(T) == [kind : T, module : T, args : Seq(T), line : Nat]
ScannerOver(T) == [pending : Seq(T), pendingStart : Nat, lineNum : Nat,
                   directives : Seq(DirectivesOver(T)), malformed : BOOLEAN]
Says(d, w) == d.kind = w[1] /\ d.module = w[2] /\ d.args = SubSeq(w, 3, Len(w))
Matches(ds, ws) ==
    /\ Len(ds) = Len(ws)
    /\ \A i \in 1..Len(ws) : IsDirective(ws[i]) /\ Says(ds[i], ws[i])

\* One directive and one logical line more.
LEMMA MatchGrows ==
    ASSUME NEW D, NEW W, NEW ds \in Seq(D), NEW ws \in Seq(W), Matches(ds, ws),
           NEW d \in D, NEW w \in W, IsDirective(w), Says(d, w)
    PROVE  Matches(Append(ds, d), Append(ws, w))
<1> DEFINE n == Len(ws)
           es == Append(ds, d)
           xs == Append(ws, w)
<1>1. n \in Nat /\ Len(ds) = n
  BY DEF Matches
<1>2. Len(es) = n + 1 /\ es[n + 1] = d /\ \A i \in 1..n : es[i] = ds[i]
  BY <1>1
<1>3. Len(xs) = n + 1 /\ xs[n + 1] = w /\ \A i \in 1..n : xs[i] = ws[i]
  BY <1>1
<1>4. \A i \in 1..n : IsDirective(ws[i]) /\ Says(ds[i], ws[i])
  BY DEF Matches
<1> HIDE DEF n, es, xs
<1>5. ASSUME NEW i \in 1..(n + 1)
      PROVE  IsDirective(xs[i]) /\ Says(es[i], xs[i])
  <2>1. i \in 1..n \/ i = n + 1
    BY <1>1
  <2>2. CASE i \in 1..n
    BY <1>2, <1>3, <1>4, <2>2
  <2>3. CASE i = n + 1
    BY <1>2, <1>3, <2>3
  <2> QED
    BY <2>1, <2>2, <2>3
<1>6. Matches(es, xs)
  BY <1>2, <1>3, <1>5 DEF Matches
<1> QED
  BY <1>6 DEF es, xs

\* A block is flushed as a directive if it has enough words to be one.
LEMMA FlushIs ==
    ASSUME NEW T, NEW sc \in ScannerOver(T), NEW ws \in Seq(Seq(T)), Matches(sc.directives, ws)
    PROVE  LET p == sc.pending
               r == Flush(sc)
           IN  /\ r \in ScannerOver(T)
               /\ ~IsDirective(p) => r.malformed /\ r.directives = sc.directives
               /\ IsDirective(p) => /\ r.malformed = sc.malformed
                                    /\ r.pending = <<>>
                                    /\ Matches(r.directives, Append(ws, p))
<1> DEFINE p == sc.pending
           r == Flush(sc)
           d == [kind |-> p[1], module |-> p[2], args |-> SubSeq(p, 3, Len(p)), line |-> sc.pendingStart]
<1>1. /\ p \in Seq(T) /\ sc.pendingStart \in Nat /\ sc.directives \in Seq(DirectivesOver(T))
      /\ sc.malformed \in BOOLEAN /\ sc.lineNum \in Nat
  BY DEF ScannerOver
<1>2. CASE ~IsDirective(p)
  <2>1. r = [sc EXCEPT !.malformed = TRUE]
    BY <1>1, <1>2 DEF Flush, IsDirective, confDirectiveMinFields
  <2>2. r \in ScannerOver(T) /\ r.malformed /\ r.directives = sc.directives
    BY <2>1 DEF ScannerOver
  <2> QED
    BY <1>2, <2>2
<1>3. CASE IsDirective(p)
  <2>1. r = [sc EXCEPT !.pending = <<>>, !.directives = Append(sc.directives, d)]
    BY <1>1, <1>3 DEF Flush, IsDirective, confDirectiveMinFields
  <2>2. Len(p) >= 2 /\ Len(p) \in Nat
    BY <1>1, <1>3 DEF IsDirective, confDirectiveMinFields
  <2>3. p[1] \in T /\ p[2] \in T /\ SubSeq(p, 3, Len(p)) \in Seq(T)
    <3> HIDE DEF p
    <3> QED
      BY <1>1, <2>2
  <2>4. d \in DirectivesOver(T)
    BY <1>1, <2>3 DEF DirectivesOver
  <2>5. Says(d, p)
    BY DEF Says
  <2> HIDE DEF d, p
  <2>6. Matches(Append(sc.directives, d), Append(ws, p))
    BY <1>1, <1>3, <2>4, <2>5, MatchGrows
  <2>7. Append(sc.directives, d) \in Seq(DirectivesOver(T))
    BY <1>1, <2>4
  <2> DEFINE D == DirectivesOver(T)
             ds == Append(sc.directives, d)
  <2>8. ds \in Seq(D) /\ <<>> \in Seq(T)
    BY <2>7
  <2> HIDE DEF D, ds
  <2>9. /\ r \in ScannerOver(T) /\ r.malformed = sc.malformed /\ r.pending = <<>>
        /\ r.directives = ds
    <3>1. sc \in [pending : Seq(T), pendingStart : Nat, lineNum : Nat,
                  directives : Seq(D), malformed : BOOLEAN]
      BY DEF ScannerOver, D
    <3>2. r = [sc EXCEPT !.pending = <<>>, !.directives = ds]
      BY <2>1 DEF ds
    <3> HIDE DEF r
    <3>3. r \in [pending : Seq(T), pendingStart : Nat, lineNum : Nat,
                  directives : Seq(D), malformed : BOOLEAN]
      BY <2>8, <3>1, <3>2
    <3>4. r.malformed = sc.malformed /\ r.pending = <<>> /\ r.directives = ds
      BY <3>1, <3>2
    <3> QED
      BY <3>3, <3>4 DEF ScannerOver, D
  <2> QED
    BY <1>3, <2>6, <2>9 DEF p, ds
<1> QED
  BY <1>2, <1>3

\* The directives say the logical lines before one that is none.
Broken(ds, ws) ==
    \E k \in Nat : /\ k < Len(ws) /\ ~IsDirective(ws[k + 1])
                  /\ Len(ds) = k
                  /\ \A i \in 1..k : IsDirective(ws[i]) /\ Says(ds[i], ws[i])

LEMMA BrokenGrows ==
    ASSUME NEW W, NEW ds, NEW ws \in Seq(W), NEW w \in W
    PROVE  /\ Broken(ds, ws) => Broken(ds, Append(ws, w))
           /\ Matches(ds, ws) /\ ~IsDirective(w) => Broken(ds, Append(ws, w))
<1> DEFINE n == Len(ws)
           xs == Append(ws, w)
<1>1. n \in Nat /\ Len(xs) = n + 1 /\ xs[n + 1] = w /\ \A i \in 1..n : xs[i] = ws[i]
  OBVIOUS
<1> HIDE DEF xs
<1>2. ASSUME Broken(ds, ws) PROVE Broken(ds, xs)
  <2>1. PICK k \in Nat : /\ k < n /\ ~IsDirective(ws[k + 1]) /\ Len(ds) = k
                        /\ \A i \in 1..k : IsDirective(ws[i]) /\ Says(ds[i], ws[i])
    BY <1>2 DEF Broken
  <2> HIDE DEF n
  <2>2. xs[k + 1] = ws[k + 1] /\ \A i \in 1..k : xs[i] = ws[i]
    <3>1. k + 1 \in 1..n /\ \A i \in 1..k : i \in 1..n
      BY <1>1, <2>1
    <3> QED
      BY <1>1, <3>1
  <2>3. k < Len(xs)
    BY <1>1, <2>1
  <2> QED
    BY <2>1, <2>2, <2>3 DEF Broken
<1>3. ASSUME Matches(ds, ws), ~IsDirective(w) PROVE Broken(ds, xs)
  <2>1. Len(ds) = n /\ \A i \in 1..n : IsDirective(ws[i]) /\ Says(ds[i], ws[i])
    BY <1>3 DEF Matches
  <2> HIDE DEF n
  <2>2. n < Len(xs) /\ ~IsDirective(xs[n + 1])
    BY <1>1, <1>3
  <2>3. \A i \in 1..n : IsDirective(xs[i]) /\ Says(ds[i], xs[i])
    BY <1>1, <2>1
  <2> QED
    BY <1>1, <2>1, <2>2, <2>3 DEF Broken
<1> QED
  BY <1>2, <1>3 DEF xs

\* The scanner behind the nth line.
ScanOK(sc, lines, n, T) ==
    /\ sc \in ScannerOver(T)
    /\ ~sc.malformed => /\ sc.pending = Open(lines, n)
                        /\ Matches(sc.directives, Whole(lines, n))
    /\ sc.malformed => Broken(sc.directives, Whole(lines, n))

\* A line joins the block.
LEMMA GatherIs ==
    ASSUME NEW T, NEW sc \in ScannerOver(T), NEW line, line.words \in Seq(T)
    PROVE  LET g == Gathered(sc, line)
           IN  /\ g \in ScannerOver(T) /\ g.pending = sc.pending \o line.words
               /\ g.directives = sc.directives /\ g.malformed = sc.malformed
<1> DEFINE p == sc.pending \o line.words
           s == IF sc.pending = <<>> THEN sc.lineNum + 1 ELSE sc.pendingStart
           D == DirectivesOver(T)
           g == Gathered(sc, line)
           R == [pending : Seq(T), pendingStart : Nat, lineNum : Nat,
                 directives : Seq(D), malformed : BOOLEAN]
<1>1. R = ScannerOver(T)
  BY DEF ScannerOver
<1> HIDE DEF D
<1>2. sc \in R
  BY <1>1
<1>3. p \in Seq(T) /\ s \in Nat /\ sc.lineNum + 1 \in Nat
  BY <1>2
<1>4. g = [sc EXCEPT !.lineNum = sc.lineNum + 1, !.pendingStart = s, !.pending = p]
  BY DEF Gathered
<1> HIDE DEF p, s, g
<1>5. g \in R /\ g.pending = p /\ g.directives = sc.directives /\ g.malformed = sc.malformed
  BY <1>2, <1>3, <1>4
<1> QED
  BY <1>1, <1>5 DEF p, g

\* One line of the loop,
LEMMA ScanStep ==
    ASSUME NEW T, NEW lines, IsText(lines, T), NEW n \in Nat, n < Len(lines),
           NEW sc, ScanOK(sc, lines, n, T)
    PROVE  ScanOK(ScanLine(sc, lines[n + 1]), lines, n + 1, T)
<1> DEFINE line == lines[n + 1]
           w == WordsTo(lines, n + 1)
           a == Open(lines, n)
           ws == Whole(lines, n)
           c == Completes(line)
<1>1. line.words \in Seq(T)
  BY TextTyped
<1>2. /\ a \in Seq(T) /\ w = a \o line.words
      /\ Open(lines, n + 1) = IF c THEN <<>> ELSE w
  BY OpenGrows
<1>3. /\ ws \in Seq(Seq(T))
      /\ Whole(lines, n + 1) = IF c THEN Append(ws, w) ELSE ws
  BY WholeGrows
<1>4. w \in Seq(T)
  <2> HIDE DEF w, a, line
  <2> QED
    BY <1>1, <1>2
<1>5. /\ sc \in ScannerOver(T)
      /\ ~sc.malformed => sc.pending = a /\ Matches(sc.directives, ws)
      /\ sc.malformed => Broken(sc.directives, ws)
  BY DEF ScanOK
<1> DEFINE ScanIs(r) == ScanOK(r, lines, n + 1, T)
<1>6. \A r : ScanIs(r) <=> /\ r \in ScannerOver(T)
                           /\ ~r.malformed => /\ r.pending = IF c THEN <<>> ELSE w
                                              /\ Matches(r.directives, IF c THEN Append(ws, w) ELSE ws)
                           /\ r.malformed => Broken(r.directives, IF c THEN Append(ws, w) ELSE ws)
  BY <1>2, <1>3 DEF ScanOK
<1>7. c <=> ~IsBlank(line) /\ ~line.cont
  BY DEF Completes
<1> HIDE DEF ScanIs, w, a, ws, c, line
<1>8. CASE sc.malformed
  <2>1. ScanLine(sc, line) = sc
    BY <1>8 DEF ScanLine
  <2>2. Broken(sc.directives, IF c THEN Append(ws, w) ELSE ws)
    BY <1>3, <1>4, <1>5, <1>8, BrokenGrows
  <2> QED
    BY <1>5, <1>6, <1>8, <2>1, <2>2 DEF ScanIs, line
<1>9. CASE ~sc.malformed /\ IsBlank(line)
  <2>1. ScanLine(sc, line) = [sc EXCEPT !.lineNum = sc.lineNum + 1]
    BY <1>9 DEF ScanLine
  <2>2. line.words = <<>> /\ ~c
    BY <1>7, <1>9 DEF IsBlank
  <2>3. w = a
    BY <1>2, <2>2
  <2> DEFINE r == ScanLine(sc, line)
  <2>4. /\ r \in ScannerOver(T) /\ r.malformed = sc.malformed /\ r.pending = sc.pending
        /\ r.directives = sc.directives
    <3> DEFINE D == DirectivesOver(T)
               S == Seq(T)
               R == [pending : S, pendingStart : Nat, lineNum : Nat,
                     directives : Seq(D), malformed : BOOLEAN]
    <3>1. R = ScannerOver(T)
      BY DEF ScannerOver
    <3> HIDE DEF D, S, r
    <3>2. sc \in R /\ r = [sc EXCEPT !.lineNum = sc.lineNum + 1]
      BY <1>5, <2>1, <3>1 DEF r
    <3>3. /\ r \in R /\ r.malformed = sc.malformed /\ r.pending = sc.pending
          /\ r.directives = sc.directives
      BY <3>2
    <3> QED
      BY <3>1, <3>3
  <2> QED
    BY <1>5, <1>6, <1>9, <2>2, <2>3, <2>4 DEF ScanIs, line
<1> DEFINE g == Gathered(sc, line)
<1>10. /\ g \in ScannerOver(T) /\ g.pending = sc.pending \o line.words
       /\ g.directives = sc.directives /\ g.malformed = sc.malformed
  BY <1>1, <1>5, GatherIs
<1> HIDE DEF g
<1>11. CASE ~sc.malformed /\ ~IsBlank(line) /\ line.cont
  <2>1. ScanLine(sc, line) = g
    BY <1>11 DEF ScanLine, g
  <2>2. ~c /\ g.pending = w
    BY <1>2, <1>5, <1>7, <1>10, <1>11
  <2> QED
    BY <1>5, <1>6, <1>10, <1>11, <2>1, <2>2 DEF ScanIs, line
<1>12. CASE ~sc.malformed /\ ~IsBlank(line) /\ ~line.cont
  <2> DEFINE r == Flush(g)
  <2>1. ScanLine(sc, line) = r
    BY <1>12 DEF ScanLine, g
  <2>2. c /\ g.pending = w /\ Matches(g.directives, ws) /\ ~g.malformed
    BY <1>2, <1>5, <1>7, <1>10, <1>12
  <2>3. /\ r \in ScannerOver(T)
        /\ ~IsDirective(w) => r.malformed /\ r.directives = g.directives
        /\ IsDirective(w) => /\ r.malformed = g.malformed
                             /\ r.pending = <<>>
                             /\ Matches(r.directives, Append(ws, w))
    BY <1>3, <1>10, <2>2, FlushIs
  <2>4. ~IsDirective(w) => Broken(g.directives, Append(ws, w))
    BY <1>3, <1>4, <2>2, BrokenGrows
  <2> HIDE DEF r
  <2> QED
    BY <1>6, <2>1, <2>2, <2>3, <2>4 DEF ScanIs, line
<1> QED
  BY <1>8, <1>9, <1>11, <1>12 DEF line

\* and all of them.
LEMMA ScanIsOK ==
    ASSUME NEW T, NEW lines, IsText(lines, T)
    PROVE  ScanOK(Scanned(lines)[Len(lines)], lines, Len(lines), T)
<1> DEFINE S == {n \in Nat : n <= Len(lines) => ScanOK(Scanned(lines)[n], lines, n, T)}
<1>0. Len(lines) \in Nat
  BY TextTyped
<1>1. 0 \in S
  <2>1. Scanned(lines)[0] = Scanner
    BY <1>0, ScannedIs
  <2>2. Open(lines, 0) = <<>> /\ Whole(lines, 0) = <<>>
    BY NothingYet
  <2>3. Scanner \in ScannerOver(T) /\ Scanner.pending = <<>> /\ Scanner.directives = <<>>
        /\ ~Scanner.malformed
    <3> DEFINE D == DirectivesOver(T)
    <3>1. <<>> \in Seq(D) /\ <<>> \in Seq(T)
      OBVIOUS
    <3> HIDE DEF D
    <3> QED
      BY <3>1 DEF ScannerOver, Scanner, D
  <2>4. Matches(<<>>, <<>>)
    BY DEF Matches
  <2> QED
    BY <2>1, <2>2, <2>3, <2>4 DEF ScanOK
<1>2. ASSUME NEW n \in S PROVE n + 1 \in S
  <2>1. n \in Nat /\ n + 1 \in Nat
    OBVIOUS
  <2> SUFFICES ASSUME n + 1 <= Len(lines) PROVE ScanOK(Scanned(lines)[n + 1], lines, n + 1, T)
    BY <2>1
  <2>2. ScanOK(Scanned(lines)[n], lines, n, T) /\ n < Len(lines)
    BY <1>0, <2>1
  <2>3. Scanned(lines)[n + 1] = ScanLine(Scanned(lines)[n], lines[n + 1])
    <3>1. n + 1 \in 0..Len(lines) /\ n + 1 # 0 /\ (n + 1) - 1 = n
      BY <1>0, <2>1
    <3> QED
      BY <3>1, ScannedIs
  <2> QED
    BY <2>1, <2>2, <2>3, ScanStep
<1> HIDE DEF S
<1>3. S = Nat
  <2>1. S \in SUBSET Nat
    BY DEF S
  <2> QED
    BY <1>1, <1>2, <2>1, SetInduction
<1> QED
  BY <1>0, <1>3 DEF S

\* The logical lines of a text: those that are complete by its end, and what
\* a trailing continuation holds.
LEMMA LogicalIs ==
    ASSUME NEW T, NEW lines, IsText(lines, T)
    PROVE  LogicalLines(lines) =
             IF Open(lines, Len(lines)) = <<>> THEN Whole(lines, Len(lines))
             ELSE Append(Whole(lines, Len(lines)), Open(lines, Len(lines)))
<1> DEFINE len == Len(lines)
           e(j) == IF Completes(lines[j]) THEN <<WordsTo(lines, j)>> ELSE <<>>
           x(j) == IF /\ Completes(lines[j]) \/ IsLast(lines, j)
                      /\ WordsTo(lines, j) # <<>>
                   THEN <<WordsTo(lines, j)>> ELSE <<>>
           last(m) == /\ ~IsBlank(lines[m]) /\ ~Completes(lines[m])
                      /\ \A k \in (m + 1)..len : IsBlank(lines[k])
           open == Open(lines, len)
           U == Seq(T)
<1>1. len \in Nat /\ DOMAIN lines = 1..len
  BY TextTyped
<1>2. LogicalLines(lines) = FlattenSeq([j \in 1..len |-> x(j)])
  BY <1>1 DEF LogicalLines
<1>3. \A n : Whole(lines, n) = FlattenSeq([j \in 1..n |-> e(j)])
  BY DEF Whole
<1>4. /\ open # <<>> => \E m \in 1..len : last(m) /\ WordsTo(lines, m) = open
      /\ \A m \in 1..len : last(m) => WordsTo(lines, m) = open
  <2>1. len \in 0..Len(lines)
    BY <1>1
  <2> QED
    BY <2>1, OpenIs, Zenon
<1>5. \A j \in 1..len : /\ WordsTo(lines, j) \in U
                        /\ Completes(lines[j]) => WordsTo(lines, j) # <<>>
  BY WordsTyped
<1>6. ASSUME NEW j \in 1..len
      PROVE  last(j) <=> IsLast(lines, j) /\ ~Completes(lines[j])
  <2>1. \A k : k \in (j + 1)..len <=> k \in 1..len /\ k > j
    BY <1>1
  <2> QED
    BY <1>1, <2>1 DEF IsLast
<1>7. ASSUME NEW j \in 1..len, ~last(j)
      PROVE  x(j) = e(j)
  BY <1>5, <1>6, <1>7
<1> HIDE DEF U
<1>8. \A j \in 1..len : x(j) \in Seq(U)
  BY <1>5
<1>9. CASE open = <<>>
  <2>1. ASSUME NEW j \in 1..len PROVE x(j) = e(j)
    <3>1. CASE ~last(j)
      BY <1>7, <3>1
    <3>2. CASE last(j)
      BY <1>4, <1>6, <1>9, <3>2
    <3> QED
      BY <3>1, <3>2
  <2> HIDE DEF x, e
  <2>2. [j \in 1..len |-> x(j)] = [j \in 1..len |-> e(j)]
    BY <2>1
  <2> QED
    BY <1>2, <1>3, <1>9, <2>2
<1>10. CASE open # <<>>
  <2>1. PICK m \in 1..len : last(m) /\ WordsTo(lines, m) = open
    BY <1>4, <1>10
  <2>2. x(m) = <<open>>
    BY <1>6, <1>10, <2>1
  <2>3. ASSUME NEW j \in 1..len, j # m
        PROVE  ~last(j) /\ (j > m => e(j) = <<>> /\ ~Completes(lines[j]))
    <3>1. j > m => IsBlank(lines[j])
      BY <1>1, <2>1, <2>3
    <3>2. j < m => ~last(j)
      <4>1. j < m => m \in (j + 1)..len
        BY <1>1
      <4> QED
        BY <2>1, <4>1
    <3>3. j > m \/ j < m
      BY <2>3
    <3> QED
      BY <3>1, <3>2, <3>3 DEF Completes
  <2>4. ~Completes(lines[m])
    BY <2>1
  <2>5. \A j \in 1..len : j < m => x(j) = e(j)
    BY <1>7, <2>3
  <2>6. ASSUME NEW j \in 1..len, j > m
        PROVE  x(j) = <<>>
    <3>1. ~last(j) /\ e(j) = <<>>
      BY <1>1, <2>3, <2>6
    <3> HIDE DEF last, x, e
    <3> QED
      BY <1>7, <3>1
  <2>7. \A j \in 1..len : j > m => ~Completes(lines[j])
    BY <2>3
  <2>8. open \in U
    BY <1>5, <2>1
  <2> DEFINE t(n) == FlattenSeq([j \in 1..n |-> x(j)])
             OK(n) == t(n) = IF n < m THEN Whole(lines, n) ELSE Append(Whole(lines, n), open)
             S == {n \in Nat : n <= len => OK(n)}
  <2> HIDE DEF last, x, open
  <2>9. 0 \in S
    <3>1. [j \in 1..0 |-> x(j)] = <<>>
      OBVIOUS
    <3>2. [j \in 1..0 |-> e(j)] = <<>>
      <4> HIDE DEF e
      <4> QED
        OBVIOUS
    <3> HIDE DEF e
    <3>3. t(0) = Whole(lines, 0)
      BY <1>3, <3>1, <3>2
    <3> QED
      BY <3>3
  <2>10. ASSUME NEW n \in S PROVE n + 1 \in S
    <3>1. n \in Nat /\ n + 1 \in Nat
      OBVIOUS
    <3> SUFFICES ASSUME n + 1 <= len PROVE OK(n + 1)
      BY <3>1
    <3>2. OK(n) /\ n < Len(lines) /\ n + 1 \in 1..len
      BY <1>1, <3>1
    <3> DEFINE less == [j \in 1..n |-> x(j)]
               more == [j \in 1..(n + 1) |-> x(j)]
               ws == Whole(lines, n)
               v == WordsTo(lines, n + 1)
               c == Completes(lines[n + 1])
    <3>3. /\ ws \in Seq(U)
          /\ Whole(lines, n + 1) = IF c THEN Append(ws, v) ELSE ws
      BY <3>1, <3>2, WholeGrows DEF U
    <3>4. OneMore(less, more, n, U)
      <4>1. \A i \in 1..(n + 1) : i \in 1..len
        BY <1>1, <3>1, <3>2
      <4> QED
        BY <1>8, <4>1 DEF OneMore
    <3>5. t(n) = FlattenSeq(less) /\ t(n + 1) = FlattenSeq(more) /\ more[n + 1] = x(n + 1)
      BY <3>1
    <3>6. t(n) = IF n < m THEN ws ELSE Append(ws, open)
      BY <3>2
    <3> HIDE DEF less, more, S, t, ws, v, c
    <3>7. FlatGrown(less, more, n, U)
      BY <3>1, <3>4, FlatNext, Zenon
    <3>8. t(n) \in Seq(U) /\ t(n + 1) = t(n) \o x(n + 1)
      BY <3>5, <3>7 DEF FlatGrown
    <3>9. v \in U
      BY <1>5, <3>2 DEF v
    <3>10. e(n + 1) = IF c THEN <<v>> ELSE <<>>
      BY DEF v, c
    <3> HIDE DEF e
    <3> DEFINE t1 == t(n + 1)
               x1 == x(n + 1)
               w1 == Whole(lines, n + 1)
    <3>11. t1 = t(n) \o x1 /\ (c => w1 = Append(ws, v)) /\ (~c => w1 = ws)
      BY <3>3, <3>8
    <3>12. OK(n + 1) <=> t1 = IF n + 1 < m THEN w1 ELSE Append(w1, open)
      OBVIOUS
    <3>13. CASE n + 1 < m
      <4>1. x1 = (IF c THEN <<v>> ELSE <<>>) /\ t(n) = ws
        BY <1>1, <2>5, <3>1, <3>2, <3>6, <3>10, <3>13
      <4> HIDE DEF t1, x1, w1, OK
      <4>2. t1 = w1
        BY <3>3, <3>9, <3>11, <4>1, AppendIs
      <4> QED
        BY <3>12, <3>13, <4>2
    <3>14. CASE n + 1 = m
      <4>1. x1 = <<open>> /\ t(n) = ws /\ ~c
        BY <1>1, <2>2, <2>4, <3>1, <3>6, <3>14 DEF c
      <4>2. ~(n + 1 < m)
        BY <3>1, <3>14
      <4> HIDE DEF t1, x1, w1, OK
      <4>3. t1 = Append(w1, open)
        BY <2>8, <3>3, <3>11, <4>1, AppendIs
      <4> QED
        BY <3>12, <4>2, <4>3
    <3>15. CASE n + 1 > m
      <4>1. x1 = <<>> /\ t(n) = Append(ws, open) /\ ~c
        BY <1>1, <2>6, <2>7, <3>1, <3>2, <3>6, <3>15 DEF c
      <4>2. ~(n + 1 < m)
        BY <1>1, <3>1, <3>15
      <4> HIDE DEF t1, x1, w1, OK
      <4>3. t1 = Append(w1, open)
        BY <2>8, <3>8, <3>11, <4>1, AppendIs
      <4> QED
        BY <3>12, <4>2, <4>3
    <3> QED
      BY <1>1, <3>1, <3>13, <3>14, <3>15
  <2> HIDE DEF S
  <2>11. S = Nat
    <3>1. S \in SUBSET Nat
      BY DEF S
    <3> QED
      BY <2>9, <2>10, <3>1, SetInduction
  <2>12. OK(len)
    BY <1>1, <2>11 DEF S
  <2>13. ~(len < m)
    BY <1>1
  <2>14. t(len) = Append(Whole(lines, len), open)
    BY <2>12, <2>13
  <2> QED
    BY <1>2, <1>10, <2>14 DEF open, x, t
<1> QED
  BY <1>9, <1>10

\* What the parser says of a text, by its logical lines.
LEMMA ParsedIs ==
    ASSUME NEW T, NEW lines, IsText(lines, T)
    PROVE  LET r  == ParseConfReader(lines)
               ll == LogicalLines(lines)
           IN  /\ r \in ScannerOver(T) /\ ll \in Seq(Seq(T))
               /\ IF r.malformed THEN Broken(r.directives, ll) ELSE Matches(r.directives, ll)
<1> DEFINE len == Len(lines)
           end == Scanned(lines)[len]
           ws == Whole(lines, len)
           a == Open(lines, len)
           r == ParseConfReader(lines)
           ll == LogicalLines(lines)
           U == Seq(T)
<1>1. len \in Nat
  BY TextTyped
<1>2. /\ end \in ScannerOver(T)
      /\ ~end.malformed => end.pending = a /\ Matches(end.directives, ws)
      /\ end.malformed => Broken(end.directives, ws)
  BY ScanIsOK DEF ScanOK
<1>3. ws \in Seq(U) /\ a \in U
  <2>1. CASE len = 0
    <3>1. a = <<>> /\ ws = <<>>
      BY <2>1, NothingYet
    <3> HIDE DEF a, ws
    <3> QED
      BY <3>1
  <2>2. CASE len # 0
    <3> DEFINE n == len - 1
    <3>1. n \in Nat /\ n < len /\ n + 1 = len
      BY <1>1, <2>2
    <3> HIDE DEF n
    <3>2. /\ Whole(lines, n) \in Seq(U)
          /\ Whole(lines, n + 1) = IF Completes(lines[n + 1])
                                   THEN Append(Whole(lines, n), WordsTo(lines, n + 1))
                                   ELSE Whole(lines, n)
      BY <3>1, WholeGrows
    <3>3. Open(lines, n + 1) = IF Completes(lines[n + 1]) THEN <<>> ELSE WordsTo(lines, n + 1)
      BY <3>1, OpenGrows
    <3>4. WordsTo(lines, len) \in U /\ <<>> \in U
      <4>1. len \in 1..Len(lines)
        BY <1>1, <2>2
      <4> QED
        BY <4>1, WordsTyped
    <3> HIDE DEF U, ws, a
    <3>5. ws = Whole(lines, n + 1) /\ a = Open(lines, n + 1)
      BY <3>1 DEF ws, a
    <3>6. ws \in Seq(U)
      <4> DEFINE u == Whole(lines, n)
                 v == WordsTo(lines, len)
      <4>1. u \in Seq(U) /\ v \in U /\ (ws = Append(u, v) \/ ws = u)
        BY <3>1, <3>2, <3>4, <3>5
      <4> HIDE DEF u, v
      <4> QED
        BY <4>1, AppendIs
    <3>7. a \in U
      BY <3>1, <3>3, <3>4, <3>5
    <3> QED
      BY <3>6, <3>7
  <2> QED
    BY <2>1, <2>2
<1>4. ll = IF a = <<>> THEN ws ELSE Append(ws, a)
  BY LogicalIs
<1>5. r = IF end.malformed \/ end.pending = <<>> THEN end ELSE Flush(end)
  BY ParseIs
<1> HIDE DEF end, ws, a, r, ll
<1>6. ll \in Seq(U)
  <2> HIDE DEF U
  <2> QED
    BY <1>3, <1>4
<1>7. CASE end.malformed
  <2>1. Broken(end.directives, ll)
    BY <1>2, <1>3, <1>4, <1>7, BrokenGrows
  <2> QED
    BY <1>2, <1>5, <1>6, <1>7, <2>1 DEF r, ll
<1>8. CASE ~end.malformed /\ a = <<>>
  BY <1>2, <1>4, <1>5, <1>6, <1>8 DEF r, ll
<1>9. CASE ~end.malformed /\ a # <<>>
  <2>1. r = Flush(end) /\ ll = Append(ws, a) /\ end.pending = a /\ Matches(end.directives, ws)
    BY <1>2, <1>4, <1>5, <1>9
  <2>2. /\ Flush(end) \in ScannerOver(T)
        /\ ~IsDirective(a) => Flush(end).malformed /\ Flush(end).directives = end.directives
        /\ IsDirective(a) => /\ Flush(end).malformed = end.malformed
                             /\ Matches(Flush(end).directives, Append(ws, a))
    BY <1>2, <1>3, <2>1, FlushIs
  <2>3. ~IsDirective(a) => Broken(end.directives, Append(ws, a))
    BY <1>3, <2>1, BrokenGrows
  <2> QED
    BY <1>6, <1>9, <2>1, <2>2, <2>3 DEF r, ll
<1> QED
  BY <1>7, <1>8, <1>9
=============================================================================
