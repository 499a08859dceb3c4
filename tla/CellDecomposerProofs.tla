------------------------ MODULE CellDecomposerProofs ------------------------
(***************************************************************************)
(* What the operators of CellDecomposer compute, for any boxes, divisions, *)
(* parts and paddings whose cells divide the box evenly: the walks visit   *)
(* an element as often as its cell is in the stencil, a point is put in    *)
(* the cell that holds it, and a stencil has each of its steps once.       *)
(*                                                                         *)
(* A sequence that is built by recursion is reasoned about by the least    *)
(* number at which a claim about it fails (LeastNat).                      *)
(***************************************************************************)
EXTENDS CellDecomposer, FiniteSetTheorems, NaturalsInduction, WellFoundedInduction, TLAPS

-----------------------------------------------------------------------------
(* Sequences in which an element is once or not at all. *)

Once(s, x) == \E n \in 1 .. Len(s) : s[n] = x /\ \A m \in 1 .. Len(s) : s[m] = x => m = n
Absent(s, x) == \A n \in 1 .. Len(s) : s[n] # x

Less == {ss \in Nat \X Nat : ss[1] < ss[2]}

LEMMA LeastNat ==
  ASSUME NEW S \in SUBSET Nat, S # {}
  PROVE  \E m \in S : \A k \in S : m <= k
<1>1. IsWellFoundedOn(Less, Nat)
  BY NatLessThanWellFounded DEF OpToRel, Less
<1>2. \E m \in S : \A k \in S : ~(<<k, m>> \in Less)
  BY <1>1, WFMin
<1>3. \A k, m \in Nat : k < m => <<k, m>> \in Less
  BY DEF Less
<1>4. \A k, m \in Nat : ~(k < m) => m <= k
  OBVIOUS
<1>5. QED
  BY <1>2, <1>3, <1>4

LEMMA VisitsOf ==
  ASSUME NEW T, NEW s \in Seq(T), NEW x
  PROVE  /\ Once(s, x) => Visits(s, x) = 1
         /\ Absent(s, x) => Visits(s, x) = 0
<1>1. DOMAIN s = 1 .. Len(s)
  OBVIOUS
<1>2. ASSUME Once(s, x) PROVE Visits(s, x) = 1
  <2>1. PICK n \in 1 .. Len(s) : s[n] = x /\ \A m \in 1 .. Len(s) : s[m] = x => m = n
    BY <1>2 DEF Once
  <2>2. {m \in DOMAIN s : s[m] = x} = {n}
    BY <1>1, <2>1
  <2>3. QED
    BY <2>2, FS_Singleton DEF Visits
<1>3. ASSUME Absent(s, x) PROVE Visits(s, x) = 0
  <2>1. {m \in DOMAIN s : s[m] = x} = {}
    BY <1>1, <1>3 DEF Absent
  <2>2. QED
    BY <2>1, FS_EmptySet DEF Visits
<1>4. QED
  BY <1>2, <1>3

LEMMA ConcatOnce ==
  ASSUME NEW T, NEW s \in Seq(T), NEW t \in Seq(T), NEW x
  PROVE  /\ s \o t \in Seq(T)
         /\ Absent(s, x) /\ Absent(t, x) => Absent(s \o t, x)
         /\ Absent(s, x) /\ Once(t, x) => Once(s \o t, x)
         /\ Once(s, x) /\ Absent(t, x) => Once(s \o t, x)
<1>1. /\ s \o t \in Seq(T)
      /\ Len(s) \in Nat /\ Len(t) \in Nat /\ Len(s \o t) = Len(s) + Len(t)
      /\ \A n \in 1 .. Len(s) : (s \o t)[n] = s[n]
      /\ \A n \in 1 .. Len(t) : (s \o t)[Len(s) + n] = t[n]
  OBVIOUS
<1> DEFINE c == s \o t
<1>2. \A n \in 1 .. Len(c) : /\ n \in 1 .. Len(s) \/ n - Len(s) \in 1 .. Len(t)
                             /\ n \in 1 .. Len(s) => c[n] = s[n]
                             /\ n - Len(s) \in 1 .. Len(t) => c[n] = t[n - Len(s)]
  <2>1. \A n \in 1 .. Len(c) : n - Len(s) \in 1 .. Len(t) => Len(s) + (n - Len(s)) = n
    BY <1>1
  <2>2. QED
    BY <1>1, <2>1
<1>3. /\ \A n \in 1 .. Len(s) : n \in 1 .. Len(c)
      /\ \A n \in 1 .. Len(t) : n + Len(s) \in 1 .. Len(c) /\ n + Len(s) - Len(s) = n
  BY <1>1
<1> HIDE DEF c
<1>4. Absent(s, x) /\ Absent(t, x) => Absent(c, x)
  BY <1>2 DEF Absent
<1>5. ASSUME Absent(s, x), Once(t, x) PROVE Once(c, x)
  <2>1. PICK n \in 1 .. Len(t) : t[n] = x /\ \A m \in 1 .. Len(t) : t[m] = x => m = n
    BY <1>5 DEF Once
  <2>2. c[n + Len(s)] = x
    <3>1. n + Len(s) \in 1 .. Len(c) /\ n + Len(s) - Len(s) = n
      BY <1>3
    <3>2. n + Len(s) - Len(s) \in 1 .. Len(t)
      BY <3>1
    <3>3. c[n + Len(s)] = t[n + Len(s) - Len(s)]
      BY <1>2, <3>1, <3>2
    <3>4. QED
      BY <2>1, <3>1, <3>3
  <2>3. ASSUME NEW m \in 1 .. Len(c), c[m] = x PROVE m = n + Len(s)
    <3>1. m \notin 1 .. Len(s)
      BY <1>2, <1>5, <2>3 DEF Absent
    <3>2. m - Len(s) = n
      BY <1>2, <2>1, <2>3, <3>1
    <3>3. QED
      BY <1>1, <3>2
  <2>4. QED
    BY <1>3, <2>2, <2>3 DEF Once
<1>6. ASSUME Once(s, x), Absent(t, x) PROVE Once(c, x)
  <2>1. PICK n \in 1 .. Len(s) : s[n] = x /\ \A m \in 1 .. Len(s) : s[m] = x => m = n
    BY <1>6 DEF Once
  <2>2. c[n] = x
    BY <1>2, <1>3, <2>1
  <2>3. ASSUME NEW m \in 1 .. Len(c), c[m] = x PROVE m = n
    BY <1>2, <1>6, <2>1, <2>3 DEF Absent
  <2>4. QED
    BY <1>3, <2>2, <2>3 DEF Once
<1>7. QED
  BY <1>1, <1>4, <1>5, <1>6 DEF c

LEMMA AppendOnce ==
  ASSUME NEW T, NEW s \in Seq(T), NEW y \in T, NEW x
  PROVE  /\ Append(s, y) \in Seq(T)
         /\ Absent(s, x) /\ x # y => Absent(Append(s, y), x)
         /\ Absent(s, x) /\ x = y => Once(Append(s, y), x)
         /\ Once(s, x) /\ x # y => Once(Append(s, y), x)
<1>1. Append(s, y) = s \o <<y>> /\ <<y>> \in Seq(T)
  OBVIOUS
<1>2. /\ x # y => Absent(<<y>>, x)
      /\ x = y => Once(<<y>>, x)
  BY DEF Absent, Once
<1>3. QED
  BY <1>1, <1>2, ConcatOnce

\* f is the function that FlattenSeq is computed by, as far as b.
Flattening(s, f, b) == f = [i \in 1 .. b |-> IF i = 1 THEN s[i] ELSE f[i - 1] \o s[i]]
Unflattened(s) == {b \in Nat \ {0} : ~ \E f : Flattening(s, f, b)}

LEMMA FlatteningExists == ASSUME NEW s, NEW b \in Nat \ {0} PROVE \E f : Flattening(s, f, b)
<1>1. SUFFICES ASSUME Unflattened(s) # {} PROVE FALSE
  BY DEF Unflattened
<1>2. Unflattened(s) \in SUBSET Nat
  BY DEF Unflattened
<1>3. PICK c \in Unflattened(s) : \A d \in Unflattened(s) : c <= d
  BY <1>1, <1>2, LeastNat
<1>4. c \in Nat \ {0} /\ ~ \E f : Flattening(s, f, c)
  BY DEF Unflattened
<1>5. c # 1
  <2> DEFINE w == [i \in 1 .. 1 |-> s[i]]
  <2>1. w = [i \in 1 .. 1 |-> IF i = 1 THEN s[i] ELSE w[i - 1] \o s[i]]
    OBVIOUS
  <2>2. Flattening(s, w, 1)
    BY <2>1 DEF Flattening
  <2>3. QED
    BY <1>4, <2>2
<1>6. c - 1 \in Nat \ {0} /\ c - 1 \notin Unflattened(s)
  BY <1>3, <1>4, <1>5
<1>7. PICK f : Flattening(s, f, c - 1)
  BY <1>6 DEF Unflattened
<1> DEFINE w == [i \in 1 .. c |-> IF i = c THEN f[c - 1] \o s[c] ELSE f[i]]
<1>8. \A i \in 1 .. c - 1 : f[i] = IF i = 1 THEN s[i] ELSE f[i - 1] \o s[i]
  BY <1>7 DEF Flattening
<1>9. \A i \in 1 .. c : w[i] = IF i = 1 THEN s[i] ELSE w[i - 1] \o s[i]
  BY <1>4, <1>5, <1>8
<1>10. Flattening(s, w, c)
  <2>1. w = [i \in 1 .. c |-> w[i]]
    OBVIOUS
  <2>2. [i \in 1 .. c |-> w[i]] = [i \in 1 .. c |-> IF i = 1 THEN s[i] ELSE w[i - 1] \o s[i]]
    BY <1>9
  <2>3. QED
    BY <2>1, <2>2, Zenon DEF Flattening
<1>11. QED
  BY <1>4, <1>10

FlattenFunction(s) == CHOOSE f : Flattening(s, f, Len(s))

LEMMA FlattenIs ==
  ASSUME NEW s, Len(s) # 0
  PROVE  Seqs!FlattenSeq(s) = FlattenFunction(s)[Len(s)]
BY DEF Seqs!FlattenSeq, FlattenFunction, Flattening

AbsentTo(s, i, x) == \A j \in 1 .. i : Absent(s[j], x)
OnceTo(s, i, x) == \E j \in 1 .. i : /\ Once(s[j], x)
                                     /\ \A k \in 1 .. i : k # j => Absent(s[k], x)

\* An element that is once in one of the sequences, and in none of the others,
\* is once in all of them together.
LEMMA FlattenOnce ==
  ASSUME NEW T, NEW s \in Seq(Seq(T)), NEW x
  PROVE  /\ Seqs!FlattenSeq(s) \in Seq(T)
         /\ AbsentTo(s, Len(s), x) => Absent(Seqs!FlattenSeq(s), x)
         /\ OnceTo(s, Len(s), x) => Once(Seqs!FlattenSeq(s), x)
<1> DEFINE n == Len(s)
           f == FlattenFunction(s)
<1>1. n \in Nat /\ \A i \in 1 .. n : s[i] \in Seq(T)
  OBVIOUS
<1>2. CASE n = 0
  <2>1. Seqs!FlattenSeq(s) = s
    BY <1>2 DEF Seqs!FlattenSeq
  <2>2. s = <<>> /\ s \in Seq(T)
    BY <1>2
  <2>3. Absent(s, x) /\ ~OnceTo(s, n, x)
    BY <1>2 DEF Absent, OnceTo
  <2>4. QED
    BY <2>1, <2>2, <2>3
<1>3. CASE n # 0
  <2> DEFINE Right(i) == /\ f[i] \in Seq(T)
                         /\ AbsentTo(s, i, x) => Absent(f[i], x)
                         /\ OnceTo(s, i, x) => Once(f[i], x)
             wrong == {i \in 1 .. n : ~Right(i)}
  <2>1. Flattening(s, f, n)
    BY <1>1, <1>3, FlatteningExists DEF FlattenFunction
  <2>2. \A i \in 1 .. n : f[i] = IF i = 1 THEN s[i] ELSE f[i - 1] \o s[i]
    BY <2>1 DEF Flattening
  <2> HIDE DEF f
  <2>3. wrong = {}
    <3>1. SUFFICES ASSUME wrong # {} PROVE FALSE
      OBVIOUS
    <3>2. wrong \in SUBSET Nat
      BY <1>1
    <3>3. PICK i \in wrong : \A j \in wrong : i <= j
      BY <3>1, <3>2, LeastNat
    <3>4. i \in 1 .. n /\ ~Right(i)
      OBVIOUS
    <3>5. CASE i = 1
      <4>1. f[i] = s[i]
        BY <2>2, <3>4, <3>5
      <4>2. Right(i)
        BY <1>1, <3>4, <3>5, <4>1 DEF AbsentTo, OnceTo
      <4>3. QED
        BY <3>4, <4>2
    <3>6. CASE i # 1
      <4>1. i - 1 \in 1 .. n /\ ~(i <= i - 1)
        BY <1>1, <3>4, <3>6
      <4>2. Right(i - 1)
        BY <3>3, <4>1
      <4>3. f[i] = f[i - 1] \o s[i] /\ s[i] \in Seq(T)
        BY <1>1, <2>2, <3>4, <3>6
      <4>4. \A j \in 1 .. i : j = i \/ j \in 1 .. i - 1
        BY <1>1, <3>4
      <4>5. \A j \in 1 .. i - 1 : j \in 1 .. i /\ j # i
        BY <1>1, <3>4
      <4>6. i \in 1 .. i
        BY <1>1, <3>4
      <4>7. AbsentTo(s, i, x) => AbsentTo(s, i - 1, x) /\ Absent(s[i], x)
        BY <4>5, <4>6 DEF AbsentTo
      <4>8. OnceTo(s, i, x) => \/ AbsentTo(s, i - 1, x) /\ Once(s[i], x)
                               \/ OnceTo(s, i - 1, x) /\ Absent(s[i], x)
        <5>1. ASSUME NEW j \in 1 .. i, Once(s[j], x),
                     \A k \in 1 .. i : k # j => Absent(s[k], x)
              PROVE  \/ AbsentTo(s, i - 1, x) /\ Once(s[i], x)
                     \/ OnceTo(s, i - 1, x) /\ Absent(s[i], x)
          <6>1. CASE j = i
            BY <4>5, <5>1, <6>1 DEF AbsentTo
          <6>2. CASE j # i
            BY <4>4, <4>5, <4>6, <5>1, <6>2 DEF OnceTo
          <6>3. QED
            BY <6>1, <6>2
        <5>2. QED
          BY <5>1 DEF OnceTo
      <4>9. Right(i)
        <5>1. /\ f[i - 1] \o s[i] \in Seq(T)
              /\ Absent(f[i - 1], x) /\ Absent(s[i], x) => Absent(f[i], x)
              /\ Absent(f[i - 1], x) /\ Once(s[i], x) => Once(f[i], x)
              /\ Once(f[i - 1], x) /\ Absent(s[i], x) => Once(f[i], x)
          BY <4>2, <4>3, ConcatOnce
        <5>2. QED
          BY <4>2, <4>3, <4>7, <4>8, <5>1
      <4>10. QED
        BY <3>4, <4>9
    <3>7. QED
      BY <3>5, <3>6
  <2>4. Right(n)
    BY <1>1, <1>3, <2>3
  <2>5. Seqs!FlattenSeq(s) = f[n]
    BY <1>3, FlattenIs DEF f
  <2>6. QED
    BY <2>4, <2>5
<1>4. QED
  BY <1>2, <1>3

\* f is the function that Chosen is computed by, as far as b.
Choosing(s, U, f, b) ==
  f = [i \in 0 .. b |-> IF i = 0 THEN <<>>
                        ELSE IF s[i] \in U THEN Append(f[i - 1], s[i]) ELSE f[i - 1]]
Unchosen(s, U) == {b \in Nat : ~ \E f : Choosing(s, U, f, b)}

LEMMA ChoosingExists == ASSUME NEW s, NEW U, NEW b \in Nat PROVE \E f : Choosing(s, U, f, b)
<1>1. SUFFICES ASSUME Unchosen(s, U) # {} PROVE FALSE
  BY DEF Unchosen
<1>2. Unchosen(s, U) \in SUBSET Nat
  BY DEF Unchosen
<1>3. PICK c \in Unchosen(s, U) : \A d \in Unchosen(s, U) : c <= d
  BY <1>1, <1>2, LeastNat
<1>4. c \in Nat /\ ~ \E f : Choosing(s, U, f, c)
  BY DEF Unchosen
<1>5. c # 0
  <2>1. Choosing(s, U, [i \in 0 .. 0 |-> <<>>], 0)
    BY DEF Choosing
  <2>2. QED
    BY <1>4, <2>1
<1>6. c - 1 \in Nat /\ c - 1 \notin Unchosen(s, U)
  BY <1>3, <1>4, <1>5
<1>7. PICK f : Choosing(s, U, f, c - 1)
  BY <1>6 DEF Unchosen
<1> DEFINE After(q, i) == IF s[i] \in U THEN Append(q, s[i]) ELSE q
           w == [i \in 0 .. c |-> IF i = c THEN After(f[c - 1], c) ELSE f[i]]
<1>8. \A i \in 0 .. c - 1 : f[i] = IF i = 0 THEN <<>> ELSE After(f[i - 1], i)
  BY <1>7 DEF Choosing
<1>9. \A i \in 0 .. c : w[i] = IF i = 0 THEN <<>> ELSE After(w[i - 1], i)
  <2> HIDE DEF After
  <2>1. QED
    BY <1>4, <1>5, <1>8
<1>10. Choosing(s, U, w, c)
  <2>1. w = [i \in 0 .. c |-> w[i]]
    OBVIOUS
  <2>2. [i \in 0 .. c |-> w[i]] = [i \in 0 .. c |-> IF i = 0 THEN <<>> ELSE After(w[i - 1], i)]
    BY <1>9
  <2>3. QED
    BY <2>1, <2>2, Zenon DEF Choosing
<1>11. QED
  BY <1>4, <1>10

ChosenFunction(s, U) == CHOOSE f : Choosing(s, U, f, Len(s))

LEMMA ChosenIs == ASSUME NEW s, NEW U PROVE Chosen(s, U) = ChosenFunction(s, U)[Len(s)]
BY DEF Chosen, ChosenFunction, Choosing

NotIn(s, i, x) == \A n \in 1 .. i : s[n] # x
OnceIn(s, i, x) == \E n \in 1 .. i : s[n] = x /\ \A m \in 1 .. i : s[m] = x => m = n

\* What is chosen is in the sequence, and as often.
LEMMA ChosenOnce ==
  ASSUME NEW T, NEW s \in Seq(T), NEW U, NEW x
  PROVE  /\ Chosen(s, U) \in Seq(T)
         /\ Absent(s, x) \/ x \notin U => Absent(Chosen(s, U), x)
         /\ Once(s, x) /\ x \in U => Once(Chosen(s, U), x)
<1> DEFINE n == Len(s)
           f == ChosenFunction(s, U)
           Right(i) == /\ f[i] \in Seq(T)
                       /\ NotIn(s, i, x) \/ x \notin U => Absent(f[i], x)
                       /\ OnceIn(s, i, x) /\ x \in U => Once(f[i], x)
           wrong == {i \in 0 .. n : ~Right(i)}
<1>1. n \in Nat /\ \A i \in 1 .. n : s[i] \in T
  OBVIOUS
<1>2. Choosing(s, U, f, n)
  BY <1>1, ChoosingExists DEF ChosenFunction
<1>3. \A i \in 0 .. n : f[i] = IF i = 0 THEN <<>>
                               ELSE IF s[i] \in U THEN Append(f[i - 1], s[i]) ELSE f[i - 1]
  BY <1>2 DEF Choosing
<1> HIDE DEF f
<1>4. wrong = {}
  <2>1. SUFFICES ASSUME wrong # {} PROVE FALSE
    OBVIOUS
  <2>2. wrong \in SUBSET Nat
    BY <1>1
  <2>3. PICK i \in wrong : \A j \in wrong : i <= j
    BY <2>1, <2>2, LeastNat
  <2>4. i \in 0 .. n /\ ~Right(i)
    OBVIOUS
  <2>5. CASE i = 0
    <3>1. f[i] = <<>>
      BY <1>3, <2>4, <2>5
    <3>2. <<>> \in Seq(T) /\ Absent(<<>>, x) /\ ~OnceIn(s, i, x)
      BY <2>5 DEF Absent, OnceIn
    <3>3. QED
      BY <2>4, <3>1, <3>2
  <2>6. CASE i # 0
    <3>1. i - 1 \in 0 .. n /\ ~(i <= i - 1) /\ i \in 1 .. n /\ i \in 1 .. i
      BY <1>1, <2>4, <2>6
    <3>2. Right(i - 1)
      BY <2>3, <3>1
    <3>3. \A j \in 1 .. i - 1 : j \in 1 .. i /\ j # i
      BY <1>1, <2>4
    <3>4. \A j \in 1 .. i : j = i \/ j \in 1 .. i - 1
      BY <1>1, <2>4
    <3>5. NotIn(s, i, x) <=> NotIn(s, i - 1, x) /\ s[i] # x
      BY <3>1, <3>3, <3>4 DEF NotIn
    <3>6. OnceIn(s, i, x) => \/ NotIn(s, i - 1, x) /\ s[i] = x
                             \/ OnceIn(s, i - 1, x) /\ s[i] # x
      <4>1. ASSUME NEW j \in 1 .. i, s[j] = x, \A m \in 1 .. i : s[m] = x => m = j
            PROVE  \/ NotIn(s, i - 1, x) /\ s[i] = x
                   \/ OnceIn(s, i - 1, x) /\ s[i] # x
        <5>1. CASE j = i
          BY <3>3, <4>1, <5>1 DEF NotIn
        <5>2. CASE j # i
          BY <3>1, <3>3, <3>4, <4>1, <5>2 DEF OnceIn
        <5>3. QED
          BY <5>1, <5>2
      <4>2. QED
        BY <4>1 DEF OnceIn
    <3>7. f[i] = IF s[i] \in U THEN Append(f[i - 1], s[i]) ELSE f[i - 1]
      BY <1>3, <2>4, <2>6
    <3>8. s[i] \in T
      BY <1>1, <3>1
    <3>9. CASE s[i] \in U
      <4>1. /\ Append(f[i - 1], s[i]) \in Seq(T)
            /\ Absent(f[i - 1], x) /\ x # s[i] => Absent(f[i], x)
            /\ Absent(f[i - 1], x) /\ x = s[i] => Once(f[i], x)
            /\ Once(f[i - 1], x) /\ x # s[i] => Once(f[i], x)
        BY <3>2, <3>7, <3>8, <3>9, AppendOnce
      <4>2. Right(i)
        BY <3>2, <3>5, <3>6, <3>7, <3>9, <4>1
      <4>3. QED
        BY <2>4, <4>2
    <3>10. CASE s[i] \notin U
      <4>1. Right(i)
        BY <3>2, <3>5, <3>6, <3>7, <3>10
      <4>2. QED
        BY <2>4, <4>1
    <3>11. QED
      BY <3>9, <3>10
  <2>7. QED
    BY <2>5, <2>6
<1>5. Right(n)
  BY <1>1, <1>4
<1>6. Chosen(s, U) = f[n]
  BY ChosenIs DEF f
<1>7. /\ Absent(s, x) => NotIn(s, n, x)
      /\ Once(s, x) => OnceIn(s, n, x)
  BY DEF Absent, Once, NotIn, OnceIn
<1>8. QED
  BY <1>5, <1>6, <1>7

\* What is chosen from the numbers 1 .. n.
LEMMA NumbersChosen ==
  ASSUME NEW n \in Nat, NEW U \in SUBSET (1 .. n)
  PROVE  LET c == Chosen([i \in 1 .. n |-> i], U)
         IN  /\ c \in Seq(1 .. n)
             /\ \A x \in U : Once(c, x)
             /\ \A x : x \notin U => Absent(c, x)
<1> DEFINE s == [i \in 1 .. n |-> i]
<1>1. s \in Seq(1 .. n) /\ Len(s) = n
  OBVIOUS
<1>2. \A x \in U : Once(s, x)
  BY <1>1 DEF Once
<1> HIDE DEF s
<1>3. \A x : /\ Chosen(s, U) \in Seq(1 .. n)
             /\ x \notin U => Absent(Chosen(s, U), x)
             /\ Once(s, x) /\ x \in U => Once(Chosen(s, U), x)
  BY <1>1, ChosenOnce
<1>4. QED
  BY <1>2, <1>3 DEF s

\* Elements that are once or not at all in a sequence are at different places.
LEMMA OnceApart ==
  ASSUME NEW T, NEW s \in Seq(T), \A x : Once(s, x) \/ Absent(s, x)
  PROVE  \A i, j \in 1 .. Len(s) : s[i] = s[j] => i = j
<1>1. ASSUME NEW i \in 1 .. Len(s), NEW j \in 1 .. Len(s), s[i] = s[j]
      PROVE  i = j
  <2>1. Once(s, s[i])
    BY DEF Absent
  <2>2. QED
    BY <1>1, <2>1 DEF Once
<1>2. QED
  BY <1>1

\* A sequence without repetitions is not longer than there are elements.
LEMMA InjectiveLen ==
  ASSUME NEW m \in Nat, NEW s \in Seq(1 .. m), \A i, j \in 1 .. Len(s) : s[i] = s[j] => i = j
  PROVE  Len(s) \in 0 .. m
<1>1. Len(s) \in Nat /\ s \in [1 .. Len(s) -> 1 .. m]
  OBVIOUS
<1>2. s \in Injection(1 .. Len(s), 1 .. m)
  BY <1>1 DEF Injection, IsInjective
<1>3. \A a, b \in Int : /\ IsFiniteSet(a .. b)
                        /\ Cardinality(a .. b) = IF a > b THEN 0 ELSE b - a + 1
  BY FS_Interval
<1>4. /\ IsFiniteSet(1 .. m) /\ Cardinality(1 .. m) = IF 1 > m THEN 0 ELSE m - 1 + 1
      /\ Cardinality(1 .. Len(s)) = IF 1 > Len(s) THEN 0 ELSE Len(s) - 1 + 1
  <2>1. 1 \in Int /\ m \in Int /\ Len(s) \in Int
    BY <1>1
  <2>2. QED
    BY <1>3, <2>1, Zenon
<1>5. Cardinality(1 .. Len(s)) <= Cardinality(1 .. m)
  BY <1>2, <1>4, FS_Injection
<1>6. QED
  BY <1>1, <1>4, <1>5

-----------------------------------------------------------------------------
(* Walks. *)

\* x is in the cell b, once, and in no other.
HeldIn(cells, x, b) ==
  /\ b \in DOMAIN cells /\ Once(cells[b], x)
  /\ \A a \in DOMAIN cells : a # b => Absent(cells[a], x)

OnlyIn(cells, x, b) == \A a \in DOMAIN cells : a # b => Absent(cells[a], x)

\* Cells numbered by integers and a stencil to walk over them.
Layout(T, C, cells, stencil) ==
  C \subseteq Int /\ cells \in [C -> Seq(T)] /\ stencil \in Seq(Int)

\* A walk meets what a cell holds as often as its stencil leads to the cell.
LEMMA WalkMeets ==
  ASSUME NEW T, NEW C, NEW cells, NEW stencil, Layout(T, C, cells, stencil),
         NEW c \in Int, NEW b \in Int, NEW x, OnlyIn(cells, x, b)
  PROVE  /\ Walk(cells, c, stencil) \in Seq(T)
         /\ b \in C /\ Once(cells[b], x) /\ Once(stencil, b - c)
              => Once(Walk(cells, c, stencil), x)
         /\ (b \in C => Absent(cells[b], x)) \/ Absent(stencil, b - c)
              => Absent(Walk(cells, c, stencil), x)
<1> DEFINE n == Len(stencil)
           At(o) == IF c + o \in DOMAIN cells THEN cells[c + o] ELSE <<>>
           s == [j \in DOMAIN stencil |-> At(stencil[j])]
           w == Walk(cells, c, stencil)
<1>1. n \in Nat /\ DOMAIN stencil = 1 .. n /\ \A j \in 1 .. n : stencil[j] \in Int
  BY DEF Layout
<1>2. \A o \in Int : At(o) \in Seq(T)
  BY DEF Layout
<1>3. ASSUME NEW o \in Int
      PROVE  /\ o # b - c => Absent(At(o), x)
             /\ o = b - c /\ b \in C => At(o) = cells[b]
             /\ o = b - c /\ b \notin C => Absent(At(o), x)
  <2>1. Absent(<<>>, x)
    BY DEF Absent
  <2>2. c + (b - c) = b /\ (o # b - c => c + o # b)
    OBVIOUS
  <2>3. QED
    BY <2>1, <2>2 DEF Layout, OnlyIn
<1> HIDE DEF At
<1>4. s \in Seq(Seq(T)) /\ Len(s) = n /\ \A j \in 1 .. n : s[j] = At(stencil[j])
  BY <1>1, <1>2
<1>5. w = Seqs!FlattenSeq(s)
  BY DEF Walk, At
<1> HIDE DEF s, w
<1>6. /\ w \in Seq(T)
      /\ AbsentTo(s, n, x) => Absent(w, x)
      /\ OnceTo(s, n, x) => Once(w, x)
  BY <1>4, <1>5, FlattenOnce
<1>7. ASSUME b \in C, Once(cells[b], x), Once(stencil, b - c) PROVE OnceTo(s, n, x)
  <2>1. PICK j \in 1 .. n : stencil[j] = b - c /\ \A k \in 1 .. n : stencil[k] = b - c => k = j
    BY <1>7 DEF Once
  <2>2. s[j] = cells[b]
    BY <1>1, <1>3, <1>4, <1>7, <2>1
  <2>3. ASSUME NEW k \in 1 .. n, k # j PROVE Absent(s[k], x)
    <3>1. stencil[k] \in Int /\ stencil[k] # b - c
      BY <1>1, <2>1, <2>3
    <3>2. QED
      BY <1>3, <1>4, <3>1
  <2>4. QED
    BY <1>7, <2>2, <2>3 DEF OnceTo
<1>8. ASSUME (b \in C => Absent(cells[b], x)) \/ Absent(stencil, b - c) PROVE AbsentTo(s, n, x)
  <2>1. ASSUME NEW j \in 1 .. n PROVE Absent(s[j], x)
    <3>1. stencil[j] \in Int /\ s[j] = At(stencil[j])
      BY <1>1, <1>4
    <3>2. CASE stencil[j] # b - c
      BY <1>3, <3>1, <3>2
    <3>3. CASE stencil[j] = b - c
      <4>1. b \in C => Absent(cells[b], x)
        BY <1>8, <3>3 DEF Absent
      <4>2. QED
        BY <1>3, <3>1, <3>3, <4>1
    <3>4. QED
      BY <3>2, <3>3
  <2>2. QED
    BY <2>1 DEF AbsentTo
<1>9. QED
  BY <1>6, <1>7, <1>8 DEF w

LEMMA WalkOnce ==
  ASSUME NEW T, NEW C, NEW cells, NEW stencil, Layout(T, C, cells, stencil),
         NEW c \in Int, NEW b \in Int, NEW x, OnlyIn(cells, x, b)
  PROVE  /\ b \in C /\ Once(cells[b], x) /\ Once(stencil, b - c)
              => Visits(Walk(cells, c, stencil), x) = 1
         /\ (b \in C => Absent(cells[b], x)) \/ Absent(stencil, b - c)
              => Visits(Walk(cells, c, stencil), x) = 0
<1> DEFINE w == Walk(cells, c, stencil)
<1>1. /\ w \in Seq(T)
      /\ b \in C /\ Once(cells[b], x) /\ Once(stencil, b - c) => Once(w, x)
      /\ (b \in C => Absent(cells[b], x)) \/ Absent(stencil, b - c) => Absent(w, x)
  BY WalkMeets
<1> HIDE DEF w
<1>2. /\ Once(w, x) => Visits(w, x) = 1
      /\ Absent(w, x) => Visits(w, x) = 0
  BY <1>1, VisitsOf
<1>3. QED
  BY <1>1, <1>2 DEF w

\* The symmetric walk from e, which is in the cell c, visits x if the stencil
\* leads to the cell of x and, in the cell of e itself, if x is not before e.
LEMMA SymWalkOnce ==
  ASSUME NEW T, NEW C, NEW cells, NEW stencil, Layout(T, C, cells, stencil),
         NEW c \in C, NEW e, NEW x, NEW b, HeldIn(cells, x, b)
  PROVE  LET met == Visits(SymWalk(cells, c, stencil, e), x)
         IN  /\ Once(stencil, b - c) /\ (b = c => NotBefore(x, e)) => met = 1
             /\ Absent(stencil, b - c) \/ (b = c /\ ~NotBefore(x, e)) => met = 0
<1> DEFINE U == {f \in Seqs!ToSet(cells[c]) : NotBefore(f, e)}
           own == [cells EXCEPT ![c] = Chosen(cells[c], U)]
<1>1. b \in C /\ b \in Int /\ c \in Int /\ Once(cells[b], x)
      /\ \A a \in C : a # b => Absent(cells[a], x)
  BY DEF HeldIn, Layout
<1>2. SymWalk(cells, c, stencil, e) = Walk(own, c, stencil)
  BY DEF SymWalk
<1>3. cells[c] \in Seq(T)
  BY DEF Layout
<1>4. /\ Chosen(cells[c], U) \in Seq(T)
      /\ Absent(cells[c], x) \/ x \notin U => Absent(Chosen(cells[c], U), x)
      /\ Once(cells[c], x) /\ x \in U => Once(Chosen(cells[c], U), x)
  <2> HIDE DEF U
  <2>1. QED
    BY <1>3, ChosenOnce
<1>5. b = c /\ NotBefore(x, e) => x \in U
  BY <1>1, <1>3 DEF Once, Seqs!ToSet
<1>6. ~NotBefore(x, e) => x \notin U
  OBVIOUS
<1> HIDE DEF U
<1>7. own \in [C -> Seq(T)] /\ own[c] = Chosen(cells[c], U) /\ \A a \in C : a # c => own[a] = cells[a]
  BY <1>4 DEF Layout
<1> HIDE DEF own
<1>8. \A a \in C : a # b => Absent(own[a], x)
  BY <1>1, <1>4, <1>7
<1>9. /\ b \in C /\ Once(own[b], x) /\ Once(stencil, b - c)
            => Visits(Walk(own, c, stencil), x) = 1
      /\ (b \in C => Absent(own[b], x)) \/ Absent(stencil, b - c)
            => Visits(Walk(own, c, stencil), x) = 0
  <2>1. Layout(T, C, own, stencil) /\ OnlyIn(own, x, b)
    BY <1>7, <1>8 DEF Layout, OnlyIn
  <2>2. QED
    BY <1>1, <2>1, WalkOnce
<1>10. /\ (b = c => NotBefore(x, e)) => Once(own[b], x)
       /\ b = c /\ ~NotBefore(x, e) => Absent(own[b], x)
  BY <1>1, <1>4, <1>5, <1>6, <1>7
<1>11. QED
  BY <1>1, <1>2, <1>9, <1>10

-----------------------------------------------------------------------------
(* A dimension of a decomposer. *)

LEMMA Mono ==
  ASSUME NEW u \in Nat, NEW p \in Int, NEW q \in Int, p < q
  PROVE  p * u \in Int /\ q * u \in Int /\ p * u + u <= q * u
<1>1. PICK k \in Nat : q = p + 1 + k
  <2>1. q - p - 1 \in Nat /\ q = p + 1 + (q - p - 1)
    OBVIOUS
  <2>2. QED
    BY <2>1
<1>2. (p + 1 + k) * u = p * u + u + k * u /\ k * u \in Nat /\ p * u \in Int
  OBVIOUS
<1>3. QED
  BY <1>1, <1>2

LEMMA FloorFacts ==
  ASSUME NEW u \in Nat \ {0}, NEW y \in Int
  PROVE  /\ y \div u \in Int /\ (y \div u) * u \in Int /\ y % u \in 0 .. u - 1
         /\ y = (y \div u) * u + (y % u)
OBVIOUS

\* The cell q of sides u, counted from lo, is the one of y.
InCell(y, q, u) == q \in Int /\ q * u <= y /\ y < q * u + u

LEMMA FloorCellIs ==
  ASSUME NEW u \in Nat \ {0}, NEW y \in Int, ~(y < 0 /\ y % u = 0)
  PROVE  InCell(y, FloorCell(y, u), u)
<1>1. FloorCell(y, u) = y \div u
  BY DEF FloorCell
<1>2. /\ y \div u \in Int /\ (y \div u) * u \in Int /\ y % u \in 0 .. u - 1
      /\ y = (y \div u) * u + (y % u)
  BY FloorFacts
<1> DEFINE q == y \div u
           t == q * u
           m == y % u
<1>3. q \in Int /\ t \in Int /\ m \in 0 .. u - 1 /\ y = t + m
  BY <1>2
<1> HIDE DEF m, t
<1>4. t <= y /\ y < t + u
  BY <1>3
<1>5. QED
  BY <1>1, <1>3, <1>4 DEF InCell, t

LEMMA CellOrder ==
  ASSUME NEW u \in Nat \ {0}, NEW y \in Int, NEW q, InCell(y, q, u), NEW p \in Int
  PROVE  /\ p * u <= y => p <= q
         /\ y < p * u => q < p
<1>1. q \in Int /\ q * u \in Int /\ p * u \in Int /\ q * u <= y /\ y < q * u + u
  BY DEF InCell
<1>2. q < p => q * u + u <= p * u
  BY <1>1, Mono
<1>3. p <= q => p * u <= q * u
  <2>1. p < q => p * u + u <= q * u
    BY <1>1, Mono
  <2>2. QED
    BY <1>1, <2>1
<1>4. QED
  BY <1>1, <1>2, <1>3

\* A dimension of a decomposer: n cells of sides u from lo to hi, those from a
\* to before b touch the part of space from ol to oh.
Fits(u, P, lo, hi, n, a, b, ol, oh) ==
  /\ u \in Nat \ {0} /\ P \in Nat \ {0} /\ {n, a, b} \subseteq Nat /\ {lo, hi, ol, oh} \subseteq Int
  /\ a < b /\ b <= n /\ hi = lo + n * u
  /\ a * u <= ol - lo /\ ol - lo < a * u + u
  /\ b * u - u < oh - lo /\ oh - lo <= b * u

LEMMA Place ==
  ASSUME NEW u, NEW P, NEW lo, NEW hi, NEW n, NEW a, NEW b, NEW ol, NEW oh,
         Fits(u, P, lo, hi, n, a, b, ol, oh), NEW x \in Int, NEW q, InCell(x - lo, q, u)
  PROVE  /\ ol - P * u <= x => a - P <= q
         /\ x < oh + P * u => q < b + P
         /\ ol <= x => a <= q
         /\ x < oh => q < b
         /\ x = hi => q = n
         /\ oh <= hi
<1>1. /\ u \in Nat \ {0} /\ P \in Nat \ {0} /\ n \in Nat /\ a \in Nat /\ b \in Nat
      /\ lo \in Int /\ hi \in Int /\ ol \in Int /\ oh \in Int
      /\ a < b /\ b <= n /\ hi = lo + n * u
      /\ a * u <= ol - lo /\ ol - lo < a * u + u
      /\ b * u - u < oh - lo /\ oh - lo <= b * u
  BY DEF Fits
<1>2. q \in Int /\ x - lo \in Int
  BY <1>1 DEF InCell
<1>3. \A p \in Int : /\ p * u <= x - lo => p <= q
                     /\ x - lo < p * u => q < p
  BY <1>1, <1>2, CellOrder
<1>4. /\ (a - P) * u = a * u - P * u /\ (b + P) * u = b * u + P * u
      /\ a * u \in Int /\ P * u \in Int /\ b * u \in Int /\ n * u \in Int
      /\ (n + 1) * u = n * u + u
  BY <1>1
<1>5. ol - P * u <= x => a - P <= q
  <2>1. ol - P * u <= x => (a - P) * u <= x - lo
    BY <1>1, <1>4
  <2>2. a - P \in Int
    BY <1>1
  <2>3. QED
    BY <1>3, <2>1, <2>2
<1>6. x < oh + P * u => q < b + P
  <2>1. x < oh + P * u => x - lo < (b + P) * u
    BY <1>1, <1>4
  <2>2. b + P \in Int
    BY <1>1
  <2>3. QED
    BY <1>3, <2>1, <2>2
<1>7. ol <= x => a <= q
  <2>1. ol <= x => a * u <= x - lo
    BY <1>1, <1>4
  <2>2. QED
    BY <1>1, <1>3, <2>1
<1>8. x < oh => q < b
  <2>1. x < oh => x - lo < b * u
    BY <1>1, <1>4
  <2>2. QED
    BY <1>1, <1>3, <2>1
<1>9. x = hi => q = n
  <2>1. x = hi => n * u <= x - lo /\ x - lo < (n + 1) * u
    BY <1>1, <1>4
  <2>2. n + 1 \in Int
    BY <1>1
  <2>3. x = hi => n <= q /\ q < n + 1
    BY <1>1, <1>3, <2>1, <2>2
  <2>4. QED
    BY <1>1, <1>2, <2>3
<1>10. oh <= hi
  <2>1. b < n => b * u + u <= n * u
    BY <1>1, Mono
  <2>2. b * u <= n * u
    BY <1>1, <1>4, <2>1
  <2>3. QED
    BY <1>1, <1>4, <2>2
<1>11. QED
  BY <1>5, <1>6, <1>7, <1>8, <1>9, <1>10

\* Two coordinates not more than a side apart are in cells not more than one
\* apart.
LEMMA CloseCells ==
  ASSUME NEW u \in Nat \ {0}, NEW y \in Int, NEW z \in Int, NEW q, NEW p,
         InCell(y, q, u), InCell(z, p, u), y - z \in -u .. u
  PROVE  q - p \in -1 .. 1
<1>1. q \in Int /\ p \in Int /\ q * u \in Int /\ p * u \in Int
      /\ q * u <= y /\ y < q * u + u /\ p * u <= z /\ z < p * u + u
  BY DEF InCell
<1>2. (q + 2) * u = q * u + u + u /\ (p + 2) * u = p * u + u + u
  BY <1>1
<1>3. z < (q + 2) * u /\ y < (p + 2) * u
  BY <1>1, <1>2
<1>4. q + 2 \in Int /\ p + 2 \in Int
  BY <1>1
<1>5. p < q + 2 /\ q < p + 2
  BY <1>3, <1>4, CellOrder
<1>6. QED
  BY <1>1, <1>5

\* The dimension i of d, which numbers the cells a to before b of n, with P of
\* padding.
Apt(P, d, own, i, n, a, b) ==
  /\ Fits(d.unit[i], P, d.box.lo[i], d.box.hi[i], n, a, b, own.lo[i], own.hi[i])
  /\ d.gr[i] = n + 2 * P /\ d.gr2[i] = b - a + 2 * P /\ d.shift[i] = a

LEMMA UnitOf ==
  ASSUME NEW w \in Nat \ {0}, NEW n \in Nat \ {0}, w % n = 0
  PROVE  w \div n \in Nat \ {0} /\ w = n * (w \div n)
<1>1. w = (w \div n) * n + (w % n) /\ w \div n \in Int
  BY FloorFacts
<1> DEFINE u == w \div n
<1>2. u \in Int /\ w = u * n
  BY <1>1
<1> HIDE DEF u
<1>3. w = n * u
  BY <1>2
<1>4. ~(u <= 0)
  <2>1. u <= 0 => u = 0 \/ u < 0
    BY <1>2
  <2>2. u < 0 => u * n + n <= 0 * n
    BY <1>2, Mono
  <2>3. QED
    BY <1>2, <2>1, <2>2
<1>5. QED
  BY <1>2, <1>3, <1>4 DEF u

LEMMA DecomposedApt ==
  ASSUME NEW box, NEW div, Even(box, div), NEW pad \in Nat \ {0}, NEW i \in D
  PROVE  Apt(pad, Decomposed(box, div, pad), box, i, div[i], 0, div[i])
<1> DEFINE d == Decomposed(box, div, pad)
           u == d.unit[i]
           lo == box.lo[i]
           hi == box.hi[i]
           n == div[i]
<1>1. /\ lo \in Int /\ hi \in Int /\ lo < hi /\ n \in Nat \ {0} /\ (hi - lo) % n = 0
  BY DEF Even
<1>2. d.box = box /\ d.gr[i] = n + 2 * pad /\ d.gr2[i] = n + 2 * pad /\ d.shift = <<0, 0>>
      /\ u = (hi - lo) \div n
  BY DEF Decomposed
<1>3. <<0, 0>>[i] = 0
  BY DEF D
<1>4. pad \in Nat \ {0}
  OBVIOUS
<1> HIDE DEF d, u, lo, hi, n
<1>5. hi - lo \in Nat \ {0}
  BY <1>1
<1>6. u \in Nat \ {0} /\ hi - lo = n * u
  BY <1>1, <1>2, <1>5, UnitOf
<1>7. /\ 0 * u = 0 /\ n * u \in Int /\ 0 < n /\ n <= n /\ 0 \in Nat /\ n \in Nat
      /\ hi = lo + n * u /\ lo - lo = 0 /\ hi - lo <= n * u /\ n * u - u < hi - lo
      /\ 0 <= lo - lo /\ lo - lo < u /\ n - 0 = n /\ 0 + u = u
  BY <1>1, <1>6
<1>8. Fits(u, pad, lo, hi, n, 0, n, lo, hi)
  BY <1>1, <1>4, <1>6, <1>7 DEF Fits
<1>9. QED
  BY <1>2, <1>3, <1>4, <1>7, <1>8 DEF Apt, d, u, lo, hi, n

LEMMA CeilCellIs ==
  ASSUME NEW u \in Nat \ {0}, NEW y \in Int
  PROVE  CeilCell(y, u) \in Int /\ CeilCell(y, u) * u - u < y /\ y <= CeilCell(y, u) * u
<1> DEFINE q == (-y) \div u
           t == q * u
           m == (-y) % u
<1>1. -y \in Int
  OBVIOUS
<1>2. q \in Int /\ t \in Int /\ m \in 0 .. u - 1 /\ -y = t + m
  BY <1>1, FloorFacts
<1>3. CeilCell(y, u) = -q
  BY DEF CeilCell
<1>4. t = q * u
  OBVIOUS
<1> HIDE DEF q, t, m
<1>5. (-q) * u = -t
  BY <1>2, <1>4
<1>6. y <= -t /\ -t - u < y
  BY <1>2
<1>7. QED
  BY <1>2, <1>3, <1>5, <1>6

LEMMA NestedApt ==
  ASSUME NEW box, NEW div, Even(box, div), NEW pad \in Nat \ {0}, NEW dom, PartOf(dom, box),
         NEW i \in D
  PROVE  LET cd == Decomposed(box, div, pad)
             d == SetCellDecomposer(cd, dom, pad)
         IN  /\ d.box = box /\ d.off = pad /\ d.unit[i] = cd.unit[i]
             /\ \E a, b \in Nat : Apt(pad, d, dom, i, div[i], a, b)
<1> DEFINE cd == Decomposed(box, div, pad)
           n == div[i]
           u == cd.unit[i]
           lo == box.lo[i]
           hi == box.hi[i]
           ol == dom.lo[i]
           oh == dom.hi[i]
           bx == CellUnits(cd, dom)
           a == IF ol = lo THEN 0 ELSE (ol - lo) \div u
           b == IF oh = hi THEN n ELSE CeilCell(oh - lo, u)
           d == SetCellDecomposer(cd, dom, pad)
<1>1. /\ ol \in Int /\ oh \in Int /\ ol < oh /\ lo <= ol /\ oh <= hi
  BY DEF PartOf
<1>2. lo \in Int /\ hi \in Int /\ lo < hi /\ n \in Nat \ {0}
  BY <1>1 DEF Even
<1>3. pad \in Nat \ {0}
  OBVIOUS
<1>4. Apt(pad, cd, box, i, n, 0, n)
  BY DecomposedApt
<1>5. cd.box = box /\ cd.off = pad
  BY DEF Decomposed
<1>6. /\ u \in Nat \ {0} /\ hi = lo + n * u /\ cd.gr[i] = n + 2 * pad
  BY <1>4, <1>5 DEF Apt, Fits
<1>7. bx.lo[i] = a + pad /\ bx.hi[i] = b + pad
  <2>1. bx.lo[i] = CASE ol = lo -> pad
                     [] ol = hi -> cd.gr[i] - pad
                     [] OTHER -> ((ol - lo) \div u) + pad
    BY <1>5 DEF CellUnits
  <2>2. bx.hi[i] = CASE oh = lo -> pad
                     [] oh = hi -> cd.gr[i] - pad
                     [] OTHER -> CeilCell(oh - lo, u) + pad
    BY <1>5 DEF CellUnits
  <2>3. ol # hi /\ oh # lo /\ lo # hi
    BY <1>1, <1>2
  <2>4. bx.lo[i] = a + pad
    <3>1. CASE ol = lo
      BY <1>3, <2>1, <2>3, <3>1
    <3>2. CASE ol # lo
      BY <2>1, <2>3, <3>2
    <3>3. QED
      BY <3>1, <3>2
  <2>5. bx.hi[i] = b + pad
    <3>1. CASE oh = hi
      <4>1. bx.hi[i] = cd.gr[i] - pad
        BY <2>2, <2>3, <3>1
      <4>2. QED
        BY <1>2, <1>3, <1>6, <3>1, <4>1
    <3>2. CASE oh # hi
      BY <2>2, <2>3, <3>2
    <3>3. QED
      BY <3>1, <3>2
  <2>6. QED
    BY <2>4, <2>5
<1>8. /\ d.box = box /\ d.off = pad /\ d.gr[i] = cd.gr[i] - 2 * pad + 2 * pad
      /\ d.gr2[i] = bx.hi[i] - bx.lo[i] + 2 * pad /\ d.shift[i] = bx.lo[i] - pad
      /\ d.unit[i] = (hi - lo) \div (cd.gr[i] - 2 * pad)
  BY <1>5 DEF SetCellDecomposer, Nested, Decomposed
<1>9. u = (hi - lo) \div n
  BY DEF Decomposed
<1> HIDE DEF cd, n, u, lo, hi, ol, oh, bx, d
<1>10. d.gr[i] = n + 2 * pad /\ cd.gr[i] - 2 * pad = n
  BY <1>2, <1>3, <1>6, <1>8
<1>11. a \in Int /\ a * u \in Int /\ a * u <= ol - lo /\ ol - lo < a * u + u
  <2>1. CASE ol = lo
    BY <1>1, <1>2, <1>6, <2>1
  <2>2. CASE ol # lo
    <3> DEFINE q == (ol - lo) \div u
               t == q * u
               m == (ol - lo) % u
    <3>1. q \in Int /\ t \in Int /\ m \in 0 .. u - 1 /\ ol - lo = t + m
      <4>1. \A y \in Int : /\ y \div u \in Int /\ (y \div u) * u \in Int /\ y % u \in 0 .. u - 1
                           /\ y = (y \div u) * u + (y % u)
        BY <1>6, FloorFacts
      <4>2. ol - lo \in Int
        BY <1>1, <1>2
      <4>3. QED
        BY ONLY <4>1, <4>2, Zenon
    <3>2. a = q /\ a * u = t
      BY <2>2
    <3> HIDE DEF q, t, m
    <3>3. QED
      BY <1>6, <3>1, <3>2
  <2>3. QED
    BY <2>1, <2>2
<1>12. b \in Int /\ b * u \in Int /\ b * u - u < oh - lo /\ oh - lo <= b * u
  <2>1. CASE oh = hi
    <3>1. b = n /\ oh - lo = n * u /\ n * u \in Int
      BY <1>2, <1>6, <2>1
    <3>2. QED
      BY <1>2, <1>6, <3>1
  <2>2. CASE oh # hi
    <3>1. b = CeilCell(oh - lo, u) /\ oh - lo \in Int
      BY <1>1, <1>2, <2>2
    <3>2. QED
      <4>1. \A y \in Int : /\ CeilCell(y, u) \in Int
                           /\ CeilCell(y, u) * u - u < y /\ y <= CeilCell(y, u) * u
        BY <1>6, CeilCellIs
      <4>2. /\ CeilCell(oh - lo, u) \in Int
            /\ CeilCell(oh - lo, u) * u - u < oh - lo /\ oh - lo <= CeilCell(oh - lo, u) * u
        BY ONLY <3>1, <4>1, Zenon
      <4>3. QED
        BY <1>6, <3>1, <4>2
  <2>3. QED
    BY <2>1, <2>2
<1> HIDE DEF a, b
<1>13. 0 <= a
  <2>1. a < 0 => a * u + u <= 0 * u
    BY <1>6, <1>11, Mono
  <2>2. 0 * u = 0
    BY <1>6
  <2>3. QED
    BY <1>1, <1>2, <1>6, <1>11, <2>1, <2>2
<1>14. a < b
  <2>1. b < a => b * u + u <= a * u
    BY <1>6, <1>11, <1>12, Mono
  <2>2. b <= a => b * u <= a * u
    BY <1>6, <1>11, <1>12, <2>1
  <2>3. b <= a => oh - lo <= ol - lo
    BY <1>1, <1>2, <1>11, <1>12, <2>2
  <2>4. QED
    BY <1>1, <1>2, <1>11, <1>12, <2>3
<1>15. b <= n
  <2>1. n < b => n * u + u <= b * u
    BY <1>2, <1>6, <1>12, Mono
  <2>2. oh - lo <= n * u /\ n * u \in Int
    BY <1>1, <1>2, <1>6
  <2>3. QED
    BY <1>1, <1>2, <1>6, <1>12, <2>1, <2>2
<1>16. d.unit[i] = u
  BY <1>8, <1>9, <1>10
<1>17. a \in Nat /\ b \in Nat /\ n \in Nat
  BY <1>2, <1>11, <1>12, <1>13, <1>14
<1>18. Fits(u, pad, lo, hi, n, a, b, ol, oh)
  BY <1>1, <1>2, <1>3, <1>6, <1>11, <1>12, <1>14, <1>15, <1>17 DEF Fits
<1>19. d.gr2[i] = b - a + 2 * pad /\ d.shift[i] = a
  BY <1>3, <1>7, <1>8, <1>17
<1>20. d.box.lo[i] = lo /\ d.box.hi[i] = hi
  BY <1>8 DEF lo, hi
<1>21. Apt(pad, d, dom, i, n, a, b)
  BY <1>10, <1>16, <1>18, <1>19, <1>20 DEF Apt, ol, oh
<1>22. /\ d.box = box /\ d.off = pad /\ d.unit[i] = cd.unit[i]
       /\ \E p, q \in Nat : Apt(pad, d, dom, i, div[i], p, q)
  BY <1>8, <1>16, <1>17, <1>21 DEF u, n
<1>23. QED
  BY <1>22 DEF d, cd

-----------------------------------------------------------------------------
(* Numbers of cells. *)

LEMMA LinIdIn ==
  ASSUME NEW g, NEW k, g[1] \in Nat, g[2] \in Nat, k[1] \in 0 .. g[1] - 1, k[2] \in 0 .. g[2] - 1
  PROVE  LinId(g, k) \in 0 .. g[1] * g[2] - 1
<1> DEFINE w == g[1]
           p == k[2]
           h == g[2]
           i == k[1]
<1>1. w \in Nat /\ h \in Nat /\ i \in 0 .. w - 1 /\ p \in 0 .. h - 1
  OBVIOUS
<1>2. LinId(g, k) = i + w * p
  BY DEF LinId
<1> HIDE DEF w, p, h, i
<1>3. p * w + w <= h * w
  BY <1>1, Mono
<1>4. w * p = p * w /\ h * w = w * h /\ p * w \in Nat /\ h * w \in Nat
  BY <1>1
<1>5. i + w * p \in 0 .. w * h - 1
  BY <1>1, <1>3, <1>4
<1>6. QED
  BY <1>2, <1>5 DEF w, h

\* Two steps of less than a row each lead to the same number only if they are
\* the same.
LEMMA StepOne ==
  ASSUME NEW w \in Nat, NEW i \in Int, NEW j \in Int, NEW p \in Int, NEW q \in Int,
         i - j \in -(w - 1) .. w - 1, i + w * p = j + w * q
  PROVE  i = j /\ p = q
<1>1. w * p = p * w /\ w * q = q * w /\ p * w \in Int /\ q * w \in Int
  OBVIOUS
<1>2. p < q => p * w + w <= q * w
  BY Mono
<1>3. q < p => q * w + w <= p * w
  BY Mono
<1>4. p = q
  BY <1>1, <1>2, <1>3
<1>5. QED
  BY <1>1, <1>4

LEMMA NNcFullIs ==
  ASSUME NEW g, g[1] \in Nat
  PROVE  /\ NNcFull(g) \in Seq(Int) /\ Len(NNcFull(g)) = 9
         /\ \A n \in 1 .. 9 : NNcFull(g)[n] = (((n - 1) % 3) - 1) + g[1] * ((n - 1) \div 3 - 1)
<1> DEFINE w == g[1]
<1>1. w \in Nat
  OBVIOUS
<1>2. ASSUME NEW n \in 1 .. 9
      PROVE  /\ LinId(g, CellKey(<<3, 3>>, n - 1)) - LinId(g, <<1, 1>>)
                  = (((n - 1) % 3) - 1) + w * ((n - 1) \div 3 - 1)
             /\ (((n - 1) % 3) - 1) + w * ((n - 1) \div 3 - 1) \in Int
  <2>1. /\ LinId(g, CellKey(<<3, 3>>, n - 1)) = ((n - 1) % 3) + w * ((n - 1) \div 3)
        /\ LinId(g, <<1, 1>>) = 1 + w * 1
    BY DEF LinId, CellKey
  <2> HIDE DEF w
  <2>2. (n - 1) % 3 \in Int /\ (n - 1) \div 3 \in Int
    OBVIOUS
  <2>3. ASSUME NEW i \in Int, NEW j \in Int
        PROVE  /\ (i + w * j) - (1 + w * 1) = (i - 1) + w * (j - 1)
               /\ (i - 1) + w * (j - 1) \in Int
    BY <1>1
  <2>4. QED
    BY <2>1, <2>2, <2>3
<1>3. NNcFull(g) = [n \in 1 .. 9 |-> LinId(g, CellKey(<<3, 3>>, n - 1)) - LinId(g, <<1, 1>>)]
  BY DEF NNcFull
<1>4. \A n \in 1 .. 9 : NNcFull(g)[n] \in Int
  BY <1>2, <1>3
<1>5. NNcFull(g) = [n \in 1 .. 9 |-> NNcFull(g)[n]]
  BY <1>3
<1>6. \A f : f = [n \in 1 .. 9 |-> f[n]] /\ (\A n \in 1 .. 9 : f[n] \in Int)
        => f \in Seq(Int) /\ Len(f) = 9
  OBVIOUS
<1>7. QED
  BY <1>2, <1>3, <1>4, <1>5, <1>6

LEMMA NNcFullOnce ==
  ASSUME NEW g, g[1] \in Nat, g[1] >= 3, NEW i \in -1 .. 1, NEW j \in -1 .. 1
  PROVE  Once(NNcFull(g), i + g[1] * j)
<1> DEFINE s == NNcFull(g)
           w == g[1]
           n == (i + 1) + 3 * (j + 1) + 1
<1>1. /\ Len(s) = 9
      /\ \A m \in 1 .. 9 : s[m] = (((m - 1) % 3) - 1) + w * ((m - 1) \div 3 - 1)
  BY NNcFullIs
<1>2. w \in Nat /\ w >= 3
  OBVIOUS
<1> HIDE DEF s, w
<1>3. n \in 1 .. 9 /\ ((n - 1) % 3) - 1 = i /\ (n - 1) \div 3 - 1 = j
  OBVIOUS
<1>4. s[n] = i + w * j
  BY <1>1, <1>3
<1>5. ASSUME NEW m \in 1 .. 9, s[m] = i + w * j PROVE m = n
  <2>1. PICK k \in Int, l \in Int :
          /\ k = ((m - 1) % 3) - 1 /\ l = (m - 1) \div 3 - 1 /\ m = (k + 1) + 3 * (l + 1) + 1
          /\ k \in -1 .. 1
    <3>1. /\ ((m - 1) % 3) - 1 \in -1 .. 1 /\ (m - 1) \div 3 - 1 \in Int
          /\ m = (((m - 1) % 3) - 1 + 1) + 3 * ((m - 1) \div 3 - 1 + 1) + 1
      OBVIOUS
    <3>2. QED
      BY <3>1
  <2>2. k + w * l = i + w * j
    BY <1>1, <1>5, <2>1
  <2>3. k - i \in -(w - 1) .. w - 1
    BY <1>2, <2>1
  <2>4. k = i /\ l = j
    BY <1>2, <2>1, <2>2, <2>3, StepOne
  <2>5. QED
    BY <2>1, <2>4
<1>6. QED
  BY <1>1, <1>3, <1>4, <1>5 DEF Once, s, w

LEMMA NNcSymOnce ==
  ASSUME NEW g, g[1] \in Nat, g[1] >= 3, NEW i \in -1 .. 1, NEW j \in -1 .. 1
  PROVE  /\ NNcSym(g) \in Seq(Int)
         /\ i + g[1] * j >= 0 => Once(NNcSym(g), i + g[1] * j)
         /\ i + g[1] * j < 0 => Absent(NNcSym(g), i + g[1] * j)
<1>1. i + g[1] * j \in Int
  OBVIOUS
<1>2. NNcFull(g) \in Seq(Int) /\ Once(NNcFull(g), i + g[1] * j)
  BY NNcFullIs, NNcFullOnce
<1>3. /\ NNcSym(g) \in Seq(Int)
      /\ i + g[1] * j \notin Nat => Absent(NNcSym(g), i + g[1] * j)
      /\ i + g[1] * j \in Nat => Once(NNcSym(g), i + g[1] * j)
  <2>1. \A z : /\ NNcSym(g) \in Seq(Int)
               /\ z \notin Nat => Absent(NNcSym(g), z)
               /\ Once(NNcFull(g), z) /\ z \in Nat => Once(NNcSym(g), z)
    BY <1>2, ChosenOnce DEF NNcSym
  <2>2. QED
    BY ONLY <1>2, <2>1, Zenon
<1>4. QED
  BY <1>1, <1>3

-----------------------------------------------------------------------------
(* Stencils of radii. *)

\* The cells as far as w on each side.
Around(w) == {k \in [D -> Int] : \A i \in D : k[i] \in -w[i] .. w[i]}

Radius(d, r) == [i \in D |-> CeilCell(r, d.unit[i])]

LEMMA RadiusOf ==
  ASSUME NEW d, \A i \in D : d.unit[i] \in Nat \ {0}, NEW r \in Nat, NEW i \in D
  PROVE  /\ Radius(d, r)[i] \in Nat /\ r <= Radius(d, r)[i] * d.unit[i]
         /\ \A p \in Int : p * d.unit[i] <= r => p <= Radius(d, r)[i]
         /\ \A p \in Nat : r <= p * d.unit[i] => Radius(d, r)[i] <= p
<1> DEFINE u == d.unit[i]
           w == CeilCell(r, u)
<1>1. u \in Nat \ {0} /\ Radius(d, r)[i] = w
  BY DEF Radius
<1>2. w \in Int /\ w * u - u < r /\ r <= w * u
  BY <1>1, CeilCellIs
<1> HIDE DEF u, w
<1>3. w * u \in Int
  BY <1>1, <1>2
<1>4. w >= 0
  <2>1. w < 0 => w * u + u <= 0 * u
    BY <1>1, <1>2, Mono
  <2>2. 0 * u = 0
    BY <1>1
  <2>3. QED
    BY <1>1, <1>2, <1>3, <2>1, <2>2
<1>5. ASSUME NEW p \in Int, p * u <= r PROVE p <= w
  <2>1. w < p => w * u + u <= p * u
    BY <1>1, <1>2, Mono
  <2>2. p * u \in Int
    BY <1>1
  <2>3. QED
    BY <1>1, <1>2, <1>3, <1>5, <2>1, <2>2
<1>6. ASSUME NEW p \in Nat, r <= p * u PROVE w <= p
  <2>1. p < w => p * u + u <= w * u
    BY <1>1, <1>2, Mono
  <2>2. p * u \in Int
    BY <1>1
  <2>3. QED
    BY <1>1, <1>2, <1>3, <1>6, <2>1, <2>2
<1>7. QED
  BY <1>1, <1>2, <1>4, <1>5, <1>6 DEF u

\* The key of the number m in a grid of n x p cells around the middle.
LEMMA KeyOf ==
  ASSUME NEW v \in Nat, NEW w \in Nat, NEW m \in 0 .. (2 * v + 1) * (2 * w + 1) - 1
  PROVE  /\ (m % (2 * v + 1)) - v \in -v .. v
         /\ m \div (2 * v + 1) - w \in -w .. w
         /\ m = (m % (2 * v + 1)) + (2 * v + 1) * (m \div (2 * v + 1))
<1> DEFINE n == 2 * v + 1
           p == 2 * w + 1
           q == m \div n
           t == q * n
           e == m % n
<1>1. n \in Nat \ {0} /\ p \in Nat \ {0} /\ n = 2 * v + 1 /\ p = 2 * w + 1
  OBVIOUS
<1> HIDE DEF n, p
<1>2. m \in Int /\ m \in 0 .. n * p - 1 /\ n * p \in Nat /\ n * p = p * n
  BY <1>1 DEF n, p
<1>3. q \in Int /\ t \in Int /\ e \in 0 .. n - 1 /\ m = t + e
  BY <1>1, <1>2, FloorFacts
<1>4. t = q * n /\ t = n * q
  BY <1>1, <1>3
<1> HIDE DEF q, t, e
<1>5. q >= 0
  <2>1. q < 0 => q * n + n <= 0 * n
    BY <1>1, <1>3, Mono
  <2>2. 0 * n = 0
    BY <1>1
  <2>3. QED
    BY <1>1, <1>2, <1>3, <1>4, <2>1, <2>2
<1>6. q < p
  <2>1. p < q => p * n + n <= q * n
    BY <1>1, <1>3, Mono
  <2>2. p <= q => p * n <= q * n
    BY <1>1, <1>2, <1>3, <1>4, <2>1
  <2>3. QED
    BY <1>1, <1>2, <1>3, <1>4, <2>2
<1>7. /\ e - v \in -v .. v /\ q - w \in -w .. w /\ m = e + n * q
  BY <1>1, <1>3, <1>4, <1>5, <1>6
<1>8. QED
  BY <1>7 DEF n, q, e

Keys(w) ==
  LET n == [i \in D |-> 2 * w[i] + 1]
  IN  [j \in 1 .. n[1] * n[2] |-> [i \in D |-> CellKey(n, j - 1)[i] - w[i]]]

LEMMA KeysOnce ==
  ASSUME NEW w \in [D -> Nat]
  PROVE  /\ Keys(w) \in Seq(Around(w))
         /\ \A k \in Around(w) : Once(Keys(w), k)
<1> DEFINE n == [i \in D |-> 2 * w[i] + 1]
           v == w[1]
           h == w[2]
           g == 2 * v + 1
           p == 2 * h + 1
           s == Keys(w)
           K(j) == [i \in D |-> CellKey(n, j - 1)[i] - w[i]]
<1>1. 1 \in D /\ 2 \in D /\ \A i \in D : i = 1 \/ i = 2
  BY DEF D
<1>2. v \in Nat /\ h \in Nat /\ n[1] = g /\ n[2] = p
  BY <1>1
<1>3. s = [j \in 1 .. g * p |-> K(j)]
  BY <1>2 DEF Keys
<1>4. \A j : K(j)[1] = ((j - 1) % g) - v /\ K(j)[2] = (j - 1) \div g - h
             /\ K(j) = [i \in D |-> K(j)[i]]
  <2>1. ASSUME NEW j PROVE CellKey(n, j - 1)[1] = (j - 1) % g /\ CellKey(n, j - 1)[2] = (j - 1) \div g
    BY <1>2 DEF CellKey
  <2>2. QED
    BY <1>1, <2>1
<1> HIDE DEF K, s, n
<1>5. g * p \in Nat
  BY <1>2
<1>6. ASSUME NEW j \in 1 .. g * p
      PROVE  /\ K(j) \in Around(w)
             /\ j - 1 = (K(j)[1] + v) + g * (K(j)[2] + h)
  <2>1. j - 1 \in 0 .. (2 * v + 1) * (2 * h + 1) - 1
    BY <1>5
  <2>2. /\ ((j - 1) % g) - v \in -v .. v
        /\ (j - 1) \div g - h \in -h .. h
        /\ j - 1 = ((j - 1) % g) + g * ((j - 1) \div g)
    BY <1>2, <2>1, KeyOf
  <2>3. K(j)[1] \in -v .. v /\ K(j)[2] \in -h .. h
    BY <1>4, <2>2
  <2>4. K(j) \in [D -> Int]
    BY <1>1, <1>2, <1>4, <2>3
  <2>5. K(j) \in Around(w)
    BY <1>1, <2>3, <2>4 DEF Around
  <2>6. K(j)[1] + v = (j - 1) % g /\ K(j)[2] + h = (j - 1) \div g
    <3>1. ASSUME NEW a \in Int, NEW b, a = b - v, b \in Int PROVE a + v = b
      BY <1>2, <3>1
    <3>2. ASSUME NEW a \in Int, NEW b, a = b - h, b \in Int PROVE a + h = b
      BY <1>2, <3>2
    <3>3. (j - 1) % g \in Int /\ (j - 1) \div g \in Int
      BY <1>2
    <3>4. QED
      BY <1>2, <1>4, <2>3, <3>3
  <2>7. QED
    BY <2>2, <2>5, <2>6
<1>7. s \in Seq(Around(w)) /\ Len(s) = g * p /\ \A j \in 1 .. g * p : s[j] = K(j)
  <2> DEFINE t == g * p
             A == Around(w)
  <2>1. t \in Nat /\ s = [j \in 1 .. t |-> K(j)] /\ \A j \in 1 .. t : K(j) \in A
    BY <1>3, <1>5, <1>6
  <2> HIDE DEF t, A
  <2>2. s \in [1 .. t -> A]
    BY <2>1
  <2>3. s \in Seq(A) /\ Len(s) = t
    BY <2>1, <2>2
  <2>4. \A j \in 1 .. t : s[j] = K(j)
    BY <2>1
  <2>5. QED
    BY <2>3, <2>4 DEF t, A
<1>8. ASSUME NEW k \in Around(w) PROVE Once(s, k)
  <2>1. k = [i \in D |-> k[i]] /\ k[1] \in -v .. v /\ k[2] \in -h .. h
    BY <1>1 DEF Around
  <2>2. k[1] + v \in 0 .. g - 1 /\ k[2] + h \in 0 .. p - 1 /\ g \in Nat /\ p \in Nat
    BY <1>2, <2>1
  <2> DEFINE z == (k[1] + v) + g * (k[2] + h)
             j == z + 1
  <2>3. z \in 0 .. g * p - 1
    <3>1. LinId(<<g, p>>, <<k[1] + v, k[2] + h>>) = z
      BY DEF LinId
    <3>2. LinId(<<g, p>>, <<k[1] + v, k[2] + h>>) \in 0 .. g * p - 1
      <4>1. /\ <<g, p>>[1] = g /\ <<g, p>>[2] = p
            /\ <<k[1] + v, k[2] + h>>[1] = k[1] + v /\ <<k[1] + v, k[2] + h>>[2] = k[2] + h
        OBVIOUS
      <4>2. ASSUME NEW a, NEW b, a[1] \in Nat, a[2] \in Nat,
                   b[1] \in 0 .. a[1] - 1, b[2] \in 0 .. a[2] - 1
            PROVE  LinId(a, b) \in 0 .. a[1] * a[2] - 1
        BY <4>2, LinIdIn
      <4> HIDE DEF g, p
      <4>3. QED
        BY <2>2, <4>1, <4>2
    <3>3. QED
      BY <3>1, <3>2
  <2> HIDE DEF z
  <2>4. j \in 1 .. g * p /\ j - 1 = z
    BY <1>5, <2>3
  <2>5. ASSUME NEW m \in 1 .. g * p, m - 1 = z PROVE s[m] = k
    <3>1. K(m)[1] \in -v .. v /\ K(m)[2] \in -h .. h
      BY <1>1, <1>6 DEF Around
    <3>2. (K(m)[1] + v) + g * (K(m)[2] + h) = (k[1] + v) + g * (k[2] + h)
      BY <1>6, <2>5 DEF z
    <3>3. /\ K(m)[1] + v \in Int /\ K(m)[2] + h \in Int /\ k[1] + v \in Int /\ k[2] + h \in Int
          /\ (K(m)[1] + v) - (k[1] + v) \in -(g - 1) .. g - 1
      BY <1>2, <2>1, <3>1
    <3>4. K(m)[1] + v = k[1] + v /\ K(m)[2] + h = k[2] + h
      <4> HIDE DEF g
      <4>1. ASSUME NEW a \in Int, NEW b \in Int, NEW c \in Int, NEW e \in Int,
                   a - b \in -(g - 1) .. g - 1, a + g * c = b + g * e
            PROVE  a = b /\ c = e
        BY <2>2, <4>1, StepOne
      <4> DEFINE a == K(m)[1] + v
                 b == k[1] + v
                 c == K(m)[2] + h
                 e == k[2] + h
      <4>2. /\ a \in Int /\ b \in Int /\ c \in Int /\ e \in Int
            /\ a - b \in -(g - 1) .. g - 1 /\ a + g * c = b + g * e
        BY <3>2, <3>3
      <4> HIDE DEF a, b, c, e
      <4>3. a = b /\ c = e
        BY ONLY <4>1, <4>2
      <4>4. QED
        BY <4>3 DEF a, b, c, e
    <3>5. K(m)[1] = k[1] /\ K(m)[2] = k[2]
      BY <1>2, <2>1, <3>1, <3>4
    <3>6. K(m) = k
      BY <1>1, <1>4, <2>1, <3>5
    <3>7. QED
      BY <1>7, <3>6
  <2>6. ASSUME NEW m \in 1 .. g * p, s[m] = k PROVE m = j
    <3>1. m - 1 = z
      BY <1>6, <1>7, <2>6 DEF z
    <3>2. QED
      BY <1>5, <2>3, <3>1
  <2>7. s[j] = k
    BY <2>4, <2>5
  <2>8. QED
    BY <1>7, <2>4, <2>6, <2>7 DEF Once
<1>9. QED
  BY <1>7, <1>8 DEF s

LEMMA StepAround ==
  ASSUME NEW v \in Nat, NEW g \in Nat, 2 * v + 1 <= g, NEW a \in -v .. v, NEW b \in -v .. v,
         NEW p \in Int, NEW q \in Int, a + g * p = b + g * q
  PROVE  a = b /\ p = q
<1>1. a - b \in -(g - 1) .. g - 1 /\ a \in Int /\ b \in Int
  OBVIOUS
<1>2. QED
  BY <1>1, StepOne

LEMMA KeysApart ==
  ASSUME NEW w \in [D -> Nat], NEW g \in Nat, 2 * w[1] + 1 <= g,
         NEW e \in Around(w), NEW k \in Around(w), e[1] + g * e[2] = k[1] + g * k[2]
  PROVE  e = k
<1> DEFINE v == w[1]
           a == e[1]
           b == k[1]
           p == e[2]
           q == k[2]
<1>1. 1 \in D /\ 2 \in D /\ \A i \in D : i = 1 \/ i = 2
  BY DEF D
<1>2. /\ v \in Nat /\ 2 * v + 1 <= g /\ a \in -v .. v /\ b \in -v .. v /\ p \in Int /\ q \in Int
      /\ a + g * p = b + g * q
  BY <1>1 DEF Around
<1> HIDE DEF v, a, b, p, q
<1>3. a = b /\ p = q
  BY <1>2, StepAround
<1>4. e[1] = k[1] /\ e[2] = k[2]
  BY <1>3 DEF a, b, p, q
<1>5. QED
  BY <1>1, <1>4 DEF Around

LEMMA NNcRadOnce ==
  ASSUME NEW d, \A i \in D : d.unit[i] \in Nat \ {0}, NEW r \in Nat, d.gr[1] \in Nat,
         2 * Radius(d, r)[1] + 1 <= d.gr[1]
  PROVE  \A k \in Around(Radius(d, r)) : CellDistance2(d, k) <= r * r
           => Once(NNcRad(d, r), LinId(d.gr, k))
<1> DEFINE w == Radius(d, r)
           U == {k \in Seqs!ToSet(Keys(w)) : CellDistance2(d, k) <= r * r}
           near == Chosen(Keys(w), U)
           s == NNcRad(d, r)
<1>1. 1 \in D /\ 2 \in D /\ \A i \in D : i = 1 \/ i = 2
  BY DEF D
<1>2. w \in [D -> Nat]
  <2>1. w = [i \in D |-> w[i]]
    BY DEF Radius
  <2>2. \A i \in D : w[i] \in Nat
    BY RadiusOf
  <2> HIDE DEF w
  <2>3. QED
    BY <2>1, <2>2
<1>3. NNcRad(d, r) = [j \in DOMAIN near |-> LinId(d.gr, near[j])]
  BY DEF NNcRad, Within, Keys, Radius
<1>4. Keys(w) \in Seq(Around(w)) /\ \A k \in Around(w) : Once(Keys(w), k)
  BY <1>2, KeysOnce
<1> HIDE DEF w, U, near, s
<1>5. near \in Seq(Around(w)) /\ \A k : Once(Keys(w), k) /\ k \in U => Once(near, k)
  BY <1>4, ChosenOnce DEF near
<1>6. ASSUME NEW k \in Around(w), CellDistance2(d, k) <= r * r PROVE Once(s, LinId(d.gr, k))
  <2>1. Once(Keys(w), k)
    BY <1>4
  <2>2. k \in Seqs!ToSet(Keys(w))
    <3>1. DOMAIN Keys(w) = 1 .. Len(Keys(w))
      BY <1>4
    <3>2. QED
      BY <2>1, <3>1 DEF Once, Seqs!ToSet
  <2>3. Once(near, k)
    BY <1>5, <1>6, <2>1, <2>2 DEF U
  <2>4. PICK j \in 1 .. Len(near) : near[j] = k /\ \A m \in 1 .. Len(near) : near[m] = k => m = j
    BY <2>3 DEF Once
  <2>5. /\ DOMAIN near = 1 .. Len(near) /\ Len(near) \in Nat
        /\ \A m \in 1 .. Len(near) : near[m] \in Around(w)
    BY <1>5
  <2>6. /\ s = [m \in 1 .. Len(near) |-> LinId(d.gr, near[m])]
        /\ Len(s) = Len(near) /\ \A m \in 1 .. Len(near) : s[m] = LinId(d.gr, near[m])
    BY <1>3, <2>5 DEF s
  <2>7. ASSUME NEW m \in 1 .. Len(near), s[m] = LinId(d.gr, k) PROVE m = j
    <3> DEFINE e == near[m]
               g == d.gr[1]
    <3>1. e \in Around(w) /\ LinId(d.gr, e) = LinId(d.gr, k)
      BY <2>5, <2>6, <2>7
    <3>2. e[1] + g * e[2] = k[1] + g * k[2]
      BY <3>1 DEF LinId
    <3>3. w \in [D -> Nat] /\ g \in Nat /\ 2 * w[1] + 1 <= g
      BY <1>2 DEF w
    <3> HIDE DEF e, g
    <3>4. e = k
      BY <3>1, <3>2, <3>3, KeysApart
    <3>5. QED
      BY <2>4, <3>4 DEF e
  <2>8. s[j] = LinId(d.gr, k)
    BY <2>4, <2>6
  <2>9. QED
    BY <2>4, <2>6, <2>7, <2>8 DEF Once
<1>7. QED
  BY <1>6 DEF w, s

LEMMA NNcRadType ==
  ASSUME NEW d, \A i \in D : d.unit[i] \in Nat \ {0}, NEW r \in Nat, d.gr[1] \in Nat
  PROVE  NNcRad(d, r) \in Seq(Int)
<1> DEFINE w == Radius(d, r)
           U == {k \in Seqs!ToSet(Keys(w)) : CellDistance2(d, k) <= r * r}
           near == Chosen(Keys(w), U)
<1>1. w \in [D -> Nat]
  <2>1. w = [i \in D |-> w[i]]
    BY DEF Radius
  <2>2. \A i \in D : w[i] \in Nat
    BY RadiusOf
  <2> HIDE DEF w
  <2>3. QED
    BY <2>1, <2>2
<1>2. NNcRad(d, r) = [j \in DOMAIN near |-> LinId(d.gr, near[j])]
  BY DEF NNcRad, Within, Keys, Radius
<1>3. Keys(w) \in Seq(Around(w))
  BY <1>1, KeysOnce
<1> HIDE DEF w, U
<1>4. near \in Seq(Around(w))
  BY <1>3, ChosenOnce
<1> HIDE DEF near
<1>5. \A k \in Around(w) : LinId(d.gr, k) \in Int
  <2>1. ASSUME NEW k \in Around(w) PROVE LinId(d.gr, k) \in Int
    <3>1. k[1] \in Int /\ k[2] \in Int
      BY DEF Around, D
    <3>2. QED
      BY <3>1 DEF LinId
  <2>2. QED
    BY <2>1
<1>6. QED
  BY <1>2, <1>4, <1>5

LEMMA SquareMono ==
  ASSUME NEW a \in Nat, NEW b \in Nat, a <= b PROVE a * a <= b * b /\ a * a \in Nat
<1>2. a < b => b * a <= b * b
  <2>1. b * a = a * b /\ b * a \in Int /\ b * b \in Int
    OBVIOUS
  <2>2. CASE b = 0
    BY <2>2
  <2>3. CASE b # 0
    <3>1. b \in Nat \ {0}
      BY <2>3
    <3>2. a < b => a * b + b <= b * b
      BY <3>1, Mono
    <3>3. QED
      BY <2>1, <3>1, <3>2
  <2>4. QED
    BY <2>2, <2>3
<1>3. a * a \in Nat /\ b * a \in Nat /\ b * b \in Nat
  OBVIOUS
<1>4. CASE a = 0
  <2>1. a * a = 0
    BY <1>4
  <2>2. QED
    BY <1>3, <2>1
<1>5. CASE a # 0
  <2>1. a < b => a * a + a <= b * a
    BY <1>5, Mono
  <2>2. QED
    BY <1>2, <1>3, <1>5, <2>1
<1>6. QED
  BY <1>4, <1>5

\* The stencil of a radius has the cell itself.
LEMMA StencilHere ==
  ASSUME NEW d, \A i \in D : d.unit[i] \in Nat \ {0}, NEW r \in Nat, d.gr[1] \in Nat,
         2 * Radius(d, r)[1] + 1 <= d.gr[1]
  PROVE  Once(NNcRad(d, r), 0)
<1> DEFINE zero == [i \in D |-> 0]
           w == Radius(d, r)
<1>1. 1 \in D /\ 2 \in D
  BY DEF D
<1>2. \A i \in D : w[i] \in Nat
  BY RadiusOf
<1> HIDE DEF w
<1>3. zero \in Around(w)
  BY <1>2 DEF Around
<1>4. CellDistance2(d, zero) = 0
  <2>1. 0 * d.unit[1] = 0 /\ 0 * d.unit[2] = 0
    BY <1>1
  <2>2. zero[1] = 0 /\ zero[2] = 0
    BY <1>1
  <2>3. QED
    BY <2>1, <2>2 DEF CellDistance2
<1>5. 0 <= r * r
  BY SquareMono
<1>6. LinId(d.gr, zero) = 0
  <2>1. zero[1] = 0 /\ zero[2] = 0 /\ d.gr[1] * 0 = 0
    BY <1>1
  <2>2. QED
    BY <2>1 DEF LinId
<1>7. Once(NNcRad(d, r), LinId(d.gr, zero))
  BY <1>3, <1>4, <1>5, NNcRadOnce DEF w
<1>8. QED
  BY <1>6, <1>7

Abs(x) == IF x < 0 THEN -x ELSE x

LEMMA AbsOf ==
  ASSUME NEW x \in Int PROVE Abs(x) \in Nat /\ x \in -Abs(x) .. Abs(x) /\ Abs(x) * Abs(x) = x * x
<1>1. CASE x < 0
  <2> DEFINE a == -x
  <2>1. a \in Nat /\ Abs(x) = a /\ x = -a
    BY <1>1 DEF Abs
  <2>2. (-a) * (-a) = a * a
    BY <2>1
  <2>3. a * a = x * x
    BY <2>1, <2>2
  <2>4. QED
    BY <2>1, <2>3
<1>2. CASE ~(x < 0)
  <2>1. x \in Nat /\ Abs(x) = x
    BY <1>2 DEF Abs
  <2>2. QED
    BY <2>1
<1>3. QED
  BY <1>1, <1>2

LEMMA LegWithin ==
  ASSUME NEW a \in Nat, NEW s \in Nat, NEW r \in Nat, a * a + s <= r * r
  PROVE  a <= r
<1>1. SUFFICES ASSUME r < a PROVE FALSE
  OBVIOUS
<1>2. r + 1 \in Nat /\ r + 1 <= a
  BY <1>1
<1>3. (r + 1) * (r + 1) <= a * a
  BY <1>2, SquareMono
<1>4. (r + 1) * (r + 1) = r * r + 2 * r + 1 /\ r * r \in Nat /\ a * a \in Nat
  OBVIOUS
<1>5. QED
  BY <1>3, <1>4

\* The whole cells between two that are s apart.
Gap(s) == IF s = 0 THEN 0 ELSE (IF s < 0 THEN -s ELSE s) - 1

=============================================================================
