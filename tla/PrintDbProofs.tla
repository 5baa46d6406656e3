--------------------------- MODULE PrintDbProofs ---------------------------
(***************************************************************************)
(* Proofs about bin/print.rs, for any database and any flags.              *)
(***************************************************************************)
EXTENDS PrintDb, SequenceTheorems, WellFoundedInduction, TLAPS

-----------------------------------------------------------------------------
(* Induction *)

\* A set of numbers that is not empty has a least member.
LEMMA LeastNat ==
  ASSUME NEW T, T \subseteq Nat, T # {}
  PROVE  \E x \in T : \A y \in T : x <= y
<1> DEFINE Less == OpToRel(<, Nat)
<1>1. IsWellFoundedOn(Less, Nat)
  BY NatLessThanWellFounded
<1>2. \A x, y \in Nat : y < x => <<y, x>> \in Less
  BY DEF OpToRel
<1> HIDE DEF Less
<1>3. PICK x \in T : \A y \in T : <<y, x>> \notin Less
  BY <1>1, WFMin
<1>4. ASSUME NEW y \in T PROVE x <= y
  <2>1. x \in Nat /\ y \in Nat
    OBVIOUS
  <2>2. ~(y < x)
    BY <1>2, <1>3, <2>1
  <2> QED BY <2>1, <2>2
<1> QED BY <1>4

\* Induction, with a set for the predicate.
LEMMA NatInductionSet ==
  ASSUME NEW S, 0 \in S, \A n \in Nat : n \in S => n + 1 \in S
  PROVE  Nat \subseteq S
<1> SUFFICES ASSUME Nat \ S # {} PROVE FALSE
  OBVIOUS
<1>1. PICK x \in Nat \ S : \A y \in Nat \ S : x <= y
  BY LeastNat
<1>2. x - 1 \in Nat /\ x - 1 \in S
  BY <1>1
<1> QED BY <1>1, <1>2

-----------------------------------------------------------------------------
(* FlattenSeq *)

\* The equation of the function by which FlattenSeq(ss) is defined.
Flattens(ss, n, f) ==
  f = [i \in 1 .. n |-> IF i = 1 THEN ss[i] ELSE f[i - 1] \o ss[i]]

LEMMA FlattenAt ==
  ASSUME NEW ss, NEW n, NEW f, Flattens(ss, n, f), NEW i \in 1 .. n
  PROVE  f[i] = IF i = 1 THEN ss[i] ELSE f[i - 1] \o ss[i]
<1> DEFINE e(j) == IF j = 1 THEN ss[j] ELSE f[j - 1] \o ss[j]
<1>1. f = [j \in 1 .. n |-> e(j)]
  BY DEF Flattens
<1> HIDE DEF e
<1>2. f[i] = e(i)
  BY <1>1
<1> QED BY <1>2 DEF e

\* The equation has a solution.
LEMMA FlattenExists ==
  ASSUME NEW ss, NEW n \in Nat
  PROVE  \E f : Flattens(ss, n, f)
<1> DEFINE S == {m \in Nat : \E f : Flattens(ss, m, f)}
<1>1. 0 \in S
  <2> DEFINE f == [i \in 1 .. 0 |-> ss[i]]
  <2>1. Flattens(ss, 0, f)
    BY DEF Flattens
  <2> QED BY <2>1
<1>2. ASSUME NEW m \in Nat, m \in S PROVE m + 1 \in S
  <2>1. PICK f : Flattens(ss, m, f)
    BY <1>2
  <2> DEFINE g == [i \in 1 .. m + 1 |->
                     IF i <= m THEN f[i] ELSE IF i = 1 THEN ss[i] ELSE f[m] \o ss[i]]
  <2>2. ASSUME NEW i \in 1 .. m + 1
        PROVE  g[i] = IF i = 1 THEN ss[i] ELSE g[i - 1] \o ss[i]
    <3>1. CASE i <= m
      <4>1. f[i] = IF i = 1 THEN ss[i] ELSE f[i - 1] \o ss[i]
        BY <2>1, <3>1, FlattenAt
      <4>2. g[i] = f[i] /\ (i # 1 => g[i - 1] = f[i - 1])
        BY <3>1
      <4> QED BY <4>1, <4>2
    <3>2. CASE i = m + 1
      BY <3>2
    <3> QED BY <3>1, <3>2
  <2>3. Flattens(ss, m + 1, g)
    BY <2>2 DEF Flattens
  <2> QED BY <2>3
<1> HIDE DEF S
<1>3. Nat \subseteq S
  BY <1>1, <1>2, NatInductionSet
<1> QED BY <1>3 DEF S

Agree(s, t, n) == \A i \in 1 .. n : s[i] = t[i]

\* The solutions for two sequences agree as far as the sequences do.
LEMMA FlattenUnique ==
  ASSUME NEW ss, NEW tt, NEW m \in Nat, NEW n \in Nat, m <= n, Agree(ss, tt, m),
         NEW f, NEW g, Flattens(ss, m, f), Flattens(tt, n, g)
  PROVE  Agree(f, g, m)
<1> DEFINE S == {i \in Nat : i \in 1 .. m => f[i] = g[i]}
<1>1. 0 \in S
  OBVIOUS
<1>2. ASSUME NEW i \in Nat, i \in S PROVE i + 1 \in S
  <2> SUFFICES ASSUME i + 1 \in 1 .. m PROVE f[i + 1] = g[i + 1]
    OBVIOUS
  <2>1. f[i + 1] = IF i = 0 THEN ss[i + 1] ELSE f[i] \o ss[i + 1]
    BY FlattenAt
  <2>2. g[i + 1] = IF i = 0 THEN tt[i + 1] ELSE g[i] \o tt[i + 1]
    BY FlattenAt
  <2> QED BY <1>2, <2>1, <2>2 DEF Agree
<1> HIDE DEF S
<1>3. Nat \subseteq S
  BY <1>1, <1>2, NatInductionSet
<1> QED BY <1>3 DEF S, Agree

LEMMA FlattenSeqIs ==
  ASSUME NEW ss, Len(ss) \in Nat \ {0}
  PROVE  \E f : Flattens(ss, Len(ss), f) /\ FlattenSeq(ss) = f[Len(ss)]
<1> DEFINE f == CHOOSE f : Flattens(ss, Len(ss), f)
<1>1. Flattens(ss, Len(ss), f)
  BY FlattenExists
<1>2. FlattenSeq(ss) = f[Len(ss)]
  BY DEF FlattenSeq, Flattens
<1> QED BY <1>1, <1>2

LEMMA FlattenEmpty == FlattenSeq(<<>>) = <<>>
BY DEF FlattenSeq

LEMMA FlattenType ==
  ASSUME NEW S, NEW ss \in Seq(Seq(S))
  PROVE  FlattenSeq(ss) \in Seq(S)
<1>1. CASE Len(ss) = 0
  <2>1. ss = <<>>
    BY <1>1, EmptySeq
  <2>2. <<>> \in Seq(S)
    BY EmptySeq
  <2> QED BY <2>1, <2>2, FlattenEmpty
<1>2. CASE Len(ss) # 0
  <2>1. PICK f : Flattens(ss, Len(ss), f) /\ FlattenSeq(ss) = f[Len(ss)]
    BY <1>2, FlattenSeqIs
  <2> DEFINE T == {i \in Nat : i \in 1 .. Len(ss) => f[i] \in Seq(S)}
  <2>2. 0 \in T
    OBVIOUS
  <2>3. ASSUME NEW i \in Nat, i \in T PROVE i + 1 \in T
    <3> SUFFICES ASSUME i + 1 \in 1 .. Len(ss) PROVE f[i + 1] \in Seq(S)
      OBVIOUS
    <3>1. f[i + 1] = IF i = 0 THEN ss[i + 1] ELSE f[i] \o ss[i + 1]
      BY <2>1, FlattenAt
    <3>2. ss[i + 1] \in Seq(S) /\ (i # 0 => f[i] \in Seq(S))
      BY <2>3
    <3> QED BY <3>1, <3>2, ConcatProperties
  <2> HIDE DEF T
  <2>4. Nat \subseteq T
    BY <2>2, <2>3, NatInductionSet
  <2> QED BY <1>2, <2>1, <2>4 DEF T
<1> QED BY <1>1, <1>2

\* One more sequence.
LEMMA FlattenStep ==
  ASSUME NEW S, NEW ss \in Seq(Seq(S)), NEW tt \in Seq(Seq(S)),
         Len(tt) = Len(ss) + 1, \A i \in 1 .. Len(ss) : ss[i] = tt[i]
  PROVE  FlattenSeq(tt) = FlattenSeq(ss) \o tt[Len(tt)]
<1>1. PICK g : Flattens(tt, Len(tt), g) /\ FlattenSeq(tt) = g[Len(tt)]
  BY FlattenSeqIs
<1>2. g[Len(tt)] = IF Len(ss) = 0 THEN tt[Len(tt)] ELSE g[Len(ss)] \o tt[Len(tt)]
  BY <1>1, FlattenAt
<1>3. CASE Len(ss) = 0
  <2>1. FlattenSeq(ss) = <<>>
    BY <1>3, FlattenEmpty
  <2>2. tt[Len(tt)] \in Seq(S)
    BY <1>3
  <2>3. <<>> \o tt[Len(tt)] = tt[Len(tt)]
    BY <2>2, ConcatEmptySeq
  <2>4. FlattenSeq(tt) = tt[Len(tt)]
    BY <1>1, <1>2, <1>3
  <2> QED BY <2>1, <2>3, <2>4
<1>4. CASE Len(ss) # 0
  <2>0. Len(ss) \in Nat \ {0}
    BY <1>4
  <2>1. PICK f : Flattens(ss, Len(ss), f) /\ FlattenSeq(ss) = f[Len(ss)]
    BY <2>0, FlattenSeqIs, Zenon
  <2>2. Len(ss) \in Nat /\ Len(tt) \in Nat /\ Len(ss) <= Len(tt)
    OBVIOUS
  <2>3. Agree(f, g, Len(ss))
    <3>1. Agree(ss, tt, Len(ss))
      BY DEF Agree
    <3> QED BY <1>1, <2>1, <2>2, <3>1, FlattenUnique
  <2>4. f[Len(ss)] = g[Len(ss)]
    BY <1>4, <2>2, <2>3 DEF Agree
  <2> QED BY <1>1, <1>2, <1>4, <2>1, <2>4
<1> QED BY <1>3, <1>4

-----------------------------------------------------------------------------
(* Joined *)

LEMMA ConcatType ==
  ASSUME NEW S, NEW s \in Seq(S), NEW t \in Seq(S)
  PROVE  /\ s \o t \in Seq(S) /\ Len(s \o t) = Len(s) + Len(t)
         /\ Len(s) \in Nat /\ Len(t) \in Nat
BY ConcatProperties

\* The members of s \o t, one by one.
LEMMA ConcatFirst ==
  ASSUME NEW S, NEW s \in Seq(S), NEW t \in Seq(S), NEW i \in 1 .. Len(s)
  PROVE  (s \o t)[i] = s[i]
<1>1. Len(s) \in Nat /\ Len(t) \in Nat
  OBVIOUS
<1>2. i \in 1 .. Len(s) + Len(t) /\ i <= Len(s)
  BY <1>1
<1> QED BY <1>2, ConcatProperties

LEMMA ConcatSecond ==
  ASSUME NEW S, NEW s \in Seq(S), NEW t \in Seq(S), NEW i \in 1 .. Len(t),
         NEW j, j = Len(s) + i
  PROVE  (s \o t)[j] = t[i]
<1>1. Len(s) \in Nat /\ Len(t) \in Nat
  OBVIOUS
<1>2. j \in 1 .. Len(s) + Len(t) /\ ~(j <= Len(s)) /\ j - Len(s) = i
  BY <1>1
<1> QED BY <1>2, ConcatProperties

LEMMA PrefixIs ==
  ASSUME NEW S, NEW s \in Seq(S), NEW t \in Seq(S)
  PROVE  IsPrefix(s, t) <=> Len(s) <= Len(t) /\ \A i \in 1 .. Len(s) : s[i] = t[i]
<1>1. SubSeq(s, 1, Len(s)) = s
  BY SubSeqFull
<1>2. ASSUME Len(s) <= Len(t)
      PROVE  /\ SubSeq(t, 1, Len(s)) \in Seq(S)
             /\ Len(SubSeq(t, 1, Len(s))) = Len(s)
             /\ \A i \in 1 .. Len(s) : SubSeq(t, 1, Len(s))[i] = t[i]
  BY <1>2, SubSeqProperties
<1>3. ASSUME Len(s) <= Len(t), \A i \in 1 .. Len(s) : s[i] = t[i]
      PROVE  SubSeq(t, 1, Len(s)) = s
  BY <1>2, <1>3, SeqEqual
<1> QED BY <1>1, <1>2, <1>3 DEF IsPrefix

\* The tokens that Joined puts in.
JoinTokens(A) == {Token("comma")} \cup {Account(x) : x \in A}

\* A position is that of an account or that of a comma.
LEMMA Positions ==
  ASSUME NEW i \in Nat \ {0}
  PROVE  \E k \in Nat \ {0} : i = 2 * k - 1 \/ i = 2 * k
<1> DEFINE k == (i + 1) \div 2
<1>1. k \in Nat \ {0} /\ (i = 2 * k - 1 \/ i = 2 * k)
  OBVIOUS
<1> QED BY <1>1

LEMMA JoinedIs ==
  ASSUME NEW A, NEW s \in Seq(A)
  PROVE  /\ Joined(s) \in Seq(JoinTokens(A))
         /\ Len(Joined(s)) = IF Len(s) = 0 THEN 0 ELSE 2 * Len(s) - 1
         /\ \A i \in 1 .. Len(Joined(s)) :
              Joined(s)[i] = IF i % 2 = 0 THEN Token("comma") ELSE Account(s[(i + 1) \div 2])
<1> DEFINE n == IF s = <<>> THEN 0 ELSE 2 * Len(s) - 1
           e(i) == IF i % 2 = 0 THEN Token("comma") ELSE Account(s[(i + 1) \div 2])
<1>1. n \in Nat /\ Len(s) \in Nat /\ n = IF Len(s) = 0 THEN 0 ELSE 2 * Len(s) - 1
  BY EmptySeq
<1>2. ASSUME NEW i \in 1 .. n PROVE e(i) \in JoinTokens(A)
  <2>1. CASE i % 2 = 0
    BY <2>1 DEF JoinTokens
  <2>2. CASE i % 2 # 0
    <3>1. (i + 1) \div 2 \in 1 .. Len(s)
      BY <1>1
    <3>2. s[(i + 1) \div 2] \in A
      BY <3>1
    <3> QED BY <2>2, <3>2 DEF JoinTokens
  <2> QED BY <2>1, <2>2
<1>3. Joined(s) = [i \in 1 .. n |-> e(i)]
  BY DEF Joined
<1> HIDE DEF n, e
<1>4. Joined(s) \in [1 .. n -> JoinTokens(A)] /\ \A i \in 1 .. n : Joined(s)[i] = e(i)
  BY <1>2, <1>3
<1>5. Joined(s) \in Seq(JoinTokens(A)) /\ Len(Joined(s)) = n
  BY <1>1, <1>4
<1>6. Len(Joined(s)) = IF Len(s) = 0 THEN 0 ELSE 2 * Len(s) - 1
  BY <1>1, <1>5
<1>7. ASSUME NEW i \in 1 .. Len(Joined(s))
      PROVE  Joined(s)[i] = IF i % 2 = 0 THEN Token("comma") ELSE Account(s[(i + 1) \div 2])
  BY <1>4, <1>5 DEF e
<1> QED BY <1>5, <1>6, <1>7

LEMMA JoinedLen ==
  ASSUME NEW A, NEW s \in Seq(A)
  PROVE  /\ Joined(s) \in Seq(JoinTokens(A))
         /\ Len(Joined(s)) = IF Len(s) = 0 THEN 0 ELSE 2 * Len(s) - 1
BY JoinedIs

\* Where the accounts are, and where the commas.
LEMMA JoinedAccount ==
  ASSUME NEW A, NEW s \in Seq(A), NEW k \in 1 .. Len(s)
  PROVE  2 * k - 1 \in 1 .. Len(Joined(s)) /\ Joined(s)[2 * k - 1] = Account(s[k])
<1>1. (2 * k - 1) % 2 # 0 /\ ((2 * k - 1) + 1) \div 2 = k
  OBVIOUS
<1>2. Len(Joined(s)) = 2 * Len(s) - 1
  BY JoinedLen
<1>3. 2 * k - 1 \in 1 .. Len(Joined(s))
  BY <1>2
<1> QED BY <1>1, <1>3, JoinedIs

LEMMA JoinedComma ==
  ASSUME NEW A, NEW s \in Seq(A), NEW k \in 1 .. Len(s) - 1
  PROVE  2 * k \in 1 .. Len(Joined(s)) /\ Joined(s)[2 * k] = Token("comma")
<1>1. (2 * k) % 2 = 0
  OBVIOUS
<1>2. Len(Joined(s)) = 2 * Len(s) - 1
  BY JoinedLen
<1>3. 2 * k \in 1 .. Len(Joined(s))
  BY <1>2
<1> QED BY <1>1, <1>3, JoinedIs

Comma(s) == IF s = <<>> THEN <<>> ELSE <<Token("comma")>>

\* Adding an account adds a comma before it, unless it is the first one.
LEMMA JoinedAppend ==
  ASSUME NEW A, NEW s \in Seq(A), NEW a \in A
  PROVE  Joined(Append(s, a)) = Joined(s) \o (Comma(s) \o <<Account(a)>>)
<1> DEFINE J == JoinTokens(A)
           t == Append(s, a)
           x == Account(a)
           y == Token("comma")
<1>1. /\ t \in Seq(A) /\ Len(t) = Len(s) + 1 /\ Len(s) \in Nat
      /\ \A k \in 1 .. Len(s) : t[k] = s[k]
      /\ t[Len(s) + 1] = a
  BY AppendProperties
<1>2. x \in J /\ y \in J /\ y = Token("comma")
  BY DEF JoinTokens
<1> HIDE DEF J, t, x, y
<1> DEFINE d == Comma(s) \o <<x>>
<1>3. /\ d \in Seq(J)
      /\ Len(s) = 0 => Len(d) = 1 /\ d[1] = x
      /\ Len(s) # 0 => Len(d) = 2 /\ d[1] = y /\ d[2] = x
  <2>1. <<x>> \in Seq(J) /\ Len(<<x>>) = 1 /\ <<x>>[1] = x
    BY <1>2
  <2>2. CASE Len(s) = 0
    <3>1. d = <<x>>
      BY <2>1, <2>2, EmptySeq, ConcatEmptySeq DEF Comma
    <3> QED BY <2>1, <2>2, <3>1
  <2>3. CASE Len(s) # 0
    <3>1. Comma(s) = <<y>>
      BY <1>2, <2>3, EmptySeq DEF Comma
    <3>2. <<y>> \in Seq(J) /\ Len(<<y>>) = 1 /\ <<y>>[1] = y
      BY <1>2
    <3>3. /\ <<y>> \o <<x>> \in Seq(J) /\ Len(<<y>> \o <<x>>) = 2
          /\ (<<y>> \o <<x>>)[1] = y /\ (<<y>> \o <<x>>)[2] = x
      BY <2>1, <3>2, ConcatProperties
    <3> QED BY <2>3, <3>1, <3>3
  <2> QED BY <2>2, <2>3
<1> HIDE DEF d
<1> DEFINE r == Joined(s) \o d
<1>4. Joined(t) \in Seq(J) /\ Len(Joined(t)) = 2 * Len(s) + 1
  <2>1. /\ Joined(t) \in Seq(J)
        /\ Len(Joined(t)) = IF Len(t) = 0 THEN 0 ELSE 2 * Len(t) - 1
    BY <1>1, JoinedLen DEF J
  <2>2. Len(s) \in Nat /\ Len(t) = Len(s) + 1
    BY <1>1
  <2> QED BY <2>1, <2>2
<1>5. /\ Joined(s) \in Seq(J)
      /\ Len(Joined(s)) = IF Len(s) = 0 THEN 0 ELSE 2 * Len(s) - 1
  BY JoinedLen DEF J
<1>6. r \in Seq(J) /\ Len(r) = Len(Joined(s)) + Len(d)
  BY <1>3, <1>5, ConcatType
<1>7. Len(d) = IF Len(s) = 0 THEN 1 ELSE 2
  BY <1>3
<1>8. Len(r) = 2 * Len(s) + 1
  BY <1>1, <1>5, <1>6, <1>7
<1>9. ASSUME NEW i \in 1 .. Len(Joined(s)) PROVE r[i] = Joined(s)[i]
  BY <1>3, <1>5, ConcatFirst
<1>10. ASSUME NEW i \in 1 .. Len(d) PROVE r[Len(Joined(s)) + i] = d[i]
  BY <1>3, <1>5, ConcatSecond
<1> HIDE DEF r
<1>11. ASSUME NEW k \in 1 .. Len(s) + 1 PROVE Joined(t)[2 * k - 1] = r[2 * k - 1]
  <2>1. Joined(t)[2 * k - 1] = Account(t[k])
    BY <1>1, JoinedAccount
  <2>2. CASE k = Len(s) + 1
    <3>1. Len(d) \in 1 .. Len(d) /\ 2 * k - 1 = Len(Joined(s)) + Len(d)
      BY <1>1, <1>5, <1>7, <2>2
    <3>2. r[2 * k - 1] = d[Len(d)]
      BY <1>10, <3>1
    <3>3. d[Len(d)] = Account(a)
      BY <1>3 DEF x
    <3> QED BY <1>1, <2>1, <2>2, <3>2, <3>3
  <2>3. CASE k \in 1 .. Len(s)
    <3>1. 2 * k - 1 \in 1 .. Len(Joined(s)) /\ Joined(s)[2 * k - 1] = Account(s[k])
      BY <2>3, JoinedAccount
    <3>2. t[k] = s[k]
      BY <1>1, <2>3
    <3>3. r[2 * k - 1] = Joined(s)[2 * k - 1]
      BY <1>9, <3>1
    <3> QED BY <2>1, <3>1, <3>2, <3>3
  <2> QED BY <1>1, <2>2, <2>3
<1>12. ASSUME NEW k \in 1 .. Len(s) PROVE Joined(t)[2 * k] = r[2 * k]
  <2>1. Joined(t)[2 * k] = Token("comma")
    BY <1>1, JoinedComma
  <2>2. CASE k = Len(s)
    <3>1. 1 \in 1 .. Len(d) /\ 2 * k = Len(Joined(s)) + 1 /\ Len(s) # 0
      BY <1>1, <1>5, <1>7, <2>2
    <3>2. r[2 * k] = d[1]
      BY <1>10, <3>1
    <3> QED BY <1>3, <2>1, <3>1, <3>2 DEF y
  <2>3. CASE k \in 1 .. Len(s) - 1
    <3>1. 2 * k \in 1 .. Len(Joined(s)) /\ Joined(s)[2 * k] = Token("comma")
      BY <2>3, JoinedComma
    <3>2. r[2 * k] = Joined(s)[2 * k]
      BY <1>9, <3>1
    <3> QED BY <2>1, <3>1, <3>2
  <2> QED BY <1>1, <2>2, <2>3
<1>13. ASSUME NEW i \in 1 .. Len(Joined(t)) PROVE Joined(t)[i] = r[i]
  <2>1. i \in Nat \ {0} /\ i <= 2 * Len(s) + 1
    BY <1>1, <1>4
  <2>2. PICK k \in Nat \ {0} : i = 2 * k - 1 \/ i = 2 * k
    BY <2>1, Positions
  <2>3. CASE i = 2 * k - 1
    <3>1. k \in 1 .. Len(s) + 1
      BY <1>1, <2>1, <2>3
    <3> QED BY <1>11, <2>3, <3>1
  <2>4. CASE i = 2 * k
    <3>1. k \in 1 .. Len(s)
      BY <1>1, <2>1, <2>4
    <3> QED BY <1>12, <2>4, <3>1
  <2> QED BY <2>2, <2>3, <2>4
<1>14. Joined(t) = r
  <2>1. Len(Joined(t)) = Len(r)
    BY <1>4, <1>8
  <2>2. \A i \in 1 .. Len(Joined(t)) : Joined(t)[i] = r[i]
    BY <1>13
  <2> QED BY <1>4, <1>6, <2>1, <2>2, SeqEqual
<1> QED BY <1>14 DEF t, r, d, x

\* The accounts before others are printed like the beginning of all of them.
LEMMA JoinedPrefix ==
  ASSUME NEW A, NEW s \in Seq(A), NEW t \in Seq(A), IsPrefix(s, t)
  PROVE  Len(Joined(s)) <= Len(Joined(t)) /\ Agree(Joined(s), Joined(t), Len(Joined(s)))
<1>1. Len(s) <= Len(t) /\ Agree(s, t, Len(s)) /\ Len(s) \in Nat /\ Len(t) \in Nat
  BY PrefixIs DEF Agree
<1>2. /\ Len(Joined(s)) = IF Len(s) = 0 THEN 0 ELSE 2 * Len(s) - 1
      /\ Len(Joined(t)) = IF Len(t) = 0 THEN 0 ELSE 2 * Len(t) - 1
  BY JoinedLen
<1>3. ASSUME NEW i \in 1 .. Len(Joined(s)) PROVE Joined(s)[i] = Joined(t)[i]
  <2>0. i \in Nat \ {0}
    BY <1>1, <1>2
  <2>1. PICK k \in Nat \ {0} : i = 2 * k - 1 \/ i = 2 * k
    BY <2>0, Positions
  <2>2. CASE i = 2 * k - 1
    <3>1. k \in 1 .. Len(s) /\ k \in 1 .. Len(t)
      BY <1>1, <1>2, <2>2
    <3>2. s[k] = t[k]
      BY <1>1, <3>1 DEF Agree
    <3> QED BY <2>2, <3>1, <3>2, JoinedAccount
  <2>3. CASE i = 2 * k
    <3>1. k \in 1 .. Len(s) - 1 /\ k \in 1 .. Len(t) - 1
      BY <1>1, <1>2, <2>3
    <3> QED BY <2>3, <3>1, JoinedComma
  <2> QED BY <2>1, <2>2, <2>3
<1>4. Len(Joined(s)) <= Len(Joined(t))
  BY <1>1, <1>2
<1> QED BY <1>3, <1>4 DEF Agree

-----------------------------------------------------------------------------
(* The part of the output that is about accounts *)

PartOf(o) ==
  LET i == SelectInSeq(o, IsBegin)
  IN  IF i = 0 THEN <<>> ELSE SubSeq(o, i, Len(o))

\* The first opening of o is at b, or there is none and b is 0.
BeginsAt(o, b) ==
  /\ b \in 0 .. Len(o)
  /\ b # 0 => IsBegin(o[b])
  /\ \A i \in 1 .. Len(o) : IsBegin(o[i]) => b # 0 /\ b <= i

LEMMA BeginsSomewhere ==
  ASSUME NEW S, NEW o \in Seq(S)
  PROVE  BeginsAt(o, SelectInSeq(o, IsBegin))
<1> DEFINE I == {i \in 1 .. Len(o) : IsBegin(o[i])}
           b == SelectInSeq(o, IsBegin)
<1>1. b = IF I # {} THEN Min(I) ELSE 0
  BY DEF SelectInSeq
<1>2. \A i : i \in I <=> i \in 1 .. Len(o) /\ IsBegin(o[i])
  OBVIOUS
<1>3. I \subseteq Nat /\ Len(o) \in Nat
  OBVIOUS
<1> HIDE DEF I, b
<1>4. CASE I = {}
  BY <1>1, <1>2, <1>3, <1>4 DEF BeginsAt, b
<1>5. CASE I # {}
  <2>1. PICK c \in I : \A i \in I : c <= i
    BY <1>3, <1>5, LeastNat
  <2>2. Min(I) \in I /\ \A i \in I : Min(I) <= i
    BY <2>1 DEF Min
  <2>3. b \in I /\ \A i \in I : b <= i
    BY <1>1, <1>5, <2>2
  <2>4. b \in 1 .. Len(o) /\ IsBegin(o[b]) /\ b # 0
    BY <1>2, <1>3, <2>3
  <2>5. \A i \in 1 .. Len(o) : IsBegin(o[i]) => b <= i
    BY <1>2, <2>3
  <2>6. BeginsAt(o, b)
    BY <1>3, <2>4, <2>5 DEF BeginsAt
  <2> QED BY <2>6 DEF b
<1> QED BY <1>4, <1>5

LEMMA BeginsOnce ==
  ASSUME NEW S, NEW o \in Seq(S), NEW b, NEW c, BeginsAt(o, b), BeginsAt(o, c)
  PROVE  b = c
<1>1. b \in 0 .. Len(o) /\ c \in 0 .. Len(o) /\ Len(o) \in Nat
  BY DEF BeginsAt
<1>2. b # 0 => c # 0 /\ c <= b
  BY <1>1 DEF BeginsAt
<1>3. c # 0 => b # 0 /\ b <= c
  BY <1>1 DEF BeginsAt
<1> QED BY <1>1, <1>2, <1>3

LEMMA PartAt ==
  ASSUME NEW S, NEW o \in Seq(S), NEW b, BeginsAt(o, b)
  PROVE  PartOf(o) = IF b = 0 THEN <<>> ELSE SubSeq(o, b, Len(o))
<1>1. BeginsAt(o, SelectInSeq(o, IsBegin))
  BY BeginsSomewhere
<1>2. SelectInSeq(o, IsBegin) = b
  BY <1>1, BeginsOnce
<1> QED BY <1>2 DEF PartOf

LEMMA PartEmpty ==
  ASSUME NEW S, NEW o \in Seq(S), NEW b, BeginsAt(o, b)
  PROVE  PartOf(o) = <<>> <=> b = 0
<1>1. ASSUME b # 0 PROVE SubSeq(o, b, Len(o)) # <<>>
  <2>1. b \in 1 .. Len(o) /\ Len(o) \in Nat
    BY <1>1 DEF BeginsAt
  <2>2. Len(SubSeq(o, b, Len(o))) # 0
    BY <2>1, SubSeqProperties
  <2> QED BY <2>2, EmptySeq
<1> QED BY <1>1, PartAt

\* Once the report has begun, all that is printed belongs to it.
LEMMA PartGrows ==
  ASSUME NEW S, NEW o \in Seq(S), NEW t \in Seq(S), PartOf(o) # <<>>
  PROVE  PartOf(o \o t) = PartOf(o) \o t
<1>1. PICK b : BeginsAt(o, b)
  BY BeginsSomewhere
<1>2. b \in 1 .. Len(o) /\ PartOf(o) = SubSeq(o, b, Len(o))
  <2>1. b # 0
    BY <1>1, PartEmpty
  <2>2. PartOf(o) = SubSeq(o, b, Len(o))
    BY <1>1, <2>1, PartAt
  <2>3. b \in 0 .. Len(o) /\ Len(o) \in Nat
    BY <1>1 DEF BeginsAt
  <2> QED BY <2>1, <2>2, <2>3
<1> DEFINE u == o \o t
<1>3. /\ u \in Seq(S) /\ Len(u) = Len(o) + Len(t)
      /\ Len(o) \in Nat /\ Len(t) \in Nat
  BY ConcatType
<1>4. ASSUME NEW i \in 1 .. Len(o) PROVE u[i] = o[i]
  BY ConcatFirst
<1>5. SubSeq(u, b, Len(o)) = SubSeq(o, b, Len(o))
  <2>1. Len(o) \in 1 .. Len(o)
    BY <1>2, <1>3
  <2> QED BY <1>2, <2>1, SubSeqOfConcat1
<1>6. SubSeq(u, Len(o) + 1, Len(u)) = t
  <2>1. CASE Len(t) = 0
    <3>1. t = <<>>
      BY <2>1, EmptySeq
    <3> QED BY <1>3, <2>1, <3>1, SubSeqEmpty
  <2>2. CASE Len(t) # 0
    <3>1. /\ Len(o) + 1 \in Len(o) + 1 .. Len(o) + Len(t)
          /\ Len(u) \in Len(o) + 1 .. Len(o) + Len(t)
          /\ (Len(o) + 1) - Len(o) = 1 /\ Len(u) - Len(o) = Len(t)
      BY <1>3, <2>2
    <3>2. SubSeq(u, Len(o) + 1, Len(u)) = SubSeq(t, 1, Len(t))
      BY <3>1, SubSeqOfConcat2
    <3> QED BY <3>2, SubSeqFull
  <2> QED BY <2>1, <2>2
<1> HIDE DEF u
<1>7. BeginsAt(u, b)
  <2>1. b \in 0 .. Len(u) /\ b # 0
    BY <1>2, <1>3
  <2>2. IsBegin(u[b])
    BY <1>1, <1>2, <1>4, <2>1 DEF BeginsAt
  <2>3. ASSUME NEW i \in 1 .. Len(u), IsBegin(u[i]) PROVE b <= i
    <3>1. CASE i \in 1 .. Len(o)
      BY <1>1, <1>4, <2>3, <3>1 DEF BeginsAt
    <3>2. CASE i > Len(o)
      BY <1>2, <1>3, <3>2
    <3> QED BY <1>3, <3>1, <3>2
  <2> QED BY <2>1, <2>2, <2>3 DEF BeginsAt
<1>8. PartOf(u) = SubSeq(u, b, Len(u))
  <2>1. b # 0
    BY <1>2
  <2> QED BY <1>3, <1>7, <2>1, PartAt, Zenon
<1>9. SubSeq(u, b, Len(o)) \o SubSeq(u, Len(o) + 1, Len(u)) = SubSeq(u, b, Len(u))
  <2>1. b \in 1 .. Len(u) + 1 /\ Len(o) \in b - 1 .. Len(u) /\ Len(u) \in Len(o) .. Len(u)
    BY <1>2, <1>3
  <2> QED BY <1>3, <2>1, ConcatAdjacentSubSeq
<1> QED BY <1>2, <1>5, <1>6, <1>8, <1>9 DEF u

\* Other reports do not count.
LEMMA PartStays ==
  ASSUME NEW S, NEW o \in Seq(S), NEW t \in Seq(S), PartOf(o) = <<>>,
         \A i \in 1 .. Len(t) : ~IsBegin(t[i])
  PROVE  PartOf(o \o t) = <<>>
<1>1. BeginsAt(o, 0)
  BY BeginsSomewhere, PartEmpty
<1>2. /\ o \o t \in Seq(S) /\ Len(o \o t) = Len(o) + Len(t)
      /\ \A i \in 1 .. Len(o) + Len(t) :
           (o \o t)[i] = IF i <= Len(o) THEN o[i] ELSE t[i - Len(o)]
  BY ConcatProperties
<1>3. BeginsAt(o \o t, 0)
  BY <1>1, <1>2 DEF BeginsAt
<1> QED BY <1>2, <1>3, PartAt

LEMMA PartBegins ==
  ASSUME NEW S, NEW o \in Seq(S), Token("begin") \in S, PartOf(o) = <<>>
  PROVE  PartOf(o \o Opening) = Opening
<1>1. BeginsAt(o, 0)
  BY BeginsSomewhere, PartEmpty
<1>2. Opening \in Seq(S) /\ Len(Opening) = 1 /\ IsBegin(Opening[1])
  BY DEF Opening, IsBegin
<1> DEFINE u == o \o Opening
           n == Len(o) + 1
<1>3. u \in Seq(S) /\ Len(u) = n /\ Len(o) \in Nat
  BY <1>2, ConcatType
<1>4. ASSUME NEW i \in 1 .. Len(o) PROVE ~IsBegin(u[i])
  <2>1. u[i] = o[i]
    BY <1>2, ConcatFirst
  <2> QED BY <1>1, <2>1 DEF BeginsAt
<1>5. IsBegin(u[n])
  <2>1. u[n] = Opening[1]
    <3>1. n \in 1 .. Len(o) + Len(Opening) /\ ~(n <= Len(o)) /\ n - Len(o) = 1
      BY <1>2, <1>3
    <3> HIDE DEF n
    <3> QED BY <1>2, <3>1, ConcatProperties
  <2> QED BY <1>2, <2>1
<1>6. SubSeq(u, n, n) = Opening
  <2>1. n \in Len(o) + 1 .. Len(o) + Len(Opening) /\ n - Len(o) = 1
    BY <1>2, <1>3
  <2>2. SubSeq(u, n, n) = SubSeq(Opening, 1, 1)
    <3>1. SubSeq(u, n, n) = SubSeq(Opening, n - Len(o), n - Len(o))
      <4> HIDE DEF n
      <4> QED BY <1>2, <2>1, SubSeqOfConcat2, Zenon
    <3> QED BY <2>1, <3>1
  <2> QED BY <1>2, <2>2, SubSeqFull
<1>7. n \in Nat \ {0} /\ 1 .. n = (1 .. Len(o)) \cup {n}
  BY <1>3
<1> HIDE DEF u, n
<1>8. BeginsAt(u, n)
  BY <1>3, <1>4, <1>5, <1>7 DEF BeginsAt
<1>9. PartOf(u) = SubSeq(u, n, n)
  BY <1>3, <1>7, <1>8, PartAt
<1> QED BY <1>6, <1>9 DEF u

-----------------------------------------------------------------------------
(* Prefixes *)

LEMMA SeqMono ==
  ASSUME NEW S, NEW T, S \subseteq T, NEW s \in Seq(S)
  PROVE  s \in Seq(T)
OBVIOUS

LEMMA PrefixOfConcat ==
  ASSUME NEW S, NEW s \in Seq(S), NEW r \in Seq(S)
  PROVE  IsPrefix(s, s \o r)
<1>1. s \o r \in Seq(S) /\ Len(s) <= Len(s \o r)
  BY ConcatType
<1>2. \A i \in 1 .. Len(s) : s[i] = (s \o r)[i]
  BY ConcatFirst
<1> QED BY <1>1, <1>2, PrefixIs

LEMMA PrefixReflexive ==
  ASSUME NEW S, NEW s \in Seq(S)
  PROVE  IsPrefix(s, s)
BY DEF IsPrefix

LEMMA PrefixRest ==
  ASSUME NEW S, NEW s \in Seq(S), NEW t \in Seq(S), IsPrefix(s, t)
  PROVE  \E r \in Seq(S) : t = s \o r
<1>1. Len(s) <= Len(t) /\ Len(s) \in Nat /\ Len(t) \in Nat /\ s = SubSeq(t, 1, Len(s))
  BY SubSeqFull DEF IsPrefix
<1> DEFINE r == SubSeq(t, Len(s) + 1, Len(t))
<1>2. r \in Seq(S)
  BY <1>1, SubSeqProperties
<1>3. SubSeq(t, 1, Len(s)) \o r = SubSeq(t, 1, Len(t))
  <2>1. 1 \in 1 .. Len(t) + 1 /\ Len(s) \in 1 - 1 .. Len(t) /\ Len(t) \in Len(s) .. Len(t)
    BY <1>1
  <2> QED BY <2>1, ConcatAdjacentSubSeq
<1> HIDE DEF r
<1>4. t = s \o r
  BY <1>1, <1>3, SubSeqFull
<1> QED BY <1>2, <1>4

LEMMA PrefixTransitive ==
  ASSUME NEW S, NEW s \in Seq(S), NEW t \in Seq(S), NEW u \in Seq(S),
         IsPrefix(s, t), IsPrefix(t, u)
  PROVE  IsPrefix(s, u)
<1>1. PICK q \in Seq(S) : t = s \o q
  BY PrefixRest
<1>2. PICK r \in Seq(S) : u = t \o r
  BY PrefixRest
<1>3. u = s \o (q \o r)
  BY <1>1, <1>2, ConcatAssociative
<1>4. q \o r \in Seq(S)
  BY ConcatType
<1> QED BY <1>3, <1>4, PrefixOfConcat

LEMMA PrefixInside ==
  ASSUME NEW S, NEW o \in Seq(S), NEW s \in Seq(S), NEW t \in Seq(S), NEW e \in Seq(S),
         IsPrefix(s, t)
  PROVE  IsPrefix(o \o s, (o \o t) \o e)
<1>1. PICK r \in Seq(S) : t = s \o r
  BY PrefixRest
<1>2. o \o s \in Seq(S) /\ r \o e \in Seq(S)
  BY ConcatType
<1>3. o \o t = (o \o s) \o r
  <2>1. (o \o s) \o r = o \o (s \o r)
    OBVIOUS
  <2> QED BY <1>1, <2>1
<1> DEFINE u == o \o s
<1> HIDE DEF u
<1>4. (u \o r) \o e = u \o (r \o e)
  <2>1. u \in Seq(S)
    BY <1>2 DEF u
  <2> QED BY <2>1
<1>5. IsPrefix(u, u \o (r \o e))
  BY <1>2, PrefixOfConcat DEF u
<1> QED BY <1>3, <1>4, <1>5 DEF u

\* What is left of a sequence when its end is taken away.
LEMMA ConcatFront ==
  ASSUME NEW S, NEW p \in Seq(S), NEW q \in Seq(S)
  PROVE  SubSeq(p \o q, 1, Len(p \o q) - Len(q)) = p
<1>1. Len(p \o q) - Len(q) = Len(p) /\ Len(p) \in Nat
  BY ConcatType
<1>2. CASE Len(p) = 0
  BY <1>1, <1>2, EmptySeq, SubSeqEmpty
<1>3. CASE Len(p) # 0
  <2>1. 1 \in 1 .. Len(p) /\ Len(p) \in 1 .. Len(p)
    BY <1>1, <1>3
  <2>2. SubSeq(p \o q, 1, Len(p)) = SubSeq(p, 1, Len(p))
    BY <2>1, SubSeqOfConcat1
  <2> QED BY <1>1, <2>2, SubSeqFull
<1> QED BY <1>2, <1>3

LEMMA JoinedEmpty == Joined(<<>>) = <<>>
BY DEF Joined

-----------------------------------------------------------------------------
(* The accounts of the database *)

LEMMA DbTypes ==
  ASSUME db \in Databases
  PROVE  /\ db.top_blocks \in Seq(DOMAIN db.accounts) /\ db.last_mc_id \in DOMAIN db.accounts
         /\ \A b \in DOMAIN db.accounts : db.accounts[b] \in Seq(Ids)
<1>1. ASSUME NEW b \in DOMAIN db.accounts PROVE db.accounts[b] \in Seq(Ids)
  <2>1. db.accounts[b] \in Seq(Range(db.accounts[b]))
    BY PrintAssumption
  <2>2. Range(db.accounts[b]) \subseteq Ids
    BY DEF Ids
  <2> QED BY <2>1, <2>2, SeqMono
<1> QED BY <1>1, PrintAssumption

LEMMA BlocksType ==
  ASSUME db \in Databases
  PROVE  Blocks \in Seq(DOMAIN db.accounts) /\ Len(Blocks) \in Nat \ {0}
<1>1. db.top_blocks \in Seq(DOMAIN db.accounts) /\ db.last_mc_id \in DOMAIN db.accounts
  BY DbTypes
<1>2. Blocks \in Seq(DOMAIN db.accounts) /\ Len(Blocks) = Len(db.top_blocks) + 1
  <2> DEFINE D == DOMAIN db.accounts
             t == db.top_blocks
             m == db.last_mc_id
  <2>1. t \in Seq(D) /\ m \in D /\ Blocks = Append(t, m)
    BY <1>1 DEF Blocks
  <2> HIDE DEF D, t, m
  <2>2. Append(t, m) \in Seq(D) /\ Len(Append(t, m)) = Len(t) + 1
    BY <2>1, AppendProperties
  <2> QED BY <2>1, <2>2 DEF D, t
<1> QED BY <1>1, <1>2

Slices(n) == [i \in 1 .. n |-> db.accounts[Blocks[i]]]

LEMMA SlicesType ==
  ASSUME db \in Databases, NEW n \in 0 .. Len(Blocks)
  PROVE  /\ Slices(n) \in Seq(Seq(Ids)) /\ Len(Slices(n)) = n
         /\ \A i \in 1 .. n : Slices(n)[i] = db.accounts[Blocks[i]]
<1>1. ASSUME NEW i \in 1 .. n PROVE db.accounts[Blocks[i]] \in Seq(Ids)
  <2>1. i \in 1 .. Len(Blocks)
    BY BlocksType
  <2>2. Blocks[i] \in DOMAIN db.accounts
    BY <2>1, BlocksType
  <2> QED BY <2>2, DbTypes
<1>2. n \in Nat
  BY BlocksType
<1>3. Slices(n) \in [1 .. n -> Seq(Ids)] /\ \A i \in 1 .. n : Slices(n)[i] = db.accounts[Blocks[i]]
  BY <1>1 DEF Slices
<1> QED BY <1>2, <1>3

LEMMA AccountsOfType ==
  ASSUME db \in Databases, NEW n \in 0 .. Len(Blocks)
  PROVE  AccountsOf(n) \in Seq(Ids)
<1>1. AccountsOf(n) = FlattenSeq(Slices(n))
  BY DEF AccountsOf, Slices
<1> QED BY <1>1, SlicesType, FlattenType

LEMMA AccountsOfNone == AccountsOf(0) = <<>>
<1>1. [i \in 1 .. 0 |-> db.accounts[Blocks[i]]] = <<>>
  OBVIOUS
<1> QED BY <1>1, FlattenEmpty DEF AccountsOf

LEMMA AccountsOfNext ==
  ASSUME db \in Databases, NEW n \in 0 .. Len(Blocks), n # Len(Blocks)
  PROVE  AccountsOf(n + 1) = AccountsOf(n) \o db.accounts[Blocks[n + 1]]
<1>1. n \in Nat /\ n + 1 \in 0 .. Len(Blocks)
  BY BlocksType
<1> DEFINE ss == Slices(n)
           tt == Slices(n + 1)
<1>2. /\ ss \in Seq(Seq(Ids)) /\ Len(ss) = n
      /\ \A i \in 1 .. n : ss[i] = db.accounts[Blocks[i]]
  BY SlicesType
<1>3. /\ tt \in Seq(Seq(Ids)) /\ Len(tt) = n + 1
      /\ \A i \in 1 .. n + 1 : tt[i] = db.accounts[Blocks[i]]
  BY <1>1, SlicesType
<1>4. AccountsOf(n) = FlattenSeq(ss) /\ AccountsOf(n + 1) = FlattenSeq(tt)
  BY DEF AccountsOf, Slices
<1> HIDE DEF ss, tt
<1>5. Len(tt) = Len(ss) + 1 /\ \A i \in 1 .. Len(ss) : ss[i] = tt[i]
  <2>1. ASSUME NEW i \in 1 .. n PROVE ss[i] = tt[i]
    <3>1. i \in 1 .. n + 1
      BY <1>1
    <3> QED BY <1>2, <1>3, <3>1
  <2> QED BY <1>2, <1>3, <2>1
<1>6. FlattenSeq(tt) = FlattenSeq(ss) \o tt[Len(tt)]
  BY <1>2, <1>3, <1>5, FlattenStep
<1>7. tt[Len(tt)] = db.accounts[Blocks[n + 1]]
  <2>1. n + 1 \in 1 .. n + 1
    BY <1>1
  <2> QED BY <1>3, <2>1
<1> QED BY <1>4, <1>6, <1>7

\* The accounts of the first blocks come first.
LEMMA AccountsOfPrefix ==
  ASSUME db \in Databases, NEW n \in 0 .. Len(Blocks)
  PROVE  IsPrefix(AccountsOf(n), AccountsOf(Len(Blocks)))
<1> DEFINE N == Len(Blocks)
           S == {k \in Nat : n + k <= N => IsPrefix(AccountsOf(n), AccountsOf(n + k))}
<1>1. N \in Nat /\ n \in Nat /\ n <= N
  BY BlocksType
<1>2. 0 \in S
  <2>1. AccountsOf(n) \in Seq(Ids)
    BY AccountsOfType
  <2>2. IsPrefix(AccountsOf(n), AccountsOf(n))
    BY <2>1, PrefixReflexive
  <2>3. n + 0 = n
    BY <1>1
  <2> QED BY <2>2, <2>3
<1>3. ASSUME NEW k \in Nat, k \in S PROVE k + 1 \in S
  <2> SUFFICES ASSUME n + (k + 1) <= N
               PROVE  IsPrefix(AccountsOf(n), AccountsOf(n + (k + 1)))
    OBVIOUS
  <2> DEFINE m == n + k
  <2>1. m \in 0 .. N /\ m # N /\ m + 1 \in 0 .. N /\ n + (k + 1) = m + 1
    BY <1>1
  <2>2. IsPrefix(AccountsOf(n), AccountsOf(m))
    BY <1>1, <1>3
  <2> HIDE DEF m
  <2>3. AccountsOf(m + 1) = AccountsOf(m) \o db.accounts[Blocks[m + 1]]
    BY <2>1, AccountsOfNext
  <2>4. /\ AccountsOf(n) \in Seq(Ids) /\ AccountsOf(m) \in Seq(Ids)
        /\ AccountsOf(m + 1) \in Seq(Ids)
    BY <2>1, AccountsOfType
  <2>5. db.accounts[Blocks[m + 1]] \in Seq(Ids)
    <3>1. m + 1 \in 1 .. Len(Blocks)
      BY <1>1, <2>1
    <3>2. Blocks[m + 1] \in DOMAIN db.accounts
      BY <3>1, BlocksType
    <3> QED BY <3>2, DbTypes
  <2>6. IsPrefix(AccountsOf(m), AccountsOf(m + 1))
    BY <2>3, <2>4, <2>5, PrefixOfConcat
  <2>7. IsPrefix(AccountsOf(n), AccountsOf(m + 1))
    BY <2>2, <2>4, <2>6, PrefixTransitive
  <2> QED BY <2>1, <2>7
<1> HIDE DEF S
<1>4. Nat \subseteq S
  BY <1>2, <1>3, NatInductionSet
<1>5. N - n \in Nat /\ n + (N - n) = N /\ N <= N
  BY <1>1
<1> QED BY <1>4, <1>5 DEF S

-----------------------------------------------------------------------------
(* The report *)

LEMMA TokensAre ==
  /\ \A t \in {"block", "state", "loading", "shards", "begin", "comma", "end"} : Token(t) \in Tokens
  /\ JoinTokens(Ids) \subseteq Tokens
BY DEF Tokens, JoinTokens

LEMMA OneToken ==
  ASSUME NEW t \in {"block", "state", "loading", "shards", "begin", "comma", "end"}
  PROVE  <<Token(t)>> \in Seq(Tokens)
<1>1. Token(t) \in Tokens
  BY TokensAre
<1> DEFINE x == Token(t)
<1> HIDE DEF x
<1>2. <<x>> \in Seq(Tokens)
  BY <1>1 DEF x
<1> QED BY <1>2 DEF x

LEMMA JoinedType ==
  ASSUME NEW p \in Seq(Ids)
  PROVE  Joined(p) \in Seq(Tokens) /\ Opening \o Joined(p) \in Seq(Tokens)
<1>1. Joined(p) \in Seq(Tokens)
  BY JoinedLen, TokensAre, SeqMono
<1>2. Opening \in Seq(Tokens)
  BY OneToken DEF Opening
<1> QED BY <1>1, <1>2, ConcatType

LEMMA ExpectedIs ==
  ASSUME db \in Databases
  PROVE  /\ AccountsOf(Len(Blocks)) \in Seq(Ids)
         /\ Expected = (Opening \o Joined(AccountsOf(Len(Blocks)))) \o <<Token("end")>>
         /\ Expected \in Seq(Tokens)
<1>1. Len(Blocks) \in 0 .. Len(Blocks)
  BY BlocksType
<1>2. AccountsOf(Len(Blocks)) \in Seq(Ids)
  BY <1>1, AccountsOfType
<1>3. Opening \o Joined(AccountsOf(Len(Blocks))) \in Seq(Tokens)
  BY <1>2, JoinedType
<1>4. <<Token("end")>> \in Seq(Tokens)
  BY OneToken
<1>5. Expected = (Opening \o Joined(AccountsOf(Len(Blocks)))) \o <<Token("end")>>
  BY DEF Expected
<1> QED BY <1>2, <1>3, <1>4, <1>5, ConcatType

\* The report of the first accounts is the beginning of the report of all.
LEMMA ReportPrefix ==
  ASSUME db \in Databases, NEW n \in 0 .. Len(Blocks), NEW p \in Seq(Ids), NEW q \in Seq(Ids),
         p \o q = AccountsOf(n)
  PROVE  IsPrefix(Opening \o Joined(p), Expected)
<1> DEFINE all == AccountsOf(Len(Blocks))
           e == <<Token("end")>>
<1>1. all \in Seq(Ids) /\ Expected = (Opening \o Joined(all)) \o e
  BY ExpectedIs
<1>2. Opening \in Seq(Tokens) /\ e \in Seq(Tokens)
  BY OneToken DEF Opening
<1> HIDE DEF all, e
<1>3. Joined(p) \in Seq(Tokens) /\ Joined(all) \in Seq(Tokens)
  BY <1>1, JoinedType
<1>4. IsPrefix(p, all)
  <2>1. IsPrefix(p, p \o q)
    BY PrefixOfConcat
  <2>2. IsPrefix(p \o q, all)
    BY AccountsOfPrefix DEF all
  <2>3. p \o q \in Seq(Ids)
    BY ConcatType
  <2> QED BY <1>1, <2>1, <2>2, <2>3, PrefixTransitive
<1>5. IsPrefix(Joined(p), Joined(all))
  <2>1. Len(Joined(p)) <= Len(Joined(all)) /\ Agree(Joined(p), Joined(all), Len(Joined(p)))
    BY <1>1, <1>4, JoinedPrefix
  <2> QED BY <1>3, <2>1, PrefixIs DEF Agree
<1> DEFINE s == Joined(p)
           t == Joined(all)
<1>6. s \in Seq(Tokens) /\ t \in Seq(Tokens) /\ IsPrefix(s, t)
  BY <1>3, <1>5
<1>7. Expected = (Opening \o t) \o e
  BY <1>1
<1> HIDE DEF s, t
<1>8. IsPrefix(Opening \o s, Expected)
  BY <1>2, <1>6, <1>7, PrefixInside
<1> QED BY <1>8 DEF s

LEMMA NothingPrefix ==
  ASSUME db \in Databases
  PROVE  IsPrefix(<<>>, Expected) /\ IsPrefix(Opening, Expected)
<1>1. IsPrefix(<<>>, Expected)
  <2>1. <<>> \in Seq(Tokens) /\ Expected \in Seq(Tokens)
    BY ExpectedIs, EmptySeq
  <2>2. <<>> \o Expected = Expected
    BY <2>1, ConcatEmptySeq
  <2> QED BY <2>1, <2>2, PrefixOfConcat
<1>2. IsPrefix(Opening, Expected)
  <2>1. <<>> \in Seq(Ids) /\ <<>> \o <<>> = AccountsOf(0)
    BY AccountsOfNone, EmptySeq, ConcatEmptySeq
  <2>2. Opening \o Joined(<<>>) = Opening
    BY JoinedEmpty, OneToken, ConcatEmptySeq DEF Opening
  <2>3. 0 \in 0 .. Len(Blocks)
    BY BlocksType
  <2> QED BY <2>1, <2>2, <2>3, ReportPrefix
<1> QED BY <1>1, <1>2

LEMMA PartIs == AccountsPart = PartOf(out) /\ AccountsPart' = PartOf(out')
BY DEF AccountsPart, PartOf

\* The operators that depend on the database alone.
LEMMA DbSame ==
  ASSUME UNCHANGED db
  PROVE  Blocks' = Blocks /\ Ids' = Ids /\ Tokens' = Tokens /\ Expected' = Expected
<1>1. Blocks' = Blocks
  BY DEF Blocks
<1>2. Ids' = Ids
  BY DEF Ids
<1>3. Tokens' = Tokens
  BY <1>2 DEF Tokens
<1>4. Expected' = Expected
  BY <1>1 DEF Expected, AccountsOf
<1> QED BY <1>1, <1>2, <1>3, <1>4

LEMMA AccountsOfSame ==
  ASSUME UNCHANGED db, NEW n, Loaded' = n
  PROVE  AccountsOf(Loaded)' = AccountsOf(n)
<1>1. Blocks' = Blocks
  BY DbSame
<1> QED BY <1>1 DEF AccountsOf

\* What Report says, with names for the number of blocks and what was printed.
ReportAt(n, p) ==
  /\ n \in 0 .. Len(Blocks) /\ Len(top_blocks) = Len(Blocks) - n
  /\ \A i \in 1 .. Len(top_blocks) : top_blocks[i] = Blocks[n + i]
  /\ p \in Seq(Ids) /\ p \o accounts = AccountsOf(n)
  /\ first = (p = <<>>)
  /\ AccountsPart = Opening \o Joined(p)

LEMMA ReportIs ==
  ASSUME TypeOK, Report
  PROVE  \E n \in 0 .. Len(Blocks), p \in Seq(Ids) : ReportAt(n, p)
<1> DEFINE n == Loaded
           p == Printed
           a == AccountsOf(Loaded)
<1>1. db \in Databases /\ top_blocks \in Seq(DOMAIN db.accounts) /\ accounts \in Seq(Ids)
  BY DEF TypeOK
<1>2. Len(Blocks) \in Nat /\ Len(top_blocks) \in Nat
  BY <1>1, BlocksType
<1>3. n \in 0 .. Len(Blocks) /\ Len(top_blocks) = Len(Blocks) - n
  BY <1>2 DEF Report, Loaded
<1>4. a \in Seq(Ids)
  BY <1>1, <1>3, AccountsOfType
<1>5. p \in Seq(Ids)
  <2>1. Len(a) \in Nat /\ Len(accounts) \in Nat
    BY <1>1, <1>4
  <2>2. p = SubSeq(a, 1, Len(a) - Len(accounts))
    BY DEF Printed
  <2> HIDE DEF a, p
  <2>3. \A i \in 1 .. Len(a) - Len(accounts) : a[i] \in Ids
    BY <1>4, <2>1
  <2> QED BY <2>1, <2>2, <2>3, SubSeqProperties
<1>6. ReportAt(n, p)
  BY <1>3, <1>5 DEF Report, ReportAt
<1> QED BY <1>3, <1>5, <1>6

\* A step that leaves the report so far described by n and p.
LEMMA ReportNow ==
  ASSUME db \in Databases, UNCHANGED db, accounts' \in Seq(Ids),
         NEW n \in 0 .. Len(Blocks), NEW p \in Seq(Ids),
         Len(top_blocks') = Len(Blocks) - n,
         \A i \in 1 .. Len(top_blocks') : top_blocks'[i] = Blocks[n + i],
         p \o accounts' = AccountsOf(n),
         first' = (p = <<>>),
         AccountsPart' = Opening \o Joined(p)
  PROVE  Report' /\ AccountsPrefix'
<1>1. Len(Blocks) \in Nat
  BY BlocksType
<1>2. Blocks' = Blocks /\ Expected' = Expected
  BY DbSame
<1>3. Loaded' = n
  BY <1>1, <1>2 DEF Loaded
<1>4. AccountsOf(Loaded)' = AccountsOf(n)
  BY <1>3, AccountsOfSame
<1>5. Printed' = p
  <2>1. Printed' = SubSeq(p \o accounts', 1, Len(p \o accounts') - Len(accounts'))
    BY <1>4 DEF Printed
  <2> QED BY <2>1, ConcatFront
<1>6. IsPrefix(Opening \o Joined(p), Expected)
  BY ReportPrefix
<1>7. AccountsPrefix'
  BY <1>2, <1>6 DEF AccountsPrefix
<1>8. Report'
  BY <1>1, <1>2, <1>3, <1>4, <1>5 DEF Report, Opening, Joined
<1> QED BY <1>7, <1>8

-----------------------------------------------------------------------------
(* The invariant: before the report *)

Others == {"block", "state", "loading", "shards", "comma", "end"}

LEMMA NotBegin ==
  ASSUME NEW t \in Others
  PROVE  Token(t) \in Tokens /\ ~IsBegin(Token(t))
<1>1. Token(t) \in Tokens
  BY TokensAre DEF Others
<1>2. Token(t) # Token("begin")
  BY DEF Token, Others
<1> QED BY <1>1, <1>2 DEF IsBegin

\* Tokens without a beginning of the report among them.
Quiet(t) == t \in Seq(Tokens) /\ \A i \in 1 .. Len(t) : ~IsBegin(t[i])

LEMMA QuietTokens ==
  /\ Quiet(<<>>)
  /\ \A x \in Others : Quiet(<<Token(x)>>)
  /\ \A x, y \in Others : Quiet(<<Token(x), Token(y)>>)
<1>1. Quiet(<<>>)
  BY EmptySeq DEF Quiet
<1>2. ASSUME NEW x, x \in Tokens, ~IsBegin(x) PROVE Quiet(<<x>>)
  <2>1. <<x>> \in Seq(Tokens) /\ Len(<<x>>) = 1 /\ <<x>>[1] = x
    BY <1>2
  <2> QED BY <1>2, <2>1 DEF Quiet
<1>3. ASSUME NEW x, NEW y, x \in Tokens, y \in Tokens, ~IsBegin(x), ~IsBegin(y)
      PROVE  Quiet(<<x, y>>)
  <2>1. <<x, y>> \in Seq(Tokens) /\ Len(<<x, y>>) = 2 /\ <<x, y>>[1] = x /\ <<x, y>>[2] = y
    BY <1>3
  <2> QED BY <1>3, <2>1 DEF Quiet
<1>4. ASSUME NEW x \in Others PROVE Quiet(<<Token(x)>>)
  BY <1>2, NotBegin
<1>5. ASSUME NEW x \in Others, NEW y \in Others PROVE Quiet(<<Token(x), Token(y)>>)
  BY <1>3, NotBegin
<1> QED BY <1>1, <1>4, <1>5

LEMMA InitPrintInv == Init => PrintInv
<1> SUFFICES ASSUME Init PROVE PrintInv
  OBVIOUS
<1>1. /\ opts \in Options /\ db \in Databases /\ pc = IF opts.boc THEN "boc" ELSE "open"
      /\ top_blocks = <<>> /\ accounts = <<>> /\ first = TRUE /\ out = <<>>
  BY DEF Init
<1>2. opts.boc \in BOOLEAN
  BY <1>1, PrintAssumption
<1>3. pc \in {"boc", "open"} /\ (pc = "boc" => opts.boc)
  BY <1>1, <1>2
<1>4. TypeOK
  <2>1. top_blocks \in Seq(DOMAIN db.accounts) /\ accounts \in Seq(Ids) /\ out \in Seq(Tokens)
    BY <1>1, EmptySeq
  <2> QED BY <1>1, <1>3, <2>1 DEF TypeOK
<1>5. AccountsPart = <<>>
  <2>1. BeginsAt(<<>>, 0)
    BY EmptySeq DEF BeginsAt
  <2>2. <<>> \in Seq(Tokens)
    BY EmptySeq
  <2>3. PartOf(<<>>) = <<>>
    BY <2>1, <2>2, PartEmpty
  <2> QED BY <1>1, <2>3, PartIs
<1>6. AccountsPrefix
  BY <1>1, <1>5, NothingPrefix DEF AccountsPrefix
<1> QED BY <1>1, <1>3, <1>4, <1>5, <1>6 DEF PrintInv, AccountsComplete

\* A step before the report, that prints something else or nothing.
LEMMA QuietStep ==
  ASSUME PrintInv, pc \in Unopened, UNCHANGED <<opts, db, top_blocks, accounts, first>>,
         NEW t, Quiet(t), out' = out \o t,
         pc' \in (Unopened \ {"boc"}) \cup {"ok", "failed"},
         pc' = "ok" => opts.boc \/ ~opts.accounts
  PROVE  PrintInv'
<1>1. TypeOK /\ AccountsPart = <<>> /\ accounts = <<>> /\ db \in Databases
  BY DEF PrintInv, TypeOK
<1>2. Ids' = Ids /\ Tokens' = Tokens /\ Expected' = Expected
  BY DbSame
<1>3. out \in Seq(Tokens) /\ t \in Seq(Tokens)
  BY <1>1 DEF TypeOK, Quiet
<1>4. out' \in Seq(Tokens)
  BY <1>3, ConcatType
<1>5. AccountsPart' = <<>>
  <2>1. PartOf(out \o t) = <<>>
    BY <1>1, <1>3, PartIs, PartStays DEF Quiet
  <2> QED BY <2>1, PartIs
<1>6. TypeOK'
  BY <1>1, <1>2, <1>4 DEF TypeOK, Unopened, Ended
<1>7. AccountsPrefix'
  BY <1>1, <1>2, <1>5, NothingPrefix DEF AccountsPrefix
<1>8. AccountsComplete'
  BY DEF AccountsComplete
<1>9. accounts' = <<>>
  BY <1>1
<1> QED BY <1>5, <1>6, <1>7, <1>8, <1>9 DEF PrintInv, Unopened

\* The same for a step that prints nothing at all.
LEMMA SilentStep ==
  ASSUME PrintInv, pc \in Unopened, UNCHANGED <<opts, db, top_blocks, accounts, first, out>>,
         pc' \in (Unopened \ {"boc"}) \cup {"ok", "failed"},
         pc' = "ok" => opts.boc \/ ~opts.accounts
  PROVE  PrintInv'
<1>1. out \o <<>> = out
  BY ConcatEmptySeq DEF PrintInv, TypeOK
<1> QED BY <1>1, QuietTokens, QuietStep

LEMMA PrintBocStep == PrintInv /\ PrintBoc => PrintInv'
<1> SUFFICES ASSUME PrintInv, PrintBoc PROVE PrintInv'
  OBVIOUS
<1>1. pc = "boc" /\ opts.boc /\ pc \in Unopened /\ pc' = "ok"
  BY DEF PrintInv, PrintBoc, Goto, Unopened
<1>2. PICK t \in {<<Token("block")>>, <<Token("state")>>, <<>>} : out' = out \o t
  BY DEF PrintBoc, Emit
<1>3. Quiet(t)
  BY QuietTokens DEF Others
<1>4. UNCHANGED <<opts, db, top_blocks, accounts, first>>
  BY DEF PrintBoc
<1> QED BY <1>1, <1>2, <1>3, <1>4, QuietStep

LEMMA OpenDbStep == PrintInv /\ OpenDb => PrintInv'
<1> SUFFICES ASSUME PrintInv, OpenDb PROVE PrintInv'
  OBVIOUS
<1> QED BY SilentStep DEF OpenDb, Goto, Unopened

LEMMA PrintItemStep == PrintInv /\ PrintItem => PrintInv'
<1> SUFFICES ASSUME PrintInv, PrintItem PROVE PrintInv'
  OBVIOUS
<1>1. pc \in {"block", "state", "shards"} /\ pc' \in {"state", "shards", "accounts"}
  BY DEF PrintItem, Following, Goto
<1>2. UNCHANGED <<opts, db, top_blocks, accounts, first>>
  BY DEF PrintItem
<1>3. pc \in Unopened /\ pc' \in (Unopened \ {"boc"}) \cup {"ok", "failed"} /\ pc' # "ok"
  BY <1>1 DEF Unopened
<1>4. \/ out' = out \o <<Token("loading"), Token(pc)>>
      \/ out' = out \o <<Token("loading")>>
      \/ out' = out
  BY DEF PrintItem, Emit
<1>5. Quiet(<<Token("loading"), Token(pc)>>) /\ Quiet(<<Token("loading")>>)
  BY <1>1, QuietTokens DEF Others
<1>6. CASE out' = out
  BY <1>2, <1>3, <1>6, SilentStep
<1>7. CASE out' = out \o <<Token("loading"), Token(pc)>>
  BY <1>2, <1>3, <1>5, <1>7, QuietStep
<1>8. CASE out' = out \o <<Token("loading")>>
  BY <1>2, <1>3, <1>5, <1>8, QuietStep
<1> QED BY <1>4, <1>6, <1>7, <1>8

LEMMA ItemFailsStep == PrintInv /\ ItemFails => PrintInv'
<1> SUFFICES ASSUME PrintInv, ItemFails PROVE PrintInv'
  OBVIOUS
<1>1. pc \in {"block", "state", "shards"} /\ pc' = "failed"
  BY DEF ItemFails, Following, Goto
<1>2. UNCHANGED <<opts, db, top_blocks, accounts, first>>
  BY DEF ItemFails
<1>3. pc \in Unopened /\ pc' \in (Unopened \ {"boc"}) \cup {"ok", "failed"} /\ pc' # "ok"
  BY <1>1 DEF Unopened
<1>4. PICK t \in {<<>>, <<Token("loading")>>, <<Token("loading"), Token("shards")>>} :
        out' = out \o t
  BY DEF ItemFails, Emit
<1>5. Quiet(t)
  BY QuietTokens DEF Others
<1> QED BY <1>2, <1>3, <1>4, <1>5, QuietStep

LEMMA NoAccountsStep == PrintInv /\ NoAccounts => PrintInv'
<1> SUFFICES ASSUME PrintInv, NoAccounts PROVE PrintInv'
  OBVIOUS
<1> QED BY SilentStep DEF NoAccounts, Goto, Unopened

-----------------------------------------------------------------------------
(* The invariant: the report *)

\* A step of the report that prints t has printed it at the end of the report.
LEMMA PartNext ==
  ASSUME TypeOK, NEW t \in Seq(Tokens), out' = out \o t, NEW u \in Seq(Tokens),
         AccountsPart = Opening \o u
  PROVE  out' \in Seq(Tokens) /\ AccountsPart' = Opening \o (u \o t)
<1>1. out \in Seq(Tokens) /\ Opening \in Seq(Tokens) /\ Len(Opening) = 1
  BY OneToken DEF TypeOK, Opening
<1>2. out' \in Seq(Tokens)
  BY <1>1, ConcatType
<1>3. PartOf(out) # <<>>
  <2>1. PartOf(out) = Opening \o u
    BY PartIs
  <2>2. Opening # <<>>
    <3>1. Len(<<>>) # 1
      OBVIOUS
    <3>2. Len(Opening) = 1
      BY <1>1
    <3> QED BY <3>1, <3>2, Zenon
  <2> QED BY <1>1, <2>1, <2>2, ConcatEqualIffEmpty
<1>4. PartOf(out \o t) = PartOf(out) \o t
  BY <1>1, <1>3, PartGrows
<1>5. (Opening \o u) \o t = Opening \o (u \o t)
  <2> DEFINE o == Opening
  <2>1. o \in Seq(Tokens)
    BY <1>1
  <2> HIDE DEF o
  <2>2. (o \o u) \o t = o \o (u \o t)
    BY <2>1
  <2> QED BY <2>2 DEF o
<1> QED BY <1>2, <1>4, <1>5, PartIs

LEMMA BeginAccountsStep == PrintInv /\ BeginAccounts => PrintInv'
<1> SUFFICES ASSUME PrintInv, BeginAccounts PROVE PrintInv'
  OBVIOUS
<1>1. /\ pc = "accounts" /\ pc' = "top" /\ opts.accounts /\ first' = TRUE /\ out' = out \o Opening
      /\ UNCHANGED <<opts, db, top_blocks, accounts>>
  BY DEF BeginAccounts, Emit, Goto, Opening
<1>2. TypeOK /\ db \in Databases /\ AccountsPart = <<>> /\ accounts = <<>>
  BY <1>1 DEF PrintInv, TypeOK, Unopened
<1>3. Ids' = Ids /\ Tokens' = Tokens /\ Expected' = Expected
  BY <1>1, DbSame
<1>4. out \in Seq(Tokens) /\ Opening \in Seq(Tokens) /\ Token("begin") \in Tokens
  BY <1>2, OneToken, TokensAre DEF TypeOK, Opening
<1>5. out' \in Seq(Tokens)
  BY <1>1, <1>4, ConcatType
<1>6. AccountsPart' = Opening
  BY <1>1, <1>2, <1>4, PartIs, PartBegins
<1>7. TypeOK'
  BY <1>1, <1>2, <1>3, <1>5 DEF TypeOK
<1>8. AccountsPrefix'
  BY <1>2, <1>3, <1>6, NothingPrefix DEF AccountsPrefix
<1>9. AccountsComplete' /\ accounts' = <<>>
  BY <1>1, <1>2 DEF AccountsComplete
<1>10. Opening' = Opening
  BY DEF Opening
<1> QED BY <1>1, <1>6, <1>7, <1>8, <1>9, <1>10 DEF PrintInv, Unopened

\* In the report, the invariant is what remains to be shown of its types, its
\* state and the accounts still to come.
LEMMA InReport ==
  ASSUME pc' \in {"next", "iterate"}, TypeOK', Report', AccountsPrefix',
         pc' = "next" => accounts' = <<>>
  PROVE  PrintInv'
BY DEF PrintInv, AccountsComplete, Unopened

LEMMA LoadTopBlocksStep == PrintInv /\ LoadTopBlocks => PrintInv'
<1> SUFFICES ASSUME PrintInv, LoadTopBlocks PROVE PrintInv'
  OBVIOUS
<1>1. /\ pc = "top" /\ pc' = "next" /\ top_blocks' = Blocks
      /\ UNCHANGED <<opts, db, accounts, first, out>>
  BY DEF LoadTopBlocks, Goto, AllTopBlocks, Blocks
<1>2. /\ TypeOK /\ db \in Databases /\ accounts = <<>> /\ first = TRUE /\ opts.accounts
      /\ AccountsPart = Opening
  BY <1>1 DEF PrintInv, TypeOK, Unopened
<1>3. Ids' = Ids /\ Tokens' = Tokens
  BY <1>1, DbSame
<1>4. Blocks \in Seq(DOMAIN db.accounts) /\ Len(Blocks) \in Nat
  BY <1>2, BlocksType
<1>5. TypeOK'
  BY <1>1, <1>2, <1>3, <1>4 DEF TypeOK
<1>6. 0 \in 0 .. Len(Blocks) /\ Len(top_blocks') = Len(Blocks) - 0
  BY <1>1, <1>4
<1>7. \A i \in 1 .. Len(top_blocks') : top_blocks'[i] = Blocks[0 + i]
  BY <1>1, <1>4
<1>8. <<>> \in Seq(Ids) /\ <<>> \o accounts' = AccountsOf(0)
  BY <1>1, <1>2, AccountsOfNone, EmptySeq, ConcatEmptySeq
<1>9. AccountsPart' = Opening \o Joined(<<>>)
  <2>1. Opening \o Joined(<<>>) = Opening
    BY JoinedEmpty, OneToken, ConcatEmptySeq DEF Opening
  <2> QED BY <1>1, <1>2, <2>1, PartIs
<1>10. accounts' \in Seq(Ids) /\ first' = (<<>> = <<>>)
  BY <1>1, <1>2, EmptySeq
<1>11. Report' /\ AccountsPrefix'
  BY <1>1, <1>2, <1>6, <1>7, <1>8, <1>9, <1>10, ReportNow
<1> QED BY <1>1, <1>2, <1>5, <1>11, InReport

LEMMA LoadStateStep == PrintInv /\ LoadState => PrintInv'
<1> SUFFICES ASSUME PrintInv, LoadState PROVE PrintInv'
  OBVIOUS
<1>1. /\ pc = "next" /\ pc' = "iterate" /\ top_blocks # <<>>
      /\ accounts' = db.accounts[Head(top_blocks)] /\ top_blocks' = Tail(top_blocks)
      /\ UNCHANGED <<opts, db, first, out>>
  BY DEF LoadState, Goto
<1>2. /\ TypeOK /\ db \in Databases /\ Report /\ accounts = <<>> /\ opts.accounts
      /\ top_blocks \in Seq(DOMAIN db.accounts)
  BY <1>1 DEF PrintInv, TypeOK, Unopened
<1>3. Ids' = Ids /\ Tokens' = Tokens
  BY <1>1, DbSame
<1>4. PICK n \in 0 .. Len(Blocks), p \in Seq(Ids) : ReportAt(n, p)
  BY <1>2, ReportIs
<1>5. /\ Head(top_blocks) \in DOMAIN db.accounts /\ Head(top_blocks) = top_blocks[1]
      /\ Tail(top_blocks) \in Seq(DOMAIN db.accounts)
      /\ Len(Tail(top_blocks)) = Len(top_blocks) - 1
      /\ Len(top_blocks) \in Nat \ {0}
  BY <1>1, <1>2, HeadTailProperties, EmptySeq
<1>6. /\ Len(Blocks) \in Nat /\ Len(top_blocks) = Len(Blocks) - n
      /\ 1 \in 1 .. Len(top_blocks)
      /\ n # Len(Blocks) /\ n + 1 \in 0 .. Len(Blocks)
  BY <1>2, <1>4, <1>5, BlocksType DEF ReportAt
<1>7. accounts' \in Seq(Ids)
  BY <1>1, <1>2, <1>5, DbTypes
<1>8. TypeOK'
  BY <1>1, <1>2, <1>3, <1>5, <1>7 DEF TypeOK
<1>9. Len(top_blocks') = Len(Blocks) - (n + 1)
  BY <1>1, <1>5, <1>6
<1>10. ASSUME NEW i \in 1 .. Len(top_blocks')
       PROVE  top_blocks'[i] = Blocks[(n + 1) + i]
  <2>1. i + 1 \in 1 .. Len(top_blocks) /\ i \in 1 .. Len(Tail(top_blocks)) /\ n + (i + 1) = (n + 1) + i
    BY <1>1, <1>5, <1>6
  <2>2. Tail(top_blocks)[i] = top_blocks[i + 1]
    BY <1>1, <1>2, <2>1, HeadTailProperties
  <2>3. top_blocks[i + 1] = Blocks[n + (i + 1)]
    BY <1>4, <2>1 DEF ReportAt
  <2> QED BY <1>1, <2>1, <2>2, <2>3
<1>11. p = AccountsOf(n)
  BY <1>2, <1>4, ConcatEmptySeq DEF ReportAt
<1>12. Head(top_blocks) = Blocks[n + 1]
  BY <1>4, <1>5, <1>6 DEF ReportAt
<1>13. p \o accounts' = AccountsOf(n + 1)
  BY <1>1, <1>2, <1>6, <1>11, <1>12, AccountsOfNext
<1>14. first' = (p = <<>>) /\ AccountsPart' = Opening \o Joined(p)
  BY <1>1, <1>4, PartIs DEF ReportAt
<1>15. Report' /\ AccountsPrefix'
  BY <1>1, <1>2, <1>4, <1>6, <1>7, <1>9, <1>10, <1>13, <1>14, ReportNow
<1> QED BY <1>1, <1>8, <1>15, InReport

LEMMA PrintAccountStep == PrintInv /\ PrintAccount => PrintInv'
<1> SUFFICES ASSUME PrintInv, PrintAccount PROVE PrintInv'
  OBVIOUS
<1>1. /\ pc = "iterate" /\ pc' = "iterate" /\ accounts # <<>>
      /\ out' = out \o ((IF first THEN <<>> ELSE <<Token("comma")>>) \o <<Account(Head(accounts))>>)
      /\ first' = FALSE /\ accounts' = Tail(accounts)
      /\ UNCHANGED <<opts, db, top_blocks>>
  BY DEF PrintAccount, Emit
<1>2. /\ TypeOK /\ db \in Databases /\ Report /\ opts.accounts /\ accounts \in Seq(Ids)
  BY <1>1 DEF PrintInv, TypeOK
<1>3. Ids' = Ids /\ Tokens' = Tokens
  BY <1>1, DbSame
<1>4. PICK n \in 0 .. Len(Blocks), p \in Seq(Ids) : ReportAt(n, p)
  BY <1>2, ReportIs
<1> DEFINE a == Head(accounts)
           rest == Tail(accounts)
           t == Comma(p) \o <<Account(a)>>
           q == Append(p, a)
<1>5. a \in Ids /\ rest \in Seq(Ids) /\ accounts = <<a>> \o rest
  <2>1. a \in Ids /\ rest \in Seq(Ids) /\ rest = SubSeq(accounts, 2, Len(accounts))
    BY <1>1, <1>2, HeadTailProperties, TailIsSubSeq
  <2>2. 1 \in 1 .. Len(accounts) /\ Len(accounts) \in 1 .. Len(accounts) /\ 1 + 1 = 2
    BY <1>1, <1>2, EmptySeq
  <2>3. a = accounts[1]
    BY <1>1, <1>2
  <2>4. SubSeq(accounts, 1, Len(accounts)) = <<accounts[1]>> \o SubSeq(accounts, 1 + 1, Len(accounts))
    BY <1>2, <2>2, SubSeqRecursiveFirst
  <2> QED BY <1>2, <2>1, <2>2, <2>3, <2>4, SubSeqFull
<1>6. out' = out \o t
  BY <1>1, <1>4 DEF ReportAt, Comma
<1>7. t \in Seq(Tokens)
  <2>1. <<Account(a)>> \in Seq(Tokens)
    <3>1. Account(a) \in Tokens
      BY <1>5 DEF Tokens
    <3> DEFINE x == Account(a)
    <3> HIDE DEF x
    <3>2. <<x>> \in Seq(Tokens)
      BY <3>1 DEF x
    <3> QED BY <3>2 DEF x
  <2>2. Comma(p) \in Seq(Tokens)
    BY OneToken, EmptySeq DEF Comma
  <2> QED BY <2>1, <2>2, ConcatType
<1>8. Joined(q) = Joined(p) \o t /\ Joined(p) \in Seq(Tokens)
  BY <1>5, JoinedAppend, JoinedType
<1>9. q \in Seq(Ids) /\ q # <<>> /\ q = p \o <<a>>
  BY <1>5, AppendProperties, AppendIsConcat
<1>10. q \o rest = AccountsOf(n)
  <2>1. <<a>> \in Seq(Ids)
    BY <1>5
  <2>2. (p \o <<a>>) \o rest = p \o (<<a>> \o rest)
    BY <1>5, <2>1, ConcatAssociative
  <2>3. p \o accounts = AccountsOf(n)
    BY <1>4 DEF ReportAt
  <2> QED BY <1>5, <1>9, <2>2, <2>3
<1> HIDE DEF a, rest, t, q
<1>11. out' \in Seq(Tokens) /\ AccountsPart' = Opening \o Joined(q)
  BY <1>2, <1>4, <1>6, <1>7, <1>8, PartNext DEF ReportAt
<1>12. accounts' = rest /\ accounts' \in Seq(Ids)
  BY <1>1, <1>5 DEF rest
<1>13. TypeOK'
  BY <1>1, <1>2, <1>3, <1>11, <1>12 DEF TypeOK
<1>14. /\ Len(top_blocks') = Len(Blocks) - n
       /\ \A i \in 1 .. Len(top_blocks') : top_blocks'[i] = Blocks[n + i]
  BY <1>1, <1>4 DEF ReportAt
<1>15. first' = (q = <<>>) /\ q \o accounts' = AccountsOf(n)
  BY <1>1, <1>9, <1>10, <1>12
<1>16. Report' /\ AccountsPrefix'
  BY <1>1, <1>2, <1>4, <1>9, <1>11, <1>12, <1>14, <1>15, ReportNow
<1> QED BY <1>1, <1>13, <1>16, InReport

LEMMA EndStateStep == PrintInv /\ EndState => PrintInv'
<1> SUFFICES ASSUME PrintInv, EndState PROVE PrintInv'
  OBVIOUS
<1>1. /\ pc = "iterate" /\ pc' = "next" /\ accounts = <<>>
      /\ UNCHANGED <<opts, db, top_blocks, accounts, first, out>>
  BY DEF EndState, Goto
<1>2. /\ TypeOK /\ db \in Databases /\ Report /\ opts.accounts
  BY <1>1 DEF PrintInv, TypeOK
<1>3. Ids' = Ids /\ Tokens' = Tokens
  BY <1>1, DbSame
<1>4. PICK n \in 0 .. Len(Blocks), p \in Seq(Ids) : ReportAt(n, p)
  BY <1>2, ReportIs
<1>5. TypeOK'
  BY <1>1, <1>2, <1>3 DEF TypeOK
<1>6. /\ Len(top_blocks') = Len(Blocks) - n
      /\ \A i \in 1 .. Len(top_blocks') : top_blocks'[i] = Blocks[n + i]
      /\ p \o accounts' = AccountsOf(n) /\ first' = (p = <<>>)
  BY <1>1, <1>4 DEF ReportAt
<1>7. AccountsPart' = Opening \o Joined(p)
  BY <1>1, <1>4, PartIs DEF ReportAt
<1>8. accounts' \in Seq(Ids)
  BY <1>1, <1>2 DEF TypeOK
<1>9. Report' /\ AccountsPrefix'
  BY <1>1, <1>2, <1>4, <1>6, <1>7, <1>8, ReportNow
<1> QED BY <1>1, <1>5, <1>9, InReport

LEMMA EndAccountsStep == PrintInv /\ EndAccounts => PrintInv'
<1> SUFFICES ASSUME PrintInv, EndAccounts PROVE PrintInv'
  OBVIOUS
<1> DEFINE e == <<Token("end")>>
           all == AccountsOf(Len(Blocks))
<1>1. /\ pc = "next" /\ pc' = "ok" /\ top_blocks = <<>> /\ out' = out \o e
      /\ UNCHANGED <<opts, db, top_blocks, accounts, first>>
  BY DEF EndAccounts, Emit, Goto
<1>2. /\ TypeOK /\ db \in Databases /\ Report /\ accounts = <<>>
  BY <1>1 DEF PrintInv, TypeOK, Unopened
<1>3. Ids' = Ids /\ Tokens' = Tokens /\ Expected' = Expected
  BY <1>1, DbSame
<1>4. PICK n \in 0 .. Len(Blocks), p \in Seq(Ids) : ReportAt(n, p)
  BY <1>2, ReportIs
<1>5. n = Len(Blocks)
  BY <1>1, <1>2, <1>4, BlocksType, EmptySeq DEF ReportAt
<1>6. p = all
  BY <1>2, <1>4, <1>5, ConcatEmptySeq DEF ReportAt
<1>7. e \in Seq(Tokens) /\ Opening \in Seq(Tokens)
  BY OneToken DEF Opening
<1>8. AccountsPart = Opening \o Joined(all) /\ Joined(all) \in Seq(Tokens)
  BY <1>4, <1>6, JoinedType DEF ReportAt
<1>9. Expected = (Opening \o Joined(all)) \o e /\ Expected \in Seq(Tokens)
  BY <1>2, ExpectedIs
<1> HIDE DEF e, all
<1>10. out' \in Seq(Tokens) /\ AccountsPart' = Opening \o (Joined(all) \o e)
  BY <1>1, <1>2, <1>7, <1>8, PartNext
<1>11. AccountsPart' = Expected
  <2>1. (Opening \o Joined(all)) \o e = Opening \o (Joined(all) \o e)
    <3> DEFINE o == Opening
               j == Joined(all)
    <3>1. o \in Seq(Tokens) /\ j \in Seq(Tokens) /\ e \in Seq(Tokens)
      BY <1>7, <1>8
    <3> HIDE DEF o, j
    <3>2. (o \o j) \o e = o \o (j \o e)
      BY <3>1
    <3> QED BY <3>2 DEF o, j
  <2> QED BY <1>9, <1>10, <2>1
<1>12. TypeOK'
  BY <1>1, <1>2, <1>3, <1>10 DEF TypeOK, Ended
<1>13. AccountsComplete'
  BY <1>3, <1>11 DEF AccountsComplete
<1>14. AccountsPrefix'
  <2>1. IsPrefix(Expected, Expected)
    BY <1>9, PrefixReflexive
  <2> QED BY <1>3, <1>11, <2>1 DEF AccountsPrefix
<1> QED BY <1>1, <1>12, <1>13, <1>14 DEF PrintInv, Unopened

\* An error ends the call, and leaves what has been printed.
LEMMA StopStep ==
  ASSUME PrintInv, pc' \in {"failed", "panicked"},
         UNCHANGED <<opts, db, top_blocks, accounts, first, out>>
  PROVE  PrintInv'
<1>1. TypeOK /\ AccountsPrefix
  BY DEF PrintInv
<1>2. Ids' = Ids /\ Tokens' = Tokens /\ Expected' = Expected
  BY DbSame
<1>3. AccountsPart' = AccountsPart
  BY PartIs
<1>4. TypeOK'
  BY <1>1, <1>2 DEF TypeOK, Ended
<1>5. AccountsPrefix' /\ AccountsComplete'
  BY <1>1, <1>2, <1>3 DEF AccountsPrefix, AccountsComplete
<1> QED BY <1>4, <1>5 DEF PrintInv, Unopened

LEMMA StutterStep ==
  ASSUME PrintInv, UNCHANGED vars
  PROVE  PrintInv'
<1>1. UNCHANGED <<pc, opts, db, top_blocks, accounts, first, out>>
  BY DEF vars
<1>2. /\ Ids' = Ids /\ Tokens' = Tokens /\ Expected' = Expected /\ Blocks' = Blocks
      /\ Opening' = Opening
  BY <1>1, DbSame DEF Opening
<1>3. AccountsPart' = AccountsPart
  BY <1>1, PartIs
<1>4. TypeOK' = TypeOK
  BY <1>1, <1>2 DEF TypeOK
<1>5. AccountsPrefix' = AccountsPrefix /\ AccountsComplete' = AccountsComplete
  BY <1>1, <1>2, <1>3 DEF AccountsPrefix, AccountsComplete
<1>6. Loaded' = Loaded
  BY <1>1, <1>2 DEF Loaded
<1>7. AccountsOf(Loaded)' = AccountsOf(Loaded)
  BY <1>1, <1>6, AccountsOfSame
<1>8. Printed' = Printed
  BY <1>1, <1>7 DEF Printed
<1>9. Joined(Printed)' = Joined(Printed)
  BY <1>8 DEF Joined
<1>10. Report' = Report
  BY <1>1, <1>2, <1>3, <1>6, <1>7, <1>8, <1>9 DEF Report
<1> QED BY <1>1, <1>2, <1>3, <1>4, <1>5, <1>10 DEF PrintInv

LEMMA NextPrintInv == PrintInv /\ [Next]_vars => PrintInv'
<1> SUFFICES ASSUME PrintInv, [Next]_vars PROVE PrintInv'
  OBVIOUS
<1>1. CASE PrintBoc
  BY <1>1, PrintBocStep
<1>2. CASE OpenDb
  BY <1>2, OpenDbStep
<1>3. CASE PrintItem
  BY <1>3, PrintItemStep
<1>4. CASE ItemFails
  BY <1>4, ItemFailsStep
<1>5. CASE NoAccounts
  BY <1>5, NoAccountsStep
<1>6. CASE BeginAccounts
  BY <1>6, BeginAccountsStep
<1>7. CASE LoadTopBlocks
  BY <1>7, LoadTopBlocksStep
<1>8. CASE LoadState
  BY <1>8, LoadStateStep
<1>9. CASE PrintAccount
  BY <1>9, PrintAccountStep
<1>10. CASE EndState
  BY <1>10, EndStateStep
<1>11. CASE AccountPanics
  BY <1>11, StopStep DEF AccountPanics, Goto
<1>12. CASE EndAccounts
  BY <1>12, EndAccountsStep
<1>13. CASE ReadFails
  BY <1>13, StopStep DEF ReadFails, Goto
<1>14. CASE UNCHANGED vars
  BY <1>14, StutterStep
<1> QED BY <1>1, <1>2, <1>3, <1>4, <1>5, <1>6, <1>7, <1>8, <1>9, <1>10, <1>11, <1>12,
           <1>13, <1>14 DEF Next

-----------------------------------------------------------------------------
(* Theorems *)

\* At any time of a call of print.rs, what has been printed of the accounts
\* and what is still to come make up what the database holds.
THEOREM PrintInvariant == Spec => []PrintInv
BY InitPrintInv, NextPrintInv, PTL DEF Spec

\* The state of main in print.rs is of its type, and the report of the accounts
\* is only entered with --accounts.
THEOREM PrintTypes == Spec => []TypeOK
<1>1. PrintInv => TypeOK
  BY DEF PrintInv
<1> QED BY <1>1, PrintInvariant, PTL

\* Whatever shards there are, the first of them or all of them without accounts,
\* and wherever a call breaks off: --accounts has printed the beginning of one
\* JSON object of all accounts, with a comma between any two and nowhere else.
THEOREM AccountsArePrefix == Spec => []AccountsPrefix
<1>1. PrintInv => AccountsPrefix
  BY DEF PrintInv
<1> QED BY <1>1, PrintInvariant, PTL

\* A call with --accounts that returns Ok has printed every account of every
\* shard and of the masterchain.
THEOREM AccountsAreComplete == Spec => []AccountsComplete
<1>1. PrintInv => AccountsComplete
  BY DEF PrintInv
<1> QED BY <1>1, PrintInvariant, PTL

=============================================================================
