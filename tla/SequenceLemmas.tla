----------------------------- MODULE SequenceLemmas -----------------------------
(* What the proofs of the components need to know of sequences. *)
EXTENDS SequenceOps, SequencesExt, FiniteSetTheorems, SequenceTheorems, WellFoundedInduction, TLAPS

(* The elements of an injective sequence are as many as its length. *)
LEMMA InjectiveCount ==
    ASSUME NEW S, NEW s \in Seq(S), IsInjective(s)
    PROVE  IsFiniteSet(ToSet(s)) /\ Cardinality(ToSet(s)) = Len(s)
<1>1. s \in [1 .. Len(s) -> ToSet(s)] /\ DOMAIN s = 1 .. Len(s)
  BY DEF ToSet
<1>2. s \in Bijection(1 .. Len(s), ToSet(s))
  BY <1>1 DEF Bijection, Injection, Surjection, IsInjective, ToSet
<1>3. ExistsBijection(1 .. Len(s), ToSet(s))
  BY <1>2 DEF ExistsBijection
<1>4. Len(s) \in Nat
  OBVIOUS
<1>5. IsFiniteSet(ToSet(s))
  BY <1>3, <1>4, FS_NatBijection
<1> QED BY <1>3, <1>4, <1>5, FS_CountingElements

(* Appending a new element to an injective sequence. *)
LEMMA AppendNew ==
    ASSUME NEW S, NEW s \in Seq(S), IsInjective(s), NEW e \in S, e \notin ToSet(s)
    PROVE  /\ Append(s, e) \in Seq(S) /\ IsInjective(Append(s, e))
           /\ ToSet(Append(s, e)) = ToSet(s) \cup {e}
           /\ Len(Append(s, e)) = Len(s) + 1
<1> DEFINE t == Append(s, e)
<1>1. t \in Seq(S) /\ Len(t) = Len(s) + 1 /\ DOMAIN t = 1 .. Len(s) + 1 /\ DOMAIN s = 1 .. Len(s)
  OBVIOUS
<1>2. \A i \in 1 .. Len(s) + 1 : t[i] = IF i = Len(s) + 1 THEN e ELSE s[i]
  OBVIOUS
<1>3. Len(s) \in Nat
  OBVIOUS
<1> HIDE DEF t
<1>4. IsInjective(t)
  BY <1>1, <1>2, <1>3 DEF IsInjective, ToSet
<1>5. ToSet(t) = ToSet(s) \cup {e}
  BY <1>1, <1>2, <1>3 DEF ToSet
<1> QED BY <1>1, <1>4, <1>5 DEF t

(* Taking one element out of an injective sequence. *)
LEMMA RemoveAtInjective ==
    ASSUME NEW S, NEW s \in Seq(S), IsInjective(s), NEW k \in DOMAIN s
    PROVE  /\ RemoveAt(s, k) \in Seq(S) /\ IsInjective(RemoveAt(s, k))
           /\ ToSet(RemoveAt(s, k)) = ToSet(s) \ {s[k]}
           /\ Len(RemoveAt(s, k)) = Len(s) - 1
<1> DEFINE t == RemoveAt(s, k)
           a == SubSeq(s, 1, k - 1)
           b == SubSeq(s, k + 1, Len(s))
<1>0. Len(s) \in Nat /\ DOMAIN s = 1 .. Len(s) /\ k \in 1 .. Len(s)
  OBVIOUS
<1>1. a \in Seq(S) /\ Len(a) = k - 1 /\ \A i \in 1 .. k - 1 : a[i] = s[i]
  BY <1>0
<1>2. b \in Seq(S) /\ Len(b) = Len(s) - k /\ \A i \in 1 .. Len(s) - k : b[i] = s[i + k]
  BY <1>0
<1>3. t = a \o b
  BY DEF RemoveAt
<1> HIDE DEF a, b, t
<1>c. /\ t \in Seq(S) /\ Len(t) = Len(a) + Len(b)
      /\ \A i \in 1 .. Len(a) + Len(b) : t[i] = IF i <= Len(a) THEN a[i] ELSE b[i - Len(a)]
  BY <1>1, <1>2, <1>3, ConcatProperties
<1>4. t \in Seq(S) /\ Len(t) = Len(s) - 1 /\ DOMAIN t = 1 .. Len(s) - 1
  BY <1>c, <1>0, <1>1, <1>2
<1>5. \A i \in 1 .. Len(s) - 1 : t[i] = IF i < k THEN s[i] ELSE s[i + 1]
  <2> SUFFICES ASSUME NEW i \in 1 .. Len(s) - 1 PROVE t[i] = IF i < k THEN s[i] ELSE s[i + 1]
    OBVIOUS
  <2>1. t[i] = IF i <= k - 1 THEN a[i] ELSE b[i - (k - 1)]
    BY <1>c, <1>0, <1>1, <1>2
  <2>2. CASE i < k
    BY <2>1, <2>2, <1>0, <1>1
  <2>3. CASE i >= k
    <3>1. i - (k - 1) \in 1 .. Len(s) - k /\ (i - (k - 1)) + k = i + 1
      BY <2>3, <1>0
    <3> QED BY <2>1, <2>3, <3>1, <1>0, <1>2
  <2> QED BY <2>2, <2>3, <1>0
<1>6. IsInjective(t)
  <2> SUFFICES ASSUME NEW i \in 1 .. Len(s) - 1, NEW j \in 1 .. Len(s) - 1, t[i] = t[j]
               PROVE  i = j
    BY <1>4 DEF IsInjective
  <2>1. \A x, y \in 1 .. Len(s) : s[x] = s[y] => x = y
    BY <1>0 DEF IsInjective
  <2>2. i \in 1 .. Len(s) /\ i + 1 \in 1 .. Len(s) /\ j \in 1 .. Len(s) /\ j + 1 \in 1 .. Len(s)
    BY <1>0
  <2>3. t[i] = (IF i < k THEN s[i] ELSE s[i + 1]) /\ t[j] = (IF j < k THEN s[j] ELSE s[j + 1])
    BY <1>5
  <2>4. CASE i < k /\ j < k
    <3>1. s[i] = s[j]
      BY <2>3, <2>4
    <3> QED BY <2>1, <2>2, <3>1
  <2>5. CASE i < k /\ ~(j < k)
    <3>1. s[i] = s[j + 1]
      BY <2>3, <2>5
    <3>2. i = j + 1
      BY <2>1, <2>2, <3>1
    <3> QED BY <1>0, <2>2, <2>5, <3>2
  <2>6. CASE ~(i < k) /\ j < k
    <3>1. s[i + 1] = s[j]
      BY <2>3, <2>6
    <3>2. i + 1 = j
      BY <2>1, <2>2, <3>1
    <3> QED BY <1>0, <2>2, <2>6, <3>2
  <2>7. CASE ~(i < k) /\ ~(j < k)
    <3>1. s[i + 1] = s[j + 1]
      BY <2>3, <2>7
    <3>2. i + 1 = j + 1
      BY <2>1, <2>2, <3>1
    <3> QED BY <1>0, <2>2, <3>2
  <2> QED BY <2>4, <2>5, <2>6, <2>7
<1>7. ToSet(t) \subseteq ToSet(s) \ {s[k]}
  BY <1>0, <1>4, <1>5 DEF IsInjective, ToSet
<1>8. ASSUME NEW i \in 1 .. Len(s), i # k PROVE s[i] \in ToSet(t)
  <2>1. CASE i < k
    BY <2>1, <1>0, <1>4, <1>5 DEF ToSet
  <2>2. CASE i > k
    <3>1. i - 1 \in 1 .. Len(s) - 1 /\ t[i - 1] = s[i]
      BY <2>2, <1>0, <1>5
    <3> QED BY <3>1, <1>4 DEF ToSet
  <2> QED BY <2>1, <2>2, <1>0, <1>8
<1>9. ToSet(s) \ {s[k]} \subseteq ToSet(t)
  BY <1>0, <1>8 DEF ToSet
<1> QED BY <1>4, <1>6, <1>7, <1>9 DEF t

-------------------------------------------------------------------------------
(* Numbers *)

(* Every nonempty set of numbers has a least one; *)
LEMMA LeastNumber ==
    ASSUME NEW T, T \subseteq Nat, T # {}
    PROVE  \E x \in T : \A y \in T : x <= y
<1> DEFINE R == OpToRel(<, Nat)
<1>1. IsWellFoundedOn(R, Nat)
  BY NatLessThanWellFounded
<1>2. \A ss : ss \in R <=> ss \in Nat \X Nat /\ ss[1] < ss[2]
  BY DEF OpToRel
<1> HIDE DEF R
<1>3. PICK x \in T : \A y \in T : ~(<<y, x>> \in R)
  BY <1>1, WFMin
<1>4. \A y \in T : ~(y < x)
  BY <1>2, <1>3
<1> QED BY <1>3, <1>4

(* so one that holds 0 and each successor of its members is all of them. *)
LEMMA NumbersByOne ==
    ASSUME NEW T, T \subseteq Nat, 0 \in T, \A n \in T : n + 1 \in T
    PROVE  T = Nat
<1> SUFFICES ASSUME Nat \ T # {} PROVE FALSE
  OBVIOUS
<1>1. PICK x \in Nat \ T : \A y \in Nat \ T : x <= y
  BY LeastNumber
<1>2. x # 0
  OBVIOUS
<1>3. x - 1 \in T
  BY <1>1, <1>2
<1> QED BY <1>1, <1>3

-------------------------------------------------------------------------------
(* Running totals *)

Sums(f, s, n) == f = [i \in 0 .. n |-> IF i = 0 THEN 0 ELSE f[i - 1] + s[i]]

(* They start at 0 and grow by one member of the sequence after the other. *)
LEMMA TotalsGrow ==
    ASSUME NEW s \in Seq(Nat)
    PROVE  /\ Totals(s) \in [0 .. Len(s) -> Nat]
           /\ Totals(s)[0] = 0
           /\ \A i \in 1 .. Len(s) : Totals(s)[i] = Totals(s)[i - 1] + s[i]
<1> DEFINE Summed(n) == n <= Len(s) => \E f \in [0 .. n -> Nat] : Sums(f, s, n)
           T == {n \in Nat : Summed(n)}
<1>0. Len(s) \in Nat /\ \A i \in 1 .. Len(s) : s[i] \in Nat
  OBVIOUS
<1>1. Summed(0)
  <2> DEFINE f == [i \in 0 .. 0 |-> 0]
  <2>1. f \in [0 .. 0 -> Nat] /\ \A i \in 0 .. 0 : i = 0
    OBVIOUS
  <2>2. Sums(f, s, 0)
    BY <2>1 DEF Sums
  <2> HIDE DEF f
  <2> QED BY <2>1, <2>2
<1>2. ASSUME NEW n \in Nat, Summed(n) PROVE Summed(n + 1)
  <2> SUFFICES ASSUME n + 1 <= Len(s) PROVE \E f \in [0 .. n + 1 -> Nat] : Sums(f, s, n + 1)
    OBVIOUS
  <2>0. n \in Nat /\ n <= Len(s)
    BY <1>0
  <2>1. PICK f \in [0 .. n -> Nat] : Sums(f, s, n)
    BY <1>2, <2>0
  <2> DEFINE g == [i \in 0 .. n + 1 |-> IF i = n + 1 THEN f[n] + s[n + 1] ELSE f[i]]
  <2>2. g \in [0 .. n + 1 -> Nat]
    BY <1>0, <2>0
  <2>3. ASSUME NEW i \in 0 .. n + 1 PROVE g[i] = IF i = 0 THEN 0 ELSE g[i - 1] + s[i]
    <3>1. CASE i = n + 1
      BY <2>0, <3>1
    <3>2. CASE i \in 0 .. n
      <4>1. f[i] = IF i = 0 THEN 0 ELSE f[i - 1] + s[i]
        BY <2>1, <3>2 DEF Sums
      <4>2. g[i] = f[i] /\ (i # 0 => g[i - 1] = f[i - 1])
        BY <2>0, <3>2
      <4> QED BY <4>1, <4>2
    <3> QED BY <2>0, <3>1, <3>2
  <2>4. Sums(g, s, n + 1)
    BY <2>2, <2>3 DEF Sums
  <2> HIDE DEF g
  <2> QED BY <2>2, <2>4
<1>3. \A n \in Nat : Summed(n)
  <2> HIDE DEF Summed
  <2>1. 0 \in T /\ \A n \in T : n + 1 \in T
    BY <1>1, <1>2
  <2>2. T \subseteq Nat
    OBVIOUS
  <2>3. T = Nat
    <3> HIDE DEF T
    <3> QED BY <2>1, <2>2, NumbersByOne
  <2> QED BY <2>3
<1>4. PICK f \in [0 .. Len(s) -> Nat] : Sums(f, s, Len(s))
  BY <1>0, <1>3
<1> DEFINE t == CHOOSE g : Sums(g, s, Len(s))
<1>5. Totals(s) = t
  BY DEF Totals, Sums
<1> HIDE DEF t
<1>6. Sums(t, s, Len(s))
  BY <1>4 DEF t
<1>7. t = [i \in 0 .. Len(s) |-> IF i = 0 THEN 0 ELSE t[i - 1] + s[i]]
  BY <1>6 DEF Sums
<1>8. t[0] = 0 /\ \A i \in 1 .. Len(s) : t[i] = t[i - 1] + s[i]
  BY <1>0, <1>7
<1> DEFINE U == {n \in Nat : n <= Len(s) => t[n] \in Nat}
<1>9. U = Nat
  <2>1. 0 \in U
    BY <1>8
  <2>2. ASSUME NEW n \in U PROVE n + 1 \in U
    BY <1>0, <1>8
  <2> HIDE DEF U
  <2> QED BY <2>1, <2>2, NumbersByOne DEF U
<1>10. \A i \in 0 .. Len(s) : t[i] \in Nat
  BY <1>0, <1>9
<1>11. t \in [0 .. Len(s) -> Nat]
  BY <1>7, <1>10
<1> QED BY <1>5, <1>8, <1>11

(* Sequences that begin alike have the same totals so far, *)
LEMMA TotalsAlike ==
    ASSUME NEW s \in Seq(Nat), NEW t \in Seq(Nat), NEW m \in Nat, m <= Len(s), m <= Len(t),
           \A i \in 1 .. m : s[i] = t[i]
    PROVE  \A i \in 0 .. m : Totals(s)[i] = Totals(t)[i]
<1> DEFINE T == {n \in Nat : n <= m => Totals(s)[n] = Totals(t)[n]}
<1>1. 0 \in T
  BY TotalsGrow
<1>2. ASSUME NEW n \in T PROVE n + 1 \in T
  <2> SUFFICES ASSUME n + 1 <= m PROVE Totals(s)[n + 1] = Totals(t)[n + 1]
    OBVIOUS
  <2>1. Totals(s)[n] = Totals(t)[n] /\ s[n + 1] = t[n + 1]
    OBVIOUS
  <2>2. Totals(s)[n + 1] = Totals(s)[n] + s[n + 1]
    BY TotalsGrow
  <2>3. Totals(t)[n + 1] = Totals(t)[n] + t[n + 1]
    BY TotalsGrow
  <2> QED BY <2>1, <2>2, <2>3
<1> HIDE DEF T
<1>3. T = Nat
  BY <1>1, <1>2, NumbersByOne DEF T
<1> QED BY <1>3 DEF T

(* and they never fall. *)
LEMMA TotalsRise ==
    ASSUME NEW s \in Seq(Nat), NEW i \in 0 .. Len(s), NEW j \in i .. Len(s)
    PROVE  Totals(s)[i] <= Totals(s)[j]
<1> DEFINE T == {n \in Nat : i + n <= Len(s) => Totals(s)[i] <= Totals(s)[i + n]}
<1>0. Totals(s) \in [0 .. Len(s) -> Nat] /\ Len(s) \in Nat
  BY TotalsGrow
<1>1. 0 \in T
  BY <1>0
<1>2. ASSUME NEW n \in T PROVE n + 1 \in T
  <2> SUFFICES ASSUME i + (n + 1) <= Len(s) PROVE Totals(s)[i] <= Totals(s)[i + (n + 1)]
    OBVIOUS
  <2>1. Totals(s)[i + (n + 1)] = Totals(s)[i + n] + s[i + (n + 1)]
    <3>1. i + (n + 1) \in 1 .. Len(s) /\ (i + (n + 1)) - 1 = i + n
      BY <1>0
    <3> QED BY <3>1, TotalsGrow
  <2>2. Totals(s)[i] <= Totals(s)[i + n]
    BY <1>0
  <2>3. i + (n + 1) \in 1 .. Len(s) /\ i + n \in 0 .. Len(s)
    BY <1>0
  <2>4. s[i + (n + 1)] \in Nat
    BY <2>3
  <2>5. Totals(s)[i + n] \in Nat /\ Totals(s)[i] \in Nat
    BY <1>0, <2>3
  <2> QED BY <2>1, <2>2, <2>4, <2>5
<1> HIDE DEF T
<1>3. T = Nat
  BY <1>1, <1>2, NumbersByOne DEF T
<1>4. j - i \in T
  BY <1>0, <1>3
<1>5. i + (j - i) = j /\ i + (j - i) <= Len(s)
  BY <1>0
<1> QED BY <1>4, <1>5 DEF T

(* Two sequences are the same if they have the same members. *)
LEMMA SameSequence ==
    ASSUME NEW S, NEW s \in Seq(S), NEW t \in Seq(S), Len(s) = Len(t),
           \A i \in 1 .. Len(s) : s[i] = t[i]
    PROVE  s = t
OBVIOUS

-------------------------------------------------------------------------------
(* Selections *)

Picks(f, s, S, n) ==
    f = [i \in 0 .. n |->
           IF i = 0 THEN <<>>
           ELSE IF s[i] \in S THEN Append(f[i - 1], s[i]) ELSE f[i - 1]]

(* A selection takes up one position after the other, *)
LEMMA ChosenGrows ==
    ASSUME NEW A, NEW s \in Seq(A), NEW S
    PROVE  /\ ChosenUpTo(s, S)[0] = <<>>
           /\ \A i \in 1 .. Len(s) :
                 ChosenUpTo(s, S)[i] = IF s[i] \in S THEN Append(ChosenUpTo(s, S)[i - 1], s[i])
                                       ELSE ChosenUpTo(s, S)[i - 1]
<1> DEFINE Picked(n) == n <= Len(s) => \E f : Picks(f, s, S, n)
           T == {n \in Nat : Picked(n)}
<1>0. Len(s) \in Nat
  OBVIOUS
<1>1. Picked(0)
  <2> DEFINE f == [i \in 0 .. 0 |-> <<>>]
  <2>1. \A i \in 0 .. 0 : i = 0
    OBVIOUS
  <2>2. Picks(f, s, S, 0)
    BY <2>1 DEF Picks
  <2> HIDE DEF f
  <2> QED BY <2>2
<1>2. ASSUME NEW n \in Nat, Picked(n) PROVE Picked(n + 1)
  <2> SUFFICES ASSUME n + 1 <= Len(s) PROVE \E f : Picks(f, s, S, n + 1)
    OBVIOUS
  <2>0. n \in Nat /\ n <= Len(s)
    BY <1>0
  <2>1. PICK f : Picks(f, s, S, n)
    BY <1>2, <2>0
  <2> DEFINE last == IF s[n + 1] \in S THEN Append(f[n], s[n + 1]) ELSE f[n]
             g == [i \in 0 .. n + 1 |-> IF i = n + 1 THEN last ELSE f[i]]
  <2>3. ASSUME NEW i \in 0 .. n + 1
        PROVE  g[i] = IF i = 0 THEN <<>>
                      ELSE IF s[i] \in S THEN Append(g[i - 1], s[i]) ELSE g[i - 1]
    <3>1. CASE i = n + 1
      <4>1. i # 0 /\ i - 1 = n /\ g[i] = last /\ g[i - 1] = f[n]
        BY <2>0, <3>1
      <4> QED BY <3>1, <4>1
    <3>2. CASE i \in 0 .. n
      <4>1. f[i] = IF i = 0 THEN <<>>
                   ELSE IF s[i] \in S THEN Append(f[i - 1], s[i]) ELSE f[i - 1]
        BY <2>1, <3>2 DEF Picks
      <4>2. g[i] = f[i] /\ (i # 0 => g[i - 1] = f[i - 1])
        <5> HIDE DEF last
        <5> QED BY <2>0, <3>2
      <4> HIDE DEF g
      <4> QED BY <4>1, <4>2
    <3> QED BY <2>0, <3>1, <3>2
  <2>4. Picks(g, s, S, n + 1)
    BY <2>3 DEF Picks
  <2> HIDE DEF g
  <2> QED BY <2>4
<1>3. \A n \in Nat : Picked(n)
  <2> HIDE DEF Picked
  <2>1. 0 \in T /\ \A n \in T : n + 1 \in T
    BY <1>1, <1>2
  <2>2. T \subseteq Nat
    OBVIOUS
  <2>3. T = Nat
    <3> HIDE DEF T
    <3> QED BY <2>1, <2>2, NumbersByOne
  <2> QED BY <2>3
<1>4. \E f : Picks(f, s, S, Len(s))
  BY <1>0, <1>3
<1> DEFINE t == CHOOSE g : Picks(g, s, S, Len(s))
<1>5. ChosenUpTo(s, S) = t
  BY DEF ChosenUpTo, Picks
<1>6. Picks(t, s, S, Len(s))
  BY <1>4
<1> HIDE DEF t
<1>7. t = [i \in 0 .. Len(s) |->
             IF i = 0 THEN <<>> ELSE IF s[i] \in S THEN Append(t[i - 1], s[i]) ELSE t[i - 1]]
  BY <1>6 DEF Picks
<1>8. /\ t[0] = <<>>
      /\ \A i \in 1 .. Len(s) :
            t[i] = IF s[i] \in S THEN Append(t[i - 1], s[i]) ELSE t[i - 1]
  <2> DEFINE next(i) == IF i = 0 THEN <<>>
                        ELSE IF s[i] \in S THEN Append(t[i - 1], s[i]) ELSE t[i - 1]
  <2>1. t = [i \in 0 .. Len(s) |-> next(i)]
    BY <1>7
  <2>2. \A i \in 0 .. Len(s) : t[i] = next(i)
    <3> HIDE DEF next
    <3> QED BY <2>1
  <2>3. 0 \in 0 .. Len(s) /\ \A i \in 1 .. Len(s) : i \in 0 .. Len(s) /\ i # 0
    BY <1>0
  <2> QED BY <2>2, <2>3
<1> QED BY <1>5, <1>8

(* so it is a sequence of members of the one it was taken from, and of the set. *)
LEMMA ChosenType ==
    ASSUME NEW A, NEW s \in Seq(A), NEW S
    PROVE  /\ \A i \in 0 .. Len(s) : ChosenUpTo(s, S)[i] \in Seq(A \cap S)
           /\ Chosen(s, S) \in Seq(A \cap S)
<1> DEFINE T == {n \in Nat : n <= Len(s) => ChosenUpTo(s, S)[n] \in Seq(A \cap S)}
<1>0. Len(s) \in Nat
  OBVIOUS
<1>1. 0 \in T
  <2>1. ChosenUpTo(s, S)[0] = <<>>
    BY ChosenGrows
  <2>2. <<>> \in Seq(A \cap S)
    OBVIOUS
  <2> QED BY <2>1, <2>2
<1>2. ASSUME NEW n \in T PROVE n + 1 \in T
  <2> SUFFICES ASSUME n + 1 <= Len(s) PROVE ChosenUpTo(s, S)[n + 1] \in Seq(A \cap S)
    OBVIOUS
  <2>1. n + 1 \in 1 .. Len(s) /\ (n + 1) - 1 = n /\ s[n + 1] \in A
    BY <1>0
  <2>2. ChosenUpTo(s, S)[n] \in Seq(A \cap S)
    BY <1>0
  <2>3. ChosenUpTo(s, S)[n + 1] = IF s[n + 1] \in S THEN Append(ChosenUpTo(s, S)[n], s[n + 1])
                                  ELSE ChosenUpTo(s, S)[n]
    BY <2>1, ChosenGrows
  <2> QED BY <2>1, <2>2, <2>3
<1> HIDE DEF T
<1>3. T = Nat
  BY <1>1, <1>2, NumbersByOne DEF T
<1>4. \A i \in 0 .. Len(s) : ChosenUpTo(s, S)[i] \in Seq(A \cap S)
  BY <1>0, <1>3 DEF T
<1> QED BY <1>0, <1>4 DEF Chosen

(* Sequences that begin alike, and sets that agree on the beginning, have the same
   selections so far, *)
LEMMA ChosenAlike ==
    ASSUME NEW A, NEW s \in Seq(A), NEW t \in Seq(A), NEW S, NEW Z, NEW m \in Nat,
           m <= Len(s), m <= Len(t),
           \A i \in 1 .. m : s[i] = t[i] /\ (s[i] \in S <=> s[i] \in Z)
    PROVE  ChosenUpTo(s, S)[m] = ChosenUpTo(t, Z)[m]
<1> DEFINE T == {n \in Nat : n <= m => ChosenUpTo(s, S)[n] = ChosenUpTo(t, Z)[n]}
<1>0. Len(s) \in Nat /\ Len(t) \in Nat
  OBVIOUS
<1>1. 0 \in T
  BY ChosenGrows
<1>2. ASSUME NEW n \in T PROVE n + 1 \in T
  <2> SUFFICES ASSUME n + 1 <= m PROVE ChosenUpTo(s, S)[n + 1] = ChosenUpTo(t, Z)[n + 1]
    OBVIOUS
  <2>1. /\ n + 1 \in 1 .. Len(s) /\ n + 1 \in 1 .. Len(t) /\ (n + 1) - 1 = n
        /\ s[n + 1] = t[n + 1] /\ (s[n + 1] \in S <=> s[n + 1] \in Z)
        /\ ChosenUpTo(s, S)[n] = ChosenUpTo(t, Z)[n]
    BY <1>0
  <2>2. ChosenUpTo(s, S)[n + 1] = IF s[n + 1] \in S THEN Append(ChosenUpTo(s, S)[n], s[n + 1])
                                  ELSE ChosenUpTo(s, S)[n]
    BY <2>1, ChosenGrows
  <2>3. ChosenUpTo(t, Z)[n + 1] = IF t[n + 1] \in Z THEN Append(ChosenUpTo(t, Z)[n], t[n + 1])
                                  ELSE ChosenUpTo(t, Z)[n]
    BY <2>1, ChosenGrows
  <2> QED BY <2>1, <2>2, <2>3
<1> HIDE DEF T
<1>3. T = Nat
  BY <1>1, <1>2, NumbersByOne DEF T
<1> QED BY <1>3 DEF T

(* and what is appended is selected last, or not at all. *)
LEMMA ChosenAppend ==
    ASSUME NEW A, NEW s \in Seq(A), NEW e \in A, NEW S, NEW Z,
           \A i \in 1 .. Len(s) : s[i] \in S <=> s[i] \in Z
    PROVE  Chosen(Append(s, e), Z) = IF e \in Z THEN Append(Chosen(s, S), e) ELSE Chosen(s, S)
<1> DEFINE t == Append(s, e)
           n == Len(s)
<1>1. t \in Seq(A) /\ Len(t) = n + 1 /\ n \in Nat /\ t[n + 1] = e
      /\ \A i \in 1 .. n : t[i] = s[i]
  OBVIOUS
<1> HIDE DEF t
<1>2. ChosenUpTo(s, S)[n] = ChosenUpTo(t, Z)[n]
  <2>1. n \in Nat /\ n <= Len(s) /\ n <= Len(t)
        /\ \A i \in 1 .. n : s[i] = t[i] /\ (s[i] \in S <=> s[i] \in Z)
    BY <1>1
  <2> HIDE DEF n
  <2> QED BY <1>1, <2>1, ChosenAlike
<1>3. ChosenUpTo(t, Z)[n + 1] = IF t[n + 1] \in Z THEN Append(ChosenUpTo(t, Z)[n], t[n + 1])
                                ELSE ChosenUpTo(t, Z)[n]
  <2>1. n + 1 \in 1 .. Len(t) /\ (n + 1) - 1 = n
    BY <1>1
  <2> QED BY <1>1, <2>1, ChosenGrows
<1> QED BY <1>1, <1>2, <1>3 DEF Chosen, t
(* A selection from a sequence that has a member of the set is not empty. *)
LEMMA ChosenSome ==
    ASSUME NEW A, NEW s \in Seq(A), NEW S, NEW k \in 1 .. Len(s), s[k] \in S
    PROVE  Chosen(s, S) # <<>>
<1> DEFINE T == {n \in Nat : k <= n /\ n <= Len(s) => ChosenUpTo(s, S)[n] # <<>>}
<1>0. Len(s) \in Nat /\ k \in Nat /\ 0 < k /\ k <= Len(s)
  OBVIOUS
<1>1. 0 \in T
  BY <1>0
<1>2. ASSUME NEW n \in T PROVE n + 1 \in T
  <2> SUFFICES ASSUME k <= n + 1, n + 1 <= Len(s) PROVE ChosenUpTo(s, S)[n + 1] # <<>>
    OBVIOUS
  <2>1. n + 1 \in 1 .. Len(s) /\ (n + 1) - 1 = n /\ n \in 0 .. Len(s)
    BY <1>0
  <2>2. ChosenUpTo(s, S)[n + 1] = IF s[n + 1] \in S THEN Append(ChosenUpTo(s, S)[n], s[n + 1])
                                  ELSE ChosenUpTo(s, S)[n]
    BY <2>1, ChosenGrows
  <2>3. ChosenUpTo(s, S)[n] \in Seq(A \cap S)
    BY <2>1, ChosenType
  <2>4. ASSUME s[n + 1] \notin S PROVE k <= n
    BY <1>0, <2>4
  <2>5. ASSUME s[n + 1] \in S PROVE ChosenUpTo(s, S)[n + 1] # <<>>
    <3> DEFINE p == ChosenUpTo(s, S)[n]
    <3>1. ChosenUpTo(s, S)[n + 1] = Append(p, s[n + 1]) /\ p \in Seq(A)
      BY <2>2, <2>3, <2>5
    <3> HIDE DEF p
    <3> QED BY <3>1
  <2> QED BY <2>1, <2>2, <2>4, <2>5
<1> HIDE DEF T
<1>3. T = Nat
  BY <1>1, <1>2, NumbersByOne DEF T
<1> QED BY <1>0, <1>3 DEF T, Chosen

(* Sets that agree on a sequence select the same of it. *)
LEMMA ChosenSame ==
    ASSUME NEW A, NEW s \in Seq(A), NEW S, NEW Z,
           \A i \in 1 .. Len(s) : s[i] \in S <=> s[i] \in Z
    PROVE  Chosen(s, S) = Chosen(s, Z)
<1> DEFINE m == Len(s)
<1>1. m \in Nat /\ m <= Len(s) /\ \A i \in 1 .. m : s[i] = s[i] /\ (s[i] \in S <=> s[i] \in Z)
  OBVIOUS
<1> HIDE DEF m
<1>2. ChosenUpTo(s, S)[m] = ChosenUpTo(s, Z)[m]
  BY <1>1, ChosenAlike
<1> QED BY <1>2 DEF Chosen, m

(* A selection is no longer than what it was taken from. *)
LEMMA ChosenShort ==
    ASSUME NEW A, NEW s \in Seq(A), NEW S
    PROVE  Len(Chosen(s, S)) <= Len(s)
<1> DEFINE T == {n \in Nat : n <= Len(s) => Len(ChosenUpTo(s, S)[n]) <= n}
<1>0. Len(s) \in Nat
  OBVIOUS
<1>1. 0 \in T
  <2>1. ChosenUpTo(s, S)[0] = <<>>
    BY ChosenGrows
  <2> QED BY <2>1
<1>2. ASSUME NEW n \in T PROVE n + 1 \in T
  <2> SUFFICES ASSUME n + 1 <= Len(s) PROVE Len(ChosenUpTo(s, S)[n + 1]) <= n + 1
    OBVIOUS
  <2>1. n + 1 \in 1 .. Len(s) /\ (n + 1) - 1 = n /\ n \in 0 .. Len(s)
    BY <1>0
  <2>2. Len(ChosenUpTo(s, S)[n]) <= n
    BY <2>1
  <2>3. ChosenUpTo(s, S)[n] \in Seq(A \cap S)
    BY <2>1, ChosenType
  <2>4. ChosenUpTo(s, S)[n + 1] = IF s[n + 1] \in S THEN Append(ChosenUpTo(s, S)[n], s[n + 1])
                                  ELSE ChosenUpTo(s, S)[n]
    BY <2>1, ChosenGrows
  <2> DEFINE c == ChosenUpTo(s, S)[n]
  <2> HIDE DEF c
  <2>5. c \in Seq(A \cap S) /\ Len(c) \in Nat /\ Len(c) <= n /\ Len(Append(c, s[n + 1])) = Len(c) + 1
    BY <2>2, <2>3 DEF c
  <2>6. Len(ChosenUpTo(s, S)[n + 1]) \in {Len(c), Len(c) + 1}
    BY <2>4, <2>5 DEF c
  <2> QED BY <2>1, <2>5, <2>6
<1> HIDE DEF T
<1>3. T = Nat
  BY <1>1, <1>2, NumbersByOne DEF T
<1> QED BY <1>0, <1>3 DEF T, Chosen

(* If a beginning of a sequence, and no more of it, is in the set, that is what is
   selected. *)
LEMMA ChosenBeginning ==
    ASSUME NEW A, NEW s \in Seq(A), NEW S, NEW m \in 0 .. Len(s),
           \A i \in 1 .. Len(s) : s[i] \in S <=> i <= m
    PROVE  Len(Chosen(s, S)) = m /\ \A i \in 1 .. m : Chosen(s, S)[i] = s[i]
<1> DEFINE c(n) == ChosenUpTo(s, S)[n]
           least(n) == IF n <= m THEN n ELSE m
           Right(n) == Len(c(n)) = least(n) /\ \A i \in 1 .. least(n) : c(n)[i] = s[i]
           T == {n \in Nat : n <= Len(s) => Right(n)}
<1>0. Len(s) \in Nat /\ m \in Nat /\ m <= Len(s)
  OBVIOUS
<1>1. 0 \in T
  <2>1. c(0) = <<>> /\ least(0) = 0
    BY <1>0, ChosenGrows
  <2> QED BY <2>1
<1>2. ASSUME NEW n \in T PROVE n + 1 \in T
  <2> SUFFICES ASSUME n + 1 <= Len(s) PROVE Right(n + 1)
    OBVIOUS
  <2>1. n + 1 \in 1 .. Len(s) /\ (n + 1) - 1 = n /\ n \in 0 .. Len(s) /\ n \in Nat
    BY <1>0
  <2>2. Right(n)
    BY <2>1
  <2>3. c(n) \in Seq(A \cap S)
    BY <2>1, ChosenType
  <2>4. c(n + 1) = IF s[n + 1] \in S THEN Append(c(n), s[n + 1]) ELSE c(n)
    BY <2>1, ChosenGrows
  <2> HIDE DEF c
  <2>5. CASE n + 1 <= m
    <3>1. least(n) = n /\ least(n + 1) = n + 1
      BY <1>0, <2>1, <2>5
    <3>2. c(n + 1) = Append(c(n), s[n + 1])
      BY <2>1, <2>4, <2>5
    <3>3. Len(c(n)) = n /\ \A i \in 1 .. n : c(n)[i] = s[i]
      BY <2>2, <3>1
    <3> HIDE DEF least
    <3>4. Len(c(n + 1)) = n + 1 /\ \A i \in 1 .. n + 1 : c(n + 1)[i] = s[i]
      <4>1. s[n + 1] \in A
        BY <2>1
      <4>2. s[n + 1] \in A \cap S
        BY <2>1, <2>5, <4>1
      <4> QED BY <2>1, <2>3, <3>2, <3>3, <4>2
    <3> QED BY <3>1, <3>4
  <2>6. CASE n + 1 > m
    <3>1. least(n) = m /\ least(n + 1) = m
      BY <1>0, <2>1, <2>6
    <3>2. c(n + 1) = c(n)
      BY <1>0, <2>1, <2>4, <2>6
    <3> QED BY <2>2, <3>1, <3>2
  <2> QED BY <1>0, <2>1, <2>5, <2>6
<1> HIDE DEF T
<1>3. T = Nat
  BY <1>1, <1>2, NumbersByOne DEF T
<1>4. Right(Len(s)) /\ least(Len(s)) = m
  BY <1>0, <1>3 DEF T
<1> QED BY <1>4 DEF Chosen

-------------------------------------------------------------------------------
(* Concatenations *)

Flattens(f, s, n) == f = [i \in 1 .. n |-> IF i = 1 THEN s[i] ELSE f[i - 1] \o s[i]]

(* Flattening a sequence of sequences of some set gives such a sequence. *)
LEMMA FlattenType ==
    ASSUME NEW S, NEW s \in Seq(Seq(S))
    PROVE  FlattenSeq(s) \in Seq(S)
<1> DEFINE Flat(n) == n <= Len(s) => \E f : Flattens(f, s, n)
           T == {n \in Nat : Flat(n)}
<1>0. Len(s) \in Nat /\ \A i \in 1 .. Len(s) : s[i] \in Seq(S)
  OBVIOUS
<1>1. Flat(0)
  <2> DEFINE f == [i \in 1 .. 0 |-> <<>>]
  <2>1. Flattens(f, s, 0)
    <3>1. 1 .. 0 = {}
      OBVIOUS
    <3> QED BY <3>1 DEF Flattens
  <2> HIDE DEF f
  <2> QED BY <2>1
<1>2. ASSUME NEW n \in Nat, Flat(n) PROVE Flat(n + 1)
  <2> SUFFICES ASSUME n + 1 <= Len(s) PROVE \E f : Flattens(f, s, n + 1)
    OBVIOUS
  <2>0. n \in Nat /\ n <= Len(s)
    BY <1>0
  <2>1. PICK f : Flattens(f, s, n)
    BY <1>2, <2>0
  <2> DEFINE last == IF n + 1 = 1 THEN s[n + 1] ELSE f[n] \o s[n + 1]
             g == [i \in 1 .. n + 1 |-> IF i = n + 1 THEN last ELSE f[i]]
  <2>2. ASSUME NEW i \in 1 .. n + 1 PROVE g[i] = IF i = 1 THEN s[i] ELSE g[i - 1] \o s[i]
    <3>1. CASE i = n + 1
      <4>1. g[i] = last /\ (i # 1 => i - 1 = n /\ g[i - 1] = f[n])
        BY <2>0, <3>1
      <4> QED BY <3>1, <4>1
    <3>2. CASE i \in 1 .. n
      <4>1. f[i] = IF i = 1 THEN s[i] ELSE f[i - 1] \o s[i]
        BY <2>1, <3>2 DEF Flattens
      <4>2. g[i] = f[i] /\ (i # 1 => g[i - 1] = f[i - 1])
        <5> HIDE DEF last
        <5> QED BY <2>0, <3>2
      <4> HIDE DEF g
      <4> QED BY <4>1, <4>2
    <3> QED BY <2>0, <3>1, <3>2
  <2>3. Flattens(g, s, n + 1)
    BY <2>2 DEF Flattens
  <2> HIDE DEF g
  <2> QED BY <2>3
<1>3. \A n \in Nat : Flat(n)
  <2> HIDE DEF Flat
  <2>1. 0 \in T /\ \A n \in T : n + 1 \in T
    BY <1>1, <1>2
  <2>2. T \subseteq Nat
    OBVIOUS
  <2>3. T = Nat
    <3> HIDE DEF T
    <3> QED BY <2>1, <2>2, NumbersByOne
  <2> QED BY <2>3
<1> DEFINE t == CHOOSE g : Flattens(g, s, Len(s))
<1>4. FlattenSeq(s) = IF Len(s) = 0 THEN s ELSE t[Len(s)]
  BY DEF FlattenSeq, Flattens
<1>5. Flattens(t, s, Len(s))
  BY <1>0, <1>3
<1> HIDE DEF t
<1>6. t = [i \in 1 .. Len(s) |-> IF i = 1 THEN s[i] ELSE t[i - 1] \o s[i]]
  BY <1>5 DEF Flattens
<1>7. \A i \in 1 .. Len(s) : t[i] = IF i = 1 THEN s[i] ELSE t[i - 1] \o s[i]
  <2> DEFINE next(i) == IF i = 1 THEN s[i] ELSE t[i - 1] \o s[i]
  <2>1. t = [i \in 1 .. Len(s) |-> next(i)]
    BY <1>6
  <2>2. \A i \in 1 .. Len(s) : t[i] = next(i)
    <3> HIDE DEF next
    <3> QED BY <2>1
  <2> QED BY <2>2
<1> DEFINE U == {n \in Nat : n \in 1 .. Len(s) => t[n] \in Seq(S)}
<1>8. 0 \in U
  OBVIOUS
<1>9. ASSUME NEW n \in U PROVE n + 1 \in U
  <2> SUFFICES ASSUME n + 1 \in 1 .. Len(s) PROVE t[n + 1] \in Seq(S)
    OBVIOUS
  <2>1. n + 1 = 1 \/ n \in 1 .. Len(s)
    BY <1>0
  <2>2. s[n + 1] \in Seq(S)
    BY <1>0
  <2>3. t[n + 1] = IF n + 1 = 1 THEN s[n + 1] ELSE t[n] \o s[n + 1]
    <3>1. (n + 1) - 1 = n
      OBVIOUS
    <3> QED BY <1>7, <3>1
  <2>4. n \in 1 .. Len(s) => t[n] \in Seq(S)
    OBVIOUS
  <2> QED BY <2>1, <2>2, <2>3, <2>4
<1> HIDE DEF U
<1>10. U = Nat
  BY <1>8, <1>9, NumbersByOne DEF U
<1>11. CASE Len(s) = 0
  <2>1. s = <<>>
    BY <1>11
  <2> QED BY <1>4, <1>11, <2>1
<1>12. CASE Len(s) # 0
  <2>1. Len(s) \in 1 .. Len(s)
    BY <1>0, <1>12
  <2> QED BY <1>0, <1>4, <1>10, <1>12, <2>1 DEF U
<1> QED BY <1>11, <1>12
===============================================================================
