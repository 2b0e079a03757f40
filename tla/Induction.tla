----------------------------- MODULE Induction -----------------------------
(***************************************************************************)
(* Induction for proofs that count: what holds of 0 and passes from each    *)
(* number to the next holds of all, stated over sets so that the provers    *)
(* can apply it, and the existence of the values of a loop that adds up.   *)
(***************************************************************************)
EXTENDS Integers, WellFoundedInduction, TLAPS

\* A set of natural numbers that is not empty has a least member.
LEMMA LeastNumber ==
    ASSUME NEW S \in SUBSET Nat, S # {}
    PROVE  \E least \in S : \A m \in S : least <= m
  <1> DEFINE R == OpToRel(<, Nat)
  <1>1. IsWellFoundedOn(R, Nat)
    BY NatLessThanWellFounded, Zenon
  <1>2. R = {pair \in Nat \X Nat : pair[1] < pair[2]}
    BY Zenon DEF OpToRel
  <1> HIDE DEF R
  <1>3. PICK least \in S : \A m \in S : ~(<<m, least>> \in R)
    BY <1>1, WFMin, Zenon
  <1>4. ASSUME NEW m \in S, m < least PROVE FALSE
    <2>1. <<m, least>> \in Nat \X Nat /\ <<m, least>>[1] < <<m, least>>[2]
      BY <1>4
    <2>2. <<m, least>> \in R
      BY ONLY <2>1, <1>2
    <2> QED BY <2>2, <1>3
  <1> QED BY <1>3, <1>4

\* What holds of 0 and passes from i - 1 to i holds of all numbers up to n.
LEMMA UpTo ==
    ASSUME NEW n \in Nat, NEW Good, 0 \in Good,
           \A i \in 1 .. n : i - 1 \in Good => i \in Good
    PROVE  \A i \in 0 .. n : i \in Good
  <1> DEFINE Bad == {i \in 0 .. n : i \notin Good}
  <1> SUFFICES ASSUME Bad # {} PROVE FALSE
    OBVIOUS
  <1>1. Bad \in SUBSET Nat
    OBVIOUS
  <1>2. PICK least \in Bad : \A m \in Bad : least <= m
    BY <1>1, LeastNumber
  <1>3. least \in 1 .. n /\ least - 1 \in 0 .. n /\ ~(least <= least - 1)
    BY <1>2
  <1>4. least - 1 \in Good
    BY <1>2, <1>3
  <1> QED BY <1>2, <1>3, <1>4

\* A loop that adds up has values: the running totals of any numbers exist.
LEMMA RunningTotals ==
    ASSUME NEW n \in Nat, NEW item \in [1 .. n -> Int]
    PROVE  \E g \in [0 .. n -> Int] :
             g[0] = 0 /\ \A i \in 1 .. n : g[i] = g[i - 1] + item[i]
  <1> DEFINE Totals(g, m) == g[0] = 0 /\ \A i \in 1 .. m : g[i] = g[i - 1] + item[i]
             Good == {m \in 0 .. n : \E g \in [0 .. m -> Int] : Totals(g, m)}
  <1>1. 0 \in Good
    <2> DEFINE g == [i \in 0 .. 0 |-> 0]
    <2>1. g \in [0 .. 0 -> Int] /\ g[0] = 0
      OBVIOUS
    <2>2. Totals(g, 0)
      BY <2>1
    <2> HIDE DEF g
    <2> QED BY <2>1, <2>2
  <1>2. ASSUME NEW m \in 1 .. n, m - 1 \in Good PROVE m \in Good
    <2>1. PICK g \in [0 .. m - 1 -> Int] : Totals(g, m - 1)
      BY <1>2
    <2> DEFINE h == [i \in 0 .. m |-> IF i = m THEN g[m - 1] + item[m] ELSE g[i]]
    <2>2. g[m - 1] \in Int /\ item[m] \in Int
      BY <2>1
    <2>3. h \in [0 .. m -> Int]
      BY <2>1, <2>2
    <2>4. h[0] = 0 /\ h[m] = g[m - 1] + item[m] /\ \A i \in 0 .. m - 1 : h[i] = g[i]
      BY <2>1
    <2> HIDE DEF h
    <2>5. ASSUME NEW i \in 1 .. m PROVE h[i] = h[i - 1] + item[i]
      <3>1. CASE i = m
        BY <3>1, <2>4
      <3>2. CASE i # m
        <4>1. i \in 1 .. m - 1 /\ i \in 0 .. m - 1 /\ i - 1 \in 0 .. m - 1
          BY <3>2
        <4>2. h[i] = g[i] /\ h[i - 1] = g[i - 1]
          BY <4>1, <2>4
        <4>3. g[i] = g[i - 1] + item[i]
          BY <4>1, <2>1
        <4> QED BY <4>2, <4>3
      <3> QED BY <3>1, <3>2
    <2>6. Totals(h, m)
      BY <2>4, <2>5
    <2> HIDE DEF Totals
    <2> QED BY <2>3, <2>6
  <1> HIDE DEF Good
  <1>3. n \in Good
    <2>1. \A m \in 1 .. n : m - 1 \in Good => m \in Good
      BY <1>2
    <2>2. \A m \in 0 .. n : m \in Good
      BY ONLY <1>1, <2>1, n \in Nat, UpTo, Zenon
    <2> QED BY <2>2
  <1>4. PICK g \in [0 .. n -> Int] : Totals(g, n)
    BY <1>3 DEF Good
  <1> QED BY <1>4
=============================================================================
