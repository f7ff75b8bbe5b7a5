------------------------------ MODULE NumberLemmas ------------------------------
(***************************************************************************)
(* Induction and recursion over the natural numbers, stated of sets and of *)
(* functions: what the proofs about recursive functions rest on.           *)
(***************************************************************************)
EXTENDS Naturals, WellFoundedInduction, TLAPS

\* A set of numbers that has 0, and with each number the next, has all of them.
LEMMA FromZero ==
  ASSUME NEW S, 0 \in S, \A n \in Nat : n \in S => n + 1 \in S
  PROVE  \A n \in Nat : n \in S
<1> DEFINE R == OpToRel(<, Nat)
           T == Nat \ S
<1>1. SUFFICES ASSUME T # {} PROVE FALSE
  OBVIOUS
<1>2. IsWellFoundedOn(R, Nat)
  BY NatLessThanWellFounded
<1>3. PICK x \in T : \A y \in T : <<y, x>> \notin R
  <2>1. T \subseteq Nat
    OBVIOUS
  <2> HIDE DEF R, T
  <2> QED
    BY <1>1, <1>2, <2>1, WFMin
<1>4. x \in Nat /\ x # 0
  BY <1>3
<1>5. x - 1 \in Nat /\ x - 1 < x
  BY <1>4
<1>6. <<x - 1, x>> \in R
  BY <1>4, <1>5 DEF OpToRel
<1>7. x - 1 \in S
  <2> HIDE DEF R
  <2> QED
    BY <1>3, <1>5, <1>6
<1>8. (x - 1) + 1 \in S /\ (x - 1) + 1 = x
  BY <1>4, <1>5, <1>7
<1> HIDE DEF R
<1> QED
  BY <1>3, <1>8

\* What a function says of a number by what it says of the one before.
Follows(f, n, a, h) ==
  \A k \in 0..n : f[k] = IF k = 0 THEN a ELSE h[<<k, f[k - 1]>>]

LEMMA FollowsFrom ==
  ASSUME NEW n \in Nat, NEW f, NEW a, NEW h, Follows(f, n, a, h)
  PROVE  f[0] = a
<1>1. 0 \in 0..n
  OBVIOUS
<1> QED
  BY <1>1, Zenon DEF Follows

\* Two such functions agree.
LEMMA FollowsAlike ==
  ASSUME NEW a, NEW h, NEW f, NEW g, NEW m \in Nat,
         Follows(f, m, a, h), Follows(g, m, a, h)
  PROVE  \A k \in 0..m : f[k] = g[k]
<1> DEFINE S == {k \in Nat : k <= m => f[k] = g[k]}
<1>1. 0 \in S
  BY FollowsFrom
<1>2. ASSUME NEW n \in Nat, n \in S PROVE n + 1 \in S
  <2>1. SUFFICES ASSUME n + 1 <= m PROVE f[n + 1] = g[n + 1]
    OBVIOUS
  <2>2. n + 1 \in 0..m /\ (n + 1) - 1 = n /\ n + 1 # 0
    BY <2>1
  <2>3. f[n] = g[n]
    BY <1>2, <2>1
  <2> QED
    BY <2>2, <2>3 DEF Follows
<1>3. \A n \in Nat : n \in S
  <2> HIDE DEF S
  <2> QED
    BY <1>1, <1>2, FromZero
<1> QED
  BY <1>3

\* There is one for each initial part of the numbers,
LEMMA FollowsUpTo ==
  ASSUME NEW V, NEW a \in V, NEW h \in [Nat \X V -> V]
  PROVE  \A n \in Nat : \E f \in [0..n -> V] : Follows(f, n, a, h)
<1> DEFINE S == {n \in Nat : \E f \in [0..n -> V] : Follows(f, n, a, h)}
<1>1. 0 \in S
  <2>1. [k \in 0..0 |-> a] \in [0..0 -> V] /\ Follows([k \in 0..0 |-> a], 0, a, h)
    BY DEF Follows
  <2> QED
    BY <2>1
<1>2. ASSUME NEW n \in Nat, n \in S PROVE n + 1 \in S
  <2>1. PICK f \in [0..n -> V] : Follows(f, n, a, h)
    BY <1>2
  <2> DEFINE g == [k \in 0..(n + 1) |-> IF k = n + 1 THEN h[<<n + 1, f[n]>>] ELSE f[k]]
  <2>2. h[<<n + 1, f[n]>>] \in V
    OBVIOUS
  <2>3. g \in [0..(n + 1) -> V]
    BY <2>2
  <2>4. ASSUME NEW k \in 0..(n + 1) PROVE g[k] = IF k = 0 THEN a ELSE h[<<k, g[k - 1]>>]
    <3>1. CASE k = n + 1
      <4>1. k # 0 /\ k - 1 = n /\ n \in 0..(n + 1) /\ n # n + 1
        BY <3>1
      <4> QED
        BY <3>1, <4>1
    <3>2. CASE k # n + 1 /\ k # 0
      <4>1. k \in 0..n /\ k - 1 \in 0..n /\ k - 1 # n + 1 /\ k - 1 \in 0..(n + 1)
        BY <3>2
      <4>2. f[k] = h[<<k, f[k - 1]>>]
        BY <2>1, <3>2, <4>1 DEF Follows
      <4> QED
        BY <3>2, <4>1, <4>2
    <3>3. CASE k = 0
      <4>1. f[k] = a
        BY <2>1, <3>3, FollowsFrom
      <4> QED
        BY <3>3, <4>1
    <3> QED
      BY <3>1, <3>2, <3>3
  <2> HIDE DEF g
  <2>5. Follows(g, n + 1, a, h)
    BY <2>4 DEF Follows
  <2> QED
    BY <2>3, <2>5
<1>3. \A n \in Nat : n \in S
  <2> HIDE DEF S
  <2> QED
    BY <1>1, <1>2, FromZero
<1> QED
  BY <1>3

\* and one for all of them.
Goes(f, a, h) == \A k \in Nat : f[k] = IF k = 0 THEN a ELSE h[<<k, f[k - 1]>>]

LEMMA FollowsForEver ==
  ASSUME NEW V, NEW a \in V, NEW h \in [Nat \X V -> V]
  PROVE  \E f \in [Nat -> V] : Goes(f, a, h)
<1> DEFINE upTo(n) == CHOOSE f \in [0..n -> V] : Follows(f, n, a, h)
           f == [n \in Nat |-> upTo(n)[n]]
<1>1. ASSUME NEW n \in Nat PROVE upTo(n) \in [0..n -> V] /\ Follows(upTo(n), n, a, h)
  BY FollowsUpTo, Zenon
<1> HIDE DEF upTo
<1>2. ASSUME NEW n \in Nat PROVE f[n] \in V
  BY <1>1
<1>3. ASSUME NEW n \in Nat, n # 0 PROVE f[n] = h[<<n, f[n - 1]>>]
  <2>1. n - 1 \in Nat /\ n - 1 \in 0..n /\ n \in 0..n /\ n - 1 \in 0..(n - 1)
    BY <1>3
  <2>2. Follows(upTo(n), n - 1, a, h)
    BY <1>1, <2>1 DEF Follows
  <2>3. upTo(n)[n - 1] = upTo(n - 1)[n - 1]
    BY <1>1, <2>1, <2>2, FollowsAlike
  <2>4. upTo(n)[n] = h[<<n, upTo(n)[n - 1]>>]
    BY <1>1, <1>3, <2>1 DEF Follows
  <2> QED
    BY <2>1, <2>3, <2>4
<1>4. f[0] = a
  <2>1. upTo(0)[0] = a
    BY <1>1, FollowsFrom
  <2> QED
    BY <2>1
<1>5. f \in [Nat -> V]
  BY <1>2
<1>6. Goes(f, a, h)
  <2> HIDE DEF f
  <2> QED
    BY <1>3, <1>4 DEF Goes
<1> HIDE DEF f
<1> QED
  BY <1>5, <1>6

\* A number of any set of them is the least.
LEMMA LeastIs ==
  ASSUME NEW S \in SUBSET Nat, S # {}
  PROVE  \E x \in S : \A y \in S : x <= y
<1> DEFINE R == OpToRel(<, Nat)
<1>1. IsWellFoundedOn(R, Nat)
  BY NatLessThanWellFounded
<1>2. PICK x \in S : \A y \in S : <<y, x>> \notin R
  <2> HIDE DEF R
  <2> QED
    BY <1>1, WFMin
<1>3. \A y \in S : <<y, x>> \notin R => x <= y
  BY DEF OpToRel
<1> QED
  BY <1>2, <1>3
================================================================================
