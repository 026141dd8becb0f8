----------------------------- MODULE Induction ------------------------------
(* Induction over the naturals and functions defined by recursion, stated  *)
(* with sets and functions in place of operators: a property is the set of *)
(* the numbers that have it, and a recursive definition is the function    *)
(* that takes a number and the value there to the next value.              *)
EXTENDS Integers, WellFoundedInduction, TLAPS

(* A set of naturals has a least element. *)
LEMMA Least ==
    ASSUME NEW T, T \subseteq Nat, T # {}
    PROVE  \E x \in T : \A y \in T : x <= y
<1> DEFINE R == {p \in Nat \X Nat : p[1] < p[2]}
<1>1. IsWellFoundedOn(R, Nat)
    BY NatLessThanWellFounded DEF OpToRel
<1> HIDE DEF R
<1>2. PICK x \in T : \A y \in T : <<y, x>> \notin R
    BY Zenon, <1>1, WFMin
<1>3. ASSUME NEW y \in T PROVE x <= y
    <2>1. <<y, x>> \notin R /\ x \in Nat /\ y \in Nat
        BY Zenon, <1>2
    <2>2. QED
        BY <2>1 DEF R
<1> QED
    BY Zenon, <1>3

(* What holds of 0, and of n + 1 whenever of n, holds of all. *)
LEMMA SetInduction ==
    ASSUME NEW Q, 0 \in Q, \A n \in Nat : n \in Q => n + 1 \in Q
    PROVE  \A n \in Nat : n \in Q
<1> SUFFICES ASSUME NEW n \in Nat, n \notin Q PROVE FALSE
    OBVIOUS
<1> DEFINE T == {k \in Nat : k \notin Q}
<1>1. T \subseteq Nat /\ T # {}
    BY Zenon
<1>2. PICK m \in T : \A k \in T : m <= k
    BY Zenon, <1>1, Least
<1>3. m \in Nat /\ m # 0
    BY Zenon
<1>4. m - 1 \in Nat /\ ~(m <= m - 1) /\ (m - 1) + 1 = m
    BY <1>3
<1> QED
    BY Zenon, <1>2, <1>4

(* The same up to N. *)
LEMMA BoundedInduction ==
    ASSUME NEW N \in Nat, NEW Q, 0 \in Q, \A k \in 1..N : k - 1 \in Q => k \in Q
    PROVE  \A k \in 0..N : k \in Q
<1> DEFINE T == {n \in Nat : n <= N => n \in Q}
<1>1. 0 \in T
    OBVIOUS
<1>2. ASSUME NEW n \in Nat, n \in T PROVE n + 1 \in T
    <2>1. n + 1 <= N => n <= N /\ n + 1 \in 1..N /\ (n + 1) - 1 = n
        OBVIOUS
    <2>2. n + 1 \in Nat
        OBVIOUS
    <2>3. QED
        BY Zenon, <1>2, <2>1, <2>2
<1> HIDE DEF T
<1>3. \A n \in Nat : n \in T
    BY Zenon, <1>1, <1>2, SetInduction
<1>4. \A k \in 0..N : k \in Nat /\ k <= N
    OBVIOUS
<1> QED
    BY Zenon, <1>3, <1>4 DEF T

(* f begins with v0, and its value at k is what g makes of k and the value *)
(* before.                                                                 *)
Recursive(f, n, V, v0, g) ==
    /\ f \in [0..n -> V] /\ f[0] = v0
    /\ \A k \in 1..n : f[k] = g[<<k, f[k - 1]>>]

(* A recursion up to N defines a function. *)
LEMMA Recursion ==
    ASSUME NEW V, NEW v0 \in V, NEW N \in Nat, NEW g, g \in [(1..N) \X V -> V]
    PROVE  \E f : Recursive(f, N, V, v0, g)
<1> DEFINE Defined(f, n) == Recursive(f, n, V, v0, g)
           Q == {n \in Nat : n <= N => \E f : Defined(f, n)}
<1>1. 0 \in Q
    <2>1. Defined([k \in 0..0 |-> v0], 0)
        BY DEF Recursive
    <2> HIDE DEF Defined
    <2>2. QED
        BY Zenon, <2>1
<1>2. ASSUME NEW n \in Nat, n \in Q PROVE n + 1 \in Q
    <2>1. n + 1 \in Nat
        OBVIOUS
    <2>2. ASSUME n + 1 <= N PROVE \E f : Defined(f, n + 1)
        <3>1. n <= N /\ n + 1 \in 1..N /\ n \in 0..n
            BY <2>2
        <3>2. PICK f : Defined(f, n)
            <4> HIDE DEF Defined
            <4>1. QED
                BY Zenon, <1>2, <3>1
        <3> DEFINE v == g[<<n + 1, f[n]>>]
                   e == [k \in 0..(n + 1) |-> IF k = n + 1 THEN v ELSE f[k]]
        <3>3. v \in V
            BY Zenon, <3>1, <3>2 DEF Recursive
        <3>4. \A k \in 0..(n + 1) : k # n + 1 => k \in 0..n
            OBVIOUS
        <3>5. n \in 0..(n + 1) /\ n # n + 1 /\ 0 \in 0..(n + 1) /\ 0 # n + 1 /\ n + 1 \in 0..(n + 1)
            OBVIOUS
        <3> HIDE DEF v
        <3>6. e \in [0..(n + 1) -> V] /\ e[0] = v0
            BY Zenon, <3>2, <3>3, <3>4, <3>5 DEF Recursive
        <3>7. ASSUME NEW k \in 1..(n + 1) PROVE e[k] = g[<<k, e[k - 1]>>]
            <4>1. k - 1 \in 0..(n + 1) /\ k - 1 # n + 1 /\ k \in 0..(n + 1)
                OBVIOUS
            <4>2. e[k - 1] = f[k - 1]
                BY Zenon, <4>1
            <4>3. CASE k = n + 1
                <5>1. k - 1 = n
                    BY <4>3
                <5>2. QED
                    BY Zenon, <4>1, <4>2, <4>3, <5>1 DEF v
            <4>4. CASE k # n + 1
                <5>1. k \in 1..n
                    BY <4>4
                <5>2. QED
                    BY Zenon, <3>2, <4>1, <4>2, <4>4, <5>1 DEF Recursive
            <4>5. QED
                BY Zenon, <4>3, <4>4
        <3> HIDE DEF e
        <3>8. Defined(e, n + 1)
            BY Zenon, <3>6, <3>7 DEF Recursive
        <3> HIDE DEF Defined
        <3>9. QED
            BY Zenon, <3>8
    <2> HIDE DEF Defined
    <2>3. QED
        BY Zenon, <2>1, <2>2
<1>3. N \in Q
    <2> HIDE DEF Q
    <2>1. QED
        BY Zenon, <1>1, <1>2, SetInduction
<1>4. N <= N
    OBVIOUS
<1>5. PICK f : Defined(f, N)
    <2> HIDE DEF Defined
    <2>1. QED
        BY Zenon, <1>3, <1>4
<1> QED
    BY Zenon, <1>5
=============================================================================
