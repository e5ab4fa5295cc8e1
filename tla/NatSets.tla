------------------------------- MODULE NatSets -------------------------------
(***************************************************************************)
(* Least and greatest members of sets of natural numbers, and induction    *)
(* and recursion stated with a set and a function where the library's      *)
(* theorems have an operator.                                              *)
(***************************************************************************)
EXTENDS Integers, WellFoundedInduction, TLAPS

LEMMA HasLeast ==
  ASSUME NEW S \in SUBSET Nat, S # {}
  PROVE  \E i \in S : \A j \in S : i <= j
  <1>1. PICK i \in S : \A j \in S : ~ (<<j, i>> \in OpToRel(<, Nat))
    BY NatLessThanWellFounded, WFMin
  <1>2. ASSUME NEW j \in S, j < i PROVE FALSE
    <2>1. <<j, i>> \in OpToRel(<, Nat)
      BY <1>2 DEF OpToRel
    <2> QED
      BY <1>1, <2>1
  <1> QED
    BY <1>2

LEMMA HasGreatest ==
  ASSUME NEW n \in Nat, NEW S \in SUBSET (0 .. n), S # {}
  PROVE  \E i \in S : \A j \in S : j <= i
  <1> DEFINE T == {n - i : i \in S}
  <1>1. T \in SUBSET Nat /\ T # {}
    OBVIOUS
  <1>2. PICK t \in T : \A u \in T : t <= u
    BY <1>1, HasLeast
  <1>3. PICK i \in S : t = n - i
    BY <1>2
  <1>4. ASSUME NEW j \in S PROVE j <= i
    <2>1. n - i <= n - j
      BY <1>2, <1>3
    <2> QED
      BY <2>1
  <1> QED
    BY <1>4

(* A set of numbers that holds 0, and with each number below n the next,   *)
(* holds all up to n.                                                      *)
LEMMA Induction ==
  ASSUME NEW n \in Nat, NEW S, 0 \in S, \A i \in 0 .. n - 1 : i \in S => i + 1 \in S
  PROVE  \A i \in 0 .. n : i \in S
  <1> SUFFICES ASSUME NEW k \in 0 .. n, k \notin S PROVE FALSE
    OBVIOUS
  <1> DEFINE T == {i \in 0 .. n : i \notin S}
  <1>1. T \in SUBSET Nat /\ T # {}
    OBVIOUS
  <1>2. PICK i \in T : \A j \in T : i <= j
    BY <1>1, HasLeast
  <1>3. i - 1 \in 0 .. n - 1 /\ i - 1 \in S
    BY <1>2
  <1> QED
    BY <1>2, <1>3

(* A function defined step by step, from b with step[i] at i.              *)
Steps(n, S) == [1 .. n -> [S -> S]]

Runs(n, S, b, step, g) ==
  g \in [0 .. n -> S] /\ g[0] = b /\ \A i \in 1 .. n : g[i] = step[i][g[i - 1]]

LEMMA Recursion ==
  ASSUME NEW n \in Nat, NEW S, NEW b \in S, NEW step \in Steps(n, S)
  PROVE  \E g : Runs(n, S, b, step, g)
  <1> DEFINE Made == {m \in 0 .. n : \E g \in [0 .. m -> S] :
                        g[0] = b /\ \A i \in 1 .. m : g[i] = step[i][g[i - 1]]}
  <1>1. 0 \in Made
    <2> DEFINE g == [i \in 0 .. 0 |-> b]
    <2>1. g \in [0 .. 0 -> S] /\ g[0] = b /\ \A i \in 1 .. 0 : g[i] = step[i][g[i - 1]]
      OBVIOUS
    <2> HIDE DEF g
    <2> QED
      BY <2>1
  <1>2. ASSUME NEW m \in 0 .. n - 1, m \in Made PROVE m + 1 \in Made
    <2>1. PICK g \in [0 .. m -> S] :
            g[0] = b /\ \A i \in 1 .. m : g[i] = step[i][g[i - 1]]
      BY <1>2
    <2> DEFINE h == [i \in 0 .. m + 1 |-> IF i = m + 1 THEN step[m + 1][g[m]] ELSE g[i]]
    <2>2. m \in 0 .. m /\ m + 1 \in 1 .. n /\ m + 1 \in 0 .. n /\ 0 # m + 1 /\ (m + 1) - 1 = m
      OBVIOUS
    <2>3. step[m + 1][g[m]] \in S
      <3>1. g[m] \in S
        BY <2>1, <2>2
      <3>2. step \in [1 .. n -> [S -> S]]
        BY DEF Steps
      <3> QED
        BY <2>2, <3>1, <3>2
    <2>4. h \in [0 .. m + 1 -> S]
      BY <2>1, <2>3
    <2>5. h[0] = b /\ h[m] = g[m] /\ h[m + 1] = step[m + 1][h[m]]
      <3>1. \A i \in 0 .. m : i \in 0 .. m + 1 /\ i # m + 1 /\ h[i] = g[i]
        OBVIOUS
      <3>2. m + 1 \in 0 .. m + 1 /\ 0 \in 0 .. m
        OBVIOUS
      <3>3. h[m + 1] = step[m + 1][g[m]]
        BY <3>2
      <3> HIDE DEF h
      <3> QED
        BY <2>1, <2>2, <3>1, <3>2, <3>3
    <2>6. ASSUME NEW i \in 1 .. m + 1 PROVE h[i] = step[i][h[i - 1]]
      <3>1. CASE i = m + 1
        BY <2>2, <2>5, <3>1
      <3>2. CASE i # m + 1
        <4>1. i \in 1 .. m /\ i \in 0 .. m + 1 /\ i - 1 \in 0 .. m + 1 /\ i - 1 # m + 1
          BY <3>2
        <4>2. h[i] = g[i] /\ h[i - 1] = g[i - 1]
          BY <3>2, <4>1
        <4> QED
          BY <2>1, <4>1, <4>2
      <3> QED
        BY <3>1, <3>2
    <2> HIDE DEF h
    <2> QED
      BY <2>2, <2>4, <2>5, <2>6
  <1> HIDE DEF Made
  <1>3. \A i \in 0 .. n - 1 : i \in Made => i + 1 \in Made
    BY <1>2
  <1>4. \A i \in 0 .. n : i \in Made
    BY <1>1, <1>3, Induction
  <1>5. n \in Made
    BY <1>4
  <1> QED
    BY <1>5 DEF Made, Runs
=============================================================================
