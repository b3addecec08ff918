----------------------------- MODULE Recursion -----------------------------
(***************************************************************************)
(* Facts about numbers that the proofs share: a least element, for the     *)
(* CHOOSE of the first of several entries that match; induction; and that  *)
(* the functions exist which the models define by recursion over the bytes *)
(* of a text, forwards or backwards.  A predicate is here the set of the   *)
(* numbers that have it, and a step of a recursion a function.             *)
(***************************************************************************)
EXTENDS Integers, TLAPS, WellFoundedInduction

(* Every non-empty set of numbers has a least element.                     *)
LEMMA LeastOf ==
  ASSUME NEW S \in SUBSET Nat, S # {}
  PROVE  \E m \in S : \A n \in S : m <= n
<1> DEFINE lt == {p \in Nat \X Nat : p[1] < p[2]}
<1>1. IsWellFoundedOn(lt, Nat)
  BY NatLessThanWellFounded DEF OpToRel
<1>2. \A a, b \in Nat : a < b => <<a, b>> \in lt
  OBVIOUS
<1> HIDE DEF lt
<1>3. PICK m \in S : \A n \in S : ~ (<<n, m>> \in lt)
  BY <1>1, WFMin
<1>4. ASSUME NEW n \in S PROVE m <= n
  <2>1. ~ (n < m)
    BY <1>2, <1>3
  <2> QED
    BY <2>1
<1> QED
  BY <1>4

(* Induction: what 0 has, and n + 1 with n, all numbers have.              *)
LEMMA Induction ==
  ASSUME NEW S, 0 \in S, \A n \in Nat : n \in S => n + 1 \in S
  PROVE  \A n \in Nat : n \in S
<1> SUFFICES ASSUME Nat \ S # {} PROVE FALSE
  OBVIOUS
<1>1. PICK m \in Nat \ S : \A n \in Nat \ S : m <= n
  BY LeastOf
<1>2. m # 0 /\ m - 1 \in Nat /\ ~ (m <= m - 1)
  BY <1>1
<1>3. m - 1 \in S
  BY <1>1, <1>2
<1>4. (m - 1) + 1 \in S
  BY <1>2, <1>3
<1> QED
  BY <1>1, <1>4

(* Induction up to a bound.                                                *)
LEMMA InductionTo ==
  ASSUME NEW N \in Nat, NEW S, 0 \in S,
         \A n \in 0 .. N - 1 : n \in S => n + 1 \in S
  PROVE  \A n \in 0 .. N : n \in S
<1> DEFINE T == S \cup {n \in Nat : n > N}
<1>1. 0 \in T /\ \A n \in Nat : n \in T => n + 1 \in T
  OBVIOUS
<1> HIDE DEF T
<1>2. \A n \in Nat : n \in T
  BY <1>1, Induction
<1> QED
  BY <1>2 DEF T

(* Induction down from a bound, the values below standing on any above.    *)
LEMMA InductionFrom ==
  ASSUME NEW N \in Nat, NEW S,
         \A i \in 1 .. N : (\A j \in i + 1 .. N : j \in S) => i \in S
  PROVE  \A i \in 1 .. N : i \in S
<1> DEFINE T == {k \in Nat : \A j \in 1 .. N : j + k > N => j \in S}
<1>1. 0 \in T
  OBVIOUS
<1>2. ASSUME NEW k \in Nat, k \in T PROVE k + 1 \in T
  <2> SUFFICES ASSUME NEW i \in 1 .. N, i + (k + 1) > N PROVE i \in S
    BY DEF T
  <2>1. \A j \in i + 1 .. N : j \in 1 .. N /\ j + k > N
    BY <1>2
  <2>2. \A j \in i + 1 .. N : j \in S
    BY <1>2, <2>1
  <2> QED
    BY <2>2
<1> HIDE DEF T
<1>3. \A k \in Nat : k \in T
  BY <1>1, <1>2, Induction
<1>4. N \in T
  BY <1>3
<1> QED
  BY <1>4 DEF T

(* Recursion forwards: each value is made from the one before it.          *)
MadeForwards(f, D, x, N, step) ==
  /\ f \in [0 .. N -> D]
  /\ f[0] = x
  /\ \A n \in 1 .. N : f[n] = step[<<n, f[n - 1]>>]

LEMMA Forwards ==
  ASSUME NEW D, NEW x \in D, NEW N \in Nat, NEW step \in [(1 .. N) \X D -> D]
  PROVE  \E f : MadeForwards(f, D, x, N, step)
<1> DEFINE Upto(f, n) == /\ f \in [0 .. n -> D] /\ f[0] = x
                         /\ \A k \in 1 .. n : f[k] = step[<<k, f[k - 1]>>]
           S == {n \in 0 .. N : \E f : Upto(f, n)}
<1>1. 0 \in S
  <2> DEFINE g == [k \in 0 .. 0 |-> x]
  <2>1. Upto(g, 0)
    OBVIOUS
  <2> HIDE DEF g
  <2> QED
    BY <2>1 DEF S
<1>2. ASSUME NEW n \in 0 .. N - 1, n \in S PROVE n + 1 \in S
  <2>1. PICK f : Upto(f, n)
    BY <1>2
  <2> DEFINE y == step[<<n + 1, f[n]>>]
             g == [k \in 0 .. n + 1 |-> IF k = n + 1 THEN y ELSE f[k]]
  <2>2. y \in D
    BY <2>1
  <2>3. \A k \in 0 .. n : g[k] = f[k]
    OBVIOUS
  <2>4. g[n + 1] = y
    OBVIOUS
  <2>5. g \in [0 .. n + 1 -> D]
    BY <2>1, <2>2
  <2> HIDE DEF g
  <2>6. ASSUME NEW k \in 1 .. n + 1 PROVE g[k] = step[<<k, g[k - 1]>>]
    <3>1. CASE k = n + 1
      BY <2>3, <2>4, <3>1
    <3>2. CASE k \in 1 .. n
      BY <2>1, <2>3, <3>2
    <3> QED
      BY <3>1, <3>2
  <2>7. g[0] = x
    BY <2>1, <2>3
  <2>8. Upto(g, n + 1)
    BY <2>5, <2>6, <2>7
  <2> QED
    BY <2>8
<1> HIDE DEF S
<1>3. N \in S
  BY <1>1, <1>2, InductionTo
<1> QED
  BY <1>3 DEF S, MadeForwards

(* Recursion backwards: each value is made from those behind it.           *)
MadeBackwards(f, D, N, step) ==
  /\ f \in [1 .. N -> D]
  /\ \A i \in 1 .. N : f[i] = step[<<i, f>>]

LooksBehind(D, N, step) ==
  \A i \in 1 .. N : \A f, g \in [1 .. N -> D] :
    (\A j \in i + 1 .. N : f[j] = g[j]) => step[<<i, f>>] = step[<<i, g>>]

LEMMA Backwards ==
  ASSUME NEW D, NEW x \in D, NEW N \in Nat,
         NEW step \in [(1 .. N) \X [1 .. N -> D] -> D], LooksBehind(D, N, step)
  PROVE  \E f : MadeBackwards(f, D, N, step)
<1> DEFINE From(f, i) == /\ f \in [1 .. N -> D]
                         /\ \A j \in 1 .. N : j > N - i => f[j] = step[<<j, f>>]
           S == {i \in 0 .. N : \E f : From(f, i)}
<1>1. 0 \in S
  <2> DEFINE g == [j \in 1 .. N |-> x]
  <2>1. From(g, 0)
    OBVIOUS
  <2> HIDE DEF g
  <2> QED
    BY <2>1 DEF S
<1>2. ASSUME NEW n \in 0 .. N - 1, n \in S PROVE n + 1 \in S
  <2>1. PICK f : From(f, n)
    BY <1>2
  <2> DEFINE i == N - n
             y == step[<<i, f>>]
             g == [f EXCEPT ![i] = y]
  <2>2. i \in 1 .. N /\ y \in D
    BY <2>1
  <2>3. g \in [1 .. N -> D] /\ g[i] = y /\ \A j \in 1 .. N : j # i => g[j] = f[j]
    BY <2>1, <2>2
  <2> HIDE DEF g
  <2>4. ASSUME NEW j \in 1 .. N, j > N - (n + 1) PROVE g[j] = step[<<j, g>>]
    <3>1. \A k \in j + 1 .. N : f[k] = g[k]
      BY <2>3, <2>4
    <3>2. step[<<j, f>>] = step[<<j, g>>]
      BY <2>1, <2>3, <3>1 DEF LooksBehind
    <3>3. CASE j = i
      BY <2>3, <3>2, <3>3
    <3>4. CASE j > N - n
      BY <2>1, <2>3, <3>2, <3>4
    <3>5. j = N - n \/ j > N - n
      BY <2>4
    <3> QED
      BY <3>3, <3>4, <3>5 DEF i
  <2>5. From(g, n + 1)
    BY <2>3, <2>4
  <2> QED
    BY <2>5
<1> HIDE DEF S
<1>3. \A n \in 0 .. N - 1 : n \in S => n + 1 \in S
  BY <1>2
<1>4. \A n \in 0 .. N : n \in S
  BY <1>1, <1>3, InductionTo, Zenon
<1>5. N \in S
  BY <1>4
<1>6. PICK f : From(f, N)
  BY <1>5 DEF S
<1> QED
  BY <1>6 DEF MadeBackwards
=============================================================================
