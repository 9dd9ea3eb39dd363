----------------------------- MODULE NumberFacts -----------------------------
(***************************************************************************)
(* Facts about numbers and chains that the proofs about the modules share: *)
(* induction, recursion and remainders.  Induction is first-order here: a  *)
(* set of numbers takes the place of a predicate, and a function that of a *)
(* step operator, so that every fact can be used by naming the set or the  *)
(* function.                                                               *)
(***************************************************************************)
EXTENDS Integers, Sequences, Chains, WellFoundedInduction, TLAPS

(* Every non-empty set of natural numbers has a least element. *)
LEMMA LeastElement ==
  ASSUME NEW T, T \subseteq Nat, T # {}
  PROVE  \E n \in T : \A m \in T : n <= m
<1> DEFINE R == {ss \in Nat \X Nat : ss[1] < ss[2]}
<1>1. R = OpToRel(<, Nat)
  BY DEF OpToRel
<1>2. IsWellFoundedOn(R, Nat)
  BY <1>1, NatLessThanWellFounded, Zenon
<1>3. PICK x \in T : \A y \in T : ~(<<y, x>> \in R)
  BY <1>2, WFMin
<1>4. ASSUME NEW y \in T PROVE x <= y
  <2>1. <<y, x>> \in Nat \X Nat /\ <<y, x>>[1] = y /\ <<y, x>>[2] = x
    OBVIOUS
  <2>2. ~(y < x)
    BY <1>3, <2>1
  <2> QED
    BY <2>2
<1> QED
  BY <1>4

(* Induction up to n, with a set of numbers for the predicate. *)
LEMMA InductionUpTo ==
  ASSUME NEW n \in Nat, NEW T, 0 \in T,
         \A i \in 1 .. n : i - 1 \in T => i \in T
  PROVE  0 .. n \subseteq T
<1> DEFINE Bad == {i \in 0 .. n : i \notin T}
<1>1. SUFFICES ASSUME Bad # {} PROVE FALSE
  OBVIOUS
<1>2. PICK m \in Bad : \A k \in Bad : m <= k
  <2>1. Bad \subseteq Nat
    OBVIOUS
  <2> QED
    BY <1>1, <2>1, LeastElement
<1>3. m \in 1 .. n /\ m - 1 \in 0 .. n /\ ~(m <= m - 1)
  BY <1>2
<1>4. m - 1 \in T
  BY <1>2, <1>3
<1> QED
  BY <1>2, <1>3, <1>4

(***************************************************************************)
(* A function on 0 .. n may be defined by its value at 0 and by a step     *)
(* from each value to the next.                                            *)
(***************************************************************************)
Recursion(f, n, S, base, step) ==
  /\ f \in [0 .. n -> S]
  /\ f[0] = base
  /\ \A i \in 1 .. n : f[i] = step[<<f[i - 1], i>>]

LEMMA RecursionExists ==
  ASSUME NEW n \in Nat, NEW S, NEW base \in S, NEW step, step \in [S \X (1 .. n) -> S]
  PROVE  \E f : Recursion(f, n, S, base, step)
<1> DEFINE Def(f, k) == f[0] = base /\ \A i \in 1 .. k : f[i] = step[<<f[i - 1], i>>]
           T == {k \in 0 .. n : \E f \in [0 .. k -> S] : Def(f, k)}
<1>1. 0 \in T
  <2>1. [i \in 0 .. 0 |-> base] \in [0 .. 0 -> S] /\ Def([i \in 0 .. 0 |-> base], 0)
    OBVIOUS
  <2>2. \E f \in [0 .. 0 -> S] : Def(f, 0)
    BY <2>1, Zenon
  <2> QED
    BY <2>2
<1>2. ASSUME NEW k \in 1 .. n, k - 1 \in T PROVE k \in T
  <2>1. PICK f \in [0 .. k - 1 -> S] : Def(f, k - 1)
    BY <1>2
  <2> DEFINE g == [i \in 0 .. k |-> IF i < k THEN f[i] ELSE step[<<f[k - 1], k>>]]
  <2>2. f[k - 1] \in S /\ step[<<f[k - 1], k>>] \in S
    OBVIOUS
  <2>3. g \in [0 .. k -> S]
    BY <2>2
  <2>4. g[0] = base
    BY <2>1
  <2>5. ASSUME NEW i \in 1 .. k PROVE g[i] = step[<<g[i - 1], i>>]
    <3>1. g[i - 1] = f[i - 1]
      OBVIOUS
    <3>2. CASE i = k
      <4>1. g[k] = step[<<f[k - 1], k>>]
        OBVIOUS
      <4> HIDE DEF g
      <4> QED
        BY <3>1, <3>2, <4>1
    <3>3. CASE i # k
      <4>1. i \in 1 .. k - 1 /\ g[i] = f[i]
        BY <3>3
      <4>2. f[i] = step[<<f[i - 1], i>>]
        BY <2>1, <4>1
      <4> QED
        BY <3>1, <4>1, <4>2
    <3> QED
      BY <3>2, <3>3
  <2>6. Def(g, k)
    BY <2>4, <2>5
  <2>7. \E h \in [0 .. k -> S] : Def(h, k)
    BY <2>3, <2>6, Zenon
  <2> QED
    BY <2>7
<1>3. n \in T
  <2> HIDE DEF T
  <2>1. 0 .. n \subseteq T
    BY <1>1, <1>2, InductionUpTo
  <2> QED
    BY <2>1
<1>4. PICK f \in [0 .. n -> S] : Def(f, n)
  BY <1>3
<1>5. Recursion(f, n, S, base, step)
  BY <1>4 DEF Recursion
<1> QED
  BY <1>5

-----------------------------------------------------------------------------
(* Remainders.                                                             *)

\* Division with remainder.
LEMMA DivMod ==
  ASSUME NEW M \in Nat \ {0}, NEW a \in Int
  PROVE  a % M \in 0..(M - 1) /\ a \div M \in Int /\ a = M * (a \div M) + (a % M)
  BY SMT

\* Multiplication distributes over a sum.
LEMMA Distribute ==
  ASSUME NEW M \in Int, NEW q \in Int, NEW s \in Int
  PROVE  M * (q + s) = M * q + M * s
  BY SMT

\* The remainder is determined.
LEMMA RemainderUnique ==
  ASSUME NEW M \in Nat \ {0}, NEW q \in Int, NEW s \in Int,
         NEW r \in 0..(M - 1), NEW t \in 0..(M - 1), M * q + r = M * s + t
  PROVE  r = t
<1>1. M * (q - s) = t - r  BY SMT
<1>2. CASE q - s >= 1
  <2>1. M * (q - s) >= M  BY <1>2, SMT
  <2> QED  BY <2>1, <1>1, SMT
<1>3. CASE q - s <= -1
  <2>1. M * (q - s) <= -M  BY <1>3, SMT
  <2> QED  BY <2>1, <1>1, SMT
<1>4. CASE q = s
  <2>1. M * (q - s) = 0  BY <1>4, SMT
  <2> QED  BY <2>1, <1>1, SMT
<1> QED  BY <1>2, <1>3, <1>4, SMT

\* Whole multiples do not change a remainder.
LEMMA ModMultiple ==
  ASSUME NEW M \in Nat \ {0}, NEW x \in Int, NEW q \in Int
  PROVE  (x + M * q) % M = x % M
<1> DEFINE y == x + M * q
<1>1. y \in Int  BY SMT
<1>2. x % M \in 0..(M - 1) /\ x \div M \in Int /\ x = M * (x \div M) + (x % M)  BY DivMod
<1>3. y = M * ((x \div M) + q) + (x % M)
  <2>1. M * ((x \div M) + q) = M * (x \div M) + M * q
    <3> M \in Int  OBVIOUS
    <3> QED  BY <1>2, Distribute
  <2>2. M * q \in Int /\ M * (x \div M) \in Int  BY <1>2, SMT
  <2> QED  BY <1>2, <2>1, <2>2, SMT
<1> HIDE DEF y
<1>4. y % M \in 0..(M - 1) /\ y \div M \in Int /\ y = M * (y \div M) + (y % M)  BY <1>1, DivMod
<1>5. (x \div M) + q \in Int  BY <1>2
<1>6. M * (y \div M) + (y % M) = M * ((x \div M) + q) + (x % M)  BY <1>3, <1>4
<1>7. y % M = x % M  BY <1>2, <1>4, <1>5, <1>6, RemainderUnique
<1> QED  BY <1>7 DEF y

\* A sum may be reduced in its first part,
LEMMA ModAdd ==
  ASSUME NEW M \in Nat \ {0}, NEW a \in Int, NEW b \in Int
  PROVE  ((a % M) + b) % M = (a + b) % M
<1>1. a % M \in 0..(M - 1) /\ a \div M \in Int /\ a = M * (a \div M) + (a % M)  BY DivMod
<1> DEFINE x == (a % M) + b
<1>2. x \in Int  BY <1>1
<1>3. a + b = x + M * (a \div M)
  <2>1. M * (a \div M) \in Int  BY <1>1, SMT
  <2> QED  BY <1>1, <2>1, SMT
<1> HIDE DEF x
<1>4. (x + M * (a \div M)) % M = x % M  BY <1>1, <1>2, ModMultiple
<1> QED  BY <1>3, <1>4 DEF x

\* and a difference in both.
LEMMA ModSub ==
  ASSUME NEW M \in Nat \ {0}, NEW a \in Int, NEW b \in Int
  PROVE  ((a % M) - (b % M)) % M = (a - b) % M
<1>1. b % M \in 0..(M - 1) /\ b \div M \in Int /\ b = M * (b \div M) + (b % M)  BY DivMod
<1>2. a % M \in 0..(M - 1)  BY DivMod
<1> DEFINE e == -(b % M)
<1>3. e \in Int  BY <1>1
<1>4. (a % M) - (b % M) = (a % M) + e  BY <1>1, <1>2
<1>5. a + e = (a - b) + M * (b \div M)
  <2>1. M * (b \div M) \in Int  BY <1>1, SMT
  <2> QED  BY <1>1, <2>1, SMT
<1> HIDE DEF e
<1>6. ((a % M) + e) % M = (a + e) % M  BY <1>3, ModAdd
<1>7. a - b \in Int  OBVIOUS
<1>8. ((a - b) + M * (b \div M)) % M = (a - b) % M  BY <1>1, <1>7, ModMultiple
<1> QED  BY <1>4, <1>5, <1>6, <1>8

\* A number less than M away from zero.
LEMMA ModSmall ==
  ASSUME NEW M \in Nat \ {0}, NEW a \in Int, -M < a, a < M
  PROVE  a % M = IF a < 0 THEN a + M ELSE a
<1>1. a % M \in 0..(M - 1) /\ a \div M \in Int /\ a = M * (a \div M) + (a % M)  BY DivMod
<1>2. CASE a < 0
  <2>1. M * (-1) + (a + M) = a /\ a + M \in 0..(M - 1)  BY <1>2, SMT
  <2>2. -1 \in Int  OBVIOUS
  <2>3. M * (a \div M) + (a % M) = M * (-1) + (a + M)  BY <1>1, <2>1
  <2>4. a % M = a + M  BY <1>1, <2>1, <2>2, <2>3, RemainderUnique
  <2> QED  BY <1>2, <2>4
<1>3. CASE a >= 0
  <2>1. M * 0 + a = a /\ a \in 0..(M - 1)  BY <1>3, SMT
  <2>2. M * (a \div M) + (a % M) = M * 0 + a  BY <1>1, <2>1
  <2>3. a % M = a  BY <1>1, <2>1, <2>2, RemainderUnique
  <2> QED  BY <1>3, <2>3
<1> QED  BY <1>2, <1>3

-----------------------------------------------------------------------------
(* Chains.                                                                 *)

NoDuplicates(s) == \A i, j \in 1 .. Len(s) : s[i] = s[j] => i = j

(* What is left of a chain: all but what is left out, each once. *)
LEMMA WithoutChain ==
  ASSUME NEW E, NEW chain \in Seq(E), NEW gone, NoDuplicates(chain)
  PROVE  /\ Without(chain, gone) \in Seq(E)
         /\ Members(Without(chain, gone)) = Members(chain) \ gone
         /\ NoDuplicates(Without(chain, gone))
<1> DEFINE n == Len(chain)
           step == [x \in Seq(E) \X (1 .. n) |->
                      IF chain[x[2]] \in gone THEN x[1] ELSE Append(x[1], chain[x[2]])]
<1>1. n \in Nat /\ DOMAIN chain = 1 .. n /\ \A i \in 1 .. n : chain[i] \in E
  OBVIOUS
<1>2. step \in [Seq(E) \X (1 .. n) -> Seq(E)]
  <2>1. ASSUME NEW x \in Seq(E) \X (1 .. n)
        PROVE  x[1] \in Seq(E) /\ Append(x[1], chain[x[2]]) \in Seq(E)
    <3>1. x[1] \in Seq(E) /\ chain[x[2]] \in E
      BY <1>1
    <3> QED
      BY <3>1
  <2> QED
    BY <2>1
<1>3. << >> \in Seq(E)
  OBVIOUS
<1>4. PICK f : Recursion(f, n, Seq(E), << >>, step)
  <2> HIDE DEF n, step
  <2> QED
    BY <1>1, <1>2, <1>3, RecursionExists
<1>5. /\ f \in [0 .. n -> Seq(E)] /\ f[0] = << >>
      /\ \A i \in 1 .. n :
            f[i] = IF chain[i] \in gone THEN f[i - 1] ELSE Append(f[i - 1], chain[i])
  <2>1. f \in [0 .. n -> Seq(E)] /\ f[0] = << >> /\ \A i \in 1 .. n : f[i] = step[<<f[i - 1], i>>]
    BY <1>4 DEF Recursion
  <2>2. ASSUME NEW i \in 1 .. n
        PROVE  f[i] = IF chain[i] \in gone THEN f[i - 1] ELSE Append(f[i - 1], chain[i])
    <3>1. i - 1 \in 0 .. n
      BY <1>1
    <3>2. f[i - 1] \in Seq(E)
      BY <2>1, <3>1
    <3>3. step[<<f[i - 1], i>>] = IF chain[i] \in gone THEN f[i - 1] ELSE Append(f[i - 1], chain[i])
      BY <3>2
    <3> QED
      BY <2>1, <3>3
  <2> QED
    BY <2>1, <2>2
<1> HIDE DEF step
(* It is the function that Without chooses. *)
<1>6. Without(chain, gone) = f[n]
  <2> DEFINE Fits(h) == h = [i \in 0 .. n |-> IF i = 0 THEN << >>
                                ELSE IF chain[i] \in gone THEN h[i - 1]
                                ELSE Append(h[i - 1], chain[i])]
             hh == CHOOSE h : Fits(h)
  <2>1. Fits(f)
    <3>1. \A i \in 0 .. n : i = 0 \/ i \in 1 .. n
      BY <1>1
    <3> QED
      BY <1>5, <3>1
  <2>2. Fits(hh)
    <3> HIDE DEF Fits
    <3> QED
      BY <2>1
  <2>3. /\ hh[0] = << >>
        /\ \A i \in 1 .. n :
              hh[i] = IF chain[i] \in gone THEN hh[i - 1] ELSE Append(hh[i - 1], chain[i])
    <3>1. 0 \in 0 .. n /\ \A i \in 1 .. n : i \in 0 .. n /\ i # 0
      BY <1>1
    <3> HIDE DEF hh, n
    <3>2. \A i \in 0 .. n : hh[i] = IF i = 0 THEN << >>
                                   ELSE IF chain[i] \in gone THEN hh[i - 1]
                                   ELSE Append(hh[i - 1], chain[i])
      BY <2>2
    <3> QED
      BY <3>1, <3>2, Zenon
  <2>4. Without(chain, gone) = hh[n]
    BY DEF Without
  <2> HIDE DEF hh, Fits
  <2> DEFINE T == {i \in 0 .. n : hh[i] = f[i]}
  <2>5. 0 \in T
    BY <1>1, <1>5, <2>3
  <2>6. ASSUME NEW i \in 1 .. n, i - 1 \in T PROVE i \in T
    BY <1>1, <1>5, <2>3, <2>6
  <2>7. n \in T
    <3> HIDE DEF T, n
    <3>1. 0 .. n \subseteq T
      BY <1>1, <2>5, <2>6, InductionUpTo
    <3> QED
      BY <1>1, <3>1
  <2> QED
    BY <2>4, <2>7
(* What it holds after i records. *)
<1> DEFINE Holds(i) == /\ Members(f[i]) = {chain[j] : j \in 1 .. i} \ gone
                       /\ NoDuplicates(f[i])
           T == {i \in 0 .. n : Holds(i)}
<1>7. 0 \in T
  BY <1>1, <1>5 DEF Members, NoDuplicates
<1>8. ASSUME NEW i \in 1 .. n, i - 1 \in T PROVE i \in T
  <2> DEFINE s == f[i - 1]
             c == chain[i]
  <2>1. /\ s \in Seq(E) /\ c \in E
        /\ Members(s) = {chain[j] : j \in 1 .. i - 1} \ gone /\ NoDuplicates(s)
        /\ f[i] = IF c \in gone THEN s ELSE Append(s, c)
    BY <1>1, <1>5, <1>8
  <2>2. {chain[j] : j \in 1 .. i} = {chain[j] : j \in 1 .. i - 1} \cup {c}
    <3>1. 1 .. i = (1 .. i - 1) \cup {i}
      OBVIOUS
    <3> QED
      BY <3>1
  <2>3. c \notin {chain[j] : j \in 1 .. i - 1}
    BY <1>1 DEF NoDuplicates
  <2>0. i \in 0 .. n
    BY <1>1
  <2> SUFFICES Holds(i)
    BY <2>0
  <2> HIDE DEF s, c, n, T
  <2>4. CASE c \in gone
    <3>1. f[i] = s /\ Members(s) = {chain[j] : j \in 1 .. i} \ gone
      BY <2>1, <2>2, <2>4
    <3> QED
      BY <2>1, <3>1
  <2>5. CASE c \notin gone
    <3> DEFINE t == Append(s, c)
    <3>1. /\ t \in Seq(E) /\ Len(t) = Len(s) + 1 /\ t[Len(s) + 1] = c
          /\ \A j \in 1 .. Len(s) : t[j] = s[j]
          /\ Len(s) \in Nat /\ DOMAIN s = 1 .. Len(s) /\ DOMAIN t = 1 .. Len(t)
      BY <2>1
    <3> HIDE DEF t
    <3>2. Members(t) = Members(s) \cup {c}
      <4>1. \A j \in 1 .. Len(t) : t[j] \in Members(s) \cup {c}
        BY <3>1 DEF Members
      <4>2. \A j \in 1 .. Len(s) : s[j] \in Members(t)
        BY <3>1 DEF Members
      <4>3. c \in Members(t)
        BY <3>1 DEF Members
      <4> QED
        BY <3>1, <4>1, <4>2, <4>3 DEF Members
    <3>3. NoDuplicates(t)
      <4>1. \A j \in 1 .. Len(s) : s[j] # c
        BY <2>1, <2>3, <3>1 DEF Members
      <4>2. \A j \in 1 .. Len(t) : j \in 1 .. Len(s) \/ j = Len(s) + 1
        BY <3>1
      <4> QED
        BY <2>1, <3>1, <4>1, <4>2 DEF NoDuplicates
    <3>4. f[i] = t
      BY <2>1, <2>5 DEF t
    <3> QED
      BY <2>1, <2>2, <2>5, <3>2, <3>3, <3>4
  <2> QED
    BY <2>4, <2>5
<1>9. n \in T
  <2> HIDE DEF T, n
  <2>1. 0 .. n \subseteq T
    BY <1>1, <1>7, <1>8, InductionUpTo
  <2> QED
    BY <1>1, <2>1
<1>10. Members(chain) = {chain[j] : j \in 1 .. n}
  BY <1>1 DEF Members
<1> QED
  BY <1>1, <1>5, <1>6, <1>9, <1>10
=============================================================================
