---------------------------- MODULE SeamTheorems ----------------------------
(***************************************************************************)
(* Theorems about Seam: the gate, the total, whose call an answer closes,  *)
(* the log and the tape, and what a drained session leaves, for any        *)
(* setups, calls, frames and bounds.                                       *)
(*                                                                         *)
(* The invariants speak of what is due: Due(o, c) says that the script of  *)
(* the call c's frame has a step o of it still to do.  What an action does *)
(* to the scripts is stated once, as what it does to Due.                  *)
(***************************************************************************)
EXTENDS Seam, FiniteSetTheorems, TLAPS

(***************************************************************************)
(* Finite sets of numbers, in order.                                       *)
(***************************************************************************)
Below(S, x) == {y \in S : y < x}

LEMMA BelowCounts ==
  ASSUME NEW S \in SUBSET Nat, IsFiniteSet(S), NEW x \in S
  PROVE  /\ IsFiniteSet(Below(S, x))
         /\ Cardinality(Below(S, x)) \in 0..Cardinality(S)-1
<1>1. Below(S, x) \subseteq S \ {x}
  BY DEF Below
<1>2. IsFiniteSet(S \ {x}) /\ Cardinality(S \ {x}) = Cardinality(S) - 1
  BY FS_RemoveElement
<1>3. /\ IsFiniteSet(Below(S, x)) /\ Cardinality(Below(S, x)) <= Cardinality(S \ {x})
  BY <1>1, <1>2, FS_Subset
<1>4. Cardinality(Below(S, x)) \in Nat /\ Cardinality(S) \in Nat
  BY <1>3, FS_CardinalityType
<1> QED
  BY <1>2, <1>3, <1>4

LEMMA BelowGrows ==
  ASSUME NEW S \in SUBSET Nat, IsFiniteSet(S), NEW x \in S, NEW z \in S, x < z
  PROVE  Cardinality(Below(S, x)) < Cardinality(Below(S, z))
<1> PICK B : B = Below(S, x)
  OBVIOUS
<1>1. IsFiniteSet(B) /\ x \notin B /\ B \cup {x} \subseteq Below(S, z)
  <2>1. \A y \in S : y \in Nat /\ (y < x => y < z) /\ ~(x < x)
    OBVIOUS
  <2>2. \A y : y \in B => y \in S /\ y < x
    BY DEF Below
  <2>3. \A y : y \in Below(S, z) <=> y \in S /\ y < z
    BY DEF Below
  <2>4. IsFiniteSet(B)
    BY BelowCounts
  <2> QED
    BY <2>1, <2>2, <2>3, <2>4
<1>2. IsFiniteSet(B \cup {x}) /\ Cardinality(B \cup {x}) = Cardinality(B) + 1
  BY <1>1, FS_AddElement
<1>3. Cardinality(B \cup {x}) <= Cardinality(Below(S, z))
  BY <1>1, BelowCounts, FS_Subset
<1>4. Cardinality(B) \in Nat /\ Cardinality(Below(S, z)) \in Nat
  BY <1>1, BelowCounts, FS_CardinalityType
<1> QED
  BY <1>2, <1>3, <1>4

\* InOrder is what its name says.
Listed(l, S) ==
  /\ \E n \in Nat : l \in [1..n -> S]
  /\ \A x \in S : \E i \in DOMAIN l : l[i] = x
  /\ \A i, j \in DOMAIN l : i < j => l[i] < l[j]

LEMMA InOrderLists ==
  ASSUME NEW S \in SUBSET Nat, IsFiniteSet(S)
  PROVE  Listed(InOrder(S), S)
<1> PICK n \in Nat : n = Cardinality(S)
  BY FS_CardinalityType
<1> DEFINE rank == [x \in S |-> Cardinality(Below(S, x))]
<1>1. \A x, z \in S : x < z => rank[x] < rank[z]
  BY BelowGrows
<1>2. rank \in [S -> 0..n-1]
  BY BelowCounts
<1>0. \A x, z \in S : x < z \/ z < x \/ x = z
  OBVIOUS
<1>3. \A x, z \in S : rank[x] = rank[z] => x = z
  <2> HIDE DEF rank
  <2> SUFFICES ASSUME NEW x \in S, NEW z \in S, rank[x] = rank[z] PROVE x = z
    OBVIOUS
  <2>1. rank[x] \in Nat /\ rank[z] \in Nat
    BY <1>2
  <2>2. ~(rank[x] < rank[z]) /\ ~(rank[z] < rank[x])
    BY <2>1
  <2> QED
    BY <1>0, <1>1, <2>2
<1>3a. rank \in Injection(S, 0..n-1)
  <2> HIDE DEF rank
  <2> QED
    BY <1>2, <1>3 DEF Injection, IsInjective
<1>4. IsFiniteSet(0..n-1) /\ Cardinality(0..n-1) = n
  <2>1. 0 \in Int /\ n-1 \in Int
    OBVIOUS
  <2>2. /\ IsFiniteSet(0..n-1)
        /\ Cardinality(0..n-1) = (IF 0 > n-1 THEN 0 ELSE (n-1) - 0 + 1)
    BY <2>1, FS_Interval, Zenon
  <2> QED
    BY <2>2
<1>5. rank \in Surjection(S, 0..n-1)
  <2> HIDE DEF rank
  <2> QED
    BY <1>3a, <1>4, FS_Injection, Zenon
<1>6. \A k \in 0..n-1 : \E x \in S : rank[x] = k
  <2> HIDE DEF rank
  <2> QED
    BY <1>5 DEF Surjection
<1>7. \A k \in 1..n : InOrder(S)[k] \in S /\ rank[InOrder(S)[k]] = k-1
  <2> SUFFICES ASSUME NEW k \in 1..n
               PROVE  InOrder(S)[k] \in S /\ rank[InOrder(S)[k]] = k-1
    OBVIOUS
  <2>1. InOrder(S)[k] = CHOOSE x \in S : Cardinality(Below(S, x)) = k-1
    BY DEF InOrder, Below
  <2>2. k-1 \in 0..n-1
    OBVIOUS
  <2>3. \E x \in S : Cardinality(Below(S, x)) = k-1
    BY <1>6, <2>2
  <2> QED
    BY <2>1, <2>3
<1>8. DOMAIN InOrder(S) = 1..n
  BY DEF InOrder
<1>9. InOrder(S) \in [1..n -> S]
  BY <1>7 DEF InOrder
<1> PICK l : l = InOrder(S)
  OBVIOUS
<1> HIDE DEF rank
<1>10. \A x \in S : rank[x] \in Nat /\ rank[x] + 1 \in 1..n
  BY <1>2
<1>11. \A k \in 1..n : l[k] \in S /\ rank[l[k]] = k-1
  BY <1>7
<1>12. \A x \in S : l[rank[x]+1] = x
  <2> SUFFICES ASSUME NEW x \in S PROVE l[rank[x]+1] = x
    OBVIOUS
  <2>1. rank[l[rank[x]+1]] = rank[x] /\ l[rank[x]+1] \in S
    BY <1>10, <1>11
  <2> QED
    BY <1>3, <2>1
<1>13. \A i, j \in 1..n : i < j => l[i] < l[j]
  <2> SUFFICES ASSUME NEW i \in 1..n, NEW j \in 1..n, i < j PROVE l[i] < l[j]
    OBVIOUS
  <2>1. l[i] \in S /\ l[j] \in S /\ rank[l[i]] = i-1 /\ rank[l[j]] = j-1
    BY <1>11
  <2>2. rank[l[i]] # rank[l[j]] /\ ~(rank[l[j]] < rank[l[i]])
    BY <2>1
  <2>3. l[i] # l[j] /\ ~(l[j] < l[i])
    BY <1>1, <2>1, <2>2
  <2> QED
    BY <1>0, <2>1, <2>3
<1> QED
  BY <1>8, <1>9, <1>10, <1>12, <1>13 DEF Listed

(***************************************************************************)
(* Scripts.  What is left of one is a part of it in its order; every step  *)
(* is done once for a call.                                                *)
(***************************************************************************)
Labels == {"judge", "record", "write", "open", "answer", "refuse", "inject", "pair", "close",
           "relay", "pass", "gone"}
OneCall == {"open", "pair", "close", "record", "refuse"}
Steps == [op : Labels, of : SUBSET Nat]
Has(s, o, c) == \E i \in 1..Len(s) : s[i].op = o /\ c \in s[i].of
OpsOf(s) == {s[i].op : i \in 1..Len(s)}

Well(s, C) ==
  /\ s \in Seq(Steps)
  /\ \A i \in 1..Len(s) : /\ s[i].of \subseteq C
                          /\ s[i].op \in OneCall => \E c \in C : s[i].of = {c}
  /\ \A i, j \in 1..Len(s) : s[i].op = s[j].op /\ s[i].of \cap s[j].of # {} => i = j
  /\ \A i \in 1..Len(s) : s[i].op = "answer" => i = Len(s)
  /\ \A i, j \in 1..Len(s) : s[i].op = "close" /\ s[j].op = "pair" => j < i

\* t is what is left of s when some of its steps are left out.
LeftOf(t, s) ==
  /\ t \in Seq(Steps)
  /\ \E h \in [1..Len(t) -> 1..Len(s)] : /\ \A i \in 1..Len(t) : t[i] = s[h[i]]
                                        /\ \A i, j \in 1..Len(t) : i < j => h[i] < h[j]

LEMMA LeftIsWell ==
  ASSUME NEW s, NEW t, NEW C, Well(s, C), LeftOf(t, s)
  PROVE  Well(t, C)
<1>1. PICK n \in Nat, m \in Nat : n = Len(t) /\ m = Len(s)
  BY DEF Well, LeftOf
<1>2. PICK h \in [1..n -> 1..m] : /\ \A i \in 1..n : t[i] = s[h[i]]
                                  /\ \A i, j \in 1..n : i < j => h[i] < h[j]
  BY <1>1 DEF LeftOf
<1>3. \A i, j \in 1..n : i < j \/ j < i \/ i = j
  OBVIOUS
<1>4. \A i, j \in 1..n : h[i] \in 1..m /\ h[i] \in Nat /\ (h[i] = h[j] => i = j)
  <2> SUFFICES ASSUME NEW i \in 1..n, NEW j \in 1..n
               PROVE  h[i] \in 1..m /\ h[i] \in Nat /\ (h[i] = h[j] => i = j)
    OBVIOUS
  <2>1. h[i] \in 1..m /\ h[j] \in 1..m
    BY <1>2
  <2>2. h[i] = h[j] => ~(h[i] < h[j]) /\ ~(h[j] < h[i])
    BY <2>1
  <2> QED
    BY <1>2, <1>3, <2>1, <2>2
<1>5. \A i \in 1..n : /\ t[i].of \subseteq C
                      /\ t[i].op \in OneCall => \E c \in C : t[i].of = {c}
  BY <1>1, <1>2, <1>4 DEF Well
<1>6. \A i, j \in 1..n : t[i].op = t[j].op /\ t[i].of \cap t[j].of # {} => i = j
  BY <1>1, <1>2, <1>4 DEF Well
<1>7. \A i \in 1..n : t[i].op = "answer" => i = n
  <2> SUFFICES ASSUME NEW i \in 1..n, t[i].op = "answer", i # n PROVE FALSE
    OBVIOUS
  <2>1. n \in 1..n /\ i < n
    OBVIOUS
  <2>2. h[i] = m
    BY <1>1, <1>2, <1>4 DEF Well
  <2>3. h[i] < h[n] /\ h[n] \in 1..m
    BY <1>2, <1>4, <2>1
  <2> QED
    BY <2>2, <2>3
<1>8. \A i, j \in 1..n : t[i].op = "close" /\ t[j].op = "pair" => j < i
  <2> SUFFICES ASSUME NEW i \in 1..n, NEW j \in 1..n, t[i].op = "close", t[j].op = "pair"
               PROVE  j < i
    OBVIOUS
  <2>1. h[j] < h[i] /\ h[i] \in Nat /\ h[j] \in Nat
    BY <1>1, <1>2, <1>4 DEF Well
  <2>2. ~(h[i] < h[j]) /\ i # j
    BY <2>1
  <2> QED
    BY <1>2, <1>3, <2>2
<1> QED
  BY <1>1, <1>5, <1>6, <1>7, <1>8 DEF Well, LeftOf

LEMMA LeftHas ==
  ASSUME NEW s, NEW t, LeftOf(t, s), NEW o, NEW c, Has(t, o, c)
  PROVE  Has(s, o, c)
BY DEF Has, LeftOf

\* The first step is done.
LEMMA TailIsLeft ==
  ASSUME NEW s \in Seq(Steps), s # <<>>
  PROVE  LeftOf(Tail(s), s)
<1>1. PICK n \in Nat : n = Len(s) /\ n # 0
  OBVIOUS
<1>2. /\ Tail(s) \in Seq(Steps) /\ Len(Tail(s)) = n-1
      /\ \A i \in 1..n-1 : Tail(s)[i] = s[i+1]
  BY <1>1
<1> DEFINE h == [i \in 1..n-1 |-> i+1]
<1>3. h \in [1..n-1 -> 1..n] /\ \A i, j \in 1..n-1 : i < j => h[i] < h[j]
  BY <1>1
<1> QED
  BY <1>1, <1>2, <1>3 DEF LeftOf

LEMMA TailHas ==
  ASSUME NEW s, NEW C, Well(s, C), s # <<>>, NEW o, NEW c
  PROVE  Has(Tail(s), o, c) <=> Has(s, o, c) /\ ~(o = Head(s).op /\ c \in Head(s).of)
<1>1. PICK n \in Nat : n = Len(s) /\ n # 0
  BY DEF Well
<1>2. /\ Len(Tail(s)) = n-1 /\ Head(s) = s[1]
      /\ \A i \in 1..n-1 : Tail(s)[i] = s[i+1]
  BY <1>1 DEF Well
<1>3. Has(Tail(s), o, c) <=> \E i \in 1..n-1 : s[i+1].op = o /\ c \in s[i+1].of
  BY <1>2 DEF Has
<1>4. Has(s, o, c) <=> \E i \in 1..n : s[i].op = o /\ c \in s[i].of
  BY <1>1 DEF Has
<1>5. \A i \in 1..n : s[i].op = s[1].op /\ c \in s[i].of /\ c \in s[1].of => i = 1
  BY <1>1 DEF Well
<1>6. \A i \in 1..n : i = 1 \/ (i-1 \in 1..n-1 /\ (i-1)+1 = i)
  OBVIOUS
<1>7. \A i \in 1..n-1 : i+1 \in 1..n /\ i+1 # 1
  OBVIOUS
<1> QED
  BY <1>2, <1>3, <1>4, <1>5, <1>6, <1>7

\* Steps are left out.
LEMMA WithoutIsLeft ==
  ASSUME NEW s \in Seq(Steps), NEW ops
  PROVE  /\ LeftOf(Without(s, ops), s)
         /\ \A o, c : Has(Without(s, ops), o, c) <=> Has(s, o, c) /\ o \notin ops
<1>1. PICK m \in Nat : m = Len(s) /\ DOMAIN s = 1..m
  OBVIOUS
<1> PICK D : D = {i \in DOMAIN s : s[i].op \notin ops}
  OBVIOUS
<1>2. D \in SUBSET Nat /\ D \subseteq 1..m
  BY <1>1
<1>3. IsFiniteSet(D)
  <2>1. 1 \in Int /\ m \in Int
    OBVIOUS
  <2>2. IsFiniteSet(1..m)
    BY <2>1, FS_Interval, Zenon
  <2> QED
    BY <1>2, <2>2, FS_Subset
<1>4. Listed(InOrder(D), D)
  BY <1>2, <1>3, InOrderLists
<1> PICK h : h = InOrder(D)
  OBVIOUS
<1>5. PICK n \in Nat : h \in [1..n -> D]
  BY <1>4 DEF Listed
<1>6. Without(s, ops) = [k \in 1..n |-> s[h[k]]]
  BY <1>5 DEF Without
<1> PICK t : t = Without(s, ops)
  OBVIOUS
<1>7. \A k \in 1..n : h[k] \in D /\ h[k] \in 1..m /\ s[h[k]] \in Steps
  BY <1>1, <1>2, <1>5
<1>8. t \in Seq(Steps) /\ Len(t) = n /\ \A k \in 1..n : t[k] = s[h[k]]
  BY <1>6, <1>7
<1>9. h \in [1..n -> 1..m] /\ \A i, j \in 1..n : i < j => h[i] < h[j]
  BY <1>2, <1>4, <1>5 DEF Listed
<1>10. LeftOf(t, s)
  BY <1>1, <1>8, <1>9 DEF LeftOf
<1>11. \A x \in D : \E k \in 1..n : h[k] = x
  BY <1>4, <1>5 DEF Listed
<1>12. ASSUME NEW o, NEW c PROVE Has(t, o, c) <=> Has(s, o, c) /\ o \notin ops
  <2>1. Has(t, o, c) <=> \E k \in 1..n : s[h[k]].op = o /\ c \in s[h[k]].of
    <3>1. Has(t, o, c) <=> \E k \in 1..n : t[k].op = o /\ c \in t[k].of
      BY <1>8, Zenon DEF Has
    <3>2. \A k \in 1..n : t[k] = s[h[k]]
      BY <1>8, Zenon
    <3> QED
      BY <3>1, <3>2
  <2>2. Has(s, o, c) <=> \E i \in 1..m : s[i].op = o /\ c \in s[i].of
    BY <1>1 DEF Has
  <2>3. \A i : i \in D <=> i \in 1..m /\ s[i].op \notin ops
    BY <1>1
  <2> QED
    BY <1>7, <1>11, <2>1, <2>2, <2>3, SMTT(30)
<1> QED
  BY <1>10, <1>12

(***************************************************************************)
(* How scripts are put together.                                           *)
(***************************************************************************)
Made(s, C, ops) == Well(s, C) /\ \A i \in 1..Len(s) : s[i].op \in ops

Joins(u, s, t, m, n) ==
  /\ u \in Seq(Steps) /\ Len(u) = m + n
  /\ \A k \in 1..m : u[k] = s[k]
  /\ \A k \in 1..n : u[m + k] = t[k]

LEMMA JoinedParts ==
  ASSUME NEW s \in Seq(Steps), NEW t \in Seq(Steps)
  PROVE  Joins(s \o t, s, t, Len(s), Len(t))
BY DEF Joins

LEMMA TwoParts ==
  ASSUME NEW m \in Nat, NEW n \in Nat, NEW k \in 1..m + n, k \notin 1..m
  PROVE  \E i \in 1..n : k = m + i
<1>1. k - m \in 1..n /\ k = m + (k - m)
  OBVIOUS
<1> QED
  BY <1>1

LEMMA Joined ==
  ASSUME NEW C, NEW A, NEW B, NEW s, NEW t, Made(s, C, A), Made(t, C, B), A \cap B = {},
         "answer" \notin A, "close" \notin A \/ "pair" \notin B
  PROVE  /\ Made(s \o t, C, A \cup B)
         /\ \A o, c : Has(s \o t, o, c) <=> Has(s, o, c) \/ Has(t, o, c)
<1>1. s \in Seq(Steps) /\ t \in Seq(Steps)
  BY DEF Made, Well
<1>2. PICK m \in Nat, n \in Nat : m = Len(s) /\ n = Len(t)
  BY <1>1
<1> PICK u : u = s \o t
  OBVIOUS
<1>3. Joins(u, s, t, m, n)
  BY <1>1, <1>2, JoinedParts, Zenon
<1>3a. /\ u \in Seq(Steps) /\ Len(u) = m + n
       /\ \A k \in 1..m : u[k] = s[k]
       /\ \A k \in 1..n : u[m + k] = t[k]
  BY <1>3, Zenon DEF Joins
<1>3b. \A k \in 1..m + n : k \in 1..m \/ \E i \in 1..n : k = m + i
  BY <1>2, TwoParts
<1>4. /\ \A k \in 1..m : k \in 1..m + n
      /\ \A k \in 1..n : m + k \in 1..m + n
  OBVIOUS
<1>5. ASSUME NEW k \in 1..m + n
      PROVE  /\ k \in 1..m => u[k] = s[k] /\ u[k].op \in A
             /\ k \in 1..m \/ \E i \in 1..n : k = m + i /\ u[k] = t[i] /\ u[k].op \in B
  <2>1. CASE k \in 1..m
    BY <1>2, <1>3a, <2>1 DEF Made
  <2>2. ASSUME NEW i \in 1..n, k = m + i PROVE u[k] = t[i] /\ u[k].op \in B
    BY <1>2, <1>3a, <2>2 DEF Made
  <2> QED
    BY <1>3b, <2>1, <2>2
<1>6. ASSUME NEW k \in 1..m + n
      PROVE  /\ u[k].of \subseteq C
             /\ u[k].op \in OneCall => \E c \in C : u[k].of = {c}
  <2>1. CASE k \in 1..m
    BY <1>2, <1>5, <2>1 DEF Made, Well
  <2>2. CASE k \notin 1..m
    <3>1. PICK i \in 1..n : u[k] = t[i]
      BY <1>5, <2>2
    <3> QED
      BY <1>2, <3>1 DEF Made, Well
  <2> QED
    BY <2>1, <2>2
<1>7. \A i, j \in 1..m + n : u[i].op = u[j].op /\ u[i].of \cap u[j].of # {} => i = j
  <2> SUFFICES ASSUME NEW i \in 1..m + n, NEW j \in 1..m + n,
                      u[i].op = u[j].op, u[i].of \cap u[j].of # {}
               PROVE  i = j
    OBVIOUS
  <2>1. CASE i \in 1..m
    <3>1. u[i] = s[i] /\ u[i].op \in A
      BY <1>5, <2>1
    <3>2. u[j].op \notin B
      BY <3>1
    <3>3. j \in 1..m /\ u[j] = s[j]
      BY <1>5, <3>2
    <3> QED
      BY <1>2, <2>1, <3>1, <3>3 DEF Made, Well
  <2>2. CASE \E k \in 1..n : i = m + k
    <3>1. PICK k \in 1..n : i = m + k /\ u[i] = t[k]
      BY <1>3a, <2>2
    <3>2. t[k].op \in B
      BY <1>2 DEF Made
    <3>3. PICK l \in 1..n : j = m + l /\ u[j] = t[l]
      <4>1. j \notin 1..m
        BY <1>5, <3>1, <3>2
      <4> QED
        BY <1>5, <4>1
    <3>4. k = l
      BY <1>2, <3>1, <3>3 DEF Made, Well
    <3> QED
      BY <3>1, <3>3, <3>4
  <2> QED
    BY <1>3b, <2>1, <2>2
<1>8. \A k \in 1..m + n : u[k].op = "answer" => k = m + n
  BY <1>2, <1>5 DEF Made, Well
<1>9. \A i, j \in 1..m + n : u[i].op = "close" /\ u[j].op = "pair" => j < i
  <2> SUFFICES ASSUME NEW i \in 1..m + n, NEW j \in 1..m + n, u[i].op = "close", u[j].op = "pair"
               PROVE  j < i
    OBVIOUS
  <2>1. CASE i \in 1..m
    <3>1. u[i] = s[i] /\ "close" \in A
      BY <1>5, <2>1
    <3>2. j \in 1..m /\ u[j] = s[j]
      BY <1>5, <3>1
    <3> QED
      BY <1>2, <2>1, <3>1, <3>2 DEF Made, Well
  <2>2. CASE \E k \in 1..n : i = m + k
    <3>1. PICK k \in 1..n : i = m + k /\ u[i] = t[k]
      BY <1>3a, <2>2
    <3>2. CASE j \in 1..m
      BY <3>1, <3>2
    <3>3. CASE \E l \in 1..n : j = m + l
      <4>1. PICK l \in 1..n : j = m + l /\ u[j] = t[l]
        BY <1>3a, <3>3
      <4>2. l < k
        BY <1>2, <3>1, <4>1 DEF Made, Well
      <4> QED
        BY <3>1, <4>1, <4>2
    <3> QED
      BY <1>3b, <3>2, <3>3
  <2> QED
    BY <1>3b, <2>1, <2>2
<1>10. Made(u, C, A \cup B)
  BY <1>3a, <1>5, <1>6, <1>7, <1>8, <1>9 DEF Made, Well
<1>11. ASSUME NEW o, NEW c PROVE Has(u, o, c) <=> Has(s, o, c) \/ Has(t, o, c)
  <2>1. /\ Has(u, o, c) <=> \E k \in 1..m + n : u[k].op = o /\ c \in u[k].of
        /\ Has(s, o, c) <=> \E k \in 1..m : s[k].op = o /\ c \in s[k].of
        /\ Has(t, o, c) <=> \E k \in 1..n : t[k].op = o /\ c \in t[k].of
    BY <1>2, <1>3a DEF Has
  <2>2. ASSUME NEW k \in 1..m + n, u[k].op = o, c \in u[k].of
        PROVE  Has(s, o, c) \/ Has(t, o, c)
    BY <1>5, <2>1, <2>2
  <2>3. Has(s, o, c) => Has(u, o, c)
    BY <1>3a, <1>4, <2>1
  <2>4. Has(t, o, c) => Has(u, o, c)
    BY <1>3a, <1>4, <2>1
  <2> QED
    BY <2>1, <2>2, <2>3, <2>4
<1> QED
  BY <1>10, <1>11

LEMMA NothingIsMade ==
  ASSUME NEW C, NEW ops
  PROVE  Made(<<>>, C, ops) /\ \A o, c : ~Has(<<>>, o, c)
BY DEF Made, Well, Has

LEMMA AllMade ==
  ASSUME NEW C \in SUBSET Nat, NEW op \in Labels \ OneCall, NEW S, S \subseteq C
  PROVE  /\ Made(All(op, S), C, {op})
         /\ \A o, c : Has(All(op, S), o, c) <=> o = op /\ c \in S
<1> PICK s : s = All(op, S)
  OBVIOUS
<1>1. s \in Seq(Steps) /\ Len(s) = 1 /\ s[1].op = op /\ s[1].of = S
  BY DEF All, Steps
<1>2. \A i \in 1..Len(s) : i = 1 /\ i = Len(s)
  BY <1>1
<1>3. /\ \A i \in 1..Len(s) : s[i].op = op /\ s[i].of = S
      /\ 1 \in 1..Len(s)
  BY <1>1, <1>2
<1>4. Made(s, C, {op})
  BY <1>1, <1>2, <1>3 DEF Made, Well
<1>5. \A o, c : Has(s, o, c) <=> o = op /\ c \in S
  BY <1>3 DEF Has
<1> QED
  BY <1>4, <1>5

LEMMA EachMade ==
  ASSUME NEW C \in SUBSET Nat, IsFiniteSet(C), NEW op \in OneCall, NEW S, S \subseteq C
  PROVE  /\ Made(Each(op, S), C, {op})
         /\ \A o, c : Has(Each(op, S), o, c) <=> o = op /\ c \in S
<1>1. IsFiniteSet(S) /\ S \in SUBSET Nat
  BY FS_Subset
<1>2. PICK n \in Nat : n = Cardinality(S)
  BY <1>1, FS_CardinalityType
<1> PICK l : l = InOrder(S)
  OBVIOUS
<1>3. Listed(l, S) /\ DOMAIN l = 1..n
  BY <1>1, <1>2, InOrderLists DEF InOrder
<1>4. /\ \A i \in 1..n : l[i] \in S
      /\ \A x \in S : \E i \in 1..n : l[i] = x
      /\ \A i, j \in 1..n : i < j => l[i] < l[j]
  BY <1>3 DEF Listed
<1>5. \A i, j \in 1..n : l[i] = l[j] => i = j
  <2> SUFFICES ASSUME NEW i \in 1..n, NEW j \in 1..n, l[i] = l[j], i # j PROVE FALSE
    OBVIOUS
  <2>1. l[i] \in Nat /\ l[j] \in Nat
    BY <1>1, <1>4
  <2>2. i < j \/ j < i
    OBVIOUS
  <2> QED
    BY <1>4, <2>1, <2>2
<1> PICK s : s = Each(op, S)
  OBVIOUS
<1>6. s = [i \in 1..n |-> [op |-> op, of |-> {l[i]}]]
  BY <1>2 DEF Each
<1>7. \A i \in 1..n : [op |-> op, of |-> {l[i]}] \in Steps
  BY <1>1, <1>4 DEF Steps, Labels, OneCall
<1>8. /\ s \in Seq(Steps) /\ Len(s) = n
      /\ \A i \in 1..n : s[i].op = op /\ s[i].of = {l[i]}
  BY <1>6, <1>7
<1>9. op \notin {"answer"} /\ ~(op = "close" /\ op = "pair")
  BY DEF OneCall
<1>10. Well(s, C)
  <2>1. ASSUME NEW i \in 1..n PROVE s[i].of \subseteq C /\ \E c \in C : s[i].of = {c}
    <3>1. s[i].of = {l[i]} /\ l[i] \in C
      BY <1>4, <1>8
    <3> QED
      BY <3>1
  <2>2. \A i, j \in 1..n : s[i].of \cap s[j].of # {} => i = j
    BY <1>5, <1>8
  <2>3. /\ \A i \in 1..n : s[i].op = "answer" => i = n
        /\ \A i, j \in 1..n : s[i].op = "close" /\ s[j].op = "pair" => j < i
    BY <1>8, <1>9
  <2> QED
    BY <1>8, <2>1, <2>2, <2>3 DEF Well
<1>11. Made(s, C, {op})
  BY <1>8, <1>10 DEF Made
<1>12. ASSUME NEW o, NEW c PROVE Has(s, o, c) <=> o = op /\ c \in S
  <2>1. Has(s, o, c) <=> \E i \in 1..n : o = op /\ c = l[i]
    BY <1>8 DEF Has
  <2> QED
    BY <1>4, <2>1
<1> QED
  BY <1>11, <1>12

SetupTyped == transport \in {"pipe", "http", "call"} /\ mode \in {"none", "record", "enforce"}
WatchOps == IF mode = "record" THEN {"judge", "record"} ELSE {}
ScriptOps == IF mode = "enforce" THEN {"judge"}
             ELSE {"write", "open"}
                  \cup (IF transport = "call" THEN {} ELSE WatchOps)
                  \cup (IF transport = "pipe" THEN {} ELSE {"answer"})
PassedOps == {"write", "record", "open"} \cup (IF transport = "pipe" THEN {} ELSE {"answer"})
Valid(S) == {c \in S : calls[c].id # BadId}

\* A script is made of the steps ops for each of the calls S.
Does(s, C, ops, S) == Made(s, C, ops) /\ \A o, c : Has(s, o, c) <=> o \in ops /\ c \in S

LEMMA DoesAll ==
  ASSUME NEW C \in SUBSET Nat, NEW op \in Labels \ OneCall, NEW S, S \subseteq C
  PROVE  Does(All(op, S), C, {op}, S)
BY AllMade DEF Does

LEMMA DoesEach ==
  ASSUME NEW C \in SUBSET Nat, IsFiniteSet(C), NEW op \in OneCall, NEW S, S \subseteq C
  PROVE  Does(Each(op, S), C, {op}, S)
BY EachMade, ZenonT(40) DEF Does

LEMMA DoesBoth ==
  ASSUME NEW C, NEW A, NEW B, NEW s, NEW t, NEW S, Does(s, C, A, S), Does(t, C, B, S),
         A \cap B = {}, "answer" \notin A, "close" \notin A \/ "pair" \notin B
  PROVE  Does(s \o t, C, A \cup B, S)
<1>1. /\ Made(s \o t, C, A \cup B)
      /\ \A o, c : Has(s \o t, o, c) <=> Has(s, o, c) \/ Has(t, o, c)
  BY Joined, Zenon DEF Does
<1>2. \A o, c : Has(s \o t, o, c) <=> o \in A \cup B /\ c \in S
  BY <1>1, Zenon DEF Does
<1> QED
  BY <1>1, <1>2, Zenon DEF Does

LEMMA DoesNothing == ASSUME NEW C, NEW S PROVE Does(<<>>, C, {}, S)
BY NothingIsMade DEF Does

\* Halves of the numbers up to 2n.
LEMMA Halves ==
  ASSUME NEW n \in Nat
  PROVE  /\ \A i \in 1..2*n : (i + 1) \div 2 \in 1..n
         /\ \A i, j \in 1..2*n : (i % 2 = 1 <=> j % 2 = 1) /\ (i + 1) \div 2 = (j + 1) \div 2 => i = j
         /\ \A k \in 1..n : /\ 2*k - 1 \in 1..2*n /\ (2*k - 1) % 2 = 1 /\ ((2*k - 1) + 1) \div 2 = k
                            /\ 2*k \in 1..2*n /\ (2*k) % 2 # 1 /\ (2*k + 1) \div 2 = k
OBVIOUS

LEMMA DoesWatch ==
  ASSUME SetupTyped, NEW C \in SUBSET Nat, IsFiniteSet(C), NEW S, S \subseteq C
  PROVE  Does(Watch(S), C, {"judge", "record"}, S)
<1>1. CASE transport # "pipe"
  <2>1. Watch(S) = All("judge", S) \o Each("record", S)
    BY <1>1 DEF Watch
  <2>2. Does(All("judge", S), C, {"judge"}, S)
    BY DoesAll DEF Labels, OneCall
  <2>3. Does(Each("record", S), C, {"record"}, S)
    BY DoesEach DEF OneCall
  <2>4. Does(All("judge", S) \o Each("record", S), C, {"judge"} \cup {"record"}, S)
    BY <2>2, <2>3, DoesBoth
  <2>5. {"judge"} \cup {"record"} = {"judge", "record"}
    OBVIOUS
  <2> QED
    BY <2>1, <2>4, <2>5
<1>2. CASE transport = "pipe"
  <2>1. IsFiniteSet(S) /\ S \in SUBSET Nat
    BY FS_Subset
  <2>2. PICK n \in Nat : n = Cardinality(S)
    BY <2>1, FS_CardinalityType
  <2> PICK l : l = InOrder(S)
    OBVIOUS
  <2>3. Listed(l, S) /\ DOMAIN l = 1..n
    BY <2>1, <2>2, InOrderLists DEF InOrder
  <2>4. /\ \A i \in 1..n : l[i] \in S
        /\ \A x \in S : \E i \in 1..n : l[i] = x
        /\ \A i, j \in 1..n : i < j => l[i] < l[j]
    BY <2>3 DEF Listed
  <2>5. \A i, j \in 1..n : l[i] = l[j] => i = j
    <3> SUFFICES ASSUME NEW i \in 1..n, NEW j \in 1..n, l[i] = l[j], i # j PROVE FALSE
      OBVIOUS
    <3>1. l[i] \in Nat /\ l[j] \in Nat
      BY <2>1, <2>4
    <3>2. i < j \/ j < i
      OBVIOUS
    <3> QED
      BY <2>4, <3>1, <3>2
  <2> DEFINE half(i) == (i + 1) \div 2
             first(i) == i % 2 = 1
  <2>6. /\ \A i \in 1..2*n : half(i) \in 1..n
        /\ \A i, j \in 1..2*n : (first(i) <=> first(j)) /\ half(i) = half(j) => i = j
        /\ \A k \in 1..n : /\ 2*k - 1 \in 1..2*n /\ first(2*k - 1) /\ half(2*k - 1) = k
                           /\ 2*k \in 1..2*n /\ ~first(2*k) /\ half(2*k) = k
    BY Halves, Zenon
  <2> PICK s : s = Watch(S)
    OBVIOUS
  <2> PICK m \in Nat : m = 2*n
    OBVIOUS
  <2>7. s = [i \in 1..m |-> [op |-> IF first(i) THEN "judge" ELSE "record", of |-> {l[half(i)]}]]
    BY <1>2, <2>2 DEF Watch
  <2> HIDE DEF half, first
  <2>8. \A i \in 1..m : half(i) \in 1..n /\ l[half(i)] \in S
    BY <2>4, <2>6
  <2>9. \A i \in 1..m : [op |-> IF first(i) THEN "judge" ELSE "record", of |-> {l[half(i)]}] \in Steps
    BY <2>1, <2>8 DEF Steps, Labels
  <2>10. /\ s \in Seq(Steps) /\ Len(s) = m
         /\ \A i \in 1..m : /\ s[i].op = (IF first(i) THEN "judge" ELSE "record")
                            /\ s[i].of = {l[half(i)]}
    BY <2>7, <2>9
  <2>11. \A i \in 1..m : s[i].op \in {"judge", "record"}
    BY <2>10
  <2>12. Well(s, C)
    <3>1. ASSUME NEW i \in 1..m PROVE s[i].of \subseteq C /\ \E c \in C : s[i].of = {c}
      <4>1. s[i].of = {l[half(i)]} /\ l[half(i)] \in C
        BY <2>8, <2>10
      <4> QED
        BY <4>1
    <3>2. ASSUME NEW i \in 1..m, NEW j \in 1..m, s[i].op = s[j].op, s[i].of \cap s[j].of # {}
          PROVE  i = j
      <4>1. first(i) <=> first(j)
        BY <2>10, <3>2
      <4>2. l[half(i)] = l[half(j)]
        BY <2>10, <3>2
      <4>3. half(i) = half(j)
        BY <2>5, <2>8, <4>2
      <4> QED
        BY <2>6, <4>1, <4>3
    <3> QED
      BY <2>10, <2>11, <3>1, <3>2 DEF Well
  <2>13. Made(s, C, {"judge", "record"})
    BY <2>10, <2>11, <2>12 DEF Made
  <2>14. ASSUME NEW o, NEW c PROVE Has(s, o, c) <=> o \in {"judge", "record"} /\ c \in S
    <3>1. Has(s, o, c) => o \in {"judge", "record"} /\ c \in S
      BY <2>8, <2>10 DEF Has
    <3>2. ASSUME o \in {"judge", "record"}, c \in S PROVE Has(s, o, c)
      <4>1. PICK k \in 1..n : l[k] = c
        BY <2>4, <3>2
      <4>2. PICK i \in 1..m : half(i) = k /\ (first(i) <=> o = "judge")
        BY <2>6, <3>2
      <4>3. s[i].op = o /\ c \in s[i].of
        BY <2>10, <3>2, <4>1, <4>2
      <4> QED
        BY <2>10, <4>3 DEF Has
    <3> QED
      BY <3>1, <3>2
  <2> QED
    BY <2>13, <2>14 DEF Does
<1> QED
  BY <1>1, <1>2

LEMMA DoesWatched ==
  ASSUME SetupTyped, NEW C \in SUBSET Nat, IsFiniteSet(C), NEW S, S \subseteq C
  PROVE  Does(Watched(S), C, WatchOps, S)
BY DoesWatch, DoesNothing DEF Watched, WatchOps

\* What is done with a frame.
LEMMA DoesScript ==
  ASSUME SetupTyped, NEW C \in SUBSET Nat, IsFiniteSet(C), NEW S, S \subseteq C
  PROVE  Does(Script(S), C, ScriptOps, S)
<1>1. /\ Does(All("judge", S), C, {"judge"}, S)
      /\ Does(All("write", S), C, {"write"}, S)
      /\ Does(All("answer", S), C, {"answer"}, S)
  BY DoesAll DEF Labels, OneCall
<1>2. Does(Each("open", S), C, {"open"}, S)
  BY DoesEach DEF OneCall
<1>3. Does(Watched(S), C, WatchOps, S)
  BY DoesWatched
<1>4. WatchOps \subseteq {"judge", "record"}
  BY DEF WatchOps
<1>5. CASE mode = "enforce"
  BY <1>1, <1>5 DEF Script, ScriptOps
<1>6. CASE mode # "enforce" /\ transport = "pipe"
  <2>1. Does(All("write", S) \o Each("open", S), C, {"write"} \cup {"open"}, S)
    BY <1>1, <1>2, DoesBoth
  <2>2. Does((All("write", S) \o Each("open", S)) \o Watched(S), C,
             ({"write"} \cup {"open"}) \cup WatchOps, S)
    BY <1>3, <1>4, <2>1, DoesBoth
  <2>3. ScriptOps = ({"write"} \cup {"open"}) \cup WatchOps
    BY <1>6 DEF ScriptOps
  <2>4. Script(S) = (All("write", S) \o Each("open", S)) \o Watched(S)
    BY <1>6 DEF Script
  <2> QED
    BY <2>2, <2>3, <2>4
<1>7. CASE mode # "enforce" /\ transport = "http"
  <2>1. Does(All("write", S) \o Each("open", S), C, {"write"} \cup {"open"}, S)
    BY <1>1, <1>2, DoesBoth
  <2>2. Does((All("write", S) \o Each("open", S)) \o Watched(S), C,
             ({"write"} \cup {"open"}) \cup WatchOps, S)
    BY <1>3, <1>4, <2>1, DoesBoth
  <2>3. Does(((All("write", S) \o Each("open", S)) \o Watched(S)) \o All("answer", S), C,
             (({"write"} \cup {"open"}) \cup WatchOps) \cup {"answer"}, S)
    <3>1. (({"write"} \cup {"open"}) \cup WatchOps) \cap {"answer"} = {}
          /\ "answer" \notin (({"write"} \cup {"open"}) \cup WatchOps)
      BY <1>4
    <3> QED
      BY <1>1, <2>2, <3>1, DoesBoth
  <2>4. ScriptOps = (({"write"} \cup {"open"}) \cup WatchOps) \cup {"answer"}
    BY <1>7 DEF ScriptOps
  <2>5. Script(S) = ((All("write", S) \o Each("open", S)) \o Watched(S)) \o All("answer", S)
    BY <1>7 DEF Script
  <2> QED
    BY <2>3, <2>4, <2>5
<1>8. CASE mode # "enforce" /\ transport = "call"
  <2>1. Does(Each("open", S) \o All("write", S), C, {"open"} \cup {"write"}, S)
    BY <1>1, <1>2, DoesBoth
  <2>2. Does((Each("open", S) \o All("write", S)) \o All("answer", S), C,
             ({"open"} \cup {"write"}) \cup {"answer"}, S)
    BY <1>1, <2>1, DoesBoth
  <2>3. ScriptOps = ({"open"} \cup {"write"}) \cup {"answer"}
    BY <1>8 DEF ScriptOps
  <2>4. Script(S) = (Each("open", S) \o All("write", S)) \o All("answer", S)
    BY <1>8 DEF Script
  <2> QED
    BY <2>2, <2>3, <2>4
<1> QED
  BY <1>5, <1>6, <1>7, <1>8 DEF SetupTyped

\* What is done with one that goes on.
LEMMA DoesPassed ==
  ASSUME SetupTyped, NEW C \in SUBSET Nat, IsFiniteSet(C), NEW S, S \subseteq C
  PROVE  Does(Passed(S), C, PassedOps, S)
<1>1. /\ Does(All("write", S), C, {"write"}, S)
      /\ Does(All("answer", S), C, {"answer"}, S)
  BY DoesAll DEF Labels, OneCall
<1>2. /\ Does(Each("open", S), C, {"open"}, S)
      /\ Does(Each("record", S), C, {"record"}, S)
  BY DoesEach DEF OneCall
<1>3. CASE transport = "pipe"
  <2>1. Does(All("write", S) \o Each("record", S), C, {"write"} \cup {"record"}, S)
    BY <1>1, <1>2, DoesBoth
  <2>2. Does((All("write", S) \o Each("record", S)) \o Each("open", S), C,
             ({"write"} \cup {"record"}) \cup {"open"}, S)
    BY <1>2, <2>1, DoesBoth
  <2>3. PassedOps = ({"write"} \cup {"record"}) \cup {"open"}
    BY <1>3 DEF PassedOps
  <2>4. Passed(S) = (All("write", S) \o Each("record", S)) \o Each("open", S)
    BY <1>3 DEF Passed
  <2> QED
    BY <2>2, <2>3, <2>4
<1>4. CASE transport = "http"
  <2>1. Does(Each("record", S) \o All("write", S), C, {"record"} \cup {"write"}, S)
    BY <1>1, <1>2, DoesBoth
  <2>2. Does((Each("record", S) \o All("write", S)) \o Each("open", S), C,
             ({"record"} \cup {"write"}) \cup {"open"}, S)
    BY <1>2, <2>1, DoesBoth
  <2>3. Does(((Each("record", S) \o All("write", S)) \o Each("open", S)) \o All("answer", S), C,
             (({"record"} \cup {"write"}) \cup {"open"}) \cup {"answer"}, S)
    BY <1>1, <2>2, DoesBoth
  <2>4. PassedOps = (({"record"} \cup {"write"}) \cup {"open"}) \cup {"answer"}
    BY <1>4 DEF PassedOps
  <2>5. Passed(S) = ((Each("record", S) \o All("write", S)) \o Each("open", S)) \o All("answer", S)
    BY <1>4 DEF Passed
  <2> QED
    BY <2>3, <2>4, <2>5
<1>5. CASE transport = "call"
  <2>1. Does(Each("record", S) \o Each("open", S), C, {"record"} \cup {"open"}, S)
    BY <1>2, DoesBoth
  <2>2. Does((Each("record", S) \o Each("open", S)) \o All("write", S), C,
             ({"record"} \cup {"open"}) \cup {"write"}, S)
    BY <1>1, <2>1, DoesBoth
  <2>3. Does(((Each("record", S) \o Each("open", S)) \o All("write", S)) \o All("answer", S), C,
             (({"record"} \cup {"open"}) \cup {"write"}) \cup {"answer"}, S)
    BY <1>1, <2>2, DoesBoth
  <2>4. PassedOps = (({"record"} \cup {"open"}) \cup {"write"}) \cup {"answer"}
    BY <1>5 DEF PassedOps
  <2>5. Passed(S) = ((Each("record", S) \o Each("open", S)) \o All("write", S)) \o All("answer", S)
    BY <1>5 DEF Passed
  <2> QED
    BY <2>3, <2>4, <2>5
<1> QED
  BY <1>3, <1>4, <1>5 DEF SetupTyped

\* The same, of steps that are not for the same calls: F is what is done for whom.
Plans(s, C, A, F) == Made(s, C, A) /\ \A o, c : Has(s, o, c) <=> <<o, c>> \in F

LEMMA PlansOne ==
  ASSUME NEW C, NEW op, NEW S, NEW s, Does(s, C, {op}, S)
  PROVE  Plans(s, C, {op}, {op} \X S)
<1>1. \A o, c : <<o, c>> \in {op} \X S <=> o \in {op} /\ c \in S
  OBVIOUS
<1> QED
  BY <1>1, Zenon DEF Does, Plans

LEMMA PlansBoth ==
  ASSUME NEW C, NEW A, NEW B, NEW s, NEW t, NEW F, NEW G, Plans(s, C, A, F), Plans(t, C, B, G),
         A \cap B = {}, "answer" \notin A, "close" \notin A \/ "pair" \notin B
  PROVE  Plans(s \o t, C, A \cup B, F \cup G)
<1>1. /\ Made(s \o t, C, A \cup B)
      /\ \A o, c : Has(s \o t, o, c) <=> Has(s, o, c) \/ Has(t, o, c)
  BY Joined, Zenon DEF Plans
<1>2. \A o, c : Has(s \o t, o, c) <=> <<o, c>> \in F \cup G
  BY <1>1, Zenon DEF Plans
<1> QED
  BY <1>1, <1>2, Zenon DEF Plans

\* What is done with one that is held back.
HeldPlan(S) == ({"refuse"} \X S) \cup ({"inject"} \X Valid(S))
               \cup (IF transport = "call" THEN {} ELSE ({"open"} \X S) \cup ({"pair"} \X Valid(S)))

LEMMA DoesHeld ==
  ASSUME SetupTyped, NEW C \in SUBSET Nat, IsFiniteSet(C), NEW S, S \subseteq C
  PROVE  Plans(Held(S), C, {"refuse", "open", "inject", "pair"}, HeldPlan(S))
<1> PICK V : V = Valid(S)
  OBVIOUS
<1>0. V \subseteq C /\ V = {c \in S : calls[c].id # BadId}
  BY DEF Valid
<1>1. Plans(All("inject", V), C, {"inject"}, {"inject"} \X V)
  BY <1>0, DoesAll, PlansOne DEF Labels, OneCall
<1>2. /\ Plans(Each("open", S), C, {"open"}, {"open"} \X S)
      /\ Plans(Each("refuse", S), C, {"refuse"}, {"refuse"} \X S)
      /\ Plans(Each("pair", V), C, {"pair"}, {"pair"} \X V)
  BY <1>0, DoesEach, PlansOne DEF OneCall
<1> PICK r, p, i, q : /\ r = Each("refuse", S) /\ p = Each("open", S)
                      /\ i = All("inject", V) /\ q = Each("pair", V)
  OBVIOUS
<1>3. ASSUME NEW s, NEW A, NEW F, Plans(s, C, A, F),
             A \subseteq {"refuse", "open", "inject", "pair"}, F = HeldPlan(S)
      PROVE  Plans(s, C, {"refuse", "open", "inject", "pair"}, HeldPlan(S))
  BY <1>3 DEF Plans, Made
<1>4. CASE transport = "call"
  <2>1. Held(S) = r \o i
    BY <1>0, <1>4 DEF Held
  <2>2. Plans(r \o i, C, {"refuse"} \cup {"inject"}, ({"refuse"} \X S) \cup ({"inject"} \X V))
    BY <1>1, <1>2, PlansBoth
  <2>3. ({"refuse"} \X S) \cup ({"inject"} \X V) = HeldPlan(S)
    BY <1>4 DEF HeldPlan
  <2> QED
    BY <1>3, <2>1, <2>2, <2>3
<1>5. CASE transport # "call"
  <2>1. Held(S) = r \o ((p \o i) \o q)
    BY <1>0, <1>5 DEF Held
  <2> PICK F : F = ({"open"} \X S) \cup ({"inject"} \X V)
    OBVIOUS
  <2> PICK a : a = p \o i
    OBVIOUS
  <2>2. Plans(a, C, {"open"} \cup {"inject"}, F)
    BY <1>1, <1>2, PlansBoth
  <2> PICK G : G = F \cup ({"pair"} \X V)
    OBVIOUS
  <2> PICK b : b = a \o q
    OBVIOUS
  <2>3. Plans(b, C, ({"open"} \cup {"inject"}) \cup {"pair"}, G)
    <3>1. ({"open"} \cup {"inject"}) \cap {"pair"} = {} /\ "answer" \notin {"open"} \cup {"inject"}
          /\ "close" \notin {"open"} \cup {"inject"}
      OBVIOUS
    <3> QED
      BY <1>2, <2>2, <3>1, PlansBoth
  <2> PICK B : B = ({"open"} \cup {"inject"}) \cup {"pair"}
    OBVIOUS
  <2>4. Plans(r \o b, C, {"refuse"} \cup B, ({"refuse"} \X S) \cup G)
    <3>1. {"refuse"} \cap B = {} /\ "answer" \notin {"refuse"} /\ "close" \notin {"refuse"}
      OBVIOUS
    <3> QED
      BY <1>2, <2>3, <3>1, PlansBoth
  <2>5. ({"refuse"} \X S) \cup G = HeldPlan(S)
    BY <1>5 DEF HeldPlan
  <2> QED
    BY <1>3, <2>1, <2>4, <2>5
<1> QED
  BY <1>4, <1>5

\* What is done with the upstream's response.
AnsweredPlan(S, a, read, left) ==
  ({"relay", "pair"} \X read) \cup ({"pass"} \X (a \ read)) \cup (IF left THEN {} ELSE {"close"} \X S)
  \cup (IF transport = "http" THEN {} ELSE WatchOps \X S)

AnsweredOps == {"relay", "pass", "pair", "close"} \cup WatchOps

LEMMA DoesToAgent ==
  ASSUME NEW C \in SUBSET Nat, NEW a, a \subseteq C, NEW o \in {"relay", "pass"}
  PROVE  Plans(ToAgent(o, a), C, {o}, {o} \X a)
<1>1. CASE a = {}
  <2>1. Made(<<>>, C, {o}) /\ \A p, c : ~Has(<<>>, p, c)
    BY NothingIsMade
  <2> QED
    BY <1>1, <2>1 DEF ToAgent, Plans
<1>2. CASE a # {}
  BY <1>2, DoesAll, PlansOne DEF ToAgent, Labels, OneCall
<1> QED
  BY <1>1, <1>2

LEMMA DoesAnswered ==
  ASSUME SetupTyped, NEW C \in SUBSET Nat, IsFiniteSet(C), NEW S, S \subseteq C,
         NEW a, a \subseteq S, NEW read, read \subseteq a, NEW left \in BOOLEAN
  PROVE  Plans(Answered(S, a, read, left), C, AnsweredOps,
               AnsweredPlan(S, a, read, left))
<1> PICK y, n, r, p, k, w : /\ y = ToAgent("relay", read) /\ n = ToAgent("pass", a \ read)
                            /\ r = y \o n /\ p = Each("pair", read)
                            /\ k = (IF left THEN <<>> ELSE Each("close", S)) /\ w = Watched(S)
  OBVIOUS
<1> PICK R : R = ({"relay"} \X read) \cup ({"pass"} \X (a \ read))
  OBVIOUS
<1> PICK K : K = (IF left THEN {} ELSE {"close"} \X S)
  OBVIOUS
<1>1. a \subseteq C /\ read \subseteq C
  OBVIOUS
<1>2. Plans(r, C, {"relay", "pass"}, R)
  <2>1. Plans(y, C, {"relay"}, {"relay"} \X read) /\ Plans(n, C, {"pass"}, {"pass"} \X (a \ read))
    BY <1>1, DoesToAgent
  <2>2. Plans(y \o n, C, {"relay"} \cup {"pass"}, R)
    BY <2>1, PlansBoth
  <2>3. {"relay"} \cup {"pass"} = {"relay", "pass"}
    OBVIOUS
  <2> QED
    BY <2>2, <2>3
<1>3. Plans(p, C, {"pair"}, {"pair"} \X read)
  BY <1>1, DoesEach, PlansOne DEF OneCall
<1>4. Plans(k, C, {"close"}, K)
  <2>1. CASE left
    BY <2>1, NothingIsMade DEF Plans
  <2>2. CASE ~left
    BY <2>2, DoesEach, PlansOne DEF OneCall
  <2> QED
    BY <2>1, <2>2
<1>5. Plans(w, C, WatchOps, WatchOps \X S)
  <2>1. Does(w, C, WatchOps, S)
    BY DoesWatched
  <2>2. \A o, c : <<o, c>> \in WatchOps \X S <=> o \in WatchOps /\ c \in S
    OBVIOUS
  <2> QED
    BY <2>1, <2>2, Zenon DEF Does, Plans
<1>6. WatchOps \subseteq {"judge", "record"}
  BY DEF WatchOps
<1>7. ASSUME NEW s, NEW A, NEW F, Plans(s, C, A, F),
             A \subseteq AnsweredOps,
             F = AnsweredPlan(S, a, read, left)
      PROVE  Plans(s, C, AnsweredOps, AnsweredPlan(S, a, read, left))
  BY <1>7 DEF Plans, Made
<1>8. CASE transport = "http"
  <2>1. Answered(S, a, read, left) = (r \o p) \o k
    BY <1>8 DEF Answered
  <2> PICK d, F : d = r \o p /\ F = R \cup ({"pair"} \X read)
    OBVIOUS
  <2> PICK A, B : A = {"relay", "pass"} /\ B = A \cup {"pair"}
    OBVIOUS
  <2>1a. /\ A \cap {"pair"} = {} /\ B \cap {"close"} = {} /\ "answer" \notin A /\ "answer" \notin B
         /\ "close" \notin A /\ "close" \notin B
    OBVIOUS
  <2>2. Plans(d, C, B, F)
    BY <1>2, <1>3, <2>1a, PlansBoth
  <2>3. Plans(d \o k, C, B \cup {"close"}, F \cup K)
    <3>1. "pair" \notin {"close"}
      OBVIOUS
    <3> QED
      BY <1>4, <2>1a, <2>2, <3>1, PlansBoth
  <2>3a. B \cup {"close"} \subseteq AnsweredOps
    BY DEF AnsweredOps
  <2>4. F \cup K = AnsweredPlan(S, a, read, left)
    BY <1>8 DEF AnsweredPlan
  <2> QED
    BY <1>7, <2>1, <2>3, <2>3a, <2>4
<1>9. CASE transport # "http"
  <2>1. Answered(S, a, read, left) = ((p \o k) \o w) \o r
    BY <1>9 DEF Answered
  <2> PICK d, F : d = p \o k /\ F = ({"pair"} \X read) \cup K
    OBVIOUS
  <2>2. Plans(d, C, {"pair"} \cup {"close"}, F)
    BY <1>3, <1>4, PlansBoth
  <2> PICK e, A, G : /\ e = d \o w /\ A = ({"pair"} \cup {"close"}) \cup WatchOps
                     /\ G = F \cup (WatchOps \X S)
    OBVIOUS
  <2>3. Plans(e, C, A, G)
    <3>1. /\ ({"pair"} \cup {"close"}) \cap WatchOps = {}
          /\ "pair" \notin WatchOps /\ "answer" \notin {"pair"} \cup {"close"}
      BY <1>6
    <3> QED
      BY <1>5, <2>2, <3>1, PlansBoth
  <2>4. Plans(e \o r, C, A \cup {"relay", "pass"}, G \cup R)
    <3>1. A \cap {"relay", "pass"} = {} /\ "answer" \notin A
      BY <1>6
    <3> QED
      BY <1>2, <2>3, <3>1, PlansBoth
  <2>5. A \cup {"relay", "pass"} \subseteq AnsweredOps
    BY DEF AnsweredOps
  <2>6. G \cup R = AnsweredPlan(S, a, read, left)
    BY <1>9 DEF AnsweredPlan
  <2> QED
    BY <1>7, <2>1, <2>4, <2>5, <2>6
<1> QED
  BY <1>8, <1>9

(***************************************************************************)
(* The calls, their frames and their scripts.                              *)
(***************************************************************************)
Replies == {"none", "asked", "relayed", "unread", "lost", "refused"}
Verdicts == {"none", "inside", "outside"}
Phases == {"running", "stopping", "flushing", "flushed", "ended", "dead"}
Calls == [id : {k.id : k \in Kinds}, act : {"free", "forbidden", "spend"}, cost : Nat, frame : Nat]

FramesTyped == /\ calls \in Seq(Calls) /\ script \in Seq(Seq(Steps))
               /\ \A c \in 1..Len(calls) : calls[c].frame \in 1..Len(script)
SaidTyped == /\ verdict \in [1..Len(calls) -> Verdicts]
             /\ reply \in [1..Len(calls) -> Replies]
SessionTyped == /\ phase \in Phases
                /\ session \in [before : Nat, late : SUBSET Nat, drained : BOOLEAN]
                /\ session.before <= Len(calls)
ScriptsWell == \A f \in 1..Len(script) : Well(script[f], CallsOf(f))
Framed == SetupTyped /\ FramesTyped /\ ScriptsWell

\* What a call has coming.
Due(o, c) == Has(script[calls[c].frame], o, c)

LEMMA CallIs == ASSUME FramesTyped PROVE Call = 1..Len(calls) /\ DOMAIN script = 1..Len(script)
BY DEF FramesTyped, Call

LEMMA CallsOfFrame ==
  ASSUME FramesTyped, NEW f
  PROVE  /\ CallsOf(f) \in SUBSET Nat /\ IsFiniteSet(CallsOf(f)) /\ CallsOf(f) \subseteq Call
         /\ \A c \in Call : c \in CallsOf(f) <=> calls[c].frame = f
<1>1. PICK n \in Nat : n = Len(calls)
  BY DEF FramesTyped
<1>2. Call = 1..n
  BY <1>1, CallIs
<1>3. IsFiniteSet(1..n)
  <2>1. 1 \in Int /\ n \in Int
    OBVIOUS
  <2> QED
    BY <2>1, FS_Interval, Zenon
<1>4. CallsOf(f) \subseteq 1..n
  BY <1>2 DEF CallsOf
<1>5. IsFiniteSet(CallsOf(f))
  BY <1>3, <1>4, FS_Subset
<1> QED
  BY <1>2, <1>4, <1>5 DEF CallsOf

LEMMA FrameOf ==
  ASSUME FramesTyped, NEW c \in Call
  PROVE  /\ calls[c] \in Calls /\ calls[c].frame \in 1..Len(script)
         /\ calls[c].frame \in DOMAIN script /\ c \in 1..Len(calls) /\ c \in Nat
BY CallIs DEF FramesTyped

\* The step a frame is at.
LEMMA HeadOf ==
  ASSUME Framed, NEW f \in DOMAIN script, NEW o, AtHead(f, o)
  PROVE  /\ f \in 1..Len(script) /\ script[f] \in Seq(Steps) /\ Well(script[f], CallsOf(f))
         /\ script[f] # <<>> /\ Op(f) = o /\ Of(f) \subseteq CallsOf(f)
         /\ \A c \in Of(f) : c \in Call /\ calls[c].frame = f /\ Due(o, c)
<1>1. f \in 1..Len(script) /\ Well(script[f], CallsOf(f)) /\ script[f] # <<>> /\ Op(f) = o
  BY CallIs DEF Framed, ScriptsWell, AtHead
<1>2. PICK s : s = script[f]
  OBVIOUS
<1>3. s \in Seq(Steps) /\ s # <<>> /\ Len(s) \in Nat /\ 1 \in 1..Len(s) /\ Head(s) = s[1]
  BY <1>1, <1>2 DEF Well
<1>4. Of(f) = s[1].of /\ s[1].op = o
  BY <1>1, <1>2, <1>3 DEF Of, Op
<1>5. Of(f) \subseteq CallsOf(f)
  BY <1>1, <1>2, <1>3, <1>4 DEF Well
<1>6. \A c \in Of(f) : c \in Call /\ calls[c].frame = f
  BY <1>5, CallsOfFrame DEF Framed
<1>7. \A c \in Of(f) : Has(s, o, c)
  BY <1>3, <1>4 DEF Has
<1> QED
  BY <1>1, <1>2, <1>3, <1>5, <1>6, <1>7 DEF Due

LEMMA OneOf ==
  ASSUME Framed, NEW f \in DOMAIN script, NEW o \in OneCall, AtHead(f, o)
  PROVE  Of(f) = {One(f)} /\ One(f) \in Call /\ calls[One(f)].frame = f /\ Due(o, One(f))
<1>1. PICK s : s = script[f]
  OBVIOUS
<1>2. Well(s, CallsOf(f)) /\ s # <<>> /\ Op(f) = o /\ s \in Seq(Steps)
  BY <1>1, HeadOf
<1>3. 1 \in 1..Len(s) /\ Head(s) = s[1]
  BY <1>2
<1>4. Of(f) = s[1].of /\ s[1].op = o
  BY <1>1, <1>2, <1>3 DEF Of, Op
<1>5. \E c \in CallsOf(f) : Of(f) = {c}
  BY <1>2, <1>3, <1>4 DEF Well
<1>6. Of(f) = {One(f)}
  BY <1>5 DEF One
<1> QED
  BY <1>6, HeadOf

(***************************************************************************)
(* A frame goes on with the script s.                                      *)
(***************************************************************************)
GoesOn(f, s) == /\ UNCHANGED <<transport, mode, calls>>
                /\ script' = [script EXCEPT ![f] = s]

LEMMA Goes ==
  ASSUME Framed, NEW f \in DOMAIN script, NEW s, Well(s, CallsOf(f)), GoesOn(f, s)
  PROVE  /\ Framed'
         /\ \A o : \A c \in Call : /\ calls[c].frame = f => (Due(o, c)' <=> Has(s, o, c))
                                   /\ calls[c].frame # f => (Due(o, c)' <=> Due(o, c))
<1>1. /\ f \in 1..Len(script) /\ s \in Seq(Steps) /\ script \in Seq(Seq(Steps))
      /\ calls' = calls /\ transport' = transport /\ mode' = mode
      /\ script' = [script EXCEPT ![f] = s]
  BY CallIs DEF Framed, FramesTyped, Well, GoesOn
<1>2. /\ script' \in Seq(Seq(Steps)) /\ Len(script') = Len(script)
      /\ script'[f] = s /\ \A g \in 1..Len(script) : g # f => script'[g] = script[g]
  BY <1>1
<1>3. FramesTyped' /\ SetupTyped'
  BY <1>1, <1>2 DEF Framed, FramesTyped, SetupTyped
<1>4. \A g : CallsOf(g)' = CallsOf(g)
  BY <1>1 DEF CallsOf, Call
<1>5. ScriptsWell'
  BY <1>2, <1>4 DEF ScriptsWell, Framed
<1>6. \A c \in Call : calls[c].frame \in 1..Len(script)
  BY FrameOf DEF Framed
<1>7. ASSUME NEW o, NEW c \in Call
      PROVE  /\ calls[c].frame = f => (Due(o, c)' <=> Has(s, o, c))
             /\ calls[c].frame # f => (Due(o, c)' <=> Due(o, c))
  <2>1. Due(o, c)' <=> Has(script'[calls[c].frame], o, c)
    BY <1>1 DEF Due, Has
  <2>2. calls[c].frame # f => script'[calls[c].frame] = script[calls[c].frame]
    BY <1>2, <1>6
  <2>3. calls[c].frame = f => script'[calls[c].frame] = s
    BY <1>2
  <2> QED
    BY <2>1, <2>2, <2>3 DEF Due
<1> QED
  BY <1>3, <1>5, <1>7 DEF Framed

\* Its first step is done.
LEMMA StepDone ==
  ASSUME Framed, NEW f \in DOMAIN script, NEW o, AtHead(f, o), GoesOn(f, Tail(script[f]))
  PROVE  /\ Framed'
         /\ \A p : \A c \in Call : Due(p, c)' <=> Due(p, c) /\ ~(p = o /\ c \in Of(f))
<1> PICK s : s = script[f]
  OBVIOUS
<1>1. /\ Well(s, CallsOf(f)) /\ s \in Seq(Steps) /\ s # <<>> /\ Op(f) = o
      /\ \A c \in Of(f) : c \in Call /\ calls[c].frame = f
  BY HeadOf
<1>2. Head(s).op = o /\ Head(s).of = Of(f)
  BY <1>1 DEF Op, Of
<1>3. Well(Tail(s), CallsOf(f))
  BY <1>1, TailIsLeft, LeftIsWell
<1>4. \A p, c : Has(Tail(s), p, c) <=> Has(s, p, c) /\ ~(p = o /\ c \in Of(f))
  BY <1>1, <1>2, TailHas
<1>5. /\ Framed'
      /\ \A p : \A c \in Call : /\ calls[c].frame = f => (Due(p, c)' <=> Has(Tail(s), p, c))
                                /\ calls[c].frame # f => (Due(p, c)' <=> Due(p, c))
  BY <1>3, Goes
<1>6. \A p : \A c \in Call : calls[c].frame = f => (Due(p, c) <=> Has(s, p, c))
  BY DEF Due
<1> QED
  BY <1>1, <1>4, <1>5, <1>6

\* Some of its steps are left out.
LEMMA StepsDropped ==
  ASSUME Framed, NEW f \in DOMAIN script, NEW ops, GoesOn(f, Without(script[f], ops))
  PROVE  /\ Framed'
         /\ \A p : \A c \in Call :
              Due(p, c)' <=> Due(p, c) /\ ~(p \in ops /\ calls[c].frame = f)
<1> PICK s : s = script[f]
  OBVIOUS
<1>1. Well(s, CallsOf(f)) /\ s \in Seq(Steps)
  BY CallIs DEF Framed, ScriptsWell, Well
<1>2. /\ Well(Without(s, ops), CallsOf(f))
      /\ \A p, c : Has(Without(s, ops), p, c) <=> Has(s, p, c) /\ p \notin ops
  BY <1>1, WithoutIsLeft, LeftIsWell
<1>3. /\ Framed'
      /\ \A p : \A c \in Call :
           /\ calls[c].frame = f => (Due(p, c)' <=> Has(Without(s, ops), p, c))
           /\ calls[c].frame # f => (Due(p, c)' <=> Due(p, c))
  BY <1>2, Goes
<1>4. \A p : \A c \in Call : calls[c].frame = f => (Due(p, c) <=> Has(s, p, c))
  BY DEF Due
<1> QED
  BY <1>2, <1>3, <1>4

\* Nothing of it happens, or nothing of any.
LEMMA FrameEnds ==
  ASSUME Framed, NEW f \in DOMAIN script, GoesOn(f, <<>>)
  PROVE  /\ Framed'
         /\ \A p : \A c \in Call : Due(p, c)' <=> Due(p, c) /\ calls[c].frame # f
<1>1. /\ Well(<<>>, CallsOf(f)) /\ \A p, c : ~Has(<<>>, p, c)
  BY NothingIsMade DEF Made
<1> QED
  BY <1>1, Goes

LEMMA AllEnd ==
  ASSUME Framed, UNCHANGED <<transport, mode, calls>>, NEW s \in {<<>>, All("gone", {})},
         script' = [f \in DOMAIN script |-> s]
  PROVE  /\ Framed'
         /\ \A p : \A c \in Call : ~Due(p, c)'
<1>1. /\ s \in Seq(Steps) /\ \A C \in SUBSET Nat : Well(s, C)
      /\ \A p, c : ~Has(s, p, c)
  <2>1. CASE s = <<>>
    BY <2>1, NothingIsMade DEF Made, Well
  <2>2. CASE s = All("gone", {})
    <3>1. "gone" \in Labels \ OneCall
      BY DEF Labels, OneCall
    <3>2. ASSUME NEW C \in SUBSET Nat
          PROVE  Made(s, C, {"gone"}) /\ \A o, c : Has(s, o, c) <=> o = "gone" /\ c \in {}
      <4>1. {} \subseteq C
        OBVIOUS
      <4> QED
        BY <2>2, <3>1, <4>1, AllMade
    <3>3. \A C \in SUBSET Nat : Well(s, C)
      BY <3>2 DEF Made
    <3>4. \A p, c : ~Has(s, p, c)
      BY <3>2
    <3>5. s \in Seq(Steps)
      BY <3>3 DEF Well
    <3> QED
      BY <3>3, <3>4, <3>5
  <2> QED
    BY <2>1, <2>2
<1>2. /\ DOMAIN script = 1..Len(script) /\ Len(script) \in Nat
      /\ \A c \in 1..Len(calls) : calls[c].frame \in 1..Len(script)
  BY CallIs DEF Framed, FramesTyped
<1>3. script' \in Seq(Seq(Steps)) /\ Len(script') = Len(script)
      /\ \A f \in 1..Len(script) : script'[f] = s
  BY <1>1, <1>2
<1>4. FramesTyped' /\ SetupTyped'
  BY <1>2, <1>3 DEF Framed, FramesTyped, SetupTyped
<1>5. \A g : CallsOf(g)' = CallsOf(g) /\ CallsOf(g) \in SUBSET Nat
  BY CallsOfFrame DEF CallsOf, Call, Framed
<1>6. ScriptsWell'
  BY <1>1, <1>3, <1>5 DEF ScriptsWell
<1>7. ASSUME NEW p, NEW c \in Call PROVE ~Due(p, c)'
  <2>1. script'[calls'[c].frame] = s
    BY <1>3, FrameOf DEF Framed
  <2> QED
    BY <1>1, <2>1 DEF Due, Has
<1> QED
  BY <1>4, <1>6, <1>7 DEF Framed

(***************************************************************************)
(* What each action does to the frames.                                    *)
(***************************************************************************)
LEMMA NothingMoves ==
  ASSUME Framed, UNCHANGED <<transport, mode, calls, script>>
  PROVE  /\ Framed' /\ Call' = Call
         /\ \A p : \A c \in Call : Due(p, c)' <=> Due(p, c)
<1>1. \A g : CallsOf(g)' = CallsOf(g)
  BY DEF CallsOf, Call
<1>2. FramesTyped' /\ SetupTyped'
  BY DEF Framed, FramesTyped, SetupTyped
<1>3. ScriptsWell'
  BY <1>1 DEF ScriptsWell, Framed
<1> QED
  BY <1>2, <1>3 DEF Framed, Due, Call

\* The calls S of a new frame.
New(kinds) == Len(calls) + 1 .. Len(calls) + Len(kinds)

LEMMA SendMoves ==
  ASSUME Framed, NEW n \in Frames, NEW kinds \in [1..n -> Kinds], Send(kinds)
  PROVE  /\ Framed' /\ Call' = Call \cup New(kinds) /\ New(kinds) \cap Call = {}
         /\ New(kinds) # {} /\ Len(calls') = Len(calls) + n /\ Len(kinds) = n /\ n \in Nat
         /\ Len(script') = Len(script) + 1
         /\ \A c \in Call : calls'[c] = calls[c] /\ \A p : Due(p, c)' <=> Due(p, c)
         /\ \A c \in New(kinds) : /\ calls'[c].frame = Len(script) + 1
                                  /\ \A p : Due(p, c)' <=> p \in ScriptOps
         /\ \A k \in 1..Len(script) : script'[k] = script[k]
<1> PICK m, e, S : m = Len(calls) /\ e = Len(script) /\ S = New(kinds)
  OBVIOUS
<1>1. /\ n \in Nat /\ n > 0 /\ Len(kinds) = n /\ m \in Nat /\ e \in Nat /\ kinds \in Seq(Kinds)
      /\ calls \in Seq(Calls) /\ script \in Seq(Seq(Steps))
  BY FramesAssumption DEF Framed, FramesTyped
<1>2. S = m + 1 .. m + n
  BY <1>1 DEF New
<1>3. Call = 1..m /\ DOMAIN script = 1..e
  BY CallIs DEF Framed
<1> PICK k : k = [i \in 1..n |-> [id |-> kinds[i].id, act |-> kinds[i].act,
                                  cost |-> kinds[i].cost, frame |-> e + 1]]
  OBVIOUS
<1>4. /\ calls' = calls \o k /\ script' = Append(script, Script(S))
      /\ UNCHANGED <<transport, mode>>
  BY <1>1, <1>2 DEF Send, setup
<1>5. k \in Seq(Calls) /\ Len(k) = n /\ \A i \in 1..n : k[i].frame = e + 1
  <2>1. ASSUME NEW i \in 1..n
        PROVE  [id |-> kinds[i].id, act |-> kinds[i].act, cost |-> kinds[i].cost, frame |-> e + 1]
                 \in Calls
    BY <1>1, KindsAssumption DEF Calls
  <2> QED
    BY <1>1, <2>1
<1>6. /\ calls' \in Seq(Calls) /\ Len(calls') = m + n
      /\ \A c \in 1..m : calls'[c] = calls[c]
      /\ \A c \in S : calls'[c].frame = e + 1
  <2>1. calls' \in Seq(Calls) /\ Len(calls') = m + n /\ \A c \in 1..m : calls'[c] = calls[c]
    BY <1>1, <1>4, <1>5
  <2>2. ASSUME NEW c \in S PROVE calls'[c] = k[c - m]
    BY <1>1, <1>2, <1>4, <1>5
  <2>3. \A c \in S : c - m \in 1..n
    BY <1>1, <1>2
  <2>4. ASSUME NEW c \in S PROVE calls'[c].frame = e + 1
    <3>1. calls'[c] = k[c - m] /\ c - m \in 1..n
      BY <2>2, <2>3
    <3>2. k[c - m].frame = e + 1
      BY <1>5, <3>1
    <3> QED
      BY <3>1, <3>2
  <2> QED
    BY <2>1, <2>4
<1>7. DOMAIN calls' = 1..m + n
  BY <1>1, <1>6
<1>8. Call' = Call \cup S /\ S \cap Call = {} /\ S # {}
  <2>1. m + 1 \in S
    BY <1>1, <1>2
  <2> QED
    <3>1. 1..m + n = (1..m) \cup S /\ S \cap (1..m) = {}
      BY <1>1, <1>2
    <3>2. Call' = 1..m + n
      BY <1>7 DEF Call
    <3> QED
      BY <1>3, <2>1, <3>1, <3>2
<1>9. \A c \in 1..m : calls[c].frame \in 1..e
  BY DEF Framed, FramesTyped
<1>10. CallsOf(e + 1)' = S
  BY <1>1, <1>3, <1>6, <1>8, <1>9 DEF CallsOf
<1>11. \A g \in 1..e : CallsOf(g)' = CallsOf(g)
  BY <1>1, <1>3, <1>6, <1>8, <1>9 DEF CallsOf
<1>12. S \in SUBSET Nat /\ IsFiniteSet(S)
  <2>1. m + 1 \in Int /\ m + n \in Int
    BY <1>1
  <2> QED
    <3>1. IsFiniteSet(m + 1 .. m + n)
      BY <2>1, FS_Interval, Zenon
    <3>2. S \in SUBSET Nat
      BY <1>1, <1>2
    <3> QED
      BY <1>2, <3>1, <3>2
<1>13. Well(Script(S), S) /\ \A o, c : Has(Script(S), o, c) <=> o \in ScriptOps /\ c \in S
  BY <1>12, DoesScript DEF Does, Made, Framed
<1>14. Script(S) \in Seq(Steps)
  BY <1>13 DEF Well
<1>15. /\ script' \in Seq(Seq(Steps)) /\ Len(script') = e + 1 /\ script'[e + 1] = Script(S)
       /\ \A g \in 1..e : script'[g] = script[g]
  BY <1>1, <1>4, <1>14
<1>16. FramesTyped'
  <2>1. ASSUME NEW c \in 1..m + n PROVE calls'[c].frame \in 1..e + 1
    <3>1. c \in 1..m \/ c \in S
      BY <1>1, <1>2
    <3>2. CASE c \in 1..m
      BY <1>1, <1>6, <1>9, <3>2
    <3>3. CASE c \in S
      BY <1>1, <1>6, <3>3
    <3> QED
      BY <3>1, <3>2, <3>3
  <2> QED
    BY <1>6, <1>15, <2>1 DEF FramesTyped
<1>17. ScriptsWell'
  <2>1. ASSUME NEW g \in 1..e + 1 PROVE Well(script'[g], CallsOf(g)')
    <3>1. CASE g = e + 1
      BY <1>10, <1>13, <1>15, <3>1
    <3>2. CASE g # e + 1
      <4>1. g \in 1..e
        BY <1>1, <3>2
      <4>2. Well(script[g], CallsOf(g))
        BY <4>1 DEF Framed, ScriptsWell
      <4> QED
        BY <1>11, <1>15, <4>1, <4>2
    <3> QED
      BY <3>1, <3>2
  <2> QED
    BY <1>15, <2>1 DEF ScriptsWell
<1>18. SetupTyped'
  BY <1>4 DEF Framed, SetupTyped
<1>19. ASSUME NEW c \in Call, NEW p PROVE Due(p, c)' <=> Due(p, c)
  <2>1. calls'[c].frame = calls[c].frame /\ calls[c].frame \in 1..e
    BY <1>3, <1>6, <1>9
  <2> QED
    BY <1>15, <2>1 DEF Due, Has
<1>20. ASSUME NEW c \in S, NEW p PROVE Due(p, c)' <=> p \in ScriptOps
  <2>1. script'[calls'[c].frame] = Script(S)
    BY <1>6, <1>15
  <2>2. Due(p, c)' <=> Has(Script(S), p, c)
    BY <2>1 DEF Due, Has
  <2> QED
    BY <1>13, <2>2
<1> QED
  BY <1>1, <1>3, <1>6, <1>8, <1>15, <1>16, <1>17, <1>18, <1>19, <1>20 DEF Framed

\* The gate judges.
LEMMA JudgeMoves ==
  ASSUME Framed, NEW f \in DOMAIN script, NEW luck, Judge(f, luck)
  PROVE  /\ Framed'
         /\ \A p : \A c \in Call : calls[c].frame # f => (Due(p, c)' <=> Due(p, c))
         /\ mode # "enforce" /\ ~DeafGate =>
              \A p : \A c \in Call : Due(p, c)' <=> Due(p, c) /\ ~(p = "judge" /\ c \in Of(f))
         /\ mode # "enforce" /\ DeafGate =>
              \A p : \A c \in Call :
                Due(p, c)' <=> Due(p, c) /\ ~(p \in {"judge", "record"} /\ calls[c].frame = f)
         /\ mode = "enforce" /\ DeafGate =>
              \A p : \A c \in Call : calls[c].frame = f =>
                (Due(p, c)' <=> p \in PassedOps \ {"record"} /\ c \in Of(f))
         /\ mode = "enforce" /\ ~DeafGate /\ (\A c \in Of(f) : Detail(c) = "inside") =>
              \A p : \A c \in Call : calls[c].frame = f => (Due(p, c)' <=> p \in PassedOps /\ c \in Of(f))
         /\ mode = "enforce" /\ ~DeafGate /\ ~(\A c \in Of(f) : Detail(c) = "inside") =>
              \A p : \A c \in Call : calls[c].frame = f => (Due(p, c)' <=> <<p, c>> \in HeldPlan(Of(f)))
<1> PICK C, S : C = CallsOf(f) /\ S = Of(f)
  OBVIOUS
<1>1. /\ AtHead(f, "judge") /\ UNCHANGED <<transport, mode, calls>>
      /\ DeafGate => Go(f, IF mode = "enforce" THEN Without(Passed(Of(f)), {"record"})
                                              ELSE Without(script[f], {"judge", "record"}))
      /\ ~DeafGate => Go(f, IF mode # "enforce" THEN Tail(script[f])
                           ELSE IF \A c \in Of(f) : (IF c \in Of(f) THEN Detail(c) ELSE verdict[c]) = "inside"
                                THEN Passed(Of(f)) ELSE Held(Of(f)))
  <2>1. \A c \in Of(f) : c \in Call
    BY HeadOf DEF Judge
  <2> QED
    BY <2>1 DEF Judge, setup
<1>2. S \subseteq C /\ C \in SUBSET Nat /\ IsFiniteSet(C)
      /\ \A c \in S : c \in Call /\ calls[c].frame = f
  BY <1>1, HeadOf, CallsOfFrame DEF Framed
<1>3. Well(Passed(S), C) /\ \A o, c : Has(Passed(S), o, c) <=> o \in PassedOps /\ c \in S
  BY <1>2, DoesPassed DEF Does, Made, Framed
<1>4. Well(Held(S), C) /\ \A o, c : Has(Held(S), o, c) <=> <<o, c>> \in HeldPlan(S)
  BY <1>2, DoesHeld DEF Plans, Made, Framed
<1>5. CASE mode # "enforce" /\ ~DeafGate
  <2>1. GoesOn(f, Tail(script[f]))
    BY <1>1, <1>5 DEF Go, GoesOn
  <2>2. /\ Framed'
        /\ \A p : \A c \in Call : Due(p, c)' <=> Due(p, c) /\ ~(p = "judge" /\ c \in Of(f))
    BY <1>1, <2>1, StepDone
  <2> QED
    BY <1>2, <1>5, <2>2
<1>6. CASE mode # "enforce" /\ DeafGate
  <2>1. GoesOn(f, Without(script[f], {"judge", "record"}))
    BY <1>1, <1>6 DEF Go, GoesOn
  <2>2. /\ Framed'
        /\ \A p : \A c \in Call :
             Due(p, c)' <=> Due(p, c) /\ ~(p \in {"judge", "record"} /\ calls[c].frame = f)
    BY <2>1, StepsDropped
  <2> QED
    BY <1>6, <2>2
<1>7. CASE mode = "enforce" /\ DeafGate
  <2> PICK s : s = Passed(S)
    OBVIOUS
  <2>1. s \in Seq(Steps)
    BY <1>3 DEF Well
  <2>2. /\ Well(Without(s, {"record"}), C)
        /\ \A o, c : Has(Without(s, {"record"}), o, c) <=> o \in PassedOps \ {"record"} /\ c \in S
    BY <1>3, <2>1, WithoutIsLeft, LeftIsWell
  <2>3. GoesOn(f, Without(s, {"record"}))
    BY <1>1, <1>7 DEF Go, GoesOn
  <2>4. /\ Framed'
        /\ \A o : \A c \in Call :
             /\ calls[c].frame = f => (Due(o, c)' <=> Has(Without(s, {"record"}), o, c))
             /\ calls[c].frame # f => (Due(o, c)' <=> Due(o, c))
    BY <2>2, <2>3, Goes
  <2> QED
    BY <1>7, <2>2, <2>4
<1>8. CASE mode = "enforce" /\ ~DeafGate /\ \A c \in Of(f) : Detail(c) = "inside"
  <2>1. GoesOn(f, Passed(S))
    BY <1>1, <1>8 DEF Go, GoesOn
  <2>2. /\ Framed'
        /\ \A o : \A c \in Call : /\ calls[c].frame = f => (Due(o, c)' <=> Has(Passed(S), o, c))
                                  /\ calls[c].frame # f => (Due(o, c)' <=> Due(o, c))
    BY <1>3, <2>1, Goes
  <2> QED
    BY <1>3, <1>8, <2>2
<1>9. CASE mode = "enforce" /\ ~DeafGate /\ ~(\A c \in Of(f) : Detail(c) = "inside")
  <2>1. GoesOn(f, Held(S))
    BY <1>1, <1>9 DEF Go, GoesOn
  <2>2. /\ Framed'
        /\ \A o : \A c \in Call : /\ calls[c].frame = f => (Due(o, c)' <=> Has(Held(S), o, c))
                                  /\ calls[c].frame # f => (Due(o, c)' <=> Due(o, c))
    BY <1>4, <2>1, Goes
  <2> QED
    BY <1>4, <1>9, <2>2
<1> QED
  BY <1>5, <1>6, <1>7, <1>8, <1>9

\* A step of a handler that writes, answers, records, opens, pairs or closes.
Shrinks == /\ Framed' /\ UNCHANGED <<transport, mode, calls>> /\ Call' = Call
           /\ \A p : \A c \in Call : Due(p, c)' => Due(p, c)
\* One of the frame f does the step o of the calls S, and nothing else.
Exactly(o, S) == \A p : \A c \in Call : Due(p, c)' <=> Due(p, c) /\ ~(p = o /\ c \in S)

LEMMA PlainMoves ==
  ASSUME Framed, NEW f \in DOMAIN script,
         NEW o \in {"inject", "write", "relay", "pass", "pair"}, AtHead(f, o), Next1(f),
         UNCHANGED <<transport, mode, calls>>
  PROVE  Shrinks /\ Exactly(o, Of(f))
<1>1. GoesOn(f, Tail(script[f]))
  BY DEF Next1, Go, GoesOn
<1>2. Framed' /\ \A p : \A c \in Call : Due(p, c)' <=> Due(p, c) /\ ~(p = o /\ c \in Of(f))
  BY <1>1, StepDone
<1> QED
  BY <1>2 DEF Shrinks, Exactly, Call

LEMMA RecordMoves ==
  ASSUME Framed, NEW f \in DOMAIN script, NEW o \in {"record", "refuse"}, NEW luck, Record(f, o, luck)
  PROVE  /\ Shrinks
         /\ luck # "no log" => Exactly(o, {One(f)})
         /\ mode = "enforce" /\ transport = "pipe" /\ luck = "no log" =>
              \/ Exactly(o, {One(f)})
              \/ script' = [g \in DOMAIN script |-> All("gone", {})]
<1> PICK fails \in BOOLEAN : fails = (verdict[One(f)] # "inside" /\ luck = "no log")
  OBVIOUS
<1>1. /\ AtHead(f, o) /\ UNCHANGED <<transport, mode, calls>>
      /\ IF ~fails THEN Next1(f)
         ELSE IF mode = "record" THEN Go(f, Without(script[f], {"judge", "record"}))
         ELSE IF transport = "pipe" THEN UpIsGone ELSE Go(f, <<>>)
      /\ luck # "no log" => ~fails
  BY DEF Record, setup
<1>2. o \in OneCall /\ Of(f) = {One(f)} /\ One(f) \in Call /\ calls[One(f)].frame = f
  BY <1>1, OneOf DEF OneCall
<1>4. Call' = Call
  BY <1>1 DEF Call
<1>5. CASE ~fails
  <2>1. GoesOn(f, Tail(script[f]))
    BY <1>1, <1>5 DEF GoesOn, Next1, Go
  <2>2. Framed' /\ \A p : \A c \in Call : Due(p, c)' <=> Due(p, c) /\ ~(p = o /\ c \in Of(f))
    BY <1>1, <2>1, StepDone
  <2> QED
    BY <1>1, <1>2, <1>4, <2>2 DEF Shrinks, Exactly
<1>6. CASE fails /\ mode = "record"
  <2>1. GoesOn(f, Without(script[f], {"judge", "record"}))
    BY <1>1, <1>6 DEF GoesOn, Go
  <2>2. /\ Framed'
        /\ \A p : \A c \in Call :
             Due(p, c)' <=> Due(p, c) /\ ~(p \in {"judge", "record"} /\ calls[c].frame = f)
    BY <2>1, StepsDropped
  <2> QED
    BY <1>1, <1>4, <1>6, <2>2 DEF Shrinks
<1>7. CASE fails /\ mode # "record" /\ transport = "pipe"
  <2>1. script' = [g \in DOMAIN script |-> All("gone", {})]
    BY <1>1, <1>7 DEF UpIsGone
  <2>2. Framed' /\ \A p : \A c \in Call : ~Due(p, c)'
    BY <1>1, <2>1, AllEnd
  <2> QED
    BY <1>1, <1>2, <1>4, <1>7, <2>1, <2>2 DEF Shrinks
<1>8. CASE fails /\ mode # "record" /\ transport # "pipe"
  <2>1. GoesOn(f, <<>>)
    BY <1>1, <1>8 DEF GoesOn, Go
  <2>2. Framed' /\ \A p : \A c \in Call : Due(p, c)' <=> Due(p, c) /\ calls[c].frame # f
    BY <2>1, FrameEnds
  <2> QED
    BY <1>1, <1>2, <1>4, <1>8, <2>2 DEF Shrinks
<1> QED
  BY <1>5, <1>6, <1>7, <1>8

LEMMA OpenMoves ==
  ASSUME Framed, NEW f \in DOMAIN script, NEW luck, OpenCall(f, luck)
  PROVE  /\ Shrinks
         /\ \A c \in Of(f) : ~Due("open", c)'
         /\ ~Deaf /\ luck # "no log" => Exactly("open", {One(f)})
<1>1. /\ AtHead(f, "open") /\ UNCHANGED <<transport, mode, calls>>
      /\ \/ GoesOn(f, Without(script[f], {"open", "close"})) /\ (Deaf \/ luck = "no log")
         \/ GoesOn(f, Tail(script[f]))
  BY DEF OpenCall, setup, Go, GoesOn
<1>2. Of(f) = {One(f)} /\ One(f) \in Call /\ calls[One(f)].frame = f
  BY <1>1, OneOf DEF OneCall
<1>3. Call' = Call
  BY <1>1 DEF Call
<1>4. CASE GoesOn(f, Tail(script[f]))
  <2>1. Framed' /\ \A p : \A c \in Call : Due(p, c)' <=> Due(p, c) /\ ~(p = "open" /\ c \in Of(f))
    BY <1>1, <1>4, StepDone
  <2> QED
    BY <1>1, <1>2, <1>3, <2>1 DEF Shrinks, Exactly
<1>5. CASE GoesOn(f, Without(script[f], {"open", "close"})) /\ (Deaf \/ luck = "no log")
  <2>1. /\ Framed'
        /\ \A p : \A c \in Call :
             Due(p, c)' <=> Due(p, c) /\ ~(p \in {"open", "close"} /\ calls[c].frame = f)
    BY <1>5, StepsDropped
  <2> QED
    BY <1>1, <1>2, <1>3, <1>5, <2>1 DEF Shrinks
<1> QED
  BY <1>1, <1>4, <1>5

LEMMA CloseMoves ==
  ASSUME Framed, NEW f \in DOMAIN script, NEW luck, CloseCall(f, luck)
  PROVE  /\ Shrinks
         /\ \A c \in Of(f) : ~Due("close", c)'
         /\ luck # "no log" => Exactly("close", {One(f)})
<1>1. /\ AtHead(f, "close") /\ UNCHANGED <<transport, mode, calls>>
      /\ \/ GoesOn(f, Without(script[f], {"close"})) /\ luck = "no log"
         \/ GoesOn(f, Tail(script[f]))
  BY DEF CloseCall, setup, Go, Next1, GoesOn
<1>2. Of(f) = {One(f)} /\ One(f) \in Call /\ calls[One(f)].frame = f
  BY <1>1, OneOf DEF OneCall
<1>3. Call' = Call
  BY <1>1 DEF Call
<1>4. CASE GoesOn(f, Tail(script[f]))
  <2>1. Framed' /\ \A p : \A c \in Call : Due(p, c)' <=> Due(p, c) /\ ~(p = "close" /\ c \in Of(f))
    BY <1>1, <1>4, StepDone
  <2> QED
    BY <1>1, <1>2, <1>3, <2>1 DEF Shrinks, Exactly
<1>5. CASE GoesOn(f, Without(script[f], {"close"})) /\ luck = "no log"
  <2>1. /\ Framed'
        /\ \A p : \A c \in Call :
             Due(p, c)' <=> Due(p, c) /\ ~(p \in {"close"} /\ calls[c].frame = f)
    BY <1>5, StepsDropped
  <2> QED
    BY <1>1, <1>2, <1>3, <1>5, <2>1 DEF Shrinks
<1> QED
  BY <1>1, <1>4, <1>5

\* The upstream has answered: there was nothing else left to do with the frame.
Responded(f, a, read, left) ==
  /\ Framed' /\ UNCHANGED <<transport, mode, calls>> /\ Call' = Call
  /\ \A p : \A c \in Call : calls[c].frame = f =>
       /\ Due(p, c)' <=> <<p, c>> \in AnsweredPlan(Of(f), a, read, left)
       /\ Due(p, c) => p = "answer" /\ c \in Of(f)
       /\ c \in Of(f) => Due("answer", c)
  /\ \A p : \A c \in Call : calls[c].frame # f => (Due(p, c)' <=> Due(p, c))
LEMMA RespondMoves ==
  ASSUME Framed, NEW f \in DOMAIN script, NEW a \in SUBSET CallsOf(f), NEW read \in SUBSET a, NEW left \in BOOLEAN,
         Respond(f, a, read, left)
  PROVE  Responded(f, a, read, left)
<1> PICK s, C : s = script[f] /\ C = CallsOf(f)
  OBVIOUS
<1>1. /\ AtHead(f, "answer") /\ a \subseteq Of(f) /\ read \subseteq a /\ UNCHANGED <<transport, mode, calls>>
      /\ GoesOn(f, Answered(Of(f), a, read, left))
  BY DEF Respond, setup, Go, GoesOn
<1>2. /\ Well(s, C) /\ s \in Seq(Steps) /\ s # <<>> /\ Op(f) = "answer" /\ Of(f) \subseteq C
      /\ \A c \in Of(f) : c \in Call /\ Due("answer", c)
  BY <1>1, HeadOf
<1>3. C \in SUBSET Nat /\ IsFiniteSet(C)
  BY CallsOfFrame DEF Framed
<1>4. /\ Well(Answered(Of(f), a, read, left), C)
      /\ \A o, c : Has(Answered(Of(f), a, read, left), o, c) <=> <<o, c>> \in AnsweredPlan(Of(f), a, read, left)
  BY <1>1, <1>2, <1>3, DoesAnswered DEF Plans, Made, Framed
<1>5. /\ Framed'
      /\ \A o : \A c \in Call :
           /\ calls[c].frame = f => (Due(o, c)' <=> Has(Answered(Of(f), a, read, left), o, c))
           /\ calls[c].frame # f => (Due(o, c)' <=> Due(o, c))
  BY <1>1, <1>4, Goes
<1>6. Len(s) = 1 /\ s[1].op = "answer" /\ s[1].of = Of(f)
  <2>1. Len(s) \in Nat /\ 1 \in 1..Len(s) /\ Head(s) = s[1]
    BY <1>2
  <2>2. s[1].op = "answer" /\ s[1].of = Of(f)
    BY <1>2, <2>1 DEF Op, Of
  <2>3. 1 = Len(s)
    BY <1>2, <2>1, <2>2 DEF Well
  <2> QED
    BY <2>2, <2>3
<1>7. \A p, c : Has(s, p, c) => p = "answer" /\ c \in Of(f)
  BY <1>6 DEF Has
<1>8. \A p : \A c \in Call : calls[c].frame = f => (Due(p, c) <=> Has(s, p, c))
  BY DEF Due
<1> QED
  BY <1>1, <1>2, <1>4, <1>5, <1>7, <1>8 DEF Call, Responded

LEMMA RestartMoves ==
  ASSUME Framed, Restart
  PROVE  /\ Shrinks /\ \A p : \A c \in Call : ~Due(p, c)'
<1>1. UNCHANGED <<transport, mode, calls>> /\ script' = [f \in DOMAIN script |-> <<>>]
  BY DEF Restart, setup
<1>2. Framed' /\ \A p : \A c \in Call : ~Due(p, c)'
  BY <1>1, AllEnd
<1> QED
  BY <1>1, <1>2 DEF Shrinks, Call

(***************************************************************************)
(* The steps, by what they do to the frames, the verdicts and the answers. *)
(***************************************************************************)
\* A step that judges, answers and starts nothing.
Elsewhere == /\ Shrinks /\ UNCHANGED <<verdict, reply>>
             /\ session' \in [before : {session.before}, late : {session.late}, drained : BOOLEAN]
             /\ phase' \in Phases
             /\ phase \notin {"running", "stopping"} => phase' \notin {"running", "stopping"}

Records(f, luck) == Record(f, "record", luck) \/ Record(f, "refuse", luck)
Puts(f) == Inject(f) \/ Write(f) \/ Relay(f) \/ Pass(f)
Rest == \/ \E f \in DOMAIN script, luck \in Lucks :
             Records(f, luck) \/ OpenCall(f, luck) \/ Pair(f, luck) \/ CloseCall(f, luck)
        \/ \E luck \in Lucks : DownObserve(luck) \/ FlushPending(luck) \/ FlushTape(luck)
        \/ \E f \in DOMAIN script : BreakPipe(f)
        \/ EditMandate \/ Stop \/ Waited

LEMMA NextIs ==
  ASSUME Next
  PROVE  \/ \E n \in Frames : \E kinds \in [1..n -> Kinds] : Send(kinds)
         \/ \E f \in DOMAIN script, luck \in Lucks : Judge(f, luck)
         \/ \E f \in DOMAIN script : Puts(f)
         \/ \E f \in DOMAIN script : \E a \in SUBSET CallsOf(f) :
              \E read \in SUBSET a, left \in BOOLEAN : Respond(f, a, read, left)
         \/ \E c \in Call, read \in BOOLEAN : DownRelay(c, read)
         \/ Restart
         \/ Rest
<1>1. CASE \E f \in DOMAIN script, luck \in Lucks : Step(f, luck)
  BY <1>1 DEF Step, Rest, Records
<1>2. CASE Close
  BY <1>2 DEF Close, Rest
<1>3. CASE \E luck \in Lucks : DownObserve(luck)
  BY <1>3 DEF Rest
<1>4. CASE EditMandate \/ Stop
  BY <1>4 DEF Rest
<1>5. CASE \E f \in DOMAIN script : Inject(f) \/ Write(f) \/ Relay(f) \/ Pass(f)
  BY <1>5 DEF Puts
<1>6. CASE \E f \in DOMAIN script : BreakPipe(f)
  BY <1>6 DEF Rest
<1> QED
  BY <1>1, <1>2, <1>3, <1>4, <1>5, <1>6 DEF Next

LEMMA BreakMoves ==
  ASSUME Framed, NEW f \in DOMAIN script, BreakPipe(f)
  PROVE  Shrinks /\ \A p : \A c \in Call : ~Due(p, c)'
<1>1. UNCHANGED <<transport, mode, calls>> /\ script' = [g \in DOMAIN script |-> All("gone", {})]
  BY DEF BreakPipe, UpIsGone, setup
<1>2. Framed' /\ \A p : \A c \in Call : ~Due(p, c)'
  BY <1>1, AllEnd
<1> QED
  BY <1>1, <1>2 DEF Shrinks, Call

LEMMA ElsewhereMoves ==
  ASSUME Framed, SessionTyped, Rest
  PROVE  Elsewhere
<1>0. /\ session \in [before : Nat, late : SUBSET Nat, drained : BOOLEAN] /\ phase \in Phases
      /\ session \in [before : {session.before}, late : {session.late}, drained : BOOLEAN]
  BY DEF SessionTyped
<1>1. ASSUME NEW f \in DOMAIN script, NEW luck \in Lucks,
             Records(f, luck) \/ OpenCall(f, luck) \/ Pair(f, luck) \/ CloseCall(f, luck)
      PROVE  Elsewhere
  <2>1. /\ UNCHANGED <<verdict, reply, phase, session>>
    BY <1>1 DEF Records, Record, OpenCall, Pair, CloseCall
  <2>2. ASSUME Records(f, luck) PROVE Shrinks
    BY <2>2, RecordMoves DEF Records
  <2>3. ASSUME OpenCall(f, luck) PROVE Shrinks
    BY <2>3, OpenMoves
  <2>4. ASSUME Pair(f, luck) PROVE Shrinks
    <3>1. AtHead(f, "pair") /\ Next1(f) /\ UNCHANGED <<transport, mode, calls>>
      BY <2>4 DEF Pair, setup
    <3> QED
      BY <3>1, PlainMoves
  <2>5. ASSUME CloseCall(f, luck) PROVE Shrinks
    BY <2>5, CloseMoves
  <2>6. Shrinks
    BY <1>1, <2>2, <2>3, <2>4, <2>5
  <2> QED
    BY <1>0, <2>1, <2>6 DEF Elsewhere
<1>1a. ASSUME NEW f \in DOMAIN script, BreakPipe(f) PROVE Elsewhere
  <2>1. UNCHANGED <<verdict, reply, phase, session>>
    BY <1>1a DEF BreakPipe
  <2>2. Shrinks
    BY <1>1a, BreakMoves
  <2> QED
    BY <1>0, <2>1, <2>2 DEF Elsewhere
<1>2. ASSUME UNCHANGED <<transport, mode, calls, script, verdict, reply>>,
             session' \in [before : {session.before}, late : {session.late}, drained : BOOLEAN],
             phase' \in Phases,
             phase \notin {"running", "stopping"} => phase' \notin {"running", "stopping"}
      PROVE  Elsewhere
  <2>1. Framed' /\ Call' = Call /\ \A p : \A c \in Call : Due(p, c)' <=> Due(p, c)
    BY <1>2, NothingMoves
  <2>2. Shrinks
    BY <1>2, <2>1 DEF Shrinks
  <2> QED
    BY <1>2, <2>2 DEF Elsewhere
<1>3. ASSUME NEW luck \in Lucks, DownObserve(luck) \/ FlushPending(luck) \/ FlushTape(luck)
      PROVE  Elsewhere
  <2>1. CASE DownObserve(luck)
    BY <1>0, <1>2, <2>1 DEF DownObserve, setup
  <2>2. CASE FlushPending(luck)
    <3>1. /\ UNCHANGED <<transport, mode, calls, script, verdict, reply, session>>
          /\ phase' \in {"flushed", "dead"}
      BY <2>2 DEF FlushPending, setup
    <3> QED
      BY <1>0, <1>2, <3>1 DEF Phases
  <2>3. CASE FlushTape(luck)
    <3>1. UNCHANGED <<transport, mode, calls, script, verdict, reply, session>> /\ phase' = "ended"
      BY <2>3 DEF FlushTape, setup
    <3> QED
      BY <1>0, <1>2, <3>1 DEF Phases
  <2> QED
    BY <1>3, <2>1, <2>2, <2>3
<1>4. CASE EditMandate
  BY <1>0, <1>2, <1>4 DEF EditMandate, setup
<1>5. CASE Stop
  BY <1>0, <1>2, <1>5 DEF Stop, setup, Phases
<1>6. CASE Waited
  <2>1. /\ UNCHANGED <<transport, mode, calls, script, verdict, reply>>
        /\ phase' = "flushing" /\ session' = [session EXCEPT !.drained = Quiet]
    BY <1>6 DEF Waited, setup
  <2>2. Quiet \in BOOLEAN
    BY DEF Quiet
  <2>3. session' \in [before : {session.before}, late : {session.late}, drained : BOOLEAN]
    BY <1>0, <2>1, <2>2
  <2> QED
    BY <1>2, <2>1, <2>3 DEF Phases
<1> QED
  BY <1>1, <1>1a, <1>3, <1>4, <1>5, <1>6 DEF Rest

\* A frame is written to the server, its answers to the agent, or the recorder's own.
PutWord(o) == CASE o = "inject" -> "refused" [] o = "write" -> "asked" [] o = "relay" -> "relayed"
                [] o = "pass" -> "unread"
PutOps == {"inject", "write", "relay", "pass"}
Put(f, o) == /\ AtHead(f, o)
             /\ reply' = [c \in Call |-> IF c \in Of(f) THEN PutWord(o) ELSE reply[c]]
             /\ Next1(f)
             /\ UNCHANGED <<setup, calls, verdict, down, pending, tape, log, gate, used, phase, session>>

LEMMA PutsIs ==
  ASSUME NEW f, Puts(f)
  PROVE  \E o \in PutOps : Put(f, o)
<1>1. CASE Inject(f)
  <2>1. Put(f, "inject")
    BY <1>1 DEF Inject, Put, PutWord
  <2> QED
    BY <2>1 DEF PutOps
<1>2. CASE Write(f)
  <2>1. Put(f, "write")
    BY <1>2 DEF Write, Put, PutWord
  <2> QED
    BY <2>1 DEF PutOps
<1>3. CASE Relay(f)
  <2>1. Put(f, "relay")
    BY <1>3 DEF Relay, Put, PutWord
  <2> QED
    BY <2>1 DEF PutOps
<1>4. CASE Pass(f)
  <2>1. Put(f, "pass")
    BY <1>4 DEF Pass, Put, PutWord
  <2> QED
    BY <2>1 DEF PutOps
<1> QED
  BY <1>1, <1>2, <1>3, <1>4 DEF Puts

LEMMA PutMoves ==
  ASSUME Framed, NEW f \in DOMAIN script, NEW o \in PutOps, Put(f, o)
  PROVE  /\ Shrinks /\ Exactly(o, Of(f)) /\ UNCHANGED <<verdict, phase, session, down, pending, tape, rows, unlogged>>
         /\ \A c \in Of(f) : c \in Call /\ calls[c].frame = f /\ Due(o, c)
<1>1. AtHead(f, o) /\ Next1(f) /\ UNCHANGED <<transport, mode, calls>>
  BY DEF Put, setup
<1>2. o \in {"inject", "write", "relay", "pass", "pair"}
  BY DEF PutOps
<1> QED
  BY <1>1, <1>2, PlainMoves, HeadOf DEF Put, log

(***************************************************************************)
(* Types, and what the past has coming.                                    *)
(***************************************************************************)
Typed == Framed /\ SaidTyped /\ SessionTyped
\* A recorder does nothing more for a call of an earlier session.
Past == \A c \in Call : c <= session.before => \A p : ~Due(p, c)
Begun == Typed /\ Past



LEMMA InitBegun ==
  ASSUME Init
  PROVE  Begun
<1>1. SetupTyped
  BY SetupsAssumption DEF Init, SetupTyped
<1>2. calls = <<>> /\ script = <<>> /\ verdict = <<>> /\ reply = <<>> /\ phase = "running"
      /\ session = [before |-> 0, late |-> {}, drained |-> FALSE]
  BY DEF Init
<1>3. Call = {} /\ Len(calls) = 0 /\ Len(script) = 0
  BY <1>2 DEF Call
<1>4. FramesTyped /\ ScriptsWell
  BY <1>2, <1>3 DEF FramesTyped, ScriptsWell
<1>5. SaidTyped
  BY <1>2, <1>3 DEF SaidTyped
<1>6. SessionTyped
  BY <1>2, <1>3 DEF SessionTyped, Phases
<1> QED
  BY <1>1, <1>3, <1>4, <1>5, <1>6 DEF Begun, Typed, Framed, Past

\* As many times the same are put behind.
LEMMA PutBehind ==
  ASSUME NEW T, NEW m \in Nat, NEW n \in Nat, NEW v \in [1..m -> T], NEW x \in T,
         NEW w \in Seq(T), Len(w) = n, \A i \in 1..n : w[i] = x, NEW u, u = v \o w
  PROVE  /\ u \in [1..m + n -> T]
         /\ \A c \in 1..m : u[c] = v[c]
         /\ \A c \in m + 1 .. m + n : u[c] = x
<1>1. v \in Seq(T) /\ Len(v) = m
  OBVIOUS
<1>2. u \in Seq(T) /\ Len(u) = m + n
  <2>1. \A s, t \in Seq(T) : s \o t \in Seq(T) /\ Len(s \o t) = Len(s) + Len(t)
    OBVIOUS
  <2> QED
    BY <1>1, <2>1
<1>2a. \A c \in 1..m : u[c] = v[c]
  BY <1>1
<1>3. ASSUME NEW c \in m + 1 .. m + n PROVE u[c] = x
  <2>1. c - m \in 1..n /\ u[c] = w[c - m]
    BY <1>1
  <2> QED
    BY <2>1
<1>4. u \in [1..m + n -> T]
  <2>1. \A q \in Seq(T) : q \in [1..Len(q) -> T]
    OBVIOUS
  <2> QED
    BY <1>2, <2>1
<1> QED
  BY <1>2a, <1>3, <1>4

LEMMA SendSays ==
  ASSUME Typed, NEW n \in Frames, NEW kinds \in [1..n -> Kinds], Send(kinds)
  PROVE  /\ SaidTyped' /\ SessionTyped' /\ session'.before = session.before
         /\ \A c \in Call : verdict'[c] = verdict[c] /\ reply'[c] = reply[c]
         /\ \A c \in New(kinds) : verdict'[c] = "none" /\ reply'[c] = "none" /\ c > session.before
         /\ UNCHANGED <<transport, mode, down, pending, tape, rows, unlogged, phase>>
         /\ \/ phase = "running" /\ session' = session
            \/ phase # "running" /\ session' = [session EXCEPT !.late = @ \cup New(kinds)]
<1> PICK m, S : m = Len(calls) /\ S = New(kinds)
  OBVIOUS
<1>1. /\ n \in Nat /\ m \in Nat /\ Len(kinds) = n /\ Len(calls') = m + n /\ Call = 1..m
      /\ Call' = Call \cup S
  BY SendMoves, CallIs DEF Typed, Framed, FramesTyped
<1>2. S = m + 1 .. m + n
  BY <1>1 DEF New
<1> PICK w : w = [i \in 1..n |-> "none"]
  OBVIOUS
<1>2a. w \in Seq(Verdicts) /\ w \in Seq(Replies) /\ Len(w) = n /\ \A i \in 1..n : w[i] = "none"
  BY <1>1 DEF Verdicts, Replies
<1>3. verdict' = verdict \o w /\ reply' = reply \o w
  BY <1>1 DEF Send
<1>5. /\ verdict \in [1..m -> Verdicts] /\ "none" \in Verdicts
      /\ reply \in [1..m -> Replies] /\ "none" \in Replies
      /\ session \in [before : Nat, late : SUBSET Nat, drained : BOOLEAN] /\ session.before <= m
  BY DEF Typed, SaidTyped, SessionTyped, Verdicts, Replies
<1>6. SaidTyped' /\ \A c \in 1..m : verdict'[c] = verdict[c] /\ reply'[c] = reply[c]
  <2>1. verdict' \in [1..m + n -> Verdicts]
    <3>1. m \in Nat /\ n \in Nat /\ verdict \in [1..m -> Verdicts] /\ "none" \in Verdicts
      BY <1>1, <1>5
    <3> QED
      BY <1>2a, <1>3, <3>1, PutBehind
  <2>1a. reply' \in [1..m + n -> Replies]
    <3>1. m \in Nat /\ n \in Nat /\ reply \in [1..m -> Replies] /\ "none" \in Replies
      BY <1>1, <1>5
    <3> QED
      BY <1>2a, <1>3, <3>1, PutBehind
  <2>2. \A c \in 1..m : verdict'[c] = verdict[c] /\ reply'[c] = reply[c]
    BY <1>1, <1>2a, <1>3, <1>5, PutBehind
  <2> QED
    BY <1>1, <2>1, <2>1a, <2>2 DEF SaidTyped
<1>7. \A c \in S : verdict'[c] = "none" /\ reply'[c] = "none"
  BY <1>1, <1>2, <1>2a, <1>3, <1>5, PutBehind
<1>8. /\ UNCHANGED <<transport, mode, down, pending, tape, rows, unlogged, phase>>
      /\ session' = IF phase = "running" THEN session ELSE [session EXCEPT !.late = @ \cup S]
  BY DEF Send, setup, log, New
<1>9. session' \in [before : Nat, late : SUBSET Nat, drained : BOOLEAN] /\ session'.before = session.before
  <2>1. S \subseteq Nat
    BY <1>1, <1>2
  <2> QED
    BY <1>5, <1>8, <2>1
<1>10. SessionTyped'
  BY <1>1, <1>5, <1>8, <1>9 DEF SessionTyped, Typed
<1>11. \A c \in S : c > session.before
  BY <1>1, <1>2, <1>5
<1> QED
  BY <1>1, <1>6, <1>7, <1>8, <1>9, <1>10, <1>11

LEMMA PutSays ==
  ASSUME Typed, NEW f \in DOMAIN script, NEW o \in PutOps, Put(f, o)
  PROVE  /\ SaidTyped' /\ SessionTyped'
         /\ \A c \in Call : reply'[c] = IF c \in Of(f) THEN PutWord(o) ELSE reply[c]
<1>1. Call = 1..Len(calls) /\ calls' = calls
  BY CallIs DEF Typed, Framed, Put
<1>2. PutWord(o) \in Replies
  BY DEF PutWord, Replies, PutOps
<1>3. reply' \in [Call -> Replies]
  BY <1>1, <1>2 DEF Typed, SaidTyped, Put
<1> QED
  BY <1>1, <1>3 DEF Typed, SaidTyped, SessionTyped, Put

LEMMA JudgeSays ==
  ASSUME Typed, NEW f \in DOMAIN script, NEW luck, Judge(f, luck)
  PROVE  /\ SaidTyped' /\ SessionTyped'
         /\ UNCHANGED <<transport, mode, calls, reply, phase, session, down, pending, tape>>
         /\ \A c \in Call : verdict'[c] = IF c \in Of(f) /\ ~DeafGate THEN Detail(c) ELSE verdict[c]
<1>1. Call = 1..Len(calls) /\ calls' = calls
  BY CallIs DEF Typed, Framed, Judge
<1>2. \A c : Detail(c) \in Verdicts
  BY DEF Detail, Verdicts
<1>3. ~DeafGate => verdict' = [c \in Call |-> IF c \in Of(f) THEN Detail(c) ELSE verdict[c]]
  BY DEF Judge
<1>4. DeafGate => verdict' = verdict
  BY DEF Judge
<1>5. verdict' \in [Call -> Verdicts]
  BY <1>1, <1>2, <1>3, <1>4 DEF Typed, SaidTyped
<1>6. UNCHANGED <<transport, mode, calls, reply, phase, session, down, pending, tape>>
  BY DEF Judge, setup
<1>7. SaidTyped' /\ SessionTyped'
  BY <1>1, <1>5, <1>6 DEF Typed, SaidTyped, SessionTyped
<1> QED
  BY <1>1, <1>3, <1>4, <1>6, <1>7

LEMMA BegunStep ==
  ASSUME Begun, [Next]_vars
  PROVE  Begun'
<1>0. Framed /\ SaidTyped /\ SessionTyped /\ Call = 1..Len(calls)
  BY CallIs DEF Begun, Typed, Framed
<1>1. ASSUME NEW n \in Frames, NEW kinds \in [1..n -> Kinds], Send(kinds)
      PROVE  Begun'
  <2>1. /\ Framed' /\ SaidTyped' /\ SessionTyped' /\ session'.before = session.before
        /\ Call' = Call \cup New(kinds) /\ \A c \in New(kinds) : c > session.before
        /\ \A c \in Call : \A p : Due(p, c)' <=> Due(p, c)
    BY <1>1, SendMoves, SendSays DEF Begun, Typed
  <2>2. /\ Call \subseteq Nat /\ session.before \in Nat /\ New(kinds) \subseteq Int
    BY <1>0 DEF SessionTyped, Framed, FramesTyped, New
  <2>3. ASSUME NEW c \in Call', c <= session'.before, NEW p PROVE ~Due(p, c)'
    BY <2>1, <2>2, <2>3 DEF Begun, Past
  <2> QED
    BY <2>1, <2>3 DEF Begun, Typed, Past
<1>2. ASSUME UNCHANGED <<calls, session>>, Framed', SaidTyped', SessionTyped',
             \A p : \A c \in Call : Due(p, c)' => Due(p, c) \/ \E o : Due(o, c)
      PROVE  Begun'
  <2>1. Call' = Call
    BY <1>2 DEF Call
  <2> QED
    BY <1>2, <2>1 DEF Begun, Typed, Past
<1>3. ASSUME NEW f \in DOMAIN script, NEW luck \in Lucks, Judge(f, luck)
      PROVE  Begun'
  <2>1. Framed' /\ SaidTyped' /\ SessionTyped' /\ UNCHANGED <<calls, session>>
    BY <1>0, <1>3, JudgeMoves, JudgeSays DEF Typed
  <2>2. \A c \in Of(f) : c \in Call /\ Due("judge", c)
    BY <1>0, <1>3, HeadOf DEF Judge
  <2>3. \A p : \A c \in Call : <<p, c>> \in HeldPlan(Of(f)) => c \in Of(f)
    BY DEF HeldPlan, Valid
  <2>4. ASSUME NEW p, NEW c \in Call, Due(p, c)'
        PROVE  Due(p, c) \/ c \in Of(f)
    <3>1. CASE calls[c].frame # f
      BY <1>0, <1>3, <2>4, <3>1, JudgeMoves
    <3>2. CASE calls[c].frame = f /\ mode # "enforce"
      BY <1>0, <1>3, <2>4, <3>2, JudgeMoves
    <3>3. CASE calls[c].frame = f /\ mode = "enforce"
      BY <1>0, <1>3, <2>3, <2>4, <3>3, JudgeMoves
    <3> QED
      BY <3>1, <3>2, <3>3
  <2> QED
    BY <1>2, <2>1, <2>2, <2>4
<1>4. ASSUME NEW f \in DOMAIN script, Puts(f)
      PROVE  Begun'
  <2>1. PICK o \in PutOps : Put(f, o)
    BY <1>4, PutsIs
  <2>2. Shrinks /\ UNCHANGED session /\ SaidTyped' /\ SessionTyped'
    BY <1>0, <2>1, PutMoves, PutSays DEF Typed
  <2> QED
    BY <1>2, <2>2 DEF Shrinks
<1>5. ASSUME NEW f \in DOMAIN script, NEW a \in SUBSET CallsOf(f), NEW read \in SUBSET a,
             NEW left \in BOOLEAN,
             Respond(f, a, read, left)
      PROVE  Begun'
  <2>1. UNCHANGED <<calls, session, verdict, reply, phase>>
    BY <1>5 DEF Respond
  <2>2. SaidTyped' /\ SessionTyped'
    BY <1>0, <2>1 DEF SaidTyped, SessionTyped
  <2>3. /\ Framed'
        /\ \A p : \A c \in Call : calls[c].frame = f =>
             /\ Due(p, c)' <=> <<p, c>> \in AnsweredPlan(Of(f), a, read, left)
             /\ c \in Of(f) => Due("answer", c)
        /\ \A p : \A c \in Call : calls[c].frame # f => (Due(p, c)' <=> Due(p, c))
    <3>1. Responded(f, a, read, left)
      BY <1>0, <1>5, RespondMoves
    <3> QED
      BY <3>1 DEF Responded
  <2>4. a \subseteq Of(f) /\ read \subseteq Of(f)
    BY <1>5 DEF Respond
  <2>5. \A p : \A c \in Call : <<p, c>> \in AnsweredPlan(Of(f), a, read, left) => c \in Of(f)
    BY <2>4 DEF AnsweredPlan
  <2> QED
    BY <1>2, <2>1, <2>2, <2>3, <2>5
<1>6. ASSUME NEW c \in Call, NEW read \in BOOLEAN, DownRelay(c, read)
      PROVE  Begun'
  <2>1. /\ UNCHANGED <<transport, mode, calls, script, session, verdict, phase>>
        /\ reply' = [reply EXCEPT ![c] = IF read THEN "relayed" ELSE "unread"]
    BY <1>6 DEF DownRelay, setup
  <2>2. SaidTyped' /\ SessionTyped'
    BY <1>0, <2>1 DEF SaidTyped, SessionTyped, Replies
  <2>3. Framed' /\ \A p : \A d \in Call : Due(p, d)' <=> Due(p, d)
    BY <1>0, <2>1, NothingMoves
  <2> QED
    BY <1>2, <2>1, <2>2, <2>3
<1>7. ASSUME Restart
      PROVE  Begun'
  <2>1. Shrinks /\ \A p : \A c \in Call : ~Due(p, c)'
    BY <1>0, <1>7, RestartMoves
  <2>2. /\ verdict' = verdict /\ phase' = "running" /\ calls' = calls
        /\ reply' = [c \in Call |-> IF reply[c] \in {"relayed", "unread", "refused"} THEN reply[c] ELSE "lost"]
        /\ session' = [before |-> Len(calls), late |-> {}, drained |-> FALSE]
    BY <1>7 DEF Restart
  <2>3. SaidTyped'
    BY <1>0, <2>2 DEF SaidTyped, Replies
  <2>4. SessionTyped'
    BY <1>0, <2>2 DEF SessionTyped, Phases, Framed, FramesTyped
  <2> QED
    BY <2>1, <2>3, <2>4 DEF Begun, Typed, Past, Shrinks
<1>8. ASSUME Rest
      PROVE  Begun'
  <2>1. Elsewhere
    BY <1>0, <1>8, ElsewhereMoves
  <2>2. SaidTyped'
    BY <1>0, <2>1 DEF Elsewhere, Shrinks, SaidTyped
  <2>3. SessionTyped' /\ session'.before = session.before
    BY <1>0, <2>1 DEF Elsewhere, Shrinks, SessionTyped
  <2> QED
    BY <2>1, <2>2, <2>3 DEF Elsewhere, Shrinks, Begun, Typed, Past
<1>9. ASSUME UNCHANGED vars
      PROVE  Begun'
  <2>1. UNCHANGED <<transport, mode, calls, script, session, verdict, reply, phase>>
    BY <1>9 DEF vars
  <2>2. SaidTyped' /\ SessionTyped'
    BY <1>0, <2>1 DEF SaidTyped, SessionTyped
  <2>3. Framed' /\ \A p : \A d \in Call : Due(p, d)' <=> Due(p, d)
    BY <1>0, <2>1, NothingMoves
  <2> QED
    BY <1>2, <2>1, <2>2, <2>3
<1> QED
  BY <1>1, <1>3, <1>4, <1>5, <1>6, <1>7, <1>8, <1>9, NextIs

(***************************************************************************)
(* The gate.                                                               *)
(***************************************************************************)
Cleared(c) == \/ verdict[c] = "inside"
              \/ verdict[c] = "none" /\ transport = "http" /\ phase \notin {"running", "stopping"}
\* A call that is still to be judged has nothing else coming, and nothing was said of it.
ToJudge == \A c \in Call : Due("judge", c) =>
             verdict[c] = "none" /\ reply[c] = "none" /\ \A p : Due(p, c) => p = "judge"
\* One that is on its way to the server or back is cleared.
Out(c) == Due("write", c) \/ Due("relay", c) \/ Due("pass", c)
OnItsWay == \A c \in Call :
              Out(c) \/ (c > session.before /\ reply[c] \in {"asked", "relayed", "unread"}) => Cleared(c)
Gated == Begun /\ (mode = "enforce" => ToJudge /\ OnItsWay)

LEMMA InitGated == ASSUME Init PROVE Gated
<1>1. Call = {}
  BY DEF Init, Call
<1> QED
  BY <1>1, InitBegun DEF Gated, ToJudge, OnItsWay, Out

\* Where no verdict changes and no phase is run back, what was cleared stays so.
LEMMA StaysCleared ==
  ASSUME UNCHANGED <<transport, verdict>>,
         phase \notin {"running", "stopping"} => phase' \notin {"running", "stopping"},
         NEW c, Cleared(c)
  PROVE  Cleared(c)'
BY DEF Cleared

LEMMA SetupStays == ASSUME [Next]_vars PROVE UNCHANGED <<transport, mode>>
<1>1. CASE UNCHANGED vars
  BY <1>1 DEF vars
<1>2. ASSUME NEW f \in DOMAIN script, Puts(f) PROVE UNCHANGED <<transport, mode>>
  BY <1>2 DEF Puts, Inject, Write, Relay, Pass, setup
<1>3. ASSUME NEW f, NEW luck, Judge(f, luck) \/ Records(f, luck) PROVE UNCHANGED <<transport, mode>>
  BY <1>3 DEF Judge, Records, Record, setup
<1>4. ASSUME NEW f, NEW luck, OpenCall(f, luck) \/ Pair(f, luck) \/ CloseCall(f, luck)
      PROVE UNCHANGED <<transport, mode>>
  BY <1>4 DEF OpenCall, Pair, CloseCall, setup
<1>5. ASSUME NEW luck, DownObserve(luck) \/ FlushPending(luck) \/ FlushTape(luck)
      PROVE UNCHANGED <<transport, mode>>
  BY <1>5 DEF DownObserve, FlushPending, FlushTape, setup
<1>6. CASE EditMandate \/ Stop \/ Waited \/ Restart \/ \E f \in DOMAIN script : BreakPipe(f)
  BY <1>6 DEF EditMandate, Stop, Waited, Restart, BreakPipe, setup
<1>7. CASE Rest
  BY <1>3, <1>4, <1>5, <1>6, <1>7 DEF Rest
<1>8. ASSUME NEW kinds, Send(kinds) PROVE UNCHANGED <<transport, mode>>
  BY <1>8 DEF Send, setup
<1>9. ASSUME NEW c, NEW read, DownRelay(c, read) PROVE UNCHANGED <<transport, mode>>
  BY <1>9 DEF DownRelay, setup
<1>10. ASSUME NEW f, NEW a, NEW read, NEW left, Respond(f, a, read, left) PROVE UNCHANGED <<transport, mode>>
  BY <1>10 DEF Respond, setup
<1> QED
  BY <1>1, <1>2, <1>3, <1>6, <1>7, <1>8, <1>9, <1>10, NextIs

LEMMA GatedStep ==
  ASSUME Gated, [Next]_vars
  PROVE  Gated'
<1>0. Begun /\ Begun' /\ Typed /\ Framed /\ SessionTyped
  BY BegunStep DEF Gated, Begun, Typed
<1> SUFFICES ASSUME mode' = "enforce", mode = "enforce", ToJudge, OnItsWay
             PROVE  ToJudge' /\ OnItsWay'
  <2>1. mode' = mode
    BY SetupStays
  <2> QED
    BY <1>0, <2>1 DEF Gated
<1>1. ASSUME NEW n \in Frames, NEW kinds \in [1..n -> Kinds], Send(kinds)
      PROVE  ToJudge' /\ OnItsWay'
  <2>1. /\ Call' = Call \cup New(kinds) /\ session'.before = session.before
        /\ \A c \in Call : \A p : Due(p, c)' <=> Due(p, c)
        /\ \A c \in New(kinds) : \A p : Due(p, c)' <=> p \in ScriptOps
        /\ \A c \in Call : verdict'[c] = verdict[c] /\ reply'[c] = reply[c]
        /\ \A c \in New(kinds) : verdict'[c] = "none" /\ reply'[c] = "none"
        /\ UNCHANGED <<transport, phase>>
    BY <1>0, <1>1, SendMoves, SendSays
  <2>2. ScriptOps = {"judge"}
    BY DEF ScriptOps
  <2>3. ToJudge'
    BY <2>1, <2>2 DEF ToJudge
  <2>4. \A c \in Call : Cleared(c) => Cleared(c)'
    BY <2>1 DEF Cleared
  <2>5. OnItsWay'
    BY <2>1, <2>2, <2>4 DEF OnItsWay, Out
  <2> QED
    BY <2>3, <2>5
<1>2. ASSUME NEW f \in DOMAIN script, NEW luck \in Lucks, Judge(f, luck)
      PROVE  ToJudge' /\ OnItsWay'
  <2>1. /\ UNCHANGED <<transport, mode, calls, reply, phase, session>> /\ Call' = Call
        /\ \A c \in Call : verdict'[c] = IF c \in Of(f) /\ ~DeafGate THEN Detail(c) ELSE verdict[c]
    BY <1>0, <1>2, JudgeSays DEF Call
  <2>2. \A c \in Of(f) : c \in Call /\ calls[c].frame = f /\ Due("judge", c)
    BY <1>0, <1>2, HeadOf DEF Judge
  <2>3. ASSUME NEW c \in Call, calls[c].frame # f
        PROVE  /\ \A p : Due(p, c)' <=> Due(p, c)
               /\ verdict'[c] = verdict[c] /\ reply'[c] = reply[c]
    BY <1>0, <1>2, <2>1, <2>2, <2>3, JudgeMoves
  <2>4. DeafGate => transport = "http" /\ phase \notin {"running", "stopping"}
    BY DEF DeafGate, Deaf
  <2>5. ASSUME NEW c \in Call, calls[c].frame = f
        PROVE  /\ ~Due("judge", c)'
               /\ Due("write", c)' => c \in Of(f) /\ Cleared(c)'
               /\ ~Due("relay", c)' /\ ~Due("pass", c)'
    <3>1. CASE DeafGate
      <4>1. \A p : Due(p, c)' <=> p \in PassedOps \ {"record"} /\ c \in Of(f)
        BY <1>0, <1>2, <2>5, <3>1, JudgeMoves
      <4>2. "judge" \notin PassedOps /\ "relay" \notin PassedOps /\ "pass" \notin PassedOps
        BY DEF PassedOps
      <4>3. c \in Of(f) => verdict'[c] = "none"
        BY <2>1, <2>2, <3>1 DEF ToJudge
      <4> QED
        BY <2>1, <2>4, <3>1, <4>1, <4>2, <4>3 DEF Cleared
    <3>2. CASE ~DeafGate /\ \A d \in Of(f) : Detail(d) = "inside"
      <4>1. \A p : Due(p, c)' <=> p \in PassedOps /\ c \in Of(f)
        BY <1>0, <1>2, <2>5, <3>2, JudgeMoves
      <4>2. "judge" \notin PassedOps /\ "relay" \notin PassedOps /\ "pass" \notin PassedOps
        BY DEF PassedOps
      <4>3. c \in Of(f) => verdict'[c] = "inside"
        BY <2>1, <3>2
      <4> QED
        BY <4>1, <4>2, <4>3 DEF Cleared
    <3>3. CASE ~DeafGate /\ ~\A d \in Of(f) : Detail(d) = "inside"
      <4>1. \A p : Due(p, c)' <=> <<p, c>> \in HeldPlan(Of(f))
        BY <1>0, <1>2, <2>5, <3>3, JudgeMoves
      <4>2. /\ <<"judge", c>> \notin HeldPlan(Of(f)) /\ <<"write", c>> \notin HeldPlan(Of(f))
            /\ <<"relay", c>> \notin HeldPlan(Of(f)) /\ <<"pass", c>> \notin HeldPlan(Of(f))
        BY DEF HeldPlan
      <4> QED
        BY <4>1, <4>2
    <3> QED
      BY <3>1, <3>2, <3>3
  <2>6. ToJudge'
    BY <2>1, <2>3, <2>5 DEF ToJudge
  <2>7. ASSUME NEW c \in Call, c \notin Of(f), Cleared(c) PROVE Cleared(c)'
    BY <2>1, <2>7 DEF Cleared
  <2>8. ASSUME NEW c \in Call, calls[c].frame = f, c > session.before, reply[c] \in {"asked", "relayed", "unread"}
        PROVE  Cleared(c)'
    <3>1. c \notin Of(f)
      BY <2>2, <2>8 DEF ToJudge
    <3> QED
      BY <2>7, <2>8, <3>1 DEF OnItsWay
  <2>9. ASSUME NEW c \in Call, calls[c].frame # f, Cleared(c) PROVE Cleared(c)'
    BY <2>1, <2>3, <2>9 DEF Cleared
  <2>10. OnItsWay'
    BY <2>1, <2>3, <2>5, <2>8, <2>9 DEF OnItsWay, Out
  <2> QED
    BY <2>6, <2>10
<1>3. ASSUME NEW f \in DOMAIN script, Puts(f)
      PROVE  ToJudge' /\ OnItsWay'
  <2>1. PICK o \in PutOps : Put(f, o)
    BY <1>3, PutsIs
  <2>2. /\ Shrinks /\ UNCHANGED <<verdict, phase, session>>
        /\ \A c \in Of(f) : c \in Call /\ Due(o, c)
        /\ \A c \in Call : reply'[c] = IF c \in Of(f) THEN PutWord(o) ELSE reply[c]
    BY <1>0, <2>1, PutMoves, PutSays
  <2>3. o # "judge" /\ (PutWord(o) \in {"asked", "relayed", "unread"} => o \in {"write", "relay", "pass"})
    BY DEF PutOps, PutWord
  <2>4. ToJudge'
    BY <2>2, <2>3 DEF Shrinks, ToJudge
  <2>5. \A c \in Call : Cleared(c) => Cleared(c)'
    BY <2>2, StaysCleared DEF Shrinks
  <2>6. ASSUME NEW c \in Call,
               Out(c)' \/ (c > session.before /\ reply'[c] \in {"asked", "relayed", "unread"})
        PROVE  Out(c) \/ (c > session.before /\ reply[c] \in {"asked", "relayed", "unread"})
    BY <2>2, <2>3, <2>6 DEF Shrinks, Out
  <2>7. OnItsWay'
    BY <2>2, <2>5, <2>6 DEF Shrinks, OnItsWay
  <2> QED
    BY <2>4, <2>7
<1>4. ASSUME NEW f \in DOMAIN script, NEW a \in SUBSET CallsOf(f), NEW read \in SUBSET a,
             NEW left \in BOOLEAN,
             Respond(f, a, read, left)
      PROVE  ToJudge' /\ OnItsWay'
  <2>1. /\ UNCHANGED <<transport, calls, session, verdict, reply, phase>> /\ Call' = Call
        /\ a \subseteq Of(f) /\ \A c \in a : reply[c] = "asked"
    BY <1>4 DEF Respond, Call, setup
  <2>2. Responded(f, a, read, left)
    BY <1>0, <1>4, RespondMoves
  <2>3. WatchOps = {}
    BY DEF WatchOps
  <2>4. ASSUME NEW c \in Call, calls[c].frame = f
        PROVE  ~Due("judge", c)' /\ ~Due("write", c)' /\ (Due("relay", c)' \/ Due("pass", c)' => c \in a)
    <3>1. /\ <<"judge", c>> \notin AnsweredPlan(Of(f), a, read, left)
          /\ <<"write", c>> \notin AnsweredPlan(Of(f), a, read, left)
          /\ <<"relay", c>> \in AnsweredPlan(Of(f), a, read, left) => c \in a
          /\ <<"pass", c>> \in AnsweredPlan(Of(f), a, read, left) => c \in a
      BY <2>3 DEF AnsweredPlan
    <3> QED
      BY <2>2, <2>4, <3>1 DEF Responded
  <2>5. \A c \in Call : calls[c].frame # f => \A p : Due(p, c)' <=> Due(p, c)
    BY <2>2 DEF Responded
  <2>6. ToJudge'
    BY <2>1, <2>4, <2>5 DEF ToJudge
  <2>7. \A c \in Call : Cleared(c) => Cleared(c)'
    BY <2>1 DEF Cleared
  <2>8. ASSUME NEW c \in a PROVE c \in Call /\ Cleared(c)
    <3>1. c \in Call /\ Due("answer", c)
      <4>1. AtHead(f, "answer")
        BY <1>4 DEF Respond
      <4> QED
        BY <1>0, <2>1, <4>1, HeadOf
    <3>2. c > session.before
      <4>1. Call \subseteq Nat /\ session.before \in Nat
        BY <1>0, CallIs DEF Framed, FramesTyped, SessionTyped
      <4> QED
        BY <1>0, <3>1, <4>1 DEF Begun, Past
    <3> QED
      BY <2>1, <3>1, <3>2 DEF OnItsWay
  <2>9. OnItsWay'
    BY <2>1, <2>4, <2>5, <2>7, <2>8 DEF OnItsWay, Out
  <2> QED
    BY <2>6, <2>9
<1>5. ASSUME NEW c \in Call, NEW read \in BOOLEAN, DownRelay(c, read)
      PROVE  ToJudge' /\ OnItsWay'
  <2>1. /\ UNCHANGED <<transport, mode, calls, script, session, verdict, phase>> /\ Call' = Call
        /\ reply' = [reply EXCEPT ![c] = IF read THEN "relayed" ELSE "unread"] /\ reply[c] = "asked"
    BY <1>5 DEF DownRelay, setup, Call
  <2>2. \A p : \A d \in Call : Due(p, d)' <=> Due(p, d)
    BY <1>0, <2>1, NothingMoves
  <2>3. \A d \in Call : /\ d # c => reply'[d] = reply[d]
                        /\ d = c => reply'[d] \in {"relayed", "unread"}
    <3>1. reply \in [Call -> Replies]
      BY <1>0, CallIs DEF Typed, SaidTyped, Framed
    <3> QED
      BY <2>1, <3>1
  <2>4. \A d \in Call : Cleared(d) => Cleared(d)'
    BY <2>1 DEF Cleared
  <2> QED
    BY <2>1, <2>2, <2>3, <2>4 DEF ToJudge, OnItsWay, Out
<1>6. ASSUME Restart
      PROVE  ToJudge' /\ OnItsWay'
  <2>1. Shrinks /\ \A p : \A c \in Call : ~Due(p, c)'
    BY <1>0, <1>6, RestartMoves
  <2>2. session'.before = Len(calls) /\ Call' = Call /\ Call = 1..Len(calls) /\ Len(calls) \in Nat
    BY <1>0, <1>6, <2>1, CallIs DEF Restart, Shrinks, Framed, FramesTyped
  <2>3. \A c \in Call' : ~(c > session'.before)
    BY <2>2
  <2> QED
    BY <2>1, <2>2, <2>3 DEF ToJudge, OnItsWay, Out
<1>7. ASSUME Rest
      PROVE  ToJudge' /\ OnItsWay'
  <2>1. Elsewhere
    BY <1>0, <1>7, ElsewhereMoves
  <2>2. \A c \in Call : Cleared(c) => Cleared(c)'
    BY <2>1, StaysCleared DEF Elsewhere, Shrinks
  <2>3. session'.before = session.before
    BY <2>1 DEF Elsewhere
  <2> QED
    BY <2>1, <2>2, <2>3 DEF Elsewhere, Shrinks, ToJudge, OnItsWay, Out
<1>8. ASSUME UNCHANGED vars
      PROVE  ToJudge' /\ OnItsWay'
  <2>1. UNCHANGED <<transport, mode, calls, script, session, verdict, reply, phase>> /\ Call' = Call
    BY <1>8 DEF vars, Call
  <2>2. \A p : \A d \in Call : Due(p, d)' <=> Due(p, d)
    BY <1>0, <2>1, NothingMoves
  <2> QED
    BY <2>1, <2>2 DEF ToJudge, OnItsWay, Cleared, Out
<1> QED
  BY <1>1, <1>2, <1>3, <1>4, <1>5, <1>6, <1>7, <1>8, NextIs

\* Under enforce nothing reaches the server that was not found inside the mandate, as long as
\* the listener judges, and nothing that was found outside it afterwards: MandateGate.detail
\* and the handlers' order of judging, writing and answering.
THEOREM EnforceHolds == Spec => []EnforceHoldsBackToTheEnd
<1>1. Gated => EnforceHoldsBackToTheEnd
  BY DEF Gated, EnforceHoldsBackToTheEnd, Forwarded, OnItsWay, Cleared
<1> QED
  BY <1>1, InitGated, GatedStep, PTL DEF Spec

(***************************************************************************)
(* The tape and the open calls.                                            *)
(***************************************************************************)
Words == {"open", "invalid_id", "answered", "refused", "unanswered"}
Ends == [by : Nat, word : Words]
Tapes == [call : Seq(Nat), end : Seq(Ends), done : Nat, file : Seq(Nat)]
\* What was committed has ended, and what is in the file was committed, in order.
Whole(t) ==
  /\ t \in Tapes /\ Len(t.end) = Len(t.call) /\ t.done <= Len(t.end)
  /\ \A k \in 1..t.done : t.end[k] # Open
  /\ \A i \in 1..Len(t.file) : t.file[i] \in 1..t.done
  /\ \A i, j \in 1..Len(t.file) : i < j => t.file[i] < t.file[j]

LEMMA LastAndFirst ==
  ASSUME NEW S \in SUBSET Nat, IsFiniteSet(S), S # {}
  PROVE  /\ Max(S) \in S /\ \A y \in S : y <= Max(S)
         /\ Min(S) \in S /\ \A y \in S : Min(S) <= y
<1> PICK l : l = InOrder(S)
  OBVIOUS
<1>1. PICK n \in Nat : l \in [1..n -> S]
  BY InOrderLists DEF Listed
<1>2. /\ \A x \in S : \E i \in 1..n : l[i] = x
      /\ \A i, j \in 1..n : i < j => l[i] < l[j]
  BY <1>1, InOrderLists DEF Listed
<1>3. n > 0 /\ 1 \in 1..n /\ n \in 1..n
  <2>1. PICK x \in S : TRUE
    OBVIOUS
  <2>2. PICK i \in 1..n : l[i] = x
    BY <1>2, <2>1
  <2> QED
    BY <2>2
<1>4. ASSUME NEW y \in S PROVE l[1] <= y /\ y <= l[n]
  <2>1. PICK i \in 1..n : l[i] = y
    BY <1>2
  <2>2. l[1] \in Nat /\ l[n] \in Nat /\ l[i] \in Nat
    BY <1>1, <1>3
  <2>3. (i = 1 \/ l[1] < l[i]) /\ (i = n \/ l[i] < l[n])
    BY <1>2, <1>3
  <2> QED
    BY <2>1, <2>2, <2>3
<1>5. l[n] \in S /\ l[1] \in S
  BY <1>1, <1>3
<1>6. (\E x \in S : \A y \in S : x >= y) /\ (\E x \in S : \A y \in S : x =< y)
  BY <1>4, <1>5
<1>7. Max(S) \in S /\ \A y \in S : Max(S) >= y
  BY <1>6 DEF Max
<1>8. Min(S) \in S /\ \A y \in S : Min(S) =< y
  BY <1>6 DEF Min
<1> QED
  BY <1>7, <1>8

Together(T, u, s, t) ==
  /\ u \in Seq(T) /\ Len(u) = Len(s) + Len(t) /\ Len(s) \in Nat /\ Len(t) \in Nat
  /\ \A k \in 1..Len(s) : u[k] = s[k]
  /\ \A k \in 1..Len(t) : u[Len(s) + k] = t[k]

LEMMA PutTogether ==
  ASSUME NEW T, NEW s \in Seq(T), NEW t \in Seq(T)
  PROVE  Together(T, s \o t, s, t)
BY DEF Together

\* Numbers that go up, and the next r after them.
LEMMA GoesUp ==
  ASSUME NEW f \in Seq(Nat), NEW d \in Nat, NEW r \in Nat,
         \A i \in 1..Len(f) : f[i] \in 1..d,
         \A i, j \in 1..Len(f) : i < j => f[i] < f[j],
         NEW g, g = f \o [i \in 1..r |-> d + i]
  PROVE  /\ g \in Seq(Nat) /\ \A i \in 1..Len(g) : g[i] \in 1..d + r
         /\ \A i, j \in 1..Len(g) : i < j => g[i] < g[j]
<1> PICK w : w = [i \in 1..r |-> d + i]
  OBVIOUS
<1>1. w \in Seq(Nat) /\ Len(w) = r /\ \A i \in 1..r : w[i] = d + i
  OBVIOUS
<1>2. g = f \o w
  OBVIOUS
<1> PICK q : q = Len(f)
  OBVIOUS
<1>3. /\ g \in Seq(Nat) /\ q \in Nat /\ Len(g) = q + r
      /\ \A k \in 1..q : g[k] = f[k]
      /\ \A k \in 1..r : g[q + k] = w[k]
  BY <1>1, <1>2, PutTogether DEF Together
<1>4. ASSUME NEW i \in 1..q + r, i \notin 1..q PROVE \E k \in 1..r : i = q + k /\ g[i] = d + k
  <2>1. PICK k \in 1..r : i = q + k
    BY <1>3, <1>4, TwoParts, ZenonT(40)
  <2> QED
    BY <1>1, <1>3, <2>1
<1>5. ASSUME NEW i \in 1..q + r PROVE g[i] \in 1..d + r
  <2>1. CASE i \in 1..q
    BY <1>3, <2>1
  <2>2. CASE i \notin 1..q
    BY <1>4, <2>2
  <2> QED
    BY <2>1, <2>2
<1>6. ASSUME NEW i \in 1..q + r, NEW j \in 1..q + r, i < j PROVE g[i] < g[j]
  <2>1. CASE j \in 1..q
    <3>1. i \in 1..q
      BY <1>3, <1>6, <2>1
    <3> QED
      BY <1>3, <1>6, <2>1, <3>1
  <2>2. CASE j \notin 1..q
    <3>1. PICK k \in 1..r : j = q + k /\ g[j] = d + k
      BY <1>4, <2>2
    <3>2. CASE i \in 1..q
      <4>1. g[i] \in 1..d
        BY <1>3, <3>2
      <4> QED
        BY <3>1, <4>1
    <3>3. CASE i \notin 1..q
      <4>1. PICK l \in 1..r : i = q + l /\ g[i] = d + l
        BY <1>4, <3>3
      <4> QED
        BY <1>3, <1>6, <3>1, <4>1
    <3> QED
      BY <3>2, <3>3
  <2> QED
    BY <2>1, <2>2
<1> QED
  BY <1>3, <1>5, <1>6

OneOut(T, u, s, i) ==
  /\ u \in Seq(T) /\ Len(u) = Len(s) - 1
  /\ \A k \in 1..Len(u) : u[k] = IF k < i THEN s[k] ELSE s[k + 1]

LEMMA Removed ==
  ASSUME NEW T, NEW s \in Seq(T), NEW i \in 1..Len(s)
  PROVE  OneOut(T, RemoveAt(s, i), s, i)
<1> PICK u : u = RemoveAt(s, i)
  OBVIOUS
<1> PICK n \in Nat : n = Len(s)
  OBVIOUS
<1> PICK a, b : a = SubSeq(s, 1, i - 1) /\ b = SubSeq(s, i + 1, Len(s))
  OBVIOUS
<1>1. a \in Seq(T) /\ Len(a) = i - 1 /\ \A k \in 1..i - 1 : a[k] = s[k]
  OBVIOUS
<1>2. b \in Seq(T) /\ Len(b) = n - i /\ \A k \in 1..n - i : b[k] = s[i + k]
  OBVIOUS
<1>3. u = a \o b
  BY DEF RemoveAt
<1>4. /\ u \in Seq(T) /\ Len(u) = (i - 1) + (n - i)
      /\ \A k \in 1..i - 1 : u[k] = a[k]
      /\ \A k \in i..n - 1 : u[k] = b[k - (i - 1)]
  <2>1. /\ u \in Seq(T) /\ Len(u) = Len(a) + Len(b)
        /\ \A k \in 1..Len(a) : u[k] = a[k]
        /\ \A k \in 1..Len(b) : u[Len(a) + k] = b[k]
    <3>1. a \in Seq(T) /\ b \in Seq(T)
      BY <1>1, <1>2
    <3>2. Together(T, a \o b, a, b)
      BY <3>1, PutTogether, Zenon
    <3> QED
      BY <1>3, <3>2, Zenon DEF Together
  <2>2. ASSUME NEW k \in i..n - 1 PROVE u[k] = b[k - (i - 1)]
    <3>1. k - (i - 1) \in 1..n - i /\ (i - 1) + (k - (i - 1)) = k
      OBVIOUS
    <3>2. (i - 1) + (k - (i - 1)) = k /\ k - (i - 1) \in 1..Len(b) /\ Len(a) = i - 1
      BY <1>1, <1>2, <3>1
    <3> QED
      BY <2>1, <3>2, ZenonT(40)
  <2> QED
    BY <1>1, <1>2, <2>1, <2>2
<1>5. ASSUME NEW k \in 1..n - 1
      PROVE  u[k] = IF k < i THEN s[k] ELSE s[k + 1]
  <2>1. CASE k < i
    <3>1. k \in 1..i - 1
      BY <2>1
    <3>2. u[k] = a[k] /\ a[k] = s[k]
      BY <1>1, <1>4, <3>1, Zenon
    <3> QED
      BY <2>1, <3>2, Zenon
  <2>2. CASE ~(k < i)
    <3>1. k \in i..n - 1 /\ k - (i - 1) \in 1..n - i /\ i + (k - (i - 1)) = k + 1
      BY <2>2
    <3>2. u[k] = b[k - (i - 1)] /\ b[k - (i - 1)] = s[i + (k - (i - 1))]
      BY <1>2, <1>4, <3>1, Zenon
    <3> QED
      BY <2>2, <3>1, <3>2
  <2> QED
    BY <2>1, <2>2
<1> QED
  BY <1>4, <1>5 DEF OneOut

\* How far the rows have ended without a gap.
EndOf(d, m, e) == Max({d} \cup {k \in d + 1 .. m : \A j \in d + 1 .. k : e[j] # Open})

AsFar(last, d, m, e) ==
  /\ last \in Nat /\ last <= m /\ last >= d /\ \A k \in 1..last : e[k] # Open
  /\ last - d \in Nat /\ d + (last - d) = last

LEMMA Reached ==
  ASSUME NEW d \in Nat, NEW m \in Nat, d <= m, NEW e, \A k \in 1..d : e[k] # Open
  PROVE  AsFar(EndOf(d, m, e), d, m, e)
<1> PICK last : last = EndOf(d, m, e)
  OBVIOUS
<1> PICK S : S = {d} \cup {k \in d + 1 .. m : \A j \in d + 1 .. k : e[j] # Open}
  OBVIOUS
<1>2. S \in SUBSET Nat /\ IsFiniteSet(S) /\ S # {} /\ S \subseteq d..m
  <2>1. S \subseteq d..m /\ d \in S
    OBVIOUS
  <2>2. IsFiniteSet(d..m)
    <3>1. d \in Int /\ m \in Int
      OBVIOUS
    <3> QED
      BY <3>1, FS_Interval, Zenon
  <2>3. IsFiniteSet(S)
    BY <2>1, <2>2, FS_Subset
  <2>4. S \in SUBSET Nat
    BY <2>1
  <2> QED
    BY <2>1, <2>3, <2>4
<1>3. last \in S /\ last \in d..m
  BY <1>2, LastAndFirst DEF EndOf
<1>4. \A k \in d + 1 .. last : e[k] # Open
  BY <1>3
<1>5. \A k \in 1..last : e[k] # Open
  BY <1>3, <1>4
<1> QED
  BY <1>3, <1>5 DEF AsFar

LEMMA WholeDrained ==
  ASSUME NEW t, Whole(t), NEW luck, NEW u, u = Drained(t, luck)
  PROVE  Whole(u) /\ u.call = t.call /\ u.end = t.end /\ u.done >= t.done
<1>0. PICK d, m, e, f : d = t.done /\ m = Len(t.end) /\ e = t.end /\ f = t.file
  OBVIOUS
<1>1. /\ d \in Nat /\ m \in Nat /\ d <= m /\ e \in Seq(Ends) /\ Len(t.call) = m /\ Len(e) = m
      /\ f \in Seq(Nat) /\ t \in Tapes
      /\ \A k \in 1..d : e[k] # Open
      /\ \A i \in 1..Len(f) : f[i] \in 1..d
      /\ \A i, j \in 1..Len(f) : i < j => f[i] < f[j]
  BY <1>0 DEF Whole, Tapes
<1>2. PICK last : last = EndOf(d, m, e)
                  /\ u = [t EXCEPT !.done = last,
                                    !.file = IF luck = "no tape" THEN f
                                             ELSE f \o [i \in 1 .. last - d |-> d + i]]
  BY <1>0 DEF Drained, EndOf
<1>3. /\ last \in Nat /\ last <= m /\ last >= d /\ \A k \in 1..last : e[k] # Open
      /\ last - d \in Nat /\ d + (last - d) = last
  <2>1. d \in Nat /\ m \in Nat /\ d <= m /\ (\A k \in 1..d : e[k] # Open) /\ last = EndOf(d, m, e)
    BY <1>1, <1>2
  <2> QED
    BY <2>1, Reached DEF AsFar
<1>4. PICK g : g = IF luck = "no tape" THEN f ELSE f \o [i \in 1 .. last - d |-> d + i]
  OBVIOUS
<1>5. u = [t EXCEPT !.done = last, !.file = g]
  BY <1>2, <1>4
<1>6. /\ g \in Seq(Nat) /\ \A i \in 1..Len(g) : g[i] \in 1..last
      /\ \A i, j \in 1..Len(g) : i < j => g[i] < g[j]
  <2>1. CASE luck = "no tape"
    <3>1. \A i \in 1..Len(f) : f[i] \in 1..last
      BY <1>1, <1>3
    <3> QED
      BY <1>1, <1>4, <2>1, <3>1
  <2>2. CASE luck # "no tape"
    <3>1. PICK r : r = last - d
      OBVIOUS
    <3>2. r \in Nat /\ d + r = last /\ g = f \o [i \in 1..r |-> d + i]
      BY <1>3, <1>4, <2>2, <3>1
    <3>3. /\ g \in Seq(Nat) /\ \A i \in 1..Len(g) : g[i] \in 1..d + r
          /\ \A i, j \in 1..Len(g) : i < j => g[i] < g[j]
      BY <1>1, <3>2, GoesUp
    <3> QED
      BY <3>2, <3>3
  <2> QED
    BY <2>1, <2>2
<1>8. u \in Tapes /\ u.done = last /\ u.file = g /\ u.call = t.call /\ u.end = e
  BY <1>0, <1>1, <1>3, <1>5, <1>6 DEF Tapes
<1> QED
  BY <1>0, <1>1, <1>3, <1>6, <1>8 DEF Whole

LEMMA EndsAre ==
  /\ \A w \in Words : None(w) \in Ends /\ None(w).by = 0 /\ (w # "open" => None(w) # Open)
  /\ Open \in Ends /\ Open.by = 0
BY DEF None, Ends, Words, Open

LEMMA WholeOpened ==
  ASSUME NEW t, Whole(t), NEW c \in Nat, NEW e \in Ends, NEW luck, NEW u, u = TapeOpen(t, c, e, luck)
  PROVE  Whole(u) /\ u.call = Append(t.call, c) /\ u.end = Append(t.end, e)
<1>1. PICK q : q = [t EXCEPT !.call = Append(@, c), !.end = Append(@, e)]
  OBVIOUS
<1>2. /\ t \in Tapes /\ Len(t.end) = Len(t.call) /\ t.done <= Len(t.end) /\ t.done \in Nat
      /\ t.call \in Seq(Nat) /\ t.end \in Seq(Ends)
  BY DEF Whole, Tapes
<1>3. /\ q \in Tapes /\ q.call = Append(t.call, c) /\ q.end = Append(t.end, e)
      /\ q.done = t.done /\ q.file = t.file
  <2>1. PICK a, b : a = Append(t.call, c) /\ b = Append(t.end, e)
    OBVIOUS
  <2>2. a \in Seq(Nat) /\ b \in Seq(Ends)
    BY <1>2, <2>1
  <2>3. q = [t EXCEPT !.call = a, !.end = b]
    BY <1>1, <2>1
  <2>4. /\ q \in Tapes /\ q.call = a /\ q.end = b /\ q.done = t.done /\ q.file = t.file
    BY <1>2, <2>2, <2>3 DEF Tapes
  <2> QED
    BY <2>1, <2>4
<1>4. /\ Len(q.call) = Len(t.call) + 1 /\ Len(q.end) = Len(t.end) + 1 /\ Len(t.end) \in Nat
      /\ \A k \in 1..Len(t.end) : q.end[k] = t.end[k]
  BY <1>2, <1>3
<1>5. Whole(q)
  <2>1. \A k \in 1..t.done : t.end[k] # Open /\ k \in 1..Len(t.end)
    BY <1>2, <1>4 DEF Whole
  <2>2. q.done <= Len(q.end) /\ Len(q.end) = Len(q.call)
    BY <1>2, <1>3, <1>4
  <2>3. \A k \in 1..q.done : q.end[k] # Open
    BY <1>3, <1>4, <2>1
  <2>4. /\ \A i \in 1..Len(q.file) : q.file[i] \in 1..q.done
        /\ \A i, j \in 1..Len(q.file) : i < j => q.file[i] < q.file[j]
    BY <1>3, Zenon DEF Whole
  <2> QED
    BY <1>3, <2>2, <2>3, <2>4 DEF Whole
<1>6. u = Drained(q, luck)
  BY <1>1 DEF TapeOpen
<1> QED
  BY <1>3, <1>5, <1>6, WholeDrained

\* The ends of some rows that were open are filled in.
LEMMA WholeEnded ==
  ASSUME NEW t, Whole(t), NEW x, x \in Seq(Ends), Len(x) = Len(t.end),
         \A k \in 1..Len(t.end) : x[k] = t.end[k] \/ (t.end[k] = Open /\ x[k] # Open),
         NEW luck, NEW u, u = Drained([t EXCEPT !.end = x], luck)
  PROVE  Whole(u) /\ u.call = t.call /\ u.end = x
<1>1. PICK q : q = [t EXCEPT !.end = x]
  OBVIOUS
<1>2. t \in Tapes /\ Len(t.end) = Len(t.call) /\ t.done <= Len(t.end) /\ t.done \in Nat /\ Len(t.end) \in Nat
  BY DEF Whole, Tapes
<1>3. q \in Tapes /\ q.call = t.call /\ q.end = x /\ q.done = t.done /\ q.file = t.file
  BY <1>1, <1>2 DEF Tapes
<1>5. Whole(q)
  <2>1. \A k \in 1..t.done : t.end[k] # Open /\ k \in 1..Len(t.end)
    BY <1>2 DEF Whole
  <2>3. \A k \in 1..q.done : q.end[k] # Open
    BY <1>3, <2>1
  <2>4. /\ \A i \in 1..Len(q.file) : q.file[i] \in 1..q.done
        /\ \A i, j \in 1..Len(q.file) : i < j => q.file[i] < q.file[j]
    BY <1>3, Zenon DEF Whole
  <2> QED
    BY <1>2, <1>3, <2>3, <2>4 DEF Whole
<1>6. u = Drained(q, luck)
  BY <1>1
<1> QED
  BY <1>3, <1>5, <1>6, WholeDrained

LEMMA WholeClosed ==
  ASSUME NEW t, Whole(t), NEW c, NEW e \in Ends, e # Open, NEW luck, NEW u, u = TapeClose(t, c, e, luck)
  PROVE  /\ Whole(u) /\ u.call = t.call /\ Len(u.end) = Len(t.end)
         /\ \A k \in 1..Len(t.end) :
              u.end[k] = IF t.call[k] = c /\ t.end[k] = Open THEN e ELSE t.end[k]
<1>1. PICK x : x = [k \in DOMAIN t.end |-> IF t.call[k] = c /\ t.end[k] = Open THEN e ELSE t.end[k]]
  OBVIOUS
<1>2. t \in Tapes /\ t.end \in Seq(Ends) /\ DOMAIN t.end = 1..Len(t.end) /\ Len(t.end) \in Nat
  BY DEF Whole, Tapes
<1>3. x \in Seq(Ends) /\ Len(x) = Len(t.end)
  BY <1>1, <1>2
<1>4. \A k \in 1..Len(t.end) : x[k] = IF t.call[k] = c /\ t.end[k] = Open THEN e ELSE t.end[k]
  BY <1>1, <1>2
<1>5. u = Drained([t EXCEPT !.end = x], luck)
  BY <1>1, <1>2 DEF TapeClose, Tapes
<1>6. Whole(u) /\ u.call = t.call /\ u.end = x
  BY <1>3, <1>4, <1>5, WholeEnded
<1> QED
  BY <1>3, <1>4, <1>6

LEMMA WholeFlushed ==
  ASSUME NEW t, Whole(t), NEW luck, NEW u, u = TapeFlush(t, luck)
  PROVE  /\ Whole(u) /\ u.call = t.call /\ Len(u.end) = Len(t.end)
         /\ \A k \in 1..Len(t.end) : u.end[k] = IF t.end[k] = Open THEN None("unanswered") ELSE t.end[k]
<1>1. PICK x : x = [k \in DOMAIN t.end |-> IF t.end[k] = Open THEN None("unanswered") ELSE t.end[k]]
  OBVIOUS
<1>2. t \in Tapes /\ t.end \in Seq(Ends) /\ DOMAIN t.end = 1..Len(t.end) /\ Len(t.end) \in Nat
  BY DEF Whole, Tapes
<1>2a. None("unanswered") \in Ends /\ None("unanswered") # Open
  BY EndsAre DEF Words
<1>3. x \in Seq(Ends) /\ Len(x) = Len(t.end)
  BY <1>1, <1>2, <1>2a
<1>4. \A k \in 1..Len(t.end) : x[k] = IF t.end[k] = Open THEN None("unanswered") ELSE t.end[k]
  BY <1>1, <1>2
<1>5. u = Drained([t EXCEPT !.end = x], luck)
  BY <1>1, <1>2 DEF TapeFlush, Tapes
<1>6. Whole(u) /\ u.call = t.call /\ u.end = x
  BY <1>2a, <1>3, <1>4, <1>5, WholeEnded
<1> QED
  BY <1>3, <1>4, <1>6

\* A recorder that goes on behind the last row of the file.
LastOf(t) == IF t.file = <<>> THEN 0 ELSE Last(t.file)
Cut(t, last) == [call |-> SubSeq(t.call, 1, last), end |-> SubSeq(t.end, 1, last),
                 done |-> last, file |-> t.file]
LEMMA WholeResumed ==
  ASSUME NEW t, Whole(t), NEW last, last = LastOf(t), NEW u, u = Cut(t, last)
  PROVE  /\ Whole(u) /\ last \in 0..Len(t.end) /\ Len(u.end) = last /\ Len(u.call) = last
         /\ \A k \in 1..last : u.call[k] = t.call[k] /\ u.end[k] = t.end[k] /\ t.end[k] # Open
<1>1. PICK n \in Nat, m \in Nat, d \in Nat, f \in Seq(Nat) :
        n = Len(t.file) /\ m = Len(t.end) /\ d = t.done /\ f = t.file
  BY DEF Whole, Tapes
<1>2. /\ d <= m /\ Len(t.call) = m /\ t.call \in Seq(Nat) /\ t.end \in Seq(Ends)
      /\ \A k \in 1..d : t.end[k] # Open
      /\ \A i \in 1..n : f[i] \in 1..d
      /\ \A i, j \in 1..n : i < j => f[i] < f[j]
  BY <1>1 DEF Whole, Tapes
<1>3. last \in 0..d /\ \A i \in 1..n : f[i] \in 1..last
  <2>1. CASE f = <<>>
    BY <1>1, <2>1 DEF LastOf
  <2>2. CASE f # <<>>
    <3>1. n > 0 /\ n \in 1..n /\ last = f[n]
      BY <1>1, <2>2 DEF LastOf, Last
    <3>2. ASSUME NEW i \in 1..n PROVE f[i] \in 1..last
      <4>1. f[i] \in Nat /\ f[i] \in 1..d /\ f[n] \in Nat
        BY <1>2, <3>1, SMTT(30)
      <4>2. i = n \/ f[i] < f[n]
        BY <1>2, <3>1
      <4> QED
        BY <3>1, <4>1, <4>2
    <3>3. last \in 0..d
      BY <1>2, <3>1
    <3> QED
      BY <3>2, <3>3
  <2> QED
    BY <2>1, <2>2
<1>4. last \in Nat /\ last <= m /\ last <= d
  BY <1>2, <1>3
<1>5. PICK a, e : a = SubSeq(t.call, 1, last) /\ e = SubSeq(t.end, 1, last)
  OBVIOUS
<1>6. a \in Seq(Nat) /\ Len(a) = last /\ \A k \in 1..last : a[k] = t.call[k]
  BY <1>2, <1>4, <1>5, SMTT(30)
<1>7. e \in Seq(Ends) /\ Len(e) = last /\ \A k \in 1..last : e[k] = t.end[k]
  BY <1>1, <1>2, <1>4, <1>5
<1>8. \A k \in 1..last : t.end[k] # Open
  BY <1>2, <1>4
<1>9. u.call = a /\ u.end = e /\ u.done = last /\ u.file = f /\ u \in Tapes
  BY <1>1, <1>4, <1>5, <1>6, <1>7 DEF Tapes, Cut
<1>10. Whole(u)
  <2>1. Len(u.end) = Len(u.call) /\ u.done <= Len(u.end)
    BY <1>4, <1>6, <1>7, <1>9
  <2>2. \A k \in 1..u.done : u.end[k] # Open
    BY <1>7, <1>8, <1>9
  <2>3. /\ \A i \in 1..Len(u.file) : u.file[i] \in 1..u.done
        /\ \A i, j \in 1..Len(u.file) : i < j => u.file[i] < u.file[j]
    BY <1>1, <1>2, <1>3, <1>9
  <2> QED
    BY <1>9, <2>1, <2>2, <2>3 DEF Whole
<1> QED
  BY <1>1, <1>4, <1>6, <1>7, <1>8, <1>9, <1>10

(***************************************************************************)
(* What the steps do to the tape and to the open calls.                    *)
(***************************************************************************)
Shut(i, e, luck) ==
  /\ i \in 1..Len(pending) /\ ~Deaf /\ pending' = RemoveAt(pending, i)
  /\ tape' = TapeClose(tape, pending[i], e, luck)
  /\ IF transport = "call" THEN UNCHANGED log ELSE Logged(<<Row("tool_call", pending[i], e)>>, luck)
AsBefore == UNCHANGED <<pending, tape, rows, unlogged>>

LEMMA ObserveDoes ==
  ASSUME pending \in Seq(Nat), NEW c, NEW luck, Observe(c, luck)
  PROVE  \/ AsBefore /\ (Deaf \/ \A i \in 1..Len(pending) : calls[pending[i]].id # calls[c].id)
         \/ \E i \in 1..Len(pending) : calls[pending[i]].id = calls[c].id /\ Shut(i, By(c), luck)
<1>1. PICK same : same = {i \in DOMAIN pending : calls[pending[i]].id = calls[c].id}
  OBVIOUS
<1>2. DOMAIN pending = 1..Len(pending) /\ Len(pending) \in Nat
  OBVIOUS
<1>3. CASE Deaf \/ same = {}
  <2>1. AsBefore
    BY <1>1, <1>3 DEF Observe, AsBefore, log
  <2>2. Deaf \/ \A i \in 1..Len(pending) : calls[pending[i]].id # calls[c].id
    BY <1>1, <1>2, <1>3
  <2> QED
    BY <2>1, <2>2
<1>4. CASE ~(Deaf \/ same = {})
  <2>1. same \in SUBSET Nat /\ IsFiniteSet(same)
    <3>1. IsFiniteSet(1..Len(pending))
      <4>1. 1 \in Int /\ Len(pending) \in Int
        BY <1>2
      <4> QED
        BY <4>1, FS_Interval, Zenon
    <3>2. same \subseteq 1..Len(pending)
      BY <1>1, <1>2
    <3> QED
      <4>1. IsFiniteSet(same)
        BY <3>1, <3>2, FS_Subset
      <4>2. same \in SUBSET Nat
        BY <1>2, <3>2
      <4> QED
        BY <4>1, <4>2
  <2>2. Min(same) \in same
    BY <1>4, <2>1, LastAndFirst
  <2>3. PICK i : i = Min(same)
    OBVIOUS
  <2>4. i \in 1..Len(pending) /\ calls[pending[i]].id = calls[c].id
    BY <1>1, <1>2, <2>2, <2>3
  <2>5. Shut(i, By(c), luck)
    BY <1>1, <1>4, <2>3, <2>4 DEF Observe, Shut, log
  <2> QED
    BY <2>4, <2>5
<1> QED
  BY <1>3, <1>4

LEMMA CloseDoes ==
  ASSUME pending \in Seq(Nat), NEW f, NEW luck, CloseCall(f, luck)
  PROVE  \/ AsBefore /\ (Deaf \/ \A i \in 1..Len(pending) : pending[i] # One(f))
         \/ \E i \in 1..Len(pending) : pending[i] = One(f) /\ Shut(i, None("unanswered"), luck)
<1>1. PICK still : still = {i \in DOMAIN pending : pending[i] = One(f)}
  OBVIOUS
<1>2. DOMAIN pending = 1..Len(pending) /\ Len(pending) \in Nat
  OBVIOUS
<1>3. CASE Deaf \/ still = {}
  <2>1. AsBefore
    BY <1>1, <1>3 DEF CloseCall, AsBefore, log
  <2>2. Deaf \/ \A i \in 1..Len(pending) : pending[i] # One(f)
    BY <1>1, <1>2, <1>3
  <2> QED
    BY <2>1, <2>2
<1>4. CASE ~(Deaf \/ still = {})
  <2>1. still \in SUBSET Nat /\ IsFiniteSet(still)
    <3>1. IsFiniteSet(1..Len(pending))
      <4>1. 1 \in Int /\ Len(pending) \in Int
        BY <1>2
      <4> QED
        BY <4>1, FS_Interval, Zenon
    <3>2. still \subseteq 1..Len(pending)
      BY <1>1, <1>2
    <3> QED
      <4>1. IsFiniteSet(still)
        BY <3>1, <3>2, FS_Subset
      <4>2. still \in SUBSET Nat
        BY <1>2, <3>2
      <4> QED
        BY <4>1, <4>2
  <2>2. Min(still) \in still
    BY <1>4, <2>1, LastAndFirst
  <2>3. PICK i : i = Min(still)
    OBVIOUS
  <2>4. i \in 1..Len(pending) /\ pending[i] = One(f)
    BY <1>1, <1>2, <2>2, <2>3
  <2>5. Shut(i, None("unanswered"), luck)
    BY <1>1, <1>4, <2>3, <2>4 DEF CloseCall, Shut, log
  <2> QED
    BY <2>4, <2>5
<1> QED
  BY <1>3, <1>4

LEMMA OpenDoes ==
  ASSUME NEW f, NEW luck, OpenCall(f, luck)
  PROVE  \/ Deaf /\ AsBefore
         \/ /\ ~Deaf /\ calls[One(f)].id # BadId
            /\ tape' = TapeOpen(tape, One(f), Open, luck)
            /\ pending' = Append(pending, One(f)) /\ UNCHANGED <<rows, unlogged>>
         \/ /\ ~Deaf /\ calls[One(f)].id = BadId
            /\ tape' = TapeOpen(tape, One(f), None("invalid_id"), luck)
            /\ pending' = pending
            /\ IF transport # "call" THEN Logged(<<Row("tool_call", One(f), None("invalid_id"))>>, luck)
                                     ELSE UNCHANGED log
BY DEF OpenCall, AsBefore, log

\* A row of the tape is shut: which one, and what it says now.
LEMMA ShutDoes ==
  ASSUME Whole(tape), pending \in Seq(Nat), NEW i, NEW e \in Ends, e # Open, NEW luck, Shut(i, e, luck)
  PROVE  /\ Whole(tape') /\ tape'.call = tape.call /\ Len(tape'.end) = Len(tape.end)
         /\ \A k \in 1..Len(tape.end) :
              tape'.end[k] = IF tape.call[k] = pending[i] /\ tape.end[k] = Open THEN e ELSE tape.end[k]
         /\ pending' \in Seq(Nat) /\ Len(pending') = Len(pending) - 1 /\ i \in 1..Len(pending)
         /\ \A k \in 1..Len(pending') : pending'[k] = IF k < i THEN pending[k] ELSE pending[k + 1]
<1>1. i \in 1..Len(pending) /\ pending' = RemoveAt(pending, i)
      /\ tape' = TapeClose(tape, pending[i], e, luck)
  BY DEF Shut
<1>2. pending' \in Seq(Nat) /\ Len(pending') = Len(pending) - 1
      /\ \A k \in 1..Len(pending') : pending'[k] = IF k < i THEN pending[k] ELSE pending[k + 1]
  <2>1. OneOut(Nat, RemoveAt(pending, i), pending, i)
    BY <1>1, Removed
  <2>2. OneOut(Nat, pending', pending, i)
    BY <1>1, <2>1
  <2> QED
    BY <2>2 DEF OneOut
<1>3. /\ Whole(tape') /\ tape'.call = tape.call /\ Len(tape'.end) = Len(tape.end)
      /\ \A k \in 1..Len(tape.end) :
           tape'.end[k] = IF tape.call[k] = pending[i] /\ tape.end[k] = Open THEN e ELSE tape.end[k]
  BY <1>1, WholeClosed
<1> QED
  BY <1>1, <1>2, <1>3

\* What is left of the open calls was among them, the shut one was not left if there was one of it.
LEMMA ShutLeaves ==
  ASSUME pending \in Seq(Nat), NEW i \in 1..Len(pending), Len(pending') = Len(pending) - 1,
         \A k \in 1..Len(pending') : pending'[k] = IF k < i THEN pending[k] ELSE pending[k + 1]
  PROVE  /\ \A k \in 1..Len(pending') : \E j \in 1..Len(pending) \ {i} : pending'[k] = pending[j]
         /\ \A j \in 1..Len(pending) \ {i} : \E k \in 1..Len(pending') : pending'[k] = pending[j]
         /\ (\A k, j \in 1..Len(pending) : pending[k] = pending[j] => k = j) =>
              \A k, j \in 1..Len(pending') : pending'[k] = pending'[j] => k = j
<1> PICK n \in Nat : n = Len(pending)
  OBVIOUS
<1>1. ASSUME NEW k \in 1..n - 1
      PROVE  \E j \in 1..n : j # i /\ pending'[k] = pending[j] /\ j = IF k < i THEN k ELSE k + 1
  <2>1. CASE k < i
    BY <2>1
  <2>2. CASE ~(k < i)
    <3>1. k + 1 \in 1..n /\ k + 1 # i
      BY <2>2
    <3> QED
      BY <2>2, <3>1
  <2> QED
    BY <2>1, <2>2
<1>2. ASSUME NEW j \in 1..n, j # i
      PROVE  \E k \in 1..n - 1 : pending'[k] = pending[j]
  <2>1. CASE j < i
    <3>1. j \in 1..n - 1
      BY <2>1
    <3> QED
      BY <2>1, <3>1
  <2>2. CASE ~(j < i)
    <3>1. j - 1 \in 1..n - 1 /\ ~(j - 1 < i) /\ (j - 1) + 1 = j
      BY <1>2, <2>2
    <3>2. pending'[j - 1] = pending[j]
      BY <3>1
    <3> QED
      BY <3>1, <3>2
  <2> QED
    BY <2>1, <2>2
<1>3. ASSUME \A k, j \in 1..n : pending[k] = pending[j] => k = j,
             NEW k \in 1..n - 1, NEW j \in 1..n - 1, pending'[k] = pending'[j]
      PROVE  k = j
  <2>1. PICK x \in 1..n : pending'[k] = pending[x] /\ x = IF k < i THEN k ELSE k + 1
    BY <1>1
  <2>2. PICK y \in 1..n : pending'[j] = pending[y] /\ y = IF j < i THEN j ELSE j + 1
    BY <1>1
  <2>3. x = y
    BY <1>3, <2>1, <2>2
  <2> QED
    BY <2>1, <2>2, <2>3
<1>4. \A k \in 1..n - 1 : \E j \in 1..n \ {i} : pending'[k] = pending[j]
  BY <1>1
<1>5. \A j \in 1..n \ {i} : \E k \in 1..n - 1 : pending'[k] = pending[j]
  BY <1>2
<1> QED
  BY <1>3, <1>4, <1>5

(***************************************************************************)
(* Every call is opened once on the tape.                                  *)
(***************************************************************************)
Taped(c) == \E k \in 1..Len(tape.call) : tape.call[k] = c
Waiting(c) == \E i \in 1..Len(pending) : pending[i] = c
Unopened(c) == Due("open", c) \/ (mode = "enforce" /\ Due("judge", c))

TapeTyped == /\ Whole(tape) /\ \A k \in 1..Len(tape.call) : tape.call[k] \in Call
             /\ \A k \in 1..Len(tape.end) : tape.end[k].by \in {0} \cup Call
DownTyped == down \in {0} \cup Call
PendingTyped == /\ pending \in Seq(Nat)
                /\ \A i \in 1..Len(pending) : pending[i] \in Call /\ pending[i] > session.before
TapedOnce == /\ \A k, j \in 1..Len(tape.call) : tape.call[k] = tape.call[j] => k = j
             /\ \A c \in Call : Unopened(c) => ~Taped(c)
Recorded == Gated /\ TapeTyped /\ DownTyped /\ PendingTyped /\ TapedOnce

LEMMA InitRecorded == ASSUME Init PROVE Recorded
<1>1. /\ pending = <<>> /\ down = 0 /\ tape = [call |-> <<>>, end |-> <<>>, done |-> 0, file |-> <<>>]
      /\ calls = <<>>
  BY DEF Init
<1>2. Call = {}
  BY <1>1 DEF Call
<1>3. tape \in Tapes /\ tape.call = <<>> /\ tape.end = <<>> /\ tape.file = <<>> /\ tape.done = 0
  BY <1>1 DEF Tapes
<1>4. Whole(tape)
  BY <1>3 DEF Whole
<1>5. TapeTyped /\ TapedOnce
  BY <1>2, <1>3, <1>4 DEF TapeTyped, TapedOnce
<1>6. DownTyped /\ PendingTyped
  BY <1>1 DEF DownTyped, PendingTyped
<1> QED
  BY <1>5, <1>6, InitGated DEF Recorded

\* The calls are numbered from 1.
LEMMA CallNumbers ==
  ASSUME Typed
  PROVE  /\ Call = 1..Len(calls) /\ Call \subseteq Nat /\ 0 \notin Call /\ Len(calls) \in Nat
         /\ session.before \in Nat /\ session.before <= Len(calls)
<1>1. Call = 1..Len(calls) /\ Len(calls) \in Nat
  BY CallIs DEF Typed, Framed, FramesTyped
<1>2. session.before \in Nat /\ session.before <= Len(calls)
  BY DEF Typed, SessionTyped
<1> QED
  BY <1>1, <1>2

\* Nothing comes to be opened that was not to be judged or opened.
LEMMA OpenedLater ==
  ASSUME Gated, Next, ~\E n \in Frames : \E kinds \in [1..n -> Kinds] : Send(kinds)
  PROVE  Call' = Call /\ \A c \in Call : Unopened(c)' => Unopened(c)
<1>0. Framed /\ SessionTyped /\ mode' = mode
  BY SetupStays DEF Gated, Begun, Typed
<1>1. ASSUME NEW f \in DOMAIN script, NEW luck \in Lucks, Judge(f, luck)
      PROVE  Call' = Call /\ \A c \in Call : Unopened(c)' => Unopened(c)
  <2>1. Call' = Call
    BY <1>1 DEF Judge, Call
  <2>2. \A c \in Of(f) : Due("judge", c)
    BY <1>0, <1>1, HeadOf DEF Judge
  <2>3. ASSUME NEW c \in Call, Unopened(c)' PROVE Unopened(c)
    <3>1. CASE calls[c].frame # f
      <4>1. \A p : Due(p, c)' <=> Due(p, c)
        BY <1>0, <1>1, <3>1, JudgeMoves
      <4> QED
        BY <1>0, <2>3, <4>1 DEF Unopened
    <3>2. CASE mode # "enforce"
      <4>1. \A p : Due(p, c)' => Due(p, c)
        BY <1>0, <1>1, <3>2, JudgeMoves
      <4> QED
        BY <1>0, <2>3, <3>2, <4>1 DEF Unopened
    <3>3. CASE calls[c].frame = f /\ mode = "enforce"
      <4>1. "judge" \notin PassedOps /\ <<"judge", c>> \notin HeldPlan(Of(f))
            /\ (<<"open", c>> \in HeldPlan(Of(f)) => c \in Of(f))
        BY DEF PassedOps, HeldPlan
      <4>2. Due("judge", c)' => FALSE
        BY <1>0, <1>1, <3>3, <4>1, JudgeMoves
      <4>3. Due("open", c)' => c \in Of(f)
        BY <1>0, <1>1, <3>3, <4>1, JudgeMoves
      <4> QED
        BY <1>0, <2>2, <2>3, <3>3, <4>2, <4>3 DEF Unopened
    <3> QED
      BY <3>1, <3>2, <3>3
  <2> QED
    BY <2>1, <2>3
<1>2. ASSUME Shrinks PROVE Call' = Call /\ \A c \in Call : Unopened(c)' => Unopened(c)
  BY <1>0, <1>2 DEF Shrinks, Unopened
<1>3. ASSUME NEW f \in DOMAIN script, Puts(f)
      PROVE  Call' = Call /\ \A c \in Call : Unopened(c)' => Unopened(c)
  <2>1. PICK o \in PutOps : Put(f, o)
    BY <1>3, PutsIs
  <2> QED
    BY <1>0, <1>2, <2>1, PutMoves
<1>4. ASSUME NEW f \in DOMAIN script, NEW a \in SUBSET CallsOf(f), NEW read \in SUBSET a,
             NEW left \in BOOLEAN,
             Respond(f, a, read, left)
      PROVE  Call' = Call /\ \A c \in Call : Unopened(c)' => Unopened(c)
  <2>1. Responded(f, a, read, left)
    BY <1>0, <1>4, RespondMoves
  <2>2. ASSUME NEW c \in Call, Unopened(c)' PROVE Unopened(c)
    <3>1. CASE calls[c].frame # f
      BY <1>0, <2>1, <2>2, <3>1 DEF Responded, Unopened
    <3>2. CASE calls[c].frame = f
      <4>1. /\ <<"open", c>> \notin AnsweredPlan(Of(f), a, read, left)
            /\ mode = "enforce" => <<"judge", c>> \notin AnsweredPlan(Of(f), a, read, left)
        BY DEF AnsweredPlan, WatchOps
      <4> QED
        BY <1>0, <2>1, <2>2, <3>2, <4>1 DEF Responded, Unopened
    <3> QED
      BY <3>1, <3>2
  <2> QED
    BY <2>1, <2>2 DEF Responded
<1>5. ASSUME NEW c \in Call, NEW read \in BOOLEAN, DownRelay(c, read)
      PROVE  Call' = Call /\ \A d \in Call : Unopened(d)' => Unopened(d)
  <2>1. UNCHANGED <<transport, mode, calls, script>>
    BY <1>5 DEF DownRelay, setup
  <2> QED
    BY <1>0, <2>1, NothingMoves DEF Unopened
<1>6. CASE Restart
  BY <1>0, <1>2, <1>6, RestartMoves
<1>7. CASE Rest
  BY <1>0, <1>2, <1>7, ElsewhereMoves DEF Elsewhere
<1> QED
  BY <1>1, <1>3, <1>4, <1>5, <1>6, <1>7, NextIs

\* A step that leaves the tape alone.
LEMMA RecordedStays ==
  ASSUME Recorded, Gated', UNCHANGED <<tape, pending>>, DownTyped', Call \subseteq Call',
         session'.before = session.before,
         \A c \in Call' : Unopened(c)' => (c \in Call /\ Unopened(c)) \/ c \notin Call
  PROVE  Recorded'
<1>1. TapeTyped'
  BY DEF Recorded, TapeTyped
<1>2. PendingTyped'
  BY DEF Recorded, PendingTyped
<1>3. TapedOnce'
  <2>1. \A c : Taped(c)' <=> Taped(c)
    BY DEF Taped
  <2>2. \A c : Taped(c) => c \in Call
    BY DEF Taped, Recorded, TapeTyped
  <2> QED
    BY <2>1, <2>2 DEF Recorded, TapedOnce
<1> QED
  BY <1>1, <1>2, <1>3 DEF Recorded

\* One that ends rows of it, by calls that were sent.
LEMMA RecordedEnds ==
  ASSUME Recorded, Gated', Call' = Call, DownTyped', session'.before = session.before,
         \A c \in Call : Unopened(c)' => Unopened(c),
         Whole(tape'), tape'.call = tape.call, Len(tape'.end) = Len(tape.end),
         \A k \in 1..Len(tape.end) : tape'.end[k].by = tape.end[k].by \/ tape'.end[k].by \in {0} \cup Call,
         pending' \in Seq(Nat), \A k \in 1..Len(pending') : Waiting(pending'[k])
  PROVE  Recorded'
<1>1. TapeTyped'
  BY DEF Recorded, TapeTyped
<1>2. PendingTyped'
  <2>1. \A c : Waiting(c) => c \in Call /\ c > session.before
    BY DEF Recorded, PendingTyped, Waiting
  <2> QED
    BY <2>1 DEF PendingTyped
<1>3. TapedOnce'
  <2>1. \A c : Taped(c)' <=> Taped(c)
    BY DEF Taped
  <2> QED
    BY <2>1 DEF Recorded, TapedOnce
<1> QED
  BY <1>1, <1>2, <1>3 DEF Recorded

LEMMA ByIs ==
  ASSUME Typed, NEW c \in Call
  PROVE  By(c) \in Ends /\ By(c).by = c /\ By(c) # Open /\ By(c).by # 0
<1>1. c \in Nat /\ c # 0
  BY CallNumbers
<1> QED
  BY <1>1 DEF By, Ends, Words, Open, None

LEMMA ShutRecorded ==
  ASSUME Recorded, Gated', Call' = Call, DownTyped', session'.before = session.before,
         \A c \in Call : Unopened(c)' => Unopened(c),
         NEW i, NEW e \in Ends, e # Open, e.by \in {0} \cup Call, NEW luck, Shut(i, e, luck)
  PROVE  Recorded'
<1>1. Whole(tape) /\ pending \in Seq(Nat)
  BY DEF Recorded, TapeTyped, PendingTyped
<1>2. /\ Whole(tape') /\ tape'.call = tape.call /\ Len(tape'.end) = Len(tape.end)
      /\ \A k \in 1..Len(tape.end) :
           tape'.end[k] = IF tape.call[k] = pending[i] /\ tape.end[k] = Open THEN e ELSE tape.end[k]
      /\ pending' \in Seq(Nat) /\ Len(pending') = Len(pending) - 1 /\ i \in 1..Len(pending)
      /\ \A k \in 1..Len(pending') : pending'[k] = IF k < i THEN pending[k] ELSE pending[k + 1]
  BY <1>1, ShutDoes
<1>3. \A k \in 1..Len(pending') : Waiting(pending'[k])
  BY <1>1, <1>2, ShutLeaves DEF Waiting
<1>4. \A k \in 1..Len(tape.end) : tape'.end[k].by = tape.end[k].by \/ tape'.end[k].by \in {0} \cup Call
  BY <1>2
<1> QED
  BY <1>2, <1>3, <1>4, RecordedEnds

LEMMA RecordedStep ==
  ASSUME Recorded, [Next]_vars
  PROVE  Recorded'
<1>0. Gated /\ Gated' /\ Begun /\ Typed /\ Framed /\ SessionTyped /\ Past /\ mode' = mode
      /\ TapeTyped /\ DownTyped /\ PendingTyped /\ TapedOnce /\ Whole(tape) /\ pending \in Seq(Nat)
  BY GatedStep, SetupStays DEF Recorded, Gated, Begun, Typed, TapeTyped, PendingTyped
<1>1. ASSUME NEW n \in Frames, NEW kinds \in [1..n -> Kinds], Send(kinds)
      PROVE  Recorded'
  <2>1. /\ Call' = Call \cup New(kinds) /\ \A c \in Call : \A p : Due(p, c)' <=> Due(p, c)
        /\ UNCHANGED <<tape, pending, down>> /\ session'.before = session.before
    BY <1>0, <1>1, SendMoves, SendSays
  <2>2. DownTyped'
    BY <1>0, <2>1 DEF DownTyped
  <2>3. \A c \in Call : Unopened(c)' => Unopened(c)
    BY <1>0, <2>1 DEF Unopened
  <2> QED
    BY <1>0, <2>1, <2>2, <2>3, RecordedStays
<1>2. CASE UNCHANGED vars
  <2>1. UNCHANGED <<transport, mode, calls, script, tape, pending, down, session>>
    BY <1>2 DEF vars
  <2>2. DownTyped' /\ Call' = Call
    BY <1>0, <2>1 DEF DownTyped, Call
  <2>3. \A c \in Call : Unopened(c)' => Unopened(c)
    BY <1>0, <2>1, NothingMoves DEF Unopened
  <2> QED
    BY <1>0, <2>1, <2>2, <2>3, RecordedStays
<1> SUFFICES ASSUME Next, ~\E n \in Frames : \E kinds \in [1..n -> Kinds] : Send(kinds)
             PROVE  Recorded'
  BY <1>1, <1>2
<1>3. Call' = Call /\ \A c \in Call : Unopened(c)' => Unopened(c)
  BY <1>0, OpenedLater
<1>4. ASSUME UNCHANGED <<tape, pending>>, down' \in {0} \cup Call, session'.before = session.before
      PROVE  Recorded'
  BY <1>0, <1>3, <1>4, RecordedStays DEF DownTyped
<1>5. ASSUME UNCHANGED <<tape, pending, down, session>> PROVE Recorded'
  BY <1>0, <1>4, <1>5 DEF DownTyped
<1>6. ASSUME NEW f \in DOMAIN script, NEW luck \in Lucks, Judge(f, luck) \/ Records(f, luck)
      PROVE  Recorded'
  BY <1>5, <1>6 DEF Judge, Records, Record
<1>7. ASSUME NEW f \in DOMAIN script, Puts(f) PROVE Recorded'
  BY <1>5, <1>7 DEF Puts, Inject, Write, Relay, Pass
<1>8. ASSUME NEW f, NEW a, NEW read, NEW left, Respond(f, a, read, left) PROVE Recorded'
  BY <1>5, <1>8 DEF Respond
<1>9. ASSUME NEW c \in Call, NEW read \in BOOLEAN, DownRelay(c, read) PROVE Recorded'
  BY <1>4, <1>9 DEF DownRelay
<1>10. CASE EditMandate \/ Stop \/ \E f \in DOMAIN script : BreakPipe(f)
  BY <1>5, <1>10 DEF EditMandate, Stop, BreakPipe
<1>11. CASE Waited
  <2>1. UNCHANGED <<tape, pending, down>> /\ session' = [session EXCEPT !.drained = Quiet]
    BY <1>11 DEF Waited
  <2>2. session'.before = session.before
    BY <1>0, <2>1 DEF SessionTyped
  <2> QED
    BY <1>0, <1>4, <2>1, <2>2 DEF DownTyped
<1>12. ASSUME NEW luck \in Lucks, FlushPending(luck) PROVE Recorded'
  <2>1. UNCHANGED <<tape, down, session>> /\ (pending' = pending \/ pending' = <<>>)
    BY <1>12 DEF FlushPending
  <2>2. CASE pending' = <<>>
    <3>1. PendingTyped'
      BY <2>2 DEF PendingTyped
    <3>2. TapeTyped' /\ DownTyped'
      BY <1>0, <1>3, <2>1 DEF TapeTyped, DownTyped
    <3>3. TapedOnce'
      BY <1>0, <1>3, <2>1 DEF TapedOnce, Taped
    <3> QED
      BY <1>0, <3>1, <3>2, <3>3 DEF Recorded
  <2> QED
    BY <1>5, <2>1, <2>2
<1>13. ASSUME NEW luck \in Lucks, FlushTape(luck) PROVE Recorded'
  <2>1. UNCHANGED <<pending, down, session>> /\ tape' = TapeFlush(tape, luck)
    BY <1>13 DEF FlushTape
  <2>2. /\ Whole(tape') /\ tape'.call = tape.call /\ Len(tape'.end) = Len(tape.end)
        /\ \A k \in 1..Len(tape.end) :
             tape'.end[k] = IF tape.end[k] = Open THEN None("unanswered") ELSE tape.end[k]
    BY <1>0, <2>1, WholeFlushed
  <2>3. \A k \in 1..Len(tape.end) : tape'.end[k].by = tape.end[k].by \/ tape'.end[k].by \in {0} \cup Call
    BY <2>2, EndsAre DEF Words
  <2>4. pending' \in Seq(Nat) /\ \A k \in 1..Len(pending') : Waiting(pending'[k])
    BY <1>0, <2>1 DEF Waiting
  <2>5. DownTyped'
    BY <1>0, <1>3, <2>1 DEF DownTyped
  <2> QED
    BY <1>0, <1>3, <2>1, <2>2, <2>3, <2>4, <2>5, RecordedEnds
<1>14. ASSUME NEW f \in DOMAIN script, NEW luck \in Lucks, OpenCall(f, luck) PROVE Recorded'
  <2>1. AtHead(f, "open") /\ UNCHANGED <<down, session>>
    BY <1>14 DEF OpenCall
  <2>2. PICK c : c = One(f)
    OBVIOUS
  <2>3. c \in Call /\ Due("open", c) /\ Of(f) = {c}
    BY <1>0, <2>1, <2>2, OneOf DEF OneCall
  <2>4. CASE AsBefore
    BY <1>5, <2>1, <2>4 DEF AsBefore
  <2>5. CASE ~AsBefore
    <3>1. PICK e \in {Open, None("invalid_id")} : tape' = TapeOpen(tape, c, e, luck)
                       /\ (pending' = pending \/ pending' = Append(pending, c))
      BY <1>14, <2>2, <2>5, OpenDoes
    <3>2. e \in Ends /\ e.by = 0
      BY EndsAre DEF Words
    <3>3. c \in Nat /\ c > session.before
      BY <1>0, <2>3, CallNumbers DEF Past
    <3>4. /\ Whole(tape') /\ tape'.call = Append(tape.call, c) /\ tape'.end = Append(tape.end, e)
      BY <1>0, <3>1, <3>2, <3>3, WholeOpened
    <3> PICK m, q, x : m = Len(tape.call) /\ q = tape.call /\ x = tape.end
      OBVIOUS
    <3>5. m \in Nat /\ Len(q) = m /\ Len(x) = m /\ q \in Seq(Nat) /\ x \in Seq(Ends)
      BY <1>0 DEF Whole, Tapes
    <3>6. /\ Len(tape'.call) = m + 1 /\ Len(tape'.end) = m + 1
          /\ tape'.call[m + 1] = c /\ tape'.end[m + 1] = e
          /\ \A k \in 1..m : tape'.call[k] = q[k] /\ tape'.end[k] = x[k]
      BY <3>2, <3>3, <3>4, <3>5
    <3>7. \A k \in 1..m + 1 : k \in 1..m \/ k = m + 1
      OBVIOUS
    <3>8. \A k \in 1..m : q[k] \in Call /\ x[k].by \in {0} \cup Call
      BY <1>0, <3>5 DEF TapeTyped
    <3>9. TapeTyped'
      BY <1>3, <2>3, <3>2, <3>4, <3>6, <3>7, <3>8 DEF TapeTyped
    <3>10. DownTyped'
      BY <1>0, <1>3, <2>1 DEF DownTyped
    <3>11. PendingTyped'
      <4>1. CASE pending' = pending
        BY <1>0, <1>3, <2>1, <4>1 DEF PendingTyped
      <4>2. CASE pending' = Append(pending, c)
        <5>1. /\ pending' \in Seq(Nat) /\ Len(pending') = Len(pending) + 1 /\ Len(pending) \in Nat
              /\ pending'[Len(pending) + 1] = c
              /\ \A k \in 1..Len(pending) : pending'[k] = pending[k]
          BY <1>0, <3>3, <4>2
        <5>2. \A k \in 1..Len(pending') : k \in 1..Len(pending) \/ k = Len(pending) + 1
          BY <5>1
        <5> QED
          BY <1>0, <1>3, <2>1, <2>3, <3>3, <5>1, <5>2 DEF PendingTyped
      <4> QED
        BY <3>1, <4>1, <4>2
    <3>12. \A k \in 1..m : q[k] # c
      <4>1. ~Taped(c)
        BY <1>0, <2>3 DEF TapedOnce, Unopened
      <4> QED
        BY <4>1 DEF Taped
    <3>13. TapedOnce'
      <4>1. \A k, j \in 1..m : q[k] = q[j] => k = j
        BY <1>0 DEF TapedOnce
      <4>2. ASSUME NEW k \in 1..m + 1, NEW j \in 1..m + 1, tape'.call[k] = tape'.call[j]
            PROVE  k = j
        BY <3>6, <3>7, <3>12, <4>1, <4>2, SMTT(30)
      <4>3. ASSUME NEW d \in Call, Unopened(d)' PROVE ~Taped(d)'
        <5>1. ~Taped(d)
          BY <1>0, <1>3, <4>3 DEF TapedOnce
        <5>2. d # c
          <6>1. ~Due("open", c)'
            BY <1>0, <1>14, <2>3, OpenMoves
          <6>2. mode = "enforce" => ~Due("judge", c)
            BY <1>0, <2>3 DEF Gated, ToJudge
          <6>3. Due("judge", c)' => Due("judge", c)
            BY <1>0, <1>14, <2>3, OpenMoves DEF Shrinks
          <6> QED
            BY <1>0, <4>3, <6>1, <6>2, <6>3 DEF Unopened
        <5> QED
          BY <3>6, <3>7, <5>1, <5>2 DEF Taped
      <4> QED
        BY <1>3, <3>6, <4>2, <4>3 DEF TapedOnce
    <3> QED
      BY <1>0, <3>9, <3>10, <3>11, <3>13 DEF Recorded
  <2> QED
    BY <2>4, <2>5
<1>15. ASSUME NEW c \in Call, NEW luck \in Lucks, Observe(c, luck), down' \in {0} \cup Call,
              session' = session
       PROVE  Recorded'
  <2>1. CASE AsBefore
    BY <1>4, <1>15, <2>1 DEF AsBefore
  <2>2. CASE \E i \in 1..Len(pending) : Shut(i, By(c), luck)
    <3>1. By(c) \in Ends /\ By(c).by = c /\ By(c) # Open
      BY <1>0, ByIs
    <3>2. DownTyped'
      BY <1>3, <1>15 DEF DownTyped
    <3> QED
      BY <1>0, <1>3, <1>15, <2>2, <3>1, <3>2, ShutRecorded
  <2> QED
    BY <1>0, <1>15, <2>1, <2>2, ObserveDoes
<1>16. ASSUME NEW f \in DOMAIN script, NEW luck \in Lucks, Pair(f, luck) PROVE Recorded'
  <2>1. AtHead(f, "pair") /\ Observe(One(f), luck) /\ UNCHANGED <<down, session>>
    BY <1>16 DEF Pair
  <2>2. One(f) \in Call
    BY <1>0, <2>1, OneOf DEF OneCall
  <2> QED
    BY <1>0, <1>15, <2>1, <2>2 DEF DownTyped
<1>17. ASSUME NEW luck \in Lucks, DownObserve(luck) PROVE Recorded'
  <2>1. down # 0 /\ Observe(down, luck) /\ down' = 0 /\ session' = session
    BY <1>17 DEF DownObserve
  <2>2. down \in Call
    BY <1>0, <2>1 DEF DownTyped
  <2> QED
    BY <1>15, <2>1, <2>2
<1>18. ASSUME NEW f \in DOMAIN script, NEW luck \in Lucks, CloseCall(f, luck) PROVE Recorded'
  <2>1. UNCHANGED <<down, session>>
    BY <1>18 DEF CloseCall
  <2>2. CASE AsBefore
    BY <1>5, <2>1, <2>2 DEF AsBefore
  <2>3. CASE \E i \in 1..Len(pending) : Shut(i, None("unanswered"), luck)
    <3>1. None("unanswered") \in Ends /\ None("unanswered").by = 0 /\ None("unanswered") # Open
      BY EndsAre DEF Words
    <3>2. DownTyped'
      BY <1>0, <1>3, <2>1 DEF DownTyped
    <3> QED
      BY <1>0, <1>3, <2>1, <2>3, <3>1, <3>2, ShutRecorded
  <2> QED
    BY <1>0, <1>18, <2>2, <2>3, CloseDoes
<1>19. CASE Restart
  <2>1. PICK last : last = LastOf(tape)
    OBVIOUS
  <2>2. tape' = Cut(tape, last) /\ down' = 0 /\ pending' = <<>>
    BY <1>19, <2>1 DEF Restart, LastOf, Cut
  <2>3. /\ Whole(tape') /\ last \in 0..Len(tape.end) /\ Len(tape'.end) = last /\ Len(tape'.call) = last
        /\ \A k \in 1..last : tape'.call[k] = tape.call[k] /\ tape'.end[k] = tape.end[k]
    BY <1>0, <2>1, <2>2, WholeResumed
  <2>4. \A k \in 1..last : k \in 1..Len(tape.end) /\ k \in 1..Len(tape.call)
    BY <1>0, <2>3 DEF Whole
  <2>5. TapeTyped' /\ DownTyped' /\ PendingTyped'
    <3>1. TapeTyped'
      BY <1>0, <1>3, <2>3, <2>4 DEF TapeTyped
    <3>2. DownTyped' /\ PendingTyped'
      BY <2>2 DEF DownTyped, PendingTyped
    <3> QED
      BY <3>1, <3>2
  <2>6. \A c \in Call : ~Unopened(c)'
    BY <1>0, <1>19, RestartMoves DEF Unopened
  <2>7. TapedOnce'
    BY <1>0, <1>3, <2>3, <2>4, <2>6 DEF TapedOnce
  <2> QED
    BY <1>0, <2>5, <2>7 DEF Recorded
<1>20. CASE Rest
  BY <1>6, <1>10, <1>11, <1>12, <1>13, <1>14, <1>16, <1>17, <1>18, <1>20 DEF Rest
<1> QED
  BY <1>6, <1>7, <1>8, <1>9, <1>19, <1>20, NextIs

(***************************************************************************)
(* Under enforce a frame that is to be judged is judged whole, and before  *)
(* anything else is done with it.                                          *)
(***************************************************************************)
Judges(s) == \E i \in 1..Len(s) : s[i].op = "judge"
JudgedFirst == mode = "enforce" =>
                 \A f \in 1..Len(script) : Judges(script[f]) => script[f] = All("judge", CallsOf(f))
\* No step to be judged comes to a frame that was there.
Clipped == /\ UNCHANGED <<mode, calls>> /\ Len(script') = Len(script)
           /\ \A g \in 1..Len(script) : \/ script'[g] = script[g] \/ ~Judges(script'[g])
                                        \/ Judges(script[g]) /\ Op(g) # "judge"

LEMMA ClippedStays == ASSUME JudgedFirst, mode = "enforce", Clipped PROVE JudgedFirst'
<1>1. \A g : CallsOf(g)' = CallsOf(g)
  BY DEF Clipped, CallsOf, Call
<1>2. ASSUME NEW g \in 1..Len(script), Judges(script'[g]) PROVE script'[g] = All("judge", CallsOf(g))
  <2>1. ASSUME Judges(script[g]), Op(g) # "judge" PROVE FALSE
    <3>1. Head(script[g]).op = "judge"
      <4>1. script[g] = All("judge", CallsOf(g))
        BY <2>1 DEF JudgedFirst
      <4>2. Head(All("judge", CallsOf(g))).op = "judge"
        BY DEF All
      <4> QED
        BY <4>1, <4>2
    <3> QED
      BY <2>1, <3>1 DEF Op
  <2> QED
    BY <1>2, <2>1 DEF Clipped, JudgedFirst
<1> QED
  BY <1>1, <1>2 DEF Clipped, JudgedFirst

LEMMA ClipsOne ==
  ASSUME Framed, NEW f \in DOMAIN script, NEW s, GoesOn(f, s),
         ~Judges(s) \/ (Op(f) # "judge" /\ LeftOf(s, script[f]))
  PROVE  Clipped
<1>1. script \in Seq(Seq(Steps)) /\ DOMAIN script = 1..Len(script) /\ Len(script) \in Nat
  BY DEF Framed, FramesTyped
<1>2. DOMAIN script' = DOMAIN script /\ script'[f] = s /\ \A g \in DOMAIN script : g # f => script'[g] = script[g]
  BY <1>1 DEF GoesOn
<1>3. Len(script') = Len(script)
  <2>1. script' = [g \in 1..Len(script) |-> script'[g]]
    BY <1>1 DEF GoesOn
  <2> QED
    BY <1>1, <2>1
<1>4. LeftOf(s, script[f]) /\ Judges(s) => Judges(script[f])
  BY DEF LeftOf, Judges
<1> QED
  BY <1>1, <1>2, <1>3, <1>4 DEF Clipped, GoesOn

LEMMA ClipsTail ==
  ASSUME Framed, NEW f \in DOMAIN script, NEW o, o # "judge", AtHead(f, o), GoesOn(f, Tail(script[f]))
  PROVE  Clipped
<1>1. script[f] \in Seq(Steps) /\ script[f] # <<>> /\ Op(f) = o
  BY HeadOf
<1> QED
  BY <1>1, TailIsLeft, ClipsOne

LEMMA ClipsWithout ==
  ASSUME Framed, NEW f \in DOMAIN script, NEW o, o # "judge", AtHead(f, o), NEW ops,
         GoesOn(f, Without(script[f], ops))
  PROVE  Clipped
<1>1. script[f] \in Seq(Steps) /\ script[f] # <<>> /\ Op(f) = o
  BY HeadOf
<1> QED
  BY <1>1, WithoutIsLeft, ClipsOne

LEMMA ClipsNothing ==
  ASSUME UNCHANGED <<mode, calls, script>>
  PROVE  Clipped
BY DEF Clipped

LEMMA ClipsAll ==
  ASSUME Framed, UNCHANGED <<mode, calls>>, NEW s \in {<<>>, All("gone", {})},
         script' = [g \in DOMAIN script |-> s]
  PROVE  Clipped
<1>1. DOMAIN script = 1..Len(script) /\ Len(script) \in Nat
  BY DEF Framed, FramesTyped
<1>2. ~Judges(s)
  BY DEF Judges, All
<1>3. Len(script') = Len(script) /\ \A g \in 1..Len(script) : script'[g] = s
  BY <1>1
<1> QED
  BY <1>2, <1>3 DEF Clipped

\* The gate under enforce.
LEMMA ClipsJudge ==
  ASSUME Framed, mode = "enforce", NEW f \in DOMAIN script, NEW luck, Judge(f, luck)
  PROVE  Clipped
<1> PICK C, S : C = CallsOf(f) /\ S = Of(f)
  OBVIOUS
<1>1. /\ AtHead(f, "judge") /\ UNCHANGED <<transport, mode, calls>>
      /\ \/ GoesOn(f, Without(Passed(S), {"record"})) \/ GoesOn(f, Passed(S)) \/ GoesOn(f, Held(S))
  BY DEF Judge, setup, Go, GoesOn
<1>2. S \subseteq C /\ C \in SUBSET Nat /\ IsFiniteSet(C)
  BY <1>1, HeadOf, CallsOfFrame DEF Framed
<1>3. Made(Passed(S), C, PassedOps)
  BY <1>2, DoesPassed DEF Does, Framed
<1>4. Made(Held(S), C, {"refuse", "open", "inject", "pair"})
  BY <1>2, DoesHeld DEF Plans, Framed
<1>5. ~Judges(Passed(S)) /\ ~Judges(Held(S))
  BY <1>3, <1>4 DEF Made, Judges, PassedOps
<1>6. ~Judges(Without(Passed(S), {"record"}))
  <2>1. Passed(S) \in Seq(Steps)
    BY <1>3 DEF Made, Well
  <2>2. LeftOf(Without(Passed(S), {"record"}), Passed(S))
    BY <2>1, WithoutIsLeft
  <2> QED
    BY <1>5, <2>2 DEF LeftOf, Judges
<1> QED
  BY <1>1, <1>5, <1>6, ClipsOne

LEMMA ClipsRespond ==
  ASSUME Framed, mode = "enforce", NEW f \in DOMAIN script, NEW a, NEW read, NEW left \in BOOLEAN,
         Respond(f, a, read, left)
  PROVE  Clipped
<1> PICK C, S : C = CallsOf(f) /\ S = Of(f)
  OBVIOUS
<1>1. AtHead(f, "answer") /\ a \subseteq S /\ read \subseteq a /\ GoesOn(f, Answered(S, a, read, left))
  BY DEF Respond, setup, Go, GoesOn
<1>2. S \subseteq C /\ C \in SUBSET Nat /\ IsFiniteSet(C)
  BY <1>1, HeadOf, CallsOfFrame DEF Framed
<1>3. Made(Answered(S, a, read, left), C, AnsweredOps)
  BY <1>1, <1>2, DoesAnswered DEF Plans, Framed
<1>4. ~Judges(Answered(S, a, read, left))
  BY <1>3 DEF Made, Judges, AnsweredOps, WatchOps
<1> QED
  BY <1>1, <1>4, ClipsOne

LEMMA ClipsRest ==
  ASSUME Framed, Rest
  PROVE  Clipped
<1>1. ASSUME NEW f \in DOMAIN script, NEW luck \in Lucks, NEW o \in {"record", "refuse"}, Record(f, o, luck)
      PROVE  Clipped
  <2>1. /\ AtHead(f, o) /\ o # "judge" /\ UNCHANGED <<transport, mode, calls>>
        /\ \/ script' = [script EXCEPT ![f] = Tail(@)]
           \/ script' = [script EXCEPT ![f] = Without(@, {"judge", "record"})]
           \/ script' = [g \in DOMAIN script |-> All("gone", {})]
           \/ script' = [script EXCEPT ![f] = <<>>]
    BY <1>1 DEF Record, setup, Next1, Go, UpIsGone
  <2>2. CASE script' = [script EXCEPT ![f] = Tail(@)]
    BY <2>1, <2>2, ClipsTail DEF GoesOn
  <2>3. CASE script' = [script EXCEPT ![f] = Without(@, {"judge", "record"})]
    BY <2>1, <2>3, ClipsWithout DEF GoesOn
  <2>4. CASE script' = [g \in DOMAIN script |-> All("gone", {})]
    BY <2>1, <2>4, ClipsAll
  <2>5. CASE script' = [script EXCEPT ![f] = <<>>]
    <3>1. ~Judges(<<>>)
      BY DEF Judges
    <3> QED
      BY <2>1, <2>5, <3>1, ClipsOne DEF GoesOn
  <2> QED
    BY <2>1, <2>2, <2>3, <2>4, <2>5
<1>2. ASSUME NEW f \in DOMAIN script, NEW luck \in Lucks, OpenCall(f, luck) PROVE Clipped
  <2>1. /\ AtHead(f, "open") /\ (GoesOn(f, Without(script[f], {"open", "close"})) \/ GoesOn(f, Tail(script[f])))
    BY <1>2 DEF OpenCall, setup, Go, GoesOn, Next1
  <2> QED
    BY <2>1, ClipsTail, ClipsWithout
<1>3. ASSUME NEW f \in DOMAIN script, NEW luck \in Lucks, Pair(f, luck) PROVE Clipped
  <2>1. AtHead(f, "pair") /\ GoesOn(f, Tail(script[f]))
    BY <1>3 DEF Pair, setup, Go, GoesOn, Next1
  <2> QED
    BY <2>1, ClipsTail
<1>4. ASSUME NEW f \in DOMAIN script, NEW luck \in Lucks, CloseCall(f, luck) PROVE Clipped
  <2>1. /\ AtHead(f, "close") /\ (GoesOn(f, Without(script[f], {"close"})) \/ GoesOn(f, Tail(script[f])))
    BY <1>4 DEF CloseCall, setup, Go, GoesOn, Next1
  <2> QED
    BY <2>1, ClipsTail, ClipsWithout
<1>5. ASSUME NEW luck, DownObserve(luck) \/ FlushPending(luck) \/ FlushTape(luck) PROVE Clipped
  <2>1. UNCHANGED <<mode, calls, script>>
    BY <1>5 DEF DownObserve, FlushPending, FlushTape, setup
  <2> QED
    BY <2>1, ClipsNothing
<1>6. CASE EditMandate \/ Stop \/ Waited
  <2>1. UNCHANGED <<mode, calls, script>>
    BY <1>6 DEF EditMandate, Stop, Waited, setup
  <2> QED
    BY <2>1, ClipsNothing
<1>7. ASSUME NEW f, BreakPipe(f) PROVE Clipped
  <2>1. UNCHANGED <<mode, calls>> /\ script' = [g \in DOMAIN script |-> All("gone", {})]
    BY <1>7 DEF BreakPipe, UpIsGone, setup
  <2>2. PICK s \in {<<>>, All("gone", {})} : s = All("gone", {})
    OBVIOUS
  <2>3. script' = [g \in DOMAIN script |-> s]
    BY <2>1, <2>2
  <2> QED
    BY <2>1, <2>3, ClipsAll
<1> QED
  BY <1>1, <1>2, <1>3, <1>4, <1>5, <1>6, <1>7 DEF Rest, Records

LEMMA JudgedFirstStep ==
  ASSUME Framed, JudgedFirst, [Next]_vars
  PROVE  JudgedFirst'
<1> SUFFICES ASSUME mode = "enforce" PROVE JudgedFirst'
  <2>1. mode' = mode
    BY SetupStays
  <2> QED
    BY <2>1 DEF JudgedFirst
<1>1. ASSUME NEW n \in Frames, NEW kinds \in [1..n -> Kinds], Send(kinds)
      PROVE  JudgedFirst'
  <2> PICK e, S : e = Len(script) /\ S = New(kinds)
    OBVIOUS
  <2>1. /\ Call' = Call \cup S /\ S \cap Call = {} /\ Len(script') = e + 1 /\ e \in Nat
        /\ \A c \in Call : calls'[c] = calls[c]
        /\ \A c \in S : calls'[c].frame = e + 1
        /\ \A k \in 1..e : script'[k] = script[k]
        /\ \A c \in Call : calls[c].frame \in 1..e
    BY <1>1, SendMoves, FrameOf DEF Framed, FramesTyped
  <2>2. CallsOf(e + 1)' = S /\ \A g \in 1..e : CallsOf(g)' = CallsOf(g)
    BY <2>1 DEF CallsOf
  <2>3. script'[e + 1] = All("judge", S)
    <3>1. Len(kinds) = n
      BY <1>1, SendMoves
    <3>2. script' = Append(script, Script(S)) /\ script \in Seq(Seq(Steps))
      BY <1>1 DEF Send, New, Framed, FramesTyped
    <3>3. Script(S) = All("judge", S)
      BY DEF Script
    <3> QED
      BY <3>2, <3>3
  <2>4. \A g \in 1..e + 1 : g \in 1..e \/ g = e + 1
    BY <2>1
  <2> QED
    BY <2>1, <2>2, <2>3, <2>4 DEF JudgedFirst
<1>2. CASE UNCHANGED vars
  <2>1. UNCHANGED <<mode, calls, script>>
    BY <1>2 DEF vars
  <2> QED
    BY <2>1, ClipsNothing, ClippedStays
<1>3. ASSUME NEW f \in DOMAIN script, Puts(f) PROVE Clipped
  <2>1. PICK o \in PutOps : Put(f, o)
    BY <1>3, PutsIs
  <2>2. AtHead(f, o) /\ GoesOn(f, Tail(script[f])) /\ o # "judge"
    BY <2>1 DEF Put, setup, Next1, Go, GoesOn, PutOps
  <2> QED
    BY <2>2, ClipsTail
<1>4. ASSUME NEW c, NEW read, DownRelay(c, read) PROVE Clipped
  <2>1. UNCHANGED <<mode, calls, script>>
    BY <1>4 DEF DownRelay, setup
  <2> QED
    BY <2>1, ClipsNothing
<1>5. CASE Restart
  <2>1. UNCHANGED <<mode, calls>> /\ script' = [f \in DOMAIN script |-> <<>>]
    BY <1>5 DEF Restart, setup
  <2>2. PICK s \in {<<>>, All("gone", {})} : s = <<>>
    OBVIOUS
  <2>3. script' = [g \in DOMAIN script |-> s] /\ UNCHANGED <<mode, calls>>
    BY <2>1, <2>2
  <2>4. Clipped
    BY <2>3, ClipsAll
  <2> QED
    BY <2>4, ClippedStays
<1> QED
  BY <1>1, <1>2, <1>3, <1>4, <1>5, NextIs, ClipsJudge, ClipsRespond, ClipsRest, ClippedStays

(***************************************************************************)
(* A call is asked once, and what comes back comes after it.               *)
(***************************************************************************)
RelayOps == {"relay", "pass", "pair", "close"} \cup WatchOps
AsksOnce(c) == /\ Due("write", c) => reply[c] = "none"
               /\ Due("inject", c) \/ Due("relay", c) \/ Due("pass", c) => ~Due("write", c)
               /\ Due("answer", c) => transport # "pipe"
Asking == \A c \in Call : AsksOnce(c)
RelayFrame == \A c, d \in Call : calls[c].frame = calls[d].frame /\ Due("relay", c) =>
                \A p : Due(p, d) => p \in RelayOps
Framewise == Gated /\ JudgedFirst /\ Asking /\ RelayFrame

LEMMA InitFramewise == ASSUME Init PROVE Framewise
<1>1. Call = {} /\ Len(script) = 0
  BY DEF Init, Call
<1> QED
  BY <1>1, InitGated DEF Framewise, JudgedFirst, Asking, RelayFrame

LEMMA AskingShrinks ==
  ASSUME Asking, RelayFrame, UNCHANGED <<transport, mode, calls>>,
         \A p : \A c \in Call : Due(p, c)' => Due(p, c),
         \A c \in Call : reply'[c] = reply[c] \/ ~Due("write", c)'
  PROVE  Asking' /\ RelayFrame'
<1>1. Call' = Call /\ RelayOps' = RelayOps
  BY DEF Call, RelayOps, WatchOps
<1>2. Asking'
  BY <1>1 DEF Asking, AsksOnce
<1>3. RelayFrame'
  BY <1>1 DEF RelayFrame
<1> QED
  BY <1>2, <1>3

LEMMA AskingStep ==
  ASSUME Framewise, [Next]_vars
  PROVE  Asking' /\ RelayFrame'
<1>0. Gated /\ Begun /\ Typed /\ Framed /\ SessionTyped /\ SaidTyped /\ Asking /\ RelayFrame /\ JudgedFirst
  BY DEF Framewise, Gated, Begun, Typed
<1>1. ASSUME NEW n \in Frames, NEW kinds \in [1..n -> Kinds], Send(kinds)
      PROVE  Asking' /\ RelayFrame'
  <2>1. /\ Call' = Call \cup New(kinds)
        /\ \A c \in Call : calls'[c] = calls[c] /\ \A p : Due(p, c)' <=> Due(p, c)
        /\ \A c \in New(kinds) : /\ calls'[c].frame = Len(script) + 1
                                 /\ \A p : Due(p, c)' <=> p \in ScriptOps
        /\ \A c \in Call : reply'[c] = reply[c]
        /\ \A c \in New(kinds) : reply'[c] = "none"
        /\ UNCHANGED <<transport, mode>>
    BY <1>0, <1>1, SendMoves, SendSays
  <2>2. /\ {"inject", "relay", "pass"} \cap ScriptOps = {} /\ ("answer" \in ScriptOps => transport # "pipe")
    BY DEF ScriptOps, WatchOps
  <2>3. ASSUME NEW c \in Call' PROVE AsksOnce(c)'
    <3>1. CASE c \in Call
      BY <1>0, <2>1, <3>1 DEF Asking, AsksOnce
    <3>2. CASE c \in New(kinds)
      BY <2>1, <2>2, <3>2 DEF AsksOnce
    <3> QED
      BY <2>1, <3>1, <3>2
  <2>4. \A c \in Call : calls[c].frame # Len(script) + 1
    <3>1. \A c \in Call : calls[c].frame \in 1..Len(script)
      BY <1>0, FrameOf DEF Framed
    <3>2. Len(script) \in Nat
      BY <1>0 DEF Framed, FramesTyped
    <3> QED
      BY <3>1, <3>2
  <2>5. RelayOps' = RelayOps
    BY <2>1 DEF RelayOps, WatchOps
  <2>6. ASSUME NEW c \in Call', NEW d \in Call', calls'[c].frame = calls'[d].frame, Due("relay", c)',
               NEW p, Due(p, d)'
        PROVE  p \in RelayOps
    <3>1. c \in Call
      BY <2>1, <2>2, <2>6
    <3>2. d \in Call
      BY <2>1, <2>4, <2>6, <3>1
    <3> QED
      BY <1>0, <2>1, <2>6, <3>1, <3>2 DEF RelayFrame
  <2> QED
    BY <2>3, <2>5, <2>6 DEF Asking, RelayFrame
<1>2. ASSUME NEW f \in DOMAIN script, NEW luck \in Lucks, Judge(f, luck), mode = "enforce"
      PROVE  Asking' /\ RelayFrame'
  <2>1. UNCHANGED <<transport, mode, calls, reply>> /\ Call' = Call
    BY <1>0, <1>2, JudgeSays DEF Call
  <2>2. \A c \in Of(f) : c \in Call /\ Due("judge", c) /\ reply[c] = "none"
    BY <1>0, <1>2, HeadOf DEF Judge, Gated, ToJudge
  <2>3. ASSUME NEW c \in Call, calls[c].frame = f
        PROVE  AsksOnce(c)' /\ ~Due("relay", c)'
    <3>1. CASE DeafGate
      <4>1. \A p : Due(p, c)' <=> p \in PassedOps \ {"record"} /\ c \in Of(f)
        BY <1>0, <1>2, <2>3, <3>1, JudgeMoves
      <4> QED
        BY <2>1, <2>2, <4>1 DEF AsksOnce, PassedOps
    <3>2. CASE ~DeafGate /\ \A d \in Of(f) : Detail(d) = "inside"
      <4>1. \A p : Due(p, c)' <=> p \in PassedOps /\ c \in Of(f)
        BY <1>0, <1>2, <2>3, <3>2, JudgeMoves
      <4> QED
        BY <2>1, <2>2, <4>1 DEF AsksOnce, PassedOps
    <3>3. CASE ~DeafGate /\ ~\A d \in Of(f) : Detail(d) = "inside"
      <4>1. \A p : Due(p, c)' <=> <<p, c>> \in HeldPlan(Of(f))
        BY <1>0, <1>2, <2>3, <3>3, JudgeMoves
      <4>2. /\ <<"answer", c>> \notin HeldPlan(Of(f)) /\ <<"write", c>> \notin HeldPlan(Of(f))
            /\ <<"relay", c>> \notin HeldPlan(Of(f)) /\ <<"pass", c>> \notin HeldPlan(Of(f))
        BY DEF HeldPlan
      <4> QED
        BY <4>1, <4>2 DEF AsksOnce
    <3> QED
      BY <3>1, <3>2, <3>3
  <2>4. ASSUME NEW c \in Call, calls[c].frame # f
        PROVE  /\ \A p : Due(p, c)' <=> Due(p, c)
               /\ AsksOnce(c)'
    <3>1. \A p : Due(p, c)' <=> Due(p, c)
      BY <1>0, <1>2, <2>4, JudgeMoves
    <3> QED
      BY <1>0, <2>1, <3>1 DEF Asking, AsksOnce
  <2>5. RelayOps' = RelayOps
    BY <2>1 DEF RelayOps, WatchOps
  <2>6. Asking'
    BY <2>1, <2>3, <2>4 DEF Asking
  <2>7. RelayFrame'
    BY <1>0, <2>1, <2>3, <2>4, <2>5 DEF RelayFrame
  <2> QED
    BY <2>6, <2>7
<1>3. ASSUME NEW f \in DOMAIN script, NEW luck \in Lucks, Judge(f, luck), mode # "enforce"
      PROVE  Asking' /\ RelayFrame'
  <2>1. UNCHANGED <<transport, mode, calls, reply>>
    BY <1>0, <1>3, JudgeSays
  <2>2. \A p : \A c \in Call : Due(p, c)' => Due(p, c)
    BY <1>0, <1>3, JudgeMoves
  <2> QED
    BY <1>0, <2>1, <2>2, AskingShrinks
<1>4. ASSUME NEW f \in DOMAIN script, NEW o \in PutOps, Put(f, o)
      PROVE  Asking' /\ RelayFrame'
  <2>1. Shrinks /\ Exactly(o, Of(f)) /\ \A c \in Of(f) : c \in Call /\ Due(o, c)
    BY <1>0, <1>4, PutMoves
  <2>2. \A c \in Call : reply'[c] = IF c \in Of(f) THEN PutWord(o) ELSE reply[c]
    BY <1>0, <1>4, PutSays
  <2>3. ASSUME NEW c \in Of(f) PROVE ~Due("write", c)'
    <3>1. CASE o = "write"
      BY <2>1, <3>1 DEF Exactly
    <3>2. CASE o # "write"
      BY <1>0, <2>1, <3>2 DEF Asking, AsksOnce, Shrinks, PutOps
    <3> QED
      BY <3>1, <3>2
  <2>4. \A c \in Call : reply'[c] = reply[c] \/ ~Due("write", c)'
    BY <2>2, <2>3
  <2>5. UNCHANGED <<transport, mode, calls>> /\ \A p : \A c \in Call : Due(p, c)' => Due(p, c)
    BY <2>1 DEF Shrinks
  <2> QED
    BY <1>0, <2>4, <2>5, AskingShrinks
<1>5. ASSUME NEW f \in DOMAIN script, NEW a \in SUBSET CallsOf(f), NEW read \in SUBSET a,
             NEW left \in BOOLEAN,
             Respond(f, a, read, left)
      PROVE  Asking' /\ RelayFrame'
  <2>1. Responded(f, a, read, left)
    BY <1>0, <1>5, RespondMoves
  <2>2. reply' = reply /\ UNCHANGED <<transport, mode, calls>> /\ Call' = Call /\ RelayOps' = RelayOps
    BY <1>5, <2>1 DEF Respond, Responded, RelayOps, WatchOps
  <2>3. \A o, c : <<o, c>> \in AnsweredPlan(Of(f), a, read, left) => o \in RelayOps
    BY DEF AnsweredPlan, RelayOps
  <2>4. {"write", "answer", "inject"} \cap RelayOps = {}
    BY DEF RelayOps, WatchOps
  <2>5. ASSUME NEW c \in Call, calls[c].frame = f PROVE AsksOnce(c)' /\ \A p : Due(p, c)' => p \in RelayOps
    <3>1. \A p : Due(p, c)' => p \in RelayOps
      BY <2>1, <2>3, <2>5 DEF Responded
    <3> QED
      BY <2>2, <2>4, <3>1 DEF AsksOnce
  <2>6. ASSUME NEW c \in Call, calls[c].frame # f PROVE AsksOnce(c)' /\ \A p : Due(p, c)' <=> Due(p, c)
    <3>1. \A p : Due(p, c)' <=> Due(p, c)
      BY <2>1, <2>6 DEF Responded
    <3> QED
      BY <1>0, <2>2, <3>1 DEF Asking, AsksOnce
  <2>7. Asking'
    BY <2>2, <2>5, <2>6 DEF Asking
  <2>8. RelayFrame'
    BY <1>0, <2>2, <2>5, <2>6 DEF RelayFrame
  <2> QED
    BY <2>7, <2>8
<1>6. ASSUME NEW c \in Call, NEW read \in BOOLEAN, DownRelay(c, read)
      PROVE  Asking' /\ RelayFrame'
  <2>1. /\ UNCHANGED <<transport, mode, calls, script>> /\ reply[c] = "asked"
        /\ reply' = [reply EXCEPT ![c] = IF read THEN "relayed" ELSE "unread"]
    BY <1>6 DEF DownRelay, setup
  <2>2. \A p : \A d \in Call : Due(p, d)' => Due(p, d)
    BY <1>0, <2>1, NothingMoves
  <2>3. ~Due("write", c)
    BY <1>0, <2>1 DEF Asking, AsksOnce
  <2>4. Call = 1..Len(calls)
    BY <1>0, CallIs DEF Framed
  <2>5. \A d \in Call : d # c => reply'[d] = reply[d]
    BY <1>0, <2>1, <2>4 DEF SaidTyped
  <2> QED
    BY <1>0, <2>1, <2>2, <2>3, <2>5, AskingShrinks
<1>7. CASE Restart
  <2>1. Shrinks /\ \A p : \A c \in Call : ~Due(p, c)'
    BY <1>0, <1>7, RestartMoves
  <2> QED
    BY <1>0, <2>1, AskingShrinks DEF Shrinks
<1>8. CASE Rest
  <2>1. Elsewhere
    BY <1>0, <1>8, ElsewhereMoves
  <2> QED
    BY <1>0, <2>1, AskingShrinks DEF Elsewhere, Shrinks
<1>9. CASE UNCHANGED vars
  <2>1. UNCHANGED <<transport, mode, calls, script, reply>>
    BY <1>9 DEF vars
  <2>2. \A p : \A d \in Call : Due(p, d)' => Due(p, d)
    BY <1>0, <2>1, NothingMoves
  <2> QED
    BY <1>0, <2>1, <2>2, AskingShrinks
<1>10. CASE Next
  BY <1>1, <1>2, <1>3, <1>4, <1>5, <1>6, <1>7, <1>8, <1>10, NextIs, PutsIs
<1> QED
  BY <1>9, <1>10

LEMMA FramewiseStep == ASSUME Framewise, [Next]_vars PROVE Framewise'
<1>1. Gated /\ Framed /\ JudgedFirst
  BY DEF Framewise, Gated, Begun, Typed
<1> QED
  BY <1>1, GatedStep, JudgedFirstStep, AskingStep DEF Framewise

\* Under enforce the gate judges every call of the frame it is at.
LEMMA JudgedWhole ==
  ASSUME Framed, JudgedFirst, mode = "enforce", NEW f \in DOMAIN script, AtHead(f, "judge")
  PROVE  Of(f) = CallsOf(f) /\ script[f] = All("judge", CallsOf(f))
<1>1. script[f] \in Seq(Steps) /\ script[f] # <<>> /\ Op(f) = "judge" /\ f \in 1..Len(script)
  BY HeadOf
<1>2. Judges(script[f])
  <2> PICK s : s = script[f]
    OBVIOUS
  <2>1. 1 \in 1..Len(s) /\ Head(s) = s[1]
    BY <1>1
  <2> QED
    BY <1>1, <2>1 DEF Judges, Op
<1>3. script[f] = All("judge", CallsOf(f))
  BY <1>1, <1>2 DEF JudgedFirst
<1>4. Head(All("judge", CallsOf(f))).of = CallsOf(f)
  BY DEF All
<1> QED
  BY <1>3, <1>4 DEF Of

\* What has been answered and not been passed on stays so, whatever else a handler does.
LEMMA RelayKept ==
  ASSUME Framed, RelayFrame, Rest, transport # "pipe", NEW c \in Call, Due("relay", c)
  PROVE  Due("relay", c)'
<1>1. ASSUME NEW f \in DOMAIN script, NEW s, GoesOn(f, s), NEW o, AtHead(f, o), o # "relay",
             s = Tail(script[f])
      PROVE  Due("relay", c)'
  BY <1>1, StepDone
<1>2. ASSUME NEW f \in DOMAIN script, NEW ops, "relay" \notin ops, GoesOn(f, Without(script[f], ops))
      PROVE  Due("relay", c)'
  BY <1>2, StepsDropped
<1>3. ASSUME UNCHANGED <<transport, mode, calls, script>>
      PROVE  Due("relay", c)'
  BY <1>3, NothingMoves
<1>4. ASSUME NEW f \in DOMAIN script, NEW luck \in Lucks, NEW o \in {"record", "refuse"}, Record(f, o, luck)
      PROVE  Due("relay", c)'
  <2>1. /\ AtHead(f, o) /\ o # "relay" /\ UNCHANGED <<transport, mode, calls>> /\ o \in OneCall
        /\ \/ GoesOn(f, Tail(script[f]))
           \/ GoesOn(f, Without(script[f], {"judge", "record"}))
           \/ mode # "record" /\ GoesOn(f, <<>>)
    BY <1>4 DEF Record, setup, GoesOn, Next1, Go, OneCall
  <2>2. CASE GoesOn(f, Without(script[f], {"judge", "record"}))
    <3>1. "relay" \notin {"judge", "record"}
      OBVIOUS
    <3> QED
      BY <1>2, <2>2, <3>1
  <2>3. CASE mode # "record" /\ GoesOn(f, <<>>)
    <3>1. One(f) \in Call /\ calls[One(f)].frame = f /\ Due(o, One(f))
      BY <2>1, OneOf
    <3>2. o \notin RelayOps
      BY <2>3 DEF RelayOps, WatchOps
    <3>3. calls[c].frame # f
      BY <3>1, <3>2 DEF RelayFrame
    <3> QED
      BY <2>3, <3>3, FrameEnds
  <2> QED
    BY <1>1, <2>1, <2>2, <2>3
<1>5. ASSUME NEW f \in DOMAIN script, NEW luck \in Lucks, OpenCall(f, luck) PROVE Due("relay", c)'
  <2>1. /\ AtHead(f, "open") /\ (GoesOn(f, Without(script[f], {"open", "close"})) \/ GoesOn(f, Tail(script[f])))
        /\ "relay" \notin {"open", "close"}
    BY <1>5 DEF OpenCall, setup, Go, GoesOn, Next1
  <2> QED
    BY <1>1, <1>2, <2>1
<1>6. ASSUME NEW f \in DOMAIN script, NEW luck \in Lucks, Pair(f, luck) PROVE Due("relay", c)'
  <2>1. AtHead(f, "pair") /\ GoesOn(f, Tail(script[f])) /\ "pair" # "relay"
    BY <1>6 DEF Pair, setup, Go, GoesOn, Next1
  <2>2. PICK s, o : s = Tail(script[f]) /\ o = "pair"
    OBVIOUS
  <2> QED
    BY <1>1, <2>1, <2>2
<1>7. ASSUME NEW f \in DOMAIN script, NEW luck \in Lucks, CloseCall(f, luck) PROVE Due("relay", c)'
  <2>1. /\ AtHead(f, "close") /\ (GoesOn(f, Without(script[f], {"close"})) \/ GoesOn(f, Tail(script[f])))
        /\ "relay" \notin {"close"}
    BY <1>7 DEF CloseCall, setup, Go, GoesOn, Next1
  <2> QED
    BY <1>1, <1>2, <2>1
<1>8. ASSUME NEW luck, DownObserve(luck) \/ FlushPending(luck) \/ FlushTape(luck) PROVE Due("relay", c)'
  BY <1>3, <1>8 DEF DownObserve, FlushPending, FlushTape, setup
<1>9. CASE EditMandate \/ Stop \/ Waited
  BY <1>3, <1>9 DEF EditMandate, Stop, Waited, setup
<1>10. ASSUME NEW f, BreakPipe(f) PROVE FALSE
  BY <1>10 DEF BreakPipe
<1> QED
  BY <1>4, <1>5, <1>6, <1>7, <1>8, <1>9, <1>10 DEF Rest, Records

(***************************************************************************)
(* An answer comes once, and closes one call.                              *)
(***************************************************************************)
Closed(c) == \E k \in 1..Len(tape.end) : tape.end[k].by = c
Coming(c) == Due("pair", c) \/ down = c \/ Closed(c)
CameOnce(c) ==
  /\ Coming(c) => /\ ~Due("write", c) /\ ~Due("answer", c) /\ ~(mode = "enforce" /\ Due("judge", c))
                  /\ reply[c] = "asked" => transport # "pipe" /\ Due("relay", c)
  /\ Due("pair", c) => down # c /\ ~Closed(c)
  /\ down = c => ~Closed(c)
PairedAt(k) == LET by == tape.end[k].by IN
  by # 0 => /\ calls[by].id = calls[tape.call[k]].id
            /\ by > session.before => tape.call[k] > session.before
Paired == /\ \A k \in 1..Len(tape.end) : PairedAt(k)
          /\ \A k, j \in 1..Len(tape.end) : tape.end[k].by # 0 /\ tape.end[k].by = tape.end[j].by => k = j
Owned == Recorded /\ Framewise /\ (\A c \in Call : CameOnce(c)) /\ Paired

LEMMA InitOwned == ASSUME Init PROVE Owned
<1>1. Call = {} /\ Len(tape.end) = 0
  BY DEF Init, Call
<1> QED
  BY <1>1, InitFramewise, InitRecorded DEF Owned, Paired

LEMMA CameStays ==
  ASSUME NEW c \in Call, CameOnce(c), UNCHANGED <<transport, mode>>,
         \A p : Due(p, c)' => Due(p, c),
         Coming(c)' => Coming(c), down' = c => down = c,
         Closed(c)' => Closed(c) \/ (~Due("pair", c)' /\ down' # c),
         reply'[c] = "asked" => reply[c] = "asked" /\ (transport # "pipe" /\ Due("relay", c) => Due("relay", c)')
  PROVE  CameOnce(c)'
<1>1. Coming(c)' => /\ ~Due("write", c)' /\ ~Due("answer", c)' /\ ~(mode' = "enforce" /\ Due("judge", c)')
                    /\ reply'[c] = "asked" => transport' # "pipe" /\ Due("relay", c)'
  BY DEF CameOnce
<1>2. Due("pair", c)' => down' # c /\ ~Closed(c)'
  BY DEF CameOnce
<1>3. down' = c => ~Closed(c)'
  BY DEF CameOnce
<1> QED
  BY <1>1, <1>2, <1>3 DEF CameOnce

LEMMA CameNot == ASSUME NEW c, ~Coming(c) PROVE CameOnce(c)
BY DEF CameOnce, Coming

\* No more answers on the tape than there were.
TapeKeeps ==
  /\ Len(tape'.call) = Len(tape'.end)
  /\ \A k \in 1..Len(tape'.end) :
       \/ tape'.end[k].by = 0
       \/ k \in 1..Len(tape.end) /\ tape'.call[k] = tape.call[k] /\ tape'.end[k].by = tape.end[k].by

LEMMA PairedKeeps ==
  ASSUME TapeTyped, Paired, TapeKeeps, \A c \in Call : calls'[c] = calls[c],
         session'.before = session.before \/ \A c \in Call : ~(c > session'.before)
  PROVE  Paired' /\ \A c : c # 0 /\ Closed(c)' => Closed(c)
<1>1. Len(tape.call) = Len(tape.end) /\ \A k \in 1..Len(tape.end) : tape.call[k] \in Call /\ tape.end[k].by \in {0} \cup Call
  BY DEF TapeTyped, Whole
<1>2. ASSUME NEW k \in 1..Len(tape'.end) PROVE PairedAt(k)'
  <2>1. CASE tape'.end[k].by = 0
    BY <2>1 DEF PairedAt
  <2>2. CASE tape'.end[k].by # 0
    <3>1. k \in 1..Len(tape.end) /\ tape'.call[k] = tape.call[k] /\ tape'.end[k].by = tape.end[k].by
      BY <2>2 DEF TapeKeeps
    <3>2. PairedAt(k) /\ tape.call[k] \in Call /\ tape.end[k].by \in Call
      BY <1>1, <2>2, <3>1 DEF Paired
    <3> QED
      BY <2>2, <3>1, <3>2 DEF PairedAt
  <2> QED
    BY <2>1, <2>2
<1>3. ASSUME NEW k \in 1..Len(tape'.end), NEW j \in 1..Len(tape'.end), tape'.end[k].by # 0,
             tape'.end[k].by = tape'.end[j].by
      PROVE  k = j
  BY <1>3 DEF TapeKeeps, Paired
<1>4. ASSUME NEW c, c # 0, Closed(c)' PROVE Closed(c)
  BY <1>4 DEF Closed, TapeKeeps
<1> QED
  BY <1>2, <1>3, <1>4 DEF Paired

\* A call is closed by the answer c.
LEMMA PairedShut ==
  ASSUME Recorded, Paired, UNCHANGED calls, session'.before = session.before, NEW c \in Call, ~Closed(c),
         NEW luck, NEW i, Shut(i, By(c), luck), calls[pending[i]].id = calls[c].id
  PROVE  Paired' /\ \A d : d # 0 /\ d # c /\ Closed(d)' => Closed(d)
<1>0. Typed /\ Whole(tape) /\ pending \in Seq(Nat) /\ TapeTyped /\ PendingTyped /\ TapedOnce
  BY DEF Recorded, Gated, Begun, TapeTyped, PendingTyped
<1>1. By(c) \in Ends /\ By(c).by = c /\ By(c) # Open /\ c # 0
  BY <1>0, ByIs
<1>2. /\ tape'.call = tape.call /\ Len(tape'.end) = Len(tape.end) /\ i \in 1..Len(pending)
      /\ \A k \in 1..Len(tape.end) :
           tape'.end[k] = IF tape.call[k] = pending[i] /\ tape.end[k] = Open THEN By(c) ELSE tape.end[k]
  BY <1>0, <1>1, ShutDoes
<1>3. Len(tape.call) = Len(tape.end) /\ pending[i] > session.before
  BY <1>0, <1>2 DEF Whole, PendingTyped
<1>4. \A k, j \in 1..Len(tape.end) : tape.call[k] = pending[i] /\ tape.call[j] = pending[i] => k = j
  BY <1>0, <1>3 DEF TapedOnce
<1>5. ASSUME NEW k \in 1..Len(tape.end) PROVE PairedAt(k)'
  <2>1. CASE tape.call[k] = pending[i] /\ tape.end[k] = Open
    BY <1>1, <1>2, <1>3, <2>1 DEF PairedAt
  <2>2. CASE ~(tape.call[k] = pending[i] /\ tape.end[k] = Open)
    <3>1. tape'.end[k] = tape.end[k]
      BY <1>2, <2>2
    <3>2. PairedAt(k)
      BY DEF Paired
    <3> QED
      BY <1>2, <3>1, <3>2 DEF PairedAt
  <2> QED
    BY <2>1, <2>2
<1>6. \A k \in 1..Len(tape.end) : tape.end[k].by # c
  BY DEF Closed
<1>7. ASSUME NEW k \in 1..Len(tape.end), NEW j \in 1..Len(tape.end), tape'.end[k].by # 0,
             tape'.end[k].by = tape'.end[j].by
      PROVE  k = j
  <2>1. CASE tape'.end[k].by = c
    <3>1. tape.call[k] = pending[i] /\ tape.call[j] = pending[i]
      BY <1>2, <1>6, <1>7, <2>1
    <3> QED
      BY <1>4, <3>1
  <2>2. CASE tape'.end[k].by # c
    <3>1. tape'.end[k] = tape.end[k] /\ tape'.end[j] = tape.end[j]
      BY <1>1, <1>2, <1>7, <2>2
    <3> QED
      BY <1>7, <3>1 DEF Paired
  <2> QED
    BY <2>1, <2>2
<1>8. ASSUME NEW d, d # 0, d # c, Closed(d)' PROVE Closed(d)
  BY <1>1, <1>2, <1>8 DEF Closed
<1> QED
  BY <1>2, <1>5, <1>7, <1>8 DEF Paired

\* What the rest of the steps do to the tape: they put no answer on it, or one that had come.
Answers(c) == \E i, luck : Shut(i, By(c), luck) /\ calls[pending[i]].id = calls[c].id
TapeSame == UNCHANGED tape
LEMMA TapeSameKeeps == ASSUME TapeTyped, TapeSame PROVE TapeKeeps
BY DEF TapeSame, TapeKeeps, TapeTyped, Whole

LEMMA ShutKeeps ==
  ASSUME Recorded, NEW i, NEW luck, Shut(i, None("unanswered"), luck)
  PROVE  TapeKeeps
<1>0. Whole(tape) /\ pending \in Seq(Nat) /\ Len(tape.call) = Len(tape.end)
  BY DEF Recorded, TapeTyped, PendingTyped, Whole
<1>1. None("unanswered") \in Ends /\ None("unanswered").by = 0 /\ None("unanswered") # Open
  BY EndsAre DEF Words
<1>2. /\ tape'.call = tape.call /\ Len(tape'.end) = Len(tape.end)
      /\ \A k \in 1..Len(tape.end) :
           tape'.end[k] = IF tape.call[k] = pending[i] /\ tape.end[k] = Open THEN None("unanswered") ELSE tape.end[k]
  BY <1>0, <1>1, ShutDoes
<1>3. \A k \in 1..Len(tape.end) : tape'.end[k] = None("unanswered") \/ tape'.end[k] = tape.end[k]
  BY <1>2
<1> QED
  BY <1>0, <1>1, <1>2, <1>3 DEF TapeKeeps

LEMMA OpenKeeps ==
  ASSUME Recorded, NEW f \in DOMAIN script, NEW luck, OpenCall(f, luck)
  PROVE  TapeKeeps
<1>0. Whole(tape) /\ TapeTyped /\ Typed /\ Framed
  BY DEF Recorded, TapeTyped, Gated, Begun, Typed
<1>1. PICK c : c = One(f)
  OBVIOUS
<1>2. c \in Nat
  <2>1. AtHead(f, "open")
    BY DEF OpenCall
  <2>2. c \in Call
    BY <1>0, <1>1, <2>1, OneOf DEF OneCall
  <2> QED
    BY <1>0, <2>2, CallNumbers
<1>3. CASE AsBefore
  BY <1>0, <1>3, TapeSameKeeps DEF AsBefore, TapeSame
<1>4. CASE ~AsBefore
  <2>1. PICK e \in {Open, None("invalid_id")} : tape' = TapeOpen(tape, c, e, luck)
    BY <1>1, <1>4, OpenDoes
  <2>2. e \in Ends /\ e.by = 0
    BY EndsAre DEF Words
  <2>3. Whole(tape') /\ tape'.call = Append(tape.call, c) /\ tape'.end = Append(tape.end, e)
    BY <1>0, <1>2, <2>1, <2>2, WholeOpened
  <2> PICK m, q, x : m = Len(tape.call) /\ q = tape.call /\ x = tape.end
    OBVIOUS
  <2>4. m \in Nat /\ Len(q) = m /\ Len(x) = m /\ q \in Seq(Nat) /\ x \in Seq(Ends)
    BY <1>0 DEF Whole, Tapes
  <2>5. /\ Len(tape'.call) = m + 1 /\ Len(tape'.end) = m + 1 /\ tape'.end[m + 1] = e
        /\ \A k \in 1..m : tape'.call[k] = q[k] /\ tape'.end[k] = x[k]
    BY <1>2, <2>2, <2>3, <2>4
  <2>6. \A k \in 1..m + 1 : k \in 1..m \/ k = m + 1
    BY <2>4
  <2> QED
    BY <2>2, <2>4, <2>5, <2>6 DEF TapeKeeps
<1> QED
  BY <1>3, <1>4

LEMMA RestTape ==
  ASSUME Recorded, Rest
  PROVE  \/ TapeKeeps /\ down' \in {down, 0}
         \/ \E c \in Call : Due("pair", c) /\ ~Due("pair", c)' /\ down' = down /\ Answers(c)
         \/ down \in Call /\ down' = 0 /\ Answers(down)
<1>0. Typed /\ Framed /\ Whole(tape) /\ TapeTyped /\ pending \in Seq(Nat) /\ DownTyped
  BY DEF Recorded, Gated, Begun, Typed, TapeTyped, PendingTyped
<1>1. ASSUME UNCHANGED <<tape, down>> PROVE TapeKeeps /\ down' \in {down, 0}
  BY <1>0, <1>1, TapeSameKeeps DEF TapeSame
<1>2. ASSUME NEW f \in DOMAIN script, NEW luck \in Lucks, Records(f, luck) PROVE UNCHANGED <<tape, down>>
  BY <1>2 DEF Records, Record
<1>3. ASSUME NEW f \in DOMAIN script, NEW luck \in Lucks, OpenCall(f, luck)
      PROVE  TapeKeeps /\ down' \in {down, 0}
  <2>1. down' = down
    BY <1>3 DEF OpenCall
  <2> QED
    BY <1>3, <2>1, OpenKeeps
<1>4. ASSUME NEW f \in DOMAIN script, NEW luck \in Lucks, Pair(f, luck)
      PROVE  \/ TapeKeeps /\ down' \in {down, 0}
             \/ \E c \in Call : Due("pair", c) /\ ~Due("pair", c)' /\ down' = down /\ Answers(c)
  <2>1. AtHead(f, "pair") /\ Observe(One(f), luck) /\ down' = down /\ Next1(f) /\ UNCHANGED <<transport, mode, calls>>
    BY <1>4 DEF Pair, setup
  <2>2. PICK c : c = One(f)
    OBVIOUS
  <2>3. c \in Call /\ Due("pair", c) /\ Of(f) = {c}
    BY <1>0, <2>1, <2>2, OneOf DEF OneCall
  <2>4. ~Due("pair", c)'
    <3>1. Exactly("pair", Of(f))
      BY <1>0, <2>1, PlainMoves
    <3> QED
      BY <2>3, <3>1 DEF Exactly
  <2>5. AsBefore \/ Answers(c)
    BY <1>0, <2>1, <2>2, ObserveDoes DEF Answers
  <2>6. AsBefore => UNCHANGED <<tape, down>>
    BY <2>1 DEF AsBefore
  <2> QED
    BY <1>1, <2>1, <2>3, <2>4, <2>5, <2>6
<1>5. ASSUME NEW luck \in Lucks, DownObserve(luck)
      PROVE  \/ TapeKeeps /\ down' \in {down, 0}
             \/ down \in Call /\ down' = 0 /\ Answers(down)
  <2>1. down # 0 /\ Observe(down, luck) /\ down' = 0
    BY <1>5 DEF DownObserve
  <2>2. AsBefore \/ Answers(down)
    BY <1>0, <2>1, ObserveDoes DEF Answers
  <2>3. AsBefore => TapeKeeps
    BY <1>0, TapeSameKeeps DEF AsBefore, TapeSame
  <2> QED
    BY <1>0, <2>1, <2>2, <2>3 DEF DownTyped
<1>6. ASSUME NEW f \in DOMAIN script, NEW luck \in Lucks, CloseCall(f, luck)
      PROVE  TapeKeeps /\ down' \in {down, 0}
  <2>1. down' = down
    BY <1>6 DEF CloseCall
  <2>2. AsBefore \/ \E i : Shut(i, None("unanswered"), luck)
    BY <1>0, <1>6, CloseDoes
  <2>3. AsBefore => TapeKeeps
    BY <1>0, TapeSameKeeps DEF AsBefore, TapeSame
  <2> QED
    BY <2>1, <2>2, <2>3, ShutKeeps
<1>7. ASSUME NEW luck \in Lucks, FlushPending(luck) PROVE UNCHANGED <<tape, down>>
  BY <1>7 DEF FlushPending
<1>8. ASSUME NEW luck \in Lucks, FlushTape(luck) PROVE TapeKeeps /\ down' \in {down, 0}
  <2>1. down' = down /\ tape' = TapeFlush(tape, luck)
    BY <1>8 DEF FlushTape
  <2>2. /\ tape'.call = tape.call /\ Len(tape'.end) = Len(tape.end)
        /\ \A k \in 1..Len(tape.end) :
             tape'.end[k] = IF tape.end[k] = Open THEN None("unanswered") ELSE tape.end[k]
    BY <1>0, <2>1, WholeFlushed
  <2>3. None("unanswered").by = 0 /\ Len(tape.call) = Len(tape.end)
    BY <1>0, EndsAre DEF Words, Whole
  <2> QED
    BY <2>1, <2>2, <2>3 DEF TapeKeeps
<1>9. CASE EditMandate \/ Stop \/ Waited \/ \E f \in DOMAIN script : BreakPipe(f)
  BY <1>1, <1>9 DEF EditMandate, Stop, Waited, BreakPipe
<1> QED
  BY <1>1, <1>2, <1>3, <1>4, <1>5, <1>6, <1>7, <1>8, <1>9 DEF Rest

Came == \A c \in Call : CameOnce(c)

LEMMA OwnedStep ==
  ASSUME Owned, [Next]_vars
  PROVE  Came' /\ Paired'
<1>0. /\ Recorded /\ Framewise /\ Came /\ Paired /\ Gated /\ Begun /\ Typed /\ Framed /\ SessionTyped /\ SaidTyped
      /\ JudgedFirst /\ Asking /\ RelayFrame /\ TapeTyped /\ DownTyped /\ PendingTyped
      /\ transport' = transport /\ mode' = mode
  BY SetupStays DEF Owned, Came, Recorded, Framewise, Gated, Begun, Typed
<1>00. 0 \notin Call
  BY <1>0, CallNumbers
<1>k. TapeSame => TapeKeeps
  BY <1>0, TapeSameKeeps
<1>1. ASSUME NEW n \in Frames, NEW kinds \in [1..n -> Kinds], Send(kinds)
      PROVE  Came' /\ Paired'
  <2>1. /\ Call' = Call \cup New(kinds) /\ New(kinds) \cap Call = {} /\ session'.before = session.before
        /\ \A c \in Call : calls'[c] = calls[c] /\ \A p : Due(p, c)' <=> Due(p, c)
        /\ \A c \in New(kinds) : \A p : Due(p, c)' <=> p \in ScriptOps
        /\ \A c \in Call : reply'[c] = reply[c]
        /\ UNCHANGED <<down, tape>> /\ \A c \in New(kinds) : c # 0
    <3>1. \A c \in New(kinds) : c > session.before
      BY <1>0, <1>1, SendSays
    <3>2. session.before \in Nat
      BY <1>0 DEF SessionTyped
    <3>3. \A c \in New(kinds) : c # 0
      BY <3>1, <3>2 DEF New
    <3> QED
      BY <1>0, <1>1, <3>3, SendMoves, SendSays
  <2>2. Paired'
    BY <1>0, <1>k, <2>1, PairedKeeps DEF TapeSame
  <2>3. \A c : Closed(c)' <=> Closed(c)
    BY <2>1 DEF Closed
  <2>4. "pair" \notin ScriptOps
    BY DEF ScriptOps, WatchOps
  <2>5. ASSUME NEW c \in Call PROVE CameOnce(c)'
    <3>1. CameOnce(c) /\ \A p : Due(p, c)' <=> Due(p, c)
      BY <1>0, <2>1 DEF Came
    <3>2. /\ Coming(c)' => Coming(c)
          /\ down' = c => down = c
          /\ Closed(c)' => Closed(c)
          /\ reply'[c] = "asked" => reply[c] = "asked" /\ (Due("relay", c) => Due("relay", c)')
      BY <2>1, <2>3, <3>1 DEF Coming
    <3> QED
      BY <1>0, <3>1, <3>2, CameStays
  <2>6. ASSUME NEW c \in New(kinds) PROVE CameOnce(c)'
    <3>1. c \notin Call /\ c # 0
      BY <2>1
    <3>2. ~Closed(c)
      BY <1>0, <3>1 DEF Closed, TapeTyped
    <3>3. down # c
      BY <1>0, <3>1 DEF DownTyped
    <3>4. ~Coming(c)'
      BY <2>1, <2>3, <2>4, <3>2, <3>3 DEF Coming
    <3> QED
      BY <3>4 DEF CameOnce, Coming
  <2> QED
    BY <2>1, <2>2, <2>5, <2>6 DEF Came
\* Where nothing comes that had not, and a relay is kept.
<1>2. ASSUME UNCHANGED calls, TapeKeeps, session'.before = session.before \/ \A c \in Call : ~(c > session'.before),
             NEW S, \A c \in S : CameOnce(c)',
             \A c \in Call \ S : /\ \A p : Due(p, c)' => Due(p, c)
                                 /\ down' = c => down = c
                                 /\ reply'[c] = "asked" => reply[c] = "asked"
                                      /\ (transport # "pipe" /\ Due("relay", c) => Due("relay", c)')
      PROVE  Came' /\ Paired'
  <2>1. Call' = Call
    BY <1>2 DEF Call
  <2>2. Paired' /\ \A c : c # 0 /\ Closed(c)' => Closed(c)
    BY <1>0, <1>2, PairedKeeps
  <2>3. ASSUME NEW c \in Call, c \notin S PROVE CameOnce(c)'
    <3>1. CameOnce(c) /\ c # 0
      BY <1>0, <1>00 DEF Came
    <3>2. /\ \A p : Due(p, c)' => Due(p, c)
          /\ down' = c => down = c
          /\ reply'[c] = "asked" => reply[c] = "asked" /\ (transport # "pipe" /\ Due("relay", c) => Due("relay", c)')
      BY <1>2, <2>3
    <3>3. Closed(c)' => Closed(c)
      BY <2>2, <3>1
    <3>4. Coming(c)' => Coming(c)
      BY <3>2, <3>3 DEF Coming
    <3> QED
      BY <1>0, <3>1, <3>2, <3>3, <3>4, CameStays
  <2> QED
    BY <1>2, <2>1, <2>2, <2>3 DEF Came
<1>3. ASSUME NEW f \in DOMAIN script, NEW luck \in Lucks, Judge(f, luck), mode = "enforce"
      PROVE  Came' /\ Paired'
  <2>1. UNCHANGED <<transport, mode, calls, reply, session, down, tape>> /\ Call' = Call
    BY <1>0, <1>3, JudgeSays DEF Call
  <2>2. \A c \in CallsOf(f) : c \in Call /\ calls[c].frame = f /\ Due("judge", c) /\ reply[c] = "none"
    BY <1>0, <1>3, JudgedWhole, HeadOf DEF Judge, Gated, ToJudge
  <2>3. ASSUME NEW c \in CallsOf(f) PROVE CameOnce(c)'
    <3>1. ~Coming(c)
      BY <1>0, <1>3, <2>2 DEF Came, CameOnce
    <3>2. down # c /\ ~Closed(c)
      BY <3>1 DEF Coming
    <3>3. down' # c /\ ~Closed(c)' /\ reply'[c] # "asked"
      BY <2>1, <2>2, <3>2 DEF Closed
    <3>4. Due("pair", c)' => ~Due("write", c)' /\ ~Due("answer", c)' /\ ~Due("judge", c)'
      <4>0. c \in Call /\ calls[c].frame = f
        BY <2>2
      <4>1. CASE DeafGate
        <5>1. \A p : Due(p, c)' <=> p \in PassedOps \ {"record"} /\ c \in Of(f)
          BY <1>0, <1>3, <4>0, <4>1, JudgeMoves
        <5> QED
          BY <5>1 DEF PassedOps
      <4>2. CASE ~DeafGate /\ \A d \in Of(f) : Detail(d) = "inside"
        <5>1. \A p : Due(p, c)' <=> p \in PassedOps /\ c \in Of(f)
          BY <1>0, <1>3, <4>0, <4>2, JudgeMoves
        <5> QED
          BY <5>1 DEF PassedOps
      <4>3. CASE ~DeafGate /\ ~\A d \in Of(f) : Detail(d) = "inside"
        <5>1. \A p : Due(p, c)' <=> <<p, c>> \in HeldPlan(Of(f))
          BY <1>0, <1>3, <4>0, <4>3, JudgeMoves
        <5>2. /\ <<"answer", c>> \notin HeldPlan(Of(f)) /\ <<"write", c>> \notin HeldPlan(Of(f))
              /\ <<"judge", c>> \notin HeldPlan(Of(f))
          BY DEF HeldPlan
        <5> QED
          BY <5>1, <5>2
      <4> QED
        BY <4>1, <4>2, <4>3
    <3> QED
      BY <3>3, <3>4 DEF CameOnce, Coming
  <2>4. ASSUME NEW c \in Call \ CallsOf(f) PROVE \A p : Due(p, c)' <=> Due(p, c)
    <3>1. calls[c].frame # f
      BY DEF CallsOf
    <3> QED
      BY <1>0, <1>3, <3>1, JudgeMoves
  <2>5. TapeKeeps
    BY <1>k, <2>1 DEF TapeSame
  <2> QED
    BY <1>2, <2>1, <2>3, <2>4, <2>5
<1>4. ASSUME NEW f \in DOMAIN script, NEW luck \in Lucks, Judge(f, luck), mode # "enforce"
      PROVE  Came' /\ Paired'
  <2>1. UNCHANGED <<transport, mode, calls, reply, session, down, tape>>
    BY <1>0, <1>4, JudgeSays
  <2>2. \A p : \A c \in Call : Due(p, c)' => Due(p, c)
    BY <1>0, <1>4, JudgeMoves
  <2>3. \A c \in Call : Due("relay", c) => Due("relay", c)'
    BY <1>0, <1>4, JudgeMoves
  <2>4. TapeKeeps
    BY <1>k, <2>1 DEF TapeSame
  <2>5. PICK S : S = {}
    OBVIOUS
  <2> QED
    BY <1>2, <2>1, <2>2, <2>3, <2>4, <2>5
<1>5. ASSUME NEW f \in DOMAIN script, NEW o \in PutOps, Put(f, o)
      PROVE  Came' /\ Paired'
  <2>1. /\ Shrinks /\ Exactly(o, Of(f)) /\ UNCHANGED <<session, down, tape>>
        /\ \A c \in Of(f) : c \in Call /\ Due(o, c)
    BY <1>0, <1>5, PutMoves
  <2>2. \A c \in Call : reply'[c] = IF c \in Of(f) THEN PutWord(o) ELSE reply[c]
    BY <1>0, <1>5, PutSays
  <2>3. TapeKeeps /\ calls' = calls
    BY <1>k, <2>1 DEF TapeSame, Shrinks
  <2>4. \A p : \A c \in Call : Due(p, c)' => Due(p, c)
    BY <2>1 DEF Shrinks
  <2>5. \A c \in Call \ Of(f) : \A p : Due(p, c)' <=> Due(p, c)
    BY <2>1 DEF Exactly
  <2>6. CASE o = "write"
    <3>1. ASSUME NEW c \in Of(f) PROVE CameOnce(c)'
      <4>1. ~Coming(c)
        BY <1>0, <2>1, <2>6 DEF Came, CameOnce
      <4>2. ~Coming(c)'
        BY <2>1, <2>4, <4>1 DEF Coming, Closed
      <4> QED
        BY <4>2 DEF CameOnce, Coming
    <3> QED
      BY <1>2, <2>1, <2>2, <2>3, <2>4, <2>5, <3>1
  <2>7. CASE o # "write"
    <3>1. PutWord(o) # "asked"
      BY <2>7 DEF PutWord, PutOps
    <3>2. \A c \in Call : reply'[c] = "asked" => c \notin Of(f) /\ reply[c] = "asked"
      BY <2>2, <3>1
    <3>3. PICK S : S = {}
      OBVIOUS
    <3> QED
      BY <1>2, <2>1, <2>3, <2>4, <2>5, <3>2, <3>3
  <2> QED
    BY <2>6, <2>7
<1>6. ASSUME NEW f \in DOMAIN script, NEW a \in SUBSET CallsOf(f), NEW read \in SUBSET a,
             NEW left \in BOOLEAN,
             Respond(f, a, read, left)
      PROVE  Came' /\ Paired'
  <2>1. Responded(f, a, read, left) /\ a \subseteq Of(f) /\ read \subseteq Of(f)
    BY <1>0, <1>6, RespondMoves DEF Respond
  <2>2. UNCHANGED <<calls, reply, down, tape, session>>
    BY <1>6 DEF Respond
  <2>3. \A c \in CallsOf(f) : c \in Call /\ calls[c].frame = f
    BY DEF CallsOf
  <2>4. ASSUME NEW c \in CallsOf(f) PROVE CameOnce(c)'
    <3>1. c \in Call /\ \A p : /\ Due(p, c)' <=> <<p, c>> \in AnsweredPlan(Of(f), a, read, left)
                               /\ Due(p, c) => p = "answer" /\ c \in Of(f)
                               /\ c \in Of(f) => Due("answer", c)
      BY <2>1, <2>3 DEF Responded
    <3>2. CASE c \in Of(f)
      <4>1. ~Coming(c) /\ Due("answer", c)
        BY <1>0, <3>1, <3>2 DEF Came, CameOnce
      <4>2. transport # "pipe"
        BY <1>0, <3>1, <4>1 DEF Asking, AsksOnce
      <4>3. down' # c /\ ~Closed(c)'
        BY <2>2, <4>1 DEF Coming, Closed
      <4>4. /\ <<"write", c>> \notin AnsweredPlan(Of(f), a, read, left)
            /\ <<"answer", c>> \notin AnsweredPlan(Of(f), a, read, left)
            /\ mode = "enforce" => <<"judge", c>> \notin AnsweredPlan(Of(f), a, read, left)
            /\ <<"pair", c>> \in AnsweredPlan(Of(f), a, read, left)
                 => <<"relay", c>> \in AnsweredPlan(Of(f), a, read, left)
        BY DEF AnsweredPlan, WatchOps
      <4> QED
        BY <1>0, <3>1, <4>2, <4>3, <4>4 DEF CameOnce, Coming
    <3>3. CASE c \notin Of(f)
      <4>1. \A p : <<p, c>> \notin AnsweredPlan(Of(f), a, read, left)
        BY <2>1, <3>3 DEF AnsweredPlan
      <4>2. \A p : ~Due(p, c)' /\ ~Due(p, c)
        BY <3>1, <3>3, <4>1
      <4>3. CameOnce(c) /\ (Closed(c)' <=> Closed(c)) /\ down' = down /\ reply' = reply
        BY <1>0, <2>2, <3>1 DEF Came, Closed
      <4>4. /\ Coming(c)' => Coming(c)
            /\ ~Due("relay", c) /\ ~Due("pair", c)'
        BY <4>2, <4>3 DEF Coming
      <4> QED
        BY <1>0, <3>1, <4>2, <4>3, <4>4, CameStays
    <3> QED
      BY <3>2, <3>3
  <2>5. ASSUME NEW c \in Call \ CallsOf(f) PROVE \A p : Due(p, c)' <=> Due(p, c)
    <3>1. calls[c].frame # f
      BY DEF CallsOf
    <3> QED
      BY <2>1, <3>1 DEF Responded
  <2>6. TapeKeeps
    BY <1>k, <2>2 DEF TapeSame
  <2> QED
    BY <1>2, <2>2, <2>4, <2>5, <2>6
<1>7. ASSUME NEW c \in Call, NEW read \in BOOLEAN, DownRelay(c, read)
      PROVE  Came' /\ Paired'
  <2>1. /\ UNCHANGED <<transport, mode, calls, script, tape, session>>
        /\ reply' = [reply EXCEPT ![c] = IF read THEN "relayed" ELSE "unread"]
        /\ reply[c] = "asked" /\ down' \in {0, c}
        /\ transport # "pipe" => script[calls[c].frame] = <<>>
    BY <1>7 DEF DownRelay, setup
  <2>2. \A p : \A d \in Call : Due(p, d)' <=> Due(p, d)
    BY <1>0, <2>1, NothingMoves
  <2>3. Call = 1..Len(calls) /\ reply \in [Call -> Replies]
    BY <1>0, CallIs DEF Framed, SaidTyped
  <2>4. \A d \in Call : d # c => reply'[d] = reply[d]
    BY <2>1, <2>3
  <2>4a. reply'[c] \in {"relayed", "unread"}
    BY <2>1, <2>3
  <2>5. TapeKeeps
    BY <1>k, <2>1 DEF TapeSame
  <2>6. ASSUME transport # "pipe" PROVE \A p : ~Due(p, c)
    BY <2>1, <2>6 DEF Due, Has
  <2>7. ~Coming(c)
    BY <1>0, <2>1, <2>6 DEF Came, CameOnce
  <2>8. ~Due("write", c) /\ ~Due("answer", c) /\ ~(mode = "enforce" /\ Due("judge", c))
    <3>1. AsksOnce(c)
      BY <1>0 DEF Asking
    <3>2. mode = "enforce" => ~Due("judge", c)
      BY <1>0, <2>1 DEF Gated, ToJudge
    <3> QED
      BY <2>1, <2>6, <3>1, <3>2 DEF AsksOnce
  <2>9. CameOnce(c)'
    <3>1. ~Due("pair", c)' /\ ~Closed(c)'
      BY <2>1, <2>2, <2>7 DEF Coming, Closed
    <3> QED
      BY <1>0, <2>2, <2>4a, <2>8, <3>1 DEF CameOnce
  <2>10. PICK S : S = {c}
    OBVIOUS
  <2>11. \A d \in Call \ S : /\ \A p : Due(p, d)' => Due(p, d)
                             /\ down' = d => down = d
                             /\ reply'[d] = "asked" => reply[d] = "asked"
                                  /\ (transport # "pipe" /\ Due("relay", d) => Due("relay", d)')
    BY <1>00, <2>1, <2>2, <2>4, <2>10
  <2>12. \A d \in S : CameOnce(d)'
    BY <2>9, <2>10
  <2> QED
    BY <1>2, <2>1, <2>5, <2>11, <2>12
<1>8. CASE Restart
  <2>1. Shrinks /\ \A p : \A c \in Call : ~Due(p, c)'
    BY <1>0, <1>8, RestartMoves
  <2>2. /\ calls' = calls /\ down' = 0 /\ session'.before = Len(calls)
        /\ reply' = [c \in Call |-> IF reply[c] \in {"relayed", "unread", "refused"} THEN reply[c] ELSE "lost"]
    BY <1>8 DEF Restart
  <2>3. TapeKeeps
    <3>1. PICK last : last = LastOf(tape)
      OBVIOUS
    <3>2. tape' = Cut(tape, last)
      BY <1>8, <3>1 DEF Restart, LastOf, Cut
    <3>3. Whole(tape)
      BY <1>0 DEF TapeTyped
    <3>4. /\ last \in 0..Len(tape.end) /\ Len(tape'.end) = last /\ Len(tape'.call) = last
          /\ \A k \in 1..last : tape'.call[k] = tape.call[k] /\ tape'.end[k] = tape.end[k]
      BY <3>1, <3>2, <3>3, WholeResumed
    <3>5. \A k \in 1..last : k \in 1..Len(tape.end)
      BY <3>3, <3>4 DEF Whole, Tapes
    <3> QED
      BY <3>4, <3>5 DEF TapeKeeps
  <2>4. \A c \in Call : ~(c > session'.before)
    BY <1>0, <2>2, CallNumbers
  <2>5. \A c \in Call : reply'[c] # "asked"
    BY <2>2
  <2>6. PICK S : S = {}
    OBVIOUS
  <2>7. \A c \in Call \ S : /\ \A p : Due(p, c)' => Due(p, c)
                            /\ down' = c => down = c
                            /\ reply'[c] = "asked" => reply[c] = "asked"
                                 /\ (transport # "pipe" /\ Due("relay", c) => Due("relay", c)')
    BY <1>00, <2>1, <2>2, <2>5
  <2> QED
    BY <1>2, <2>2, <2>3, <2>4, <2>6, <2>7
<1>9. CASE Rest
  <2>1. Elsewhere
    BY <1>0, <1>9, ElsewhereMoves
  <2>2. /\ UNCHANGED <<calls, reply>> /\ session'.before = session.before /\ Call' = Call
        /\ \A p : \A c \in Call : Due(p, c)' => Due(p, c)
    BY <2>1 DEF Elsewhere, Shrinks
  <2>3. \A c \in Call : transport # "pipe" /\ Due("relay", c) => Due("relay", c)'
    BY <1>0, <1>9, RelayKept
  <2>4. CASE TapeKeeps /\ down' \in {down, 0}
    <3>1. PICK S : S = {}
      OBVIOUS
    <3> QED
      BY <1>2, <1>00, <2>2, <2>3, <2>4, <3>1
  <2>5. ASSUME NEW c \in Call, Answers(c), ~Due("pair", c)', ~(down' = c), down' \in {down, 0}, Coming(c), ~Closed(c)
        PROVE  Came' /\ Paired'
    <3>1. PICK i, luck : Shut(i, By(c), luck) /\ calls[pending[i]].id = calls[c].id
      BY <2>5 DEF Answers
    <3>3. Paired' /\ \A d : d # 0 /\ d # c /\ Closed(d)' => Closed(d)
      BY <1>0, <2>2, <2>5, <3>1, PairedShut
    <3>4. ASSUME NEW d \in Call PROVE CameOnce(d)'
      <4>1. CameOnce(d) /\ d # 0
        BY <1>0, <1>00 DEF Came
      <4>2. /\ Closed(d)' => Closed(d) \/ (~Due("pair", d)' /\ down' # d)
            /\ Coming(d)' => Coming(d)
        <5>1. CASE d = c
          BY <2>5, <5>1
        <5>2. CASE d # c
          <6>1. Closed(d)' => Closed(d)
            BY <3>3, <4>1, <5>2
          <6> QED
            BY <2>2, <2>5, <4>1, <6>1 DEF Coming
        <5> QED
          BY <5>1, <5>2
      <4>3. /\ \A p : Due(p, d)' => Due(p, d)
            /\ down' = d => down = d
            /\ reply'[d] = "asked" => reply[d] = "asked" /\ (transport # "pipe" /\ Due("relay", d) => Due("relay", d)')
        BY <2>2, <2>3, <2>5, <4>1
      <4> QED
        BY <1>0, <4>1, <4>2, <4>3, CameStays
    <3> QED
      BY <2>2, <3>3, <3>4 DEF Came
  <2>6. ASSUME NEW c \in Call, Due("pair", c), ~Due("pair", c)', down' = down, Answers(c)
        PROVE  Came' /\ Paired'
    <3>1. down # c /\ ~Closed(c) /\ Coming(c)
      BY <1>0, <2>6 DEF Came, CameOnce, Coming
    <3> QED
      BY <2>5, <2>6, <3>1
  <2>7. ASSUME down \in Call, down' = 0, Answers(down)
        PROVE  Came' /\ Paired'
    <3>1. PICK c \in Call : c = down
      BY <2>7
    <3>2. ~Closed(c) /\ Coming(c) /\ ~Due("pair", c)
      BY <1>0, <3>1 DEF Came, CameOnce, Coming
    <3>3. ~Due("pair", c)' /\ ~(down' = c) /\ Answers(c)
      BY <1>00, <2>2, <2>7, <3>1, <3>2
    <3> QED
      BY <2>5, <2>7, <3>1, <3>2, <3>3
  <2> QED
    BY <1>0, <1>9, <2>4, <2>6, <2>7, RestTape
<1>10. CASE UNCHANGED vars
  <2>1. UNCHANGED <<transport, mode, calls, script, reply, tape, down, session>>
    BY <1>10 DEF vars
  <2>2. \A p : \A d \in Call : Due(p, d)' <=> Due(p, d)
    BY <1>0, <2>1, NothingMoves
  <2>3. TapeKeeps
    BY <1>k, <2>1 DEF TapeSame
  <2>4. PICK S : S = {}
    OBVIOUS
  <2> QED
    BY <1>2, <2>1, <2>2, <2>3, <2>4
<1>11. CASE Next
  BY <1>1, <1>3, <1>4, <1>5, <1>6, <1>7, <1>8, <1>9, <1>11, NextIs, PutsIs
<1> QED
  BY <1>10, <1>11

\* Every call is opened once and asked once, an answer comes for it once, and closes a call
\* of its id: what the tape's ends are taken from.
THEOREM SpecOwned == Spec => []Owned
<1>1. Init => Owned
  BY InitOwned
<1>2. Owned /\ [Next]_vars => Owned'
  <2> SUFFICES ASSUME Owned, [Next]_vars PROVE Owned'
    OBVIOUS
  <2>1. Recorded' /\ Framewise'
    BY RecordedStep, FramewiseStep DEF Owned
  <2> QED
    BY <2>1, OwnedStep DEF Owned, Came
<1> QED
  BY <1>1, <1>2, PTL DEF Spec

\* An answer closes one call, one of its id, and its own where no other call of the session
\* has that id.
THEOREM AnswersOwn == Spec => []AnswersAreOwn
<1>1. Owned => AnswersAreOwn
  <2> SUFFICES ASSUME Owned, NEW k \in DOMAIN tape.call, tape.end[k].by # 0
               PROVE  LET by == tape.end[k].by IN
                        /\ calls[by].id = calls[tape.call[k]].id
                        /\ by > session.before /\ OwnId(by) => by = tape.call[k]
                        /\ \A j \in DOMAIN tape.call : tape.end[j].by = by => j = k
    BY DEF AnswersAreOwn
  <2>1. /\ DOMAIN tape.call = 1..Len(tape.end)
        /\ \A j \in 1..Len(tape.end) : tape.call[j] \in Call
    BY DEF Owned, Recorded, TapeTyped, Whole, Tapes
  <2> PICK by : by = tape.end[k].by
    OBVIOUS
  <2>2. calls[by].id = calls[tape.call[k]].id /\ (by > session.before => tape.call[k] > session.before)
    BY <2>1 DEF Owned, Paired, PairedAt
  <2>3. \A j \in DOMAIN tape.call : tape.end[j].by = by => j = k
    BY <2>1 DEF Owned, Paired
  <2>4. ASSUME by > session.before, OwnId(by) PROVE by = tape.call[k]
    BY <2>1, <2>2, <2>4 DEF OwnId
  <2> QED
    BY <2>2, <2>3, <2>4
<1> QED
  BY <1>1, SpecOwned, PTL

(***************************************************************************)
(* The total of a pipe under enforce.                                      *)
(*                                                                         *)
(* What a set of calls costs, as the size of a set of units.               *)
(***************************************************************************)
UnitsOf(c) == {c} \X (1..calls[c].cost)
Units(S) == UNION {UnitsOf(c) : c \in S}

LEMMA UnitsFinite ==
  ASSUME FramesTyped, NEW S, S \subseteq Call
  PROVE  /\ IsFiniteSet(Units(S)) /\ Cost(S) = Cardinality(Units(S)) /\ Cost(S) \in Nat
<1>1. \A c \in Call : calls[c].cost \in Nat
  BY FrameOf DEF Calls
<1>2. IsFiniteSet(Call)
  <2>1. Call = 1..Len(calls) /\ Len(calls) \in Nat
    BY CallIs DEF FramesTyped
  <2>2. 1 \in Int /\ Len(calls) \in Int
    BY <2>1
  <2> QED
    BY <2>1, <2>2, FS_Interval
<1>3. IsFiniteSet(S)
  BY <1>2, FS_Subset
<1>4. ASSUME NEW c \in S PROVE IsFiniteSet(UnitsOf(c))
  <2>1. calls[c].cost \in Nat
    BY <1>1
  <2>2. 1 \in Int /\ calls[c].cost \in Int
    BY <2>1
  <2>3. IsFiniteSet({c}) /\ IsFiniteSet(1..calls[c].cost)
    BY <2>2, FS_Interval, FS_Singleton
  <2> QED
    BY <2>3, FS_Product DEF UnitsOf
<1>5. IsFiniteSet({UnitsOf(c) : c \in S})
  <2>1. [c \in S |-> UnitsOf(c)] \in Surjection(S, {UnitsOf(c) : c \in S})
    BY DEF Surjection
  <2> QED
    BY <1>3, <2>1, FS_Surjection
<1>6. IsFiniteSet(Units(S))
  BY <1>4, <1>5, FS_UNION DEF Units
<1>7. Cost(S) = Cardinality(Units(S))
  BY DEF Cost, Units, UnitsOf
<1> QED
  BY <1>6, <1>7, FS_CardinalityType

LEMMA NothingCosts == Cost({}) = 0
<1>1. UNION {{c} \X (1..calls[c].cost) : c \in {}} = {}
  OBVIOUS
<1> QED
  BY <1>1, FS_EmptySet DEF Cost

LEMMA CostGrows ==
  ASSUME FramesTyped, NEW S, NEW T, S \subseteq T, T \subseteq Call
  PROVE  Cost(S) \in Nat /\ Cost(T) \in Nat /\ Cost(S) <= Cost(T)
<1>1. S \subseteq Call
  OBVIOUS
<1>2. /\ IsFiniteSet(Units(T)) /\ Cost(T) = Cardinality(Units(T)) /\ Cost(T) \in Nat
      /\ Cost(S) = Cardinality(Units(S)) /\ Cost(S) \in Nat
  BY <1>1, UnitsFinite
<1>3. Units(S) \in SUBSET Units(T)
  BY DEF Units
<1>4. Cardinality(Units(S)) <= Cardinality(Units(T))
  BY <1>2, <1>3, FS_Subset
<1> QED
  BY <1>2, <1>4

LEMMA CostAdds ==
  ASSUME FramesTyped, NEW S, NEW T, S \subseteq Call, T \subseteq Call
  PROVE  /\ Cost(S \cup T) \in Nat /\ Cost(S) \in Nat /\ Cost(T) \in Nat
         /\ Cost(S \cup T) <= Cost(S) + Cost(T)
<1>1. /\ IsFiniteSet(Units(T)) /\ Cost(T) = Cardinality(Units(T)) /\ Cost(T) \in Nat
      /\ IsFiniteSet(Units(S)) /\ Cost(S) = Cardinality(Units(S)) /\ Cost(S) \in Nat
  BY UnitsFinite
<1>2. S \cup T \subseteq Call
  OBVIOUS
<1>3. Cost(S \cup T) = Cardinality(Units(S \cup T)) /\ Cost(S \cup T) \in Nat
  BY <1>2, UnitsFinite
<1>4. Units(S \cup T) = Units(S) \cup Units(T)
  BY DEF Units
<1>5. Cardinality(Units(S) \cup Units(T))
        = Cardinality(Units(S)) + Cardinality(Units(T)) - Cardinality(Units(S) \cap Units(T))
  BY <1>1, FS_Union
<1>6. Cardinality(Units(S) \cap Units(T)) \in Nat
  <2>1. Units(S) \cap Units(T) \in SUBSET Units(S)
    OBVIOUS
  <2>2. IsFiniteSet(Units(S) \cap Units(T))
    BY <1>1, <2>1, FS_Subset
  <2> QED
    BY <2>2, FS_CardinalityType
<1> PICK s, t, u, i : /\ s = Cardinality(Units(S)) /\ t = Cardinality(Units(T))
                       /\ u = Cardinality(Units(S \cup T)) /\ i = Cardinality(Units(S) \cap Units(T))
  OBVIOUS
<1>7. s \in Nat /\ t \in Nat /\ i \in Nat /\ u = s + t - i
  BY <1>1, <1>4, <1>5, <1>6
<1>8. u <= s + t
  BY <1>7
<1> QED
  BY <1>1, <1>3, <1>8

LEMMA CostOfOne ==
  ASSUME FramesTyped, NEW c \in Call
  PROVE  calls[c].cost \in Nat /\ Cost({c}) = calls[c].cost
<1>1. calls[c].cost \in Nat
  BY FrameOf DEF Calls
<1>2. Cost({c}) = Cardinality(UnitsOf(c))
  <2>1. UNION {{d} \X (1..calls[d].cost) : d \in {c}} = {c} \X (1..calls[c].cost)
    OBVIOUS
  <2> QED
    BY <2>1 DEF Cost, UnitsOf
<1>3. IsFiniteSet({c}) /\ Cardinality({c}) = 1
  BY FS_Singleton
<1>4. 1 \in Int /\ calls[c].cost \in Int
  BY <1>1
<1>5. IsFiniteSet(1..calls[c].cost) /\ Cardinality(1..calls[c].cost) = calls[c].cost
  <2> PICK k : k = calls[c].cost
    OBVIOUS
  <2>1. k \in Nat /\ k \in Int
    BY <1>1
  <2>2. IsFiniteSet(1..k) /\ Cardinality(1..k) = IF 1 > k THEN 0 ELSE k - 1 + 1
    BY <1>4, <2>1, FS_Interval
  <2>3. Cardinality(1..k) = k
    BY <2>1, <2>2
  <2> QED
    BY <2>2, <2>3
<1>6. Cardinality({c} \X (1..calls[c].cost)) = Cardinality({c}) * Cardinality(1..calls[c].cost)
  BY <1>3, <1>5, FS_Product
<1> QED
  BY <1>1, <1>2, <1>3, <1>5, <1>6 DEF UnitsOf

LEMMA FreeCosts ==
  ASSUME NEW S, NEW T, T \subseteq S, \A c \in S \ T : calls[c].cost = 0
  PROVE  Cost(S) = Cost(T)
<1>1. \A c \in S \ T : {c} \X (1..calls[c].cost) = {}
  OBVIOUS
<1>2. UNION {{c} \X (1..calls[c].cost) : c \in S} = UNION {{c} \X (1..calls[c].cost) : c \in T}
  BY <1>1
<1> QED
  BY <1>2 DEF Cost

LEMMA CostStays ==
  ASSUME NEW S, \A c \in S : calls'[c] = calls[c]
  PROVE  Cost(S)' = Cost(S)
<1>1. {{c} \X (1..calls'[c].cost) : c \in S} = {{c} \X (1..calls[c].cost) : c \in S}
  OBVIOUS
<1> QED
  BY <1>1 DEF Cost

\* No more than one.
LEMMA OneAtMost ==
  ASSUME NEW S, IsFiniteSet(S), Cardinality(S) <= 1
  PROVE  S = {} \/ \E x : S = {x}
<1> SUFFICES ASSUME NEW x \in S, NEW y \in S, x # y PROVE FALSE
  OBVIOUS
<1>1. IsFiniteSet({x}) /\ Cardinality({x}) = 1
  BY FS_Singleton
<1>2. {x} \cup {y} \in SUBSET S
  OBVIOUS
<1>3. Cardinality({x} \cup {y}) = 2
  BY <1>1, FS_AddElement, SMTT(30)
<1>4. Cardinality({x} \cup {y}) <= Cardinality(S) /\ Cardinality(S) \in Nat
  BY <1>2, FS_Subset, FS_CardinalityType
<1> QED
  BY <1>3, <1>4

(***************************************************************************)
(* The up thread takes its frames one after another.                       *)
(***************************************************************************)
Piped == mode = "enforce" /\ transport = "pipe"
\* Nothing is done with a frame behind one that is not done with.
Turns == \A f \in 1..Len(script), c \in Call :
           f < calls[c].frame /\ script[f] # <<>> => \A p : Due(p, c) => p = "judge"
\* A frame held back records no spend, and what is to be recorded was found inside.
Apart == /\ \A c, d \in Call : calls[c].frame = calls[d].frame /\ Due("refuse", c) => ~Due("record", d)
         /\ \A c \in Call : ~Due("relay", c) /\ ~Due("pass", c) /\ (Due("record", c) => verdict[c] = "inside")
Priced == \A c \in Call : calls[c].act # "spend" => calls[c].cost = 0
Going == {c \in Call : c > session.before /\ (reply[c] \in {"asked", "relayed", "unread"} \/ Due("write", c))}
Recording == {c \in Call : Due("record", c)}
Capped == \A f \in DOMAIN script : Cardinality(Spends(f)) <= 1
\* The thread that reads from the agent is gone: nothing will get past the first frame.
Blocked == script # <<>> /\ script[1] = All("gone", {})
\* What goes to the server costs no more than the total, nor than was counted or is being counted
\* while there is a thread to forward any more.
Paid == /\ spent \in Nat
        /\ Capped => Cost(Going) <= Cap /\ (Blocked \/ Cost(Going) <= spent + Cost(Recording))
Base == Framewise /\ Priced
Kept == Base /\ (Piped => Turns /\ Apart /\ Paid)

LEMMA InitKept == ASSUME Init PROVE Kept
<1>1. Call = {} /\ spent = 0 /\ Len(script) = 0
  BY DEF Init, Call
<1>2. Going = {} /\ Recording = {}
  BY <1>1 DEF Going, Recording
<1>3. Cost(Going) = 0 /\ Cost(Recording) = 0 /\ Cap \in Nat
  BY <1>2, NothingCosts, BoundsAssumption
<1>4. Paid
  BY <1>1, <1>3 DEF Paid
<1> QED
  BY <1>1, <1>4, InitFramewise DEF Kept, Base, Priced, Turns, Apart

\* What the handler of a frame does to the scripts: to its own, or an end to them all.
OwnTurn(f) == \E o, s : o # "gone" /\ AtHead(f, o) /\ script' = [script EXCEPT ![f] = s]
AllGone == \E s \in {<<>>, All("gone", {})} : script' = [g \in DOMAIN script |-> s]

LEMMA TurnsKept ==
  ASSUME Framed, Turns, transport = "pipe", UNCHANGED calls, NEW f \in DOMAIN script, OwnTurn(f)
  PROVE  Turns'
<1>1. PICK o, s : AtHead(f, o) /\ script' = [script EXCEPT ![f] = s]
  BY DEF OwnTurn
<1>2. script \in Seq(Seq(Steps)) /\ DOMAIN script = 1..Len(script) /\ Len(script) \in Nat /\ f \in 1..Len(script)
  BY DEF Framed, FramesTyped
<1>3. /\ Len(script') = Len(script) /\ Call' = Call
      /\ \A g \in 1..Len(script) : g # f => script'[g] = script[g]
  <2>1. DOMAIN script' = 1..Len(script)
    BY <1>1, <1>2
  <2>2. Len(script') = Len(script)
    BY <1>1, <1>2, <2>1
  <2> QED
    BY <1>1, <1>2, <2>2 DEF Call
<1>4. script[f] # <<>> /\ \A g \in 1..(f - 1) : script[g] = <<>>
  BY <1>1 DEF AtHead
<1> SUFFICES ASSUME NEW g \in 1..Len(script), NEW c \in Call, g < calls[c].frame, script'[g] # <<>>,
                    NEW p, Due(p, c)'
             PROVE  p = "judge"
  BY <1>3 DEF Turns
<1>5. calls[c].frame \in 1..Len(script)
  BY FrameOf DEF Framed
<1>6. g \in f..Len(script)
  BY <1>2, <1>3, <1>4
<1>7. calls[c].frame # f
  BY <1>2, <1>5, <1>6
<1>8. Due(p, c)
  BY <1>3, <1>5, <1>7 DEF Due
<1>9. script[g] # <<>>
  BY <1>3, <1>4
<1> QED
  BY <1>8, <1>9 DEF Turns

LEMMA TurnsGone ==
  ASSUME Framed, UNCHANGED <<transport, mode, calls>>, AllGone
  PROVE  Turns' /\ \A p : \A c \in Call : ~Due(p, c)'
<1>1. PICK s \in {<<>>, All("gone", {})} : script' = [g \in DOMAIN script |-> s]
  BY DEF AllGone
<1>2. \A p : \A c \in Call : ~Due(p, c)'
  BY <1>1, AllEnd
<1>3. Call' = Call
  BY DEF Call
<1> QED
  BY <1>2, <1>3 DEF Turns

\* Whoever has a turn is not behind a thread that is gone, and one that ends blocks all of them.
LEMMA NotBlocked ==
  ASSUME Framed, transport = "pipe", NEW f \in DOMAIN script, NEW o, AtHead(f, o), o # "gone"
  PROVE  ~Blocked
<1>1. f \in 1..Len(script) /\ Len(script) \in Nat
  BY HeadOf DEF AtHead
<1>2. script[f] # <<>> /\ Head(script[f]).op = o /\ \A g \in 1..(f - 1) : script[g] = <<>>
  BY DEF AtHead, Op
<1>3. Head(All("gone", {})).op = "gone" /\ All("gone", {}) # <<>>
  BY DEF All
<1>4. CASE f = 1
  BY <1>2, <1>3, <1>4 DEF Blocked
<1>5. CASE f # 1
  <2>1. 1 \in 1..(f - 1)
    BY <1>1, <1>5
  <2> QED
    BY <1>2, <1>3, <2>1 DEF Blocked
<1> QED
  BY <1>4, <1>5

LEMMA GoneBlocks ==
  ASSUME Framed, NEW f \in DOMAIN script, UpIsGone
  PROVE  Blocked' /\ AllGone /\ DOMAIN script' = DOMAIN script
<1>1. f \in 1..Len(script) /\ Len(script) \in Nat /\ DOMAIN script = 1..Len(script)
  BY CallIs DEF Framed, FramesTyped
<1>2. 1 \in DOMAIN script
  BY <1>1
<1>3. DOMAIN script' = DOMAIN script /\ script'[1] = All("gone", {})
  BY <1>2 DEF UpIsGone
<1>4. script' # <<>>
  BY <1>2, <1>3
<1>5. AllGone
  BY DEF UpIsGone, AllGone
<1> QED
  BY <1>3, <1>4, <1>5 DEF Blocked

LEMMA TurnsSame ==
  ASSUME Turns, UNCHANGED <<calls, script>>
  PROVE  Turns'
BY DEF Turns, Due, Has, Call

\* At a frame's turn no other frame has a call to record.
LEMMA NoneRecording ==
  ASSUME Framed, Turns, transport = "pipe", NEW f \in DOMAIN script, NEW o, AtHead(f, o),
         NEW c \in Call, Due("record", c)
  PROVE  calls[c].frame = f
<1>1. script[f] # <<>> /\ (\A g \in 1..(f - 1) : script[g] = <<>>) /\ f \in 1..Len(script)
  BY HeadOf DEF AtHead
<1>2. calls[c].frame \in 1..Len(script) /\ Len(script) \in Nat
  BY FrameOf DEF Framed, FramesTyped
<1>3. "record" # "judge"
  OBVIOUS
<1>4. ~(f < calls[c].frame)
  BY <1>1, <1>3 DEF Turns
<1>5. CASE calls[c].frame < f
  <2>1. calls[c].frame \in 1..(f - 1)
    BY <1>1, <1>2, <1>5
  <2>2. script[calls[c].frame] = <<>>
    BY <1>1, <2>1
  <2> QED
    BY <2>2 DEF Due, Has
<1> QED
  BY <1>1, <1>2, <1>4, <1>5

\* Where no more is going and as much is being recorded, what is paid stays paid.
LEMMA PaidStays ==
  ASSUME Paid, FramesTyped, \A c \in Call : calls'[c] = calls[c], FramesTyped', Capped' => Capped,
         Going' \subseteq Going, Blocked' \/ (~Blocked /\ Recording' = Recording), spent' = spent
  PROVE  Paid'
<1> PICK G : G = Going'
  OBVIOUS
<1> PICK R : R = Recording
  OBVIOUS
<1>1. G \subseteq Going /\ Going \subseteq Call /\ R \subseteq Call /\ Cap \in Nat
  BY BoundsAssumption DEF Going, Recording
<1>2. Cost(G) \in Nat /\ Cost(Going) \in Nat /\ Cost(G) <= Cost(Going)
  BY <1>1, CostGrows
<1>3. Cost(R) \in Nat
  BY <1>1, UnitsFinite
<1>4. Cost(G)' = Cost(G)
  BY <1>1, CostStays
<1>5. Cost(R)' = Cost(R)
  BY <1>1, CostStays
<1>6. Cost(Going)' = Cost(G)'
  BY DEF Cost
<1>7. Blocked' \/ (~Blocked /\ Cost(Recording)' = Cost(R)')
  BY DEF Cost
<1> PICK g, h, r, s : g = Cost(G) /\ h = Cost(Going) /\ r = Cost(R) /\ s = spent
  OBVIOUS
<1>8. s \in Nat /\ (Capped => h <= Cap /\ (Blocked \/ h <= s + r))
  BY DEF Paid
<1>9. Capped => g <= Cap /\ (Blocked \/ g <= s + r)
  BY <1>1, <1>2, <1>3, <1>8
<1> QED
  BY <1>4, <1>5, <1>6, <1>7, <1>8, <1>9 DEF Paid

LEMMA CappedBefore ==
  ASSUME UNCHANGED calls, DOMAIN script' = DOMAIN script, Capped'
  PROVE  Capped
<1>1. \A f : Spends(f)' = Spends(f)
  BY DEF Spends, CallsOf, Call
<1> QED
  BY <1>1 DEF Capped

\* A step that takes work off the scripts, counts nothing and records nothing.
LEMMA KeptShrinks ==
  ASSUME Kept, Piped, Shrinks, Turns', UNCHANGED <<spent, verdict>>, DOMAIN script' = DOMAIN script,
         session'.before = session.before,
         \A c \in Call : reply'[c] \in {"asked", "relayed", "unread"}
                           => reply[c] \in {"asked", "relayed", "unread"} \/ Due("write", c),
         Blocked' \/ (~Blocked /\ \A c \in Call : Due("record", c) => Due("record", c)')
  PROVE  Turns' /\ Apart' /\ Paid' /\ Priced'
<1>0. FramesTyped /\ FramesTyped' /\ Call' = Call /\ calls' = calls /\ \A p : \A c \in Call : Due(p, c)' => Due(p, c)
  BY DEF Kept, Base, Framewise, Gated, Begun, Typed, Framed, Shrinks
<1>1. Apart'
  BY <1>0 DEF Kept, Apart
<1>2. Priced'
  BY <1>0 DEF Kept, Base, Priced
<1>3. Going' \subseteq Going
  BY <1>0 DEF Going
<1>4. Blocked' \/ (~Blocked /\ Recording' = Recording)
  BY <1>0 DEF Recording
<1>5. Capped' => Capped
  BY <1>0, CappedBefore
<1>6. Paid'
  BY <1>0, <1>3, <1>4, <1>5, PaidStays DEF Kept
<1> QED
  BY <1>1, <1>2, <1>6

\* The gate lets a frame go on, and what it forwards fits in what is left of the total.
LEMMA KeptPasses ==
  ASSUME Kept, Piped, NEW f \in DOMAIN script, NEW luck, Judge(f, luck), \A c \in Of(f) : Detail(c) = "inside"
  PROVE  Apart' /\ Paid'
<1>0. /\ Framed /\ Typed /\ JudgedFirst /\ Gated /\ Turns /\ Apart /\ Paid /\ FramesTyped /\ Past /\ ToJudge /\ Priced
      /\ mode = "enforce" /\ transport = "pipe" /\ ~DeafGate /\ ~Deaf /\ Asking
  BY DEF Kept, Base, Framewise, Gated, Begun, Typed, Framed, Piped, DeafGate, Deaf
<1>1. AtHead(f, "judge") /\ UNCHANGED spent /\ calls' = calls
  BY DEF Judge
<1>2. Of(f) = CallsOf(f)
  BY <1>0, <1>1, JudgedWhole
<1>3. CallsOf(f) \subseteq Call /\ IsFiniteSet(CallsOf(f)) /\ \A c \in Call : c \in CallsOf(f) <=> calls[c].frame = f
  BY <1>0, CallsOfFrame
<1>4. /\ Framed' /\ Call' = Call
      /\ \A p : \A c \in Call : calls[c].frame # f => (Due(p, c)' <=> Due(p, c))
      /\ \A p : \A c \in Call : calls[c].frame = f => (Due(p, c)' <=> p \in PassedOps)
  <2>1. Framed' /\ Call' = Call /\ \A p : \A c \in Call : calls[c].frame # f => (Due(p, c)' <=> Due(p, c))
    BY <1>0, <1>1, JudgeMoves DEF Call
  <2>2. \A p : \A c \in Call : calls[c].frame = f => (Due(p, c)' <=> p \in PassedOps /\ c \in Of(f))
    BY <1>0, JudgeMoves
  <2> QED
    BY <1>2, <1>3, <2>1, <2>2
<1>5. /\ session' = session /\ reply' = reply
      /\ \A c \in Call : verdict'[c] = IF c \in Of(f) THEN "inside" ELSE verdict[c]
  BY <1>0, JudgeSays
<1>6. \A c \in CallsOf(f) : Due("judge", c)
  BY <1>0, <1>1, <1>2, HeadOf
<1>7. \A c \in Call : ~Due("record", c)
  <2> SUFFICES ASSUME NEW c \in Call, Due("record", c) PROVE FALSE
    OBVIOUS
  <2>1. calls[c].frame = f
    BY <1>0, <1>1, NoneRecording
  <2>2. "record" # "judge"
    OBVIOUS
  <2> QED
    BY <1>0, <1>3, <1>6, <2>1, <2>2 DEF ToJudge
<1>8. PassedOps = {"write", "record", "open"}
  BY <1>0 DEF PassedOps
<1>9. Apart'
  <2>1. "refuse" \notin PassedOps /\ "relay" \notin PassedOps /\ "pass" \notin PassedOps
    BY <1>8
  <2>2. \A c \in Call : ~Due("relay", c)' /\ ~Due("pass", c)'
    BY <1>0, <1>4, <2>1 DEF Apart
  <2>3. \A c \in Call : Due("record", c)' => calls[c].frame = f
    BY <1>4, <1>7
  <2>4. \A c \in Call : Due("record", c)' => verdict'[c] = "inside"
    BY <1>2, <1>3, <1>5, <2>3
  <2>5. \A c, d \in Call : calls[c].frame = calls[d].frame /\ Due("refuse", c)' => ~Due("record", d)'
    BY <1>4, <2>1, <2>3
  <2> QED
    BY <1>1, <1>4, <2>2, <2>4, <2>5 DEF Apart
<1>10. Going' = Going \cup CallsOf(f)
  <2>1. "write" \in PassedOps
    BY <1>8
  <2>2. \A c \in CallsOf(f) : c > session.before
    <3> SUFFICES ASSUME NEW c \in CallsOf(f), ~(c > session.before) PROVE FALSE
      OBVIOUS
    <3>1. c \in Nat /\ session.before \in Nat
      BY <1>0, <1>3, CallNumbers
    <3>2. c <= session.before
      BY <3>1
    <3> QED
      BY <1>3, <1>0, <1>6, <3>2 DEF Past
  <2>3. \A c \in CallsOf(f) : c \in Going'
    BY <1>3, <1>4, <1>5, <2>1, <2>2 DEF Going
  <2>4. \A c \in Call \ CallsOf(f) : c \in Going' <=> c \in Going
    BY <1>3, <1>4, <1>5 DEF Going
  <2>5. Going' \subseteq Call /\ Going \subseteq Call
    BY <1>4 DEF Going
  <2> QED
    BY <1>3, <2>3, <2>4, <2>5
<1>11. Recording' = CallsOf(f)
  <2>1. "record" \in PassedOps
    BY <1>8
  <2> QED
    BY <1>3, <1>4, <1>7, <2>1 DEF Recording
<1>12. Recording = {}
  BY <1>7 DEF Recording
<1>13. Capped' => Capped
  <2>1. DOMAIN script' = DOMAIN script
    BY <1>0 DEF Judge, Go
  <2> QED
    BY <1>1, <2>1, CappedBefore
<1> PICK G, F : G = Going /\ F = CallsOf(f)
  OBVIOUS
<1>14. G \subseteq Call /\ F \subseteq Call /\ Cap \in Nat
  BY <1>3, BoundsAssumption DEF Going
<1>15. Cost(G \cup F) \in Nat /\ Cost(G) \in Nat /\ Cost(F) \in Nat /\ Cost(G \cup F) <= Cost(G) + Cost(F)
  BY <1>0, <1>14, CostAdds
<1>16. Cost(Recording) = 0
  BY <1>12, NothingCosts
<1>17. ASSUME Capped PROVE Cost(F) = 0 \/ spent + Cost(F) <= Cap
  <2>1. Spends(f) \subseteq F
    BY DEF Spends
  <2>2. IsFiniteSet(Spends(f)) /\ Cardinality(Spends(f)) <= 1
    BY <1>3, <1>17, <2>1, FS_Subset DEF Capped
  <2>3. \A c \in F \ Spends(f) : calls[c].cost = 0
    BY <1>0, <1>3 DEF Spends, Priced
  <2>4. Cost(F) = Cost(Spends(f))
    BY <2>1, <2>3, FreeCosts
  <2>5. CASE Spends(f) = {}
    BY <2>4, <2>5, NothingCosts
  <2>6. ASSUME NEW c, Spends(f) = {c} PROVE spent + Cost(F) <= Cap
    <3>1. c \in CallsOf(f) /\ calls[c].act = "spend" /\ c \in Call
      BY <1>3, <2>6 DEF Spends
    <3>2. Detail(c) = "inside"
      BY <1>2, <3>1
    <3>3. ~(spent + calls[c].cost > Cap)
      BY <3>1, <3>2 DEF Detail
    <3>4. Cost({c}) = calls[c].cost /\ calls[c].cost \in Nat
      BY <1>0, <3>1, CostOfOne
    <3> PICK k, s : k = calls[c].cost /\ s = spent
      OBVIOUS
    <3>5. k \in Nat /\ s \in Nat /\ ~(s + k > Cap)
      BY <1>0, <3>3, <3>4 DEF Paid
    <3>6. s + k <= Cap
      BY <1>14, <3>5
    <3> QED
      BY <2>4, <2>6, <3>4, <3>6
  <2> QED
    BY <2>2, <2>5, <2>6, OneAtMost
<1>18. Cost(Going)' = Cost(G \cup F)
  <2>1. Cost(G \cup F)' = Cost(G \cup F)
    BY <1>1, CostStays
  <2>2. Cost(Going)' = Cost(G \cup F)'
    BY <1>10 DEF Cost
  <2> QED
    BY <2>1, <2>2
<1>19. Cost(Recording)' = Cost(F)
  <2>1. Cost(F)' = Cost(F)
    BY <1>1, CostStays
  <2>2. Cost(Recording)' = Cost(F)'
    BY <1>11 DEF Cost
  <2> QED
    BY <2>1, <2>2
<1>20. Paid'
  <2> PICK g, k, u, s : g = Cost(G) /\ k = Cost(F) /\ u = Cost(G \cup F) /\ s = spent
    OBVIOUS
  <2>1. s \in Nat /\ (Capped => g <= Cap /\ g <= s + 0)
    BY <1>0, <1>1, <1>16, NotBlocked DEF Paid
  <2>2. Capped => u <= Cap /\ u <= s + k
    <3> SUFFICES ASSUME Capped PROVE u <= Cap /\ u <= s + k
      OBVIOUS
    <3>1. g <= Cap /\ g <= s + 0 /\ (k = 0 \/ s + k <= Cap)
      BY <1>17, <2>1
    <3>2. g \in Nat /\ k \in Nat /\ u \in Nat /\ u <= g + k /\ s \in Nat
      BY <1>15, <2>1
    <3> QED
      BY <1>14, <3>1, <3>2
  <2> QED
    BY <1>1, <1>13, <1>18, <1>19, <2>1, <2>2 DEF Paid
<1> QED
  BY <1>9, <1>20

\* A frame held back forwards nothing and records nothing.
LEMMA KeptHeld ==
  ASSUME Kept, Piped, NEW f \in DOMAIN script, NEW luck, Judge(f, luck), ~\A c \in Of(f) : Detail(c) = "inside"
  PROVE  Apart' /\ Paid'
<1>0. /\ Framed /\ Typed /\ JudgedFirst /\ Gated /\ Turns /\ Apart /\ Paid /\ FramesTyped /\ ToJudge
      /\ mode = "enforce" /\ transport = "pipe" /\ ~DeafGate
  BY DEF Kept, Base, Framewise, Gated, Begun, Typed, Framed, Piped, DeafGate, Deaf
<1>1. AtHead(f, "judge") /\ UNCHANGED spent /\ calls' = calls /\ DOMAIN script' = DOMAIN script
  BY <1>0 DEF Judge, Go
<1>2. Of(f) = CallsOf(f) /\ \A c \in Call : c \in CallsOf(f) <=> calls[c].frame = f
  BY <1>0, <1>1, JudgedWhole, CallsOfFrame
<1>3. /\ Framed' /\ Call' = Call /\ UNCHANGED <<reply, session>>
      /\ \A p : \A c \in Call : calls[c].frame # f => (Due(p, c)' <=> Due(p, c))
      /\ \A p : \A c \in Call : calls[c].frame = f => (Due(p, c)' <=> <<p, c>> \in HeldPlan(Of(f)))
  BY <1>0, <1>1, JudgeMoves, JudgeSays DEF Call
<1>4. \A c \in Call : c \notin Of(f) => verdict'[c] = verdict[c]
  BY <1>0, JudgeSays
<1>5. \A c \in Of(f) : Due("judge", c)
  BY <1>0, <1>1, HeadOf
<1>6. \A c : /\ <<"record", c>> \notin HeldPlan(Of(f)) /\ <<"write", c>> \notin HeldPlan(Of(f))
             /\ <<"relay", c>> \notin HeldPlan(Of(f)) /\ <<"pass", c>> \notin HeldPlan(Of(f))
  BY DEF HeldPlan
<1>7. \A c \in Call : ~Due("record", c)
  <2> SUFFICES ASSUME NEW c \in Call, Due("record", c) PROVE FALSE
    OBVIOUS
  <2>1. calls[c].frame = f
    BY <1>0, <1>1, NoneRecording
  <2>2. "record" # "judge"
    OBVIOUS
  <2> QED
    BY <1>0, <1>2, <1>5, <2>1, <2>2 DEF ToJudge
<1>8. \A c \in Call : ~Due("record", c)' /\ ~Due("relay", c)' /\ ~Due("pass", c)' /\ (Due("write", c)' => Due("write", c))
  BY <1>0, <1>3, <1>6, <1>7 DEF Apart
<1>9. Apart'
  BY <1>3, <1>8 DEF Apart
<1>10. Going' \subseteq Going
  BY <1>3, <1>8 DEF Going
<1>11. Recording' = Recording
  BY <1>3, <1>7, <1>8 DEF Recording
<1>12. Capped' => Capped
  BY <1>1, CappedBefore
<1>13. FramesTyped'
  BY <1>3 DEF Framed
<1>14. Paid'
  BY <1>0, <1>1, <1>10, <1>11, <1>12, <1>13, PaidStays, NotBlocked
<1> QED
  BY <1>9, <1>14

\* A forwarded spend is counted as it leaves what is to be recorded.
LEMMA KeptCounts ==
  ASSUME Kept, Piped, NEW f \in DOMAIN script, NEW luck \in Lucks, Record(f, "record", luck)
  PROVE  Turns' /\ Apart' /\ Paid'
<1>0. /\ Framed /\ Typed /\ Turns /\ Apart /\ Paid /\ FramesTyped /\ mode = "enforce" /\ transport = "pipe"
  BY DEF Kept, Base, Framewise, Gated, Begun, Typed, Framed, Piped
<1> PICK c : c = One(f)
  OBVIOUS
<1>1. /\ AtHead(f, "record") /\ spent' = spent + calls[c].cost
      /\ UNCHANGED <<transport, mode, calls, verdict, reply, session>>
  BY DEF Record, setup
<1>2. c \in Call /\ Due("record", c) /\ Of(f) = {c}
  BY <1>0, <1>1, OneOf DEF OneCall
<1>3. verdict[c] = "inside"
  BY <1>0, <1>2 DEF Apart
<1>4. script' = [script EXCEPT ![f] = Tail(@)] /\ ~Blocked
  BY <1>0, <1>1, <1>3, NotBlocked DEF Record, Next1, Go
<1>5. GoesOn(f, Tail(script[f])) /\ OwnTurn(f) /\ DOMAIN script' = DOMAIN script /\ Call' = Call
  BY <1>1, <1>4 DEF GoesOn, OwnTurn, Call
<1>6. /\ Framed' /\ \A p : \A d \in Call : Due(p, d)' <=> Due(p, d) /\ ~(p = "record" /\ d \in Of(f))
  BY <1>0, <1>1, <1>5, StepDone
<1>7. Turns'
  BY <1>0, <1>1, <1>5, TurnsKept
<1>8. Apart'
  BY <1>0, <1>1, <1>5, <1>6 DEF Apart
<1>9. Going' = Going
  BY <1>1, <1>5, <1>6 DEF Going
<1>10. Recording = Recording' \cup {c}
  BY <1>2, <1>5, <1>6 DEF Recording
<1>11. Capped' => Capped
  BY <1>1, <1>5, CappedBefore
<1> PICK G, R : G = Going /\ R = Recording'
  OBVIOUS
<1>12. G \subseteq Call /\ R \subseteq Call /\ {c} \subseteq Call
  BY <1>2, <1>5 DEF Going, Recording
<1>13. Cost(R \cup {c}) \in Nat /\ Cost(R) \in Nat /\ Cost({c}) \in Nat /\ Cost(R \cup {c}) <= Cost(R) + Cost({c})
  BY <1>0, <1>12, CostAdds
<1>14. Cost({c}) = calls[c].cost
  BY <1>0, <1>2, CostOfOne
<1>15. Cost(G) \in Nat
  BY <1>0, <1>12, UnitsFinite
<1>16. Cost(Going)' = Cost(G)
  <2>1. Cost(G)' = Cost(G)
    BY <1>1, CostStays
  <2>2. Cost(Going)' = Cost(G)'
    BY <1>9 DEF Cost
  <2> QED
    BY <2>1, <2>2
<1>17. Cost(Recording)' = Cost(R)
  <2>1. Cost(R)' = Cost(R)
    BY <1>1, CostStays
  <2>2. Cost(Recording)' = Cost(R)'
    BY DEF Cost
  <2> QED
    BY <2>1, <2>2
<1>18. Paid'
  <2> PICK g, k, r, q, s, t : /\ g = Cost(G) /\ k = Cost({c}) /\ r = Cost(R) /\ q = Cost(R \cup {c})
                              /\ s = spent /\ t = spent'
    OBVIOUS
  <2>1. t = s + k
    BY <1>1, <1>14
  <2>2. s \in Nat /\ (Capped => g <= Cap /\ g <= s + q)
    BY <1>0, <1>4, <1>10 DEF Paid
  <2>3. g \in Nat /\ k \in Nat /\ r \in Nat /\ q \in Nat /\ q <= r + k
    BY <1>13, <1>15
  <2>4. t \in Nat /\ (Capped => g <= Cap /\ g <= t + r)
    BY <2>1, <2>2, <2>3
  <2> QED
    BY <1>11, <1>16, <1>17, <2>4 DEF Paid
<1> QED
  BY <1>7, <1>8, <1>18

\* The row of a refused attempt, or the crash of a thread that could not write it.
LEMMA KeptRefuses ==
  ASSUME Kept, Piped, NEW f \in DOMAIN script, NEW luck \in Lucks, Record(f, "refuse", luck)
  PROVE  Turns' /\ Apart' /\ Paid' /\ Priced'
<1>0. /\ Framed /\ Typed /\ Turns /\ Apart /\ mode = "enforce" /\ transport = "pipe"
  BY DEF Kept, Base, Framewise, Gated, Begun, Typed, Framed, Piped
<1>1. /\ AtHead(f, "refuse") /\ UNCHANGED <<transport, mode, calls, verdict, reply, session>> /\ spent' = spent
  BY DEF Record, setup
<1>2. Shrinks
  BY <1>0, RecordMoves
<1>3. Due("refuse", One(f)) /\ One(f) \in Call /\ calls[One(f)].frame = f
  BY <1>0, <1>1, OneOf DEF OneCall
<1>4. \A d \in Call : ~Due("record", d)
  BY <1>0, <1>1, <1>3, NoneRecording DEF Apart
<1>5. script' = [script EXCEPT ![f] = Tail(@)] \/ script' = [g \in DOMAIN script |-> All("gone", {})]
  BY <1>0 DEF Record, Next1, Go, UpIsGone
<1>6. DOMAIN script' = DOMAIN script /\ ~Blocked
  BY <1>0, <1>1, <1>5, NotBlocked
<1>7. Turns'
  <2>1. CASE script' = [script EXCEPT ![f] = Tail(@)]
    BY <1>0, <1>1, <2>1, TurnsKept DEF OwnTurn
  <2>2. CASE script' = [g \in DOMAIN script |-> All("gone", {})]
    BY <1>0, <1>1, <2>2, TurnsGone DEF AllGone
  <2> QED
    BY <1>5, <2>1, <2>2
<1> QED
  BY <1>1, <1>2, <1>4, <1>6, <1>7, KeptShrinks

\* Everything else a handler does: to its own frame, with nothing counted.
LEMMA KeptHandles ==
  ASSUME Kept, Piped, NEW f \in DOMAIN script, OwnTurn(f), Shrinks, UNCHANGED <<spent, verdict, session>>,
         \A c \in Call : reply'[c] \in {"asked", "relayed", "unread"}
                           => reply[c] \in {"asked", "relayed", "unread"} \/ Due("write", c),
         \A c \in Call : Due("record", c) => Due("record", c)'
  PROVE  Turns' /\ Apart' /\ Paid' /\ Priced'
<1>1. Framed /\ Turns /\ transport = "pipe" /\ UNCHANGED calls
  BY DEF Kept, Base, Framewise, Gated, Begun, Typed, Piped, Shrinks
<1>2. DOMAIN script' = DOMAIN script /\ ~Blocked
  BY <1>1, NotBlocked DEF OwnTurn
<1>3. Turns'
  BY <1>1, TurnsKept
<1> QED
  BY <1>2, <1>3, KeptShrinks

\* A step that leaves every frame's work as it was.
LEMMA KeptWaits ==
  ASSUME Kept, Piped, UNCHANGED <<transport, mode, calls, script, spent, verdict>>, session'.before = session.before,
         \A c \in Call : reply'[c] \in {"asked", "relayed", "unread"}
                           => reply[c] \in {"asked", "relayed", "unread"}
  PROVE  Turns' /\ Apart' /\ Paid' /\ Priced'
<1>1. Framed /\ Turns
  BY DEF Kept, Base, Framewise, Gated, Begun, Typed, Piped
<1>2. Framed' /\ Call' = Call /\ \A p : \A c \in Call : Due(p, c)' <=> Due(p, c)
  BY <1>1, NothingMoves
<1>3. Shrinks /\ Turns' /\ (Blocked' <=> Blocked)
  BY <1>1, <1>2, TurnsSame DEF Shrinks, Blocked
<1> QED
  BY <1>2, <1>3, KeptShrinks

\* The end of the thread at a broken pipe: what it was to record it never will, and no more goes.
LEMMA KeptBreaks ==
  ASSUME Kept, Piped, NEW f \in DOMAIN script, BreakPipe(f)
  PROVE  Turns' /\ Apart' /\ Paid' /\ Priced'
<1>1. Framed /\ Turns /\ UNCHANGED <<transport, mode, calls, spent, verdict, session, reply>> /\ UpIsGone
  BY DEF Kept, Base, Framewise, Gated, Begun, Typed, Piped, BreakPipe, setup, gate
<1>2. Blocked' /\ AllGone /\ DOMAIN script' = DOMAIN script
  BY <1>1, GoneBlocks
<1>3. Turns' /\ Shrinks
  BY <1>1, <1>2, TurnsGone, BreakMoves
<1> QED
  BY <1>1, <1>2, <1>3, KeptShrinks

Sends == \E n \in Frames : \E kinds \in [1..n -> Kinds] : Send(kinds)
LEMMA CallsStay ==
  ASSUME Framed, SessionTyped, Next, ~Sends
  PROVE  UNCHANGED calls
<1>1. CASE Rest
  BY <1>1, ElsewhereMoves DEF Elsewhere, Shrinks
<1>2. ASSUME NEW f, NEW luck, Judge(f, luck) PROVE UNCHANGED calls
  BY <1>2 DEF Judge
<1>3. ASSUME NEW f, Puts(f) PROVE UNCHANGED calls
  BY <1>3 DEF Puts, Inject, Write, Relay, Pass
<1>4. ASSUME NEW f, NEW a, NEW read, NEW left, Respond(f, a, read, left) PROVE UNCHANGED calls
  BY <1>4 DEF Respond
<1>5. ASSUME NEW c, NEW read, DownRelay(c, read) PROVE UNCHANGED calls
  BY <1>5 DEF DownRelay
<1>6. CASE Restart
  BY <1>6 DEF Restart
<1> QED
  BY <1>1, <1>2, <1>3, <1>4, <1>5, <1>6, NextIs DEF Sends

\* A new frame comes behind those that are there.
LEMMA SendBlocks ==
  ASSUME Framed, NEW n \in Frames, NEW kinds \in [1..n -> Kinds], Send(kinds), Blocked
  PROVE  Blocked'
<1>1. Len(script) \in Nat /\ Len(script) # 0 /\ script \in Seq(Seq(Steps))
  BY DEF Framed, FramesTyped, Blocked
<1>2. Len(script') = Len(script) + 1 /\ \A k \in 1..Len(script) : script'[k] = script[k]
  BY SendMoves
<1>3. 1 \in 1..Len(script) /\ Len(script') # 0
  BY <1>1, <1>2
<1>4. script'[1] = script[1] /\ script' # <<>>
  BY <1>2, <1>3
<1> QED
  BY <1>4 DEF Blocked

LEMMA KeptSends ==
  ASSUME Kept, NEW n \in Frames, NEW kinds \in [1..n -> Kinds], Send(kinds)
  PROVE  Priced' /\ (Piped => Turns' /\ Apart' /\ Paid')
<1>0. Framed /\ Typed /\ FramesTyped /\ Priced
  BY DEF Kept, Base, Framewise, Gated, Begun, Typed, Framed
<1>1. /\ Framed' /\ Call' = Call \cup New(kinds) /\ New(kinds) \cap Call = {} /\ Len(calls') = Len(calls) + n
      /\ Len(kinds) = n /\ n \in Nat /\ Len(script') = Len(script) + 1
      /\ \A c \in Call : calls'[c] = calls[c] /\ \A p : Due(p, c)' <=> Due(p, c)
      /\ \A c \in New(kinds) : calls'[c].frame = Len(script) + 1 /\ \A p : Due(p, c)' <=> p \in ScriptOps
      /\ \A k \in 1..Len(script) : script'[k] = script[k]
  BY <1>0, SendMoves
<1>2. /\ session'.before = session.before
      /\ \A c \in Call : verdict'[c] = verdict[c] /\ reply'[c] = reply[c]
      /\ \A c \in New(kinds) : reply'[c] = "none"
  BY <1>0, SendSays
<1>3. spent' = spent /\ calls' = calls \o [i \in 1..Len(kinds) |->
                      [id |-> kinds[i].id, act |-> kinds[i].act, cost |-> kinds[i].cost, frame |-> Len(script) + 1]]
  BY DEF Send, gate
<1>4. Priced'
  <2> PICK m, x : m = Len(calls) /\ x = [i \in 1..n |->
                      [id |-> kinds[i].id, act |-> kinds[i].act, cost |-> kinds[i].cost, frame |-> Len(script) + 1]]
    OBVIOUS
  <2>1. m \in Nat /\ calls \in Seq(Calls)
    BY <1>0 DEF FramesTyped
  <2>2. Len(script) \in Nat /\ Len(script) + 1 \in Nat
    BY <1>0 DEF FramesTyped
  <2>3. x \in Seq(Calls) /\ Len(x) = n
    <3>1. ASSUME NEW i \in 1..n PROVE x[i] \in Calls
      <4>1. kinds[i] \in Kinds
        OBVIOUS
      <4>2. kinds[i].cost \in Nat /\ kinds[i].act \in {"free", "forbidden", "spend"}
        BY <4>1, KindsAssumption
      <4> QED
        BY <2>2, <4>1, <4>2 DEF Calls
    <3> QED
      BY <1>1, <3>1
  <2>4. calls' = calls \o x
    BY <1>1, <1>3
  <2>5. \A i \in 1..n : calls'[m + i] = x[i]
    <3>1. Together(Calls, calls \o x, calls, x)
      BY <2>1, <2>3, PutTogether
    <3> QED
      BY <2>3, <2>4, <3>1 DEF Together
  <2>6. ASSUME NEW c \in New(kinds), calls'[c].act # "spend" PROVE calls'[c].cost = 0
    <3>1. \E i \in 1..n : c = m + i
      <4>1. c \in m + 1 .. m + n
        BY <1>1 DEF New
      <4>2. c - m \in 1..n /\ c = m + (c - m)
        BY <1>1, <2>1, <4>1
      <4> QED
        BY <4>2
    <3>2. PICK i \in 1..n : c = m + i
      BY <3>1
    <3>3. calls'[c] = x[i] /\ kinds[i] \in Kinds
      BY <2>5, <3>2
    <3>4. x[i].act = kinds[i].act /\ x[i].cost = kinds[i].cost
      OBVIOUS
    <3> QED
      BY <2>6, <3>3, <3>4, KindsAssumption
  <2> QED
    BY <1>0, <1>1, <2>6 DEF Priced
<1> SUFFICES ASSUME Piped PROVE Turns' /\ Apart' /\ Paid'
  BY <1>4
<1>5. Turns /\ Apart /\ Paid /\ ScriptOps = {"judge"}
  BY DEF Kept, Piped, ScriptOps
<1>6. \A c \in New(kinds) : /\ ~Due("record", c)' /\ ~Due("write", c)' /\ ~Due("refuse", c)'
                            /\ ~Due("relay", c)' /\ ~Due("pass", c)'
  BY <1>1, <1>5
<1>7. Turns'
  <2> SUFFICES ASSUME NEW f \in 1..Len(script'), NEW c \in Call', f < calls'[c].frame, script'[f] # <<>>,
                      NEW p, Due(p, c)'
               PROVE  p = "judge"
    BY DEF Turns
  <2>1. CASE c \in New(kinds)
    BY <1>1, <1>5, <2>1
  <2>2. CASE c \in Call
    <3>1. calls[c].frame \in 1..Len(script) /\ Len(script) \in Nat
      BY <1>0, <2>2, FrameOf DEF FramesTyped
    <3>2. f \in 1..Len(script) /\ f < calls[c].frame
      BY <1>1, <2>2, <3>1
    <3> QED
      BY <1>1, <1>5, <2>2, <3>2 DEF Turns
  <2> QED
    BY <1>1, <2>1, <2>2
<1>8. Apart'
  <2>1. \A c \in Call : ~Due("relay", c)' /\ ~Due("pass", c)' /\ (Due("record", c)' => verdict'[c] = "inside")
    BY <1>1, <1>2, <1>5 DEF Apart
  <2>2. \A c, d \in Call : calls'[c].frame = calls'[d].frame /\ Due("refuse", c)' => ~Due("record", d)'
    BY <1>1, <1>5 DEF Apart
  <2> QED
    BY <1>1, <1>6, <2>1, <2>2 DEF Apart
<1>9. Going' \subseteq Going
  <2>1. \A c \in New(kinds) : c \notin Going'
    BY <1>2, <1>6 DEF Going
  <2>2. \A c \in Call : c \in Going' => c \in Going
    BY <1>1, <1>2 DEF Going
  <2>3. Going' \subseteq Call'
    BY DEF Going
  <2> QED
    BY <1>1, <2>1, <2>2, <2>3
<1>10. Recording' = Recording
  BY <1>1, <1>6 DEF Recording
<1>11. Capped' => Capped
  <2> SUFFICES ASSUME Capped', NEW f \in DOMAIN script PROVE Cardinality(Spends(f)) <= 1
    BY DEF Capped
  <2>1. f \in 1..Len(script) /\ Len(script) \in Nat
    BY <1>0 DEF FramesTyped
  <2>2. f # Len(script) + 1 /\ f \in 1..Len(script')
    BY <1>1, <2>1
  <2>3. f \in DOMAIN script'
    BY <1>1, <2>2 DEF Framed, FramesTyped
  <2>4. Spends(f)' = Spends(f)
    BY <1>1, <2>2 DEF Spends, CallsOf
  <2> QED
    BY <2>3, <2>4 DEF Capped
<1>12. FramesTyped'
  BY <1>1 DEF Framed
<1>13. Blocked => Blocked'
  BY <1>0, SendBlocks
<1>14. Paid'
  BY <1>0, <1>1, <1>3, <1>5, <1>9, <1>10, <1>11, <1>12, <1>13, PaidStays
<1> QED
  BY <1>7, <1>8, <1>14

LEMMA KeptRestarts ==
  ASSUME Kept, Piped, Restart
  PROVE  Turns' /\ Apart' /\ Paid' /\ Priced'
<1>0. Framed /\ Typed /\ Priced
  BY DEF Kept, Base, Framewise, Gated, Begun, Typed
<1>1. UNCHANGED <<transport, mode, calls>> /\ AllGone /\ spent' = 0 /\ session'.before = Len(calls) /\ Call' = Call
  BY DEF Restart, setup, AllGone, Call
<1>2. Turns' /\ \A p : \A c \in Call : ~Due(p, c)'
  BY <1>0, <1>1, TurnsGone
<1>3. \A c \in Call : ~(c > Len(calls))
  BY <1>0, CallNumbers
<1>4. Going' = {} /\ Recording' = {}
  BY <1>1, <1>2, <1>3 DEF Going, Recording
<1>5. Cost(Going)' = 0 /\ Cost(Recording)' = 0
  <2>1. UNION {{c} \X (1..calls'[c].cost) : c \in {}} = {}
    OBVIOUS
  <2>2. Cardinality({}) = 0
    BY FS_EmptySet
  <2> QED
    BY <1>4, <2>1, <2>2 DEF Cost
<1>6. Paid'
  BY <1>1, <1>5, BoundsAssumption DEF Paid
<1> QED
  BY <1>0, <1>1, <1>2, <1>6 DEF Apart, Priced

LEMMA KeptStep ==
  ASSUME Kept, [Next]_vars
  PROVE  Kept'
<1>0. /\ Framewise /\ Framed /\ Typed /\ FramesTyped /\ Priced /\ SaidTyped /\ SessionTyped /\ Asking
      /\ UNCHANGED <<transport, mode>> /\ Framewise'
  BY SetupStays, FramewiseStep DEF Kept, Base, Framewise, Gated, Begun, Typed, Framed
<1>1. CASE Sends
  <2>1. PICK n \in Frames : \E kinds \in [1..n -> Kinds] : Send(kinds)
    BY <1>1 DEF Sends
  <2>2. PICK kinds \in [1..n -> Kinds] : Send(kinds)
    BY <2>1
  <2>3. Priced' /\ (Piped => Turns' /\ Apart' /\ Paid')
    BY <2>2, KeptSends
  <2> QED
    BY <1>0, <2>3 DEF Kept, Base, Piped
<1>2. CASE UNCHANGED calls /\ ~Piped
  <2>1. Priced'
    BY <1>0, <1>2 DEF Priced, Call
  <2> QED
    BY <1>0, <1>2, <2>1 DEF Kept, Base, Piped
<1>3. ASSUME Turns' /\ Apart' /\ Paid' /\ Priced' PROVE Kept'
  BY <1>0, <1>3 DEF Kept, Base
<1>4. ASSUME UNCHANGED calls PROVE Priced'
  BY <1>0, <1>4 DEF Priced, Call
<1>5. ASSUME Piped, NEW f \in DOMAIN script, NEW luck \in Lucks, Judge(f, luck) PROVE Kept'
  <2>1. UNCHANGED calls /\ OwnTurn(f)
    BY <1>5 DEF Judge, Go, OwnTurn, Piped, DeafGate, Deaf
  <2>2. Turns'
    BY <1>0, <1>5, <2>1, TurnsKept DEF Kept, Piped
  <2>3. Apart' /\ Paid'
    BY <1>5, KeptPasses, KeptHeld
  <2> QED
    BY <1>3, <1>4, <2>1, <2>2, <2>3
<1>6. ASSUME Piped, NEW f \in DOMAIN script, Puts(f) PROVE Kept'
  <2>1. PICK o \in PutOps : Put(f, o)
    BY <1>6, PutsIs
  <2>2. /\ Shrinks /\ Exactly(o, Of(f)) /\ UNCHANGED <<verdict, session>>
        /\ \A c \in Of(f) : c \in Call /\ Due(o, c)
    BY <1>0, <2>1, PutMoves
  <2>3. spent' = spent /\ OwnTurn(f)
    BY <2>1 DEF Put, PutOps, gate, OwnTurn, Next1, Go
  <2>4. \A c \in Call : reply'[c] = IF c \in Of(f) THEN PutWord(o) ELSE reply[c]
    BY <1>0, <2>1, PutSays
  <2>5. \A c \in Call : reply'[c] \in {"asked", "relayed", "unread"}
                          => reply[c] \in {"asked", "relayed", "unread"} \/ Due("write", c)
    <3>1. CASE o \in {"relay", "pass"}
      <4>1. Of(f) = {}
        BY <1>6, <2>2, <3>1 DEF Kept, Apart
      <4> QED
        BY <2>4, <4>1
    <3>2. CASE o = "write"
      BY <2>2, <2>4, <3>2
    <3>3. CASE o = "inject"
      BY <2>4, <3>3 DEF PutWord
    <3> QED
      BY <3>1, <3>2, <3>3 DEF PutOps
  <2>6. \A c \in Call : Due("record", c) => Due("record", c)'
    BY <2>2 DEF Exactly, PutOps
  <2> QED
    BY <1>3, <1>6, <2>2, <2>3, <2>5, <2>6, KeptHandles
<1>7. ASSUME Piped, NEW f \in DOMAIN script, NEW a \in SUBSET CallsOf(f), NEW read \in SUBSET a,
             NEW left \in BOOLEAN, Respond(f, a, read, left)
      PROVE  Kept'
  <2>1. Responded(f, a, read, left) /\ AtHead(f, "answer") /\ a \subseteq Of(f) /\ read \subseteq a
    BY <1>0, <1>7, RespondMoves DEF Respond
  <2>2. UNCHANGED <<spent, verdict, session, reply, calls>> /\ OwnTurn(f)
    BY <1>7 DEF Respond, gate, OwnTurn, Go
  <2>3. Of(f) = {}
    <3>1. \A c \in Of(f) : c \in Call /\ Due("answer", c)
      BY <1>0, <2>1, HeadOf
    <3> QED
      BY <1>0, <1>7, <3>1 DEF Asking, AsksOnce, Piped
  <2>4. AnsweredPlan(Of(f), a, read, left) = {}
    BY <2>1, <2>3 DEF AnsweredPlan
  <2>5. \A p : \A c \in Call : Due(p, c)' <=> Due(p, c)
    BY <2>1, <2>3, <2>4 DEF Responded
  <2>6. Shrinks
    BY <2>1, <2>5 DEF Shrinks, Responded
  <2> QED
    BY <1>3, <1>7, <2>2, <2>5, <2>6, KeptHandles
<1>8. ASSUME Piped, NEW c \in Call, NEW read \in BOOLEAN, DownRelay(c, read) PROVE Kept'
  <2>1. /\ UNCHANGED <<transport, mode, calls, script, spent, verdict, session>>
        /\ reply[c] = "asked" /\ reply' = [reply EXCEPT ![c] = IF read THEN "relayed" ELSE "unread"]
    BY <1>8 DEF DownRelay, setup, gate
  <2>2. \A d \in Call : reply'[d] \in {"asked", "relayed", "unread"} => reply[d] \in {"asked", "relayed", "unread"}
    BY <2>1
  <2> QED
    BY <1>3, <1>8, <2>1, <2>2, KeptWaits
<1>9. CASE Piped /\ Restart
  BY <1>3, <1>9, KeptRestarts
<1>10. ASSUME Piped, UNCHANGED <<transport, mode, calls, script, spent, verdict, reply>>, session'.before = session.before
       PROVE  Kept'
  BY <1>3, <1>10, KeptWaits
<1>11. ASSUME Piped, NEW f \in DOMAIN script, NEW luck \in Lucks, Records(f, luck) PROVE Kept'
  <2>1. UNCHANGED calls
    BY <1>11 DEF Records, Record
  <2> QED
    BY <1>3, <1>4, <1>11, <2>1, KeptCounts, KeptRefuses DEF Records
<1>12. ASSUME Piped, NEW f \in DOMAIN script, NEW luck \in Lucks, OpenCall(f, luck) \/ Pair(f, luck) \/ CloseCall(f, luck)
       PROVE  Kept'
  <2>1. UNCHANGED <<transport, mode, calls, spent, verdict, session, reply>>
    BY <1>12 DEF OpenCall, Pair, CloseCall, setup, gate
  <2>2. PICK o \in {"open", "pair", "close"} : AtHead(f, o) /\ o # "gone"
    BY <1>12 DEF OpenCall, Pair, CloseCall
  <2>3. \/ GoesOn(f, Tail(script[f]))
        \/ \E ops \in {{"open", "close"}, {"close"}} : GoesOn(f, Without(script[f], ops))
    BY <1>12, <2>1 DEF OpenCall, Pair, CloseCall, Next1, Go, GoesOn
  <2>4. CASE GoesOn(f, Tail(script[f]))
    <3>1. Framed' /\ \A p : \A c \in Call : Due(p, c)' <=> Due(p, c) /\ ~(p = o /\ c \in Of(f))
      BY <1>0, <2>2, <2>4, StepDone
    <3>2. "record" # o
      OBVIOUS
    <3>3. Shrinks /\ OwnTurn(f)
      BY <2>1, <2>2, <2>4, <3>1 DEF Shrinks, GoesOn, OwnTurn, Call
    <3> QED
      BY <1>3, <1>12, <2>1, <3>1, <3>2, <3>3, KeptHandles
  <2>5. ASSUME NEW ops \in {{"open", "close"}, {"close"}}, GoesOn(f, Without(script[f], ops)) PROVE Kept'
    <3>1. Framed' /\ \A p : \A c \in Call : Due(p, c)' <=> Due(p, c) /\ ~(p \in ops /\ calls[c].frame = f)
      BY <1>0, <2>5, StepsDropped
    <3>2. "record" \notin ops
      OBVIOUS
    <3>3. Shrinks /\ OwnTurn(f)
      BY <2>1, <2>2, <2>5, <3>1 DEF Shrinks, GoesOn, OwnTurn, Call
    <3> QED
      BY <1>3, <1>12, <2>1, <3>1, <3>2, <3>3, KeptHandles
  <2> QED
    BY <2>3, <2>4, <2>5
<1>13. ASSUME Piped, NEW luck \in Lucks, DownObserve(luck) \/ FlushPending(luck) \/ FlushTape(luck) PROVE Kept'
  <2>1. UNCHANGED <<transport, mode, calls, script, spent, verdict, reply, session>>
    BY <1>13 DEF DownObserve, FlushPending, FlushTape, setup, gate
  <2> QED
    BY <1>10, <1>13, <2>1
<1>14. CASE Piped /\ (EditMandate \/ Stop \/ Waited)
  <2>1. UNCHANGED <<transport, mode, calls, script, spent, verdict, reply>>
    BY <1>14 DEF EditMandate, Stop, Waited, setup, gate
  <2>2. session'.before = session.before
    BY <1>0, <1>14 DEF EditMandate, Stop, Waited, SessionTyped
  <2> QED
    BY <1>10, <1>14, <2>1, <2>2
<1>15. CASE UNCHANGED vars
  <2>1. UNCHANGED <<transport, mode, calls, script, spent, verdict, reply, session>>
    BY <1>15 DEF vars
  <2> QED
    BY <1>2, <1>10, <2>1
<1>19. ASSUME Piped, NEW f \in DOMAIN script, BreakPipe(f) PROVE Kept'
  BY <1>3, <1>19, KeptBreaks
<1>16. CASE Piped /\ Rest
  BY <1>11, <1>12, <1>13, <1>14, <1>16, <1>19 DEF Rest
<1>17. CASE Next /\ ~Sends /\ Piped
  BY <1>5, <1>6, <1>7, <1>8, <1>9, <1>16, <1>17, NextIs DEF Sends
<1>18. CASE Next /\ ~Sends /\ ~Piped
  <2>1. UNCHANGED calls
    BY <1>0, <1>18, CallsStay
  <2> QED
    BY <1>2, <1>18, <2>1
<1> QED
  BY <1>1, <1>15, <1>17, <1>18

\* What a spending pipe forwards has been counted or is being counted, one frame at a time.
THEOREM SpecKept == Spec => []Kept
<1>1. Init => Kept
  BY InitKept
<1>2. Kept /\ [Next]_vars => Kept'
  BY KeptStep
<1> QED
  BY <1>1, <1>2, PTL DEF Spec

\* A pipe under enforce forwards no more than the total, unless one frame carried two spends.
THEOREM TotalKept == Spec => []TotalIsKept
<1>1. Kept => TotalIsKept
  <2> SUFFICES ASSUME Kept, Piped, Capped PROVE Cost(Forwarded) <= Cap
    BY DEF TotalIsKept, Piped, Capped
  <2>1. FramesTyped /\ Paid
    BY DEF Kept, Base, Framewise, Gated, Begun, Typed, Framed
  <2>2. Forwarded \subseteq Going /\ Going \subseteq Call
    BY DEF Forwarded, Going
  <2>3. Cost(Forwarded) \in Nat /\ Cost(Going) \in Nat /\ Cost(Forwarded) <= Cost(Going)
    BY <2>1, <2>2, CostGrows
  <2> PICK a, b : a = Cost(Forwarded) /\ b = Cost(Going)
    OBVIOUS
  <2>4. b <= Cap /\ Cap \in Nat
    BY <2>1, BoundsAssumption DEF Paid
  <2> QED
    BY <2>3, <2>4
<1> QED
  BY <1>1, SpecKept, PTL

(***************************************************************************)
(* The seam log.                                                           *)
(***************************************************************************)
Listing(s) == \E T : s \in Seq(T)
RowOf(s, i, c) == i \in 1..Len(s) /\ s[i].evt = "tool_call" /\ s[i].call = c
SaidIn(s, c, a) == \E i \in 1..Len(s) : RowOf(s, i, c) /\ s[i].answer = a
OnceIn(s) == \A c, i, j : RowOf(s, i, c) /\ RowOf(s, j, c) => i = j
Said(c, a) == SaidIn(rows, c, a)
Silent(c) == \A a : ~Said(c, a)
Fresh(w) == \A c, a, b : ~(Said(c, a) /\ SaidIn(w, c, b))

LEMMA InOneListing ==
  ASSUME NEW s, NEW t, Listing(s), Listing(t)
  PROVE  \E T : s \in Seq(T) /\ t \in Seq(T)
<1>1. PICK A : s \in Seq(A)
  BY DEF Listing
<1>2. PICK B : t \in Seq(B)
  BY DEF Listing
<1>3. s \in Seq(A \cup B) /\ t \in Seq(A \cup B)
  BY <1>1, <1>2
<1> QED
  BY <1>3

LEMMA SaidRow == ASSUME NEW s, NEW i, NEW c, RowOf(s, i, c) PROVE SaidIn(s, c, s[i].answer)
BY DEF RowOf, SaidIn

LEMMA RowsAdded ==
  ASSUME Listing(rows), NEW w, Listing(w), rows' = rows \o w
  PROVE  /\ Listing(rows') /\ \A c, a : Said(c, a)' <=> Said(c, a) \/ SaidIn(w, c, a)
         /\ OnceIn(rows) /\ OnceIn(w) /\ Fresh(w) => OnceIn(rows')
<1>0. PICK T : rows \in Seq(T) /\ w \in Seq(T)
  BY InOneListing
<1> PICK m, n : m = Len(rows) /\ n = Len(w)
  OBVIOUS
<1>1. /\ m \in Nat /\ n \in Nat /\ rows' \in Seq(T) /\ Len(rows') = m + n
      /\ \A k \in 1..m : rows'[k] = rows[k]
      /\ \A k \in 1..n : rows'[m + k] = w[k]
  <2>1. Together(T, rows \o w, rows, w)
    BY <1>0, PutTogether
  <2>2. Together(T, rows', rows, w)
    BY <2>1
  <2> QED
    BY <2>2 DEF Together
<1>2. \A k \in 1..m + n : k \in 1..m \/ \E i \in 1..n : k = m + i
  BY <1>1, TwoParts, SMTT(30)
<1>3. (\A k \in 1..m : k \in 1..m + n) /\ (\A k \in 1..n : m + k \in 1..m + n /\ m + k \notin 1..m)
  BY <1>1
<1>4. ASSUME NEW c, NEW k
      PROVE  RowOf(rows', k, c) <=> \/ RowOf(rows, k, c) /\ rows'[k] = rows[k]
                                    \/ \E i : RowOf(w, i, c) /\ k = m + i /\ rows'[k] = w[i]
  <2>1. ASSUME NEW i, RowOf(w, i, c), k = m + i PROVE RowOf(rows', k, c)
    <3>1. i \in 1..n /\ w[i].evt = "tool_call" /\ w[i].call = c
      BY <2>1 DEF RowOf
    <3>2. rows'[k] = w[i] /\ k \in 1..Len(rows')
      BY <1>1, <1>3, <2>1, <3>1
    <3> QED
      BY <3>1, <3>2 DEF RowOf
  <2>2. ASSUME RowOf(rows, k, c) PROVE RowOf(rows', k, c)
    <3>1. k \in 1..m /\ k \in 1..Len(rows')
      BY <1>1, <1>3, <2>2 DEF RowOf
    <3> QED
      BY <1>1, <2>2, <3>1 DEF RowOf
  <2>3. ASSUME RowOf(rows', k, c)
        PROVE  \/ RowOf(rows, k, c) /\ rows'[k] = rows[k]
               \/ \E i : RowOf(w, i, c) /\ k = m + i /\ rows'[k] = w[i]
    <3>1. k \in 1..m + n /\ rows'[k].evt = "tool_call" /\ rows'[k].call = c
      BY <1>1, <2>3 DEF RowOf
    <3>2. CASE k \in 1..m
      <4>1. rows'[k] = rows[k]
        BY <1>1, <3>2
      <4> QED
        BY <3>1, <3>2, <4>1 DEF RowOf
    <3>3. CASE k \notin 1..m
      <4>1. PICK i \in 1..n : k = m + i
        BY <1>2, <3>1, <3>3
      <4>2. rows'[k] = w[i]
        BY <1>1, <4>1
      <4>3. RowOf(w, i, c)
        BY <3>1, <4>1, <4>2 DEF RowOf
      <4> QED
        BY <4>1, <4>2, <4>3
    <3> QED
      BY <3>2, <3>3
  <2> QED
    BY <2>1, <2>2, <2>3
<1>5. ASSUME NEW c, NEW a PROVE Said(c, a)' <=> Said(c, a) \/ SaidIn(w, c, a)
  <2>1. \A k : RowOf(rows', k, c) => k \in 1..Len(rows')
    BY DEF RowOf
  <2>2. Said(c, a)' <=> \E k : RowOf(rows', k, c) /\ rows'[k].answer = a
    BY <2>1 DEF Said, SaidIn
  <2>3. Said(c, a) <=> \E k : RowOf(rows, k, c) /\ rows[k].answer = a
    BY DEF Said, SaidIn, RowOf
  <2>4. SaidIn(w, c, a) <=> \E k : RowOf(w, k, c) /\ w[k].answer = a
    BY DEF SaidIn, RowOf
  <2>5. \A k : RowOf(rows, k, c) => rows'[k] = rows[k]
    BY <1>1 DEF RowOf
  <2>6. \A i : RowOf(w, i, c) => rows'[m + i] = w[i]
    BY <1>1 DEF RowOf
  <2>7. ASSUME Said(c, a)' PROVE Said(c, a) \/ SaidIn(w, c, a)
    <3>1. PICK k : RowOf(rows', k, c) /\ rows'[k].answer = a
      BY <2>2, <2>7
    <3>2. CASE RowOf(rows, k, c) /\ rows'[k] = rows[k]
      BY <2>3, <3>1, <3>2
    <3>3. CASE \E i : RowOf(w, i, c) /\ k = m + i /\ rows'[k] = w[i]
      BY <2>4, <3>1, <3>3
    <3> QED
      BY <1>4, <3>1, <3>2, <3>3
  <2>8. Said(c, a) => Said(c, a)'
    BY <1>4, <2>2, <2>3, <2>5
  <2>9. SaidIn(w, c, a) => Said(c, a)'
    BY <1>4, <2>2, <2>4, <2>6
  <2> QED
    BY <2>7, <2>8, <2>9
<1>6. ASSUME OnceIn(rows), OnceIn(w), Fresh(w) PROVE OnceIn(rows')
  <2> SUFFICES ASSUME NEW c, NEW k, NEW j, RowOf(rows', k, c), RowOf(rows', j, c) PROVE k = j
    BY DEF OnceIn
  <2>1. \A x, y : ~(RowOf(rows, x, c) /\ RowOf(w, y, c))
    BY <1>6, SaidRow DEF Fresh, Said
  <2>2. CASE RowOf(rows, k, c)
    <3>1. RowOf(rows, j, c)
      BY <1>4, <2>1, <2>2
    <3> QED
      BY <1>6, <2>2, <3>1 DEF OnceIn
  <2>3. CASE ~RowOf(rows, k, c)
    <3>1. PICK x : RowOf(w, x, c) /\ k = m + x
      BY <1>4, <2>3
    <3>2. PICK y : RowOf(w, y, c) /\ j = m + y
      BY <1>4, <2>1, <3>1
    <3>3. x = y
      BY <1>6, <3>1, <3>2 DEF OnceIn
    <3> QED
      BY <3>1, <3>2, <3>3
  <2> QED
    BY <2>2, <2>3
<1>7. Listing(rows')
  BY <1>1 DEF Listing
<1> QED
  BY <1>5, <1>6, <1>7

LEMMA LoggedSays ==
  ASSUME Listing(rows), NEW w, Listing(w), NEW luck, Logged(w, luck)
  PROVE  /\ Listing(rows') /\ \A c, a : Said(c, a)' => Said(c, a) \/ SaidIn(w, c, a)
         /\ \A c, a : Said(c, a) => Said(c, a)'
         /\ luck # "no log" => \A c, a : SaidIn(w, c, a) => Said(c, a)'
         /\ OnceIn(rows) /\ OnceIn(w) /\ Fresh(w) => OnceIn(rows')
<1>1. CASE luck # "no log"
  <2>1. rows' = rows \o w
    BY <1>1 DEF Logged
  <2> QED
    BY <2>1, RowsAdded
<1>2. CASE luck = "no log"
  <2>1. rows' = rows
    BY <1>2 DEF Logged
  <2> QED
    BY <1>2, <2>1 DEF Said
<1> QED
  BY <1>1, <1>2

LEMMA SameSays ==
  ASSUME Listing(rows), UNCHANGED rows
  PROVE  /\ Listing(rows') /\ (\A c, a : Said(c, a)' <=> Said(c, a)) /\ (OnceIn(rows) => OnceIn(rows'))
BY DEF Said

\* One row, and none.
LEMMA OneRow ==
  ASSUME NEW evt, NEW c, NEW e
  PROVE  /\ Listing(<<Row(evt, c, e)>>) /\ OnceIn(<<Row(evt, c, e)>>)
         /\ \A d, a : SaidIn(<<Row(evt, c, e)>>, d, a) <=> evt = "tool_call" /\ d = c /\ a = e
<1> PICK s : s = <<Row(evt, c, e)>>
  OBVIOUS
<1>1. /\ s \in Seq({Row(evt, c, e)}) /\ Len(s) = 1 /\ s[1].evt = evt /\ s[1].call = c /\ s[1].answer = e
  BY DEF Row
<1>2. \A i : i \in 1..Len(s) <=> i = 1
  BY <1>1
<1>3. Listing(s)
  BY <1>1 DEF Listing
<1>4. OnceIn(s)
  BY <1>2 DEF OnceIn, RowOf
<1>5. \A d, a : SaidIn(s, d, a) <=> evt = "tool_call" /\ d = c /\ a = e
  BY <1>1, <1>2 DEF SaidIn, RowOf
<1> QED
  BY <1>3, <1>4, <1>5

LEMMA NoRow == Listing(<<>>) /\ OnceIn(<<>>) /\ \A d, a : ~SaidIn(<<>>, d, a)
<1>1. <<>> \in Seq({}) /\ Len(<<>>) = 0
  OBVIOUS
<1> QED
  BY <1>1 DEF Listing, OnceIn, SaidIn, RowOf

(***************************************************************************)
(* The log and the tape say the same.                                      *)
(***************************************************************************)
LogTyped == Listing(rows) /\ OnceIn(rows) /\ \A c, a : Said(c, a) => c \in Call /\ a # Open
AtIndex(k, x) == k \in 1..Len(tape.end) /\ tape.call[k] = x
EndAgrees == \A k, x, a : AtIndex(k, x) /\ Said(x, a) =>
               \/ a = tape.end[k]
               \/ tape.end[k] = Open /\ a = None("unanswered") /\ ~Waiting(x)
OnTape(c) == \E k \in 1..Len(tape.end) : tape.call[k] = c /\ (tape.end[k] = Open \/ phase = "ended")
WaitingOpen == /\ \A x : Waiting(x) => Silent(x) /\ OnTape(x)
               /\ \A i, j \in 1..Len(pending) : pending[i] = pending[j] => i = j
UnopenedSilent == \A c \in Call : Unopened(c) => Silent(c)
CallSilent == transport = "call" => \A c : Silent(c)
Agreed == Recorded /\ LogTyped /\ EndAgrees /\ WaitingOpen /\ UnopenedSilent /\ CallSilent

LEMMA InitAgreed == ASSUME Init PROVE Agreed
<1>1. rows = <<>> /\ pending = <<>> /\ tape.end = <<>> /\ Len(tape.end) = 0 /\ Len(pending) = 0
  BY DEF Init
<1>2. Listing(rows) /\ OnceIn(rows) /\ \A c, a : ~Said(c, a)
  BY <1>1, NoRow DEF Said
<1> QED
  BY <1>1, <1>2, InitRecorded DEF Agreed, LogTyped, EndAgrees, WaitingOpen, UnopenedSilent, CallSilent, Silent, AtIndex, Waiting

\* A step that leaves the tape and the open calls alone, and rows no call.
LEMMA AgreedStays ==
  ASSUME Agreed, Recorded', UNCHANGED <<tape, pending, transport>>,
         Listing(rows'), OnceIn(rows'), \A c, a : Said(c, a)' <=> Said(c, a),
         Call \subseteq Call', phase = "ended" => phase' = "ended",
         \A c \in Call' : Unopened(c)' => (c \in Call /\ Unopened(c)) \/ c \notin Call
  PROVE  Agreed'
<1>1. LogTyped'
  BY DEF LogTyped, Agreed
<1>2. \A c : Silent(c)' <=> Silent(c)
  BY DEF Silent
<1>3. \A c : Waiting(c)' <=> Waiting(c)
  BY DEF Waiting
<1>4. EndAgrees'
  <2>1. ASSUME NEW k, NEW x, NEW a, AtIndex(k, x)', Said(x, a)'
        PROVE  a = tape'.end[k] \/ (tape'.end[k] = Open /\ a = None("unanswered") /\ ~Waiting(x)')
    <3>1. AtIndex(k, x) /\ Said(x, a) /\ tape' = tape
      BY <2>1 DEF AtIndex
    <3> QED
      BY <1>3, <3>1 DEF EndAgrees, Agreed
  <2> QED
    BY <2>1 DEF EndAgrees
<1>5. WaitingOpen'
  BY <1>2, <1>3 DEF WaitingOpen, OnTape, Agreed
<1>6. UnopenedSilent'
  BY <1>2 DEF UnopenedSilent, Agreed, LogTyped, Silent
<1>7. CallSilent'
  BY <1>2 DEF CallSilent, Agreed
<1> QED
  BY <1>1, <1>4, <1>5, <1>6, <1>7 DEF Agreed

\* An open call is shut.
LEMMA AgreedShut ==
  ASSUME Agreed, Recorded', UNCHANGED <<transport, phase>>, Call' = Call,
         transport # "call" => phase # "ended",
         \A c \in Call : Unopened(c)' => Unopened(c),
         NEW i, NEW e \in Ends, e # Open, NEW luck, Shut(i, e, luck)
  PROVE  Agreed'
<1>0. /\ Whole(tape) /\ pending \in Seq(Nat) /\ PendingTyped /\ TapedOnce /\ TapeTyped
      /\ LogTyped /\ EndAgrees /\ WaitingOpen /\ UnopenedSilent /\ CallSilent /\ Len(tape.call) = Len(tape.end)
  BY DEF Agreed, Recorded, TapeTyped, PendingTyped, Whole
<1>1. /\ tape'.call = tape.call /\ Len(tape'.end) = Len(tape.end)
      /\ \A k \in 1..Len(tape.end) :
           tape'.end[k] = IF tape.call[k] = pending[i] /\ tape.end[k] = Open THEN e ELSE tape.end[k]
      /\ pending' \in Seq(Nat) /\ Len(pending') = Len(pending) - 1 /\ i \in 1..Len(pending)
      /\ \A k \in 1..Len(pending') : pending'[k] = IF k < i THEN pending[k] ELSE pending[k + 1]
  BY <1>0, ShutDoes
<1>2. /\ \A k \in 1..Len(pending') : \E j \in 1..Len(pending) \ {i} : pending'[k] = pending[j]
      /\ \A k, j \in 1..Len(pending') : pending'[k] = pending'[j] => k = j
  BY <1>0, <1>1, ShutLeaves DEF WaitingOpen
<1> PICK d : d = pending[i]
  OBVIOUS
<1>3. d \in Call /\ Silent(d) /\ OnTape(d)
  BY <1>0, <1>1 DEF WaitingOpen, PendingTyped, Waiting
<1>4. Taped(d)
  BY <1>0, <1>3 DEF OnTape, Taped
<1> PICK w : w = <<Row("tool_call", d, e)>>
  OBVIOUS
<1>5. Listing(w) /\ OnceIn(w) /\ \A c, a : SaidIn(w, c, a) <=> c = d /\ a = e
  BY OneRow
<1>6. Fresh(w)
  BY <1>3, <1>5 DEF Fresh, Silent
<1>7. /\ Listing(rows') /\ OnceIn(rows')
      /\ \A c, a : Said(c, a)' => Said(c, a) \/ (transport # "call" /\ c = d /\ a = e)
  <2>1. CASE transport = "call"
    <3>1. rows' = rows
      BY <2>1 DEF Shut, log
    <3> QED
      BY <1>0, <3>1, SameSays DEF LogTyped
  <2>2. CASE transport # "call"
    <3>1. Logged(w, luck)
      BY <2>2 DEF Shut
    <3> QED
      BY <1>0, <1>5, <1>6, <2>2, <3>1, LoggedSays DEF LogTyped
  <2> QED
    BY <2>1, <2>2
<1>8. LogTyped'
  BY <1>0, <1>3, <1>7 DEF LogTyped
<1>9. \A c : Waiting(c)' => Waiting(c) /\ c # d
  <2>1. ASSUME NEW c, Waiting(c)' PROVE Waiting(c) /\ c # d
    <3>1. PICK k \in 1..Len(pending') : pending'[k] = c
      BY <2>1 DEF Waiting
    <3>2. PICK j \in 1..Len(pending) : j # i /\ pending[j] = c
      BY <1>2, <3>1
    <3> QED
      BY <1>0, <1>1, <3>2 DEF Waiting, WaitingOpen
  <2> QED
    BY <2>1
<1>10. ASSUME NEW k, NEW x, NEW a, AtIndex(k, x)', Said(x, a)'
       PROVE  a = tape'.end[k] \/ (tape'.end[k] = Open /\ a = None("unanswered") /\ ~Waiting(x)')
  <2>0. AtIndex(k, x) /\ k \in 1..Len(tape.end) /\ tape.call[k] = x
    BY <1>1, <1>10 DEF AtIndex
  <2>1. CASE Said(x, a)
    <3>1. x # d
      BY <1>3, <2>1 DEF Silent
    <3>2. tape'.end[k] = tape.end[k]
      BY <1>1, <2>0, <3>1
    <3>3. a = tape.end[k] \/ (tape.end[k] = Open /\ a = None("unanswered") /\ ~Waiting(x))
      BY <1>0, <2>0, <2>1 DEF EndAgrees
    <3> QED
      BY <1>9, <3>2, <3>3
  <2>2. CASE transport # "call" /\ x = d /\ a = e
    <3>1. PICK j \in 1..Len(tape.end) : tape.call[j] = d /\ tape.end[j] = Open
      BY <1>0, <1>3, <2>2 DEF OnTape
    <3>2. j = k
      BY <1>0, <2>0, <2>2, <3>1 DEF TapedOnce
    <3> QED
      BY <1>1, <2>0, <2>2, <3>1, <3>2
  <2> QED
    BY <1>7, <1>10, <2>1, <2>2
<1>11. EndAgrees'
  BY <1>10 DEF EndAgrees
<1>12. \A c : Silent(c) /\ c # d => Silent(c)'
  BY <1>7 DEF Silent
<1>13. WaitingOpen'
  <2>1. ASSUME NEW x, Waiting(x)' PROVE Silent(x)' /\ OnTape(x)'
    <3>1. Waiting(x) /\ x # d /\ Silent(x) /\ OnTape(x)
      BY <1>0, <1>9, <2>1 DEF WaitingOpen
    <3>2. PICK k \in 1..Len(tape.end) : tape.call[k] = x /\ (tape.end[k] = Open \/ phase = "ended")
      BY <3>1 DEF OnTape
    <3>3. tape'.end[k] = tape.end[k]
      BY <1>1, <3>1, <3>2
    <3>4. OnTape(x)'
      BY <1>1, <3>2, <3>3 DEF OnTape
    <3> QED
      BY <1>12, <3>1, <3>4
  <2> QED
    BY <1>2, <2>1 DEF WaitingOpen
<1>14. UnopenedSilent'
  BY <1>0, <1>3, <1>4, <1>12 DEF UnopenedSilent, TapedOnce
<1>15. CallSilent'
  BY <1>0, <1>7 DEF CallSilent, Silent
<1> QED
  BY <1>8, <1>11, <1>13, <1>14, <1>15 DEF Agreed

\* What is opened is not to be opened again.
LEMMA OpenedIsDone ==
  ASSUME Recorded, NEW f \in DOMAIN script, NEW luck \in Lucks, OpenCall(f, luck),
         NEW c, c = One(f)
  PROVE  /\ c \in Call /\ c \in Nat /\ c > session.before /\ Unopened(c) /\ ~Unopened(c)' /\ mode' = mode
         /\ Call' = Call /\ \A d \in Call : Unopened(d)' => Unopened(d)
         /\ UNCHANGED <<transport, phase, session, down, calls>>
<1>0. Gated /\ Framed /\ Begun /\ Typed /\ Past
  BY DEF Recorded, Gated, Begun, Typed
<1>1. AtHead(f, "open") /\ UNCHANGED <<transport, mode, calls, phase, session, down>>
  BY DEF OpenCall, setup
<1>2. c \in Call /\ Due("open", c) /\ Of(f) = {c}
  BY <1>0, <1>1, OneOf DEF OneCall
<1>3. c \in Nat /\ c > session.before
  BY <1>0, <1>2, CallNumbers DEF Past
<1>4. ~Due("open", c)' /\ Shrinks
  BY <1>0, <1>2, OpenMoves
<1>5. mode = "enforce" => ~Due("judge", c)
  BY <1>0, <1>2 DEF Gated, ToJudge
<1>6. /\ Call' = Call /\ \A d \in Call : Due("judge", d)' => Due("judge", d)
      /\ \A d \in Call : Due("open", d)' => Due("open", d)
  BY <1>4 DEF Shrinks
<1> QED
  BY <1>1, <1>2, <1>3, <1>4, <1>5, <1>6 DEF Unopened

LEMMA AgreedOpens ==
  ASSUME Agreed, Recorded', NEW f \in DOMAIN script, NEW luck \in Lucks, OpenCall(f, luck), ~AsBefore
  PROVE  Agreed'
<1>0. /\ Recorded /\ Whole(tape) /\ pending \in Seq(Nat) /\ PendingTyped /\ TapedOnce /\ TapeTyped
      /\ LogTyped /\ EndAgrees /\ WaitingOpen /\ UnopenedSilent /\ CallSilent /\ Len(tape.call) = Len(tape.end)
  BY DEF Agreed, Recorded, TapeTyped, PendingTyped, Whole
<1> PICK c : c = One(f)
  OBVIOUS
<1>1. /\ c \in Call /\ c \in Nat /\ Unopened(c) /\ ~Unopened(c)' /\ Call' = Call
      /\ \A d \in Call : Unopened(d)' => Unopened(d)
      /\ UNCHANGED <<transport, phase>>
  BY <1>0, OpenedIsDone
<1>2. Silent(c) /\ ~Taped(c)
  BY <1>0, <1>1 DEF UnopenedSilent, TapedOnce
<1>3. ~Waiting(c)
  BY <1>0, <1>2 DEF WaitingOpen, OnTape, Taped
<1>4. PICK e \in {Open, None("invalid_id")} :
        /\ tape' = TapeOpen(tape, c, e, luck)
        /\ pending' = IF e = Open THEN Append(pending, c) ELSE pending
        /\ IF e # Open /\ transport # "call" THEN Logged(<<Row("tool_call", c, e)>>, luck)
           ELSE UNCHANGED rows
  <2>1. None("invalid_id") # Open
    BY EndsAre DEF Words
  <2> QED
    BY <2>1, OpenDoes DEF log
<1>5. e \in Ends
  BY EndsAre DEF Words
<1>6. /\ Whole(tape') /\ tape'.call = Append(tape.call, c) /\ tape'.end = Append(tape.end, e)
  BY <1>0, <1>1, <1>4, <1>5, WholeOpened
<1> PICK m, q, x : m = Len(tape.call) /\ q = tape.call /\ x = tape.end
  OBVIOUS
<1>7. m \in Nat /\ Len(q) = m /\ Len(x) = m /\ q \in Seq(Nat) /\ x \in Seq(Ends)
  BY <1>0 DEF Whole, Tapes
<1>8. /\ Len(tape'.call) = m + 1 /\ Len(tape'.end) = m + 1
      /\ tape'.call[m + 1] = c /\ tape'.end[m + 1] = e
      /\ \A k \in 1..m : tape'.call[k] = q[k] /\ tape'.end[k] = x[k]
  BY <1>1, <1>5, <1>6, <1>7
<1>9. \A k \in 1..m + 1 : k \in 1..m \/ k = m + 1
  OBVIOUS
<1>10. /\ Listing(rows') /\ OnceIn(rows')
       /\ \A d, a : Said(d, a)' => Said(d, a) \/ (transport # "call" /\ e # Open /\ d = c /\ a = e)
  <2>1. CASE e # Open /\ transport # "call"
    <3> PICK w : w = <<Row("tool_call", c, e)>>
      OBVIOUS
    <3>1. Listing(w) /\ OnceIn(w) /\ \A d, a : SaidIn(w, d, a) <=> d = c /\ a = e
      BY OneRow
    <3>2. Fresh(w)
      BY <1>2, <3>1 DEF Fresh, Silent
    <3>3. Logged(w, luck)
      BY <1>4, <2>1
    <3> QED
      BY <1>0, <2>1, <3>1, <3>2, <3>3, LoggedSays DEF LogTyped
  <2>2. CASE ~(e # Open /\ transport # "call")
    <3>1. rows' = rows
      BY <1>4, <2>2
    <3> QED
      BY <1>0, <3>1, SameSays DEF LogTyped
  <2> QED
    BY <2>1, <2>2
<1>11. LogTyped'
  BY <1>0, <1>1, <1>10 DEF LogTyped
<1>12. \A d : Silent(d) /\ d # c => Silent(d)'
  BY <1>10 DEF Silent
<1>13. \A d : Waiting(d)' => Waiting(d) \/ (d = c /\ e = Open)
  <2>1. CASE pending' = Append(pending, c) /\ e = Open
    <3>1. /\ Len(pending') = Len(pending) + 1 /\ Len(pending) \in Nat /\ pending'[Len(pending) + 1] = c
          /\ \A k \in 1..Len(pending) : pending'[k] = pending[k]
      BY <1>0, <1>1, <2>1
    <3>2. \A k \in 1..Len(pending') : k \in 1..Len(pending) \/ k = Len(pending) + 1
      BY <3>1
    <3> QED
      BY <2>1, <3>1, <3>2 DEF Waiting
  <2>2. CASE pending' = pending
    BY <2>2 DEF Waiting
  <2> QED
    BY <1>4, <2>1, <2>2
<1>14. ASSUME NEW k, NEW y, NEW a, AtIndex(k, y)', Said(y, a)'
       PROVE  a = tape'.end[k] \/ (tape'.end[k] = Open /\ a = None("unanswered") /\ ~Waiting(y)')
  <2>1. k \in 1..m + 1 /\ tape'.call[k] = y
    BY <1>8, <1>14 DEF AtIndex
  <2>2. CASE k \in 1..m
    <3>1. AtIndex(k, y) /\ tape'.end[k] = tape.end[k] /\ y # c
      BY <1>0, <1>2, <1>8, <2>1, <2>2 DEF AtIndex, Taped
    <3>2. Said(y, a)
      BY <1>10, <1>14, <3>1
    <3>3. a = tape.end[k] \/ (tape.end[k] = Open /\ a = None("unanswered") /\ ~Waiting(y))
      BY <1>0, <3>1, <3>2 DEF EndAgrees
    <3> QED
      BY <1>13, <3>1, <3>3
  <2>3. CASE k = m + 1
    <3>1. y = c /\ tape'.end[k] = e
      BY <1>8, <2>1, <2>3
    <3>2. a = e
      BY <1>2, <1>10, <1>14, <3>1 DEF Silent
    <3> QED
      BY <3>1, <3>2
  <2> QED
    BY <1>9, <2>1, <2>2, <2>3
<1>15. EndAgrees'
  BY <1>14 DEF EndAgrees
<1>16. \A d : OnTape(d) => OnTape(d)'
  <2>1. ASSUME NEW d, OnTape(d) PROVE OnTape(d)'
    <3>1. PICK k \in 1..Len(tape.end) : tape.call[k] = d /\ (tape.end[k] = Open \/ phase = "ended")
      BY <2>1 DEF OnTape
    <3>2. k \in 1..m /\ k \in 1..m + 1
      BY <1>0, <1>7
    <3> QED
      BY <1>1, <1>8, <3>1, <3>2 DEF OnTape
  <2> QED
    BY <2>1
<1>17. WaitingOpen'
  <2>1. ASSUME NEW d, Waiting(d)' PROVE Silent(d)' /\ OnTape(d)'
    <3>1. CASE Waiting(d)
      BY <1>0, <1>3, <1>12, <1>16, <3>1 DEF WaitingOpen
    <3>2. CASE d = c /\ e = Open
      <4>1. Silent(c)'
        BY <1>2, <1>10, <3>2 DEF Silent
      <4>2. m + 1 \in 1..Len(tape'.end) /\ tape'.call[m + 1] = d /\ tape'.end[m + 1] = Open
        BY <1>7, <1>8, <3>2
      <4> QED
        BY <3>2, <4>1, <4>2 DEF OnTape
    <3> QED
      BY <1>13, <2>1, <3>1, <3>2
  <2>2. \A i, j \in 1..Len(pending') : pending'[i] = pending'[j] => i = j
    <3>1. CASE pending' = Append(pending, c)
      <4>1. /\ Len(pending') = Len(pending) + 1 /\ Len(pending) \in Nat /\ pending'[Len(pending) + 1] = c
            /\ \A k \in 1..Len(pending) : pending'[k] = pending[k]
        BY <1>0, <1>1, <3>1
      <4>2. \A k \in 1..Len(pending') : k \in 1..Len(pending) \/ k = Len(pending) + 1
        BY <4>1
      <4>3. \A k \in 1..Len(pending) : pending[k] # c
        BY <1>3 DEF Waiting
      <4> QED
        BY <1>0, <4>1, <4>2, <4>3 DEF WaitingOpen
    <3>2. CASE pending' = pending
      BY <1>0, <3>2 DEF WaitingOpen
    <3> QED
      BY <1>4, <3>1, <3>2
  <2> QED
    BY <2>1, <2>2 DEF WaitingOpen
<1>18. UnopenedSilent'
  BY <1>0, <1>1, <1>12 DEF UnopenedSilent
<1>19. CallSilent'
  BY <1>0, <1>1, <1>10 DEF CallSilent, Silent
<1> QED
  BY <1>11, <1>15, <1>17, <1>18, <1>19 DEF Agreed

\* The rows of the calls that are open at the end.
Late(p) == [i \in DOMAIN p |-> Row("tool_call", p[i], None("unanswered"))]
LEMMA LateRows ==
  ASSUME NEW p \in Seq(Nat), \A i, j \in 1..Len(p) : p[i] = p[j] => i = j, NEW w, w = Late(p)
  PROVE  /\ Listing(w) /\ OnceIn(w) /\ (w # <<>> => Len(p) > 0 /\ Head(w) = Row("tool_call", p[1], None("unanswered")))
         /\ \A c, a : SaidIn(w, c, a) <=> a = None("unanswered") /\ \E i \in 1..Len(p) : p[i] = c
         /\ (w = <<>> => Len(p) = 0)
<1>1. Len(p) \in Nat /\ DOMAIN p = 1..Len(p)
  OBVIOUS
<1>2. w = [i \in 1..Len(p) |-> Row("tool_call", p[i], None("unanswered"))]
  BY <1>1 DEF Late
<1>3. PICK T : T = {Row("tool_call", p[i], None("unanswered")) : i \in 1..Len(p)}
  OBVIOUS
<1>4. w \in [1..Len(p) -> T]
  BY <1>2, <1>3
<1>5. w \in Seq(T) /\ Len(w) = Len(p)
  BY <1>1, <1>4
<1>6. \A i \in 1..Len(p) : w[i].evt = "tool_call" /\ w[i].call = p[i] /\ w[i].answer = None("unanswered")
                           /\ w[i] = Row("tool_call", p[i], None("unanswered"))
  BY <1>2 DEF Row
<1>7. Listing(w)
  BY <1>5 DEF Listing
<1>8. \A i, c : RowOf(w, i, c) <=> i \in 1..Len(p) /\ p[i] = c
  BY <1>5, <1>6 DEF RowOf
<1>9. OnceIn(w)
  BY <1>8 DEF OnceIn
<1>10. \A c, a : SaidIn(w, c, a) <=> a = None("unanswered") /\ \E i \in 1..Len(p) : p[i] = c
  BY <1>5, <1>6, <1>8 DEF SaidIn
<1>11. w # <<>> => Len(p) > 0 /\ Head(w) = w[1] /\ 1 \in 1..Len(p)
  BY <1>1, <1>5
<1>12. w = <<>> => Len(p) = 0
  BY <1>1, <1>5
<1> QED
  BY <1>6, <1>7, <1>9, <1>10, <1>11, <1>12

LEMMA AgreedFlushed ==
  ASSUME Agreed, Recorded', NEW luck \in Lucks, FlushPending(luck), transport # "call"
  PROVE  Agreed'
<1>0. /\ Recorded /\ Framed /\ pending \in Seq(Nat) /\ TapedOnce /\ TapeTyped
      /\ LogTyped /\ EndAgrees /\ WaitingOpen /\ UnopenedSilent /\ CallSilent /\ Len(tape.call) = Len(tape.end)
  BY DEF Agreed, Recorded, Gated, Begun, Typed, TapeTyped, PendingTyped, Whole
<1> PICK w : w = Late(pending)
  OBVIOUS
<1>1. /\ phase = "flushing" /\ pending' = <<>> /\ UNCHANGED <<transport, mode, calls, script, tape>>
      /\ \E v : Logged(v, luck) /\ (v = w \/ (w # <<>> /\ v = <<Head(w)>>))
  BY DEF FlushPending, setup, Late
<1>2. PICK v : Logged(v, luck) /\ (v = w \/ (w # <<>> /\ v = <<Head(w)>>))
  BY <1>1
<1>3. /\ Listing(w) /\ OnceIn(w) /\ (w # <<>> => Len(pending) > 0 /\ Head(w) = Row("tool_call", pending[1], None("unanswered")))
      /\ \A c, a : SaidIn(w, c, a) <=> a = None("unanswered") /\ \E i \in 1..Len(pending) : pending[i] = c
  BY <1>0, LateRows DEF WaitingOpen
<1>4. Listing(v) /\ OnceIn(v) /\ \A c, a : SaidIn(v, c, a) => a = None("unanswered") /\ Waiting(c)
  <2>1. CASE v = w
    BY <1>3, <2>1 DEF Waiting
  <2>2. CASE w # <<>> /\ v = <<Head(w)>>
    <3>1. v = <<Row("tool_call", pending[1], None("unanswered"))>> /\ 1 \in 1..Len(pending)
      BY <1>0, <1>3, <2>2
    <3>2. Waiting(pending[1])
      BY <3>1 DEF Waiting
    <3> QED
      BY <3>1, <3>2, OneRow
  <2> QED
    BY <1>2, <2>1, <2>2
<1>5. Fresh(v)
  BY <1>0, <1>4 DEF Fresh, WaitingOpen, Silent
<1>6. /\ Listing(rows') /\ OnceIn(rows')
      /\ \A c, a : Said(c, a)' => Said(c, a) \/ (a = None("unanswered") /\ Waiting(c))
  BY <1>0, <1>2, <1>4, <1>5, LoggedSays DEF LogTyped
<1>7. Call' = Call /\ \A c \in Call : Unopened(c)' => Unopened(c)
  BY <1>0, <1>1, NothingMoves DEF Unopened
<1>8. \A c : Waiting(c) => c \in Call /\ Taped(c) /\ OnTape(c)
  BY <1>0 DEF WaitingOpen, OnTape, Taped, TapeTyped
<1>9. None("unanswered") # Open
  BY EndsAre DEF Words
<1>10. LogTyped'
  BY <1>0, <1>6, <1>7, <1>8, <1>9 DEF LogTyped
<1>11. \A c : ~Waiting(c)'
  BY <1>1 DEF Waiting
<1>12. ASSUME NEW k, NEW x, NEW a, AtIndex(k, x)', Said(x, a)'
       PROVE  a = tape'.end[k] \/ (tape'.end[k] = Open /\ a = None("unanswered") /\ ~Waiting(x)')
  <2>1. AtIndex(k, x) /\ tape' = tape
    BY <1>1, <1>12 DEF AtIndex
  <2>2. CASE Said(x, a)
    BY <1>0, <1>11, <2>1, <2>2 DEF EndAgrees
  <2>3. CASE a = None("unanswered") /\ Waiting(x)
    <3>1. PICK j \in 1..Len(tape.end) : tape.call[j] = x /\ tape.end[j] = Open
      BY <1>1, <1>8, <2>3 DEF OnTape
    <3>2. j = k
      BY <1>0, <2>1, <3>1 DEF TapedOnce, AtIndex
    <3> QED
      BY <1>11, <2>1, <2>3, <3>1, <3>2
  <2> QED
    BY <1>6, <1>12, <2>2, <2>3
<1>13. EndAgrees'
  BY <1>12 DEF EndAgrees
<1>14. WaitingOpen'
  BY <1>1, <1>11 DEF WaitingOpen
<1>15. UnopenedSilent'
  BY <1>0, <1>6, <1>7, <1>8 DEF UnopenedSilent, Silent, TapedOnce
<1>16. CallSilent'
  BY <1>1 DEF CallSilent
<1> QED
  BY <1>10, <1>13, <1>14, <1>15, <1>16 DEF Agreed

LEMMA AgreedEnds ==
  ASSUME Agreed, Recorded', NEW luck \in Lucks, FlushTape(luck)
  PROVE  Agreed'
<1>0. /\ Recorded /\ Framed /\ Whole(tape) /\ LogTyped /\ EndAgrees /\ WaitingOpen /\ UnopenedSilent /\ CallSilent
  BY DEF Agreed, Recorded, Gated, Begun, Typed, TapeTyped
<1>1. tape' = TapeFlush(tape, luck) /\ phase' = "ended" /\ UNCHANGED <<transport, mode, calls, script, pending, rows>>
  BY DEF FlushTape, setup, log
<1>2. /\ tape'.call = tape.call /\ Len(tape'.end) = Len(tape.end)
      /\ \A k \in 1..Len(tape.end) : tape'.end[k] = IF tape.end[k] = Open THEN None("unanswered") ELSE tape.end[k]
  BY <1>0, <1>1, WholeFlushed
<1>3. Listing(rows') /\ OnceIn(rows') /\ \A c, a : Said(c, a)' <=> Said(c, a)
  BY <1>0, <1>1, SameSays DEF LogTyped
<1>4. Call' = Call /\ \A c \in Call : Unopened(c)' => Unopened(c)
  BY <1>0, <1>1, NothingMoves DEF Unopened
<1>5. \A c : Silent(c)' <=> Silent(c)
  BY <1>3 DEF Silent
<1>6. \A c : Waiting(c)' <=> Waiting(c)
  BY <1>1 DEF Waiting
<1>7. LogTyped'
  BY <1>0, <1>3, <1>4 DEF LogTyped
<1>8. ASSUME NEW k, NEW x, NEW a, AtIndex(k, x)', Said(x, a)'
      PROVE  a = tape'.end[k]
  <2>1. AtIndex(k, x) /\ Said(x, a) /\ a # Open /\ k \in 1..Len(tape.end)
    BY <1>0, <1>2, <1>3, <1>8 DEF AtIndex, LogTyped
  <2>2. a = tape.end[k] \/ (tape.end[k] = Open /\ a = None("unanswered"))
    BY <1>0, <2>1 DEF EndAgrees
  <2> QED
    BY <1>2, <2>1, <2>2
<1>9. EndAgrees'
  BY <1>8 DEF EndAgrees
<1>10. \A x : OnTape(x) => OnTape(x)'
  BY <1>1, <1>2 DEF OnTape
<1>11. WaitingOpen'
  BY <1>0, <1>1, <1>5, <1>6, <1>10 DEF WaitingOpen
<1>12. UnopenedSilent'
  BY <1>0, <1>4, <1>5 DEF UnopenedSilent
<1>13. CallSilent'
  BY <1>0, <1>1, <1>5 DEF CallSilent
<1> QED
  BY <1>7, <1>9, <1>11, <1>12, <1>13 DEF Agreed

LEMMA AgreedResumes ==
  ASSUME Agreed, Recorded', Restart
  PROVE  Agreed'
<1>0. /\ Recorded /\ Framed /\ Whole(tape) /\ LogTyped /\ EndAgrees /\ CallSilent
  BY DEF Agreed, Recorded, Gated, Begun, Typed, TapeTyped
<1>1. PICK last : last = LastOf(tape)
  OBVIOUS
<1>2. tape' = Cut(tape, last) /\ pending' = <<>> /\ UNCHANGED <<transport, mode, calls, rows>>
  BY <1>1 DEF Restart, LastOf, Cut, setup, log
<1>3. /\ last \in 0..Len(tape.end) /\ Len(tape'.end) = last
      /\ \A k \in 1..last : tape'.call[k] = tape.call[k] /\ tape'.end[k] = tape.end[k] /\ tape.end[k] # Open
  BY <1>0, <1>1, <1>2, WholeResumed
<1>4. \A k \in 1..last : k \in 1..Len(tape.end)
  BY <1>0, <1>3 DEF Whole, Tapes
<1>5. Listing(rows') /\ OnceIn(rows') /\ \A c, a : Said(c, a)' <=> Said(c, a)
  BY <1>0, <1>2, SameSays DEF LogTyped
<1>6. Call' = Call /\ \A c \in Call : ~Unopened(c)'
  BY <1>0, RestartMoves DEF Unopened, Shrinks
<1>7. LogTyped'
  BY <1>0, <1>5, <1>6 DEF LogTyped
<1>8. ASSUME NEW k, NEW x, NEW a, AtIndex(k, x)', Said(x, a)' PROVE a = tape'.end[k]
  <2>1. k \in 1..last /\ tape'.call[k] = x
    BY <1>3, <1>8 DEF AtIndex
  <2>2. AtIndex(k, x) /\ Said(x, a) /\ tape'.end[k] = tape.end[k] /\ tape.end[k] # Open
    BY <1>3, <1>4, <1>5, <1>8, <2>1 DEF AtIndex
  <2> QED
    BY <1>0, <2>2 DEF EndAgrees
<1>9. EndAgrees'
  BY <1>8 DEF EndAgrees
<1>10. WaitingOpen'
  BY <1>2 DEF WaitingOpen, Waiting
<1>11. UnopenedSilent'
  BY <1>6 DEF UnopenedSilent
<1>12. CallSilent'
  BY <1>0, <1>2, <1>5 DEF CallSilent, Silent
<1> QED
  BY <1>7, <1>9, <1>10, <1>11, <1>12 DEF Agreed

\* A row of the gate is not the row of a call.
LEMMA MandateRow ==
  ASSUME Listing(rows), OnceIn(rows), NEW evt, evt # "tool_call", NEW c, NEW e, NEW luck,
         Logged(<<Row(evt, c, e)>>, luck)
  PROVE  Listing(rows') /\ OnceIn(rows') /\ \A d, a : Said(d, a)' <=> Said(d, a)
<1> PICK w : w = <<Row(evt, c, e)>>
  OBVIOUS
<1>1. Listing(w) /\ OnceIn(w) /\ (\A d, a : ~SaidIn(w, d, a)) /\ Logged(w, luck)
  BY OneRow
<1>2. Fresh(w)
  BY <1>1 DEF Fresh
<1> QED
  BY <1>1, <1>2, LoggedSays

LEMMA AgreedStep ==
  ASSUME Agreed, [Next]_vars
  PROVE  Agreed'
<1>0. /\ Recorded /\ Gated /\ Framed /\ Begun /\ Typed /\ SessionTyped /\ pending \in Seq(Nat)
      /\ LogTyped /\ Listing(rows) /\ OnceIn(rows) /\ Recorded' /\ transport' = transport
  BY RecordedStep, SetupStays DEF Agreed, Recorded, Gated, Begun, Typed, PendingTyped, LogTyped
<1>1. ASSUME NEW n \in Frames, NEW kinds \in [1..n -> Kinds], Send(kinds) PROVE Agreed'
  <2>1. /\ \A c \in Call : \A p : Due(p, c)' <=> Due(p, c)
        /\ Call' = Call \cup New(kinds) /\ New(kinds) \cap Call = {}
        /\ UNCHANGED <<transport, mode, tape, pending, rows, phase>>
    BY <1>0, <1>1, SendMoves, SendSays
  <2>2. \A c \in Call : Unopened(c)' => Unopened(c)
    BY <2>1 DEF Unopened
  <2>3. Listing(rows') /\ OnceIn(rows') /\ \A c, a : Said(c, a)' <=> Said(c, a)
    BY <1>0, <2>1, SameSays
  <2> QED
    BY <1>0, <2>1, <2>2, <2>3, AgreedStays
<1>2. CASE UNCHANGED vars
  <2>1. UNCHANGED <<transport, mode, calls, script, tape, pending, rows, phase>>
    BY <1>2 DEF vars
  <2>2. Call' = Call /\ \A c \in Call : Unopened(c)' => Unopened(c)
    BY <1>0, <2>1, NothingMoves DEF Unopened
  <2>3. Listing(rows') /\ OnceIn(rows') /\ \A c, a : Said(c, a)' <=> Said(c, a)
    BY <1>0, <2>1, SameSays
  <2> QED
    BY <1>0, <2>1, <2>2, <2>3, AgreedStays
<1> SUFFICES ASSUME Next, ~\E n \in Frames : \E kinds \in [1..n -> Kinds] : Send(kinds)
             PROVE  Agreed'
  BY <1>1, <1>2
<1>3. Call' = Call /\ \A c \in Call : Unopened(c)' => Unopened(c)
  BY <1>0, OpenedLater
<1>4. ASSUME UNCHANGED <<tape, pending>>, phase = "ended" => phase' = "ended",
             Listing(rows'), OnceIn(rows'), \A c, a : Said(c, a)' <=> Said(c, a)
      PROVE  Agreed'
  BY <1>0, <1>3, <1>4, AgreedStays
<1>5. ASSUME UNCHANGED <<tape, pending, rows>>, phase = "ended" => phase' = "ended" PROVE Agreed'
  <2>1. Listing(rows') /\ OnceIn(rows') /\ \A c, a : Said(c, a)' <=> Said(c, a)
    BY <1>0, <1>5, SameSays
  <2> QED
    BY <1>4, <1>5, <2>1
<1>6. ASSUME NEW f \in DOMAIN script, NEW luck \in Lucks, Judge(f, luck) PROVE Agreed'
  <2>1. UNCHANGED <<tape, pending, phase>>
    BY <1>6 DEF Judge
  <2>2. \/ UNCHANGED rows
        \/ Logged(<<>>, luck)
        \/ Logged(<<Row("mandate_changed", Min(Of(f)), None("moved"))>>, luck)
    BY <1>6 DEF Judge, CheckFile, log
  <2>3. CASE Logged(<<>>, luck)
    <3>1. Fresh(<<>>)
      BY NoRow DEF Fresh
    <3>2. Listing(rows') /\ OnceIn(rows') /\ \A c, a : Said(c, a)' <=> Said(c, a)
      BY <1>0, <2>3, <3>1, NoRow, LoggedSays
    <3> QED
      BY <1>4, <2>1, <3>2
  <2>4. CASE Logged(<<Row("mandate_changed", Min(Of(f)), None("moved"))>>, luck)
    <3>1. Listing(rows') /\ OnceIn(rows') /\ \A c, a : Said(c, a)' <=> Said(c, a)
      BY <1>0, <2>4, MandateRow
    <3> QED
      BY <1>4, <2>1, <3>1
  <2> QED
    BY <1>5, <2>1, <2>2, <2>3, <2>4
<1>7. ASSUME NEW f \in DOMAIN script, NEW luck \in Lucks, NEW o, Record(f, o, luck) PROVE Agreed'
  <2>1. UNCHANGED <<tape, pending, phase>>
    BY <1>7 DEF Record
  <2>2. UNCHANGED rows \/ Logged(<<Row("mandate_outside", One(f), None(o))>>, luck)
    BY <1>7 DEF Record, log
  <2>3. CASE Logged(<<Row("mandate_outside", One(f), None(o))>>, luck)
    <3>1. Listing(rows') /\ OnceIn(rows') /\ \A c, a : Said(c, a)' <=> Said(c, a)
      BY <1>0, <2>3, MandateRow
    <3> QED
      BY <1>4, <2>1, <3>1
  <2> QED
    BY <1>5, <2>1, <2>2, <2>3
<1>8. ASSUME NEW f \in DOMAIN script, NEW luck \in Lucks, Records(f, luck) PROVE Agreed'
  BY <1>7, <1>8 DEF Records
<1>9. ASSUME NEW f \in DOMAIN script, Puts(f) PROVE Agreed'
  BY <1>5, <1>9 DEF Puts, Inject, Write, Relay, Pass, log
<1>10. ASSUME NEW f, NEW a, NEW read, NEW left, Respond(f, a, read, left) PROVE Agreed'
  BY <1>5, <1>10 DEF Respond, log
<1>11. ASSUME NEW c \in Call, NEW read \in BOOLEAN, DownRelay(c, read) PROVE Agreed'
  BY <1>5, <1>11 DEF DownRelay, log
<1>12. CASE EditMandate \/ Stop \/ Waited \/ \E f \in DOMAIN script : BreakPipe(f)
  BY <1>5, <1>12 DEF EditMandate, Stop, Waited, BreakPipe, log
<1>13. ASSUME NEW luck \in Lucks, FlushPending(luck) PROVE Agreed'
  <2>1. CASE transport = "call"
    <3>1. UNCHANGED <<tape, pending, rows>> /\ phase = "flushing"
      BY <1>13, <2>1 DEF FlushPending, log
    <3> QED
      BY <1>5, <3>1
  <2> QED
    BY <1>0, <1>13, <2>1, AgreedFlushed
<1>14. ASSUME NEW luck \in Lucks, FlushTape(luck) PROVE Agreed'
  BY <1>0, <1>14, AgreedEnds
<1>15. ASSUME NEW f \in DOMAIN script, NEW luck \in Lucks, OpenCall(f, luck) PROVE Agreed'
  <2>1. CASE AsBefore
    <3>1. UNCHANGED phase
      BY <1>15 DEF OpenCall
    <3> QED
      BY <1>5, <2>1, <3>1 DEF AsBefore
  <2> QED
    BY <1>0, <1>15, <2>1, AgreedOpens
\* An open call is only ever shut before the session has ended, or the rows are none.
<1>16. ASSUME NEW i, NEW e \in Ends, e # Open, NEW luck, Shut(i, e, luck), UNCHANGED phase,
              transport = "pipe" => phase # "ended"
       PROVE  Agreed'
  <2>1. transport # "call" => phase # "ended"
    BY <1>0, <1>16 DEF Shut, Deaf, Framed, SetupTyped
  <2> QED
    BY <1>0, <1>3, <1>16, <2>1, AgreedShut
<1>17. ASSUME NEW c \in Call, NEW luck, Observe(c, luck), UNCHANGED phase, transport = "pipe" => phase # "ended"
       PROVE  Agreed'
  <2>1. By(c) \in Ends /\ By(c) # Open
    BY <1>0, ByIs
  <2>2. CASE AsBefore
    BY <1>5, <1>17, <2>2 DEF AsBefore
  <2>3. ASSUME NEW i, Shut(i, By(c), luck) PROVE Agreed'
    BY <1>16, <1>17, <2>1, <2>3
  <2> QED
    BY <1>0, <1>17, <2>2, <2>3, ObserveDoes
<1>18. ASSUME NEW f \in DOMAIN script, NEW luck \in Lucks, Pair(f, luck) PROVE Agreed'
  <2>1. AtHead(f, "pair") /\ Observe(One(f), luck) /\ UNCHANGED phase
    BY <1>18 DEF Pair
  <2>2. One(f) \in Call
    BY <1>0, <2>1, OneOf DEF OneCall
  <2>3. transport = "pipe" => phase # "ended"
    BY <2>1 DEF AtHead
  <2> QED
    BY <1>17, <2>1, <2>2, <2>3
<1>19. ASSUME NEW luck \in Lucks, DownObserve(luck) PROVE Agreed'
  <2>1. down # 0 /\ Observe(down, luck) /\ UNCHANGED phase /\ (transport = "pipe" => phase # "ended")
    BY <1>19 DEF DownObserve
  <2>2. down \in Call
    BY <1>0, <2>1 DEF Recorded, DownTyped
  <2> QED
    BY <1>17, <2>1, <2>2
<1>20. ASSUME NEW f \in DOMAIN script, NEW luck \in Lucks, CloseCall(f, luck) PROVE Agreed'
  <2>1. AtHead(f, "close") /\ UNCHANGED phase
    BY <1>20 DEF CloseCall
  <2>2. transport = "pipe" => phase # "ended"
    BY <2>1 DEF AtHead
  <2>3. None("unanswered") \in Ends /\ None("unanswered") # Open
    BY EndsAre DEF Words
  <2>4. CASE AsBefore
    BY <1>5, <2>1, <2>4 DEF AsBefore
  <2>5. ASSUME NEW i, Shut(i, None("unanswered"), luck) PROVE Agreed'
    BY <1>16, <2>1, <2>2, <2>3, <2>5
  <2> QED
    BY <1>0, <1>20, <2>4, <2>5, CloseDoes
<1>21. CASE Restart
  BY <1>0, <1>21, AgreedResumes
<1>22. CASE Rest
  BY <1>8, <1>12, <1>13, <1>14, <1>15, <1>18, <1>19, <1>20, <1>22 DEF Rest
<1> QED
  BY <1>6, <1>9, <1>10, <1>11, <1>21, <1>22, NextIs

\* The log has a call's row once; the tape's end for it is the same, or was left open while
\* the call had its row; and what waits or is not opened yet has no row.
THEOREM SpecAgreed == Spec => []Agreed
<1>1. Init => Agreed
  BY InitAgreed
<1>2. Agreed /\ [Next]_vars => Agreed'
  BY AgreedStep
<1> QED
  BY <1>1, <1>2, PTL DEF Spec

\* The tape file is in call order with every call once, and says of a call what the
\* seam log says of it.
THEOREM TapeAgreesHolds == Spec => []TapeAgrees
<1>1. Agreed => TapeAgrees
  <2> SUFFICES ASSUME Agreed PROVE TapeAgrees
    OBVIOUS
  <2>0. Whole(tape) /\ TapedOnce /\ LogTyped /\ EndAgrees /\ Listing(rows)
    BY DEF Agreed, Recorded, TapeTyped, LogTyped
  <2>1. /\ tape.call \in Seq(Nat) /\ tape.end \in Seq(Ends) /\ tape.file \in Seq(Nat)
        /\ Len(tape.end) = Len(tape.call) /\ tape.done <= Len(tape.end) /\ tape.done \in Nat
        /\ Len(tape.end) \in Nat
        /\ \A k \in 1..tape.done : tape.end[k] # Open
        /\ \A i \in 1..Len(tape.file) : tape.file[i] \in 1..tape.done
        /\ \A i, j \in 1..Len(tape.file) : i < j => tape.file[i] < tape.file[j]
    BY <2>0 DEF Whole, Tapes
  <2>2. DOMAIN tape.file = 1..Len(tape.file) /\ DOMAIN tape.call = 1..Len(tape.call)
    BY <2>1
  <2>3. DOMAIN rows = 1..Len(rows)
    BY <2>0 DEF Listing
  <2>4. ASSUME NEW k \in DOMAIN tape.file, NEW i \in RowsOf(tape.call[tape.file[k]])
        PROVE  rows[i].answer = tape.end[tape.file[k]]
    <3> PICK j, x : j = tape.file[k] /\ x = tape.call[j]
      OBVIOUS
    <3>1. j \in 1..tape.done /\ tape.end[j] # Open
      BY <2>1, <2>2
    <3>2. j \in 1..Len(tape.end)
      BY <2>1, <3>1
    <3>3. RowOf(rows, i, x)
      BY <2>3, <2>4 DEF RowsOf, RowOf
    <3>4. Said(x, rows[i].answer)
      BY <3>3, SaidRow DEF Said
    <3>5. AtIndex(j, x)
      BY <3>2 DEF AtIndex
    <3> QED
      BY <2>0, <3>1, <3>4, <3>5 DEF EndAgrees
  <2>5. \A i, j \in DOMAIN tape.call : tape.call[i] = tape.call[j] => i = j
    BY <2>0, <2>2 DEF TapedOnce
  <2> QED
    BY <2>1, <2>2, <2>4, <2>5 DEF TapeAgrees
<1> QED
  BY <1>1, SpecAgreed, PTL

(***************************************************************************)
(* What was closed stays closed: a call nothing is due of stays so, and    *)
(* the count of unwritten rows never falls.                                *)
(***************************************************************************)
Done(c) == \A p : ~Due(p, c)

LEMMA DoneStays ==
  ASSUME Framed, SessionTyped, Next, ~Sends
  PROVE  Call' = Call /\ \A c \in Call : Done(c) => Done(c)'
<1>1. ASSUME NEW f \in DOMAIN script, NEW luck \in Lucks, Judge(f, luck)
      PROVE  Call' = Call /\ \A c \in Call : Done(c) => Done(c)'
  <2>1. Call' = Call
    BY <1>1 DEF Judge, Call
  <2>2. \A c \in Of(f) : c \in Call /\ Due("judge", c)
    BY <1>1, HeadOf DEF Judge
  <2>3. \A p : \A c \in Call : <<p, c>> \in HeldPlan(Of(f)) => c \in Of(f)
    BY DEF HeldPlan, Valid
  <2>4. ASSUME NEW p, NEW c \in Call, Due(p, c)' PROVE Due(p, c) \/ c \in Of(f)
    <3>1. CASE calls[c].frame # f
      BY <1>1, <2>4, <3>1, JudgeMoves
    <3>2. CASE calls[c].frame = f /\ mode # "enforce"
      BY <1>1, <2>4, <3>2, JudgeMoves
    <3>3. CASE calls[c].frame = f /\ mode = "enforce"
      BY <1>1, <2>3, <2>4, <3>3, JudgeMoves
    <3> QED
      BY <3>1, <3>2, <3>3
  <2> QED
    BY <2>1, <2>2, <2>4 DEF Done
<1>2. ASSUME Shrinks PROVE Call' = Call /\ \A c \in Call : Done(c) => Done(c)'
  BY <1>2 DEF Shrinks, Done
<1>3. ASSUME NEW f \in DOMAIN script, Puts(f) PROVE Call' = Call /\ \A c \in Call : Done(c) => Done(c)'
  <2>1. PICK o \in PutOps : Put(f, o)
    BY <1>3, PutsIs
  <2> QED
    BY <1>2, <2>1, PutMoves
<1>4. ASSUME NEW f \in DOMAIN script, NEW a \in SUBSET CallsOf(f), NEW read \in SUBSET a,
             NEW left \in BOOLEAN, Respond(f, a, read, left)
      PROVE  Call' = Call /\ \A c \in Call : Done(c) => Done(c)'
  <2>1. Responded(f, a, read, left)
    BY <1>4, RespondMoves
  <2>2. \A p : \A c \in Call : <<p, c>> \in AnsweredPlan(Of(f), a, read, left) => c \in Of(f)
    BY <1>4 DEF AnsweredPlan, Respond
  <2>3. ASSUME NEW p, NEW c \in Call, Due(p, c)' PROVE Due(p, c) \/ Due("answer", c)
    BY <2>1, <2>2, <2>3 DEF Responded
  <2> QED
    BY <2>1, <2>3 DEF Done, Responded
<1>5. ASSUME NEW c \in Call, NEW read \in BOOLEAN, DownRelay(c, read) PROVE Call' = Call /\ \A d \in Call : Done(d) => Done(d)'
  <2>1. UNCHANGED <<transport, mode, calls, script>>
    BY <1>5 DEF DownRelay, setup
  <2> QED
    BY <2>1, NothingMoves DEF Done
<1>6. CASE Restart
  BY <1>2, <1>6, RestartMoves
<1>7. CASE Rest
  BY <1>2, <1>7, ElsewhereMoves DEF Elsewhere
<1> QED
  BY <1>1, <1>3, <1>4, <1>5, <1>6, <1>7, NextIs DEF Sends

LEMMA LoggedCounts ==
  ASSUME unlogged \in Nat, Listing(rows), NEW w, Listing(w), NEW luck, Logged(w, luck)
  PROVE  /\ unlogged' \in Nat /\ unlogged <= unlogged'
         /\ \A c, a : Said(c, a) => Said(c, a)'
<1> SUFFICES unlogged' \in Nat /\ unlogged <= unlogged'
  BY LoggedSays
<1>1. Len(w) \in Nat
  BY DEF Listing
<1> PICK u, v, n : u = unlogged /\ v = unlogged' /\ n = Len(w)
  OBVIOUS
<1>2. CASE luck # "no log"
  <2>1. unlogged' = unlogged
    BY <1>2 DEF Logged
  <2>2. u \in Nat /\ v = u
    BY <2>1
  <2>3. v \in Nat /\ u <= v
    BY <2>2
  <2> QED
    BY <1>2, <2>1, <2>3
<1>3. CASE luck = "no log"
  <2>1. unlogged' = unlogged + Len(w)
    BY <1>3 DEF Logged
  <2>2. u \in Nat /\ v = u + n /\ n \in Nat
    BY <1>1, <2>1
  <2>3. v \in Nat /\ u <= v
    BY <2>2
  <2> QED
    BY <1>3, <2>3
<1> QED
  BY <1>2, <1>3

Counted == unlogged' \in Nat /\ unlogged <= unlogged' /\ \A c, a : Said(c, a) => Said(c, a)'
LEMMA ShutCounts ==
  ASSUME unlogged \in Nat, Listing(rows), NEW i, NEW e, NEW luck, Shut(i, e, luck)
  PROVE  Counted
<1>1. UNCHANGED <<rows, unlogged>> \/ Logged(<<Row("tool_call", pending[i], e)>>, luck)
  BY DEF Shut, log
<1>2. CASE Logged(<<Row("tool_call", pending[i], e)>>, luck)
  <2> PICK w : w = <<Row("tool_call", pending[i], e)>>
    OBVIOUS
  <2>1. Listing(w) /\ Logged(w, luck)
    BY <1>2, OneRow
  <2> QED
    BY <2>1, LoggedCounts DEF Counted
<1>3. ASSUME UNCHANGED <<rows, unlogged>> PROVE Counted
  BY <1>3, SameSays DEF Counted
<1> QED
  BY <1>1, <1>2, <1>3

LEMMA CountsUp ==
  ASSUME Recorded, unlogged \in Nat, Listing(rows), WaitingOpen, [Next]_vars
  PROVE  Counted
<1>0. pending \in Seq(Nat) /\ \A i, j \in 1..Len(pending) : pending[i] = pending[j] => i = j
  BY DEF Recorded, PendingTyped, WaitingOpen
<1>1. ASSUME UNCHANGED <<rows, unlogged>> PROVE Counted
  BY <1>1, SameSays DEF Counted
<1>2. ASSUME NEW evt, NEW c, NEW e, NEW luck, Logged(<<Row(evt, c, e)>>, luck) PROVE Counted
  BY <1>2, OneRow, LoggedCounts DEF Counted
<1>3. CASE Sends \/ UNCHANGED vars \/ \E f \in DOMAIN script : Puts(f)
  BY <1>1, <1>3 DEF Sends, Send, vars, Puts, Inject, Write, Relay, Pass, log
<1>4. ASSUME NEW f \in DOMAIN script, NEW luck \in Lucks, Judge(f, luck) PROVE Counted
  <2>1. \/ UNCHANGED <<rows, unlogged>>
        \/ Logged(<<>>, luck)
        \/ Logged(<<Row("mandate_changed", Min(Of(f)), None("moved"))>>, luck)
    BY <1>4 DEF Judge, CheckFile, log
  <2>2. CASE Logged(<<>>, luck)
    BY <2>2, NoRow, LoggedCounts DEF Counted
  <2> QED
    BY <1>1, <1>2, <2>1, <2>2
<1>5. ASSUME NEW f \in DOMAIN script, NEW luck \in Lucks, NEW o, Record(f, o, luck) PROVE Counted
  <2>1. UNCHANGED <<rows, unlogged>> \/ Logged(<<Row("mandate_outside", One(f), None(o))>>, luck)
    BY <1>5 DEF Record, log
  <2> QED
    BY <1>1, <1>2, <2>1
<1>6. ASSUME NEW f, NEW a, NEW read, NEW left, Respond(f, a, read, left) PROVE Counted
  BY <1>1, <1>6 DEF Respond, log
<1>7. ASSUME NEW c \in Call, NEW read \in BOOLEAN, DownRelay(c, read) PROVE Counted
  BY <1>1, <1>7 DEF DownRelay, log
<1>8. CASE EditMandate \/ Stop \/ Waited \/ Restart \/ \E f \in DOMAIN script : BreakPipe(f)
  BY <1>1, <1>8 DEF EditMandate, Stop, Waited, BreakPipe, Restart, log
<1>9. ASSUME NEW luck \in Lucks, FlushPending(luck) PROVE Counted
  <2> PICK w : w = Late(pending)
    OBVIOUS
  <2>1. \/ UNCHANGED <<rows, unlogged>>
        \/ Logged(w, luck)
        \/ w # <<>> /\ Logged(<<Head(w)>>, luck)
    BY <1>9 DEF FlushPending, log, Late
  <2>2. Listing(w) /\ (w # <<>> => Head(w) = Row("tool_call", pending[1], None("unanswered")))
    BY <1>0, LateRows
  <2>3. CASE Logged(w, luck)
    BY <2>2, <2>3, LoggedCounts DEF Counted
  <2>4. CASE w # <<>> /\ Logged(<<Head(w)>>, luck)
    BY <1>2, <2>2, <2>4
  <2> QED
    BY <1>1, <2>1, <2>3, <2>4
<1>10. ASSUME NEW luck \in Lucks, FlushTape(luck) PROVE Counted
  BY <1>1, <1>10 DEF FlushTape, log
<1>11. ASSUME NEW f \in DOMAIN script, NEW luck \in Lucks, OpenCall(f, luck) PROVE Counted
  <2>1. UNCHANGED <<rows, unlogged>> \/ Logged(<<Row("tool_call", One(f), None("invalid_id"))>>, luck)
    BY <1>11, OpenDoes DEF AsBefore, log
  <2> QED
    BY <1>1, <1>2, <2>1
<1>12. ASSUME NEW c, NEW luck, Observe(c, luck) PROVE Counted
  BY <1>0, <1>1, <1>12, ObserveDoes, ShutCounts DEF AsBefore
<1>13. ASSUME NEW f \in DOMAIN script, NEW luck \in Lucks, CloseCall(f, luck) PROVE Counted
  BY <1>0, <1>1, <1>13, CloseDoes, ShutCounts DEF AsBefore
<1>14. ASSUME NEW f \in DOMAIN script, NEW luck \in Lucks, Pair(f, luck) PROVE Counted
  <2>1. Observe(One(f), luck)
    BY <1>14 DEF Pair
  <2> QED
    BY <1>12, <2>1
<1>15. ASSUME NEW luck \in Lucks, DownObserve(luck) PROVE Counted
  <2>1. Observe(down, luck)
    BY <1>15 DEF DownObserve
  <2> QED
    BY <1>12, <2>1
<1>16. CASE Rest
  BY <1>5, <1>8, <1>9, <1>10, <1>11, <1>13, <1>14, <1>15, <1>16 DEF Rest, Records
<1> QED
  BY <1>3, <1>4, <1>6, <1>7, <1>8, <1>16, NextIs DEF Sends

LEMMA NoneBelow == \A u, v : u \in Nat /\ v = 0 => ~(v > u)
  OBVIOUS
\* Where every row could be written, this step's could.
LEMMA LogTaken ==
  ASSUME unlogged \in Nat, NEW luck, Met(luck), unlogged' = 0
  PROVE  luck # "no log"
<1>1. luck = "no log" => unlogged' > unlogged
  BY DEF Met
<1> QED
  BY <1>1, NoneBelow, Zenon

(***************************************************************************)
(* The end of a session that waited for its threads.                       *)
(***************************************************************************)
Awake == phase \in {"running", "stopping"}
DrainedDone == session.drained => ~Awake /\ down = 0 /\ \A c \in Current : Done(c)

LEMMA SameCurrent ==
  ASSUME UNCHANGED calls, session'.before = session.before, session'.late = session.late
  PROVE  Current' = Current /\ Call' = Call
BY DEF Current, Call

\* Only Waited changes what the session says of itself, and nothing wakes it but Restart.
LEMMA SessionStays ==
  ASSUME Typed, Next, ~Sends, ~Restart
  PROVE  /\ UNCHANGED calls /\ Current' = Current /\ Call' = Call /\ (Awake' => Awake)
         /\ UNCHANGED session \/ (Waited /\ Awake /\ ~Awake' /\ session'.drained = Quiet)
         /\ (down' \in {down, 0} \/ ~session.drained)
<1>0. session \in [before : Nat, late : SUBSET Nat, drained : BOOLEAN]
  BY DEF Typed, SessionTyped
<1>1. CASE \E f \in DOMAIN script, luck \in Lucks : Judge(f, luck)
  BY <1>1, SameCurrent DEF Judge, Awake
<1>2. CASE \E f \in DOMAIN script : Puts(f)
  BY <1>2, SameCurrent DEF Puts, Inject, Write, Relay, Pass, Awake
<1>3. CASE \E f \in DOMAIN script : \E a \in SUBSET CallsOf(f) :
             \E read \in SUBSET a, left \in BOOLEAN : Respond(f, a, read, left)
  BY <1>3, SameCurrent DEF Respond, Awake
<1>4. CASE \E c \in Call, read \in BOOLEAN : DownRelay(c, read)
  BY <1>4, SameCurrent DEF DownRelay, Awake
<1>5. ASSUME NEW f \in DOMAIN script, NEW luck \in Lucks,
             Records(f, luck) \/ OpenCall(f, luck) \/ Pair(f, luck) \/ CloseCall(f, luck)
      PROVE  UNCHANGED <<calls, session, phase, down>>
  BY <1>5 DEF Records, Record, OpenCall, Pair, CloseCall
<1>6. CASE \E f \in DOMAIN script, luck \in Lucks :
             Records(f, luck) \/ OpenCall(f, luck) \/ Pair(f, luck) \/ CloseCall(f, luck)
  BY <1>5, <1>6, SameCurrent DEF Awake
<1>7. CASE \E luck \in Lucks : DownObserve(luck) \/ FlushPending(luck) \/ FlushTape(luck)
  <2>1. UNCHANGED <<calls, session>> /\ down' \in {down, 0} /\ (Awake' => Awake)
    BY <1>7 DEF DownObserve, FlushPending, FlushTape, Awake
  <2> QED
    BY <2>1, SameCurrent
<1>8. CASE EditMandate \/ Stop \/ \E f \in DOMAIN script : BreakPipe(f)
  BY <1>8, SameCurrent DEF EditMandate, Stop, BreakPipe, Awake
<1>9. CASE Waited
  <2>1. UNCHANGED <<calls, down>> /\ session' = [session EXCEPT !.drained = Quiet] /\ phase = "stopping" /\ phase' = "flushing"
    BY <1>9 DEF Waited
  <2>2. session'.before = session.before /\ session'.late = session.late /\ session'.drained = Quiet
    BY <1>0, <2>1
  <2> QED
    BY <1>9, <2>1, <2>2, SameCurrent DEF Awake
<1> QED
  BY <1>1, <1>2, <1>3, <1>4, <1>6, <1>7, <1>8, <1>9, NextIs DEF Sends, Rest

\* A call of a late frame is not one the session has to account for.
LEMMA SentLate ==
  ASSUME Typed, NEW n \in Frames, NEW kinds \in [1..n -> Kinds], Send(kinds)
  PROVE  /\ \A c \in Current' : c \in Current \/ (c \in New(kinds) /\ phase = "running")
         /\ session'.drained = session.drained /\ UNCHANGED <<phase, down>>
         /\ \A c \in Call : Done(c) => Done(c)'
         /\ Current \subseteq Call
<1>1. /\ Call' = Call \cup New(kinds) /\ session'.before = session.before
      /\ \A c \in Call : \A p : Due(p, c)' <=> Due(p, c)
      /\ UNCHANGED <<phase, down>>
      /\ \/ phase = "running" /\ session' = session
         \/ phase # "running" /\ session' = [session EXCEPT !.late = @ \cup New(kinds)]
  BY SendMoves, SendSays DEF Typed
<1>2. session \in [before : Nat, late : SUBSET Nat, drained : BOOLEAN]
  BY DEF Typed, SessionTyped
<1>3. /\ session'.drained = session.drained
      /\ session'.late = IF phase = "running" THEN session.late ELSE session.late \cup New(kinds)
  BY <1>1, <1>2
<1> QED
  BY <1>1, <1>3 DEF Current, Done

LEMMA DrainedStep ==
  ASSUME Recorded, DrainedDone, [Next]_vars
  PROVE  DrainedDone'
<1>0. Typed /\ Framed /\ SessionTyped /\ Current \subseteq Call
  BY DEF Recorded, Gated, Begun, Typed, Current
<1>1. CASE Sends
  <2>1. PICK n \in Frames : \E kinds \in [1..n -> Kinds] : Send(kinds)
    BY <1>1 DEF Sends
  <2>2. PICK kinds \in [1..n -> Kinds] : Send(kinds)
    BY <2>1
  <2> QED
    BY <1>0, <2>2, SentLate DEF DrainedDone, Awake
<1>2. CASE Restart
  BY <1>2 DEF Restart, DrainedDone
<1>3. CASE UNCHANGED vars
  <2>1. UNCHANGED <<transport, mode, calls, script, session, phase, down>>
    BY <1>3 DEF vars
  <2>2. Current' = Current /\ \A c \in Call : Done(c) => Done(c)'
    BY <1>0, <2>1, SameCurrent, NothingMoves DEF Done
  <2> QED
    BY <1>0, <2>1, <2>2 DEF DrainedDone, Awake
<1>4. CASE Next /\ ~Sends /\ ~Restart
  <2>1. /\ Current' = Current /\ (Awake' => Awake) /\ (down' \in {down, 0} \/ ~session.drained)
        /\ UNCHANGED session \/ (Waited /\ ~Awake' /\ session'.drained = Quiet)
    BY <1>0, <1>4, SessionStays
  <2>2. \A c \in Call : Done(c) => Done(c)'
    BY <1>0, <1>4, DoneStays
  <2>3. CASE UNCHANGED session
    BY <1>0, <2>1, <2>2, <2>3 DEF DrainedDone
  <2>4. CASE Waited /\ ~Awake' /\ session'.drained = Quiet
    <3> SUFFICES ASSUME Quiet PROVE DrainedDone'
      BY <2>4 DEF DrainedDone
    <3>1. down' = 0
      BY <2>4 DEF Waited, Quiet
    <3>2. \A f \in DOMAIN script : Len(script[f]) = 0
      BY DEF Quiet
    <3>3. \A c \in Call : Done(c)
      BY <1>0, <3>2, FrameOf DEF Done, Due, Has, Framed
    <3> QED
      BY <1>0, <2>1, <2>2, <2>4, <3>1, <3>3 DEF DrainedDone
  <2> QED
    BY <2>1, <2>3, <2>4
<1> QED
  BY <1>1, <1>2, <1>3, <1>4

(***************************************************************************)
(* A call of the session is rowed, open, or still to be opened.            *)
(***************************************************************************)
Live == Awake \/ session.drained
\* Its calls are attended to: a pipe's thread that reads from the agent is there, or was waited for.
Heeded == (Awake /\ ~Blocked) \/ session.drained
Heard(c) == ~Silent(c) \/ Waiting(c) \/ Unopened(c)
Rows0 == Agreed /\ Framewise /\ unlogged \in Nat /\ DrainedDone

LEMMA UnopenedIsAwake ==
  ASSUME DrainedDone, Live, NEW c \in Current, Unopened(c)
  PROVE  Awake /\ ~Deaf
BY DEF DrainedDone, Live, Awake, Unopened, Done, Deaf

\* Every handler has its turn, or the thread that had one is gone.
LEMMA ScriptsMove ==
  ASSUME Next, ~Sends, ~Restart
  PROVE  \/ UNCHANGED script \/ UpIsGone
         \/ \E f \in DOMAIN script : OwnTurn(f)
<1>1. ASSUME NEW f \in DOMAIN script, NEW luck \in Lucks, Judge(f, luck) PROVE OwnTurn(f)
  BY <1>1 DEF Judge, Go, OwnTurn
<1>2. ASSUME NEW f \in DOMAIN script, NEW luck \in Lucks, Records(f, luck) PROVE OwnTurn(f) \/ UpIsGone
  <2>1. PICK o \in {"record", "refuse"} : Record(f, o, luck)
    BY <1>2 DEF Records
  <2>2. AtHead(f, o) /\ o # "gone"
    BY <2>1 DEF Record
  <2> QED
    BY <2>1, <2>2 DEF Record, Next1, Go, OwnTurn
<1>3. ASSUME NEW f \in DOMAIN script, NEW luck \in Lucks, OpenCall(f, luck) \/ Pair(f, luck) \/ CloseCall(f, luck)
      PROVE  OwnTurn(f)
  <2>1. CASE OpenCall(f, luck)
    BY <2>1 DEF OpenCall, Go, OwnTurn
  <2>2. CASE Pair(f, luck)
    BY <2>2 DEF Pair, Next1, Go, OwnTurn
  <2>3. CASE CloseCall(f, luck)
    BY <2>3 DEF CloseCall, Next1, Go, OwnTurn
  <2> QED
    BY <1>3, <2>1, <2>2, <2>3
<1>4. ASSUME NEW f \in DOMAIN script, Puts(f) PROVE OwnTurn(f)
  BY <1>4 DEF Puts, Inject, Write, Relay, Pass, Next1, Go, OwnTurn
<1>5. ASSUME NEW f \in DOMAIN script, NEW a, NEW read, NEW left, Respond(f, a, read, left) PROVE OwnTurn(f)
  BY <1>5 DEF Respond, Go, OwnTurn
<1>6. ASSUME NEW c \in Call, NEW read \in BOOLEAN, DownRelay(c, read) PROVE UNCHANGED script
  BY <1>6 DEF DownRelay
<1>7. ASSUME NEW f \in DOMAIN script, BreakPipe(f) PROVE UpIsGone
  BY <1>7 DEF BreakPipe
<1>8. ASSUME NEW luck \in Lucks, DownObserve(luck) \/ FlushPending(luck) \/ FlushTape(luck) PROVE UNCHANGED script
  BY <1>8 DEF DownObserve, FlushPending, FlushTape
<1>9. CASE EditMandate \/ Stop \/ Waited
  BY <1>9 DEF EditMandate, Stop, Waited
<1>10. CASE Rest
  BY <1>2, <1>3, <1>7, <1>8, <1>9, <1>10 DEF Rest
<1> QED
  BY <1>1, <1>4, <1>5, <1>6, <1>10, NextIs DEF Sends

\* Until the next session nothing gets past a thread that is gone.
LEMMA BlockedStays ==
  ASSUME Framed, Next, ~Sends, ~Restart, Blocked
  PROVE  Blocked'
<1>1. CASE UNCHANGED script
  BY <1>1 DEF Blocked
<1>2. Len(script) \in Nat /\ DOMAIN script = 1..Len(script) /\ Len(script) # 0
  BY CallIs DEF Framed, FramesTyped, Blocked
<1>3. 1 \in DOMAIN script
  BY <1>2
<1>4. CASE UpIsGone
  BY <1>3, <1>4, GoneBlocks
<1>5. ASSUME NEW f \in DOMAIN script, OwnTurn(f) PROVE Blocked'
  <2>1. PICK o, s : o # "gone" /\ AtHead(f, o) /\ script' = [script EXCEPT ![f] = s]
    BY <1>5 DEF OwnTurn
  <2>2. Op(1) = "gone"
    BY DEF Blocked, Op, All
  <2>3. f # 1
    BY <2>1, <2>2 DEF AtHead
  <2>4. script'[1] = script[1] /\ DOMAIN script' = DOMAIN script
    BY <2>1, <2>3
  <2>5. script' # <<>>
    BY <1>3, <2>4
  <2> QED
    BY <2>4, <2>5 DEF Blocked
<1> QED
  BY <1>1, <1>4, <1>5, ScriptsMove

\* An open call stays open, or its row is written.
LEMMA WaitingKept ==
  ASSUME Rows0, Next, ~Restart, transport # "call", unlogged' = 0, NEW c, Waiting(c)
  PROVE  Waiting(c)' \/ ~Silent(c)'
<1>0. /\ Recorded /\ Typed /\ WaitingOpen /\ Listing(rows) /\ pending \in Seq(Nat) /\ unlogged \in Nat
      /\ \A i, j \in 1..Len(pending) : pending[i] = pending[j] => i = j
  BY DEF Rows0, Agreed, LogTyped, WaitingOpen, Recorded, Gated, Begun, PendingTyped
<1>1. ASSUME UNCHANGED pending PROVE Waiting(c)'
  BY <1>1 DEF Waiting
<1>2. ASSUME NEW i, NEW e, NEW luck, Shut(i, e, luck), Met(luck) PROVE Waiting(c)' \/ ~Silent(c)'
  <2>1. luck # "no log"
    BY <1>0, <1>2, LogTaken
  <2> PICK w : w = <<Row("tool_call", pending[i], e)>>
    OBVIOUS
  <2>2. Logged(w, luck) /\ i \in 1..Len(pending) /\ pending' = RemoveAt(pending, i)
    BY <1>2 DEF Shut
  <2>3. Listing(w) /\ SaidIn(w, pending[i], e)
    BY OneRow
  <2> PICK d : d = pending[i]
    OBVIOUS
  <2>4. Said(d, e)'
    <3>1. SaidIn(w, d, e)
      BY <2>3
    <3> QED
      BY <1>0, <2>1, <2>2, <2>3, <3>1, LoggedSays
  <2>5. OneOut(Nat, pending', pending, i)
    BY <1>0, <2>2, Removed
  <2>6. PICK j \in 1..Len(pending) : pending[j] = c
    BY DEF Waiting
  <2>7. CASE j = i
    BY <2>4, <2>6, <2>7 DEF Silent
  <2>8. CASE j # i
    <3>1. Len(pending') = Len(pending) - 1
          /\ \A k \in 1..Len(pending') : pending'[k] = IF k < i THEN pending[k] ELSE pending[k + 1]
      BY <2>5 DEF OneOut
    <3>2. pending \in Seq(Nat) /\ j \in 1..Len(pending) \ {i}
      BY <1>0, <2>8
    <3>3. \E k \in 1..Len(pending') : pending'[k] = pending[j]
      BY <2>2, <3>1, <3>2, ShutLeaves, ZenonT(40)
    <3> QED
      BY <2>6, <3>3 DEF Waiting
  <2> QED
    BY <2>7, <2>8
<1>3. CASE Sends \/ \E f \in DOMAIN script : Puts(f)
  BY <1>1, <1>3 DEF Sends, Send, Puts, Inject, Write, Relay, Pass
<1>4. ASSUME NEW f \in DOMAIN script, NEW luck \in Lucks, Judge(f, luck) \/ Records(f, luck) PROVE UNCHANGED pending
  BY <1>4 DEF Judge, Records, Record
<1>5. ASSUME NEW f, NEW a, NEW read, NEW left, Respond(f, a, read, left) PROVE UNCHANGED pending
  BY <1>5 DEF Respond
<1>6. ASSUME NEW d \in Call, NEW read \in BOOLEAN, DownRelay(d, read) PROVE UNCHANGED pending
  BY <1>6 DEF DownRelay
<1>7. CASE EditMandate \/ Stop \/ Waited \/ \E f \in DOMAIN script : BreakPipe(f)
  BY <1>1, <1>7 DEF EditMandate, Stop, Waited, BreakPipe
<1>8. ASSUME NEW luck \in Lucks, FlushPending(luck) PROVE Waiting(c)' \/ ~Silent(c)'
  <2>1. Met(luck)
    BY <1>8 DEF FlushPending
  <2>2. luck # "no log"
    BY <1>0, <2>1, LogTaken
  <2> PICK w : w = Late(pending)
    OBVIOUS
  <2>3. Logged(w, luck)
    BY <1>8, <2>2 DEF FlushPending, Late
  <2>4. Listing(w) /\ SaidIn(w, c, None("unanswered"))
    BY <1>0, LateRows DEF Waiting
  <2>5. Said(c, None("unanswered"))'
    BY <1>0, <2>2, <2>3, <2>4, LoggedSays
  <2> QED
    BY <2>5 DEF Silent
<1>9. ASSUME NEW luck \in Lucks, FlushTape(luck) PROVE UNCHANGED pending
  BY <1>9 DEF FlushTape
<1>10. ASSUME NEW f \in DOMAIN script, NEW luck \in Lucks, OpenCall(f, luck) PROVE Waiting(c)'
  <2>1. UNCHANGED pending \/ (pending' = Append(pending, One(f)) /\ AtHead(f, "open"))
    BY <1>10, OpenDoes DEF AsBefore, OpenCall
  <2>2. CASE pending' = Append(pending, One(f)) /\ AtHead(f, "open")
    <3>1. One(f) \in Nat
      BY <1>0, <1>10, OpenedIsDone
    <3>2. /\ Len(pending') = Len(pending) + 1 /\ \A k \in 1..Len(pending) : pending'[k] = pending[k]
          /\ Len(pending) \in Nat
      BY <1>0, <2>2, <3>1
    <3> QED
      BY <3>2 DEF Waiting
  <2> QED
    BY <1>1, <2>1, <2>2
<1>11. ASSUME NEW d, NEW luck, Observe(d, luck), Met(luck) PROVE Waiting(c)' \/ ~Silent(c)'
  BY <1>0, <1>1, <1>2, <1>11, ObserveDoes DEF AsBefore
<1>12. ASSUME NEW f \in DOMAIN script, NEW luck \in Lucks, CloseCall(f, luck) PROVE Waiting(c)' \/ ~Silent(c)'
  <2>1. Met(luck)
    BY <1>12 DEF CloseCall
  <2> QED
    BY <1>0, <1>1, <1>2, <1>12, <2>1, CloseDoes DEF AsBefore
<1>13. ASSUME NEW f \in DOMAIN script, NEW luck \in Lucks, Pair(f, luck) PROVE Waiting(c)' \/ ~Silent(c)'
  <2>1. Observe(One(f), luck) /\ Met(luck)
    BY <1>13 DEF Pair
  <2> QED
    BY <1>11, <2>1
<1>14. ASSUME NEW luck \in Lucks, DownObserve(luck) PROVE Waiting(c)' \/ ~Silent(c)'
  <2>1. Observe(down, luck) /\ Met(luck)
    BY <1>14 DEF DownObserve
  <2> QED
    BY <1>11, <2>1
<1>15. CASE Rest
  BY <1>1, <1>4, <1>7, <1>8, <1>9, <1>10, <1>12, <1>13, <1>14, <1>15 DEF Rest
<1> QED
  BY <1>1, <1>3, <1>4, <1>5, <1>6, <1>15, NextIs DEF Sends

\* A call that is to be opened is so still, or it was opened, or rowed as one of no valid id.
LEMMA UnopenedKept ==
  ASSUME Rows0, Next, ~Sends, ~Restart, ~\E f \in DOMAIN script : BreakPipe(f),
         transport # "call", unlogged' = 0, Awake, NEW c \in Call, Unopened(c)
  PROVE  Heard(c)'
<1>0. /\ Recorded /\ Gated /\ Framed /\ JudgedFirst /\ Typed /\ SessionTyped /\ Listing(rows) /\ pending \in Seq(Nat)
      /\ unlogged \in Nat /\ mode' = mode /\ ~Deaf /\ ~DeafGate /\ transport' = transport
  BY SetupStays DEF Rows0, Agreed, LogTyped, Recorded, Gated, Begun, Typed, PendingTyped, Framewise, Deaf, DeafGate, Awake
<1>1. ASSUME \A p \in {"open", "judge"} : Due(p, c)' <=> Due(p, c) PROVE Heard(c)'
  BY <1>0, <1>1 DEF Unopened, Heard
<1>2. ASSUME NEW o, o # "open", o # "judge", NEW S, Exactly(o, S) PROVE Heard(c)'
  <2>1. \A p \in {"open", "judge"} : Due(p, c)' <=> Due(p, c)
    BY <1>2 DEF Exactly
  <2> QED
    BY <1>1, <2>1
<1>3. ASSUME NEW f \in DOMAIN script, NEW luck \in Lucks, Judge(f, luck) PROVE Heard(c)'
  <2>1. CASE calls[c].frame # f
    BY <1>0, <1>1, <1>3, <2>1, JudgeMoves
  <2>2. CASE mode # "enforce"
    <3>1. Due("open", c)' <=> Due("open", c)
      BY <1>0, <1>3, <2>2, JudgeMoves
    <3> QED
      BY <1>0, <2>2, <3>1 DEF Unopened, Heard
  <2>3. CASE calls[c].frame = f /\ mode = "enforce"
    <3>1. AtHead(f, "judge")
      BY <1>3 DEF Judge
    <3>2. c \in Of(f)
      BY <1>0, <2>3, <3>1, JudgedWhole, CallsOfFrame DEF Framed
    <3>3. "open" \in PassedOps /\ <<"open", c>> \in HeldPlan(Of(f))
      BY <3>2 DEF PassedOps, HeldPlan
    <3>4. Due("open", c)'
      BY <1>0, <1>3, <2>3, <3>2, <3>3, JudgeMoves
    <3> QED
      BY <3>4 DEF Unopened, Heard
  <2> QED
    BY <2>1, <2>2, <2>3
<1>4. ASSUME NEW f \in DOMAIN script, NEW o \in {"record", "refuse"}, NEW luck \in Lucks, Record(f, o, luck)
      PROVE  Heard(c)'
  <2>1. Met(luck)
    BY <1>4 DEF Record
  <2>2. luck # "no log"
    BY <1>0, <2>1, LogTaken
  <2>3. Exactly(o, {One(f)})
    BY <1>0, <1>4, <2>2, RecordMoves
  <2> QED
    BY <1>2, <2>3
<1>5. ASSUME NEW f \in DOMAIN script, Puts(f) PROVE Heard(c)'
  <2>1. PICK o \in PutOps : Put(f, o)
    BY <1>5, PutsIs
  <2>2. Exactly(o, Of(f)) /\ o # "open" /\ o # "judge"
    BY <1>0, <2>1, PutMoves DEF PutOps
  <2> QED
    BY <1>2, <2>2
<1>6. ASSUME NEW f \in DOMAIN script, NEW a \in SUBSET CallsOf(f), NEW read \in SUBSET a,
             NEW left \in BOOLEAN, Respond(f, a, read, left)
      PROVE  Heard(c)'
  <2>1. Responded(f, a, read, left)
    BY <1>0, <1>6, RespondMoves
  <2>2. ASSUME calls[c].frame = f, NEW p, Due(p, c) PROVE p = "answer"
    BY <2>1, <2>2 DEF Responded
  <2>3. "open" # "answer" /\ "judge" # "answer" /\ \E p \in {"open", "judge"} : Due(p, c)
    BY DEF Unopened
  <2>4. calls[c].frame # f
    BY <2>2, <2>3
  <2> QED
    BY <1>1, <2>1, <2>4 DEF Responded
<1>7. ASSUME UNCHANGED <<transport, mode, calls, script>> PROVE Heard(c)'
  BY <1>0, <1>1, <1>7, NothingMoves
<1>8. ASSUME NEW d \in Call, NEW read \in BOOLEAN, DownRelay(d, read) PROVE Heard(c)'
  BY <1>7, <1>8 DEF DownRelay, setup
<1>9. CASE EditMandate \/ Stop \/ Waited
  BY <1>7, <1>9 DEF EditMandate, Stop, Waited, setup
<1>10. ASSUME NEW luck \in Lucks, FlushPending(luck) \/ FlushTape(luck) \/ DownObserve(luck) PROVE Heard(c)'
  BY <1>7, <1>10 DEF FlushPending, FlushTape, DownObserve, setup
<1>11. ASSUME NEW f \in DOMAIN script, NEW luck \in Lucks, OpenCall(f, luck) PROVE Heard(c)'
  <2>1. Met(luck)
    BY <1>11 DEF OpenCall
  <2>2. luck # "no log"
    BY <1>0, <2>1, LogTaken
  <2>3. Exactly("open", {One(f)})
    BY <1>0, <1>11, <2>2, OpenMoves
  <2> PICK d : d = One(f)
    OBVIOUS
  <2>4. d \in Nat
    BY <1>0, <1>11, OpenedIsDone
  <2>5. CASE c # d
    <3>1. \A p \in {"open", "judge"} : Due(p, c)' <=> Due(p, c)
      BY <2>3, <2>5 DEF Exactly
    <3> QED
      BY <1>1, <3>1
  <2>6. CASE c = d
    <3>1. \/ pending' = Append(pending, d)
          \/ Logged(<<Row("tool_call", d, None("invalid_id"))>>, luck)
      BY <1>0, <1>11, OpenDoes
    <3>2. CASE pending' = Append(pending, d)
      <4>1. Len(pending') = Len(pending) + 1 /\ Len(pending) \in Nat /\ pending'[Len(pending) + 1] = d
        BY <1>0, <2>4, <3>2
      <4>2. Len(pending) + 1 \in 1..Len(pending')
        BY <4>1
      <4> QED
        BY <2>6, <4>1, <4>2 DEF Waiting, Heard
    <3>3. CASE Logged(<<Row("tool_call", d, None("invalid_id"))>>, luck)
      <4> PICK w, e : e = None("invalid_id") /\ w = <<Row("tool_call", d, e)>>
        OBVIOUS
      <4>1. Listing(w) /\ SaidIn(w, d, e) /\ Logged(w, luck)
        BY <3>3, OneRow
      <4>2. Said(d, e)'
        BY <1>0, <2>2, <4>1, LoggedSays
      <4> QED
        BY <2>6, <4>2 DEF Heard, Silent
    <3> QED
      BY <3>1, <3>2, <3>3
  <2> QED
    BY <2>5, <2>6
<1>12. ASSUME NEW f \in DOMAIN script, NEW luck \in Lucks, Pair(f, luck) PROVE Heard(c)'
  <2>1. AtHead(f, "pair") /\ Next1(f) /\ UNCHANGED <<transport, mode, calls>>
    BY <1>12 DEF Pair, setup
  <2>2. Exactly("pair", Of(f))
    BY <1>0, <2>1, PlainMoves
  <2> QED
    BY <1>2, <2>2
<1>13. ASSUME NEW f \in DOMAIN script, NEW luck \in Lucks, CloseCall(f, luck) PROVE Heard(c)'
  <2>1. Met(luck)
    BY <1>13 DEF CloseCall
  <2>2. luck # "no log"
    BY <1>0, <2>1, LogTaken
  <2>3. Exactly("close", {One(f)})
    BY <1>0, <1>13, <2>2, CloseMoves
  <2> QED
    BY <1>2, <2>3
<1>14. CASE Rest
  BY <1>4, <1>9, <1>10, <1>11, <1>12, <1>13, <1>14 DEF Rest, Records
<1> QED
  BY <1>3, <1>5, <1>6, <1>8, <1>14, NextIs DEF Sends

HeardAll == transport # "call" /\ unlogged = 0 /\ Heeded => \A c \in Current : Heard(c)
NoneWaits == session.drained /\ transport # "call" /\ phase \in {"flushed", "ended"} =>
               \A c \in Current : ~Waiting(c)
Rowed == Rows0 /\ HeardAll /\ NoneWaits

LEMMA InitRowed == ASSUME Init PROVE Rowed
<1>1. Call = {} /\ Current = {} /\ unlogged = 0 /\ session.drained = FALSE
  BY DEF Init, Call, Current
<1> QED
  BY <1>1, InitAgreed, InitFramewise DEF Rowed, Rows0, HeardAll, NoneWaits, DrainedDone

LEMMA Rows0Step ==
  ASSUME Rows0, [Next]_vars
  PROVE  Rows0' /\ Counted
<1>0. Agreed /\ Framewise /\ Recorded /\ WaitingOpen /\ Listing(rows) /\ unlogged \in Nat /\ DrainedDone
  BY DEF Rows0, Agreed, LogTyped
<1>1. Agreed' /\ Framewise' /\ Counted /\ DrainedDone'
  BY <1>0, AgreedStep, FramewiseStep, CountsUp, DrainedStep
<1> QED
  BY <1>1 DEF Rows0, Counted

LEMMA NoneAbove == \A u, v : u \in Nat /\ v \in Nat /\ u <= v /\ v = 0 => u = 0
  OBVIOUS

LEMMA HeardStep ==
  ASSUME Rowed, [Next]_vars
  PROVE  HeardAll'
<1>0. /\ Rows0 /\ Recorded /\ Gated /\ Typed /\ Framed /\ SessionTyped /\ DrainedDone /\ unlogged \in Nat
      /\ Current \subseteq Call /\ Counted /\ UNCHANGED <<transport, mode>> /\ pending \in Seq(Nat)
  BY Rows0Step, SetupStays DEF Rowed, Rows0, Agreed, Recorded, Gated, Begun, Typed, Current, PendingTyped
<1>1. unlogged' = 0 => unlogged = 0
  BY <1>0, NoneAbove, Zenon DEF Counted
<1>2. \A c : ~Silent(c) => ~Silent(c)'
  BY <1>0 DEF Counted, Silent
<1> SUFFICES ASSUME transport # "call", unlogged' = 0, Heeded', NEW c \in Current' PROVE Heard(c)'
  BY <1>0 DEF HeardAll
<1>3. unlogged = 0
  BY <1>1
<1>4. CASE Sends
  <2>1. PICK n \in Frames : \E kinds \in [1..n -> Kinds] : Send(kinds)
    BY <1>4 DEF Sends
  <2>2. PICK kinds \in [1..n -> Kinds] : Send(kinds)
    BY <2>1
  <2>3. /\ c \in Current \/ (c \in New(kinds) /\ phase = "running")
        /\ session'.drained = session.drained /\ UNCHANGED phase
    BY <1>0, <2>2, SentLate
  <2>4. /\ \A d \in Call : \A p : Due(p, d)' <=> Due(p, d)
        /\ \A d \in New(kinds) : \A p : Due(p, d)' <=> p \in ScriptOps
        /\ UNCHANGED <<pending, rows>>
    BY <1>0, <2>2, SendMoves, SendSays
  <2>5. CASE c \in Current
    <3>0. Blocked => Blocked'
      BY <1>0, <2>2, SendBlocks DEF Framed
    <3>1. Heard(c)
      BY <1>3, <2>3, <2>5, <3>0 DEF Rowed, HeardAll, Heeded, Awake
    <3> QED
      BY <1>0, <1>2, <2>4, <2>5, <3>1 DEF Heard, Waiting, Unopened
  <2>6. CASE c \in New(kinds)
    <3>1. IF mode = "enforce" THEN "judge" \in ScriptOps ELSE "open" \in ScriptOps
      BY DEF ScriptOps
    <3> QED
      BY <1>0, <2>4, <2>6, <3>1 DEF Heard, Unopened
  <2> QED
    BY <2>3, <2>5, <2>6
<1>5. CASE Restart
  <2>1. Call' = 1..Len(calls) /\ session'.before = Len(calls) /\ Len(calls) \in Nat
    BY <1>0, <1>5, CallNumbers DEF Restart, Call
  <2>2. c \in Call' /\ c > session'.before
    BY DEF Current
  <2> QED
    BY <2>1, <2>2
<1>6. CASE UNCHANGED vars
  <2>1. UNCHANGED <<transport, mode, calls, script, session, phase, pending>>
    BY <1>6 DEF vars
  <2>2. c \in Current /\ c \in Call /\ Heeded
    BY <1>0, <2>1, SameCurrent DEF Heeded, Awake, Blocked
  <2>3. Heard(c)
    BY <1>3, <2>2 DEF Rowed, HeardAll
  <2>4. \A p : Due(p, c)' <=> Due(p, c)
    BY <1>0, <2>1, <2>2, NothingMoves
  <2> QED
    BY <1>2, <2>1, <2>3, <2>4 DEF Heard, Waiting, Unopened
<1>7. CASE Next /\ ~Sends /\ ~Restart
  <2>1. /\ c \in Current /\ c \in Call /\ (Awake' => Awake)
        /\ UNCHANGED session \/ (Waited /\ Awake /\ ~Awake' /\ session'.drained = Quiet)
    BY <1>0, <1>7, SessionStays
  <2>0. ~Blocked \/ Blocked'
    BY <1>0, <1>7, BlockedStays
  <2>2. Heeded
    <3>1. CASE UNCHANGED session
      BY <1>0, <2>0, <2>1, <3>1 DEF Heeded
    <3>2. CASE Waited /\ ~Awake' /\ session'.drained = Quiet
      <4>1. Quiet
        BY <3>2 DEF Heeded
      <4>2. ~Blocked
        <5> SUFFICES ASSUME Blocked PROVE FALSE
          OBVIOUS
        <5>1. Len(script) \in Nat /\ DOMAIN script = 1..Len(script) /\ Len(script) # 0
          BY <1>0, CallIs DEF Framed, FramesTyped, Blocked
        <5>2. 1 \in DOMAIN script
          BY <5>1
        <5>3. All("gone", {}) # <<>>
          BY DEF All
        <5> QED
          BY <4>1, <5>2, <5>3 DEF Quiet, Blocked
      <4> QED
        BY <2>1, <3>2, <4>2 DEF Heeded
    <3> QED
      BY <2>1, <3>1, <3>2
  <2>3. Heard(c)
    BY <1>3, <2>1, <2>2 DEF Rowed, HeardAll
  <2>4. CASE ~Silent(c)
    BY <1>2, <2>4 DEF Heard
  <2>5. CASE Waiting(c)
    BY <1>0, <1>7, <2>5, WaitingKept DEF Heard
  <2>6. CASE Unopened(c)
    <3>1. Awake /\ ~session.drained
      BY <1>0, <2>1, <2>2, <2>6, UnopenedIsAwake DEF Heeded, Live, DrainedDone
    <3>2. ASSUME NEW f \in DOMAIN script, BreakPipe(f) PROVE FALSE
      <4>1. Blocked' /\ UNCHANGED session
        BY <1>0, <3>2, GoneBlocks DEF BreakPipe
      <4> QED
        BY <3>1, <4>1 DEF Heeded
    <3> QED
      BY <1>0, <1>7, <2>1, <2>6, <3>1, <3>2, UnopenedKept
  <2> QED
    BY <2>3, <2>4, <2>5, <2>6 DEF Heard
<1> QED
  BY <1>4, <1>5, <1>6, <1>7

\* After the flush no call of the session waits, for nothing of it is left to be opened.
LEMMA NoneWaitsStep ==
  ASSUME Rowed, [Next]_vars
  PROVE  NoneWaits'
<1>0. /\ Rows0 /\ Recorded /\ Gated /\ Typed /\ Framed /\ SessionTyped /\ DrainedDone
      /\ Current \subseteq Call /\ UNCHANGED <<transport, mode>> /\ pending \in Seq(Nat) /\ NoneWaits /\ Whole(tape)
      /\ Recorded' /\ \A i, j \in 1..Len(pending) : pending[i] = pending[j] => i = j
  BY RecordedStep, SetupStays
  DEF Rowed, Rows0, Agreed, Recorded, Gated, Begun, Typed, Current, PendingTyped, TapeTyped, WaitingOpen
<1> SUFFICES ASSUME session'.drained, transport # "call", phase' \in {"flushed", "ended"}, NEW c \in Current', Waiting(c)'
             PROVE  FALSE
  BY <1>0 DEF NoneWaits
<1>1. CASE Restart
  BY <1>1 DEF Restart
<1>2. CASE \E luck \in Lucks : FlushPending(luck)
  <2>1. pending' = <<>>
    BY <1>2 DEF FlushPending
  <2> QED
    BY <2>1 DEF Waiting
<1>3. ASSUME c \in Current, session.drained, Waiting(c)' => Waiting(c), phase \in {"flushed", "ended"} PROVE FALSE
  BY <1>0, <1>3 DEF NoneWaits
<1>4. CASE Sends
  <2>1. PICK n \in Frames : \E kinds \in [1..n -> Kinds] : Send(kinds)
    BY <1>4 DEF Sends
  <2>2. PICK kinds \in [1..n -> Kinds] : Send(kinds)
    BY <2>1
  <2>3. /\ c \in Current \/ (c \in New(kinds) /\ phase = "running")
        /\ session'.drained = session.drained /\ UNCHANGED <<phase, pending>>
    BY <1>0, <2>2, SentLate, SendSays
  <2> QED
    BY <1>3, <2>3 DEF Waiting
<1>5. CASE UNCHANGED vars
  <2>1. UNCHANGED <<calls, session, phase, pending>>
    BY <1>5 DEF vars
  <2> QED
    BY <1>3, <2>1, SameCurrent DEF Waiting
<1>6. CASE Next /\ ~Sends /\ ~Restart /\ ~\E luck \in Lucks : FlushPending(luck)
  <2>1. c \in Current /\ c \in Call /\ (Awake' => Awake) /\ (UNCHANGED session \/ (Waited /\ Awake))
    BY <1>0, <1>6, SessionStays
  <2>2. ~Waited
    BY DEF Waited
  <2>3. session.drained /\ Done(c) /\ ~Awake
    BY <1>0, <2>1, <2>2 DEF DrainedDone
  <2>4. ASSUME UNCHANGED <<pending, phase>> PROVE FALSE
    BY <1>3, <2>1, <2>3, <2>4 DEF Waiting
  <2>5. ASSUME NEW i, NEW e, NEW luck, Shut(i, e, luck), UNCHANGED phase PROVE FALSE
    <3>1. i \in 1..Len(pending) /\ pending' = RemoveAt(pending, i)
      BY <2>5 DEF Shut
    <3>2. OneOut(Nat, pending', pending, i)
      BY <1>0, <3>1, Removed
    <3>3. \A k \in 1..Len(pending') : \E j \in 1..Len(pending) \ {i} : pending'[k] = pending[j]
      BY <1>0, <3>1, <3>2, ShutLeaves DEF OneOut
    <3> QED
      BY <1>3, <2>1, <2>3, <2>5, <3>3 DEF Waiting
  <2>6. ASSUME NEW f \in DOMAIN script, NEW luck \in Lucks, Judge(f, luck) \/ Records(f, luck) PROVE FALSE
    BY <2>4, <2>6 DEF Judge, Records, Record
  <2>7. ASSUME NEW f \in DOMAIN script, Puts(f) PROVE FALSE
    BY <2>4, <2>7 DEF Puts, Inject, Write, Relay, Pass
  <2>8. ASSUME NEW f, NEW a, NEW read, NEW left, Respond(f, a, read, left) PROVE FALSE
    BY <2>4, <2>8 DEF Respond
  <2>9. ASSUME NEW d \in Call, NEW read \in BOOLEAN, DownRelay(d, read) PROVE FALSE
    BY <2>4, <2>9 DEF DownRelay
  <2>10. ~EditMandate /\ ~Stop /\ ~\E f \in DOMAIN script : BreakPipe(f)
    BY <2>3, <2>4 DEF EditMandate, Stop, BreakPipe, Awake
  <2>11. ASSUME NEW luck \in Lucks, FlushTape(luck) PROVE FALSE
    <3>1. phase = "flushed" /\ UNCHANGED pending
      BY <2>11 DEF FlushTape
    <3> QED
      BY <1>3, <2>1, <2>3, <3>1 DEF Waiting
  <2>12. ASSUME NEW f \in DOMAIN script, NEW luck \in Lucks, OpenCall(f, luck) PROVE FALSE
    <3>1. UNCHANGED phase
      BY <2>12 DEF OpenCall
    <3>2. UNCHANGED pending \/ pending' = Append(pending, One(f))
      BY <2>12, OpenDoes DEF AsBefore
    <3> PICK d : d = One(f)
      OBVIOUS
    <3>3. d \in Nat /\ Unopened(d)
      BY <1>0, <2>12, OpenedIsDone
    <3>4. CASE pending' = Append(pending, d)
      <4>1. /\ Len(pending') = Len(pending) + 1 /\ Len(pending) \in Nat /\ pending'[Len(pending) + 1] = d
            /\ \A k \in 1..Len(pending) : pending'[k] = pending[k]
        BY <1>0, <3>3, <3>4
      <4>2. \A k \in 1..Len(pending') : k \in 1..Len(pending) \/ k = Len(pending) + 1
        BY <4>1
      <4>3. c # d
        BY <2>3, <3>3 DEF Done, Unopened
      <4> QED
        BY <1>3, <2>1, <2>3, <3>1, <4>1, <4>2, <4>3 DEF Waiting
    <3> QED
      BY <2>4, <3>1, <3>2, <3>4
  <2>13. ASSUME NEW d, NEW luck, Observe(d, luck), UNCHANGED phase PROVE FALSE
    BY <1>0, <2>4, <2>5, <2>13, ObserveDoes DEF AsBefore
  <2>14. ASSUME NEW f \in DOMAIN script, NEW luck \in Lucks, CloseCall(f, luck) PROVE FALSE
    <3>1. UNCHANGED phase
      BY <2>14 DEF CloseCall
    <3> QED
      BY <1>0, <2>4, <2>5, <2>14, <3>1, CloseDoes DEF AsBefore
  <2>15. ASSUME NEW f \in DOMAIN script, NEW luck \in Lucks, Pair(f, luck) PROVE FALSE
    <3>1. Observe(One(f), luck) /\ UNCHANGED phase
      BY <2>15 DEF Pair
    <3> QED
      BY <2>13, <3>1
  <2>16. ASSUME NEW luck \in Lucks, DownObserve(luck) PROVE FALSE
    <3>1. Observe(down, luck) /\ UNCHANGED phase
      BY <2>16 DEF DownObserve
    <3> QED
      BY <2>13, <3>1
  <2>17. ~Rest
    BY <1>6, <2>2, <2>6, <2>10, <2>11, <2>12, <2>14, <2>15, <2>16 DEF Rest
  <2> QED
    BY <1>6, <2>6, <2>7, <2>8, <2>9, <2>17, NextIs DEF Sends
<1> QED
  BY <1>1, <1>2, <1>4, <1>5, <1>6

\* While a session's threads are there, or were waited for, each of its calls is to be
\* opened, waits, or has its row; after the flush none waits.
THEOREM SpecRowed == Spec => []Rowed
<1>1. Init => Rowed
  BY InitRowed
<1>2. Rowed /\ [Next]_vars => Rowed'
  BY Rows0Step, HeardStep, NoneWaitsStep DEF Rowed
<1> QED
  BY <1>1, <1>2, PTL DEF Spec

\* No call has two rows; and a session that waited for its threads leaves none without
\* one, forwarded, held back, unanswered or of an invalid id, but those it counted.
THEOREM EveryCallIsRowedHolds == Spec => []EveryCallIsRowed
<1>1. Rowed => EveryCallIsRowed
  <2> SUFFICES ASSUME Rowed, transport # "call" PROVE EveryCallIsRowed
    BY DEF EveryCallIsRowed
  <2>0. OnceIn(rows) /\ Listing(rows) /\ HeardAll /\ NoneWaits /\ DrainedDone /\ Current \subseteq Call
    BY DEF Rowed, Rows0, Agreed, LogTyped, Current
  <2>1. DOMAIN rows = 1..Len(rows)
    BY <2>0 DEF Listing
  <2>2. ASSUME NEW c PROVE Cardinality(RowsOf(c)) <= 1
    <3>1. \A i \in RowsOf(c) : RowOf(rows, i, c)
      BY <2>1 DEF RowsOf, RowOf
    <3>2. \A i, j \in RowsOf(c) : i = j
      BY <2>0, <3>1 DEF OnceIn
    <3>3. CASE RowsOf(c) = {}
      BY <3>3, FS_EmptySet
    <3>4. CASE RowsOf(c) # {}
      <4>1. PICK i : i \in RowsOf(c)
        BY <3>4
      <4>2. RowsOf(c) = {i}
        BY <3>2, <4>1
      <4>3. Cardinality({i}) = 1
        BY FS_Singleton
      <4> QED
        BY <4>2, <4>3
    <3> QED
      BY <3>3, <3>4
  <2>3. ASSUME phase = "ended", session.drained, unlogged = 0, NEW c \in Current PROVE RowsOf(c) # {}
    <3>1. Heard(c) /\ ~Waiting(c) /\ Done(c)
      BY <2>0, <2>3 DEF HeardAll, NoneWaits, DrainedDone, Heeded
    <3>2. ~Silent(c)
      BY <3>1 DEF Heard, Unopened, Done
    <3>3. PICK a : Said(c, a)
      BY <3>2 DEF Silent
    <3>4. PICK i : RowOf(rows, i, c)
      BY <3>3 DEF Said, SaidIn
    <3> QED
      BY <2>1, <3>4 DEF RowsOf, RowOf
  <2> QED
    BY <2>2, <2>3 DEF EveryCallIsRowed
<1> QED
  BY <1>1, SpecRowed, PTL

(***************************************************************************)
(* What an answer on its way says of its call.                             *)
(***************************************************************************)
Fits(c) ==
  /\ Due("pair", c) => calls[c].id # BadId
  /\ Due("relay", c) => reply[c] # "refused"
  /\ Due("close", c) => ~Due("answer", c)
  /\ transport # "pipe" => /\ Unopened(c) => reply[c] # "relayed"
                           /\ down = c => ~Due("close", c) /\ c > session.before /\ calls[c].id # BadId
Fitting == Owned /\ \A c \in Call : Fits(c)

LEMMA InitFitting == ASSUME Init PROVE Fitting
<1>1. Call = {}
  BY DEF Init, Call
<1> QED
  BY <1>1, InitOwned DEF Fitting

LEMMA FitsShrinks ==
  ASSUME NEW c \in Call, Fits(c), \A p : Due(p, c)' => Due(p, c), UNCHANGED <<transport, mode, calls>>,
         session'.before = session.before, down' = c => down = c, reply'[c] = reply[c]
  PROVE  Fits(c)'
BY DEF Fits, Unopened

LEMMA FittingStep ==
  ASSUME Fitting, [Next]_vars
  PROVE  \A c \in Call' : Fits(c)'
<1>0. /\ Owned /\ Recorded /\ Gated /\ Framed /\ Typed /\ SessionTyped /\ Framewise /\ RelayFrame /\ JudgedFirst
      /\ PendingTyped /\ DownTyped /\ UNCHANGED <<transport, mode>> /\ \A c \in Call : Fits(c)
  BY SetupStays DEF Fitting, Owned, Recorded, Gated, Begun, Typed, Framewise
<1>00. 0 \notin Call /\ \A c \in Call : CameOnce(c)
  BY <1>0, CallNumbers DEF Owned
<1>1. ASSUME NEW n \in Frames, NEW kinds \in [1..n -> Kinds], Send(kinds)
      PROVE  \A c \in Call' : Fits(c)'
  <2>1. /\ Call' = Call \cup New(kinds) /\ New(kinds) \cap Call = {}
        /\ \A c \in Call : calls'[c] = calls[c] /\ reply'[c] = reply[c] /\ \A p : Due(p, c)' <=> Due(p, c)
        /\ \A c \in New(kinds) : reply'[c] = "none" /\ c > session.before /\ \A p : Due(p, c)' <=> p \in ScriptOps
        /\ session'.before = session.before /\ down' = down
    BY <1>0, <1>1, SendMoves, SendSays
  <2>2. {"pair", "relay", "close"} \cap ScriptOps = {}
    BY DEF ScriptOps, WatchOps
  <2>3. ASSUME NEW c \in New(kinds) PROVE Fits(c)'
    <3>1. ~Due("pair", c)' /\ ~Due("relay", c)' /\ ~Due("close", c)'
      BY <2>1, <2>2
    <3>2. down' # c
      <4>1. c > session.before /\ session.before \in Nat
        BY <1>0, <2>1 DEF SessionTyped
      <4>2. c # 0
        BY <4>1
      <4> QED
        BY <1>0, <2>1, <4>2 DEF DownTyped
    <3> QED
      BY <2>1, <3>1, <3>2 DEF Fits
  <2>4. ASSUME NEW c \in Call PROVE Fits(c)'
    BY <1>0, <2>1 DEF Fits, Unopened
  <2> QED
    BY <2>1, <2>3, <2>4
<1>2. CASE UNCHANGED vars
  <2>1. UNCHANGED <<transport, mode, calls, script, session, down, reply>>
    BY <1>2 DEF vars
  <2>2. Call' = Call /\ \A c \in Call : \A p : Due(p, c)' <=> Due(p, c)
    BY <1>0, <2>1, NothingMoves
  <2> QED
    BY <1>0, <2>1, <2>2, FitsShrinks
<1> SUFFICES ASSUME Next, ~Sends PROVE \A c \in Call' : Fits(c)'
  BY <1>1, <1>2 DEF Sends
<1>3. Call' = Call /\ \A c \in Call : Unopened(c)' => Unopened(c)
  BY <1>0, OpenedLater DEF Sends
<1>4. ASSUME NEW f \in DOMAIN script, NEW luck \in Lucks, Judge(f, luck) PROVE \A c \in Call' : Fits(c)'
  <2>1. UNCHANGED <<transport, mode, calls, reply, session, down>>
    BY <1>0, <1>4, JudgeSays
  <2>2. ASSUME NEW c \in Call, calls[c].frame # f PROVE Fits(c)'
    <3>1. \A p : Due(p, c)' => Due(p, c)
      BY <1>0, <1>4, <2>2, JudgeMoves
    <3> QED
      BY <1>0, <2>1, <3>1, FitsShrinks
  <2>3. ASSUME NEW c \in Call, mode # "enforce" PROVE Fits(c)'
    <3>1. \A p : Due(p, c)' => Due(p, c)
      BY <1>0, <1>4, <2>3, JudgeMoves
    <3> QED
      BY <1>0, <2>1, <3>1, FitsShrinks
  <2>4. ASSUME NEW c \in Call, mode = "enforce", calls[c].frame = f PROVE Fits(c)'
    <3>1. ~Due("relay", c)' /\ ~Due("close", c)' /\ (Due("pair", c)' => calls[c].id # BadId)
      <4>1. CASE DeafGate
        <5>1. \A p : Due(p, c)' <=> p \in PassedOps \ {"record"} /\ c \in Of(f)
          BY <1>0, <1>4, <2>4, <4>1, JudgeMoves
        <5> QED
          BY <5>1 DEF PassedOps
      <4>2. CASE ~DeafGate /\ \A d \in Of(f) : Detail(d) = "inside"
        <5>1. \A p : Due(p, c)' <=> p \in PassedOps /\ c \in Of(f)
          BY <1>0, <1>4, <2>4, <4>2, JudgeMoves
        <5> QED
          BY <5>1 DEF PassedOps
      <4>3. CASE ~DeafGate /\ ~\A d \in Of(f) : Detail(d) = "inside"
        <5>1. \A p : Due(p, c)' <=> <<p, c>> \in HeldPlan(Of(f))
          BY <1>0, <1>4, <2>4, <4>3, JudgeMoves
        <5>2. /\ <<"relay", c>> \notin HeldPlan(Of(f)) /\ <<"close", c>> \notin HeldPlan(Of(f))
              /\ (<<"pair", c>> \in HeldPlan(Of(f)) => calls[c].id # BadId)
          BY DEF HeldPlan, Valid
        <5> QED
          BY <5>1, <5>2
      <4> QED
        BY <4>1, <4>2, <4>3
    <3> QED
      BY <1>0, <1>3, <2>1, <3>1 DEF Fits
  <2> QED
    BY <1>3, <2>2, <2>3, <2>4
<1>5. ASSUME NEW f \in DOMAIN script, Puts(f) PROVE \A c \in Call' : Fits(c)'
  <2>1. PICK o \in PutOps : Put(f, o)
    BY <1>5, PutsIs
  <2>2. /\ Shrinks /\ Exactly(o, Of(f)) /\ UNCHANGED <<session, down>>
        /\ \A c \in Of(f) : c \in Call /\ calls[c].frame = f /\ Due(o, c)
        /\ \A c \in Call : reply'[c] = IF c \in Of(f) THEN PutWord(o) ELSE reply[c]
    BY <1>0, <2>1, PutMoves, PutSays
  <2>3. ASSUME NEW c \in Call PROVE Fits(c)'
    <3>1. \A p : Due(p, c)' => Due(p, c)
      BY <2>2 DEF Shrinks
    <3>2. CASE c \notin Of(f)
      BY <1>0, <2>2, <2>3, <3>1, <3>2, FitsShrinks DEF Shrinks
    <3>3. CASE c \in Of(f)
      <4>1. Due(o, c) /\ reply'[c] = PutWord(o)
        BY <2>2, <3>3
      <4>2. o = "inject" => ~Due("relay", c)
        <5>1. "inject" \notin RelayOps
          BY DEF RelayOps, WatchOps
        <5> QED
          BY <1>0, <4>1, <5>1 DEF RelayFrame
      <4>3. o = "relay" => ~Unopened(c)
        <5>1. "open" \notin RelayOps /\ (mode = "enforce" => "judge" \notin RelayOps)
          BY DEF RelayOps, WatchOps
        <5> QED
          BY <1>0, <4>1, <5>1 DEF RelayFrame, Unopened
      <4>4. /\ PutWord("inject") = "refused" /\ PutWord("write") = "asked" /\ PutWord("relay") = "relayed"
            /\ PutWord("pass") = "unread" /\ o \in {"inject", "write", "relay", "pass"}
        BY DEF PutWord, PutOps
      <4>5. Due("relay", c)' => reply'[c] # "refused"
        BY <3>1, <4>1, <4>2, <4>4
      <4>6. Unopened(c)' => reply'[c] # "relayed"
        BY <1>3, <4>1, <4>3, <4>4
      <4> QED
        BY <1>0, <2>2, <3>1, <4>5, <4>6 DEF Fits, Shrinks
    <3> QED
      BY <3>2, <3>3
  <2> QED
    BY <1>3, <2>3
<1>6. ASSUME NEW f \in DOMAIN script, NEW a \in SUBSET CallsOf(f), NEW read \in SUBSET a,
             NEW left \in BOOLEAN, Respond(f, a, read, left)
      PROVE  \A c \in Call' : Fits(c)'
  <2>1. Responded(f, a, read, left) /\ a \subseteq Of(f) /\ UNCHANGED <<reply, session, down>>
        /\ \A c \in a : reply[c] = "asked" /\ calls[c].id # BadId
    BY <1>0, <1>6, RespondMoves DEF Respond
  <2>2. UNCHANGED calls
    BY <2>1 DEF Responded
  <2>3. ASSUME NEW c \in Call, calls[c].frame # f PROVE Fits(c)'
    <3>1. \A p : Due(p, c)' => Due(p, c)
      BY <2>1, <2>3 DEF Responded
    <3> QED
      BY <1>0, <2>1, <2>2, <3>1, FitsShrinks
  <2>4. ASSUME NEW c \in Call, calls[c].frame = f PROVE Fits(c)'
    <3>1. /\ \A p : Due(p, c)' <=> <<p, c>> \in AnsweredPlan(Of(f), a, read, left)
          /\ c \in Of(f) => Due("answer", c)
      BY <2>1, <2>4 DEF Responded
    <3>2. /\ <<"pair", c>> \in AnsweredPlan(Of(f), a, read, left) => c \in a
          /\ <<"relay", c>> \in AnsweredPlan(Of(f), a, read, left) => c \in a
          /\ <<"close", c>> \in AnsweredPlan(Of(f), a, read, left) => c \in Of(f)
          /\ <<"answer", c>> \notin AnsweredPlan(Of(f), a, read, left)
      BY DEF AnsweredPlan, WatchOps
    <3>3. (Due("pair", c)' => c \in a) /\ (Due("relay", c)' => c \in a) /\ ~Due("answer", c)'
      BY <3>1, <3>2
    <3>4. down = c => ~Due("answer", c)
      BY <1>00 DEF CameOnce, Coming
    <3>5. down = c => ~Due("close", c)'
      BY <3>1, <3>2, <3>4
    <3> QED
      BY <1>0, <1>3, <2>1, <2>2, <3>3, <3>5 DEF Fits
  <2> QED
    BY <1>3, <2>3, <2>4
<1>7. ASSUME NEW d \in Call, NEW read \in BOOLEAN, DownRelay(d, read) PROVE \A c \in Call' : Fits(c)'
  <2>1. /\ UNCHANGED <<transport, mode, calls, script, session>> /\ down' \in {0, d}
        /\ reply' = [reply EXCEPT ![d] = IF read THEN "relayed" ELSE "unread"]
        /\ calls[d].id # BadId
        /\ transport # "pipe" => script[calls[d].frame] = <<>> /\ \E i \in DOMAIN pending : pending[i] = d
    BY <1>7 DEF DownRelay, setup
  <2>2. /\ \A c \in Call : c # d => reply'[c] = reply[c]
        /\ reply'[d] \in {"relayed", "unread"}
    BY <1>0, <2>1, CallNumbers DEF Typed, SaidTyped
  <2>3. \A c \in Call : \A p : Due(p, c)' <=> Due(p, c)
    BY <1>0, <2>1, NothingMoves
  <2>4. ASSUME NEW c \in Call, c # d PROVE Fits(c)'
    <3>1. down' # c
      BY <1>00, <2>1, <2>4
    <3> QED
      BY <1>0, <2>1, <2>2, <2>3, <2>4, <3>1, FitsShrinks
  <2>5. transport # "pipe" => Done(d) /\ d > session.before
    <3>1. DOMAIN pending = 1..Len(pending)
      BY <1>0 DEF PendingTyped
    <3>2. Len(<<>>) = 0
      OBVIOUS
    <3>3. script[calls[d].frame] = <<>> => Done(d)
      BY <3>2 DEF Done, Due, Has
    <3> QED
      BY <1>0, <2>1, <3>1, <3>3 DEF PendingTyped
  <2>6. Fits(d)'
    BY <1>0, <2>1, <2>2, <2>3, <2>5 DEF Fits, Done, Unopened
  <2> QED
    BY <1>3, <2>4, <2>6
<1>8. CASE Restart
  <2>1. \A p : \A c \in Call : ~Due(p, c)'
    BY <1>0, <1>8, RestartMoves
  <2>2. down' = 0
    BY <1>8 DEF Restart
  <2> QED
    BY <1>00, <1>3, <2>1, <2>2 DEF Fits, Unopened
<1>9. CASE Rest
  <2>1. Elsewhere
    BY <1>0, <1>9, ElsewhereMoves
  <2>2. down' \in {down, 0}
    <3>1. ASSUME NEW f, NEW luck, Records(f, luck) \/ OpenCall(f, luck) \/ Pair(f, luck) \/ CloseCall(f, luck)
          PROVE  down' = down
      BY <3>1 DEF Records, Record, OpenCall, Pair, CloseCall
    <3>2. ASSUME NEW luck, DownObserve(luck) \/ FlushPending(luck) \/ FlushTape(luck) PROVE down' \in {down, 0}
      BY <3>2 DEF DownObserve, FlushPending, FlushTape
    <3>3. CASE EditMandate \/ Stop \/ Waited \/ \E f \in DOMAIN script : BreakPipe(f)
      BY <3>3 DEF EditMandate, Stop, Waited, BreakPipe
    <3> QED
      BY <1>9, <3>1, <3>2, <3>3 DEF Rest
  <2>3. session'.before = session.before /\ UNCHANGED <<transport, mode, calls, reply>>
        /\ \A c \in Call : \A p : Due(p, c)' => Due(p, c)
    BY <2>1 DEF Elsewhere, Shrinks
  <2> QED
    BY <1>0, <1>00, <1>3, <2>2, <2>3, FitsShrinks
<1> QED
  BY <1>4, <1>5, <1>6, <1>7, <1>8, <1>9, NextIs DEF Sends

(***************************************************************************)
(* The call an answer is coming for is open, or is to be opened first.     *)
(***************************************************************************)
Attended(c) == /\ Due("answer", c) \/ Due("pair", c) => Due("open", c) \/ Waiting(c)
               /\ down = c => Waiting(c)
Own(c) == OwnId(c) /\ calls[c].id # BadId
Known == Rows0 /\ Fitting

LEMMA NoPairBehindClose ==
  ASSUME Framed, NEW f \in DOMAIN script, AtHead(f, "close"), NEW c \in Call, calls[c].frame = f
  PROVE  ~Due("pair", c)
<1>1. script[f] \in Seq(Steps) /\ Well(script[f], CallsOf(f)) /\ script[f] # <<>> /\ Op(f) = "close"
  BY HeadOf
<1> PICK s : s = script[f]
  OBVIOUS
<1>2. Head(s) = s[1] /\ 1 \in 1..Len(s) /\ s[1].op = "close" /\ Well(s, CallsOf(f)) /\ Len(s) \in Nat
  BY <1>1 DEF Op
<1>3. \A j \in 1..Len(s) : s[j].op = "pair" => j < 1
  BY <1>2 DEF Well
<1>4. \A j \in 1..Len(s) : ~(j < 1)
  BY <1>2
<1> QED
  BY <1>3, <1>4 DEF Due, Has

\* Another's answer closes no call whose id is its own.
LEMMA ShutsOther ==
  ASSUME Known, NEW d \in Call, d > session.before, NEW c \in Call, OwnId(c), c # d,
         NEW i, NEW luck, Shut(i, By(d), luck), calls[pending[i]].id = calls[d].id
  PROVE  pending[i] # c
BY DEF OwnId

LEMMA ShutLeavesOthers ==
  ASSUME pending \in Seq(Nat), NEW i, NEW e, NEW luck, Shut(i, e, luck), NEW c, Waiting(c), pending[i] # c
  PROVE  Waiting(c)'
<1>1. i \in 1..Len(pending) /\ pending' = RemoveAt(pending, i)
  BY DEF Shut
<1>2. OneOut(Nat, pending', pending, i)
  BY <1>1, Removed
<1>3. Len(pending') = Len(pending) - 1
      /\ \A k \in 1..Len(pending') : pending'[k] = IF k < i THEN pending[k] ELSE pending[k + 1]
  BY <1>2 DEF OneOut
<1>4. PICK j \in 1..Len(pending) : pending[j] = c /\ j # i
  BY DEF Waiting
<1>5. \E k \in 1..Len(pending') : pending'[k] = pending[j]
  BY <1>1, <1>3, <1>4, ShutLeaves, ZenonT(40)
<1> QED
  BY <1>4, <1>5 DEF Waiting

LEMMA AttendedKept ==
  ASSUME Known, Next, ~Sends, ~Restart, transport # "pipe", unlogged' = 0, Awake,
         NEW c \in Current, Own(c), Attended(c)
  PROVE  Attended(c)'
<1>0. /\ Recorded /\ Gated /\ Framed /\ Past /\ JudgedFirst /\ Typed /\ SessionTyped /\ Listing(rows) /\ pending \in Seq(Nat)
      /\ unlogged \in Nat /\ mode' = mode /\ ~Deaf /\ ~DeafGate /\ transport' = transport
      /\ c \in Call /\ Fits(c) /\ CameOnce(c) /\ c # 0 /\ DownTyped /\ session.before \in Nat /\ Call \subseteq Nat
  <2>1. Recorded /\ Gated /\ Framed /\ Past /\ JudgedFirst /\ Typed /\ SessionTyped /\ Listing(rows) /\ pending \in Seq(Nat)
    BY DEF Known, Rows0, Agreed, LogTyped, Recorded, Gated, Begun, Typed, PendingTyped, Framewise
  <2>2. unlogged \in Nat /\ ~Deaf /\ ~DeafGate /\ c \in Call
    BY DEF Known, Rows0, Deaf, DeafGate, Awake, Current
  <2>3. Fits(c) /\ CameOnce(c) /\ DownTyped
    BY <2>2 DEF Known, Fitting, Owned, Recorded
  <2>4. c # 0 /\ session.before \in Nat /\ Call \subseteq Nat
    BY <2>1, <2>2, CallNumbers
  <2> QED
    BY <2>1, <2>2, <2>3, <2>4, SetupStays
<1>k. ASSUME Waiting(c) => Waiting(c)', Due("open", c) => Due("open", c)' \/ Waiting(c)',
             \A p \in {"answer", "pair"} : Due(p, c)' => Due(p, c), down' = c => down = c
      PROVE  Attended(c)'
  BY <1>k DEF Attended
<1>1. ASSUME UNCHANGED pending, down' = c => down = c, NEW o, o # "open", NEW S, Exactly(o, S)
      PROVE  Attended(c)'
  <2>1. Due("open", c)' <=> Due("open", c)
    BY <1>0, <1>1 DEF Exactly
  <2>2. \A p \in {"answer", "pair"} : Due(p, c)' => Due(p, c)
    BY <1>0, <1>1 DEF Exactly
  <2> QED
    BY <1>1, <1>k, <2>1, <2>2 DEF Waiting
<1>2. ASSUME UNCHANGED <<transport, mode, calls, script, pending>>, down' = c => down = c
      PROVE  Attended(c)'
  <2>1. \A p : Due(p, c)' <=> Due(p, c)
    BY <1>0, <1>2, NothingMoves
  <2> QED
    BY <1>2, <1>k, <2>1 DEF Waiting
<1>3. ASSUME NEW f \in DOMAIN script, NEW luck \in Lucks, Judge(f, luck) PROVE Attended(c)'
  <2>1. UNCHANGED <<pending, down>>
    BY <1>3 DEF Judge
  <2>2. CASE calls[c].frame # f
    <3>1. \A p : Due(p, c)' <=> Due(p, c)
      BY <1>0, <1>3, <2>2, JudgeMoves
    <3> QED
      BY <1>k, <2>1, <3>1 DEF Waiting
  <2>3. CASE mode # "enforce"
    <3>1. \A p : Due(p, c)' <=> Due(p, c) /\ ~(p = "judge" /\ c \in Of(f))
      BY <1>0, <1>3, <2>3, JudgeMoves
    <3> QED
      BY <1>k, <2>1, <3>1 DEF Waiting
  <2>4. CASE calls[c].frame = f /\ mode = "enforce"
    <3>1. AtHead(f, "judge")
      BY <1>3 DEF Judge
    <3>2. c \in Of(f)
      BY <1>0, <2>4, <3>1, JudgedWhole, CallsOfFrame DEF Framed
    <3>3. CASE \A d \in Of(f) : Detail(d) = "inside"
      <4>1. "open" \in PassedOps
        BY DEF PassedOps
      <4>2. Due("open", c)'
        BY <1>0, <1>3, <2>4, <3>2, <3>3, <4>1, JudgeMoves
      <4> QED
        BY <2>1, <4>2 DEF Attended, Waiting
    <3>4. CASE ~\A d \in Of(f) : Detail(d) = "inside"
      <4>1. \A p : Due(p, c)' <=> <<p, c>> \in HeldPlan(Of(f))
        BY <1>0, <1>3, <2>4, <3>4, JudgeMoves
      <4>2. /\ <<"answer", c>> \notin HeldPlan(Of(f))
            /\ <<"pair", c>> \in HeldPlan(Of(f)) => <<"open", c>> \in HeldPlan(Of(f))
        BY <3>2 DEF HeldPlan
      <4> QED
        BY <2>1, <4>1, <4>2 DEF Attended, Waiting
    <3> QED
      BY <3>3, <3>4
  <2> QED
    BY <2>2, <2>3, <2>4
<1>4. ASSUME NEW f \in DOMAIN script, NEW o \in {"record", "refuse"}, NEW luck \in Lucks, Record(f, o, luck)
      PROVE  Attended(c)'
  <2>1. Met(luck) /\ UNCHANGED <<pending, down>>
    BY <1>4 DEF Record
  <2>2. luck # "no log"
    BY <1>0, <2>1, LogTaken
  <2>3. Exactly(o, {One(f)})
    BY <1>0, <1>4, <2>2, RecordMoves
  <2> QED
    BY <1>1, <2>1, <2>3
<1>5. ASSUME NEW f \in DOMAIN script, Puts(f) PROVE Attended(c)'
  <2>1. PICK o \in PutOps : Put(f, o)
    BY <1>5, PutsIs
  <2>2. Exactly(o, Of(f)) /\ o # "open" /\ UNCHANGED <<pending, down>>
    BY <1>0, <2>1, PutMoves DEF PutOps
  <2> QED
    BY <1>1, <2>2
<1>6. ASSUME NEW f \in DOMAIN script, NEW a \in SUBSET CallsOf(f), NEW read \in SUBSET a,
             NEW left \in BOOLEAN, Respond(f, a, read, left)
      PROVE  Attended(c)'
  <2>1. Responded(f, a, read, left) /\ UNCHANGED <<pending, down>> /\ a \subseteq Of(f)
    BY <1>0, <1>6, RespondMoves DEF Respond
  <2>2. CASE calls[c].frame # f
    <3>1. \A p : Due(p, c)' <=> Due(p, c)
      BY <1>0, <2>1, <2>2 DEF Responded
    <3> QED
      BY <1>k, <2>1, <3>1 DEF Waiting
  <2>3. CASE calls[c].frame = f
    <3>1. \A p : /\ Due(p, c)' <=> <<p, c>> \in AnsweredPlan(Of(f), a, read, left)
                 /\ Due(p, c) => p = "answer"
                 /\ c \in Of(f) => Due("answer", c)
      BY <1>0, <2>1, <2>3 DEF Responded
    <3>2. /\ <<"answer", c>> \notin AnsweredPlan(Of(f), a, read, left)
          /\ <<"pair", c>> \in AnsweredPlan(Of(f), a, read, left) => c \in read
      BY DEF AnsweredPlan, WatchOps
    <3>3. ~Due("open", c)
      <4>1. "open" # "answer"
        OBVIOUS
      <4> QED
        BY <3>1, <4>1
    <3>4. Due("pair", c)' => Waiting(c)
      BY <2>1, <3>1, <3>2, <3>3 DEF Attended
    <3> QED
      BY <2>1, <3>1, <3>2, <3>4 DEF Attended, Waiting
  <2> QED
    BY <2>2, <2>3
<1>7. ASSUME NEW d \in Call, NEW read \in BOOLEAN, DownRelay(d, read) PROVE Attended(c)'
  <2>1. /\ UNCHANGED <<transport, mode, calls, script, pending>> /\ down' \in {0, d}
        /\ \E i \in DOMAIN pending : pending[i] = d
    BY <1>0, <1>7 DEF DownRelay, setup
  <2>2. Waiting(d)
    BY <1>0, <2>1 DEF Waiting
  <2>3. CASE c # d
    BY <1>0, <1>2, <2>1, <2>3
  <2>4. CASE c = d
    <3>1. \A p : Due(p, c)' <=> Due(p, c)
      BY <1>0, <2>1, NothingMoves
    <3> QED
      BY <2>1, <2>2, <2>4, <3>1 DEF Attended, Waiting
  <2> QED
    BY <2>3, <2>4
<1>8. CASE EditMandate \/ Stop \/ Waited
  BY <1>2, <1>8 DEF EditMandate, Stop, Waited, setup
<1>9. ~\E luck \in Lucks : FlushPending(luck) \/ FlushTape(luck)
  BY DEF FlushPending, FlushTape, Awake
<1>10. ASSUME NEW f \in DOMAIN script, NEW luck \in Lucks, OpenCall(f, luck) PROVE Attended(c)'
  <2>1. Met(luck) /\ down' = down
    BY <1>10 DEF OpenCall
  <2>2. luck # "no log"
    BY <1>0, <2>1, LogTaken
  <2>3. Exactly("open", {One(f)})
    BY <1>0, <1>10, <2>2, OpenMoves
  <2> PICK d : d = One(f)
    OBVIOUS
  <2>4. d \in Nat
    BY <1>0, <1>10, OpenedIsDone
  <2>5. pending' = Append(pending, d) \/ (pending' = pending /\ calls[d].id = BadId)
    BY <1>0, <1>10, OpenDoes
  <2>6. Waiting(c) \/ (c = d) => Waiting(c)'
    <3>1. CASE pending' = Append(pending, d)
      <4>1. /\ Len(pending') = Len(pending) + 1 /\ Len(pending) \in Nat /\ pending'[Len(pending) + 1] = d
            /\ \A k \in 1..Len(pending) : pending'[k] = pending[k]
        BY <1>0, <2>4, <3>1
      <4>2. Len(pending) + 1 \in 1..Len(pending') /\ \A k \in 1..Len(pending) : k \in 1..Len(pending')
        BY <4>1
      <4> QED
        BY <4>1, <4>2 DEF Waiting
    <3>2. CASE pending' = pending /\ calls[d].id = BadId
      BY <3>2 DEF Waiting, Own
    <3> QED
      BY <2>5, <3>1, <3>2
  <2>7. c # d => (Due("open", c)' <=> Due("open", c))
    BY <1>0, <2>3 DEF Exactly
  <2>8. \A p \in {"answer", "pair"} : Due(p, c)' => Due(p, c)
    BY <1>0, <2>3 DEF Exactly
  <2> QED
    BY <1>k, <2>1, <2>6, <2>7, <2>8
<1>11. ASSUME NEW f \in DOMAIN script, NEW luck \in Lucks, Pair(f, luck) PROVE Attended(c)'
  <2>1. /\ AtHead(f, "pair") /\ Next1(f) /\ UNCHANGED <<transport, mode, calls, down>> /\ Observe(One(f), luck)
    BY <1>11 DEF Pair, setup
  <2> PICK d : d = One(f)
    OBVIOUS
  <2>2. Exactly("pair", {d}) /\ d \in Call /\ Due("pair", d) /\ Observe(d, luck)
    BY <1>0, <2>1, PlainMoves, OneOf DEF OneCall
  <2>3. d > session.before
    BY <1>0, <2>2 DEF Past
  <2>4. CASE AsBefore
    BY <1>1, <2>1, <2>2, <2>4 DEF AsBefore
  <2>5. ASSUME NEW i \in 1..Len(pending), calls[pending[i]].id = calls[d].id, Shut(i, By(d), luck) PROVE Attended(c)'
    <3>1. CASE c # d
      <4>1. Waiting(c) => Waiting(c)'
        BY <1>0, <2>2, <2>3, <2>5, <3>1, ShutsOther, ShutLeavesOthers DEF Own
      <4>2. \A p : Due(p, c)' <=> Due(p, c)
        BY <1>0, <2>2, <3>1 DEF Exactly
      <4> QED
        BY <1>k, <2>1, <4>1, <4>2
    <3>2. CASE c = d
      <4>1. ~Due("pair", c)' /\ (Due("answer", c)' => Due("answer", c))
        BY <1>0, <2>2, <3>2 DEF Exactly
      <4>2. ~Due("answer", c) /\ down # c
        BY <1>0, <2>2, <3>2 DEF CameOnce, Coming
      <4> QED
        BY <2>1, <4>1, <4>2 DEF Attended
    <3> QED
      BY <3>1, <3>2
  <2> QED
    BY <1>0, <2>2, <2>4, <2>5, ObserveDoes
<1>12. ASSUME NEW luck \in Lucks, DownObserve(luck) PROVE Attended(c)'
  <2>1. down # 0 /\ Observe(down, luck) /\ down' = 0 /\ UNCHANGED <<transport, mode, calls, script>>
    BY <1>12 DEF DownObserve, setup
  <2> PICK d : d = down
    OBVIOUS
  <2>2. d \in Call /\ Observe(d, luck)
    BY <1>0, <2>1 DEF DownTyped
  <2>3. d > session.before
    BY <1>0, <2>2 DEF Known, Fitting, Fits
  <2>4. \A p : Due(p, c)' <=> Due(p, c)
    BY <1>0, <2>1, NothingMoves
  <2>5. CASE AsBefore
    BY <1>0, <1>2, <2>1, <2>5 DEF AsBefore
  <2>6. ASSUME NEW i \in 1..Len(pending), calls[pending[i]].id = calls[d].id, Shut(i, By(d), luck) PROVE Attended(c)'
    <3>1. CASE c # d
      <4>1. Waiting(c) => Waiting(c)'
        BY <1>0, <2>2, <2>3, <2>6, <3>1, ShutsOther, ShutLeavesOthers DEF Own
      <4> QED
        BY <1>0, <1>k, <2>1, <2>4, <4>1
    <3>2. CASE c = d
      <4>1. ~Due("answer", c) /\ ~Due("pair", c) /\ down' # c
        BY <1>0, <2>1, <3>2 DEF CameOnce, Coming
      <4> QED
        BY <2>4, <4>1 DEF Attended
    <3> QED
      BY <3>1, <3>2
  <2> QED
    BY <1>0, <2>2, <2>5, <2>6, ObserveDoes
<1>13. ASSUME NEW f \in DOMAIN script, NEW luck \in Lucks, CloseCall(f, luck) PROVE Attended(c)'
  <2>1. Met(luck) /\ down' = down /\ AtHead(f, "close")
    BY <1>13 DEF CloseCall
  <2>2. luck # "no log"
    BY <1>0, <2>1, LogTaken
  <2> PICK d : d = One(f)
    OBVIOUS
  <2>3. Exactly("close", {d}) /\ d \in Call /\ Due("close", d) /\ calls[d].frame = f
    BY <1>0, <1>13, <2>1, <2>2, CloseMoves, OneOf DEF OneCall
  <2>4. CASE AsBefore
    BY <1>1, <2>1, <2>3, <2>4 DEF AsBefore
  <2>5. ASSUME NEW i \in 1..Len(pending), pending[i] = d, Shut(i, None("unanswered"), luck) PROVE Attended(c)'
    <3>1. CASE c # d
      <4>1. Waiting(c) => Waiting(c)'
        BY <1>0, <2>5, <3>1, ShutLeavesOthers
      <4>2. \A p : Due(p, c)' <=> Due(p, c)
        BY <1>0, <2>3, <3>1 DEF Exactly
      <4> QED
        BY <1>k, <2>1, <4>1, <4>2
    <3>2. CASE c = d
      <4>1. ~Due("pair", c) /\ ~Due("answer", c) /\ down # c
        BY <1>0, <2>1, <2>3, <3>2, NoPairBehindClose DEF Fits
      <4>2. ~Due("pair", c)' /\ ~Due("answer", c)'
        BY <1>0, <2>3, <4>1 DEF Exactly
      <4> QED
        BY <2>1, <4>1, <4>2 DEF Attended
    <3> QED
      BY <3>1, <3>2
  <2> QED
    BY <1>0, <1>13, <2>4, <2>5, CloseDoes
<1>14. \A f : ~BreakPipe(f)
  BY DEF BreakPipe
<1>15. CASE Rest
  BY <1>4, <1>8, <1>9, <1>10, <1>11, <1>12, <1>13, <1>14, <1>15 DEF Rest, Records
<1> QED
  BY <1>3, <1>5, <1>6, <1>7, <1>15, NextIs DEF Sends

(***************************************************************************)
(* An answer the agent has is to be paired, held by the downstream thread, *)
(* or the end of its call on the tape.                                     *)
(***************************************************************************)
EndedAs(c, e) == \E k \in 1..Len(tape.end) : tape.call[k] = c /\ tape.end[k] = e
Its(c) == [by |-> c, word |-> "answered"]
Settled(c) == Due("pair", c) \/ down = c \/ EndedAs(c, Its(c))
Given(c) == reply[c] = "relayed" \/ Due("relay", c)

\* What is on the tape stays as it ended, until the next session.
TapeGrows == \A k \in 1..Len(tape.end) :
               k \in 1..Len(tape'.end) /\ tape'.call[k] = tape.call[k] /\ (tape.end[k] # Open => tape'.end[k] = tape.end[k])

LEMMA ShutGrows ==
  ASSUME Recorded, NEW i, NEW e \in Ends, e # Open, NEW luck, Shut(i, e, luck)
  PROVE  TapeGrows
<1>1. Whole(tape) /\ pending \in Seq(Nat)
  BY DEF Recorded, TapeTyped, PendingTyped
<1>2. /\ tape'.call = tape.call /\ Len(tape'.end) = Len(tape.end)
      /\ \A k \in 1..Len(tape.end) :
           tape'.end[k] = IF tape.call[k] = pending[i] /\ tape.end[k] = Open THEN e ELSE tape.end[k]
  BY <1>1, ShutDoes
<1> QED
  BY <1>2 DEF TapeGrows

LEMMA TapeGrowsStep ==
  ASSUME Recorded, Next, ~Restart
  PROVE  TapeGrows
<1>0. Whole(tape) /\ pending \in Seq(Nat) /\ Framed /\ Typed /\ DownTyped
  BY DEF Recorded, TapeTyped, PendingTyped, Gated, Begun, Typed
<1>1. ASSUME UNCHANGED tape PROVE TapeGrows
  BY <1>1 DEF TapeGrows
<1>2. CASE Sends \/ \E f \in DOMAIN script : Puts(f)
  BY <1>1, <1>2 DEF Sends, Send, Puts, Inject, Write, Relay, Pass
<1>3. ASSUME NEW f \in DOMAIN script, NEW luck \in Lucks, Judge(f, luck) \/ Records(f, luck) PROVE TapeGrows
  BY <1>1, <1>3 DEF Judge, Records, Record
<1>4. ASSUME NEW f, NEW a, NEW read, NEW left, Respond(f, a, read, left) PROVE TapeGrows
  BY <1>1, <1>4 DEF Respond
<1>5. ASSUME NEW d \in Call, NEW read \in BOOLEAN, DownRelay(d, read) PROVE TapeGrows
  BY <1>1, <1>5 DEF DownRelay
<1>6. CASE EditMandate \/ Stop \/ Waited \/ \E f \in DOMAIN script : BreakPipe(f)
  BY <1>1, <1>6 DEF EditMandate, Stop, Waited, BreakPipe
<1>7. ASSUME NEW luck \in Lucks, FlushPending(luck) PROVE TapeGrows
  BY <1>1, <1>7 DEF FlushPending
<1>8. ASSUME NEW luck \in Lucks, FlushTape(luck) PROVE TapeGrows
  <2>1. tape' = TapeFlush(tape, luck)
    BY <1>8 DEF FlushTape
  <2>2. /\ tape'.call = tape.call /\ Len(tape'.end) = Len(tape.end)
        /\ \A k \in 1..Len(tape.end) : tape'.end[k] = IF tape.end[k] = Open THEN None("unanswered") ELSE tape.end[k]
    BY <1>0, <2>1, WholeFlushed
  <2> QED
    BY <2>2 DEF TapeGrows
<1>9. ASSUME NEW f \in DOMAIN script, NEW luck \in Lucks, OpenCall(f, luck) PROVE TapeGrows
  <2>1. CASE AsBefore
    BY <1>1, <2>1 DEF AsBefore
  <2>2. CASE ~AsBefore
    <3> PICK c : c = One(f)
      OBVIOUS
    <3>1. PICK e \in {Open, None("invalid_id")} : tape' = TapeOpen(tape, c, e, luck)
      BY <1>9, <2>2, OpenDoes
    <3>2. e \in Ends
      BY EndsAre DEF Words
    <3>3. c \in Nat
      BY <1>9, OpenedIsDone
    <3>4. tape'.call = Append(tape.call, c) /\ tape'.end = Append(tape.end, e)
      BY <1>0, <3>1, <3>2, <3>3, WholeOpened
    <3> PICK q, x : q = tape.call /\ x = tape.end
      OBVIOUS
    <3>5. q \in Seq(Nat) /\ x \in Seq(Ends) /\ Len(x) = Len(q) /\ Len(x) \in Nat
      BY <1>0 DEF Whole, Tapes
    <3>6. tape'.call = Append(q, c) /\ tape'.end = Append(x, e)
      BY <3>4
    <3>7. Len(tape'.end) = Len(x) + 1 /\ \A k \in 1..Len(x) : tape'.call[k] = q[k] /\ tape'.end[k] = x[k]
      BY <3>2, <3>3, <3>5, <3>6
    <3>8. \A k \in 1..Len(x) : k \in 1..Len(tape'.end)
      BY <3>5, <3>7
    <3> QED
      BY <3>7, <3>8 DEF TapeGrows
  <2> QED
    BY <2>1, <2>2
<1>10. ASSUME NEW c \in Call, NEW luck, Observe(c, luck) PROVE TapeGrows
  <2>1. By(c) \in Ends /\ By(c) # Open
    BY <1>0, ByIs
  <2> QED
    BY <1>0, <1>1, <1>10, <2>1, ObserveDoes, ShutGrows DEF AsBefore
<1>11. ASSUME NEW f \in DOMAIN script, NEW luck \in Lucks, CloseCall(f, luck) PROVE TapeGrows
  <2>1. None("unanswered") \in Ends /\ None("unanswered") # Open
    BY EndsAre DEF Words
  <2> QED
    BY <1>0, <1>1, <1>11, <2>1, CloseDoes, ShutGrows DEF AsBefore
<1>12. ASSUME NEW f \in DOMAIN script, NEW luck \in Lucks, Pair(f, luck) PROVE TapeGrows
  <2>1. AtHead(f, "pair") /\ Observe(One(f), luck)
    BY <1>12 DEF Pair
  <2>2. One(f) \in Call
    BY <1>0, <2>1, OneOf DEF OneCall
  <2> QED
    BY <1>10, <2>1, <2>2
<1>13. ASSUME NEW luck \in Lucks, DownObserve(luck) PROVE TapeGrows
  <2>1. down # 0 /\ Observe(down, luck)
    BY <1>13 DEF DownObserve
  <2>2. down \in Call
    BY <1>0, <2>1 DEF DownTyped
  <2> QED
    BY <1>10, <2>1, <2>2
<1>14. CASE Rest
  BY <1>3, <1>6, <1>7, <1>8, <1>9, <1>11, <1>12, <1>13, <1>14 DEF Rest
<1> QED
  BY <1>2, <1>3, <1>4, <1>5, <1>14, NextIs DEF Sends

LEMMA EndedKept ==
  ASSUME TapeGrows, NEW c, NEW e, e # Open, EndedAs(c, e)
  PROVE  EndedAs(c, e)'
<1>1. PICK k \in 1..Len(tape.end) : tape.call[k] = c /\ tape.end[k] = e
  BY DEF EndedAs
<1>2. k \in 1..Len(tape'.end) /\ tape'.call[k] = c /\ tape'.end[k] = e
  BY <1>1 DEF TapeGrows
<1> QED
  BY <1>2 DEF EndedAs

\* The answer closes its own call, which is open and the only one of its id.
LEMMA ClosesItsOwn ==
  ASSUME Known, Awake, NEW c \in Call, OwnId(c), Waiting(c), reply[c] # "refused",
         NEW luck, Observe(c, luck)
  PROVE  EndedAs(c, Its(c))'
<1>0. /\ Recorded /\ Typed /\ WaitingOpen /\ pending \in Seq(Nat) /\ PendingTyped /\ Whole(tape) /\ ~Deaf /\ phase # "ended"
  BY DEF Known, Rows0, Agreed, Recorded, Gated, Begun, PendingTyped, TapeTyped, Deaf, Awake
<1>1. By(c) = Its(c)
  BY DEF By, Its
<1>2. By(c) \in Ends /\ By(c) # Open
  BY <1>0, ByIs
<1>3. \E i \in 1..Len(pending) : calls[pending[i]].id = calls[c].id
  BY DEF Waiting
<1>4. PICK i \in 1..Len(pending) : calls[pending[i]].id = calls[c].id /\ Shut(i, By(c), luck)
  BY <1>0, <1>3, ObserveDoes
<1>5. pending[i] = c
  BY <1>0, <1>4 DEF OwnId, PendingTyped
<1>6. PICK k \in 1..Len(tape.end) : tape.call[k] = c /\ tape.end[k] = Open
  BY <1>0 DEF WaitingOpen, OnTape
<1>7. /\ tape'.call = tape.call /\ Len(tape'.end) = Len(tape.end)
      /\ \A j \in 1..Len(tape.end) :
           tape'.end[j] = IF tape.call[j] = pending[i] /\ tape.end[j] = Open THEN By(c) ELSE tape.end[j]
  BY <1>0, <1>2, <1>4, ShutDoes
<1>8. k \in 1..Len(tape'.end) /\ tape'.call[k] = c /\ tape'.end[k] = Its(c)
  BY <1>1, <1>5, <1>6, <1>7
<1>9. Its(c)' = Its(c)
  BY DEF Its
<1> QED
  BY <1>8, <1>9 DEF EndedAs

Reach == transport # "pipe" /\ unlogged = 0 /\ Awake => \A c \in Current : Own(c) => Attended(c)
Told == transport # "pipe" /\ unlogged = 0 /\ Live => \A c \in Current : OwnId(c) /\ Given(c) => Settled(c)

\* The downstream thread holds one answer until it has observed it.
LEMMA DownHeld ==
  ASSUME Recorded, Next, ~Sends, ~Restart, down # 0, ~\E luck \in Lucks : DownObserve(luck)
  PROVE  down' = down
<1>1. ASSUME NEW f \in DOMAIN script, NEW luck \in Lucks, Judge(f, luck) \/ Records(f, luck) PROVE down' = down
  BY <1>1 DEF Judge, Records, Record
<1>2. ASSUME NEW f \in DOMAIN script, Puts(f) PROVE down' = down
  BY <1>2 DEF Puts, Inject, Write, Relay, Pass
<1>3. ASSUME NEW f, NEW a, NEW read, NEW left, Respond(f, a, read, left) PROVE down' = down
  BY <1>3 DEF Respond
<1>4. ASSUME NEW d \in Call, NEW read \in BOOLEAN, DownRelay(d, read) PROVE down' = down
  BY <1>4 DEF DownRelay
<1>5. CASE EditMandate \/ Stop \/ Waited \/ \E f \in DOMAIN script : BreakPipe(f)
  BY <1>5 DEF EditMandate, Stop, Waited, BreakPipe
<1>6. ASSUME NEW f \in DOMAIN script, NEW luck \in Lucks, OpenCall(f, luck) \/ Pair(f, luck) \/ CloseCall(f, luck)
      PROVE  down' = down
  BY <1>6 DEF OpenCall, Pair, CloseCall
<1>7. ASSUME NEW luck \in Lucks, FlushPending(luck) \/ FlushTape(luck) PROVE down' = down
  BY <1>7 DEF FlushPending, FlushTape
<1>8. CASE Rest
  BY <1>1, <1>5, <1>6, <1>7, <1>8 DEF Rest
<1> QED
  BY <1>1, <1>2, <1>3, <1>4, <1>8, NextIs DEF Sends

\* A given answer that is held or to be paired stays so until it has ended its call.
LEMMA SettledKept ==
  ASSUME Known, Reach, Next, ~Sends, ~Restart, transport # "pipe", unlogged' = 0, unlogged = 0, Live,
         NEW c \in Current, OwnId(c), Given(c), Settled(c)
  PROVE  Settled(c)'
<1>0. /\ Recorded /\ Gated /\ Framed /\ Typed /\ SessionTyped /\ JudgedFirst /\ RelayFrame /\ DrainedDone
      /\ c \in Call /\ Fits(c) /\ unlogged \in Nat /\ DownTyped /\ transport' = transport /\ c # 0
  <2>1. Recorded /\ Gated /\ Framed /\ Typed /\ SessionTyped /\ JudgedFirst /\ RelayFrame /\ DrainedDone /\ unlogged \in Nat
    BY DEF Known, Rows0, Agreed, Recorded, Gated, Begun, Typed, Framewise
  <2>2. c \in Call /\ Fits(c) /\ DownTyped
    BY <2>1 DEF Known, Fitting, Recorded, Current
  <2> QED
    BY <2>1, <2>2, SetupStays, CallNumbers
<1>1. CASE EndedAs(c, Its(c))
  <2>1. Its(c) # Open
    BY <1>0 DEF Its, Open, None
  <2> PICK e : e = Its(c)
    OBVIOUS
  <2>2. EndedAs(c, e)'
    BY <1>0, <1>1, <2>1, TapeGrowsStep, EndedKept
  <2>3. Its(c)' = e
    BY DEF Its
  <2> QED
    BY <2>2, <2>3 DEF Settled, EndedAs
<1>2. reply[c] # "refused"
  BY <1>0 DEF Given, Fits
<1>3. CASE down = c
  <2>1. Awake /\ down # 0
    BY <1>0, <1>3 DEF Live, DrainedDone
  <2>2. Waiting(c)
    BY <1>0, <1>3, <2>1 DEF Reach, Own, Fits, Attended
  <2>3. ASSUME NEW luck \in Lucks, DownObserve(luck) PROVE Settled(c)'
    <3>1. Observe(c, luck)
      BY <1>3, <2>3 DEF DownObserve
    <3> QED
      BY <1>0, <1>2, <2>1, <2>2, <3>1, ClosesItsOwn DEF Settled
  <2> QED
    BY <1>0, <1>3, <2>1, <2>3, DownHeld DEF Settled
<1>4. CASE Due("pair", c)
  <2>1. Awake
    BY <1>0, <1>4 DEF Live, DrainedDone, Done
  <2>2. ~Deaf /\ ~DeafGate
    BY <2>1 DEF Deaf, DeafGate, Awake
  <2>3. ~Unopened(c)
    <3>1. CASE reply[c] = "relayed"
      BY <1>0, <3>1 DEF Fits
    <3>2. CASE Due("relay", c)
      <4>1. \A p : Due(p, c) => p \in RelayOps
        BY <1>0, <3>2 DEF RelayFrame
      <4>2. "open" \notin RelayOps /\ (mode = "enforce" => "judge" \notin RelayOps)
        BY DEF RelayOps, WatchOps
      <4> QED
        BY <4>1, <4>2 DEF Unopened
    <3> QED
      BY <3>1, <3>2 DEF Given
  <2>4. Waiting(c)
    BY <1>0, <1>4, <2>1, <2>3 DEF Reach, Own, Fits, Attended, Unopened
  <2>5. ASSUME NEW o, o # "pair", NEW S, Exactly(o, S) PROVE Settled(c)'
    BY <1>0, <1>4, <2>5 DEF Exactly, Settled
  <2>6. ASSUME UNCHANGED <<transport, mode, calls, script>> PROVE Settled(c)'
    BY <1>0, <1>4, <2>6, NothingMoves DEF Settled
  <2>7. ASSUME NEW f \in DOMAIN script, NEW luck \in Lucks, Judge(f, luck) PROVE Settled(c)'
    <3>1. CASE calls[c].frame # f
      <4>1. Due("pair", c)'
        BY <1>0, <1>4, <2>7, <3>1, JudgeMoves
      <4> QED
        BY <4>1 DEF Settled
    <3>2. CASE mode # "enforce"
      <4>1. Due("pair", c)' <=> Due("pair", c) /\ ~("pair" = "judge" /\ c \in Of(f))
        BY <1>0, <2>2, <2>7, <3>2, JudgeMoves
      <4> QED
        BY <1>4, <4>1 DEF Settled
    <3>3. CASE mode = "enforce" /\ calls[c].frame = f
      <4>1. AtHead(f, "judge")
        BY <2>7 DEF Judge
      <4>2. c \in Of(f)
        BY <1>0, <3>3, <4>1, JudgedWhole, CallsOfFrame DEF Framed
      <4>3. Due("judge", c)
        BY <1>0, <4>1, <4>2, HeadOf
      <4> QED
        BY <2>3, <3>3, <4>3 DEF Unopened
    <3> QED
      BY <3>1, <3>2, <3>3
  <2>8. ASSUME NEW f \in DOMAIN script, NEW o \in {"record", "refuse"}, NEW luck \in Lucks, Record(f, o, luck)
        PROVE  Settled(c)'
    <3>1. Met(luck)
      BY <2>8 DEF Record
    <3>2. luck # "no log"
      BY <1>0, <3>1, LogTaken
    <3> QED
      BY <1>0, <2>5, <2>8, <3>2, RecordMoves
  <2>9. ASSUME NEW f \in DOMAIN script, Puts(f) PROVE Settled(c)'
    <3>1. PICK o \in PutOps : Put(f, o)
      BY <2>9, PutsIs
    <3>2. Exactly(o, Of(f)) /\ o # "pair"
      BY <1>0, <3>1, PutMoves DEF PutOps
    <3> QED
      BY <2>5, <3>2
  <2>10. ASSUME NEW f \in DOMAIN script, NEW a \in SUBSET CallsOf(f), NEW read \in SUBSET a,
                NEW left \in BOOLEAN, Respond(f, a, read, left)
         PROVE  Settled(c)'
    <3>1. Responded(f, a, read, left)
      BY <1>0, <2>10, RespondMoves
    <3>2. calls[c].frame # f
      <4>1. "pair" # "answer"
        OBVIOUS
      <4> QED
        BY <1>0, <1>4, <3>1, <4>1 DEF Responded
    <3>3. Due("pair", c)'
      BY <1>0, <1>4, <3>1, <3>2 DEF Responded
    <3> QED
      BY <3>3 DEF Settled
  <2>11. ASSUME NEW d \in Call, NEW read \in BOOLEAN, DownRelay(d, read) PROVE Settled(c)'
    <3>1. UNCHANGED <<transport, mode, calls, script>>
      BY <2>11 DEF DownRelay, setup
    <3> QED
      BY <2>6, <3>1
  <2>12. CASE EditMandate \/ Stop \/ Waited
    <3>1. UNCHANGED <<transport, mode, calls, script>>
      BY <2>12 DEF EditMandate, Stop, Waited, setup
    <3> QED
      BY <2>6, <3>1
  <2>13. (\A f : ~BreakPipe(f)) /\ ~\E luck \in Lucks : FlushPending(luck) \/ FlushTape(luck)
    BY <2>1 DEF FlushPending, FlushTape, BreakPipe, Awake
  <2>14. ASSUME NEW f \in DOMAIN script, NEW luck \in Lucks, OpenCall(f, luck) \/ CloseCall(f, luck)
         PROVE  Settled(c)'
    <3>1. Met(luck)
      BY <2>14 DEF OpenCall, CloseCall
    <3>2. luck # "no log"
      BY <1>0, <3>1, LogTaken
    <3>3. Exactly("open", {One(f)}) \/ Exactly("close", {One(f)})
      BY <1>0, <2>2, <2>14, <3>2, OpenMoves, CloseMoves
    <3> QED
      BY <2>5, <3>3
  <2>15. ASSUME NEW f \in DOMAIN script, NEW luck \in Lucks, Pair(f, luck) PROVE Settled(c)'
    <3>1. AtHead(f, "pair") /\ Next1(f) /\ UNCHANGED <<transport, mode, calls>> /\ Observe(One(f), luck)
      BY <2>15 DEF Pair, setup
    <3> PICK d : d = One(f)
      OBVIOUS
    <3>2. Exactly("pair", {d}) /\ Observe(d, luck)
      BY <1>0, <3>1, PlainMoves, OneOf DEF OneCall
    <3>3. CASE c = d
      BY <1>0, <1>2, <2>1, <2>4, <3>2, <3>3, ClosesItsOwn DEF Settled
    <3>4. CASE c # d
      BY <1>0, <1>4, <3>2, <3>4 DEF Exactly, Settled
    <3> QED
      BY <3>3, <3>4
  <2>16. ASSUME NEW luck \in Lucks, DownObserve(luck) PROVE Settled(c)'
    <3>1. UNCHANGED <<transport, mode, calls, script>>
      BY <2>16 DEF DownObserve, setup
    <3> QED
      BY <2>6, <3>1
  <2>17. CASE Rest
    BY <2>8, <2>12, <2>13, <2>14, <2>15, <2>16, <2>17 DEF Rest, Records
  <2> QED
    BY <2>7, <2>9, <2>10, <2>11, <2>17, NextIs DEF Sends
<1> QED
  BY <1>1, <1>3, <1>4 DEF Settled

\* An answer is given as the one it was due to be, or as it is put in the thread's hands.
LEMMA GivenIsNew ==
  ASSUME Known, Next, ~Sends, ~Restart, transport # "pipe", NEW c \in Call, Given(c)'
  PROVE  Given(c) \/ Settled(c)'
<1>0. /\ Recorded /\ Gated /\ Framed /\ Typed /\ SessionTyped
  BY DEF Known, Rows0, Agreed, Recorded, Gated, Begun, Typed
<1>1. ASSUME reply'[c] = reply[c], Due("relay", c)' => Due("relay", c) PROVE Given(c)
  BY <1>1 DEF Given
<1>2. ASSUME NEW f \in DOMAIN script, NEW luck \in Lucks, Judge(f, luck) PROVE Given(c)
  <2>1. UNCHANGED <<reply, transport>>
    BY <1>2 DEF Judge, setup
  <2>2. "relay" \notin PassedOps /\ <<"relay", c>> \notin HeldPlan(Of(f))
    BY DEF PassedOps, HeldPlan
  <2>3. Due("relay", c)' => Due("relay", c)
    <3>1. CASE calls[c].frame # f
      BY <1>0, <1>2, <3>1, JudgeMoves
    <3>2. CASE mode # "enforce" /\ ~DeafGate
      BY <1>0, <1>2, <3>2, JudgeMoves
    <3>3. CASE mode # "enforce" /\ DeafGate
      BY <1>0, <1>2, <3>3, JudgeMoves
    <3>4. CASE mode = "enforce" /\ DeafGate /\ calls[c].frame = f
      BY <1>0, <1>2, <2>2, <3>4, JudgeMoves
    <3>5. CASE mode = "enforce" /\ ~DeafGate /\ calls[c].frame = f
      <4>1. CASE \A d \in Of(f) : Detail(d) = "inside"
        BY <1>0, <1>2, <2>2, <3>5, <4>1, JudgeMoves
      <4>2. CASE ~\A d \in Of(f) : Detail(d) = "inside"
        BY <1>0, <1>2, <2>2, <3>5, <4>2, JudgeMoves
      <4> QED
        BY <4>1, <4>2
    <3> QED
      BY <3>1, <3>2, <3>3, <3>4, <3>5
  <2> QED
    BY <1>1, <2>1, <2>3
<1>3. ASSUME NEW f \in DOMAIN script, Puts(f) PROVE Given(c)
  <2>1. PICK o \in PutOps : Put(f, o)
    BY <1>3, PutsIs
  <2>2. Exactly(o, Of(f)) /\ \A d \in Of(f) : Due(o, d)
    BY <1>0, <2>1, PutMoves
  <2>3. reply'[c] = IF c \in Of(f) THEN PutWord(o) ELSE reply[c]
    BY <1>0, <2>1, PutSays
  <2>4. CASE c \in Of(f) /\ o = "relay"
    BY <2>2, <2>4 DEF Given
  <2>5. CASE c \in Of(f) /\ o # "relay"
    <3>1. PutWord(o) # "relayed"
      BY <2>5 DEF PutOps, PutWord
    <3> QED
      BY <2>2, <2>3, <2>5, <3>1 DEF Given, Exactly
  <2>6. CASE c \notin Of(f)
    BY <1>1, <2>2, <2>3, <2>6 DEF Exactly
  <2> QED
    BY <2>4, <2>5, <2>6
<1>4. ASSUME NEW f \in DOMAIN script, NEW a \in SUBSET CallsOf(f), NEW read \in SUBSET a,
             NEW left \in BOOLEAN, Respond(f, a, read, left)
      PROVE  Given(c) \/ Settled(c)'
  <2>1. Responded(f, a, read, left) /\ UNCHANGED reply
    BY <1>0, <1>4, RespondMoves DEF Respond
  <2>2. CASE calls[c].frame # f
    BY <1>1, <2>1, <2>2 DEF Responded
  <2>3. CASE calls[c].frame = f
    <3>1. <<"relay", c>> \in AnsweredPlan(Of(f), a, read, left)
            => <<"pair", c>> \in AnsweredPlan(Of(f), a, read, left)
      BY DEF AnsweredPlan, WatchOps
    <3>2. Due("relay", c)' => Due("pair", c)'
      BY <2>1, <2>3, <3>1 DEF Responded
    <3> QED
      BY <2>1, <3>2 DEF Given, Settled
  <2> QED
    BY <2>2, <2>3
<1>5. ASSUME NEW d \in Call, NEW read \in BOOLEAN, DownRelay(d, read) PROVE Given(c) \/ Settled(c)'
  <2>1. /\ UNCHANGED <<transport, mode, calls, script>> /\ down' = IF read THEN d ELSE 0
        /\ reply' = [reply EXCEPT ![d] = IF read THEN "relayed" ELSE "unread"]
    BY <1>5 DEF DownRelay, setup
  <2>2. Due("relay", c)' <=> Due("relay", c)
    BY <1>0, <2>1, NothingMoves
  <2>3. CASE c = d
    <3>1. CASE read
      BY <2>1, <2>3, <3>1 DEF Settled
    <3>2. CASE ~read
      <4>1. reply'[c] = "unread"
        BY <1>0, <2>1, <2>3, <3>2, CallNumbers DEF Typed, SaidTyped
      <4> QED
        BY <2>2, <4>1 DEF Given
    <3> QED
      BY <3>1, <3>2
  <2>4. CASE c # d
    BY <1>1, <2>1, <2>2, <2>4
  <2> QED
    BY <2>3, <2>4
<1>6. CASE Rest
  <2>1. Elsewhere
    BY <1>0, <1>6, ElsewhereMoves
  <2> QED
    BY <1>1, <2>1 DEF Elsewhere, Shrinks
<1> QED
  BY <1>2, <1>3, <1>4, <1>5, <1>6, NextIs DEF Sends

(***************************************************************************)
(* An answer that went on unread.                                          *)
(***************************************************************************)
Muted(c) == reply[c] = "unread" \/ Due("pass", c)
\* No other answer comes for its call.
Quieted(c) == transport # "pipe" /\ Muted(c) =>
                /\ calls[c].id # BadId /\ ~Coming(c) /\ ~Due("answer", c) /\ ~Due("write", c)
                /\ ~(mode = "enforce" /\ Due("judge", c))
Muting == \A c \in Call : Quieted(c)

LEMMA QuietedStays ==
  ASSUME NEW c \in Call, Quieted(c), UNCHANGED <<transport, mode, calls>>,
         \A p : Due(p, c)' => Due(p, c), Muted(c)' => Muted(c), Coming(c)' => Coming(c)
  PROVE  Quieted(c)'
BY DEF Quieted

LEMMA ComingStays ==
  ASSUME NEW c, \A p : Due(p, c)' => Due(p, c), down' = c => down = c, UNCHANGED tape
  PROVE  Coming(c)' => Coming(c)
BY DEF Coming, Closed

\* What comes after a step of the rest came before it.
LEMMA ComingRests ==
  ASSUME Owned, Rest, NEW c \in Call, Coming(c)'
  PROVE  Coming(c)
<1>0. /\ Recorded /\ Framed /\ Typed /\ SessionTyped /\ TapeTyped /\ Paired /\ c # 0 /\ 0 \notin Call
      /\ \A d \in Call : CameOnce(d)
  BY CallNumbers DEF Owned, Recorded, Gated, Begun, Typed
<1>1. /\ UNCHANGED calls /\ session'.before = session.before /\ \A p : Due(p, c)' => Due(p, c)
  BY <1>0, ElsewhereMoves DEF Elsewhere, Shrinks
<1>2. CASE TapeKeeps /\ down' \in {down, 0}
  <2>1. Closed(c)' => Closed(c)
    BY <1>0, <1>1, <1>2, PairedKeeps
  <2> QED
    BY <1>0, <1>1, <1>2, <2>1 DEF Coming
<1>3. ASSUME NEW d \in Call, ~Closed(d), Coming(d), Answers(d), down' \in {down, 0} PROVE Coming(c)
  <2>1. CASE c = d
    BY <1>3, <2>1
  <2>2. CASE c # d
    <3>1. PICK i, luck : Shut(i, By(d), luck) /\ calls[pending[i]].id = calls[d].id
      BY <1>3 DEF Answers
    <3>2. Closed(c)' => Closed(c)
      BY <1>0, <1>1, <1>3, <2>2, <3>1, PairedShut
    <3> QED
      BY <1>0, <1>1, <1>3, <3>2 DEF Coming
  <2> QED
    BY <2>1, <2>2
<1>4. ASSUME NEW d \in Call, Due("pair", d), down' = down, Answers(d) PROVE Coming(c)
  BY <1>0, <1>3, <1>4 DEF CameOnce, Coming
<1>5. ASSUME down \in Call, down' = 0, Answers(down) PROVE Coming(c)
  <2>1. PICK d \in Call : d = down
    BY <1>5
  <2> QED
    BY <1>0, <1>3, <1>5, <2>1 DEF CameOnce, Coming
<1> QED
  BY <1>0, <1>2, <1>4, <1>5, RestTape

LEMMA MutingStep ==
  ASSUME Owned, Muting, [Next]_vars
  PROVE  Muting'
<1>0. /\ Recorded /\ Framed /\ Typed /\ SessionTyped /\ SaidTyped /\ Gated /\ JudgedFirst /\ DownTyped /\ TapeTyped
      /\ UNCHANGED <<transport, mode>> /\ 0 \notin Call
      /\ \A c \in Call : CameOnce(c) /\ Quieted(c)
  BY SetupStays, CallNumbers DEF Owned, Recorded, Gated, Begun, Typed, Framewise, Muting
<1>1. ASSUME NEW n \in Frames, NEW kinds \in [1..n -> Kinds], Send(kinds) PROVE Muting'
  <2>1. /\ Call' = Call \cup New(kinds)
        /\ \A c \in Call : calls'[c] = calls[c] /\ reply'[c] = reply[c] /\ \A p : Due(p, c)' <=> Due(p, c)
        /\ \A c \in New(kinds) : reply'[c] = "none" /\ \A p : Due(p, c)' <=> p \in ScriptOps
        /\ UNCHANGED <<down, tape>>
    BY <1>0, <1>1, SendMoves, SendSays
  <2>2. "pass" \notin ScriptOps
    BY DEF ScriptOps, WatchOps
  <2>3. ASSUME NEW c \in New(kinds) PROVE Quieted(c)'
    BY <2>1, <2>2 DEF Quieted, Muted
  <2>4. ASSUME NEW c \in Call PROVE Quieted(c)'
    <3>1. (Muted(c)' => Muted(c)) /\ (Coming(c)' => Coming(c))
      BY <2>1, ComingStays DEF Muted
    <3> QED
      BY <1>0, <2>1, <3>1 DEF Quieted
  <2> QED
    BY <2>1, <2>3, <2>4 DEF Muting
<1>2. CASE UNCHANGED vars
  <2>1. UNCHANGED <<transport, mode, calls, script, reply, down, tape>>
    BY <1>2 DEF vars
  <2>2. Call' = Call /\ \A c \in Call : \A p : Due(p, c)' <=> Due(p, c)
    BY <1>0, <2>1, NothingMoves
  <2>3. ASSUME NEW c \in Call PROVE Quieted(c)'
    <3>1. (Muted(c)' => Muted(c)) /\ (Coming(c)' => Coming(c))
      BY <2>1, <2>2, ComingStays DEF Muted
    <3> QED
      BY <1>0, <2>1, <2>2, <3>1, QuietedStays
  <2> QED
    BY <2>2, <2>3 DEF Muting
<1> SUFFICES ASSUME Next, ~Sends PROVE \A c \in Call : Quieted(c)'
  <2>1. Next /\ ~Sends => Call' = Call
    BY <1>0, CallsStay DEF Call
  <2> QED
    BY <1>1, <1>2, <2>1 DEF Sends, Muting
<1>3. UNCHANGED calls
  BY <1>0, CallsStay
<1>k. ASSUME NEW c \in Call, \A p : Due(p, c)' => Due(p, c), Muted(c)' => Muted(c), down' = c => down = c,
             UNCHANGED tape
      PROVE  Quieted(c)'
  <2>1. Coming(c)' => Coming(c)
    BY <1>k, ComingStays
  <2> QED
    BY <1>0, <1>3, <1>k, <2>1, QuietedStays
<1>4. ASSUME NEW f \in DOMAIN script, NEW luck \in Lucks, Judge(f, luck), NEW c \in Call PROVE Quieted(c)'
  <2>1. UNCHANGED <<reply, down, tape>>
    BY <1>0, <1>4, JudgeSays
  <2>2. CASE calls[c].frame # f \/ mode # "enforce"
    <3>1. \A p : Due(p, c)' => Due(p, c)
      BY <1>0, <1>4, <2>2, JudgeMoves
    <3> QED
      BY <1>k, <2>1, <3>1 DEF Muted
  <2>3. CASE calls[c].frame = f /\ mode = "enforce"
    <3>1. AtHead(f, "judge") /\ c \in CallsOf(f)
      BY <1>4, <2>3 DEF Judge, CallsOf
    <3>2. Due("judge", c)
      BY <1>0, <2>3, <3>1, JudgedWhole, HeadOf
    <3>3. reply'[c] = "none"
      BY <1>0, <2>1, <2>3, <3>2 DEF Gated, ToJudge
    <3>4. "pass" \notin PassedOps /\ <<"pass", c>> \notin HeldPlan(Of(f))
      BY DEF PassedOps, HeldPlan
    <3>5. ~Due("pass", c)'
      <4>1. CASE DeafGate
        BY <1>0, <1>4, <2>3, <3>4, <4>1, JudgeMoves
      <4>2. CASE ~DeafGate /\ \A d \in Of(f) : Detail(d) = "inside"
        BY <1>0, <1>4, <2>3, <3>4, <4>2, JudgeMoves
      <4>3. CASE ~DeafGate /\ ~\A d \in Of(f) : Detail(d) = "inside"
        BY <1>0, <1>4, <2>3, <3>4, <4>3, JudgeMoves
      <4> QED
        BY <4>1, <4>2, <4>3
    <3> QED
      BY <3>3, <3>5 DEF Quieted, Muted
  <2> QED
    BY <2>2, <2>3
<1>5. ASSUME NEW f \in DOMAIN script, Puts(f), NEW c \in Call PROVE Quieted(c)'
  <2>1. PICK o \in PutOps : Put(f, o)
    BY <1>5, PutsIs
  <2>2. /\ Exactly(o, Of(f)) /\ UNCHANGED <<down, tape>> /\ \A d \in Of(f) : Due(o, d)
        /\ reply'[c] = IF c \in Of(f) THEN PutWord(o) ELSE reply[c]
    BY <1>0, <2>1, PutMoves, PutSays
  <2>3. \A p : Due(p, c)' => Due(p, c)
    BY <2>2 DEF Exactly
  <2>4. PutWord(o) = "unread" => o = "pass"
    BY DEF PutWord, PutOps
  <2>5. Muted(c)' => Muted(c)
    BY <2>2, <2>3, <2>4 DEF Muted
  <2> QED
    BY <1>k, <2>2, <2>3, <2>5
<1>6. ASSUME NEW f \in DOMAIN script, NEW a \in SUBSET CallsOf(f), NEW read \in SUBSET a,
             NEW left \in BOOLEAN, Respond(f, a, read, left), NEW c \in Call
      PROVE  Quieted(c)'
  <2>1. /\ Responded(f, a, read, left) /\ a \subseteq Of(f) /\ UNCHANGED <<reply, down, tape>>
        /\ \A d \in a : calls[d].id # BadId
    BY <1>0, <1>6, RespondMoves DEF Respond
  <2>2. CASE calls[c].frame # f
    <3>1. \A p : Due(p, c)' <=> Due(p, c)
      BY <2>1, <2>2 DEF Responded
    <3> QED
      BY <1>k, <2>1, <3>1 DEF Muted
  <2>3. CASE calls[c].frame = f
    <3>1. /\ \A p : Due(p, c)' <=> <<p, c>> \in AnsweredPlan(Of(f), a, read, left)
          /\ c \in Of(f) => Due("answer", c)
      BY <2>1, <2>3 DEF Responded
    <3>2. CASE c \notin Of(f)
      <4>1. \A p : <<p, c>> \notin AnsweredPlan(Of(f), a, read, left)
        BY <2>1, <3>2 DEF AnsweredPlan
      <4>2. \A p : ~Due(p, c)'
        BY <3>1, <4>1
      <4> QED
        BY <1>k, <2>1, <4>2 DEF Muted
    <3>3. CASE c \in Of(f) /\ c \in a \ read
      <4>1. ~Coming(c)
        BY <1>0, <3>1, <3>3 DEF CameOnce
      <4>2. /\ <<"pair", c>> \notin AnsweredPlan(Of(f), a, read, left)
            /\ <<"answer", c>> \notin AnsweredPlan(Of(f), a, read, left)
            /\ <<"write", c>> \notin AnsweredPlan(Of(f), a, read, left)
            /\ mode = "enforce" => <<"judge", c>> \notin AnsweredPlan(Of(f), a, read, left)
        BY <3>3 DEF AnsweredPlan, WatchOps
      <4>3. ~Due("pair", c)' /\ ~Due("answer", c)' /\ ~Due("write", c)' /\ (mode = "enforce" => ~Due("judge", c)')
        BY <3>1, <4>2
      <4>4. ~Coming(c)'
        BY <2>1, <4>1, <4>3 DEF Coming, Closed
      <4> QED
        BY <1>0, <1>3, <2>1, <3>3, <4>3, <4>4 DEF Quieted
    <3>4. CASE c \in Of(f) /\ c \notin a \ read
      <4>1. <<"pass", c>> \notin AnsweredPlan(Of(f), a, read, left)
        BY <3>4 DEF AnsweredPlan, WatchOps
      <4>2. Muted(c)' => Muted(c)
        BY <2>1, <3>1, <4>1 DEF Muted
      <4>3. transport = "pipe" \/ ~Muted(c)
        BY <1>0, <3>1, <3>4 DEF Quieted
      <4> QED
        BY <1>0, <4>2, <4>3 DEF Quieted
    <3> QED
      BY <3>2, <3>3, <3>4
  <2> QED
    BY <2>2, <2>3
<1>7. ASSUME NEW d \in Call, NEW read \in BOOLEAN, DownRelay(d, read), NEW c \in Call PROVE Quieted(c)'
  <2>1. /\ UNCHANGED <<transport, mode, calls, script, tape>> /\ down' = IF read THEN d ELSE 0
        /\ reply' = [reply EXCEPT ![d] = IF read THEN "relayed" ELSE "unread"]
        /\ reply[d] = "asked" /\ calls[d].id # BadId
        /\ transport # "pipe" => script[calls[d].frame] = <<>>
    BY <1>7 DEF DownRelay, setup
  <2>2. \A p : Due(p, c)' <=> Due(p, c)
    BY <1>0, <2>1, NothingMoves
  <2>3. /\ c # d => reply'[c] = reply[c]
        /\ c = d => reply'[c] = IF read THEN "relayed" ELSE "unread"
    BY <1>0, <2>1, CallNumbers DEF SaidTyped
  <2>4. CASE c # d
    <3>1. down' = c => down = c
      BY <1>0, <2>1, <2>4
    <3> QED
      BY <1>k, <2>1, <2>2, <2>3, <2>4, <3>1 DEF Muted
  <2>5. CASE c = d /\ transport # "pipe"
    <3>1. \A p : ~Due(p, c)
      BY <2>1, <2>5 DEF Due, Has
    <3>2. ~Coming(c)
      BY <1>0, <2>1, <2>5, <3>1 DEF CameOnce
    <3>3. CASE read
      BY <2>2, <2>3, <2>5, <3>1, <3>3 DEF Quieted, Muted
    <3>4. CASE ~read
      <4>1. ~Coming(c)'
        BY <1>0, <2>1, <2>2, <3>1, <3>2, <3>4 DEF Coming, Closed
      <4> QED
        BY <2>1, <2>2, <2>5, <3>1, <4>1 DEF Quieted
    <3> QED
      BY <3>3, <3>4
  <2>6. CASE transport = "pipe"
    BY <1>0, <2>6 DEF Quieted
  <2> QED
    BY <2>4, <2>5, <2>6
<1>8. ASSUME Restart, NEW c \in Call PROVE Quieted(c)'
  <2>1. \A p : ~Due(p, c)'
    BY <1>0, <1>8, RestartMoves
  <2>2. /\ down' = 0 /\ session'.before = Len(calls)
        /\ reply' = [d \in Call |-> IF reply[d] \in {"relayed", "unread", "refused"} THEN reply[d] ELSE "lost"]
    BY <1>8 DEF Restart
  <2>3. Muted(c)' => Muted(c)
    BY <2>1, <2>2 DEF Muted
  <2>4. Closed(c)' => Closed(c)
    <3>1. PICK last : last = LastOf(tape)
      OBVIOUS
    <3>2. tape' = Cut(tape, last)
      BY <1>8, <3>1 DEF Restart, LastOf, Cut
    <3>3. Whole(tape)
      BY <1>0 DEF TapeTyped
    <3>4. /\ last \in 0..Len(tape.end) /\ Len(tape'.end) = last
          /\ \A k \in 1..last : tape'.end[k] = tape.end[k]
      BY <3>1, <3>2, <3>3, WholeResumed
    <3>5. \A k \in 1..last : k \in 1..Len(tape.end)
      BY <3>3, <3>4 DEF Whole, Tapes
    <3> QED
      BY <3>4, <3>5 DEF Closed
  <2>5. Coming(c)' => Coming(c)
    BY <1>0, <2>1, <2>2, <2>4 DEF Coming
  <2> QED
    BY <1>0, <1>3, <2>1, <2>3, <2>5, QuietedStays
<1>9. ASSUME Rest, NEW c \in Call PROVE Quieted(c)'
  <2>1. UNCHANGED reply /\ \A p : Due(p, c)' => Due(p, c)
    BY <1>0, <1>9, ElsewhereMoves DEF Elsewhere, Shrinks
  <2>2. Coming(c)' => Coming(c)
    BY <1>9, ComingRests
  <2>3. Muted(c)' => Muted(c)
    BY <2>1 DEF Muted
  <2> QED
    BY <1>0, <1>3, <2>1, <2>2, <2>3, QuietedStays
<1> QED
  BY <1>4, <1>5, <1>6, <1>7, <1>8, <1>9, NextIs DEF Sends

\* A session ends with the tape's flush.
LEMMA EndsByFlush ==
  ASSUME Typed, Next, ~Sends, ~Restart, phase # "ended", phase' = "ended"
  PROVE  \E luck \in Lucks : FlushTape(luck)
<1>1. ASSUME UNCHANGED phase PROVE FALSE
  BY <1>1
<1>2. ASSUME NEW f, NEW luck, \/ Judge(f, luck) \/ Records(f, luck) \/ OpenCall(f, luck)
                              \/ Pair(f, luck) \/ CloseCall(f, luck)
      PROVE  UNCHANGED phase
  BY <1>2 DEF Judge, Records, Record, OpenCall, Pair, CloseCall
<1>3. ASSUME NEW f, Puts(f) \/ BreakPipe(f) PROVE UNCHANGED phase
  BY <1>3 DEF Puts, Inject, Write, Relay, Pass, BreakPipe
<1>4. ASSUME NEW f, NEW a, NEW read, NEW left, Respond(f, a, read, left) PROVE UNCHANGED phase
  BY <1>4 DEF Respond
<1>5. ASSUME NEW d, NEW read, DownRelay(d, read) PROVE UNCHANGED phase
  BY <1>5 DEF DownRelay
<1>6. ASSUME NEW luck, DownObserve(luck) \/ EditMandate PROVE UNCHANGED phase
  BY <1>6 DEF DownObserve, EditMandate
<1>7. ASSUME NEW luck, Stop \/ Waited \/ FlushPending(luck) PROVE phase' # "ended" \/ UNCHANGED phase
  BY <1>7 DEF Stop, Waited, FlushPending
<1>8. Lucks # {}
  BY DEF Lucks
<1>9. CASE Rest
  BY <1>1, <1>2, <1>3, <1>6, <1>7, <1>8, <1>9 DEF Rest
<1> QED
  BY <1>1, <1>2, <1>3, <1>4, <1>5, <1>9, NextIs DEF Sends

\* What an index of the tape is after a step: as it was, ended without an answer or by one
\* that had come, or a call opened just now.
Grown(k) ==
  \/ /\ k \in 1..Len(tape.end) /\ tape'.call[k] = tape.call[k]
     /\ \/ tape'.end[k] \in {tape.end[k], None("unanswered")}
        \/ \E d \in Call : tape'.end[k].by = d /\ (Due("pair", d) \/ down = d)
  \/ \E d \in Call : /\ Due("open", d) /\ tape'.call[k] = d
                     /\ tape'.end[k] = Open \/ (tape'.end[k] = None("invalid_id") /\ calls[d].id = BadId)
GrownOnly == \A k \in 1..Len(tape'.end) : Grown(k)

LEMMA ShutOnly ==
  ASSUME Recorded, NEW i, NEW e \in Ends, e # Open, NEW luck, Shut(i, e, luck),
         e = None("unanswered") \/ \E d \in Call : e.by = d /\ (Due("pair", d) \/ down = d)
  PROVE  GrownOnly
<1>1. Whole(tape) /\ pending \in Seq(Nat)
  BY DEF Recorded, TapeTyped, PendingTyped
<1>2. /\ tape'.call = tape.call /\ Len(tape'.end) = Len(tape.end)
      /\ \A k \in 1..Len(tape.end) :
           tape'.end[k] = IF tape.call[k] = pending[i] /\ tape.end[k] = Open THEN e ELSE tape.end[k]
  BY <1>1, ShutDoes
<1> QED
  BY <1>2 DEF GrownOnly, Grown

LEMMA GrownOnlyStep ==
  ASSUME Recorded, Next, ~Restart
  PROVE  GrownOnly
<1>0. Whole(tape) /\ pending \in Seq(Nat) /\ Framed /\ Typed /\ DownTyped
  BY DEF Recorded, TapeTyped, PendingTyped, Gated, Begun, Typed
<1>1. ASSUME UNCHANGED tape PROVE GrownOnly
  BY <1>0, <1>1 DEF GrownOnly, Grown
<1>2. CASE Sends \/ \E f \in DOMAIN script : Puts(f)
  BY <1>1, <1>2 DEF Sends, Send, Puts, Inject, Write, Relay, Pass
<1>3. ASSUME NEW f \in DOMAIN script, NEW luck \in Lucks, Judge(f, luck) \/ Records(f, luck) PROVE GrownOnly
  BY <1>1, <1>3 DEF Judge, Records, Record
<1>4. ASSUME NEW f, NEW a, NEW read, NEW left, Respond(f, a, read, left) PROVE GrownOnly
  BY <1>1, <1>4 DEF Respond
<1>5. ASSUME NEW d \in Call, NEW read \in BOOLEAN, DownRelay(d, read) PROVE GrownOnly
  BY <1>1, <1>5 DEF DownRelay
<1>6. CASE EditMandate \/ Stop \/ Waited \/ \E f \in DOMAIN script : BreakPipe(f)
  BY <1>1, <1>6 DEF EditMandate, Stop, Waited, BreakPipe
<1>7. ASSUME NEW luck \in Lucks, FlushPending(luck) PROVE GrownOnly
  BY <1>1, <1>7 DEF FlushPending
<1>8. ASSUME NEW luck \in Lucks, FlushTape(luck) PROVE GrownOnly
  <2>1. tape' = TapeFlush(tape, luck)
    BY <1>8 DEF FlushTape
  <2>2. /\ tape'.call = tape.call /\ Len(tape'.end) = Len(tape.end)
        /\ \A k \in 1..Len(tape.end) : tape'.end[k] = IF tape.end[k] = Open THEN None("unanswered") ELSE tape.end[k]
    BY <1>0, <2>1, WholeFlushed
  <2> QED
    BY <2>2 DEF GrownOnly, Grown
<1>9. ASSUME NEW f \in DOMAIN script, NEW luck \in Lucks, OpenCall(f, luck) PROVE GrownOnly
  <2>1. CASE AsBefore
    BY <1>1, <2>1 DEF AsBefore
  <2>2. CASE ~AsBefore
    <3> PICK c : c = One(f)
      OBVIOUS
    <3>1. PICK e \in {Open, None("invalid_id")} :
             tape' = TapeOpen(tape, c, e, luck) /\ (e = None("invalid_id") => calls[c].id = BadId)
      BY <1>9, <2>2, OpenDoes, EndsAre DEF Words
    <3>2. e \in Ends
      BY EndsAre DEF Words
    <3>3. c \in Nat /\ c \in Call /\ Due("open", c)
      <4>1. AtHead(f, "open")
        BY <1>9 DEF OpenCall
      <4> QED
        BY <1>0, <4>1, CallNumbers, OneOf DEF OneCall
    <3>4. tape'.call = Append(tape.call, c) /\ tape'.end = Append(tape.end, e)
      BY <1>0, <3>1, <3>2, <3>3, WholeOpened
    <3> PICK q, x : q = tape.call /\ x = tape.end
      OBVIOUS
    <3>5. q \in Seq(Nat) /\ x \in Seq(Ends) /\ Len(x) = Len(q) /\ Len(x) \in Nat
      BY <1>0 DEF Whole, Tapes
    <3>6. tape'.call = Append(q, c) /\ tape'.end = Append(x, e)
      BY <3>4
    <3>7. /\ Len(tape'.end) = Len(x) + 1 /\ tape'.call[Len(x) + 1] = c /\ tape'.end[Len(x) + 1] = e
          /\ \A k \in 1..Len(x) : tape'.call[k] = q[k] /\ tape'.end[k] = x[k]
      BY <3>2, <3>3, <3>5, <3>6
    <3>8. \A k \in 1..Len(tape'.end) : k \in 1..Len(x) \/ k = Len(x) + 1
      BY <3>5, <3>7
    <3>9. ASSUME NEW k \in 1..Len(tape'.end) PROVE Grown(k)
      <4>1. CASE k \in 1..Len(x)
        BY <3>7, <4>1 DEF Grown
      <4>2. CASE k = Len(x) + 1
        BY <3>1, <3>3, <3>7, <4>2 DEF Grown
      <4> QED
        BY <3>8, <4>1, <4>2
    <3> QED
      BY <3>9 DEF GrownOnly
  <2> QED
    BY <2>1, <2>2
<1>10. ASSUME NEW c \in Call, Due("pair", c) \/ down = c, NEW luck, Observe(c, luck) PROVE GrownOnly
  <2>1. By(c) \in Ends /\ By(c) # Open /\ By(c).by = c
    BY <1>0, ByIs
  <2> QED
    BY <1>0, <1>1, <1>10, <2>1, ObserveDoes, ShutOnly DEF AsBefore
<1>11. ASSUME NEW f \in DOMAIN script, NEW luck \in Lucks, CloseCall(f, luck) PROVE GrownOnly
  <2>1. None("unanswered") \in Ends /\ None("unanswered") # Open
    BY EndsAre DEF Words
  <2> QED
    BY <1>0, <1>1, <1>11, <2>1, CloseDoes, ShutOnly DEF AsBefore
<1>12. ASSUME NEW f \in DOMAIN script, NEW luck \in Lucks, Pair(f, luck) PROVE GrownOnly
  <2>1. AtHead(f, "pair") /\ Observe(One(f), luck)
    BY <1>12 DEF Pair
  <2>2. One(f) \in Call /\ Due("pair", One(f))
    BY <1>0, <2>1, OneOf DEF OneCall
  <2> QED
    BY <1>10, <2>1, <2>2
<1>13. ASSUME NEW luck \in Lucks, DownObserve(luck) PROVE GrownOnly
  <2>1. down # 0 /\ Observe(down, luck)
    BY <1>13 DEF DownObserve
  <2>2. down \in Call
    BY <1>0, <2>1 DEF DownTyped
  <2> QED
    BY <1>10, <2>1, <2>2
<1>14. CASE Rest
  BY <1>3, <1>6, <1>7, <1>8, <1>9, <1>11, <1>12, <1>13, <1>14 DEF Rest
<1> QED
  BY <1>2, <1>3, <1>4, <1>5, <1>14, NextIs DEF Sends

\* An end without an answer is one of three, and an invalid id is what its call has.
EndsPlainly == \A k \in 1..Len(tape.end) :
                 tape.end[k].by = 0 =>
                   tape.end[k] \in {Open, None("unanswered")} \/ calls[tape.call[k]].id = BadId
\* The end of a session that waited for its threads leaves no call of it open.
Flushed == phase = "ended" /\ session.drained =>
             \A k \in 1..Len(tape.end) : tape.call[k] \in Current => tape.end[k] # Open
\* A call of this session is ended by an answer of this session.
Recent == transport # "pipe" =>
           \A k \in 1..Len(tape.end) : tape.call[k] > session.before /\ tape.end[k].by # 0
                                         => tape.end[k].by > session.before
Noted == transport # "pipe" /\ unlogged = 0 /\ Live =>
           \A c \in Current : Own(c) /\ Muted(c) => Taped(c)
Lasting == EndsPlainly /\ Flushed /\ Recent

\* How the tape stands to its calls, of a step that leaves it alone or cuts it back.
LEMMA LastingSends ==
  ASSUME Known, Lasting, NEW n \in Frames, NEW kinds \in [1..n -> Kinds], Send(kinds)
  PROVE  Lasting'
<1>0. Recorded /\ Framed /\ Typed /\ TapeTyped /\ Len(tape.end) = Len(tape.call)
  BY DEF Known, Rows0, Agreed, Recorded, Gated, Begun, Typed, TapeTyped, Whole
<1>1. /\ \A c \in Call : calls'[c] = calls[c]
      /\ session'.before = session.before /\ session'.drained = session.drained
      /\ UNCHANGED <<transport, tape, phase>>
      /\ \A c \in Current' : c \in Current \/ phase = "running"
  BY <1>0, SendMoves, SendSays, SentLate
<1>2. \A k \in 1..Len(tape.end) : tape.call[k] \in Call
  BY <1>0 DEF TapeTyped
<1>3. EndsPlainly'
  BY <1>1, <1>2 DEF Lasting, EndsPlainly
<1>4. Flushed'
  BY <1>1 DEF Lasting, Flushed
<1>5. Recent'
  BY <1>1 DEF Lasting, Recent
<1> QED
  BY <1>3, <1>4, <1>5 DEF Lasting

LEMMA LastingRestarts ==
  ASSUME Known, Lasting, Restart
  PROVE  Lasting'
<1>0. /\ Recorded /\ Framed /\ Typed /\ TapeTyped /\ Whole(tape) /\ session.before \in Nat
      /\ Call = 1..Len(calls) /\ Len(calls) \in Nat
  BY CallNumbers DEF Known, Rows0, Agreed, Recorded, Gated, Begun, Typed, TapeTyped
<1> PICK last : last = LastOf(tape)
  OBVIOUS
<1>1. tape' = Cut(tape, last) /\ UNCHANGED calls /\ phase' = "running" /\ session'.before = Len(calls)
  BY DEF Restart, LastOf, Cut
<1>2. /\ last \in 0..Len(tape.end) /\ Len(tape'.end) = last
      /\ \A k \in 1..last : tape'.call[k] = tape.call[k] /\ tape'.end[k] = tape.end[k]
  BY <1>0, <1>1, WholeResumed
<1>3. \A k \in 1..last : k \in 1..Len(tape.end) /\ tape.call[k] \in Call
  BY <1>0, <1>2 DEF TapeTyped, Whole, Tapes
<1>4. EndsPlainly'
  BY <1>1, <1>2, <1>3 DEF Lasting, EndsPlainly
<1>5. Flushed'
  BY <1>1 DEF Flushed
<1>6. \A k \in 1..last : ~(tape'.call[k] > session'.before)
  BY <1>0, <1>1, <1>2, <1>3
<1>7. Recent'
  BY <1>2, <1>6 DEF Recent
<1> QED
  BY <1>4, <1>5, <1>7 DEF Lasting

LEMMA LastingMoves ==
  ASSUME Known, Lasting, Next, ~Sends, ~Restart
  PROVE  Lasting'
<1>0. /\ Recorded /\ Framed /\ Typed /\ SessionTyped /\ TapeTyped /\ DrainedDone /\ Past /\ transport' = transport
      /\ \A d \in Call : Fits(d) /\ d # 0
  BY SetupStays, CallNumbers DEF Known, Fitting, Rows0, Agreed, Recorded, Gated, Begun, Typed
<1>1. /\ UNCHANGED calls /\ Current' = Current /\ Call' = Call
      /\ UNCHANGED session \/ (Waited /\ Awake)
  BY <1>0, SessionStays
<1>2. session'.before = session.before
  BY <1>0, <1>1 DEF Waited, Typed, SessionTyped
<1>3. \A k \in 1..Len(tape'.end) : Grown(k)
  BY <1>0, GrownOnlyStep DEF GrownOnly
<1>4. EndsPlainly'
  <2> SUFFICES ASSUME NEW k \in 1..Len(tape'.end), tape'.end[k].by = 0
               PROVE  tape'.end[k] \in {Open, None("unanswered")} \/ calls[tape'.call[k]].id = BadId
    BY <1>1 DEF EndsPlainly
  <2>1. k \in 1..Len(tape.end) /\ tape.end[k].by = 0 =>
          tape.end[k] \in {Open, None("unanswered")} \/ calls[tape.call[k]].id = BadId
    BY DEF Lasting, EndsPlainly
  <2> QED
    BY <1>0, <1>3, <2>1 DEF Grown
<1>5. Recent'
  <2> SUFFICES ASSUME transport # "pipe", NEW k \in 1..Len(tape'.end), tape'.call[k] > session.before,
                      tape'.end[k].by # 0
               PROVE  tape'.end[k].by > session.before
    BY <1>0, <1>2 DEF Recent
  <2>1. \A d \in Call : Due("pair", d) \/ down = d => d > session.before
    <3>1. \A d \in Call : ~(d <= session.before) => d > session.before
      BY <1>0, CallNumbers
    <3> QED
      BY <1>0, <3>1 DEF Past, Fits
  <2>2. Open.by = 0 /\ None("unanswered").by = 0 /\ None("invalid_id").by = 0
    BY EndsAre DEF Words
  <2>3. k \in 1..Len(tape.end) /\ tape.call[k] > session.before /\ tape.end[k].by # 0
          => tape.end[k].by > session.before
    BY DEF Lasting, Recent
  <2> QED
    BY <1>3, <2>1, <2>2, <2>3 DEF Grown
<1>6. Flushed'
  <2> SUFFICES ASSUME phase' = "ended", session'.drained, NEW k \in 1..Len(tape'.end), tape'.call[k] \in Current
               PROVE  tape'.end[k] # Open
    BY <1>1 DEF Flushed
  <2>1. UNCHANGED session
    BY <1>1 DEF Waited
  <2>2. CASE phase = "ended"
    <3>1. \A d \in Current : ~Due("open", d) /\ ~Due("pair", d) /\ down # d
      BY <1>0, <2>1, CallNumbers DEF DrainedDone, Done, Current
    <3>2. None("unanswered") # Open
      BY EndsAre DEF Words
    <3>3. k \in 1..Len(tape.end) /\ tape.call[k] \in Current => tape.end[k] # Open
      BY <2>1, <2>2 DEF Lasting, Flushed
    <3>4. ASSUME NEW d \in Call, tape'.end[k].by = d PROVE tape'.end[k] # Open
      BY <1>0, <3>4, EndsAre
    <3> QED
      BY <1>3, <3>1, <3>2, <3>3, <3>4 DEF Grown
  <2>3. CASE phase # "ended"
    <3>1. PICK luck \in Lucks : FlushTape(luck)
      BY <1>0, <2>3, EndsByFlush
    <3>2. Whole(tape) /\ tape' = TapeFlush(tape, luck)
      BY <1>0, <3>1 DEF FlushTape, TapeTyped
    <3>3. /\ Len(tape'.end) = Len(tape.end)
          /\ \A j \in 1..Len(tape.end) : tape'.end[j] = IF tape.end[j] = Open THEN None("unanswered") ELSE tape.end[j]
      BY <3>2, WholeFlushed
    <3>4. None("unanswered") # Open
      BY EndsAre DEF Words
    <3> QED
      BY <3>3, <3>4
  <2> QED
    BY <2>2, <2>3
<1> QED
  BY <1>4, <1>5, <1>6 DEF Lasting

DeliveredInv == Known /\ Reach /\ Told

LEMMA InitDelivered == ASSUME Init PROVE DeliveredInv
<1>1. Current = {}
  BY DEF Init, Call, Current
<1>2. Rows0
  BY InitRowed DEF Rowed
<1> QED
  BY <1>1, <1>2, InitFitting DEF DeliveredInv, Known, Reach, Told

LEMMA KnownStep ==
  ASSUME Known, [Next]_vars
  PROVE  Known' /\ Counted
<1>1. Rows0' /\ Counted
  BY Rows0Step DEF Known
<1>2. Owned'
  BY OwnedStep, RecordedStep, FramewiseStep DEF Known, Fitting, Owned, Came
<1>3. \A c \in Call' : Fits(c)'
  BY FittingStep DEF Known
<1> QED
  BY <1>1, <1>2, <1>3 DEF Known, Fitting

\* What a call sent just now, or sent before, has to itself.
LEMMA OwnBefore ==
  ASSUME Recorded, NEW c \in Call, Call \subseteq Call', session'.before = session.before,
         \A d \in Call : calls'[d] = calls[d], OwnId(c)'
  PROVE  OwnId(c)
BY DEF OwnId

LEMMA DeliveredSends ==
  ASSUME DeliveredInv, NEW n \in Frames, NEW kinds \in [1..n -> Kinds], Send(kinds)
  PROVE  Reach' /\ Told'
<1>0. Recorded /\ Framed /\ Typed /\ Current \subseteq Call /\ DownTyped /\ Known
  BY DEF DeliveredInv, Known, Rows0, Agreed, Recorded, Gated, Begun, Typed, Current
<1>1. /\ \A c \in Current' : c \in Current \/ (c \in New(kinds) /\ phase = "running")
      /\ session'.drained = session.drained /\ UNCHANGED phase
  BY <1>0, SentLate
<1>2. /\ Call' = Call \cup New(kinds) /\ New(kinds) \cap Call = {}
      /\ \A c \in Call : calls'[c] = calls[c] /\ \A p : Due(p, c)' <=> Due(p, c)
      /\ \A c \in New(kinds) : \A p : Due(p, c)' <=> p \in ScriptOps
  BY <1>0, SendMoves
<1>3. /\ session'.before = session.before
      /\ \A c \in Call : reply'[c] = reply[c]
      /\ \A c \in New(kinds) : reply'[c] = "none"
      /\ UNCHANGED <<transport, mode, down, pending, tape, rows, unlogged>>
  BY <1>0, SendSays
<1>4. ASSUME NEW c \in Current, OwnId(c)' PROVE c \in Call /\ OwnId(c)
  BY <1>0, <1>2, <1>3, <1>4, OwnBefore
<1>5. "relay" \notin ScriptOps /\ "pair" \notin ScriptOps /\ ("answer" \in ScriptOps => "open" \in ScriptOps)
  BY DEF ScriptOps, WatchOps
<1>6. 0 \notin New(kinds)
  BY <1>0, CallNumbers DEF New
<1>7. \A c \in New(kinds) : down # c
  BY <1>0, <1>2, <1>6 DEF DownTyped
<1>8. Reach'
  <2> SUFFICES ASSUME transport # "pipe", unlogged = 0, Awake, NEW c \in Current', Own(c)' PROVE Attended(c)'
    BY <1>1, <1>3 DEF Reach, Awake
  <2>1. CASE c \in Current
    <3>1. c \in Call /\ Own(c)
      BY <1>2, <1>4, <2>1 DEF Own
    <3>2. Attended(c)
      BY <2>1, <3>1 DEF DeliveredInv, Reach
    <3> QED
      BY <1>2, <1>3, <3>1, <3>2 DEF Attended, Waiting
  <2>2. CASE c \in New(kinds)
    <3>1. down' # c
      BY <1>3, <1>7, <2>2
    <3> QED
      BY <1>2, <1>5, <2>2, <3>1 DEF Attended
  <2> QED
    BY <1>1, <2>1, <2>2
<1>9. Told'
  <2> SUFFICES ASSUME transport # "pipe", unlogged = 0, Live, NEW c \in Current', OwnId(c)', Given(c)'
               PROVE Settled(c)'
    BY <1>1, <1>3 DEF Told, Live, Awake
  <2>1. CASE c \in Current
    <3>1. c \in Call /\ OwnId(c) /\ Given(c)
      BY <1>2, <1>3, <1>4, <2>1 DEF Given
    <3>2. Settled(c)
      BY <2>1, <3>1 DEF DeliveredInv, Told
    <3>3. Its(c)' = Its(c)
      BY DEF Its
    <3> QED
      BY <1>2, <1>3, <3>1, <3>2, <3>3 DEF Settled, EndedAs
  <2>2. CASE c \in New(kinds)
    BY <1>2, <1>3, <1>5, <2>2 DEF Given
  <2> QED
    BY <1>1, <2>1, <2>2
<1> QED
  BY <1>8, <1>9

LEMMA DeliveredMoves ==
  ASSUME DeliveredInv, Next, ~Sends, ~Restart
  PROVE  Reach' /\ Told'
<1>0. /\ Known /\ Recorded /\ Framed /\ Typed /\ Current \subseteq Call /\ Reach /\ Told /\ Counted
      /\ unlogged \in Nat /\ transport' = transport
  BY KnownStep, SetupStays DEF DeliveredInv, Known, Rows0, Agreed, Recorded, Gated, Begun, Typed, Current
<1>1. /\ UNCHANGED calls /\ Current' = Current /\ Call' = Call /\ (Awake' => Awake)
      /\ UNCHANGED session \/ (Waited /\ Awake /\ ~Awake')
  BY <1>0, SessionStays
<1>2. session'.before = session.before
  BY <1>0, <1>1 DEF Waited, Typed, SessionTyped
<1>3. unlogged' = 0 => unlogged = 0
  BY <1>0, NoneAbove, Zenon DEF Counted
<1>4. \A c \in Current : (OwnId(c)' => OwnId(c)) /\ (Own(c)' => Own(c))
  BY <1>0, <1>1, <1>2, OwnBefore DEF Own
<1>5. Live' => Live
  BY <1>1 DEF Live
<1>6. Reach'
  <2> SUFFICES ASSUME transport # "pipe", unlogged' = 0, Awake', NEW c \in Current, Own(c)' PROVE Attended(c)'
    BY <1>0, <1>1 DEF Reach
  <2>1. unlogged = 0 /\ Awake /\ Own(c)
    BY <1>1, <1>3, <1>4
  <2>2. Attended(c)
    BY <1>0, <2>1 DEF Reach
  <2> QED
    BY <1>0, <2>1, <2>2, AttendedKept
<1>7. Told'
  <2> SUFFICES ASSUME transport # "pipe", unlogged' = 0, Live', NEW c \in Current, OwnId(c)', Given(c)'
               PROVE  Settled(c)'
    BY <1>0, <1>1 DEF Told
  <2>1. unlogged = 0 /\ Live /\ OwnId(c) /\ c \in Call
    BY <1>0, <1>3, <1>4, <1>5
  <2>2. Given(c) \/ Settled(c)'
    BY <1>0, <2>1, GivenIsNew
  <2>3. CASE Given(c)
    <3>1. Settled(c)
      BY <1>0, <2>1, <2>3 DEF Told
    <3> QED
      BY <1>0, <2>1, <2>3, <3>1, SettledKept
  <2> QED
    BY <2>2, <2>3
<1> QED
  BY <1>6, <1>7

LEMMA DeliveredStep ==
  ASSUME DeliveredInv, [Next]_vars
  PROVE  DeliveredInv'
<1>0. Known /\ Recorded /\ Framed /\ Typed /\ Current \subseteq Call /\ Reach /\ Told
  BY DEF DeliveredInv, Known, Rows0, Agreed, Recorded, Gated, Begun, Typed, Current
<1>1. Known'
  BY <1>0, KnownStep
<1>2. CASE Sends
  <2>1. PICK n \in Frames : \E kinds \in [1..n -> Kinds] : Send(kinds)
    BY <1>2 DEF Sends
  <2>2. PICK kinds \in [1..n -> Kinds] : Send(kinds)
    BY <2>1
  <2> QED
    BY <1>1, <2>2, DeliveredSends DEF DeliveredInv
<1>3. CASE Restart
  <2>1. Call' = 1..Len(calls) /\ session'.before = Len(calls) /\ Len(calls) \in Nat
    BY <1>0, <1>3, CallNumbers DEF Restart, Call
  <2>2. Current' = {}
    BY <2>1 DEF Current
  <2> QED
    BY <1>1, <2>2 DEF DeliveredInv, Reach, Told
<1>4. CASE UNCHANGED vars
  <2>1. /\ UNCHANGED <<transport, mode, calls, script, session, phase, pending, down, tape, unlogged, reply>>
    BY <1>4 DEF vars
  <2>2. Current' = Current /\ Live' = Live /\ Awake' = Awake
    BY <2>1, SameCurrent DEF Live, Awake
  <2>3. \A c \in Call : \A p : Due(p, c)' <=> Due(p, c)
    BY <1>0, <2>1, NothingMoves
  <2>4. \A c \in Current : (Own(c)' => Own(c)) /\ (OwnId(c)' => OwnId(c)) /\ (Given(c)' => Given(c))
    BY <1>0, <2>1, <2>3, SameCurrent DEF Own, OwnId, Given
  <2>5. ASSUME NEW c \in Current PROVE (Attended(c) => Attended(c)') /\ (Settled(c) => Settled(c)')
    BY <1>0, <2>1, <2>3, <2>5 DEF Attended, Waiting, Settled, EndedAs, Its
  <2>6. Reach'
    BY <1>0, <2>1, <2>2, <2>4, <2>5 DEF Reach
  <2>7. Told'
    BY <1>0, <2>1, <2>2, <2>4, <2>5 DEF Told
  <2> QED
    BY <1>1, <2>6, <2>7 DEF DeliveredInv
<1>5. CASE Next /\ ~Sends /\ ~Restart
  BY <1>1, <1>5, DeliveredMoves DEF DeliveredInv
<1> QED
  BY <1>2, <1>3, <1>4, <1>5

\* The call of an answer that cannot be read is on the tape when the answer goes on.
LEMMA NotedMoves ==
  ASSUME Known, Reach, Noted, Next, ~Sends, ~Restart
  PROVE  Noted'
<1>0. /\ Recorded /\ Framed /\ Typed /\ SaidTyped /\ SessionTyped /\ WaitingOpen /\ DrainedDone /\ Counted
      /\ pending \in Seq(Nat) /\ unlogged \in Nat /\ transport' = transport /\ Current \subseteq Call
      /\ Len(tape.call) = Len(tape.end)
  BY KnownStep, SetupStays DEF Known, Rows0, Agreed, Recorded, Gated, Begun, Typed, PendingTyped, TapeTyped,
                               Whole, Framewise, Current
<1>1. /\ UNCHANGED calls /\ Current' = Current /\ Call' = Call /\ (Awake' => Awake)
      /\ UNCHANGED session \/ (Waited /\ Awake /\ ~Awake')
  BY <1>0, SessionStays
<1>2. session'.before = session.before
  BY <1>0, <1>1 DEF Waited, Typed, SessionTyped
<1>3. unlogged' = 0 => unlogged = 0
  BY <1>0, NoneAbove, Zenon DEF Counted
<1>4. Live' => Live
  BY <1>1 DEF Live
<1>5. \A c \in Current : Own(c)' => Own(c)
  BY <1>0, <1>1, <1>2, OwnBefore DEF Own
<1>6. \A c : Taped(c) => Taped(c)'
  <2>1. TapeGrows /\ Len(tape'.call) = Len(tape'.end)
    BY <1>0, KnownStep, TapeGrowsStep DEF Known, Rows0, Agreed, Recorded, TapeTyped, Whole
  <2> QED
    BY <1>0, <2>1 DEF TapeGrows, Taped
<1>7. \A c : Waiting(c) => Taped(c)
  BY <1>0 DEF WaitingOpen, OnTape, Taped
<1> SUFFICES ASSUME transport # "pipe", unlogged = 0, Live, NEW c \in Current, Own(c), Muted(c)' PROVE Taped(c)'
  BY <1>0, <1>1, <1>3, <1>4, <1>5 DEF Noted
<1>8. c \in Call
  BY <1>0
<1>9. Muted(c) => Taped(c)'
  BY <1>6 DEF Noted
<1>k. ASSUME reply'[c] = reply[c], Due("pass", c)' => Due("pass", c) PROVE Taped(c)'
  BY <1>9, <1>k DEF Muted
<1>10. ASSUME NEW f \in DOMAIN script, NEW luck \in Lucks, Judge(f, luck) PROVE Taped(c)'
  <2>1. UNCHANGED reply
    BY <1>0, <1>10, JudgeSays
  <2>2. "pass" \notin PassedOps /\ <<"pass", c>> \notin HeldPlan(Of(f))
    BY DEF PassedOps, HeldPlan
  <2>3. Due("pass", c)' => Due("pass", c)
    <3>1. CASE calls[c].frame # f \/ mode # "enforce"
      BY <1>0, <1>8, <1>10, <3>1, JudgeMoves
    <3>2. CASE mode = "enforce" /\ DeafGate /\ calls[c].frame = f
      BY <1>0, <1>8, <1>10, <2>2, <3>2, JudgeMoves
    <3>3. CASE mode = "enforce" /\ ~DeafGate /\ calls[c].frame = f
      <4>1. CASE \A d \in Of(f) : Detail(d) = "inside"
        BY <1>0, <1>8, <1>10, <2>2, <3>3, <4>1, JudgeMoves
      <4>2. CASE ~\A d \in Of(f) : Detail(d) = "inside"
        BY <1>0, <1>8, <1>10, <2>2, <3>3, <4>2, JudgeMoves
      <4> QED
        BY <4>1, <4>2
    <3> QED
      BY <3>1, <3>2, <3>3
  <2> QED
    BY <1>k, <2>1, <2>3
<1>11. ASSUME NEW f \in DOMAIN script, Puts(f) PROVE Taped(c)'
  <2>1. PICK o \in PutOps : Put(f, o)
    BY <1>11, PutsIs
  <2>2. /\ Exactly(o, Of(f)) /\ \A d \in Of(f) : Due(o, d)
        /\ reply'[c] = IF c \in Of(f) THEN PutWord(o) ELSE reply[c]
    BY <1>0, <1>8, <2>1, PutMoves, PutSays
  <2>3. PutWord(o) = "unread" => o = "pass"
    BY DEF PutWord, PutOps
  <2>4. Muted(c)
    BY <1>8, <2>2, <2>3 DEF Muted, Exactly
  <2> QED
    BY <1>9, <2>4
<1>12. ASSUME NEW f \in DOMAIN script, NEW a \in SUBSET CallsOf(f), NEW read \in SUBSET a,
              NEW left \in BOOLEAN, Respond(f, a, read, left)
       PROVE  Taped(c)'
  <2>1. Responded(f, a, read, left) /\ a \subseteq Of(f) /\ UNCHANGED reply
    BY <1>0, <1>12, RespondMoves DEF Respond
  <2>2. CASE calls[c].frame # f
    BY <1>k, <1>8, <2>1, <2>2 DEF Responded
  <2>3. CASE calls[c].frame = f
    <3>1. \A p : /\ Due(p, c)' <=> <<p, c>> \in AnsweredPlan(Of(f), a, read, left)
                 /\ Due(p, c) => p = "answer"
                 /\ c \in Of(f) => Due("answer", c)
      BY <1>8, <2>1, <2>3 DEF Responded
    <3>2. <<"pass", c>> \in AnsweredPlan(Of(f), a, read, left) => c \in a
      BY DEF AnsweredPlan, WatchOps
    <3>3. CASE ~Due("pass", c)'
      BY <1>k, <2>1, <3>3
    <3>4. CASE Due("pass", c)'
      <4>1. Due("answer", c)
        BY <2>1, <3>1, <3>2, <3>4
      <4>2. Awake
        BY <1>0, <4>1 DEF Live, DrainedDone, Done
      <4>3. ~Due("open", c)
        <5>1. "open" # "answer"
          OBVIOUS
        <5> QED
          BY <3>1, <5>1
      <4>4. Waiting(c)
        BY <4>1, <4>2, <4>3 DEF Reach, Attended
      <4> QED
        BY <1>6, <1>7, <4>4
    <3> QED
      BY <3>3, <3>4
  <2> QED
    BY <2>2, <2>3
<1>13. ASSUME NEW d \in Call, NEW read \in BOOLEAN, DownRelay(d, read) PROVE Taped(c)'
  <2>1. /\ UNCHANGED <<transport, mode, calls, script>> /\ \E i \in DOMAIN pending : pending[i] = d
        /\ reply' = [reply EXCEPT ![d] = IF read THEN "relayed" ELSE "unread"]
    BY <1>13 DEF DownRelay, setup
  <2>2. \A p : Due(p, c)' <=> Due(p, c)
    BY <1>0, <1>8, <2>1, NothingMoves
  <2>3. CASE c = d
    <3>1. Waiting(c)
      BY <1>0, <2>1, <2>3 DEF Waiting
    <3> QED
      BY <1>6, <1>7, <3>1
  <2>4. CASE c # d
    BY <1>k, <2>1, <2>2, <2>4
  <2> QED
    BY <2>3, <2>4
<1>14. CASE Rest
  <2>1. Elsewhere
    BY <1>0, <1>14, ElsewhereMoves
  <2> QED
    BY <1>k, <1>8, <2>1 DEF Elsewhere, Shrinks
<1> QED
  BY <1>10, <1>11, <1>12, <1>13, <1>14, NextIs DEF Sends

\* What is the rest of what DeliveredIsRecordedOverHttp needs: of answers that went on unread.
Unheard == Muting /\ Lasting /\ Noted

LEMMA InitUnheard == ASSUME Init PROVE Unheard
<1>1. Call = {} /\ Current = {} /\ Len(tape.end) = 0
  BY DEF Init, Call, Current
<1> QED
  BY <1>1 DEF Unheard, Muting, Lasting, EndsPlainly, Flushed, Recent, Noted

LEMMA NotedSends ==
  ASSUME Known, Noted, NEW n \in Frames, NEW kinds \in [1..n -> Kinds], Send(kinds)
  PROVE  Noted'
<1>0. Recorded /\ Framed /\ Typed /\ Current \subseteq Call
  BY DEF Known, Rows0, Agreed, Recorded, Gated, Begun, Typed, Current
<1>1. /\ \A c \in Current' : c \in Current \/ (c \in New(kinds) /\ phase = "running")
      /\ session'.drained = session.drained /\ UNCHANGED phase
  BY <1>0, SentLate
<1>2. /\ Call' = Call \cup New(kinds)
      /\ \A c \in Call : calls'[c] = calls[c] /\ reply'[c] = reply[c] /\ \A p : Due(p, c)' <=> Due(p, c)
      /\ \A c \in New(kinds) : reply'[c] = "none" /\ \A p : Due(p, c)' <=> p \in ScriptOps
      /\ session'.before = session.before /\ UNCHANGED <<transport, tape, unlogged>>
  BY <1>0, <1>1, SendMoves, SendSays
<1>3. "pass" \notin ScriptOps
  BY DEF ScriptOps, WatchOps
<1> SUFFICES ASSUME transport # "pipe", unlogged = 0, Live, NEW c \in Current', Own(c)', Muted(c)' PROVE Taped(c)'
  BY <1>1, <1>2 DEF Noted, Live, Awake
<1>4. c \in Current
  BY <1>1, <1>2, <1>3 DEF Muted
<1>5. Own(c) /\ Muted(c)
  <2>1. OwnId(c)
    BY <1>0, <1>2, <1>4, OwnBefore DEF Own
  <2> QED
    BY <1>0, <1>2, <1>4, <2>1 DEF Own, Muted
<1>6. Taped(c)
  BY <1>4, <1>5 DEF Noted
<1> QED
  BY <1>2, <1>6 DEF Taped

LEMMA UnheardStep ==
  ASSUME Known, Reach, Unheard, [Next]_vars
  PROVE  Unheard'
<1>0. /\ Owned /\ Recorded /\ Framed /\ Typed /\ Muting /\ Lasting /\ Noted
  BY DEF Unheard, Known, Fitting, Owned, Rows0, Agreed, Recorded, Gated, Begun, Typed
<1>1. Muting'
  BY <1>0, MutingStep
<1>2. CASE Sends
  <2>1. PICK n \in Frames : \E kinds \in [1..n -> Kinds] : Send(kinds)
    BY <1>2 DEF Sends
  <2>2. PICK kinds \in [1..n -> Kinds] : Send(kinds)
    BY <2>1
  <2> QED
    BY <1>0, <1>1, <2>2, LastingSends, NotedSends DEF Unheard
<1>3. CASE Restart
  <2>1. Call' = 1..Len(calls) /\ session'.before = Len(calls) /\ Len(calls) \in Nat
    BY <1>0, <1>3, CallNumbers DEF Restart, Call
  <2>2. Current' = {}
    BY <2>1 DEF Current
  <2> QED
    BY <1>0, <1>1, <1>3, <2>2, LastingRestarts DEF Unheard, Noted
<1>4. CASE UNCHANGED vars
  <2>1. UNCHANGED <<transport, mode, calls, script, session, phase, tape, unlogged, reply>>
    BY <1>4 DEF vars
  <2>2. Current' = Current /\ Live' = Live
    BY <2>1, SameCurrent DEF Live, Awake
  <2>3. \A c \in Current : (Own(c)' => Own(c)) /\ (Muted(c)' => Muted(c)) /\ (Taped(c) => Taped(c)')
    <3>1. \A c \in Call : \A p : Due(p, c)' <=> Due(p, c)
      BY <1>0, <2>1, NothingMoves
    <3> QED
      BY <2>1, <3>1, SameCurrent DEF Own, OwnId, Muted, Taped, Current
  <2>4. Noted'
    BY <1>0, <2>1, <2>2, <2>3 DEF Noted
  <2>5. EndsPlainly' /\ Flushed' /\ Recent'
    BY <1>0, <2>1, <2>2 DEF Lasting, EndsPlainly, Flushed, Recent
  <2> QED
    BY <1>1, <2>4, <2>5 DEF Unheard, Lasting
<1>5. CASE Next /\ ~Sends /\ ~Restart
  BY <1>0, <1>1, <1>5, LastingMoves, NotedMoves DEF Unheard
<1> QED
  BY <1>2, <1>3, <1>4, <1>5

\* What has to be known of a session to say that its answers were recorded: which call each
\* answer closes, that the call an answer comes for is open, that a given answer is being
\* paired, is held by the downstream thread, or is on the tape, and that the call of an
\* answer that went on unread is on the tape and no other answer ends it.
THEOREM SpecDelivered == Spec => [](DeliveredInv /\ Unheard)
<1>1. Init => DeliveredInv /\ Unheard
  BY InitDelivered, InitUnheard
<1>2. DeliveredInv /\ Unheard /\ [Next]_vars => DeliveredInv' /\ Unheard'
  BY DeliveredStep, UnheardStep DEF DeliveredInv
<1> QED
  BY <1>1, <1>2, PTL DEF Spec

\* When a session over http was closed behind it, an answer the agent has is on the tape as
\* the end of its call where the recorder could read it, and ends it "unanswered" where not.
THEOREM DeliveredHolds == Spec => []DeliveredIsRecordedOverHttp
<1>1. DeliveredInv /\ Unheard => DeliveredIsRecordedOverHttp
  <2> SUFFICES ASSUME DeliveredInv, Unheard, transport # "pipe", phase = "ended", session.drained, unlogged = 0,
                      NEW c \in Current, OwnId(c)
               PROVE  /\ reply[c] = "relayed" => Ended(c, By(c))
                      /\ reply[c] = "unread" => Ended(c, None("unanswered"))
    BY DEF DeliveredIsRecordedOverHttp
  <2>1. Recorded /\ Typed /\ DrainedDone /\ Whole(tape) /\ TapeTyped /\ c \in Call /\ Paired /\ Live
    BY DEF DeliveredInv, Known, Fitting, Owned, Rows0, Agreed, Recorded, Gated, Begun, TapeTyped, Current, Live
  <2>2. ~Due("pair", c) /\ down = 0 /\ c # 0 /\ c > session.before
    BY <2>1, CallNumbers DEF DrainedDone, Done, Current
  <2>3. DOMAIN tape.call = 1..Len(tape.end) /\ Len(tape.call) = Len(tape.end)
    BY <2>1 DEF Whole, Tapes
  <2>4. ASSUME reply[c] = "relayed" PROVE Ended(c, By(c))
    <3>1. Settled(c)
      BY <2>1, <2>4 DEF DeliveredInv, Told, Given
    <3>2. EndedAs(c, Its(c))
      BY <2>2, <3>1 DEF Settled
    <3>3. By(c) = Its(c)
      BY <2>4 DEF By, Its
    <3> QED
      BY <2>3, <3>2, <3>3 DEF EndedAs, Ended
  <2>5. ASSUME reply[c] = "unread" PROVE Ended(c, None("unanswered"))
    <3>1. Muted(c) /\ calls[c].id # BadId /\ ~Coming(c)
      BY <2>1, <2>5 DEF Unheard, Muting, Quieted, Muted
    <3>2. PICK k \in 1..Len(tape.end) : tape.call[k] = c
      BY <2>1, <2>3, <3>1 DEF Unheard, Noted, Own, Taped
    <3>3. tape.end[k] # Open
      BY <3>2 DEF Unheard, Lasting, Flushed
    <3>4. tape.end[k].by = 0
      <4> SUFFICES ASSUME tape.end[k].by # 0 PROVE FALSE
        OBVIOUS
      <4>1. tape.end[k].by \in Call /\ tape.end[k].by > session.before
        BY <2>1, <2>2, <3>2 DEF TapeTyped, Unheard, Lasting, Recent
      <4>2. calls[tape.end[k].by].id = calls[c].id
        BY <2>1, <3>2 DEF Paired, PairedAt
      <4>3. tape.end[k].by = c
        BY <4>1, <4>2 DEF OwnId
      <4> QED
        BY <3>1, <4>3 DEF Coming, Closed
    <3>5. tape.end[k] = None("unanswered")
      BY <3>1, <3>2, <3>3, <3>4 DEF Unheard, Lasting, EndsPlainly
    <3> QED
      BY <2>3, <3>2, <3>5 DEF Ended
  <2> QED
    BY <2>4, <2>5
<1> QED
  BY <1>1, SpecDelivered, PTL
===============================================================================
