------------------------------ MODULE SumProofs ------------------------------
(***************************************************************************)
(* Sums of numbers over finite sets: SumFunctionOnSet of the community     *)
(* modules, which takes one element after the other, whichever CHOOSE      *)
(* gives.  That its recursive definition has a solution, and that the      *)
(* order does not matter, is shown by taking a smallest set for which it   *)
(* were not so.  And the places of the elements of a finite set in an      *)
(* order: each is taken, by one of them.                                   *)
(***************************************************************************)
EXTENDS Integers, Functions, FiniteSetTheorems, TLAPS

(* A smallest number of a set of them.                                     *)
LEMMA SmallestNumber ==
  ASSUME NEW T, T \subseteq Nat, T # {}
  PROVE  \E n \in T : \A m \in T : n <= m
<1> DEFINE R == OpToRel(<, Nat)
<1>1. IsWellFoundedOn(R, Nat)
  BY NatLessThanWellFounded, Zenon
<1>2. \A x, y \in Nat : x < y => <<x, y>> \in R
  BY Zenon DEF OpToRel
<1> HIDE DEF R
<1>3. \E x \in T : \A y \in T : ~ (<<y, x>> \in R)
  BY <1>1, WFMin
<1>4. \E x \in T : \A y \in T : ~ (y < x)
  BY <1>2, <1>3, Zenon
<1> QED
  BY <1>4

(* The element that is taken first.                                        *)
First(S) == CHOOSE x \in S : TRUE

(* A table of the sums of the subsets of S, by the recursion of the fold.  *)
Table(f, S, g) ==
  g = [s \in SUBSET S |-> IF s = {} THEN 0 ELSE f[First(s)] + g[s \ {First(s)}]]

LEMMA SumIsTable ==
  ASSUME NEW f, NEW S
  PROVE  SumFunctionOnSet(f, S) = (CHOOSE g : Table(f, S, g))[S]
BY DEF SumFunctionOnSet, FoldFunctionOnSet, MapThenFoldSet, Table, First

LEMMA FirstIn ==
  ASSUME NEW S, S # {}
  PROVE  First(S) \in S
BY DEF First

(* Of the subsets of a finite set that are wrong in some way, one has no   *)
(* smaller one within it that is.                                          *)
LEMMA SmallestSubset ==
  ASSUME NEW S, IsFiniteSet(S), NEW Wrong \in SUBSET (SUBSET S), Wrong # {}
  PROVE  \E s \in Wrong : \A t \in SUBSET s : t # s => t \notin Wrong
<1> DEFINE sizes == {Cardinality(s) : s \in Wrong}
<1>1. \A s \in SUBSET S : IsFiniteSet(s) /\ Cardinality(s) \in Nat
  BY FS_Subset, FS_CardinalityType
<1>2. sizes \subseteq Nat /\ sizes # {}
  BY <1>1
<1>3. PICK n \in sizes : \A m \in sizes : n <= m
  <2> HIDE DEF sizes
  <2> QED
    BY <1>2, SmallestNumber
<1>4. PICK s \in Wrong : n = Cardinality(s)
  OBVIOUS
<1>5. ASSUME NEW t \in SUBSET s, t # s
      PROVE  t \notin Wrong
  <2>1. IsFiniteSet(s) /\ Cardinality(t) \in Nat /\ Cardinality(s) \in Nat
    BY <1>1
  <2>2. Cardinality(t) <= Cardinality(s) /\ (Cardinality(s) = Cardinality(t) => s = t)
    BY <2>1, FS_Subset
  <2>3. t \in Wrong => n <= Cardinality(t)
    BY <1>3
  <2> QED
    BY <1>4, <1>5, <2>1, <2>2, <2>3
<1> QED
  BY <1>5

LEMMA TableOf ==
  ASSUME NEW f, NEW S, NEW g, Table(f, S, g), NEW s \in SUBSET S
  PROVE  g[s] = IF s = {} THEN 0 ELSE f[First(s)] + g[s \ {First(s)}]
<1>1. g = [t \in SUBSET S |-> IF t = {} THEN 0 ELSE f[First(t)] + g[t \ {First(t)}]]
  BY DEF Table
<1> HIDE DEF Table
<1> QED
  BY <1>1, Zenon

(* Two tables give a set that both have the same sum.                      *)
LEMMA TablesAgree ==
  ASSUME NEW f, NEW A, NEW B, NEW g, NEW h, Table(f, A, g), Table(f, B, h),
         NEW S \in SUBSET A, S \in SUBSET B, IsFiniteSet(S)
  PROVE  g[S] = h[S]
<1> DEFINE Wrong == {s \in SUBSET S : g[s] # h[s]}
<1>1. SUFFICES ASSUME Wrong # {} PROVE FALSE
  OBVIOUS
<1>2. PICK s \in Wrong : \A t \in SUBSET s : t # s => t \notin Wrong
  <2>1. Wrong \in SUBSET (SUBSET S)
    OBVIOUS
  <2> HIDE DEF Wrong
  <2> QED
    BY <1>1, <2>1, SmallestSubset
<1>3. s \in SUBSET A /\ s \in SUBSET B /\ s \in SUBSET S /\ g[s] # h[s]
  OBVIOUS
<1>4. /\ g[s] = IF s = {} THEN 0 ELSE f[First(s)] + g[s \ {First(s)}]
      /\ h[s] = IF s = {} THEN 0 ELSE f[First(s)] + h[s \ {First(s)}]
  <2>1. g[s] = IF s = {} THEN 0 ELSE f[First(s)] + g[s \ {First(s)}]
    BY <1>3, TableOf
  <2>2. h[s] = IF s = {} THEN 0 ELSE f[First(s)] + h[s \ {First(s)}]
    BY <1>3, TableOf
  <2> QED
    BY <2>1, <2>2
<1>5. s # {}
  BY <1>3, <1>4
<1>6. First(s) \in s
  BY <1>5, FirstIn
<1>7. g[s \ {First(s)}] = h[s \ {First(s)}]
  BY <1>2, <1>3, <1>6
<1> QED
  BY <1>3, <1>4, <1>5, <1>7

(* A finite set has a table.                                               *)
LEMMA TableExists ==
  ASSUME NEW f, NEW S, IsFiniteSet(S)
  PROVE  \E g : Table(f, S, g)
<1> DEFINE Wrong == {s \in SUBSET S : ~ \E g : Table(f, s, g)}
<1>1. SUFFICES ASSUME Wrong # {} PROVE FALSE
  OBVIOUS
<1>2. PICK W \in Wrong : \A t \in SUBSET W : t # W => t \notin Wrong
  <2>1. Wrong \in SUBSET (SUBSET S)
    OBVIOUS
  <2> HIDE DEF Wrong
  <2> QED
    BY <1>1, <2>1, SmallestSubset
<1>3. W \in SUBSET S /\ ~ \E g : Table(f, W, g)
  OBVIOUS
<1>4. \A t \in SUBSET W : IsFiniteSet(t)
  BY <1>3, FS_Subset
<1> DEFINE G(t) == CHOOSE g : Table(f, t, g)
           rest(s) == s \ {First(s)}
           all == [s \in SUBSET W |->
                     IF s = {} THEN 0 ELSE f[First(s)] + G(rest(s))[rest(s)]]
<1>5. ASSUME NEW t \in SUBSET W, t # W
      PROVE  Table(f, t, G(t))
  <2>1. \E g : Table(f, t, g)
    BY <1>2, <1>3, <1>5
  <2> QED
    BY <2>1
<1>6. ASSUME NEW s \in SUBSET W, s # {}
      PROVE  all[rest(s)] = G(rest(s))[rest(s)]
  <2>1. First(s) \in s
    BY <1>6, FirstIn
  <2> DEFINE t == rest(s)
  <2>2. t \in SUBSET W /\ t # W
    BY <2>1
  <2>3. Table(f, t, G(t))
    BY <1>5, <2>2
  <2> HIDE DEF t, G
  <2>4. G(t)[t] = IF t = {} THEN 0 ELSE f[First(t)] + G(t)[rest(t)]
    BY <2>3, TableOf
  <2>5. all[t] = IF t = {} THEN 0 ELSE f[First(t)] + G(rest(t))[rest(t)]
    BY <2>2
  <2>6. CASE t = {}
    BY <2>4, <2>5, <2>6 DEF t
  <2>7. CASE t # {}
    <3>1. First(t) \in t
      BY <2>7, FirstIn
    <3>2. rest(t) \in SUBSET W /\ rest(t) # W /\ rest(t) \in SUBSET t
      BY <2>2, <3>1
    <3>3. Table(f, rest(t), G(rest(t)))
      BY <1>5, <3>2
    <3>4. IsFiniteSet(rest(t))
      BY <1>4, <3>2
    <3> HIDE DEF rest
    <3>5. G(t)[rest(t)] = G(rest(t))[rest(t)]
      BY <2>3, <3>2, <3>3, <3>4, TablesAgree
    <3> QED
      BY <2>4, <2>5, <2>7, <3>5 DEF t
  <2> QED
    BY <2>6, <2>7
<1>7. all = [s \in SUBSET W |->
               IF s = {} THEN 0 ELSE f[First(s)] + all[s \ {First(s)}]]
  <2> HIDE DEF G
  <2> QED
    BY <1>6
<1>8. Table(f, W, all)
  <2> HIDE DEF all
  <2> QED
    BY <1>7 DEF Table
<1> QED
  BY <1>3, <1>8

(* The recursion that the definition stands for.                           *)
LEMMA SumRecursion ==
  ASSUME NEW f, NEW S, IsFiniteSet(S)
  PROVE  SumFunctionOnSet(f, S) =
           IF S = {} THEN 0
           ELSE f[First(S)] + SumFunctionOnSet(f, S \ {First(S)})
<1> DEFINE G(s) == CHOOSE g : Table(f, s, g)
           R == S \ {First(S)}
<1>1. IsFiniteSet(R)
  BY FS_Subset
<1>2. Table(f, S, G(S)) /\ Table(f, R, G(R))
  BY <1>1, TableExists
<1>3. SumFunctionOnSet(f, S) = G(S)[S] /\ SumFunctionOnSet(f, R) = G(R)[R]
  BY SumIsTable
<1> HIDE DEF G
<1>4. G(S)[S] = IF S = {} THEN 0 ELSE f[First(S)] + G(S)[R]
  <2>1. PICK g : g = G(S)
    OBVIOUS
  <2>2. Table(f, S, g) /\ S \in SUBSET S
    BY <1>2, <2>1
  <2>3. g[S] = IF S = {} THEN 0 ELSE f[First(S)] + g[S \ {First(S)}]
    BY <2>2, TableOf
  <2> QED
    BY <2>1, <2>3
<1>5. G(S)[R] = G(R)[R]
  BY <1>1, <1>2, TablesAgree
<1> QED
  BY <1>3, <1>4, <1>5

LEMMA SumEmpty ==
  ASSUME NEW f
  PROVE  SumFunctionOnSet(f, {}) = 0
BY SumRecursion, FS_EmptySet

LEMMA SumNat ==
  ASSUME NEW f, NEW S, IsFiniteSet(S), \A x \in S : f[x] \in Nat
  PROVE  SumFunctionOnSet(f, S) \in Nat
<1> DEFINE Wrong == {s \in SUBSET S : SumFunctionOnSet(f, s) \notin Nat}
<1>1. SUFFICES ASSUME Wrong # {} PROVE FALSE
  OBVIOUS
<1>2. PICK s \in Wrong : \A t \in SUBSET s : t # s => t \notin Wrong
  <2>1. Wrong \in SUBSET (SUBSET S)
    OBVIOUS
  <2> HIDE DEF Wrong
  <2> QED
    BY <1>1, <2>1, SmallestSubset
<1>3. s \in SUBSET S /\ SumFunctionOnSet(f, s) \notin Nat
  OBVIOUS
<1>4. IsFiniteSet(s)
  BY <1>3, FS_Subset
<1>5. SumFunctionOnSet(f, s) = IF s = {} THEN 0
        ELSE f[First(s)] + SumFunctionOnSet(f, s \ {First(s)})
  BY <1>4, SumRecursion
<1>6. s # {}
  BY <1>3, <1>5
<1>7. First(s) \in s
  BY <1>6, FirstIn
<1>8. SumFunctionOnSet(f, s \ {First(s)}) \in Nat
  BY <1>2, <1>3, <1>7
<1> QED
  BY <1>3, <1>5, <1>6, <1>7, <1>8

(* Any element may be taken out of the sum first.                          *)
LEMMA SumWithout ==
  ASSUME NEW f, NEW S, IsFiniteSet(S), \A x \in S : f[x] \in Nat, NEW x \in S
  PROVE  SumFunctionOnSet(f, S) = f[x] + SumFunctionOnSet(f, S \ {x})
<1> DEFINE Good(s) == \A y \in s :
             SumFunctionOnSet(f, s) = f[y] + SumFunctionOnSet(f, s \ {y})
           Wrong == {s \in SUBSET S : ~ Good(s)}
<1>1. SUFFICES ASSUME Wrong # {} PROVE FALSE
  OBVIOUS
<1>2. PICK s \in Wrong : \A t \in SUBSET s : t # s => t \notin Wrong
  <2>1. Wrong \in SUBSET (SUBSET S)
    OBVIOUS
  <2> HIDE DEF Wrong
  <2> QED
    BY <1>1, <2>1, SmallestSubset
<1>3. s \in SUBSET S /\ ~ Good(s)
  OBVIOUS
<1>4. PICK y \in s : SumFunctionOnSet(f, s) # f[y] + SumFunctionOnSet(f, s \ {y})
  BY <1>3
<1>5. \A t \in SUBSET s : IsFiniteSet(t)
  BY <1>3, FS_Subset
<1> DEFINE z == First(s)
<1>6. z \in s /\ SumFunctionOnSet(f, s) = f[z] + SumFunctionOnSet(f, s \ {z})
  <2>1. s # {}
    BY <1>4
  <2> QED
    BY <1>5, <2>1, SumRecursion, FirstIn
<1> HIDE DEF z
<1>7. z # y
  BY <1>4, <1>6
<1>8. Good(s \ {z}) /\ Good(s \ {y})
  <2> HIDE DEF Good
  <2> QED
    BY <1>2, <1>3, <1>6
<1>9. /\ SumFunctionOnSet(f, s \ {z}) = f[y] + SumFunctionOnSet(f, (s \ {z}) \ {y})
      /\ SumFunctionOnSet(f, s \ {y}) = f[z] + SumFunctionOnSet(f, (s \ {y}) \ {z})
  BY <1>6, <1>7, <1>8
<1>10. (s \ {z}) \ {y} = (s \ {y}) \ {z}
  OBVIOUS
<1>11. SumFunctionOnSet(f, (s \ {y}) \ {z}) \in Nat
  BY <1>3, <1>5, SumNat
<1>12. f[y] \in Nat /\ f[z] \in Nat
  BY <1>3, <1>6
<1> HIDE DEF Wrong, Good
<1> QED
  BY <1>4, <1>6, <1>9, <1>10, <1>11, <1>12

LEMMA SumAdd ==
  ASSUME NEW f, NEW S, IsFiniteSet(S), NEW x, x \notin S, f[x] \in Nat,
         \A y \in S : f[y] \in Nat
  PROVE  SumFunctionOnSet(f, S \cup {x}) = SumFunctionOnSet(f, S) + f[x]
<1>1. IsFiniteSet(S \cup {x})
  BY FS_AddElement
<1>2. (S \cup {x}) \ {x} = S
  OBVIOUS
<1>3. SumFunctionOnSet(f, S \cup {x}) = f[x] + SumFunctionOnSet(f, S)
  BY <1>1, <1>2, SumWithout
<1>4. SumFunctionOnSet(f, S) \in Nat
  BY SumNat
<1> QED
  BY <1>3, <1>4

LEMMA SumEqual ==
  ASSUME NEW f, NEW g, NEW S, IsFiniteSet(S), \A x \in S : f[x] = g[x]
  PROVE  SumFunctionOnSet(f, S) = SumFunctionOnSet(g, S)
<1> DEFINE Wrong == {s \in SUBSET S : SumFunctionOnSet(f, s) # SumFunctionOnSet(g, s)}
<1>1. SUFFICES ASSUME Wrong # {} PROVE FALSE
  OBVIOUS
<1>2. PICK s \in Wrong : \A t \in SUBSET s : t # s => t \notin Wrong
  <2>1. Wrong \in SUBSET (SUBSET S)
    OBVIOUS
  <2> HIDE DEF Wrong
  <2> QED
    BY <1>1, <2>1, SmallestSubset
<1>3. s \in SUBSET S /\ SumFunctionOnSet(f, s) # SumFunctionOnSet(g, s)
  OBVIOUS
<1>4. IsFiniteSet(s)
  BY <1>3, FS_Subset
<1>5. /\ SumFunctionOnSet(f, s) = IF s = {} THEN 0
           ELSE f[First(s)] + SumFunctionOnSet(f, s \ {First(s)})
      /\ SumFunctionOnSet(g, s) = IF s = {} THEN 0
           ELSE g[First(s)] + SumFunctionOnSet(g, s \ {First(s)})
  BY <1>4, SumRecursion
<1>6. s # {}
  BY <1>3, <1>5
<1>7. First(s) \in s
  BY <1>6, FirstIn
<1>8. SumFunctionOnSet(f, s \ {First(s)}) = SumFunctionOnSet(g, s \ {First(s)})
  BY <1>2, <1>3, <1>7
<1> QED
  BY <1>3, <1>5, <1>6, <1>7, <1>8

(* Two sets that share nothing.                                            *)
LEMMA SumSplit ==
  ASSUME NEW f, NEW A, NEW B, IsFiniteSet(A), IsFiniteSet(B), A \cap B = {},
         \A x \in A \cup B : f[x] \in Nat
  PROVE  SumFunctionOnSet(f, A \cup B) = SumFunctionOnSet(f, A) + SumFunctionOnSet(f, B)
<1> DEFINE Wrong == {s \in SUBSET B :
             SumFunctionOnSet(f, A \cup s) # SumFunctionOnSet(f, A) + SumFunctionOnSet(f, s)}
<1>1. SUFFICES ASSUME Wrong # {} PROVE FALSE
  OBVIOUS
<1>2. PICK s \in Wrong : \A t \in SUBSET s : t # s => t \notin Wrong
  <2>1. Wrong \in SUBSET (SUBSET B)
    OBVIOUS
  <2> HIDE DEF Wrong
  <2> QED
    BY <1>1, <2>1, SmallestSubset
<1>3. /\ s \in SUBSET B
      /\ SumFunctionOnSet(f, A \cup s) # SumFunctionOnSet(f, A) + SumFunctionOnSet(f, s)
  OBVIOUS
<1>4. IsFiniteSet(s) /\ SumFunctionOnSet(f, A) \in Nat
  BY <1>3, FS_Subset, SumNat
<1>5. PICK x \in s : TRUE
  <2>1. CASE s = {}
    <3>1. A \cup s = A
      BY <2>1
    <3> QED
      BY <1>3, <1>4, <2>1, <3>1, SumEmpty
  <2> QED
    BY <2>1
<1> DEFINE rest == s \ {x}
<1>6. /\ rest \in SUBSET s /\ rest # s /\ rest \in SUBSET B
      /\ IsFiniteSet(rest) /\ IsFiniteSet(A \cup rest)
      /\ x \notin rest /\ x \notin A \cup rest
      /\ s = rest \cup {x} /\ A \cup s = (A \cup rest) \cup {x}
  <2>1. rest \in SUBSET s /\ rest # s /\ x \notin rest /\ s = rest \cup {x}
    OBVIOUS
  <2>2. IsFiniteSet(rest)
    BY <1>4, FS_Subset
  <2>3. IsFiniteSet(A \cup rest)
    BY <2>2, FS_Union
  <2> QED
    BY <1>3, <2>1, <2>2, <2>3
<1>7. f[x] \in Nat /\ \A y \in A \cup rest : f[y] \in Nat
  BY <1>3
<1>8. SumFunctionOnSet(f, A \cup rest) = SumFunctionOnSet(f, A) + SumFunctionOnSet(f, rest)
  BY <1>2, <1>6
<1> HIDE DEF Wrong
<1>9. SumFunctionOnSet(f, s) = SumFunctionOnSet(f, rest) + f[x]
  <2> HIDE DEF rest
  <2> QED
    BY <1>6, <1>7, SumAdd
<1>10. SumFunctionOnSet(f, A \cup s) = SumFunctionOnSet(f, A \cup rest) + f[x]
  <2> HIDE DEF rest
  <2> QED
    BY <1>6, <1>7, SumAdd
<1>11. SumFunctionOnSet(f, rest) \in Nat
  <2> HIDE DEF rest
  <2> QED
    BY <1>6, <1>7, SumNat
<1> HIDE DEF rest
<1> QED
  BY <1>3, <1>4, <1>7, <1>8, <1>9, <1>10, <1>11

(* A part of a set has no more than the set.                               *)
LEMMA SumWithin ==
  ASSUME NEW f, NEW S, IsFiniteSet(S), \A x \in S : f[x] \in Nat, NEW T \in SUBSET S
  PROVE  SumFunctionOnSet(f, T) <= SumFunctionOnSet(f, S)
<1>1. IsFiniteSet(T) /\ IsFiniteSet(S \ T) /\ T \cap (S \ T) = {} /\ S = T \cup (S \ T)
  BY FS_Subset
<1>2. SumFunctionOnSet(f, S) = SumFunctionOnSet(f, T) + SumFunctionOnSet(f, S \ T)
  BY <1>1, SumSplit
<1>3. SumFunctionOnSet(f, T) \in Nat /\ SumFunctionOnSet(f, S \ T) \in Nat
  BY <1>1, SumNat
<1> QED
  BY <1>2, <1>3

(* What is nothing everywhere adds up to nothing.                          *)
LEMMA SumNothing ==
  ASSUME NEW f, NEW S, IsFiniteSet(S), \A x \in S : f[x] = 0
  PROVE  SumFunctionOnSet(f, S) = 0
<1> DEFINE Wrong == {s \in SUBSET S : SumFunctionOnSet(f, s) # 0}
<1>1. SUFFICES ASSUME Wrong # {} PROVE FALSE
  OBVIOUS
<1>2. PICK s \in Wrong : \A t \in SUBSET s : t # s => t \notin Wrong
  <2>1. Wrong \in SUBSET (SUBSET S)
    OBVIOUS
  <2> HIDE DEF Wrong
  <2> QED
    BY <1>1, <2>1, SmallestSubset
<1>3. s \in SUBSET S /\ SumFunctionOnSet(f, s) # 0
  OBVIOUS
<1>4. IsFiniteSet(s)
  BY <1>3, FS_Subset
<1>5. SumFunctionOnSet(f, s) = IF s = {} THEN 0
        ELSE f[First(s)] + SumFunctionOnSet(f, s \ {First(s)})
  BY <1>4, SumRecursion
<1>6. s # {}
  BY <1>3, <1>5
<1>7. First(s) \in s
  BY <1>6, FirstIn
<1>8. SumFunctionOnSet(f, s \ {First(s)}) = 0
  BY <1>2, <1>3, <1>7
<1> QED
  BY <1>3, <1>5, <1>6, <1>7, <1>8

(* What one set sums up to, another does that has as much for each element. *)
LEMMA SumInjected ==
  ASSUME NEW A, NEW B, IsFiniteSet(A), IsFiniteSet(B), NEW f, NEW g, NEW p,
         \A x \in A : p[x] \in B,
         \A x, y \in A : p[x] = p[y] => x = y,
         \A x \in A : f[x] \in Nat,
         \A y \in B : g[y] \in Nat,
         \A x \in A : f[x] <= g[p[x]]
  PROVE  SumFunctionOnSet(f, A) <= SumFunctionOnSet(g, B)
<1> DEFINE To(s) == {p[x] : x \in s}
           Wrong == {s \in SUBSET A : ~(SumFunctionOnSet(f, s) <= SumFunctionOnSet(g, To(s)))}
<1>1. ASSUME Wrong # {} PROVE FALSE
  <2>1. PICK s \in Wrong : \A t \in SUBSET s : t # s => t \notin Wrong
    <3>1. Wrong \in SUBSET (SUBSET A)
      OBVIOUS
    <3> HIDE DEF Wrong
    <3> QED  BY <1>1, <3>1, SmallestSubset
  <2>2. s \in SUBSET A /\ ~(SumFunctionOnSet(f, s) <= SumFunctionOnSet(g, To(s)))
    OBVIOUS
  <2>3. IsFiniteSet(s)
    BY <2>2, FS_Subset
  <2>4. s # {}
    <3>1. s = {} => To(s) = {}
      OBVIOUS
    <3> HIDE DEF To
    <3> QED  BY <2>2, <3>1, SumEmpty
  <2>5. PICK x \in s : TRUE
    BY <2>4
  <2>6. PICK r : r = s \ {x}
    OBVIOUS
  <2>7. r \in SUBSET s /\ r # s /\ r \in SUBSET A /\ x \in A
    BY <2>2, <2>5, <2>6
  <2>8. SumFunctionOnSet(f, r) <= SumFunctionOnSet(g, To(r))
    BY <2>1, <2>7
  <2>9. SumFunctionOnSet(f, s) = f[x] + SumFunctionOnSet(f, r)
    <3>1. \A y \in s : f[y] \in Nat
      BY <2>2
    <3> QED  BY <2>3, <2>5, <2>6, <3>1, SumWithout
  <2>10. /\ To(s) = To(r) \cup {p[x]} /\ p[x] \notin To(r)
         /\ To(r) \subseteq B /\ p[x] \in B
    BY <2>2, <2>5, <2>6
  <2>11. IsFiniteSet(To(r)) /\ IsFiniteSet(r)
    <3> HIDE DEF To
    <3> QED  BY <2>3, <2>7, <2>10, FS_Subset
  <2>12. SumFunctionOnSet(g, To(s)) = SumFunctionOnSet(g, To(r)) + g[p[x]]
    <3>1. \A y \in To(r) : g[y] \in Nat
      BY <2>10
    <3>2. g[p[x]] \in Nat
      BY <2>10
    <3> HIDE DEF To
    <3> QED  BY <2>10, <2>11, <3>1, <3>2, SumAdd
  <2>13. SumFunctionOnSet(f, r) \in Nat /\ SumFunctionOnSet(g, To(r)) \in Nat
    <3>1. (\A y \in r : f[y] \in Nat) /\ (\A y \in To(r) : g[y] \in Nat)
      BY <2>7, <2>10
    <3> HIDE DEF To
    <3> QED  BY <2>11, <3>1, SumNat
  <2>14. f[x] <= g[p[x]] /\ f[x] \in Nat /\ g[p[x]] \in Nat
    BY <2>7
  <2> HIDE DEF To
  <2> QED  BY <2>2, <2>8, <2>9, <2>12, <2>13, <2>14
<1>2. SumFunctionOnSet(f, A) <= SumFunctionOnSet(g, To(A))
  BY <1>1
<1>3. To(A) \in SUBSET B
  OBVIOUS
<1>4. SumFunctionOnSet(g, To(A)) <= SumFunctionOnSet(g, B)
  <2> HIDE DEF To
  <2> QED  BY <1>3, SumWithin
<1>5. /\ SumFunctionOnSet(f, A) \in Nat /\ SumFunctionOnSet(g, To(A)) \in Nat
      /\ SumFunctionOnSet(g, B) \in Nat
  <2>1. IsFiniteSet(To(A)) /\ \A y \in To(A) : g[y] \in Nat
    <3>1. \A y \in To(A) : g[y] \in Nat
      OBVIOUS
    <3> HIDE DEF To
    <3> QED  BY <1>3, <3>1, FS_Subset
  <2> HIDE DEF To
  <2> QED  BY <2>1, SumNat
<1> HIDE DEF To
<1> QED  BY <1>2, <1>4, <1>5

(* The place of an element in a set that R orders: how many come first.    *)
PlaceIn(R, S, x) == Cardinality({y \in S : <<y, x>> \in R})

Orders(R, S) ==
  /\ \A x \in S : <<x, x>> \notin R
  /\ \A x, y, z \in S : <<x, y>> \in R /\ <<y, z>> \in R => <<x, z>> \in R
  /\ \A x, y \in S : x # y => <<x, y>> \in R \/ <<y, x>> \in R

(* Each place is taken, by one element.                                    *)
LEMMA PlacesTaken ==
  ASSUME NEW S, IsFiniteSet(S), NEW R, Orders(R, S)
  PROVE  /\ Cardinality(S) \in Nat
         /\ \A x \in S : PlaceIn(R, S, x) \in 0 .. Cardinality(S) - 1
         /\ \A x, y \in S : <<x, y>> \in R => PlaceIn(R, S, x) < PlaceIn(R, S, y)
         /\ \A x, y \in S : PlaceIn(R, S, x) = PlaceIn(R, S, y) => x = y
         /\ \A k \in 0 .. Cardinality(S) - 1 : \E x \in S : PlaceIn(R, S, x) = k
<1> DEFINE size == Cardinality(S)
           place == [x \in S |-> PlaceIn(R, S, x)]
<1>1. size \in Nat
  BY FS_CardinalityType
<1>2. ASSUME NEW x \in S PROVE PlaceIn(R, S, x) \in 0 .. size - 1
  <2> DEFINE T == {y \in S : <<y, x>> \in R}
  <2>1. T \in SUBSET S /\ T # S
    BY <1>2 DEF Orders
  <2>2. IsFiniteSet(T) /\ Cardinality(T) <= size /\ Cardinality(T) # size
    <3> HIDE DEF T
    <3> QED  BY <2>1, FS_Subset
  <2>3. Cardinality(T) \in Nat
    <3> HIDE DEF T
    <3> QED  BY <2>2, FS_CardinalityType
  <2> QED  BY <2>2, <2>3, <1>1 DEF PlaceIn
<1>3. ASSUME NEW x \in S, NEW y \in S, <<x, y>> \in R
      PROVE  PlaceIn(R, S, x) < PlaceIn(R, S, y)
  <2> DEFINE T == {z \in S : <<z, x>> \in R}
             U == {z \in S : <<z, y>> \in R}
  <2>1. T \in SUBSET U /\ x \in U /\ x \notin T
    BY <1>3 DEF Orders
  <2>2. U \in SUBSET S
    OBVIOUS
  <2>3. IsFiniteSet(U)
    <3> HIDE DEF U
    <3> QED  BY <2>2, FS_Subset
  <2>4. IsFiniteSet(T) /\ Cardinality(T) <= Cardinality(U) /\ Cardinality(T) # Cardinality(U)
    <3> HIDE DEF T, U
    <3> QED  BY <2>1, <2>3, FS_Subset
  <2>5. Cardinality(T) \in Nat /\ Cardinality(U) \in Nat
    <3> HIDE DEF T, U
    <3> QED  BY <2>3, <2>4, FS_CardinalityType
  <2> QED  BY <2>4, <2>5 DEF PlaceIn
<1>4. ASSUME NEW x \in S, NEW y \in S, PlaceIn(R, S, x) = PlaceIn(R, S, y) PROVE x = y
  <2>1. PlaceIn(R, S, x) \in Int
    BY <1>2
  <2>2. <<x, y>> \notin R /\ <<y, x>> \notin R
    BY <2>1, <1>3, <1>4
  <2> QED  BY <2>2 DEF Orders
<1>5. place \in Injection(S, 0 .. size - 1)
  <2>1. place \in [S -> 0 .. size - 1]
    BY <1>2
  <2>2. \A x, y \in S : place[x] = place[y] => x = y
    BY <1>4
  <2> HIDE DEF place
  <2> QED  BY <2>1, <2>2 DEF Injection, IsInjective
<1>6. IsFiniteSet(0 .. size - 1) /\ Cardinality(0 .. size - 1) = size
  <2> HIDE DEF size
  <2>1. 0 \in Int /\ size - 1 \in Int
    BY <1>1
  <2>2. IsFiniteSet(0 .. size - 1)
        /\ Cardinality(0 .. size - 1) = IF 0 > size - 1 THEN 0 ELSE (size - 1) - 0 + 1
    BY <2>1, FS_Interval
  <2> QED  BY <2>2, <1>1
<1>7. place \in Surjection(S, 0 .. size - 1)
  <2> HIDE DEF place
  <2> QED  BY <1>5, <1>6, FS_Injection
<1>8. \A k \in 0 .. size - 1 : \E x \in S : place[x] = k
  <2> HIDE DEF place
  <2> QED  BY <1>7 DEF Surjection
<1>9. \A k \in 0 .. size - 1 : \E x \in S : PlaceIn(R, S, x) = k
  BY <1>8
<1> QED  BY <1>1, <1>2, <1>3, <1>4, <1>9

LEMMA PlacesApart ==
  ASSUME NEW S, IsFiniteSet(S), NEW R, Orders(R, S), NEW x \in S, NEW y \in S,
         PlaceIn(R, S, x) = PlaceIn(R, S, y)
  PROVE  x = y
<1>1. \A v, w \in S : PlaceIn(R, S, v) = PlaceIn(R, S, w) => v = w
  BY PlacesTaken
<1> QED  BY <1>1, Zenon

LEMMA PlaceFilled ==
  ASSUME NEW S, IsFiniteSet(S), NEW R, Orders(R, S), NEW k \in Nat, k < Cardinality(S)
  PROVE  \E x \in S : PlaceIn(R, S, x) = k
<1>1. \A n \in 0 .. Cardinality(S) - 1 : \E x \in S : PlaceIn(R, S, x) = n
  BY PlacesTaken
<1>2. k \in 0 .. Cardinality(S) - 1
  BY FS_CardinalityType
<1> QED  BY <1>1, <1>2, Zenon
=============================================================================
