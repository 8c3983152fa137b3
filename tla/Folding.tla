------------------------------- MODULE Folding -------------------------------
(* What a fold keeps, for any step Op and any predicate Ok.  A module that *)
(* folds takes an instance of this one with its own step and predicate in  *)
(* their place; c is what else they depend on.                             *)
EXTENDS Integers, Folds, FiniteSetTheorems, WellFoundedInduction, TLAPS

CONSTANTS Op(_, _, _),   \* Op(c, a, x): a with x folded in
          Ok(_, _, _)    \* Ok(c, T, a): what holds of a, the elements of T folded in

Greatest(s) == CHOOSE x \in s : \A y \in s : x >= y

(* FoldLeft of SequencesExt and FoldSet of FiniteSetsExt, with the step Op. *)
OverSeq(c, base, seq) ==
    MapThenFoldSet(LAMBDA x, a : Op(c, a, x), base, LAMBDA k : seq[k],
                   LAMBDA s : Greatest(s), DOMAIN seq)
OverSet(c, base, S) ==
    MapThenFoldSet(LAMBDA x, a : Op(c, a, x), base, LAMBDA x : x,
                   LAMBDA s : CHOOSE x \in s : TRUE, S)

(* g computes a fold of v over the subsets of S, where ch[s] is folded in  *)
(* last of the elements of s.                                              *)
Computes(c, base, S, ch, v, g) ==
    /\ g = [s \in SUBSET S |-> g[s]]
    /\ \A s \in SUBSET S :
          g[s] = IF s = {} THEN base ELSE Op(c, g[s \ {ch[s]}], v[ch[s]])

(* A set of naturals that is not empty has a least element. *)
LEMMA LeastNat ==
    ASSUME NEW T \in SUBSET Nat, T # {}
    PROVE  \E x \in T : \A y \in T : x <= y
<1>1. \E x \in T : \A y \in T : ~ (<<y, x>> \in OpToRel(<, Nat))
  BY NatLessThanWellFounded, WFMin
<1>2. PICK x \in T : \A y \in T : ~ (y < x)
  BY <1>1 DEF OpToRel
<1>3. \A y \in T : x <= y
  BY <1>2
<1> QED
  BY <1>3

(* A function that a fold is defined by exists: on sets of no more than n  *)
(* elements for each n, from that for one less.                            *)
LEMMA FoldExists ==
  ASSUME NEW c, NEW base, NEW S, IsFiniteSet(S), NEW ch, NEW v,
         \A s \in SUBSET S : s # {} => ch[s] \in s
  PROVE  \E g : Computes(c, base, S, ch, v, g)
<1> DEFINE D(n) == {s \in SUBSET S : Cardinality(s) <= n}
           Fits(g, n) == g = [s \in D(n) |->
                       IF s = {} THEN base ELSE Op(c, g[s \ {ch[s]}], v[ch[s]])]
           H(n) == \E g : Fits(g, n)
           Bad == {n \in Nat : ~H(n)}
<1>1. \A s \in SUBSET S : IsFiniteSet(s) /\ Cardinality(s) \in Nat
  BY FS_Subset, FS_CardinalityType
<1>2. \A s \in SUBSET S : s # {} =>
         /\ s \ {ch[s]} \in SUBSET S
         /\ Cardinality(s \ {ch[s]}) = Cardinality(s) - 1
  BY <1>1, FS_RemoveElement
<1>3. H(0)
  <2> DEFINE g == [s \in D(0) |-> base]
  <2>1. D(0) = {{}}
    BY <1>1, FS_EmptySet
  <2>2. Fits(g, 0)
    BY <2>1
  <2> QED BY <2>2
<1>4. ASSUME NEW n \in Nat, H(n)
      PROVE  H(n + 1)
  <2>1. PICK g : Fits(g, n)
    BY <1>4
  <2> DEFINE h == [s \in D(n + 1) |->
                     IF s = {} THEN base ELSE Op(c, g[s \ {ch[s]}], v[ch[s]])]
  <2>2. \A s \in D(n + 1) : s # {} => s \ {ch[s]} \in D(n)
    BY <1>1, <1>2
  <2>3. D(n) \subseteq D(n + 1)
    BY <1>1
  <2>4. \A s \in D(n) : h[s] = g[s]
    <3> TAKE s \in D(n)
    <3>1. g[s] = IF s = {} THEN base ELSE Op(c, g[s \ {ch[s]}], v[ch[s]])
      BY <2>1
    <3>2. h[s] = IF s = {} THEN base ELSE Op(c, g[s \ {ch[s]}], v[ch[s]])
      BY <2>3
    <3> QED BY <3>1, <3>2
  <2>5. \A s \in D(n + 1) : s # {} => g[s \ {ch[s]}] = h[s \ {ch[s]}]
    BY <2>2, <2>4
  <2>6. h = [s \in D(n + 1) |->
               IF s = {} THEN base ELSE Op(c, h[s \ {ch[s]}], v[ch[s]])]
    <3> HIDE DEF D
    <3> QED BY <2>5
  <2>7. Fits(h, n + 1)
    BY <2>6
  <2> QED BY <2>7
<1>5. Bad = {}
  <2> SUFFICES ASSUME Bad # {} PROVE FALSE
    OBVIOUS
  <2>1. PICK n \in Bad : \A m \in Bad : n <= m
    <3> HIDE DEF H
    <3> QED BY LeastNat
  <2> HIDE DEF H
  <2>2. n # 0
    BY <1>3, <2>1
  <2>3. n - 1 \in Nat /\ n - 1 \notin Bad
    BY <2>1, <2>2
  <2>4. H(n - 1)
    BY <2>3
  <2>5. H((n - 1) + 1)
    BY <1>4, <2>3, <2>4
  <2> QED BY <2>1, <2>3, <2>5
<1>6. Cardinality(S) \in Nat
  BY FS_CardinalityType
<1>7. PICK g : Fits(g, Cardinality(S))
  BY <1>5, <1>6
<1>8. D(Cardinality(S)) = SUBSET S
  <2>1. \A s \in SUBSET S : Cardinality(s) <= Cardinality(S)
    BY FS_Subset
  <2> QED BY <2>1
<1>9. Computes(c, base, S, ch, v, g)
  BY <1>7, <1>8 DEF Computes
<1> QED BY <1>9

(* A fold over a finite set keeps what each step keeps. *)
THEOREM SetKeeps ==
  ASSUME NEW c, NEW base, NEW S, IsFiniteSet(S), Ok(c, {}, base),
         \A T \in SUBSET S : \A x \in S \ T : \A a :
            Ok(c, T, a) => Ok(c, T \cup {x}, Op(c, a, x))
  PROVE  Ok(c, S, OverSet(c, base, S))
<1> DEFINE ch == [s \in SUBSET S |-> CHOOSE x \in s : TRUE]
           v  == [x \in S |-> x]
           R(g) == g = [s \in SUBSET S |->
                          IF s = {} THEN base
                          ELSE Op(c, g[s \ {CHOOSE x \in s : TRUE}], CHOOSE x \in s : TRUE)]
           it == CHOOSE g : R(g)
<1>1. \A s \in SUBSET S : s # {} => ch[s] \in s
  OBVIOUS
<1>2. PICK g : Computes(c, base, S, ch, v, g)
  <2> HIDE DEF ch, v
  <2> QED BY <1>1, FoldExists
<1>3. R(g)
  <2>1. \A s \in SUBSET S : s # {} =>
           Op(c, g[s \ {ch[s]}], v[ch[s]])
             = Op(c, g[s \ {CHOOSE x \in s : TRUE}], CHOOSE x \in s : TRUE)
    BY <1>1
  <2> QED BY <1>2, <2>1 DEF Computes
<1>4. R(it)
  BY <1>3
<1>5. OverSet(c, base, S) = it[S]
  BY DEF OverSet, MapThenFoldSet
<1> DEFINE G(n) == \A s \in SUBSET S : Cardinality(s) = n => Ok(c, s, it[s])
           Bad == {n \in Nat : ~G(n)}
<1>6. \A s \in SUBSET S : IsFiniteSet(s) /\ Cardinality(s) \in Nat
  BY FS_Subset, FS_CardinalityType
<1>7. G(0)
  <2>1. \A s \in SUBSET S : Cardinality(s) = 0 => s = {}
    BY <1>6, FS_EmptySet
  <2>2. it[{}] = base
    BY <1>4
  <2> QED BY <2>1, <2>2
<1>8. ASSUME NEW n \in Nat, G(n)
      PROVE  G(n + 1)
  <2> SUFFICES ASSUME NEW s \in SUBSET S, Cardinality(s) = n + 1
               PROVE  Ok(c, s, it[s])
    OBVIOUS
  <2>1. s # {}
    BY FS_EmptySet
  <2>2. PICK x \in s : x = CHOOSE y \in s : TRUE
    BY <2>1
  <2>3. it[s] = Op(c, it[s \ {x}], x)
    BY <1>4, <2>1, <2>2
  <2>4. s \ {x} \in SUBSET S /\ Cardinality(s \ {x}) = n
    <3>1. IsFiniteSet(s)
      BY <1>6
    <3>2. Cardinality(s \ {x}) = Cardinality(s) - 1
      BY <2>2, <3>1, FS_RemoveElement
    <3> QED BY <3>2
  <2>5. Ok(c, s \ {x}, it[s \ {x}])
    BY <1>8, <2>4
  <2>6. x \in S \ (s \ {x}) /\ (s \ {x}) \cup {x} = s
    BY <2>2
  <2> QED BY <2>3, <2>4, <2>5, <2>6
<1>9. Bad = {}
  <2> HIDE DEF G
  <2> SUFFICES ASSUME Bad # {} PROVE FALSE
    OBVIOUS
  <2>1. PICK n \in Bad : \A m \in Bad : n <= m
    BY LeastNat
  <2>2. n # 0
    BY <1>7, <2>1
  <2>3. n - 1 \in Nat /\ n - 1 \notin Bad
    BY <2>1, <2>2
  <2>4. G((n - 1) + 1)
    BY <1>8, <2>3
  <2> QED BY <2>1, <2>3, <2>4
<1>10. Cardinality(S) \in Nat
  BY FS_CardinalityType
<1>11. G(Cardinality(S))
  BY <1>9, <1>10
<1> QED BY <1>5, <1>11

(* A fold over a sequence keeps what each step keeps, one after the other. *)
THEOREM SeqKeeps ==
  ASSUME NEW c, NEW base, NEW seq, NEW n \in Nat, DOMAIN seq = 1..n, Ok(c, {}, base),
         \A k \in 1..n : \A a :
            Ok(c, 1..(k - 1), a) => Ok(c, 1..k, Op(c, a, seq[k]))
  PROVE  Ok(c, 1..n, OverSeq(c, base, seq))
<1> DEFINE S  == 1..n
           ch == [s \in SUBSET S |-> Greatest(s)]
           R(g) == g = [s \in SUBSET S |->
                          IF s = {} THEN base
                          ELSE Op(c, g[s \ {Greatest(s)}], seq[Greatest(s)])]
           it == CHOOSE g : R(g)
<1>1. \A s \in SUBSET S : s # {} => Greatest(s) \in s /\ \A y \in s : y <= Greatest(s)
  <2> SUFFICES ASSUME NEW s \in SUBSET S, s # {}
               PROVE  \E x \in s : \A y \in s : x >= y
    BY DEF Greatest
  <2>1. {n - y : y \in s} \in SUBSET Nat /\ {n - y : y \in s} # {}
    <3>1. \A y \in s : y \in 1..n /\ n - y \in Nat
      OBVIOUS
    <3> QED BY <3>1
  <2>2. PICK m \in {n - y : y \in s} : \A k \in {n - y : y \in s} : m <= k
    BY <2>1, LeastNat
  <2>3. PICK x \in s : m = n - x
    BY <2>2
  <2>4. ASSUME NEW y \in s PROVE x >= y
    <3>1. m <= n - y
      BY <2>2
    <3>2. x \in 1..n /\ y \in 1..n
      OBVIOUS
    <3> QED BY <2>3, <3>1, <3>2
  <2> QED BY <2>4
<1>2. IsFiniteSet(S)
  BY FS_Interval
<1>3. PICK g : Computes(c, base, S, ch, seq, g)
  <2>1. \A s \in SUBSET S : s # {} => ch[s] \in s
    BY <1>1
  <2> HIDE DEF ch, S
  <2> QED BY <1>2, <2>1, FoldExists
<1>4. R(g)
  <2>1. \A s \in SUBSET S : s # {} =>
           Op(c, g[s \ {ch[s]}], seq[ch[s]]) = Op(c, g[s \ {Greatest(s)}], seq[Greatest(s)])
    OBVIOUS
  <2> QED BY <1>3, <2>1 DEF Computes
<1>5. R(it)
  BY <1>4
<1>6. OverSeq(c, base, seq) = it[S]
  BY DEF OverSeq, MapThenFoldSet
<1> DEFINE G(k) == k <= n => Ok(c, 1..k, it[1..k])
           Bad == {k \in Nat : ~G(k)}
<1>7. G(0)
  <2>1. 1..0 = {}
    OBVIOUS
  <2>2. it[{}] = base
    BY <1>5
  <2> QED BY <2>1, <2>2
<1>8. ASSUME NEW k \in Nat, G(k)
      PROVE  G(k + 1)
  <2> SUFFICES ASSUME k + 1 <= n
               PROVE  Ok(c, 1..(k + 1), it[1..(k + 1)])
    OBVIOUS
  <2>1. 1..(k + 1) \in SUBSET S /\ 1..(k + 1) # {}
    <3>1. \A y \in 1..(k + 1) : y \in 1..n
      OBVIOUS
    <3>2. k + 1 \in 1..(k + 1)
      OBVIOUS
    <3> QED BY <3>1, <3>2
  <2>2. Greatest(1..(k + 1)) = k + 1
    <3>1. Greatest(1..(k + 1)) \in 1..(k + 1) /\ \A y \in 1..(k + 1) : y <= Greatest(1..(k + 1))
      BY <1>1, <2>1
    <3> QED BY <3>1
  <2>3. (1..(k + 1)) \ {k + 1} = 1..k
    OBVIOUS
  <2>4. it[1..(k + 1)] = Op(c, it[1..k], seq[k + 1])
    BY <1>5, <2>1, <2>2, <2>3
  <2>5. Ok(c, 1..k, it[1..k])
    BY <1>8
  <2>6. k + 1 \in 1..n /\ (k + 1) - 1 = k
    OBVIOUS
  <2> QED BY <2>4, <2>5, <2>6
<1>9. Bad = {}
  <2> HIDE DEF G
  <2> SUFFICES ASSUME Bad # {} PROVE FALSE
    OBVIOUS
  <2>1. PICK k \in Bad : \A m \in Bad : k <= m
    BY LeastNat
  <2>2. k # 0
    BY <1>7, <2>1
  <2>3. k - 1 \in Nat /\ k - 1 \notin Bad
    BY <2>1, <2>2
  <2>4. G((k - 1) + 1)
    BY <1>8, <2>3
  <2> QED BY <2>1, <2>3, <2>4
<1>10. G(n)
  BY <1>9
<1> QED BY <1>6, <1>10
=============================================================================
