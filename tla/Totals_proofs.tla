---------------------------- MODULE Totals_proofs ----------------------------
(***************************************************************************)
(* What the gateway relies on when it adds amounts up: a sum over more, or *)
(* of larger amounts, is no less, and a new amount adds itself.            *)
(***************************************************************************)
EXTENDS Totals, FiniteSetTheorems, TLAPS

LEMMA UnitsAre ==
  ASSUME NEW f
  PROVE  \A u : u \in Units(f) <=>
           \E x \in DOMAIN f : \E n \in 1 .. f[x] : u = <<x, n>>
BY DEF Units

LEMMA TotalIsNat ==
  ASSUME NEW S, IsFiniteSet(S), NEW f \in [S -> Nat]
  PROVE  IsFiniteSet(Units(f)) /\ Total(f) \in Nat
<1> DEFINE Piece(x) == {x} \X (1 .. f[x])
<1>1. IsFiniteSet({Piece(x) : x \in S})
  <2>1. [x \in S |-> Piece(x)] \in Surjection(S, {Piece(x) : x \in S})
    BY DEF Surjection
  <2> QED
    BY <2>1, FS_Surjection
<1>2. ASSUME NEW x \in S
      PROVE  IsFiniteSet(Piece(x))
  <2>1. 1 \in Int /\ f[x] \in Int
    OBVIOUS
  <2>2. IsFiniteSet({x}) /\ IsFiniteSet(1 .. f[x])
    BY <2>1, FS_Singleton, FS_Interval
  <2> QED
    BY <2>2, FS_Product
<1>3. Units(f) = UNION {Piece(x) : x \in S}
  BY DEF Units
<1>4. IsFiniteSet(Units(f))
  BY <1>1, <1>2, <1>3, FS_UNION
<1> QED
  BY <1>4, FS_CardinalityType DEF Total

\* A sum is no more than another one into whose terms its own fit.
LEMMA TotalFits ==
  ASSUME NEW S, NEW T, IsFiniteSet(T), NEW f \in [S -> Nat], NEW g \in [T -> Nat],
         NEW to \in [S -> T],
         \A x \in S : f[x] <= g[to[x]],
         \A x, y \in S : to[x] = to[y] => x = y
  PROVE  Total(f) <= Total(g)
<1> DEFINE h == [u \in Units(f) |-> <<to[u[1]], u[2]>>]
<1>1. ASSUME NEW u \in Units(f)
      PROVE  /\ u = <<u[1], u[2]>> /\ u[1] \in S /\ u[2] \in 1 .. f[u[1]]
             /\ h[u] \in Units(g)
  <2>1. PICK x \in S : \E n \in 1 .. f[x] : u = <<x, n>>
    BY UnitsAre
  <2>2. PICK n \in 1 .. f[x] : u = <<x, n>>
    BY <2>1
  <2>3. to[x] \in T /\ n \in 1 .. g[to[x]]
    BY <2>2
  <2>4. h[u] = <<to[x], n>>
    BY <2>2
  <2> QED
    BY <2>2, <2>3, <2>4, UnitsAre
<1>2. h \in Injection(Units(f), Units(g))
  <2>1. h \in [Units(f) -> Units(g)]
    BY <1>1
  <2>2. ASSUME NEW u \in Units(f), NEW v \in Units(f), h[u] = h[v]
        PROVE  u = v
    <3>1. to[u[1]] = to[v[1]] /\ u[2] = v[2]
      BY <2>2
    <3> QED
      BY <3>1, <1>1
  <2>3. DOMAIN h = Units(f)
    OBVIOUS
  <2> HIDE DEF h
  <2> QED
    BY <2>1, <2>2, <2>3 DEF Injection, IsInjective
<1>3. IsFiniteSet(Units(g))
  BY TotalIsNat
<1> QED
  BY <1>2, <1>3, FS_Injection DEF Total

\* The same terms and others, or larger ones.
LEMMA TotalGrows ==
  ASSUME NEW S, NEW T, IsFiniteSet(T), NEW f \in [S -> Nat], NEW g \in [T -> Nat],
         S \subseteq T, \A x \in S : f[x] <= g[x]
  PROVE  Total(f) <= Total(g)
<1> DEFINE to == [x \in S |-> x]
<1>1. to \in [S -> T] /\ \A x \in S : to[x] = x
  OBVIOUS
<1> QED
  BY <1>1, TotalFits

LEMMA TotalOfNone == ASSUME NEW f, DOMAIN f = {} PROVE Total(f) = 0
<1>1. Units(f) = {}
  BY UnitsAre
<1> QED
  BY <1>1, FS_EmptySet DEF Total

\* A term more.
LEMMA TotalAdds ==
  ASSUME NEW S, IsFiniteSet(S), NEW x, x \notin S,
         NEW f \in [S -> Nat], NEW g \in [S \cup {x} -> Nat],
         \A y \in S : g[y] = f[y]
  PROVE  Total(g) = Total(f) + g[x]
<1> DEFINE piece == {x} \X (1 .. g[x])
<1>1. Units(g) = Units(f) \cup piece
  BY DEF Units
<1>2. Units(f) \cap piece = {}
  BY DEF Units
<1>3. IsFiniteSet(piece) /\ Cardinality(piece) = g[x]
  <2>1. g[x] \in Nat /\ 1 \in Int
    OBVIOUS
  <2>2. IsFiniteSet({x}) /\ Cardinality({x}) = 1
    BY FS_Singleton
  <2>3. IsFiniteSet(1 .. g[x]) /\ Cardinality(1 .. g[x]) = g[x]
    <3>1. Cardinality(1 .. g[x]) = IF 1 > g[x] THEN 0 ELSE g[x] - 1 + 1
      BY <2>1, FS_Interval
    <3> QED
      BY <2>1, <3>1, FS_Interval
  <2>4. IsFiniteSet(piece) /\ Cardinality(piece) = 1 * g[x]
    <3> DEFINE A == {x}
               B == 1 .. g[x]
    <3>1. /\ IsFiniteSet(A) /\ Cardinality(A) = 1
          /\ IsFiniteSet(B) /\ Cardinality(B) = g[x] /\ piece = A \X B
      BY <2>2, <2>3
    <3> HIDE DEF A, B, piece
    <3> QED
      BY <3>1, FS_Product
  <2> QED
    BY <2>1, <2>4
<1>4. IsFiniteSet(Units(f)) /\ Total(f) \in Nat
  BY TotalIsNat
<1>5. Cardinality(Units(f) \cup piece)
        = Cardinality(Units(f)) + Cardinality(piece) - Cardinality(Units(f) \cap piece)
  BY <1>3, <1>4, FS_Union
<1> HIDE DEF piece
<1>6. Cardinality(Units(f) \cap piece) = 0
  BY <1>2, FS_EmptySet
<1>7. g[x] \in Nat
  OBVIOUS
<1> QED
  BY <1>1, <1>3, <1>4, <1>5, <1>6, <1>7 DEF Total
===============================================================================
