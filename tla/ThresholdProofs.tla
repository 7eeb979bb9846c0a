---------------------------- MODULE ThresholdProofs ----------------------------
(***************************************************************************)
(* The threshold signatures: the algebra of the shares, the ceremony that  *)
(* makes them and the nodes that sign with them.                           *)
(*                                                                         *)
(* The first part is about the operators of ThresholdCrypto for every      *)
(* prime order.  Interpolation at zero is proved from the moments of a set *)
(* S of share indexes, M(S, k) = the sum of i^k times the weight of i:     *)
(* a * M(S, k) - M(S, k + 1) = a * M(S \ {a}, k) for every a in S, so that *)
(* two indexes of S reduce its moments to those of smaller sets, and       *)
(* M(S, k) is 1 for k = 0 and 0 for 0 < k < |S|.                           *)
(*                                                                         *)
(* The second part is the ceremony: its invariant says of every packet     *)
(* what its author, honest or faulty, can have put in it, and of every     *)
(* finalization which files it was computed from.                          *)
(*                                                                         *)
(* The third part is the signing nodes.  What carries a message over a     *)
(* crash is the audit log, and what carries it from the conflict check to  *)
(* the release is signedRequests.  The invariant ties the two: whatever is *)
(* in the log of a running node is what its memory says it signed.  A      *)
(* restart has to establish this again, and does so because loadAuditLog   *)
(* compares the log with the state file.                                   *)
(***************************************************************************)
EXTENDS ThresholdNode, ThresholdDKG, FiniteSetTheorems, WellFoundedInduction, TLAPS

------------------------------------------------------------------------------
(* Induction over finite sets, and folds over them                         *)

\* A set of subsets of a finite set has a minimal member.
LEMMA MinimalSubset ==
    ASSUME NEW S, IsFiniteSet(S), NEW C \in SUBSET SUBSET S, C # {}
    PROVE  \E c \in C : \A d \in C : d \subseteq c => d = c
<1>1. IsWellFoundedOn(StrictSubsetOrdering(S), FiniteSubsetsOf(S))
  BY FS_StrictSubsetOrderingWellFounded
<1>2. FiniteSubsetsOf(S) = SUBSET S
  BY FS_FiniteSubsetsOfFinite
<1>3. PICK c \in C : \A d \in C : ~(<<d, c>> \in StrictSubsetOrdering(S))
  BY <1>1, <1>2, WFMin
<1>4. ASSUME NEW d \in C, d \subseteq c, d # c PROVE FALSE
  BY <1>3, <1>4 DEF StrictSubsetOrdering
<1> QED BY <1>4

\* Induction over the subsets of a finite set, by adding an element.
LEMMA SubsetInduction ==
    ASSUME NEW S, IsFiniteSet(S), NEW P \in SUBSET SUBSET S,
           {} \in P, \A s \in P : \A x \in S \ s : s \cup {x} \in P
    PROVE  S \in P
<1>1. SUFFICES ASSUME (SUBSET S) \ P # {} PROVE FALSE
  OBVIOUS
<1>2. PICK c \in (SUBSET S) \ P : \A d \in (SUBSET S) \ P : d \subseteq c => d = c
  <2> DEFINE C == (SUBSET S) \ P
  <2>1. C \in SUBSET SUBSET S /\ C # {}
    BY <1>1
  <2> HIDE DEF C
  <2>2. \E c \in C : \A d \in C : d \subseteq c => d = c
    BY <2>1, MinimalSubset
  <2> QED BY <2>2 DEF C
<1>3. PICK x \in c : TRUE
  <2>1. c # {}
    BY <1>2
  <2> QED BY <2>1
<1>4. c \ {x} \in P
  BY <1>2
<1>5. c = (c \ {x}) \cup {x} /\ x \in S \ (c \ {x})
  BY <1>2
<1> QED BY <1>2, <1>4, <1>5

\* A nonempty set of natural numbers has a least member.
LEMMA LeastNat ==
    ASSUME NEW T \in SUBSET Nat, T # {}
    PROVE  \E m \in T : \A k \in T : m <= k
<1> PICK n \in T : TRUE
  OBVIOUS
<1> DEFINE C == {0..m : m \in {k \in T : k <= n}}
<1>1. IsFiniteSet(0..n)
  BY FS_Interval
<1>2. C \in SUBSET SUBSET (0..n) /\ C # {}
  <2>1. ASSUME NEW m \in T, m <= n PROVE 0..m \subseteq 0..n
    BY <2>1
  <2>2. 0..n \in C
    OBVIOUS
  <2> QED BY <2>1, <2>2
<1>3. PICK c \in C : \A d \in C : d \subseteq c => d = c
  <2> DEFINE U == 0..n
  <2> HIDE DEF C, U
  <2>1. IsFiniteSet(U) /\ C \in SUBSET SUBSET U /\ C # {}
    BY <1>1, <1>2 DEF U
  <2>2. \E c \in C : \A d \in C : d \subseteq c => d = c
    BY <2>1, MinimalSubset
  <2> QED BY <2>2
<1>4. PICK m \in T : m <= n /\ c = 0..m
  OBVIOUS
<1>5. ASSUME NEW k \in T, ~(m <= k) PROVE FALSE
  <2>1. k <= n
    BY <1>4, <1>5
  <2>2. 0..k \in C /\ 0..k \subseteq c
    BY <1>4, <1>5, <2>1
  <2>3. m \in 0..m /\ m \notin 0..k
    BY <1>5
  <2> QED BY <1>3, <1>4, <2>2, <2>3
<1> QED BY <1>5

\* Induction over the natural numbers, for a set of them.
LEMMA NatSetInduction ==
    ASSUME NEW T \in SUBSET Nat, 0 \in T, \A n \in T : n + 1 \in T
    PROVE  \A n \in Nat : n \in T
<1>1. SUFFICES ASSUME Nat \ T # {} PROVE FALSE
  OBVIOUS
<1>2. PICK m \in Nat \ T : \A k \in Nat \ T : m <= k
  <2> Nat \ T \in SUBSET Nat
    OBVIOUS
  <2> QED BY <1>1, LeastNat
<1>3. m - 1 \in Nat /\ m - 1 \in T
  BY <1>2
<1> QED BY <1>2, <1>3

\* F is the table of the values of a fold that takes the elements in the order c
\* chooses; the step is curried, h[x][v].
IsTable(S, V, base, h, c, F) ==
    /\ F \in [SUBSET S -> V]
    /\ F[{}] = base
    /\ \A s \in SUBSET S : s # {} => F[s] = h[c[s]][F[s \ {c[s]}]]

\* A fold over a finite set is well defined.
LEMMA TableExists ==
    ASSUME NEW S, IsFiniteSet(S), NEW V, NEW base \in V, NEW h \in [S -> [V -> V]],
           NEW c, \A s \in SUBSET S : s # {} => c[s] \in s
    PROVE  \E F : IsTable(S, V, base, h, c, F)
<1> DEFINE Up(n, F) == /\ F \in [SUBSET S -> V]
                       /\ F[{}] = base
                       /\ \A s \in SUBSET S : s # {} /\ Cardinality(s) <= n =>
                              F[s] = h[c[s]][F[s \ {c[s]}]]
           T == {n \in Nat : \E F : Up(n, F)}
<1>0. \A s \in SUBSET S : /\ IsFiniteSet(s) /\ Cardinality(s) \in Nat
                          /\ Cardinality(s) = 0 <=> s = {}
                          /\ Cardinality(s) <= Cardinality(S)
                          /\ \A x \in s : Cardinality(s \ {x}) = Cardinality(s) - 1
  BY FS_Subset, FS_CardinalityType, FS_EmptySet, FS_RemoveElement
<1>1. 0 \in T
  <2> DEFINE F == [s \in SUBSET S |-> base]
  <2>1. F \in [SUBSET S -> V] /\ F[{}] = base
    OBVIOUS
  <2>2. \A s \in SUBSET S : s # {} => ~(Cardinality(s) <= 0)
    BY <1>0
  <2>3. Up(0, F)
    <3> HIDE DEF F
    <3> QED BY <2>1, <2>2
  <2> HIDE DEF Up, F
  <2> QED BY <2>3
<1>2. ASSUME NEW n \in T PROVE n + 1 \in T
  <2>1. PICK F : Up(n, F)
    OBVIOUS
  <2> n \in Nat
    OBVIOUS
  <2> DEFINE G == [s \in SUBSET S |-> IF Cardinality(s) <= n THEN F[s]
                                      ELSE h[c[s]][F[s \ {c[s]}]]]
  <2>2. ASSUME NEW s \in SUBSET S, s # {} PROVE c[s] \in s /\ s \ {c[s]} \in SUBSET S
                                          /\ h[c[s]][F[s \ {c[s]}]] \in V
    BY <2>1, <2>2
  <2>3. G \in [SUBSET S -> V] /\ G[{}] = base
    <3>1. ASSUME NEW s \in SUBSET S
          PROVE  (IF Cardinality(s) <= n THEN F[s] ELSE h[c[s]][F[s \ {c[s]}]]) \in V
      <4>1. CASE Cardinality(s) <= n
        BY <2>1, <4>1
      <4>2. CASE ~(Cardinality(s) <= n)
        <5>1. s # {}
          BY <4>2, <1>0
        <5> QED BY <2>2, <4>2, <5>1
      <4> QED BY <4>1, <4>2
    <3>2. {} \in SUBSET S /\ Cardinality({}) <= n
      BY <1>0
    <3> QED BY <2>1, <3>1, <3>2
  <2>4. ASSUME NEW s \in SUBSET S, s # {}, Cardinality(s) <= n + 1
        PROVE  G[s] = h[c[s]][G[s \ {c[s]}]]
    <3>1. s \ {c[s]} \in SUBSET S /\ Cardinality(s \ {c[s]}) <= n
      <4>1. c[s] \in s
        BY <2>2, <2>4
      <4>2. Cardinality(s \ {c[s]}) = Cardinality(s) - 1 /\ Cardinality(s) \in Nat
        BY <1>0, <4>1
      <4> QED BY <2>4, <4>2
    <3>2. G[s \ {c[s]}] = F[s \ {c[s]}]
      BY <3>1
    <3> QED BY <3>2, <2>1, <2>4
  <2>5. Up(n + 1, G)
    <3> HIDE DEF G
    <3> QED BY <2>3, <2>4
  <2> HIDE DEF G, Up
  <2> QED BY <2>5
<1>3. Cardinality(S) \in T
  <2> HIDE DEF T
  <2>1. T \in SUBSET Nat
    BY DEF T
  <2>2. \A n \in Nat : n \in T
    BY <1>1, <1>2, <2>1, NatSetInduction
  <2> QED BY <2>2, <1>0
<1>4. PICK F : Up(Cardinality(S), F)
  BY <1>3
<1>5. IsTable(S, V, base, h, c, F)
  BY <1>4, <1>0 DEF IsTable
<1> QED BY <1>5

\* F is the table of a fold whose value does not depend on the order.
IsFold(S, V, base, h, F) ==
    /\ F \in [SUBSET S -> V]
    /\ F[{}] = base
    /\ \A s \in SUBSET S : \A x \in s : F[s] = h[x][F[s \ {x}]]

\* A commutative step makes the fold independent of the order.
LEMMA TableIsFold ==
    ASSUME NEW S, IsFiniteSet(S), NEW V, NEW base \in V, NEW h \in [S -> [V -> V]],
           NEW c, \A s \in SUBSET S : s # {} => c[s] \in s,
           NEW F, IsTable(S, V, base, h, c, F),
           \A x, y \in S : \A v \in V : h[x][h[y][v]] = h[y][h[x][v]]
    PROVE  IsFold(S, V, base, h, F)
<1> DEFINE C == {s \in SUBSET S : \E x \in s : F[s] # h[x][F[s \ {x}]]}
<1>1. ASSUME C # {} PROVE FALSE
  <2>1. PICK s \in C : \A d \in C : d \subseteq s => d = s
    <3>1. C \in SUBSET SUBSET S
      OBVIOUS
    <3> HIDE DEF C
    <3>2. \E s \in C : \A d \in C : d \subseteq s => d = s
      BY <1>1, <3>1, MinimalSubset
    <3> QED BY <3>2
  <2>2. PICK x \in s : F[s] # h[x][F[s \ {x}]]
    OBVIOUS
  <2> DEFINE y == c[s]
             r == (s \ {x}) \ {y}
  <2>3. s \in SUBSET S /\ y \in s /\ F[s] = h[y][F[s \ {y}]]
    BY <2>2 DEF IsTable
  <2>4. x # y
    BY <2>2, <2>3
  <2>5. s \ {x} \notin C /\ s \ {y} \notin C /\ s \ {x} \in SUBSET S /\ s \ {y} \in SUBSET S
    <3> HIDE DEF C, y
    <3>1. s \ {x} # s /\ s \ {y} # s
      BY <2>2, <2>3
    <3> QED BY <2>1, <2>3, <3>1
  <2>6. F[s \ {x}] = h[y][F[r]]
    BY <2>3, <2>4, <2>5
  <2>7. F[s \ {y}] = h[x][F[r]]
    <3>1. r = (s \ {y}) \ {x} /\ x \in s \ {y}
      BY <2>4
    <3> QED BY <3>1, <2>5
  <2>8. F[r] \in V /\ x \in S /\ y \in S
    BY <2>3 DEF IsTable
  <2> HIDE DEF y, r
  <2>9. h[x][h[y][F[r]]] = h[y][h[x][F[r]]]
    BY <2>8
  <2> QED BY <2>2, <2>3, <2>6, <2>7, <2>9
<1> QED BY <1>1 DEF IsTable, IsFold

\* Folds of the same step over nested sets agree.
LEMMA FoldUnique ==
    ASSUME NEW S, IsFiniteSet(S), NEW V, NEW base, NEW h, NEW g, NEW F, NEW G,
           NEW R \in SUBSET S,
           IsFold(S, V, base, h, F), IsFold(R, V, base, g, G),
           \A x \in R : \A v \in V : h[x][v] = g[x][v]
    PROVE  \A s \in SUBSET R : F[s] = G[s]
<1> DEFINE C == {s \in SUBSET R : F[s] # G[s]}
<1>1. ASSUME C # {} PROVE FALSE
  <2>1. PICK s \in C : \A d \in C : d \subseteq s => d = s
    <3>1. C \in SUBSET SUBSET S
      OBVIOUS
    <3> HIDE DEF C
    <3>2. \E s \in C : \A d \in C : d \subseteq s => d = s
      BY <1>1, <3>1, MinimalSubset
    <3> QED BY <3>2
  <2>2. s # {}
    BY DEF IsFold
  <2>3. PICK x \in s : TRUE
    BY <2>2
  <2>4. F[s \ {x}] = G[s \ {x}]
    BY <2>1
  <2>5. F[s] = h[x][F[s \ {x}]] /\ G[s] = g[x][G[s \ {x}]] /\ F[s \ {x}] \in V /\ x \in R
    BY <2>3 DEF IsFold
  <2> QED BY <2>4, <2>5
<1> QED BY <1>1

------------------------------------------------------------------------------
(* Residues                                                                *)

\* The two integers are the same residue.
Cong(x, y) == \E q \in Int : x = y + Order * q

\* The order is a natural number.
LEMMA OrderNat == Order \in Nat /\ Order > 2
BY OrderIsPrime

\* mod returns a scalar.
LEMMA ModInt ==
    ASSUME NEW x \in Int
    PROVE  mod(x) \in Int /\ mod(x) \in Scalars /\ 0 <= mod(x) /\ mod(x) < Order
BY OrderNat DEF mod, Scalars

\* A scalar is its own residue.
LEMMA ModScalar == \A x \in Scalars : mod(x) = x /\ x \in Int /\ x >= 0 /\ x < Order
BY OrderNat DEF mod, Scalars

\* An integer is congruent to its residue.
LEMMA ModCong == ASSUME NEW x \in Int PROVE Cong(mod(x), x)
<1>1. x = Order * (x \div Order) + (x % Order) /\ x \div Order \in Int
  BY OrderNat
<1>2. (x % Order) = x + Order * (-(x \div Order)) /\ -(x \div Order) \in Int
  BY <1>1, OrderNat
<1> QED BY <1>2 DEF Cong, mod

\* Congruence is reflexive.
LEMMA CongRefl == ASSUME NEW x \in Int PROVE Cong(x, x)
<1>1. x = x + Order * 0
  BY OrderNat
<1> QED BY <1>1 DEF Cong

\* Congruence is symmetric.
LEMMA CongSym == ASSUME NEW x \in Int, NEW y \in Int, Cong(x, y) PROVE Cong(y, x)
<1>1. PICK q \in Int : x = y + Order * q
  BY DEF Cong
<1>2. y = x + Order * (-q) /\ -q \in Int
  BY <1>1, OrderNat
<1> QED BY <1>2 DEF Cong

\* Congruence is transitive.
LEMMA CongTrans ==
    ASSUME NEW x \in Int, NEW y \in Int, NEW z \in Int, Cong(x, y), Cong(y, z)
    PROVE  Cong(x, z)
<1>1. PICK q \in Int : x = y + Order * q
  BY DEF Cong
<1>2. PICK r \in Int : y = z + Order * r
  BY DEF Cong
<1>3. x = z + Order * (q + r) /\ q + r \in Int
  BY <1>1, <1>2, OrderNat
<1> QED BY <1>3 DEF Cong

\* Congruent terms have congruent sums.
LEMMA CongAdd ==
    ASSUME NEW x \in Int, NEW y \in Int, NEW u \in Int, NEW v \in Int,
           Cong(x, y), Cong(u, v)
    PROVE  Cong(x + u, y + v)
<1>1. PICK q \in Int : x = y + Order * q
  BY DEF Cong
<1>2. PICK r \in Int : u = v + Order * r
  BY DEF Cong
<1>3. x + u = (y + v) + Order * (q + r) /\ q + r \in Int
  BY <1>1, <1>2, OrderNat
<1> QED BY <1>3 DEF Cong

\* Congruent factors have congruent products.
LEMMA CongTimes ==
    ASSUME NEW x \in Int, NEW y \in Int, NEW z \in Int, Cong(x, y)
    PROVE  Cong(x * z, y * z) /\ Cong(z * x, z * y)
<1>1. PICK q \in Int : x = y + Order * q
  BY DEF Cong
<1>2. q * z \in Int
  OBVIOUS
<1>3. x * z = y * z + Order * (q * z)
  BY <1>1, OrderNat
<1>4. x * z = z * x /\ y * z = z * y
  OBVIOUS
<1>5. Cong(x * z, y * z)
  BY <1>2, <1>3 DEF Cong
<1> QED BY <1>4, <1>5

\* Congruent scalars are equal.
LEMMA CongScalars ==
    ASSUME NEW x \in Scalars, NEW y \in Scalars, Cong(x, y)
    PROVE  x = y
<1>1. PICK q \in Int : x = y + Order * q
  BY DEF Cong
<1>2. x \in Int /\ y \in Int /\ 0 <= x /\ x < Order /\ 0 <= y /\ y < Order
  BY OrderNat DEF Scalars
<1>3. CASE q = 0
  BY <1>1, <1>2, <1>3, OrderNat
<1>4. CASE q >= 1
  <2>1. Order * q >= Order
    BY <1>4, OrderNat
  <2> QED BY <1>1, <1>2, <2>1, OrderNat
<1>5. CASE q <= -1
  <2>1. Order * q <= -Order
    BY <1>5, OrderNat
  <2> QED BY <1>1, <1>2, <2>1, OrderNat
<1> QED BY <1>3, <1>4, <1>5

\* Integers are congruent when mod maps them to the same scalar.
LEMMA CongMod ==
    ASSUME NEW x \in Int, NEW y \in Int
    PROVE  Cong(x, y) <=> mod(x) = mod(y)
<1>0. mod(x) \in Int /\ mod(y) \in Int /\ mod(x) \in Scalars /\ mod(y) \in Scalars
  BY ModInt
<1>1. ASSUME Cong(x, y) PROVE mod(x) = mod(y)
  <2>1. Cong(mod(x), y)
    BY <1>0, <1>1, ModCong, CongTrans
  <2>2. Cong(y, mod(y))
    BY <1>0, ModCong, CongSym
  <2>3. Cong(mod(x), mod(y))
    BY <1>0, <2>1, <2>2, CongTrans
  <2> QED BY <1>0, <2>3, CongScalars
<1>2. ASSUME mod(x) = mod(y) PROVE Cong(x, y)
  <2>1. Cong(x, mod(x))
    BY <1>0, ModCong, CongSym
  <2>2. Cong(mod(x), y)
    BY <1>2, ModCong
  <2> QED BY <1>0, <2>1, <2>2, CongTrans
<1> QED BY <1>1, <1>2

\* A factor of a product may be reduced first.
LEMMA ModTimes ==
    ASSUME NEW x \in Int, NEW y \in Int
    PROVE  mod(mod(x) * y) = mod(x * y) /\ mod(y * mod(x)) = mod(y * x)
<1>1. mod(x) \in Int /\ mod(x) * y \in Int /\ x * y \in Int
      /\ y * mod(x) \in Int /\ y * x \in Int
  BY ModInt
<1>2. Cong(mod(x) * y, x * y) /\ Cong(y * mod(x), y * x)
  BY <1>1, ModCong, CongTimes
<1> QED BY <1>1, <1>2, CongMod

\* A term of a sum may be reduced first.
LEMMA ModPlus ==
    ASSUME NEW x \in Int, NEW y \in Int
    PROVE  mod(mod(x) + y) = mod(x + y) /\ mod(y + mod(x)) = mod(y + x)
<1>1. mod(x) \in Int /\ mod(x) + y \in Int /\ x + y \in Int
      /\ y + mod(x) \in Int /\ y + x \in Int
  BY ModInt
<1>2. Cong(mod(x) + y, x + y) /\ Cong(y + mod(x), y + x)
  BY <1>1, ModCong, CongAdd, CongRefl
<1> QED BY <1>1, <1>2, CongMod

\* A function on subsets is determined by its recursion.
LEMMA RecursionUnique ==
    ASSUME NEW S, IsFiniteSet(S), NEW F, NEW G,
           \A s \in SUBSET S : (\A t \in SUBSET s : t # s => F[t] = G[t]) => F[s] = G[s]
    PROVE  \A s \in SUBSET S : F[s] = G[s]
<1> DEFINE C == {s \in SUBSET S : F[s] # G[s]}
<1>1. ASSUME C # {} PROVE FALSE
  <2>1. C \in SUBSET SUBSET S
    OBVIOUS
  <2>2. \E s \in C : \A d \in C : d \subseteq s => d = s
    <3> HIDE DEF C
    <3> QED BY <1>1, <2>1, MinimalSubset
  <2>3. PICK s \in C : \A d \in C : d \subseteq s => d = s
    BY <2>2
  <2> QED BY <2>3
<1> QED BY <1>1

\* SumFunction is a fold that adds the values of the function.
LEMMA SumFold ==
    ASSUME NEW f, IsFiniteSet(DOMAIN f), f \in [DOMAIN f -> Int]
    PROVE  LET S == DOMAIN f IN \E F :
                  /\ IsFold(S, Int, 0, [x \in S |-> [v \in Int |-> f[x] + v]], F)
                  /\ SumFunction(f) = F[S]
<1> DEFINE S == DOMAIN f
           h == [x \in S |-> [v \in Int |-> f[x] + v]]
           c == [s \in SUBSET S |-> CHOOSE x \in s : TRUE]
<1>1. h \in [S -> [Int -> Int]] /\ \A s \in SUBSET S : s # {} => c[s] \in s
  OBVIOUS
<1>2. \A s \in SUBSET S : s # {} => c[s] = (CHOOSE x \in s : TRUE) /\ c[s] \in S
  BY <1>1
<1>3. \A x \in S, v \in Int : h[x][v] = f[x] + v
  OBVIOUS
<1>4. \A x, y \in S : \A v \in Int : h[x][h[y][v]] = h[y][h[x][v]]
  BY <1>1, <1>3
<1>5. PICK G : IsTable(S, Int, 0, h, c, G) /\ IsFold(S, Int, 0, h, G)
  <2> DEFINE V == Int  zero == 0
  <2>1. zero \in V
    OBVIOUS
  <2>2. h \in [S -> [V -> V]]
    BY <1>1
  <2>3. \A x, y \in S : \A v \in V : h[x][h[y][v]] = h[y][h[x][v]]
    BY <1>4
  <2> HIDE DEF h, c, V, zero
  <2>4. \E G : IsTable(S, V, zero, h, c, G)
    BY <1>1, <2>1, <2>2, TableExists
  <2>5. PICK G : IsTable(S, V, zero, h, c, G)
    BY <2>4
  <2>6. IsFold(S, V, zero, h, G)
    BY <1>1, <2>1, <2>2, <2>3, <2>5, TableIsFold
  <2> QED BY <2>5, <2>6 DEF V, zero
<1> DEFINE Iter(F) == F = [s \in SUBSET S |-> IF s = {} THEN 0
                          ELSE f[CHOOSE x \in s : TRUE] + F[s \ {CHOOSE x \in s : TRUE}]]
<1>6. \A s \in SUBSET S : s # {} =>
            G[s] = f[CHOOSE x \in s : TRUE] + G[s \ {CHOOSE x \in s : TRUE}]
  <2> SUFFICES ASSUME NEW s \in SUBSET S, s # {}
               PROVE  G[s] = f[CHOOSE x \in s : TRUE] + G[s \ {CHOOSE x \in s : TRUE}]
    OBVIOUS
  <2> HIDE DEF h, c
  <2>1. G[s] = h[c[s]][G[s \ {c[s]}]] /\ G[s \ {c[s]}] \in Int /\ c[s] \in S
    BY <1>2, <1>5 DEF IsTable
  <2>2. G[s] = f[c[s]] + G[s \ {c[s]}]
    BY <2>1, <1>3
  <2> QED BY <2>2, <1>2
<1>7. G \in [SUBSET S -> Int] /\ G[{}] = 0
  BY <1>5 DEF IsTable
<1>8. Iter(G)
  BY <1>6, <1>7
<1>9. PICK F : Iter(F) /\ SumFunction(f) = F[S]
  <2> DEFINE I == CHOOSE F : Iter(F)
  <2>1. Iter(I)
    <3> HIDE DEF Iter
    <3> QED BY <1>8
  <2>2. SumFunction(f) = I[S]
    BY DEF SumFunction, SumFunctionOnSet, FoldFunctionOnSet, MapThenFoldSet
  <2> HIDE DEF I, Iter
  <2> QED BY <2>1, <2>2
<1>10. F[S] = G[S]
  <2>1. ASSUME NEW s \in SUBSET S, \A t \in SUBSET s : t # s => F[t] = G[t] PROVE F[s] = G[s]
    <3>1. CASE s = {}
      BY <3>1, <1>7, <1>9
    <3>2. CASE s # {}
      <4> DEFINE x == CHOOSE x \in s : TRUE
      <4>1. F[s] = f[x] + F[s \ {x}]
        BY <3>2, <1>9
      <4>2. G[s] = f[x] + G[s \ {x}]
        BY <3>2, <1>6
      <4>3. x \in s
        BY <3>2
      <4>4. F[s \ {x}] = G[s \ {x}]
        <5> HIDE DEF x
        <5> QED BY <4>3, <2>1
      <4> QED BY <4>1, <4>2, <4>4
    <3> QED BY <3>1, <3>2
  <2>2. \A s \in SUBSET S : F[s] = G[s]
    <3> HIDE DEF Iter
    <3> QED BY <2>1, RecursionUnique
  <2> QED BY <2>2
<1> QED BY <1>5, <1>9, <1>10
\* product is a fold that multiplies the values of the function.
LEMMA ProductFold ==
    ASSUME NEW f, IsFiniteSet(DOMAIN f), f \in [DOMAIN f -> Int]
    PROVE  LET S == DOMAIN f IN \E F :
                  /\ IsFold(S, Scalars, 1, [x \in S |-> [v \in Scalars |-> mod(v * f[x])]], F)
                  /\ product(f) = F[S]
<1> DEFINE S == DOMAIN f
           h == [x \in S |-> [v \in Scalars |-> mod(v * f[x])]]
           c == [s \in SUBSET S |-> CHOOSE x \in s : TRUE]
<1>0. \A x \in S, v \in Scalars : mod(v * f[x]) \in Scalars /\ v * f[x] \in Int
  BY ModInt, ModScalar
<1>1. h \in [S -> [Scalars -> Scalars]] /\ \A s \in SUBSET S : s # {} => c[s] \in s
  BY <1>0
<1>2. \A s \in SUBSET S : s # {} => c[s] = (CHOOSE x \in s : TRUE) /\ c[s] \in S
  BY <1>1
<1>3. \A x \in S, v \in Scalars : h[x][v] = mod(v * f[x])
  OBVIOUS
<1>4. \A x, y \in S : \A v \in Scalars : h[x][h[y][v]] = h[y][h[x][v]]
  <2> SUFFICES ASSUME NEW x \in S, NEW y \in S, NEW v \in Scalars
               PROVE  h[x][h[y][v]] = h[y][h[x][v]]
    OBVIOUS
  <2>1. v * f[x] \in Int /\ v * f[y] \in Int /\ f[x] \in Int /\ f[y] \in Int /\ v \in Int
    BY ModScalar
  <2>2. h[x][h[y][v]] = mod((v * f[y]) * f[x])
    <3>1. h[x][h[y][v]] = mod(mod(v * f[y]) * f[x])
      BY <1>0, <1>3
    <3> QED BY <2>1, <3>1, ModTimes
  <2>3. h[y][h[x][v]] = mod((v * f[x]) * f[y])
    <3>1. h[y][h[x][v]] = mod(mod(v * f[x]) * f[y])
      BY <1>0, <1>3
    <3> QED BY <2>1, <3>1, ModTimes
  <2>4. (v * f[y]) * f[x] = (v * f[x]) * f[y]
    BY <2>1
  <2> QED BY <2>2, <2>3, <2>4
<1>5. PICK G : IsTable(S, Scalars, 1, h, c, G) /\ IsFold(S, Scalars, 1, h, G)
  <2> DEFINE V == Scalars  one == 1
  <2>1. one \in V
    BY OrderNat DEF Scalars
  <2>2. h \in [S -> [V -> V]]
    BY <1>1
  <2>3. \A x, y \in S : \A v \in V : h[x][h[y][v]] = h[y][h[x][v]]
    BY <1>4
  <2> HIDE DEF h, c, V, one
  <2>4. \E G : IsTable(S, V, one, h, c, G)
    BY <1>1, <2>1, <2>2, TableExists
  <2>5. PICK G : IsTable(S, V, one, h, c, G)
    BY <2>4
  <2>6. IsFold(S, V, one, h, G)
    BY <1>1, <2>1, <2>2, <2>3, <2>5, TableIsFold
  <2> QED BY <2>5, <2>6 DEF V, one
<1> DEFINE Iter(F) == F = [s \in SUBSET S |-> IF s = {} THEN 1
                          ELSE mod(F[s \ {CHOOSE x \in s : TRUE}] * f[CHOOSE x \in s : TRUE])]
<1>6. \A s \in SUBSET S : s # {} =>
            G[s] = mod(G[s \ {CHOOSE x \in s : TRUE}] * f[CHOOSE x \in s : TRUE])
  <2> SUFFICES ASSUME NEW s \in SUBSET S, s # {}
               PROVE  G[s] = mod(G[s \ {CHOOSE x \in s : TRUE}] * f[CHOOSE x \in s : TRUE])
    OBVIOUS
  <2> HIDE DEF h, c
  <2>1. G[s] = h[c[s]][G[s \ {c[s]}]] /\ G[s \ {c[s]}] \in Scalars /\ c[s] \in S
    BY <1>2, <1>5 DEF IsTable
  <2>2. G[s] = mod(G[s \ {c[s]}] * f[c[s]])
    BY <2>1, <1>3
  <2> QED BY <2>2, <1>2
<1>7. G \in [SUBSET S -> Scalars] /\ G[{}] = 1
  BY <1>5 DEF IsTable
<1>8. Iter(G)
  BY <1>6, <1>7
<1>9. PICK F : Iter(F) /\ product(f) = F[S]
  <2> DEFINE I == CHOOSE F : Iter(F)
  <2>1. Iter(I)
    <3> HIDE DEF Iter
    <3> QED BY <1>8
  <2>2. product(f) = I[S]
    BY DEF product, FoldFunction, FoldFunctionOnSet, MapThenFoldSet
  <2> HIDE DEF I, Iter
  <2> QED BY <2>1, <2>2
<1>10. F[S] = G[S]
  <2>1. ASSUME NEW s \in SUBSET S, \A t \in SUBSET s : t # s => F[t] = G[t] PROVE F[s] = G[s]
    <3>1. CASE s = {}
      BY <3>1, <1>7, <1>9
    <3>2. CASE s # {}
      <4> DEFINE x == CHOOSE x \in s : TRUE
      <4>1. F[s] = mod(F[s \ {x}] * f[x])
        BY <3>2, <1>9
      <4>2. G[s] = mod(G[s \ {x}] * f[x])
        BY <3>2, <1>6
      <4>3. x \in s
        BY <3>2
      <4>4. F[s \ {x}] = G[s \ {x}]
        <5> HIDE DEF x
        <5> QED BY <4>3, <2>1
      <4> QED BY <4>1, <4>2, <4>4
    <3> QED BY <3>1, <3>2
  <2>2. \A s \in SUBSET S : F[s] = G[s]
    <3> HIDE DEF Iter
    <3> QED BY <2>1, RecursionUnique
  <2> QED BY <2>2
<1> QED BY <1>5, <1>9, <1>10

\* The sum and the product of the values of f on a set.
SumOn(f, s) == SumFunction([x \in s |-> f[x]])
ProductOn(f, s) == product([x \in s |-> f[x]])

\* A sum over the empty set is zero; any element may be taken out first.
LEMMA SumFacts ==
    ASSUME NEW S, IsFiniteSet(S), NEW f, \A x \in S : f[x] \in Int
    PROVE  /\ SumOn(f, S) \in Int
           /\ S = {} => SumOn(f, S) = 0
           /\ \A x \in S : SumOn(f, S) = f[x] + SumOn(f, S \ {x})
<1> DEFINE g == [x \in S |-> f[x]]
<1>1. DOMAIN g = S /\ g \in [S -> Int]
  OBVIOUS
<1>2. PICK F : /\ IsFold(S, Int, 0, [x \in S |-> [v \in Int |-> g[x] + v]], F)
               /\ SumFunction(g) = F[S]
  <2> HIDE DEF g
  <2> QED BY <1>1, SumFold
<1>3. SumOn(f, S) = F[S] /\ F[S] \in Int /\ F[{}] = 0
  BY <1>2 DEF SumOn, IsFold
<1>4. ASSUME NEW x \in S PROVE SumOn(f, S) = f[x] + SumOn(f, S \ {x})
  <2> DEFINE R == S \ {x}
             k == [y \in R |-> f[y]]
  <2>1. DOMAIN k = R /\ k \in [R -> Int] /\ IsFiniteSet(R) /\ R \in SUBSET S
    BY FS_RemoveElement
  <2>2. PICK G : /\ IsFold(R, Int, 0, [y \in R |-> [v \in Int |-> k[y] + v]], G)
                 /\ SumFunction(k) = G[R]
    <3> HIDE DEF k, R
    <3> QED BY <2>1, SumFold
  <2> DEFINE h1 == [y \in S |-> [v \in Int |-> g[y] + v]]
             h2 == [y \in R |-> [v \in Int |-> k[y] + v]]
  <2>3. \A y \in R : \A v \in Int : h1[y][v] = h2[y][v]
    OBVIOUS
  <2>4. F[R] = G[R]
    <3>1. IsFold(S, Int, 0, h1, F) /\ IsFold(R, Int, 0, h2, G)
      BY <1>2, <2>2
    <3> DEFINE V == Int  zero == 0
    <3>2. IsFold(S, V, zero, h1, F) /\ IsFold(R, V, zero, h2, G)
          /\ \A y \in R : \A v \in V : h1[y][v] = h2[y][v]
      BY <3>1, <2>3
    <3> HIDE DEF h1, h2, R, g, k, V, zero
    <3>3. \A s \in SUBSET R : F[s] = G[s]
      BY <2>1, <3>2, FoldUnique
    <3> QED BY <3>3
  <2>5. F[S] = g[x] + F[R]
    <3>1. F[S] = h1[x][F[R]] /\ F[R] \in Int
      BY <1>2, <2>1 DEF IsFold
    <3> QED BY <3>1
  <2>6. SumOn(f, R) = G[R]
    BY <2>2 DEF SumOn
  <2> QED BY <1>3, <2>4, <2>5, <2>6
<1>5. S = {} => SumOn(f, S) = 0
  BY <1>3
<1> QED BY <1>3, <1>4, <1>5

\* A product over the empty set is one; any factor may be taken out first.
LEMMA ProductFacts ==
    ASSUME NEW S, IsFiniteSet(S), NEW f, \A x \in S : f[x] \in Int
    PROVE  /\ ProductOn(f, S) \in Scalars
           /\ S = {} => ProductOn(f, S) = 1
           /\ \A x \in S : ProductOn(f, S) = mod(ProductOn(f, S \ {x}) * f[x])
<1> DEFINE g == [x \in S |-> f[x]]
<1>1. DOMAIN g = S /\ g \in [S -> Int]
  OBVIOUS
<1>2. PICK F : /\ IsFold(S, Scalars, 1, [x \in S |-> [v \in Scalars |-> mod(v * g[x])]], F)
               /\ product(g) = F[S]
  <2> HIDE DEF g
  <2> QED BY <1>1, ProductFold
<1>3. ProductOn(f, S) = F[S] /\ F[S] \in Scalars /\ F[{}] = 1
  BY <1>2 DEF ProductOn, IsFold
<1>4. ASSUME NEW x \in S PROVE ProductOn(f, S) = mod(ProductOn(f, S \ {x}) * f[x])
  <2> DEFINE R == S \ {x}
             k == [y \in R |-> f[y]]
  <2>1. DOMAIN k = R /\ k \in [R -> Int] /\ IsFiniteSet(R) /\ R \in SUBSET S
    BY FS_RemoveElement
  <2>2. PICK G : /\ IsFold(R, Scalars, 1, [y \in R |-> [v \in Scalars |-> mod(v * k[y])]], G)
                 /\ product(k) = G[R]
    <3> HIDE DEF k, R
    <3> QED BY <2>1, ProductFold
  <2> DEFINE h1 == [y \in S |-> [v \in Scalars |-> mod(v * g[y])]]
             h2 == [y \in R |-> [v \in Scalars |-> mod(v * k[y])]]
  <2>3. \A y \in R : \A v \in Scalars : h1[y][v] = h2[y][v]
    OBVIOUS
  <2>4. F[R] = G[R]
    <3>1. IsFold(S, Scalars, 1, h1, F) /\ IsFold(R, Scalars, 1, h2, G)
      BY <1>2, <2>2
    <3> DEFINE V == Scalars  one == 1
    <3>2. IsFold(S, V, one, h1, F) /\ IsFold(R, V, one, h2, G)
          /\ \A y \in R : \A v \in V : h1[y][v] = h2[y][v]
      BY <3>1, <2>3
    <3> HIDE DEF h1, h2, R, g, k, V, one
    <3>3. \A s \in SUBSET R : F[s] = G[s]
      BY <2>1, <3>2, FoldUnique
    <3> QED BY <3>3
  <2>5. F[S] = mod(F[R] * g[x])
    <3>1. F[S] = h1[x][F[R]] /\ F[R] \in Scalars
      BY <1>2, <2>1 DEF IsFold
    <3> QED BY <3>1
  <2>6. ProductOn(f, R) = G[R]
    BY <2>2 DEF ProductOn
  <2> QED BY <1>3, <2>4, <2>5, <2>6
<1>5. S = {} => ProductOn(f, S) = 1
  BY <1>3
<1> QED BY <1>3, <1>4, <1>5

\* Sums of congruent terms are congruent, and sums are linear.
LEMMA SumLinear ==
    ASSUME NEW S, IsFiniteSet(S), NEW f, NEW g, NEW h, NEW a \in Int, NEW b \in Int,
           \A x \in S : f[x] \in Int /\ g[x] \in Int /\ h[x] \in Int,
           \A x \in S : Cong(h[x], a * f[x] + b * g[x])
    PROVE  Cong(SumOn(h, S), a * SumOn(f, S) + b * SumOn(g, S))
<1> DEFINE P == {s \in SUBSET S : Cong(SumOn(h, s), a * SumOn(f, s) + b * SumOn(g, s))}
<1>0. \A s \in SUBSET S : IsFiniteSet(s)
  BY FS_Subset
<1>1. {} \in P
  <2>1. IsFiniteSet({}) /\ \A x \in {} : f[x] \in Int /\ g[x] \in Int /\ h[x] \in Int
    BY FS_EmptySet
  <2>2. SumOn(h, {}) = 0 /\ SumOn(f, {}) = 0 /\ SumOn(g, {}) = 0
    BY <2>1, SumFacts
  <2>3. a * SumOn(f, {}) + b * SumOn(g, {}) = 0
    BY <2>2
  <2>4. Cong(0, 0)
    BY CongRefl
  <2> QED BY <2>2, <2>3, <2>4
<1>2. ASSUME NEW s \in P, NEW x \in S \ s PROVE s \cup {x} \in P
  <2> DEFINE t == s \cup {x}
  <2>1. t \in SUBSET S /\ t \ {x} = s /\ x \in t /\ IsFiniteSet(t) /\ IsFiniteSet(s)
    BY <1>0
  <2>2. /\ \A y \in t : f[y] \in Int /\ g[y] \in Int /\ h[y] \in Int
        /\ \A y \in s : f[y] \in Int /\ g[y] \in Int /\ h[y] \in Int
    BY <2>1
  <2>6. Cong(h[x], a * f[x] + b * g[x]) /\ Cong(SumOn(h, s), a * SumOn(f, s) + b * SumOn(g, s))
    OBVIOUS
  <2> HIDE DEF P, t
  <2>3. SumOn(h, t) = h[x] + SumOn(h, s) /\ SumOn(h, s) \in Int
    BY <2>1, <2>2, SumFacts
  <2>4. SumOn(f, t) = f[x] + SumOn(f, s) /\ SumOn(f, s) \in Int
    BY <2>1, <2>2, SumFacts
  <2>5. SumOn(g, t) = g[x] + SumOn(g, s) /\ SumOn(g, s) \in Int
    BY <2>1, <2>2, SumFacts
  <2>7. h[x] \in Int /\ f[x] \in Int /\ g[x] \in Int
        /\ a * f[x] + b * g[x] \in Int /\ a * SumOn(f, s) + b * SumOn(g, s) \in Int
    BY <2>3, <2>4, <2>5
  <2>8. Cong(h[x] + SumOn(h, s),
             (a * f[x] + b * g[x]) + (a * SumOn(f, s) + b * SumOn(g, s)))
    BY <2>3, <2>6, <2>7, CongAdd
  <2>9. (a * f[x] + b * g[x]) + (a * SumOn(f, s) + b * SumOn(g, s))
        = a * (f[x] + SumOn(f, s)) + b * (g[x] + SumOn(g, s))
    BY <2>4, <2>5, <2>7
  <2>10. Cong(SumOn(h, t), a * SumOn(f, t) + b * SumOn(g, t))
    BY <2>3, <2>4, <2>5, <2>8, <2>9
  <2> QED BY <2>1, <2>10 DEF P, t
<1>3. S \in P
  <2>1. P \in SUBSET SUBSET S
    OBVIOUS
  <2> HIDE DEF P
  <2> QED BY <1>1, <1>2, <2>1, SubsetInduction
<1> QED BY <1>3

\* Every nonzero scalar has an inverse: the least nonzero multiple of it
\* divides the order, which is prime.
LEMMA InverseScalar ==
    ASSUME NEW a \in Int, mod(a) # 0
    PROVE  invert(a) \in Scalars /\ Cong(a * invert(a), 1)
<1> DEFINE T == {m \in 1..(Order - 1) : \E w \in Int : mod(a * w) = m}
<1>1. mod(a) \in T
  <2>1. a * 1 = a /\ mod(a) \in 1..(Order - 1)
    BY ModInt, OrderNat
  <2>2. \E w \in Int : mod(a * w) = mod(a)
    <3>1. mod(a * 1) = mod(a)
      BY <2>1
    <3> QED BY <3>1
  <2> QED BY <2>1, <2>2
<1>2. PICK m \in T : \A k \in T : m <= k
  <2>1. T \in SUBSET Nat /\ T # {}
    BY <1>1, OrderNat
  <2>2. \E m \in T : \A k \in T : m <= k
    <3> HIDE DEF T
    <3> QED BY <2>1, LeastNat
  <2> QED BY <2>2
<1>3. PICK w \in Int : mod(a * w) = m
  OBVIOUS
<1> m \in Nat /\ m > 0 /\ m < Order
  BY OrderNat
<1>4. Order % m = 0
  <2> DEFINE q == Order \div m
             r == Order % m
  <2>1. Order = m * q + r /\ q \in Int /\ r \in Int /\ 0 <= r /\ r < m
    BY OrderNat
  <2> HIDE DEF q, r
  <2>2. SUFFICES ASSUME r # 0 PROVE FALSE
    BY DEF r
  <2>3. mod(a * (-(q * w))) = r
    <3>1. Cong(a * w, m)
      <4>1. mod(m) = m
        BY ModScalar, OrderNat DEF Scalars
      <4> QED BY <1>3, <4>1, CongMod
    <3>2. Cong((-q) * (a * w), (-q) * m)
      <4> DEFINE aw == a * w  n == -q
      <4>1. aw \in Int /\ n \in Int /\ Cong(aw, m)
        BY <2>1, <3>1
      <4> HIDE DEF aw, n
      <4>2. Cong(n * aw, n * m)
        BY <4>1, CongTimes
      <4> QED BY <4>2 DEF aw, n
    <3>3. a * (-(q * w)) = (-q) * (a * w) /\ (-q) * m = r + Order * (-1)
          /\ a * (-(q * w)) \in Int /\ (-q) * m \in Int /\ r \in Int
      BY <2>1, OrderNat
    <3>4. Cong((-q) * m, r)
      BY <3>3 DEF Cong
    <3>5. Cong(a * (-(q * w)), r)
      BY <3>2, <3>3, <3>4, CongTrans
    <3>6. mod(r) = r
      BY <2>1, OrderNat, ModScalar DEF Scalars
    <3> QED BY <3>3, <3>5, <3>6, CongMod
  <2>4. r \in T
    <3>1. r \in 1..(Order - 1)
      BY <2>1, <2>2, OrderNat
    <3>2. -(q * w) \in Int
      BY <2>1
    <3> QED BY <2>3, <3>1, <3>2
  <2> HIDE DEF T
  <2> QED BY <1>2, <2>1, <2>4
<1>5. m = 1
  <2>1. m \notin 2..(Order - 1)
    BY <1>4, OrderIsPrime
  <2> QED BY <2>1, OrderNat
<1>6. mod(a * mod(w)) = 1
  BY <1>3, <1>5, ModTimes
<1>7. mod(w) \in Scalars
  BY ModInt
<1>8. invert(a) \in Scalars /\ mod(a * invert(a)) = 1
  BY <1>6, <1>7 DEF invert
<1>9. Cong(a * invert(a), 1)
  <2>1. mod(1) = 1
    BY OrderNat, ModScalar DEF Scalars
  <2>2. a * invert(a) \in Int
    BY <1>8, ModScalar
  <2> QED BY <1>8, <2>1, <2>2, CongMod
<1> QED BY <1>8, <1>9

\* The residue is zero for the multiples of the order.
LEMMA ModZero == ASSUME NEW x \in Int PROVE mod(x) = 0 <=> Cong(x, 0)
<1>1. mod(0) = 0
  BY OrderNat, ModScalar DEF Scalars
<1> QED BY <1>1, CongMod

\* A nonzero factor can be cancelled.
LEMMA Cancel ==
    ASSUME NEW a \in Int, mod(a) # 0, NEW x \in Int, NEW y \in Int, Cong(a * x, a * y)
    PROVE  Cong(x, y)
<1> DEFINE w == invert(a)
<1>1. w \in Int /\ Cong(a * w, 1)
  BY InverseScalar, ModScalar
<1> HIDE DEF w
<1>0. a * x \in Int /\ a * y \in Int /\ a * w \in Int
  BY <1>1
<1>2. Cong(w * (a * x), w * (a * y))
  <2> DEFINE ax == a * x  ay == a * y
  <2>1. ax \in Int /\ ay \in Int /\ Cong(ax, ay)
    BY <1>0
  <2> HIDE DEF ax, ay
  <2>2. Cong(w * ax, w * ay)
    BY <1>1, <2>1, CongTimes
  <2> QED BY <2>2 DEF ax, ay
<1>3. Cong((a * w) * x, 1 * x) /\ Cong((a * w) * y, 1 * y)
  <2> DEFINE aw == a * w  one == 1
  <2>1. aw \in Int /\ one \in Int /\ Cong(aw, one)
    BY <1>0, <1>1
  <2> HIDE DEF aw, one
  <2>2. Cong(aw * x, one * x) /\ Cong(aw * y, one * y)
    BY <2>1, CongTimes
  <2> QED BY <2>2 DEF aw, one
<1>4. w * (a * x) = (a * w) * x /\ w * (a * y) = (a * w) * y /\ 1 * x = x /\ 1 * y = y
      /\ (a * w) * x \in Int /\ (a * w) * y \in Int
  BY <1>1
<1>5. Cong(x, (a * w) * x) /\ Cong((a * w) * y, y) /\ Cong((a * w) * x, (a * w) * y)
  BY <1>2, <1>3, <1>4, CongSym
<1>6. Cong(x, (a * w) * y)
  BY <1>4, <1>5, CongTrans
<1> QED BY <1>4, <1>5, <1>6, CongTrans

\* The scalars have no divisors of zero.
LEMMA NonzeroProduct ==
    ASSUME NEW x \in Int, NEW y \in Int, mod(x) # 0, mod(y) # 0
    PROVE  mod(x * y) # 0
<1>1. ASSUME mod(x * y) = 0 PROVE FALSE
  <2>1. Cong(x * y, x * 0)
    BY <1>1, ModZero
  <2>2. Cong(y, 0)
    BY <2>1, Cancel
  <2> QED BY <2>2, ModZero
<1> QED BY <1>1

\* Distinct share indexes differ by a nonzero scalar.
LEMMA IndexDifference ==
    ASSUME NEW a \in 1..(Order - 1), NEW b \in 1..(Order - 1), a # b
    PROVE  a - b \in Int /\ mod(a - b) # 0 /\ mod(a) # 0
<1>1. a \in Scalars /\ b \in Scalars /\ a - b \in Int
  BY OrderNat DEF Scalars
<1>2. mod(a) = a /\ a # 0 /\ mod(b) = b
  BY <1>1, ModScalar, OrderNat
<1>3. ASSUME mod(a - b) = 0 PROVE FALSE
  <2>1. Cong(a - b, 0)
    BY <1>1, <1>3, ModZero
  <2>2. PICK q \in Int : a - b = 0 + Order * q
    BY <2>1 DEF Cong
  <2>3. a = b + Order * q
    BY <2>2, OrderNat
  <2>4. Cong(a, b)
    BY <2>3 DEF Cong
  <2> QED BY <2>4, <1>1, CongScalars
<1> QED BY <1>1, <1>2, <1>3

\* A product of nonzero factors is nonzero.
LEMMA ProductNonzero ==
    ASSUME NEW S, IsFiniteSet(S), NEW f, \A x \in S : f[x] \in Int /\ mod(f[x]) # 0
    PROVE  mod(ProductOn(f, S)) # 0
<1> DEFINE P == {s \in SUBSET S : mod(ProductOn(f, s)) # 0}
<1>0. \A s \in SUBSET S : IsFiniteSet(s)
  BY FS_Subset
<1>1. {} \in P
  <2>1. ProductOn(f, {}) = 1
    BY FS_EmptySet, ProductFacts
  <2>2. mod(1) = 1
    BY OrderNat, ModScalar DEF Scalars
  <2> QED BY <2>1, <2>2
<1>2. ASSUME NEW s \in P, NEW x \in S \ s PROVE s \cup {x} \in P
  <2> DEFINE t == s \cup {x}
  <2>1. t \in SUBSET S /\ t \ {x} = s /\ x \in t /\ IsFiniteSet(t) /\ IsFiniteSet(s)
    BY <1>0
  <2>2. mod(ProductOn(f, s)) # 0
    OBVIOUS
  <2>3. \A y \in t : f[y] \in Int
    BY <2>1
  <2>4. \A y \in s : f[y] \in Int
    BY <2>1
  <2> HIDE DEF P, t
  <2>5. ProductOn(f, t) = mod(ProductOn(f, s) * f[x])
    BY <2>1, <2>3, ProductFacts
  <2>6. ProductOn(f, s) \in Int
    BY <2>1, <2>4, ProductFacts, ModScalar
  <2>7. f[x] \in Int /\ mod(f[x]) # 0
    BY <2>1
  <2>8. mod(ProductOn(f, s) * f[x]) # 0 /\ ProductOn(f, s) * f[x] \in Int
    <3> DEFINE p == ProductOn(f, s)  y == f[x]
    <3>1. p \in Int /\ y \in Int /\ mod(p) # 0 /\ mod(y) # 0
      BY <2>2, <2>6, <2>7
    <3> HIDE DEF p, y
    <3>2. mod(p * y) # 0 /\ p * y \in Int
      BY <3>1, NonzeroProduct
    <3> QED BY <3>2 DEF p, y
  <2>9. mod(mod(ProductOn(f, s) * f[x])) = mod(ProductOn(f, s) * f[x])
    BY <2>8, ModInt, ModScalar
  <2> QED BY <2>1, <2>5, <2>8, <2>9 DEF P, t
<1>3. S \in P
  <2>1. P \in SUBSET SUBSET S
    OBVIOUS
  <2> HIDE DEF P
  <2> QED BY <1>1, <1>2, <2>1, SubsetInduction
<1> QED BY <1>3

------------------------------------------------------------------------------
(* Interpolation at zero                                                   *)

\* Both sides of a congruence may be multiplied by the same integer.
LEMMA CongScale ==
    ASSUME NEW x \in Int, NEW y \in Int, Cong(x, y), NEW z \in Int,
           NEW u \in Int, NEW v \in Int, u = z * x, v = z * y
    PROVE  Cong(u, v)
BY CongTimes

\* How a Lagrange coefficient changes when one factor of its numerator and of its
\* denominator is split off.
LEMMA LagrangeAlgebra ==
    ASSUME NEW a \in Int, NEW d \in Int, NEW N \in Int, NEW N1 \in Int, NEW D \in Int,
           NEW D1 \in Int, NEW w \in Int, NEW w1 \in Int, NEW L \in Int, NEW L1 \in Int,
           Cong(N, N1 * a), Cong(D, D1 * d), Cong(D * w, 1), Cong(D1 * w1, 1), mod(D1) # 0,
           Cong(L, N * w), Cong(L1, N1 * w1)
    PROVE  Cong(d * L, a * L1)
<1> DEFINE dw == d * w  na == N1 * a  nw == N * w  n1w1 == N1 * w1  t == D1 * d  dL == d * L
           DD == D * w  E == D1 * w1  G == D1 * dw  X == N * dw  Y == N * w1  aL == a * L1
           Z == na * w1
<1>1. /\ dw \in Int /\ na \in Int /\ nw \in Int /\ n1w1 \in Int /\ t \in Int /\ dL \in Int
      /\ DD \in Int /\ E \in Int
  OBVIOUS
<1>2. G \in Int /\ X \in Int /\ Y \in Int /\ aL \in Int /\ Z \in Int
  BY <1>1
<1>3. G = w * t /\ DD = w * D /\ X = d * nw /\ Y = w1 * N /\ Z = w1 * na /\ Z = a * n1w1
  OBVIOUS
<1>4. Cong(N, na) /\ Cong(D, t) /\ Cong(DD, 1) /\ Cong(E, 1) /\ Cong(L, nw) /\ Cong(L1, n1w1)
  OBVIOUS
<1>5. E = D1 * w1 /\ G = D1 * dw /\ X = N * dw /\ Y = N * w1 /\ dL = d * L /\ aL = a * L1
  OBVIOUS
<1> HIDE DEF dw, na, nw, n1w1, t, dL, DD, E, G, X, Y, aL, Z
<1>6. Cong(DD, G)
  BY <1>1, <1>2, <1>3, <1>4, CongScale
<1>7. Cong(G, E)
  <2>1. Cong(G, DD) /\ Cong(1, E)
    BY <1>1, <1>2, <1>4, <1>6, CongSym
  <2>2. Cong(G, 1)
    BY <1>1, <1>2, <1>4, <2>1, CongTrans
  <2> QED BY <1>1, <1>2, <2>1, <2>2, CongTrans
<1>8. Cong(dw, w1)
  <2>1. Cong(D1 * dw, D1 * w1)
    BY <1>5, <1>7
  <2> QED BY <1>1, <2>1, Cancel
<1>9. Cong(dL, X)
  BY <1>1, <1>2, <1>3, <1>4, <1>5, CongScale
<1>10. Cong(X, Y)
  BY <1>1, <1>2, <1>5, <1>8, CongScale
<1>11. Cong(Y, Z)
  BY <1>1, <1>2, <1>3, <1>4, CongScale
<1>12. Cong(Z, aL)
  <2>1. Cong(n1w1, L1)
    BY <1>1, <1>4, CongSym
  <2> QED BY <1>1, <1>2, <1>3, <1>5, <2>1, CongScale
<1>13. Cong(dL, Y)
  BY <1>1, <1>2, <1>9, <1>10, CongTrans
<1>14. Cong(dL, Z)
  BY <1>1, <1>2, <1>11, <1>13, CongTrans
<1>15. Cong(dL, aL)
  BY <1>1, <1>2, <1>12, <1>14, CongTrans
<1> QED BY <1>5, <1>15

\* Share indexes, and the two products lagrangeCoefficientAtZero divides.
Indexes == 1..(Order - 1)
numerator(i, S) == product([j \in S \ {i} |-> j])
denominator(i, S) == product([j \in S \ {i} |-> j - i])

\* A Lagrange coefficient is defined: its denominator has an inverse.
LEMMA LagrangeParts ==
    ASSUME NEW S \in SUBSET Indexes, IsFiniteSet(S), NEW i \in S
    PROVE  /\ numerator(i, S) \in Scalars /\ denominator(i, S) \in Scalars
           /\ mod(denominator(i, S)) # 0
           /\ lagrangeCoefficientAtZero(i, S) \in Scalars
           /\ Cong(denominator(i, S) * invert(denominator(i, S)), 1)
           /\ Cong(lagrangeCoefficientAtZero(i, S), numerator(i, S) * invert(denominator(i, S)))
           /\ S = {i} => numerator(i, S) = 1 /\ denominator(i, S) = 1
           /\ \A a \in S \ {i} :
                /\ numerator(i, S) = mod(numerator(i, S \ {a}) * a)
                /\ denominator(i, S) = mod(denominator(i, S \ {a}) * (a - i))
<1> DEFINE f == [j \in Indexes |-> j]
           g == [j \in Indexes |-> j - i]
           R == S \ {i}
<1>1. IsFiniteSet(R) /\ R \in SUBSET Indexes /\ i \in Indexes
  BY FS_RemoveElement
<1>2. \A s \in SUBSET R : ProductOn(f, s) = product([j \in s |-> j])
                          /\ ProductOn(g, s) = product([j \in s |-> j - i])
  <2> SUFFICES ASSUME NEW s \in SUBSET R
               PROVE  ProductOn(f, s) = product([j \in s |-> j])
                      /\ ProductOn(g, s) = product([j \in s |-> j - i])
    OBVIOUS
  <2>1. [x \in s |-> f[x]] = [j \in s |-> j]
    BY <1>1
  <2>2. [x \in s |-> g[x]] = [j \in s |-> j - i]
    BY <1>1
  <2> QED BY <2>1, <2>2 DEF ProductOn
<1>3. \A j \in R : f[j] \in Int /\ g[j] \in Int /\ mod(g[j]) # 0 /\ f[j] = j /\ g[j] = j - i
  <2> SUFFICES ASSUME NEW j \in R
               PROVE  j \in Int /\ j - i \in Int /\ mod(j - i) # 0 /\ j \in Indexes
    OBVIOUS
  <2>1. j \in 1..(Order - 1) /\ i \in 1..(Order - 1) /\ j # i
    BY <1>1 DEF Indexes
  <2>2. j - i \in Int /\ mod(j - i) # 0
    BY <2>1, IndexDifference
  <2>3. j \in Int
    BY <2>1, OrderNat
  <2> QED BY <2>1, <2>2, <2>3 DEF Indexes
<1>4. numerator(i, S) = ProductOn(f, R) /\ denominator(i, S) = ProductOn(g, R)
  BY <1>2 DEF numerator, denominator
<1>5. \A a \in R : numerator(i, S \ {a}) = ProductOn(f, R \ {a})
                   /\ denominator(i, S \ {a}) = ProductOn(g, R \ {a})
  <2> SUFFICES ASSUME NEW a \in R
               PROVE  numerator(i, S \ {a}) = ProductOn(f, R \ {a})
                      /\ denominator(i, S \ {a}) = ProductOn(g, R \ {a})
    OBVIOUS
  <2>1. (S \ {a}) \ {i} = R \ {a} /\ R \ {a} \in SUBSET R
    OBVIOUS
  <2> QED BY <1>2, <2>1 DEF numerator, denominator
<1> HIDE DEF f, g, R
<1>6. numerator(i, S) \in Scalars /\ denominator(i, S) \in Scalars
  BY <1>1, <1>3, <1>4, ProductFacts
<1>7. mod(denominator(i, S)) # 0
  BY <1>1, <1>3, <1>4, ProductNonzero
<1>8. /\ invert(denominator(i, S)) \in Scalars
      /\ Cong(denominator(i, S) * invert(denominator(i, S)), 1)
  BY <1>6, <1>7, InverseScalar, ModScalar
<1>9. /\ lagrangeCoefficientAtZero(i, S) = mod(numerator(i, S) * invert(denominator(i, S)))
      /\ numerator(i, S) * invert(denominator(i, S)) \in Int
  BY <1>6, <1>8, ModScalar DEF lagrangeCoefficientAtZero, numerator, denominator
<1>10. ASSUME S = {i} PROVE numerator(i, S) = 1 /\ denominator(i, S) = 1
  <2>1. R = {}
    BY <1>10 DEF R
  <2> QED BY <2>1, <1>1, <1>3, <1>4, ProductFacts
<1>11. ASSUME NEW a \in S \ {i}
       PROVE  /\ numerator(i, S) = mod(numerator(i, S \ {a}) * a)
              /\ denominator(i, S) = mod(denominator(i, S \ {a}) * (a - i))
  <2>1. a \in R
    BY DEF R
  <2>2. ProductOn(f, R) = mod(ProductOn(f, R \ {a}) * f[a])
        /\ ProductOn(g, R) = mod(ProductOn(g, R \ {a}) * g[a])
    BY <2>1, <1>1, <1>3, ProductFacts
  <2> QED BY <2>1, <2>2, <1>3, <1>4, <1>5
<1> QED BY <1>6, <1>7, <1>8, <1>9, <1>10, <1>11, ModInt, ModCong

\* A single share has weight one.
LEMMA LagrangeSingle ==
    ASSUME NEW a \in Indexes
    PROVE  Cong(lagrangeCoefficientAtZero(a, {a}), 1)
<1> DEFINE L == lagrangeCoefficientAtZero(a, {a})  w == invert(1)
<1>1. {a} \in SUBSET Indexes /\ IsFiniteSet({a}) /\ a \in {a}
  BY FS_Singleton
<1>2. numerator(a, {a}) = 1 /\ denominator(a, {a}) = 1 /\ L \in Scalars
      /\ Cong(L, 1 * w) /\ Cong(1 * w, 1)
  <2>1. numerator(a, {a}) = 1 /\ denominator(a, {a}) = 1
    BY <1>1, LagrangeParts
  <2> QED BY <1>1, <2>1, LagrangeParts
<1>3. w \in Scalars
  <2>1. mod(1) # 0
    BY ModScalar, OrderNat DEF Scalars
  <2> QED BY <2>1, InverseScalar
<1>4. L \in Int /\ 1 * w \in Int
  BY <1>2, <1>3, ModScalar
<1> QED BY <1>2, <1>4, CongTrans

\* Leaving an index out multiplies the weight of another by (a - i) / a.
LEMMA LagrangeRemove ==
    ASSUME NEW S \in SUBSET Indexes, IsFiniteSet(S), NEW a \in S, NEW i \in S, a # i
    PROVE  Cong((a - i) * lagrangeCoefficientAtZero(i, S),
                a * lagrangeCoefficientAtZero(i, S \ {a}))
<1> DEFINE R == S \ {a}
           N == numerator(i, S)  D == denominator(i, S)  w == invert(D)
           N1 == numerator(i, R)  D1 == denominator(i, R)  w1 == invert(D1)
           L == lagrangeCoefficientAtZero(i, S)  L1 == lagrangeCoefficientAtZero(i, R)
           d == a - i
<1>1. R \in SUBSET Indexes /\ IsFiniteSet(R) /\ i \in R
  BY FS_RemoveElement
<1>2. N \in Int /\ D \in Int /\ L \in Int /\ mod(D) # 0
  BY LagrangeParts, ModScalar
<1>3. N1 \in Int /\ D1 \in Int /\ L1 \in Int /\ mod(D1) # 0
  <2> HIDE DEF R
  <2> QED BY <1>1, LagrangeParts, ModScalar
<1>4. w \in Int /\ w1 \in Int
  BY <1>2, <1>3, InverseScalar, ModScalar
<1>5. Cong(D * w, 1) /\ Cong(L, N * w)
  BY LagrangeParts
<1>6. Cong(D1 * w1, 1) /\ Cong(L1, N1 * w1)
  <2> HIDE DEF R
  <2> QED BY <1>1, LagrangeParts
<1>7. N = mod(N1 * a) /\ D = mod(D1 * d)
  <2>1. a \in S \ {i}
    OBVIOUS
  <2> QED BY <2>1, LagrangeParts
<1>8. a \in Int /\ d \in Int /\ N1 * a \in Int /\ D1 * d \in Int
  <2>1. a \in Int /\ i \in Int
    BY OrderNat DEF Indexes
  <2> QED BY <1>3, <2>1
<1>9. Cong(N, N1 * a) /\ Cong(D, D1 * d)
  BY <1>7, <1>8, ModCong
<1> HIDE DEF N, D, w, N1, D1, w1, L, L1, d, R
<1>10. Cong(d * L, a * L1)
  BY <1>2, <1>3, <1>4, <1>5, <1>6, <1>8, <1>9, LagrangeAlgebra
<1> QED BY <1>10 DEF d, L, L1, R

\* Powers of a share index, reduced at every step.
LEMMA PowerFacts ==
    ASSUME NEW x \in Int, NEW k \in Nat
    PROVE  /\ power(x, 0) = 1
           /\ power(x, k) \in Scalars /\ power(x, k) \in Int
           /\ power(x, k + 1) = mod(power(x, k) * x)
<1> DEFINE f == [j \in Nat |-> x]
<1>1. \A n \in Nat : power(x, n) = ProductOn(f, 1..n)
  <2> SUFFICES ASSUME NEW n \in Nat PROVE power(x, n) = ProductOn(f, 1..n)
    OBVIOUS
  <2>1. [j \in 1..n |-> f[j]] = [j \in 1..n |-> x]
    OBVIOUS
  <2> QED BY <2>1 DEF power, ProductOn
<1>2. \A n \in Nat : IsFiniteSet(1..n)
  BY FS_Interval
<1>3. \A n \in Nat : \A j \in 1..n : f[j] \in Int
  OBVIOUS
<1>4. 1..0 = {} /\ k + 1 \in 1..(k + 1) /\ (1..(k + 1)) \ {k + 1} = 1..k /\ f[k + 1] = x
      /\ k + 1 \in Nat
  OBVIOUS
<1> HIDE DEF f
<1>5. power(x, 0) = 1
  <2> DEFINE E == 1..0
  <2>1. IsFiniteSet(E) /\ E = {} /\ \A j \in E : f[j] \in Int
    BY <1>2, <1>4
  <2> HIDE DEF E
  <2>2. ProductOn(f, E) = 1
    BY <2>1, ProductFacts
  <2> QED BY <1>1, <2>2 DEF E
<1>6. power(x, k) \in Scalars
  BY <1>1, <1>2, <1>3, ProductFacts
<1>7. power(x, k + 1) = mod(power(x, k) * x)
  <2> DEFINE E == 1..(k + 1)  j == k + 1
  <2>1. IsFiniteSet(E) /\ j \in E /\ \A i \in E : f[i] \in Int
    BY <1>2, <1>3, <1>4
  <2>2. power(x, j) = ProductOn(f, E) /\ power(x, k) = ProductOn(f, E \ {j}) /\ f[j] = x
    BY <1>1, <1>4
  <2> HIDE DEF E, j
  <2>3. ProductOn(f, E) = mod(ProductOn(f, E \ {j}) * f[j])
    BY <2>1, ProductFacts
  <2>4. power(x, j) = mod(power(x, k) * x)
    BY <2>2, <2>3
  <2> QED BY <2>4 DEF j
<1> QED BY <1>5, <1>6, <1>7, ModScalar

\* The weighted sum of the k-th powers of the indexes.
Moment(S, k) == SumOn([i \in Indexes |-> power(i, k) * lagrangeCoefficientAtZero(i, S)], S)

\* One term of the recurrence of the moments.
LEMMA MomentTermStep ==
    ASSUME NEW p \in Int, NEW i \in Int, NEW a \in Int, NEW L \in Int, NEW P2 \in Int,
           Cong(P2, p * i)
    PROVE  Cong(p * ((a - i) * L), a * (p * L) + (-1) * (P2 * L))
<1>1. PICK q \in Int : P2 = p * i + Order * q
  BY DEF Cong
<1>2. q * L \in Int /\ p * L \in Int /\ p * i \in Int /\ Order * q \in Int
  BY OrderNat
<1>3. P2 * L = (p * i) * L + (Order * q) * L
  BY <1>1, <1>2
<1>4. (Order * q) * L = Order * (q * L)
  BY OrderNat
<1>5. p * ((a - i) * L) = a * (p * L) - (p * i) * L
  OBVIOUS
<1>6. p * ((a - i) * L) = (a * (p * L) + (-1) * (P2 * L)) + Order * (q * L)
  <2> DEFINE X == (p * i) * L  Y == a * (p * L)  Z == P2 * L  W == Order * (q * L)
             H == p * ((a - i) * L)
  <2>1. X \in Int /\ Y \in Int /\ Z \in Int /\ W \in Int
    BY <1>2, OrderNat
  <2>2. Z = X + W /\ H = Y - X
    BY <1>3, <1>4, <1>5
  <2> HIDE DEF X, Y, Z, W, H
  <2>3. H = (Y + (-1) * Z) + W
    BY <2>1, <2>2
  <2> QED BY <2>3 DEF X, Y, Z, W, H
<1> QED BY <1>2, <1>6 DEF Cong

\* Moments are integers.
LEMMA MomentType ==
    ASSUME NEW S \in SUBSET Indexes, IsFiniteSet(S), NEW k \in Nat
    PROVE  /\ \A i \in S : /\ lagrangeCoefficientAtZero(i, S) \in Int /\ i \in Int
                           /\ power(i, k) \in Int
                           /\ power(i, k) * lagrangeCoefficientAtZero(i, S) \in Int
           /\ Moment(S, k) \in Int
<1>1. ASSUME NEW i \in S
      PROVE  /\ lagrangeCoefficientAtZero(i, S) \in Int /\ i \in Int /\ power(i, k) \in Int
             /\ power(i, k) * lagrangeCoefficientAtZero(i, S) \in Int
  <2>1. i \in Int
    BY OrderNat DEF Indexes
  <2>2. power(i, k) \in Int
    BY <2>1, PowerFacts
  <2>3. lagrangeCoefficientAtZero(i, S) \in Int
    BY LagrangeParts, ModScalar
  <2> QED BY <2>1, <2>2, <2>3
<1> DEFINE f == [i \in Indexes |-> power(i, k) * lagrangeCoefficientAtZero(i, S)]
<1>2. \A i \in S : f[i] \in Int
  BY <1>1
<1> HIDE DEF f
<1>3. SumOn(f, S) \in Int
  BY <1>2, SumFacts
<1> QED BY <1>1, <1>3 DEF Moment, f

\* The recurrence that reduces a moment of a set to one of a smaller set.
LEMMA MomentStep ==
    ASSUME NEW S \in SUBSET Indexes, IsFiniteSet(S), NEW a \in S, NEW k \in Nat
    PROVE  Cong(a * Moment(S, k) + (-1) * Moment(S, k + 1), a * Moment(S \ {a}, k))
<1> DEFINE R == S \ {a}
           L(i) == lagrangeCoefficientAtZero(i, S)
           L1(i) == lagrangeCoefficientAtZero(i, R)
           f == [i \in Indexes |-> power(i, k) * L(i)]
           f2 == [i \in Indexes |-> power(i, k + 1) * L(i)]
           g == [i \in Indexes |-> power(i, k) * L1(i)]
           h == [i \in Indexes |-> power(i, k) * ((a - i) * L(i))]
<1>1. R \in SUBSET Indexes /\ IsFiniteSet(R) /\ k + 1 \in Nat /\ a \in Int
  BY FS_RemoveElement, OrderNat DEF Indexes
<1>2. \A i \in S : /\ L(i) \in Int /\ i \in Int /\ power(i, k) \in Int
                   /\ power(i, k) * L(i) \in Int /\ power(i, k + 1) \in Int
                   /\ power(i, k + 1) * L(i) \in Int
  BY <1>1, MomentType
<1>3. \A i \in R : L1(i) \in Int /\ power(i, k) * L1(i) \in Int
  <2> HIDE DEF R
  <2> QED BY <1>1, MomentType
<1>4. \A i \in S : (a - i) * L(i) \in Int /\ power(i, k) * ((a - i) * L(i)) \in Int
  BY <1>1, <1>2
<1>5. ASSUME NEW i \in S PROVE Cong(h[i], a * f[i] + (-1) * f2[i])
  <2>1. power(i, k + 1) = mod(power(i, k) * i)
    BY <1>2, PowerFacts
  <2>2. power(i, k) * i \in Int
    BY <1>2
  <2>3. Cong(power(i, k + 1), power(i, k) * i)
    BY <2>1, <2>2, ModCong
  <2>4. Cong(power(i, k) * ((a - i) * L(i)),
             a * (power(i, k) * L(i)) + (-1) * (power(i, k + 1) * L(i)))
    <3> DEFINE p == power(i, k)  l == L(i)  P2 == power(i, k + 1)
    <3>1. p \in Int /\ l \in Int /\ P2 \in Int /\ i \in Int
      BY <1>2
    <3>2. Cong(P2, p * i)
      BY <2>3
    <3> HIDE DEF p, l, P2
    <3>3. Cong(p * ((a - i) * l), a * (p * l) + (-1) * (P2 * l))
      BY <3>1, <3>2, <1>1, MomentTermStep
    <3> QED BY <3>3 DEF p, l, P2
  <2> QED BY <2>4
<1>6. ASSUME NEW i \in R PROVE Cong(h[i], a * g[i] + 0 * g[i])
  <2> DEFINE p == power(i, k)  l == L(i)  l1 == L1(i)  d == a - i
             u == d * l  v == a * l1  gi == p * l1
  <2>1. p \in Int /\ l \in Int /\ l1 \in Int /\ i \in Int /\ i \in S
    BY <1>2, <1>3
  <2>2. Cong(u, v)
    BY LagrangeRemove
  <2>3. u \in Int /\ v \in Int /\ d \in Int /\ gi \in Int
    <3> HIDE DEF p, l, l1
    <3> QED BY <1>1, <2>1
  <2>4. p * v = a * gi
    <3> HIDE DEF p, l, l1
    <3> QED BY <1>1, <2>1
  <2>5. h[i] = p * u /\ g[i] = gi
    OBVIOUS
  <2> HIDE DEF p, l, l1, d, u, v, gi, h, g
  <2>6. Cong(p * u, p * v)
    BY <2>1, <2>2, <2>3, CongTimes
  <2>7. a * gi = a * gi + 0 * gi
    BY <1>1, <2>3
  <2> QED BY <2>4, <2>5, <2>6, <2>7
<1>7. \A i \in S : f[i] \in Int /\ f2[i] \in Int /\ h[i] \in Int
  BY <1>2, <1>4
<1>8. \A i \in R : g[i] \in Int /\ h[i] \in Int
  BY <1>3, <1>4
<1>9. h[a] = 0
  <2>1. (a - a) * L(a) = 0 /\ power(a, k) * 0 = 0
    <3> DEFINE l == L(a)  p == power(a, k)
    <3>1. l \in Int /\ p \in Int
      BY <1>2
    <3> HIDE DEF l, p
    <3>2. (a - a) * l = 0 /\ p * 0 = 0
      BY <3>1, <1>1
    <3> QED BY <3>2 DEF l, p
  <2> QED BY <2>1
<1> HIDE DEF f, f2, g, h, R
<1>10. Cong(SumOn(h, S), a * SumOn(f, S) + (-1) * SumOn(f2, S))
  <2> DEFINE m == -1
  <2>1. m \in Int /\ \A i \in S : Cong(h[i], a * f[i] + m * f2[i])
    BY <1>5
  <2> HIDE DEF m
  <2>2. Cong(SumOn(h, S), a * SumOn(f, S) + m * SumOn(f2, S))
    BY <1>1, <1>7, <2>1, SumLinear
  <2> QED BY <2>2 DEF m
<1>11. Cong(SumOn(h, R), a * SumOn(g, R) + 0 * SumOn(g, R))
  <2> DEFINE z == 0
  <2>1. z \in Int /\ \A i \in R : Cong(h[i], a * g[i] + z * g[i])
    BY <1>6
  <2> HIDE DEF z
  <2>2. Cong(SumOn(h, R), a * SumOn(g, R) + z * SumOn(g, R))
    BY <1>1, <1>8, <2>1, SumLinear
  <2> QED BY <2>2 DEF z
<1>12. SumOn(h, S) = SumOn(h, R) /\ SumOn(h, R) \in Int
  <2>1. SumOn(h, S) = h[a] + SumOn(h, S \ {a})
    BY <1>7, SumFacts
  <2>2. SumOn(h, R) \in Int
    BY <1>1, <1>8, SumFacts
  <2> QED BY <1>9, <2>1, <2>2 DEF R
<1>13. Moment(S, k) = SumOn(f, S) /\ Moment(S, k + 1) = SumOn(f2, S) /\ Moment(R, k) = SumOn(g, R)
  BY DEF Moment, f, f2, g
<1>14. Moment(S, k) \in Int /\ Moment(S, k + 1) \in Int /\ Moment(R, k) \in Int
  BY <1>1, MomentType
<1>15. Cong(a * Moment(S, k) + (-1) * Moment(S, k + 1), a * Moment(R, k))
  <2> DEFINE U == a * Moment(S, k) + (-1) * Moment(S, k + 1)  V == a * Moment(R, k)
             W == SumOn(h, S)
  <2>1. U \in Int /\ V \in Int /\ W \in Int
    BY <1>1, <1>12, <1>14
  <2>2. Cong(W, U)
    BY <1>10, <1>13
  <2>3. Cong(W, V)
    <3>1. a * Moment(R, k) + 0 * Moment(R, k) = a * Moment(R, k)
      BY <1>1, <1>14
    <3> QED BY <1>11, <1>12, <1>13, <3>1
  <2> HIDE DEF U, V, W
  <2>4. Cong(U, W)
    BY <2>1, <2>2, CongSym
  <2>5. Cong(U, V)
    BY <2>1, <2>3, <2>4, CongTrans
  <2> QED BY <2>5 DEF U, V
<1> QED BY <1>15 DEF R

\* Two indexes of a set determine its first two moments.
LEMMA MomentAlgebra ==
    ASSUME NEW a \in Int, NEW b \in Int, mod(a - b) # 0, NEW M0 \in Int, NEW M1 \in Int,
           NEW A \in Int, NEW B \in Int, Cong(A, 1), Cong(B, 1),
           Cong(a * M0 + (-1) * M1, a * A), Cong(b * M0 + (-1) * M1, b * B)
    PROVE  Cong(M0, 1) /\ Cong(M1, 0)
<1> DEFINE d == a - b
<1>1. PICK q \in Int : A = 1 + Order * q
  BY DEF Cong
<1>2. PICK r \in Int : B = 1 + Order * r
  BY DEF Cong
<1>3. PICK s \in Int : a * M0 + (-1) * M1 = a * A + Order * s
  BY DEF Cong
<1>4. PICK t \in Int : b * M0 + (-1) * M1 = b * B + Order * t
  BY DEF Cong
<1>5. /\ a * q \in Int /\ b * r \in Int /\ a * M0 \in Int /\ b * M0 \in Int
      /\ Order * s \in Int /\ Order * t \in Int /\ Order * (a * q) \in Int
      /\ Order * (b * r) \in Int
  <2>1. a * q \in Int /\ b * r \in Int
    OBVIOUS
  <2> QED BY <2>1, OrderNat
<1>6. a * A = a + Order * (a * q)
  BY <1>1, OrderNat
<1>7. b * B = b + Order * (b * r)
  BY <1>2, OrderNat
<1>8. a * M0 - M1 = a + Order * (a * q) + Order * s
  BY <1>3, <1>5, <1>6
<1>9. b * M0 - M1 = b + Order * (b * r) + Order * t
  BY <1>4, <1>5, <1>7
<1>10. a * M0 - b * M0 = (a - b) + (Order * (a * q) + Order * s - Order * (b * r) - Order * t)
  <2> DEFINE x == a * M0  y == b * M0  aq == Order * (a * q)  br == Order * (b * r)
             os == Order * s  ot == Order * t
  <2>1. /\ x \in Int /\ y \in Int /\ aq \in Int /\ br \in Int /\ os \in Int /\ ot \in Int
        /\ x - M1 = a + aq + os /\ y - M1 = b + br + ot
    BY <1>5, <1>8, <1>9
  <2> HIDE DEF x, y, aq, br, os, ot
  <2>2. x - y = (a - b) + (aq + os - br - ot)
    BY <2>1
  <2> QED BY <2>2 DEF x, y, aq, br, os, ot
<1>11. Order * (a * q) + Order * s - Order * (b * r) - Order * t
       = Order * (a * q + s - b * r - t) /\ a * q + s - b * r - t \in Int
  <2> DEFINE x == a * q  y == b * r
  <2>1. x \in Int /\ y \in Int
    OBVIOUS
  <2> HIDE DEF x, y
  <2>2. Order * x + Order * s - Order * y - Order * t = Order * (x + s - y - t)
        /\ x + s - y - t \in Int
    BY <2>1, OrderNat
  <2> QED BY <2>2 DEF x, y
<1>12. Cong(d * M0, d * 1)
  <2>1. d * M0 = a * M0 - b * M0 /\ d * 1 = a - b
    OBVIOUS
  <2>2. d * M0 = d * 1 + Order * (a * q + s - b * r - t)
    BY <1>10, <1>11, <2>1
  <2> HIDE DEF d
  <2> QED BY <1>11, <2>2 DEF Cong
<1>13. Cong(M0, 1)
  <2>1. d \in Int /\ mod(d) # 0
    OBVIOUS
  <2> HIDE DEF d
  <2> QED BY <1>12, <2>1, Cancel
<1>14. PICK u \in Int : M0 = 1 + Order * u
  BY <1>13 DEF Cong
<1>15. Cong(M1, 0)
  <2>1. a * M0 = a + Order * (a * u) /\ a * u \in Int /\ Order * (a * u) \in Int
    BY <1>14, OrderNat
  <2>2. M1 = Order * (a * u) - Order * (a * q) - Order * s
    <3> DEFINE x == a * M0  au == Order * (a * u)  aq == Order * (a * q)  os == Order * s
    <3>1. /\ au \in Int /\ aq \in Int /\ os \in Int
          /\ x - M1 = a + aq + os /\ x = a + au
      BY <1>5, <1>8, <2>1
    <3> HIDE DEF x, au, aq, os
    <3>2. M1 = au - aq - os
      BY <3>1
    <3> QED BY <3>2 DEF au, aq, os
  <2>3. Order * (a * u) - Order * (a * q) - Order * s = 0 + Order * (a * u - a * q - s)
        /\ a * u - a * q - s \in Int
    <3> DEFINE x == a * u  y == a * q
    <3>1. x \in Int /\ y \in Int
      OBVIOUS
    <3> HIDE DEF x, y
    <3>2. Order * x - Order * y - Order * s = 0 + Order * (x - y - s) /\ x - y - s \in Int
      BY <3>1, OrderNat
    <3> QED BY <3>2 DEF x, y
  <2>4. M1 = 0 + Order * (a * u - a * q - s)
    BY <2>2, <2>3
  <2> QED BY <2>3, <2>4 DEF Cong
<1> QED BY <1>13, <1>15

\* One index determines every further moment.
LEMMA MomentDescend ==
    ASSUME NEW a \in Int, NEW M \in Int, NEW M1 \in Int, NEW A \in Int,
           Cong(A, 0), Cong(M, 0), Cong(a * M + (-1) * M1, a * A)
    PROVE  Cong(M1, 0)
<1>1. PICK q \in Int : A = 0 + Order * q
  BY DEF Cong
<1>2. PICK r \in Int : M = 0 + Order * r
  BY DEF Cong
<1>3. PICK s \in Int : a * M + (-1) * M1 = a * A + Order * s
  BY DEF Cong
<1>4. a * A = Order * (a * q) /\ a * M = Order * (a * r) /\ a * q \in Int /\ a * r \in Int
      /\ a * A \in Int /\ a * M \in Int /\ Order * s \in Int
  BY <1>1, <1>2, OrderNat
<1>5. M1 = Order * (a * r) - Order * (a * q) - Order * s
  <2> DEFINE x == a * M  y == a * A  os == Order * s
  <2>1. x \in Int /\ y \in Int /\ os \in Int /\ x + (-1) * M1 = y + os
    BY <1>3, <1>4
  <2> HIDE DEF x, y, os
  <2>2. M1 = x - y - os
    BY <2>1
  <2> QED BY <2>2, <1>4 DEF x, y, os
<1>6. Order * (a * r) - Order * (a * q) - Order * s = 0 + Order * (a * r - a * q - s)
      /\ a * r - a * q - s \in Int
  <2> DEFINE x == a * r  y == a * q
  <2>1. x \in Int /\ y \in Int
    OBVIOUS
  <2> HIDE DEF x, y
  <2>2. Order * x - Order * y - Order * s = 0 + Order * (x - y - s) /\ x - y - s \in Int
    BY <2>1, OrderNat
  <2> QED BY <2>2 DEF x, y
<1>7. M1 = 0 + Order * (a * r - a * q - s)
  BY <1>5, <1>6
<1> QED BY <1>6, <1>7 DEF Cong

\* The value at zero of the k-th power.
Delta(k) == IF k = 0 THEN 1 ELSE 0

\* The weights of n + 1 indexes interpolate every power up to the n-th at zero.
LEMMA MomentValue ==
    \A n \in Nat : \A S \in SUBSET Indexes :
        IsFiniteSet(S) /\ Cardinality(S) = n + 1 =>
            \A k \in 0..n : Cong(Moment(S, k), Delta(k))
<1> DEFINE Claim(n) == \A S \in SUBSET Indexes :
               IsFiniteSet(S) /\ Cardinality(S) = n + 1 =>
                   \A k \in 0..n : Cong(Moment(S, k), Delta(k))
           T == {n \in Nat : Claim(n)}
<1>1. Claim(0)
  <2> SUFFICES ASSUME NEW S \in SUBSET Indexes, IsFiniteSet(S), Cardinality(S) = 1
               PROVE  Cong(Moment(S, 0), 1)
    BY DEF Delta
  <2>1. PICK a : S = {a}
    BY FS_Singleton
  <2>2. a \in Indexes /\ a \in Int /\ a \in S
    BY <2>1, OrderNat DEF Indexes
  <2> DEFINE f == [i \in Indexes |-> power(i, 0) * lagrangeCoefficientAtZero(i, S)]
             L == lagrangeCoefficientAtZero(a, S)
  <2>3. L \in Int /\ Cong(L, 1) /\ power(a, 0) = 1
    BY <2>1, <2>2, LagrangeSingle, MomentType, PowerFacts
  <2>4. f[a] = L
    <3>1. f[a] = power(a, 0) * L
      BY <2>2
    <3> HIDE DEF L, f
    <3> QED BY <3>1, <2>3
  <2> HIDE DEF f, L
  <2>5. \A i \in S : f[i] \in Int
    BY <2>1, <2>3, <2>4
  <2>6. SumOn(f, S) = f[a] + SumOn(f, S \ {a})
    BY <2>2, <2>5, SumFacts
  <2>7. SumOn(f, S \ {a}) = 0
    <3> DEFINE R == S \ {a}
    <3>1. R = {} /\ IsFiniteSet(R) /\ \A i \in R : f[i] \in Int
      BY <2>1, FS_EmptySet
    <3> HIDE DEF R
    <3>2. SumOn(f, R) = 0
      BY <3>1, SumFacts
    <3> QED BY <3>2 DEF R
  <2>8. Moment(S, 0) = L
    BY <2>3, <2>4, <2>6, <2>7 DEF Moment, f
  <2> QED BY <2>3, <2>8
<1>2. ASSUME NEW n \in Nat, Claim(n) PROVE Claim(n + 1)
  <2> SUFFICES ASSUME NEW S \in SUBSET Indexes, IsFiniteSet(S),
                      Cardinality(S) = (n + 1) + 1
               PROVE  \A k \in 0..(n + 1) : Cong(Moment(S, k), Delta(k))
    OBVIOUS
  <2>1. PICK a \in S, b \in S : a # b
    <3>1. S # {}
      BY FS_EmptySet
    <3>2. PICK a \in S : TRUE
      BY <3>1
    <3>3. S # {a}
      BY FS_Singleton
    <3> QED BY <3>2, <3>3
  <2>2. a \in Indexes /\ b \in Indexes /\ a \in Int /\ b \in Int /\ a - b \in Int
    BY OrderNat DEF Indexes
  <2>3. mod(a - b) # 0
    BY <2>1, <2>2, IndexDifference DEF Indexes
  <2>4. \A c \in S : /\ S \ {c} \in SUBSET Indexes /\ IsFiniteSet(S \ {c})
                     /\ Cardinality(S \ {c}) = n + 1
    BY FS_RemoveElement
  <2>5. \A c \in S : \A k \in 0..n : Cong(Moment(S \ {c}, k), Delta(k))
    BY <1>2, <2>4
  <2>6. \A c \in S : \A k \in Nat : Moment(S \ {c}, k) \in Int
    BY <2>4, MomentType
  <2>7. \A k \in Nat : Moment(S, k) \in Int /\ Moment(S, k + 1) \in Int
    BY MomentType
  <2>8. \A c \in S : \A k \in Nat :
            Cong(c * Moment(S, k) + (-1) * Moment(S, k + 1), c * Moment(S \ {c}, k))
    BY MomentStep
  <2>9. Cong(Moment(S, 0), 1) /\ Cong(Moment(S, 1), 0)
    <3> DEFINE M0 == Moment(S, 0)  M1 == Moment(S, 1)
               A == Moment(S \ {a}, 0)  B == Moment(S \ {b}, 0)
    <3>1. M0 \in Int /\ M1 \in Int /\ A \in Int /\ B \in Int
      BY <2>6, <2>7
    <3>2. Cong(A, 1) /\ Cong(B, 1)
      BY <2>5 DEF Delta
    <3>3. Cong(a * M0 + (-1) * M1, a * A) /\ Cong(b * M0 + (-1) * M1, b * B)
      <4>1. 0 \in Nat /\ 0 + 1 = 1
        OBVIOUS
      <4> QED BY <2>8, <4>1
    <3> HIDE DEF M0, M1, A, B
    <3>4. Cong(M0, 1) /\ Cong(M1, 0)
      BY <2>2, <2>3, <3>1, <3>2, <3>3, MomentAlgebra
    <3> QED BY <3>4 DEF M0, M1
  <2> DEFINE K == {k \in Nat : k <= n + 1 => Cong(Moment(S, k), Delta(k))}
  <2>10. 0 \in K
    BY <2>9 DEF Delta
  <2>11. ASSUME NEW k \in K PROVE k + 1 \in K
    <3>1. k \in Nat /\ (k <= n + 1 => Cong(Moment(S, k), Delta(k)))
      OBVIOUS
    <3> HIDE DEF K
    <3> SUFFICES ASSUME k + 1 <= n + 1 PROVE Cong(Moment(S, k + 1), 0)
      BY <3>1 DEF K, Delta
    <3>2. CASE k = 0
      BY <2>9, <3>2
    <3>3. CASE k # 0
      <4> DEFINE M == Moment(S, k)  M1 == Moment(S, k + 1)  A == Moment(S \ {a}, k)
      <4>1. M \in Int /\ M1 \in Int /\ A \in Int
        BY <2>6, <2>7, <3>1
      <4>2. Cong(M, 0)
        BY <3>1, <3>3 DEF Delta
      <4>3. Cong(A, 0)
        <5>1. k \in 0..n
          BY <3>1
        <5> QED BY <2>5, <5>1, <3>3 DEF Delta
      <4>4. Cong(a * M + (-1) * M1, a * A)
        BY <2>8, <3>1
      <4> HIDE DEF M, M1, A
      <4>5. Cong(M1, 0)
        BY <2>2, <4>1, <4>2, <4>3, <4>4, MomentDescend
      <4> QED BY <4>5 DEF M1
    <3> QED BY <3>2, <3>3
  <2>12. \A k \in Nat : k \in K
    <3>1. K \in SUBSET Nat
      OBVIOUS
    <3> HIDE DEF K
    <3> QED BY <2>10, <2>11, <3>1, NatSetInduction
  <2> QED BY <2>12
<1>3. \A n \in Nat : n \in T
  <2>1. T \in SUBSET Nat /\ 0 \in T /\ \A n \in T : n + 1 \in T
    <3> HIDE DEF Claim
    <3> QED BY <1>1, <1>2
  <2> HIDE DEF T
  <2> QED BY <2>1, NatSetInduction
<1> QED BY <1>3

\* The first m terms of a committed polynomial, summed without reducing.
Term(c, x) == [k \in Nat \ {0} |-> c[k] * power(x, k - 1)]
Eval(c, x, m) == SumOn(Term(c, x), 1..m)

\* The sum of m terms adds the last one to the sum of the others.
LEMMA EvalFacts ==
    ASSUME NEW c \in Seq(Int), NEW x \in Int, NEW m \in 0..Len(c)
    PROVE  /\ Eval(c, x, m) \in Int
           /\ m = 0 => Eval(c, x, m) = 0
           /\ m # 0 => Eval(c, x, m) = c[m] * power(x, m - 1) + Eval(c, x, m - 1)
<1> DEFINE E == 1..m  f == Term(c, x)
<1>1. IsFiniteSet(E) /\ m \in Nat
  BY FS_Interval
<1>2. \A k \in E : f[k] \in Int /\ f[k] = c[k] * power(x, k - 1)
  <2> SUFFICES ASSUME NEW k \in E
               PROVE  c[k] * power(x, k - 1) \in Int /\ k \in Nat \ {0}
    BY DEF Term
  <2>1. k - 1 \in Nat /\ k \in 1..Len(c) /\ c[k] \in Int /\ k \in Nat \ {0}
    OBVIOUS
  <2>2. power(x, k - 1) \in Int
    BY <2>1, PowerFacts
  <2> QED BY <2>1, <2>2
<1>3. m = 0 => E = {}
  OBVIOUS
<1>4. m # 0 => m \in E /\ E \ {m} = 1..(m - 1)
  BY <1>1
<1> HIDE DEF E, f
<1>5. SumOn(f, E) \in Int /\ (E = {} => SumOn(f, E) = 0)
      /\ \A k \in E : SumOn(f, E) = f[k] + SumOn(f, E \ {k})
  BY <1>1, <1>2, SumFacts
<1>6. Eval(c, x, m) = SumOn(f, E) /\ Eval(c, x, m - 1) = SumOn(f, 1..(m - 1))
  BY DEF Eval, f, E
<1>7. ASSUME m # 0
      PROVE  Eval(c, x, m) = c[m] * power(x, m - 1) + Eval(c, x, m - 1)
  BY <1>2, <1>4, <1>5, <1>6, <1>7
<1> QED BY <1>3, <1>5, <1>6, <1>7

\* commitmentAt is the residue of the whole sum.
LEMMA CommitmentEval ==
    ASSUME NEW c \in Seq(Int), NEW x \in Int
    PROVE  /\ commitmentAt(c, x) = mod(Eval(c, x, Len(c)))
           /\ commitmentAt(c, x) \in Scalars
           /\ Cong(commitmentAt(c, x), Eval(c, x, Len(c)))
<1>1. DOMAIN c = 1..Len(c) /\ Len(c) \in 0..Len(c)
  OBVIOUS
<1>2. [k \in 1..Len(c) |-> Term(c, x)[k]] = [k \in DOMAIN c |-> c[k] * power(x, k - 1)]
  BY <1>1 DEF Term
<1>3. commitmentAt(c, x) = mod(Eval(c, x, Len(c)))
  BY <1>2 DEF commitmentAt, Eval, SumOn
<1>4. Eval(c, x, Len(c)) \in Int
  BY <1>1, EvalFacts
<1> QED BY <1>3, <1>4, ModInt, ModCong

\* The weighted values of a polynomial of degree below the number of the
\* points add up to its constant.
LEMMA WeightedEval ==
    ASSUME NEW c \in Seq(Int), NEW S \in SUBSET Indexes, IsFiniteSet(S),
           Len(c) <= Cardinality(S)
    PROVE  \A m \in 0..Len(c) :
             Cong(SumOn([i \in Indexes |-> Eval(c, i, m) * lagrangeCoefficientAtZero(i, S)], S),
                  IF m = 0 THEN 0 ELSE c[1])
<1> DEFINE L(i) == lagrangeCoefficientAtZero(i, S)
           f(m) == [i \in Indexes |-> Eval(c, i, m) * L(i)]
           V(m) == IF m = 0 THEN 0 ELSE c[1]
           T == {m \in Nat : m <= Len(c) => Cong(SumOn(f(m), S), V(m))}
<1>1. \A i \in S : L(i) \in Int /\ i \in Int
  <2>1. 0 \in Nat
    OBVIOUS
  <2> QED BY <2>1, MomentType
<1>2. \A m \in 0..Len(c) : \A i \in S : /\ Eval(c, i, m) \in Int
                                       /\ f(m)[i] = Eval(c, i, m) * L(i) /\ f(m)[i] \in Int
  <2> SUFFICES ASSUME NEW m \in 0..Len(c), NEW i \in S
               PROVE  Eval(c, i, m) \in Int /\ Eval(c, i, m) * L(i) \in Int /\ i \in Indexes
    OBVIOUS
  <2>1. Eval(c, i, m) \in Int
    BY <1>1, EvalFacts
  <2> QED BY <1>1, <2>1
<1> HIDE DEF f
<1>3. 0 \in T
  <2>1. 0 \in 0..Len(c)
    OBVIOUS
  <2>2. \A i \in S : f(0)[i] = 0
    <3> SUFFICES ASSUME NEW i \in S PROVE f(0)[i] = 0
      OBVIOUS
    <3>1. Eval(c, i, 0) = 0
      BY <1>1, <2>1, EvalFacts
    <3>2. f(0)[i] = 0 * L(i)
      BY <1>2, <2>1, <3>1
    <3> QED BY <1>1, <3>2
  <2> DEFINE g == f(0)  z == 0
  <2>3. \A i \in S : g[i] \in Int /\ g[i] = 0 /\ Cong(g[i], z * g[i] + z * g[i])
    <3>1. Cong(0, 0)
      BY CongRefl
    <3> QED BY <2>2, <3>1
  <2>4. z \in Int
    OBVIOUS
  <2> HIDE DEF g, z
  <2>5. Cong(SumOn(g, S), z * SumOn(g, S) + z * SumOn(g, S)) /\ SumOn(g, S) \in Int
    BY <2>3, <2>4, SumLinear, SumFacts
  <2>6. z * SumOn(g, S) + z * SumOn(g, S) = 0
    BY <2>5 DEF z
  <2>7. Cong(SumOn(g, S), 0)
    BY <2>5, <2>6
  <2> QED BY <2>7 DEF g
<1>4. ASSUME NEW m \in T PROVE m + 1 \in T
  <2> SUFFICES ASSUME m + 1 <= Len(c) PROVE Cong(SumOn(f(m + 1), S), c[1])
    OBVIOUS
  <2>1. m \in Nat /\ m \in 0..Len(c) /\ m + 1 \in 0..Len(c) /\ Cong(SumOn(f(m), S), V(m))
        /\ c[m + 1] \in Int /\ c[1] \in Int
    OBVIOUS
  <2> HIDE DEF T
  <2> DEFINE p == [i \in Indexes |-> power(i, m) * L(i)]
             one == 1
             C == c[m + 1]
             g == f(m)
             h == f(m + 1)
  <2>2. \A i \in S : p[i] \in Int /\ g[i] \in Int /\ h[i] \in Int
    BY <1>2, <2>1, MomentType
  <2>3. \A i \in S : Cong(h[i], one * g[i] + C * p[i])
    <3> SUFFICES ASSUME NEW i \in S PROVE Cong(h[i], one * g[i] + C * p[i])
      OBVIOUS
    <3> DEFINE e == Eval(c, i, m)  w == power(i, m)  l == L(i)
    <3>1. e \in Int /\ w \in Int /\ l \in Int /\ C \in Int
      BY <1>1, <1>2, <2>1, PowerFacts
    <3>2. Eval(c, i, m + 1) = C * w + e
      <4>1. m + 1 # 0 /\ (m + 1) - 1 = m
        BY <2>1
      <4> QED BY <1>1, <2>1, <4>1, EvalFacts
    <3>3. h[i] = (C * w + e) * l /\ g[i] = e * l /\ p[i] = w * l
      <4>1. h[i] = Eval(c, i, m + 1) * L(i) /\ g[i] = e * l
        BY <1>2, <2>1
      <4>2. p[i] = w * l
        OBVIOUS
      <4> QED BY <3>2, <4>1, <4>2
    <3> HIDE DEF e, w, l, C, h, g, p
    <3>4. (C * w + e) * l = one * (e * l) + C * (w * l) /\ (C * w + e) * l \in Int
      BY <3>1
    <3>5. Cong((C * w + e) * l, (C * w + e) * l)
      BY <3>4, CongRefl
    <3> QED BY <3>3, <3>4, <3>5
  <2>4. one \in Int /\ C \in Int
    BY <2>1
  <2>5. Moment(S, m) = SumOn(p, S) /\ Moment(S, m) \in Int
    BY <2>1, MomentType DEF Moment
  <2> HIDE DEF p, one, C, g, h, V
  <2>6. Cong(SumOn(h, S), one * SumOn(g, S) + C * SumOn(p, S))
    BY <2>2, <2>3, <2>4, SumLinear
  <2>7. SumOn(h, S) \in Int /\ SumOn(g, S) \in Int /\ SumOn(p, S) \in Int
    BY <2>2, SumFacts
  <2>8. Cong(SumOn(p, S), Delta(m))
    <3>1. Cardinality(S) \in Nat /\ Cardinality(S) > 0
      BY <2>1, FS_CardinalityType
    <3> DEFINE n == Cardinality(S) - 1
    <3>2. n \in Nat /\ Cardinality(S) = n + 1 /\ m \in 0..n
      BY <2>1, <3>1
    <3> HIDE DEF n
    <3>3. Cong(Moment(S, m), Delta(m))
      BY <3>2, MomentValue
    <3> QED BY <2>5, <3>3
  <2>9. Cong(SumOn(g, S), V(m))
    BY <2>1 DEF g
  <2>10. V(m) \in Int /\ Delta(m) \in Int /\ V(m) + C * Delta(m) = c[1]
    <3>1. CASE m = 0
      BY <2>1, <3>1 DEF V, Delta, C
    <3>2. CASE m # 0
      BY <2>1, <2>4, <3>2 DEF V, Delta
    <3> QED BY <3>1, <3>2
  <2>11. Cong(one * SumOn(g, S) + C * SumOn(p, S), c[1])
    <3> DEFINE sg == SumOn(g, S)  sp == SumOn(p, S)  v == V(m)  e == Delta(m)
               csp == C * sp  ce == C * e
    <3>1. sg \in Int /\ sp \in Int /\ v \in Int /\ e \in Int /\ csp \in Int /\ ce \in Int
      BY <2>4, <2>7, <2>10
    <3>2. Cong(sg, v) /\ Cong(sp, e)
      BY <2>8, <2>9
    <3>3. Cong(csp, ce)
      <4> HIDE DEF sp, e
      <4> QED BY <2>4, <3>1, <3>2, CongScale
    <3> HIDE DEF sg, sp, v, e, csp, ce
    <3>4. Cong(sg + csp, v + ce)
      BY <3>1, <3>2, <3>3, CongAdd
    <3>5. one * sg = sg
      BY <3>1 DEF one
    <3>6. v + ce = c[1]
      BY <2>10 DEF v, ce, e
    <3>7. Cong(one * sg + csp, c[1])
      BY <3>4, <3>5, <3>6
    <3> QED BY <3>7 DEF sg, csp, sp
  <2>12. one * SumOn(g, S) + C * SumOn(p, S) \in Int
    BY <2>4, <2>7
  <2>13. Cong(SumOn(h, S), c[1])
    <3> DEFINE u == one * SumOn(g, S) + C * SumOn(p, S)  s == SumOn(h, S)
    <3>1. u \in Int /\ s \in Int /\ Cong(s, u) /\ Cong(u, c[1])
      BY <2>6, <2>7, <2>11, <2>12
    <3> HIDE DEF u, s
    <3>2. Cong(s, c[1])
      BY <2>1, <3>1, CongTrans
    <3> QED BY <3>2 DEF s
  <2> QED BY <2>13 DEF h
<1>5. \A m \in Nat : m \in T
  <2>1. T \in SUBSET Nat
    OBVIOUS
  <2> HIDE DEF T
  <2> QED BY <1>3, <1>4, <2>1, NatSetInduction
<1> QED BY <1>5 DEF f

\* Interpolation at zero of the committed share keys of enough indexes
\* returns the constant commitment, the group key.
THEOREM Interpolation ==
    ASSUME NEW c \in Seq(Scalars), Len(c) >= 1,
           NEW S \in SUBSET Indexes, IsFiniteSet(S), Len(c) <= Cardinality(S)
    PROVE  Interpolate([i \in S |-> commitmentAt(c, i)]) = c[1]
<1> DEFINE points == [i \in S |-> commitmentAt(c, i)]
           L(i) == lagrangeCoefficientAtZero(i, S)
           n == Len(c)
           f == [i \in Indexes |-> commitmentAt(c, i) * L(i)]
           e == [i \in Indexes |-> Eval(c, i, n) * L(i)]
<1>1. c \in Seq(Int) /\ n \in 0..Len(c) /\ n # 0 /\ c[1] \in Scalars
  <2>1. \A k \in 1..Len(c) : c[k] \in Int
    BY ModScalar
  <2> QED BY <2>1
<1>2. Interpolate(points) = mod(SumOn(f, S))
  <2>1. DOMAIN points = S
    OBVIOUS
  <2>2. [i \in DOMAIN points |-> points[i] * lagrangeCoefficientAtZero(i, DOMAIN points)]
        = [i \in S |-> f[i]]
    BY <2>1
  <2> QED BY <2>2 DEF Interpolate, SumOn
<1>3. \A i \in S : i \in Int /\ L(i) \in Int /\ Eval(c, i, n) \in Int
                   /\ commitmentAt(c, i) \in Int /\ Cong(commitmentAt(c, i), Eval(c, i, n))
  <2>1. 0 \in Nat
    OBVIOUS
  <2>2. \A i \in S : i \in Int /\ L(i) \in Int
    BY <2>1, MomentType
  <2>3. \A i \in S : Eval(c, i, n) \in Int
    BY <1>1, <2>2, EvalFacts
  <2>4. \A i \in S : commitmentAt(c, i) \in Scalars /\ Cong(commitmentAt(c, i), Eval(c, i, n))
    BY <1>1, <2>2, CommitmentEval
  <2> QED BY <2>2, <2>3, <2>4, ModScalar
<1>4. \A i \in S : f[i] \in Int /\ e[i] \in Int
  <2> SUFFICES ASSUME NEW i \in S
               PROVE  commitmentAt(c, i) * L(i) \in Int /\ Eval(c, i, n) * L(i) \in Int
                      /\ i \in Indexes
    OBVIOUS
  <2> HIDE DEF L, n
  <2> QED BY <1>3
<1>5. \A i \in S : Cong(f[i], 1 * e[i] + 0 * e[i])
  <2> SUFFICES ASSUME NEW i \in S PROVE Cong(f[i], 1 * e[i] + 0 * e[i])
    OBVIOUS
  <2> DEFINE x == commitmentAt(c, i)  y == Eval(c, i, n)  l == L(i)
  <2>1. x \in Int /\ y \in Int /\ l \in Int /\ Cong(x, y)
    BY <1>3
  <2>2. f[i] = x * l /\ e[i] = y * l
    OBVIOUS
  <2> HIDE DEF x, y, l, f, e
  <2>3. Cong(x * l, y * l)
    BY <2>1, CongTimes
  <2>4. 1 * (y * l) + 0 * (y * l) = y * l
    BY <2>1
  <2> QED BY <2>2, <2>3, <2>4
<1>6. Cong(SumOn(e, S), c[1])
  BY <1>1, WeightedEval
<1> HIDE DEF f, e, points, n
<1>7. SumOn(f, S) \in Int /\ SumOn(e, S) \in Int
  BY <1>4, SumFacts
<1>8. Cong(SumOn(f, S), SumOn(e, S))
  <2> DEFINE one == 1  zero == 0
  <2>1. one \in Int /\ zero \in Int /\ \A i \in S : Cong(f[i], one * e[i] + zero * e[i])
    BY <1>5
  <2> HIDE DEF one, zero
  <2>2. Cong(SumOn(f, S), one * SumOn(e, S) + zero * SumOn(e, S))
    BY <1>4, <2>1, SumLinear
  <2>3. one * SumOn(e, S) + zero * SumOn(e, S) = SumOn(e, S)
    BY <1>7 DEF one, zero
  <2> QED BY <2>2, <2>3
<1>9. Cong(SumOn(f, S), c[1])
  BY <1>1, <1>6, <1>7, <1>8, ModScalar, CongTrans
<1>10. mod(SumOn(f, S)) = c[1]
  BY <1>1, <1>7, <1>9, CongMod, ModScalar
<1> QED BY <1>2, <1>10 DEF points

------------------------------------------------------------------------------
(* Horner's rule                                                           *)

\* Sums of congruent terms are congruent.
LEMMA SumCong ==
    ASSUME NEW S, IsFiniteSet(S), NEW f, NEW h,
           \A x \in S : f[x] \in Int /\ h[x] \in Int /\ Cong(h[x], f[x])
    PROVE  Cong(SumOn(h, S), SumOn(f, S))
<1> DEFINE one == 1  zero == 0
<1>1. \A x \in S : Cong(h[x], one * f[x] + zero * f[x])
  <2> SUFFICES ASSUME NEW x \in S PROVE Cong(h[x], one * f[x] + zero * f[x])
    OBVIOUS
  <2>1. one * f[x] + zero * f[x] = f[x]
    OBVIOUS
  <2> QED BY <2>1
<1>2. one \in Int /\ zero \in Int
  OBVIOUS
<1> HIDE DEF one, zero
<1>3. Cong(SumOn(h, S), one * SumOn(f, S) + zero * SumOn(f, S))
  BY <1>1, <1>2, SumLinear
<1>4. SumOn(f, S) \in Int
  BY SumFacts
<1>5. one * SumOn(f, S) + zero * SumOn(f, S) = SumOn(f, S)
  BY <1>4 DEF one, zero
<1> QED BY <1>3, <1>5

\* The values a function takes on a finite set are finitely many.
LEMMA FiniteImage ==
    ASSUME NEW S, IsFiniteSet(S), NEW b
    PROVE  IsFiniteSet({b[x] : x \in S})
<1> DEFINE Im(s) == {b[x] : x \in s}
           P == {s \in SUBSET S : IsFiniteSet(Im(s))}
<1>1. {} \in P
  <2>1. Im({}) = {}
    OBVIOUS
  <2> QED BY <2>1, FS_EmptySet
<1>2. ASSUME NEW s \in P, NEW x \in S \ s PROVE s \cup {x} \in P
  <2>1. Im(s \cup {x}) = Im(s) \cup {b[x]}
    OBVIOUS
  <2>2. IsFiniteSet(Im(s)) /\ s \cup {x} \in SUBSET S
    OBVIOUS
  <2> HIDE DEF Im
  <2>3. IsFiniteSet(Im(s) \cup {b[x]})
    BY <2>2, FS_AddElement
  <2> QED BY <2>1, <2>2, <2>3
<1>3. P \in SUBSET SUBSET S
  OBVIOUS
<1>4. S \in P
  <2> HIDE DEF P
  <2> QED BY <1>1, <1>2, <1>3, SubsetInduction
<1> QED BY <1>4

\* A sum may be taken over any set of names of its terms.
LEMMA SumReindex ==
    ASSUME NEW S, IsFiniteSet(S), NEW b, NEW f, NEW g,
           \A x \in S : f[b[x]] \in Int /\ g[x] = f[b[x]],
           \A x, y \in S : b[x] = b[y] => x = y
    PROVE  SumOn(g, S) = SumOn(f, {b[x] : x \in S})
<1> DEFINE Im(s) == {b[x] : x \in s}
           P == {s \in SUBSET S : SumOn(g, s) = SumOn(f, Im(s))}
<1>0. \A s \in SUBSET S : IsFiniteSet(s) /\ IsFiniteSet(Im(s))
  <2> SUFFICES ASSUME NEW s \in SUBSET S PROVE IsFiniteSet(s) /\ IsFiniteSet(Im(s))
    OBVIOUS
  <2>1. IsFiniteSet(s)
    BY FS_Subset
  <2> QED BY <2>1, FiniteImage
<1>1. {} \in P
  <2>1. Im({}) = {} /\ IsFiniteSet({})
    BY FS_EmptySet
  <2> HIDE DEF Im
  <2>2. SumOn(g, {}) = 0 /\ SumOn(f, {}) = 0
    BY <2>1, SumFacts
  <2> QED BY <2>1, <2>2
<1>2. ASSUME NEW s \in P, NEW x \in S \ s PROVE s \cup {x} \in P
  <2> DEFINE t == s \cup {x}  y == b[x]
  <2>1. t \in SUBSET S /\ t \ {x} = s /\ x \in t /\ s \in SUBSET S
        /\ SumOn(g, s) = SumOn(f, Im(s))
    OBVIOUS
  <2>2. Im(t) \ {y} = Im(s) /\ y \in Im(t)
    OBVIOUS
  <2>3. \A z \in t : g[z] \in Int
    BY <2>1
  <2>4. \A z \in Im(t) : f[z] \in Int
    BY <2>1
  <2>5. IsFiniteSet(t) /\ IsFiniteSet(Im(t)) /\ g[x] = f[y]
    BY <1>0, <2>1
  <2> HIDE DEF P, t, y, Im
  <2>6. SumOn(g, t) = g[x] + SumOn(g, s)
    BY <2>1, <2>3, <2>5, SumFacts
  <2>7. SumOn(f, Im(t)) = f[y] + SumOn(f, Im(s))
    <3> DEFINE I == Im(t)
    <3>1. IsFiniteSet(I) /\ y \in I /\ I \ {y} = Im(s) /\ \A z \in I : f[z] \in Int
      BY <2>2, <2>4, <2>5
    <3> HIDE DEF I
    <3>2. SumOn(f, I) = f[y] + SumOn(f, I \ {y})
      BY <3>1, SumFacts
    <3> QED BY <3>1, <3>2 DEF I
  <2>8. SumOn(g, t) = SumOn(f, Im(t))
    BY <2>1, <2>5, <2>6, <2>7
  <2> QED BY <2>1, <2>8 DEF P, t
<1>3. S \in P
  <2>1. P \in SUBSET SUBSET S
    OBVIOUS
  <2> HIDE DEF P
  <2> QED BY <1>1, <1>2, <2>1, SubsetInduction
<1> QED BY <1>3

\* FoldRight takes the least index first.
LEMMA MinFacts ==
    ASSUME NEW s \in SUBSET Nat, s # {}
    PROVE  Min(s) \in s /\ \A y \in s : Min(s) <= y
<1>1. \E x \in s : \A y \in s : x <= y
  BY LeastNat
<1> QED BY <1>1 DEF Min

\* polynomialAt is the last of a sequence of values, one for each coefficient.
LEMMA HornerSteps ==
    ASSUME NEW c \in Seq(Scalars), NEW x \in Int
    PROVE  \E H : /\ polynomialAt(c, x) = H[1]
                  /\ H[Len(c) + 1] = 0
                  /\ \A k \in 1..(Len(c) + 1) : H[k] \in Scalars
                  /\ \A k \in 1..Len(c) : H[k] = mod(H[k + 1] * x + c[k])
<1> DEFINE S == DOMAIN c
           h == [k \in S |-> [v \in Scalars |-> mod(v * x + c[k])]]
           least == [s \in SUBSET S |-> Min(s)]
           Iter(F) == F = [s \in SUBSET S |-> IF s = {} THEN 0
                                              ELSE mod(F[s \ {Min(s)}] * x + c[Min(s)])]
<1>1. S = 1..Len(c) /\ IsFiniteSet(S) /\ S \in SUBSET Nat
  BY FS_Interval
<1>2. \A k \in S, v \in Scalars : v * x + c[k] \in Int /\ mod(v * x + c[k]) \in Scalars
  BY ModInt, ModScalar
<1>3. h \in [S -> [Scalars -> Scalars]]
      /\ \A k \in S, v \in Scalars : h[k][v] = mod(v * x + c[k])
  BY <1>2
<1>4. \A s \in SUBSET S : s # {} => least[s] \in s /\ least[s] = Min(s) /\ Min(s) \in S
  BY <1>1, MinFacts
<1>5. PICK G : IsTable(S, Scalars, 0, h, least, G)
  <2> DEFINE zero == 0
  <2>1. zero \in Scalars
    BY OrderNat DEF Scalars
  <2> HIDE DEF h, least, zero, S
  <2>2. \E G : IsTable(S, Scalars, zero, h, least, G)
    BY <1>1, <1>3, <1>4, <2>1, TableExists
  <2> QED BY <2>2 DEF zero
<1>6. G \in [SUBSET S -> Scalars] /\ G[{}] = 0
      /\ \A s \in SUBSET S : s # {} => G[s] = mod(G[s \ {Min(s)}] * x + c[Min(s)])
  <2> HIDE DEF h, least, S
  <2>1. \A s \in SUBSET S : s # {} => G[s] = h[Min(s)][G[s \ {Min(s)}]]
    BY <1>4, <1>5 DEF IsTable
  <2>2. G \in [SUBSET S -> Scalars] /\ G[{}] = 0
    BY <1>5 DEF IsTable
  <2> QED BY <1>3, <1>4, <2>1, <2>2
<1>7. Iter(G)
  BY <1>6
<1>8. PICK F : Iter(F) /\ polynomialAt(c, x) = F[S]
  <2> DEFINE I == CHOOSE F : Iter(F)
  <2>1. Iter(I)
    <3> HIDE DEF Iter
    <3> QED BY <1>7
  <2>2. polynomialAt(c, x) = I[S]
    BY DEF polynomialAt, FoldRight, MapThenFoldSet
  <2> HIDE DEF I, Iter
  <2> QED BY <2>1, <2>2
<1>9. F[S] = G[S]
  <2>1. ASSUME NEW s \in SUBSET S, \A t \in SUBSET s : t # s => F[t] = G[t] PROVE F[s] = G[s]
    <3>1. CASE s = {}
      BY <3>1, <1>6, <1>8
    <3>2. CASE s # {}
      <4> DEFINE m == Min(s)
      <4>1. F[s] = mod(F[s \ {m}] * x + c[m])
        BY <3>2, <1>8
      <4>2. G[s] = mod(G[s \ {m}] * x + c[m])
        BY <3>2, <1>6
      <4>3. m \in s
        BY <3>2, <1>4
      <4>4. F[s \ {m}] = G[s \ {m}]
        <5> HIDE DEF m
        <5> QED BY <4>3, <2>1
      <4> QED BY <4>1, <4>2, <4>4
    <3> QED BY <3>1, <3>2
  <2>2. \A s \in SUBSET S : F[s] = G[s]
    <3> HIDE DEF Iter, S
    <3>1. \A s \in SUBSET S :
            (\A u \in SUBSET s : u # s => F[u] = G[u]) => F[s] = G[s]
      BY <2>1
    <3>2. IsFiniteSet(S)
      BY <1>1
    <3> QED BY <3>1, <3>2, RecursionUnique
  <2> QED BY <2>2
<1> DEFINE H == [k \in 1..(Len(c) + 1) |-> G[k..Len(c)]]
<1>10. H[1] = G[S] /\ H[Len(c) + 1] = 0
  <2>1. (Len(c) + 1)..Len(c) = {} /\ Len(c) + 1 \in 1..(Len(c) + 1) /\ 1 \in 1..(Len(c) + 1)
    OBVIOUS
  <2> QED BY <1>1, <1>6, <2>1
<1>11. \A k \in 1..(Len(c) + 1) : H[k] \in Scalars
  <2> SUFFICES ASSUME NEW k \in 1..(Len(c) + 1) PROVE k..Len(c) \in SUBSET S
    BY <1>6
  <2> QED BY <1>1
<1>12. ASSUME NEW k \in 1..Len(c) PROVE H[k] = mod(H[k + 1] * x + c[k])
  <2> DEFINE s == k..Len(c)
  <2>1. s \in SUBSET S /\ s # {} /\ k \in s /\ s \ {k} = (k + 1)..Len(c)
    BY <1>1
  <2>2. Min(s) = k
    <3>1. Min(s) \in s /\ Min(s) <= k
      <4> HIDE DEF s
      <4> QED BY <1>1, <2>1, MinFacts
    <3> QED BY <3>1
  <2>3. H[k] = G[s]
    OBVIOUS
  <2>4. H[k + 1] = G[s \ {k}]
    <3>1. k + 1 \in 1..(Len(c) + 1) /\ s \ {k} = (k + 1)..Len(c)
      BY <2>1
    <3> HIDE DEF s
    <3> QED BY <3>1
  <2> HIDE DEF s, H, S
  <2> QED BY <1>6, <2>1, <2>2, <2>3, <2>4
<1> HIDE DEF H
<1> QED BY <1>8, <1>9, <1>10, <1>11, <1>12

\* One step of Horner's rule leaves the value of the polynomial alone.
LEMMA HornerAlgebra ==
    ASSUME NEW E \in Int, NEW p \in Int, NEW x \in Int, NEW a \in Int, NEW h \in Int,
           NEW E1 \in Int, NEW p1 \in Int, NEW h1 \in Int,
           Cong(h, h1 * x + a), Cong(p1, p * x), E1 = a * p + E
    PROVE  Cong(E + p * h, E1 + p1 * h1)
<1> DEFINE q == p * x * h1  r == a * p  u == p * h  v == p1 * h1
<1>1. q \in Int /\ r \in Int /\ u \in Int /\ v \in Int
  OBVIOUS
<1>2. Cong(v, q)
  <2>1. p * x \in Int
    OBVIOUS
  <2> QED BY <2>1, CongTimes
<1>3. Cong(u, q + r)
  <2>1. h1 * x + a \in Int
    OBVIOUS
  <2>2. Cong(p * h, p * (h1 * x + a))
    BY <2>1, CongTimes
  <2>3. p * (h1 * x + a) = q + r
    <3>1. p * (h1 * x + a) = p * (h1 * x) + p * a
      <4> DEFINE w == h1 * x
      <4>1. w \in Int
        OBVIOUS
      <4> HIDE DEF w
      <4>2. p * (w + a) = p * w + p * a
        BY <4>1
      <4> QED BY <4>2 DEF w
    <3>2. p * (h1 * x) = p * x * h1
      OBVIOUS
    <3>3. p * a = a * p
      OBVIOUS
    <3> QED BY <3>1, <3>2, <3>3
  <2> QED BY <2>2, <2>3
<1> HIDE DEF q, r, u, v
<1>4. Cong(E, E) /\ Cong(r + E, r + E)
  BY <1>1, CongRefl
<1>5. Cong(E + u, E + (q + r))
  BY <1>1, <1>3, <1>4, CongAdd
<1>6. Cong((r + E) + v, (r + E) + q)
  BY <1>1, <1>2, <1>4, CongAdd
<1>7. (r + E) + q = E + (q + r)
  BY <1>1
<1>8. Cong(E + u, (r + E) + v)
  <2> DEFINE y == E + (q + r)  z == (r + E) + v  w == E + u
  <2>1. y \in Int /\ z \in Int /\ w \in Int
    BY <1>1
  <2>2. Cong(w, y) /\ Cong(z, y)
    BY <1>5, <1>6, <1>7
  <2> HIDE DEF y, z, w
  <2>3. Cong(w, z)
    BY <2>1, <2>2, CongSym, CongTrans
  <2> QED BY <2>3 DEF w, z
<1>9. E1 = r + E
  BY DEF r
<1> QED BY <1>8, <1>9 DEF u, v

\* polynomialAt, the evaluation a dealer uses, and commitmentAt, the one a
\* recipient checks it with, agree.
LEMMA Horner ==
    ASSUME NEW c \in Seq(Scalars), NEW x \in Int
    PROVE  polynomialAt(c, x) = commitmentAt(c, x)
<1> PICK H : /\ polynomialAt(c, x) = H[1]
             /\ H[Len(c) + 1] = 0
             /\ \A k \in 1..(Len(c) + 1) : H[k] \in Scalars
             /\ \A k \in 1..Len(c) : H[k] = mod(H[k + 1] * x + c[k])
  BY HornerSteps
<1> DEFINE n == Len(c)
           V(j) == Eval(c, x, j) + power(x, j) * H[j + 1]
           T == {j \in Nat : j <= n => Cong(H[1], V(j))}
<1>0. n \in Nat /\ Scalars \in SUBSET Int /\ c \in Seq(Int) /\ \A k \in 1..n : c[k] \in Int
  BY ModScalar
<1>A. H[1] \in Scalars /\ H[1] \in Int
  <2>1. 1 \in 1..(n + 1)
    BY <1>0
  <2> QED BY <1>0, <2>1
<1>1. \A j \in 0..n : Eval(c, x, j) \in Int /\ power(x, j) \in Int /\ H[j + 1] \in Int
                      /\ V(j) \in Int
  <2> SUFFICES ASSUME NEW j \in 0..n
               PROVE Eval(c, x, j) \in Int /\ power(x, j) \in Int /\ H[j + 1] \in Int
                     /\ V(j) \in Int
    OBVIOUS
  <2>1. Eval(c, x, j) \in Int
    BY <1>0, EvalFacts
  <2>2. power(x, j) \in Int
    BY <1>0, PowerFacts
  <2>3. H[j + 1] \in Int
    <3>1. j + 1 \in 1..(n + 1)
      BY <1>0
    <3> QED BY <1>0, <3>1
  <2> QED BY <2>1, <2>2, <2>3
<1>2. 0 \in T
  <2>1. Eval(c, x, 0) = 0
    <3>1. 0 \in 0..n
      BY <1>0
    <3> QED BY <1>0, <3>1, EvalFacts
  <2>2. H[1] \in Int /\ power(x, 0) = 1
    BY <1>A, PowerFacts
  <2>3. V(0) = H[1]
    BY <2>1, <2>2
  <2> QED BY <2>2, <2>3, CongRefl
<1>3. ASSUME NEW j \in T PROVE j + 1 \in T
  <2>1. SUFFICES ASSUME j + 1 <= n PROVE Cong(H[1], V(j + 1))
    OBVIOUS
  <2>2. j \in 0..n /\ j + 1 \in 0..n /\ j + 1 \in 1..n /\ j + 1 # 0
    BY <1>0, <2>1
  <2>3. Cong(H[1], V(j))
    BY <2>2
  <2>4. Eval(c, x, j + 1) = c[j + 1] * power(x, j) + Eval(c, x, j)
    BY <1>0, <2>2, EvalFacts
  <2>5. Cong(power(x, j + 1), power(x, j) * x)
    <3> DEFINE y == power(x, j) * x
    <3>1. power(x, j + 1) = mod(y)
      BY <2>2, PowerFacts
    <3>2. y \in Int
      BY <1>1, <2>2
    <3> HIDE DEF y
    <3>3. Cong(power(x, j + 1), y)
      BY <3>1, <3>2, ModCong
    <3> QED BY <3>3 DEF y
  <2>6. Cong(H[j + 1], H[j + 2] * x + c[j + 1])
    <3> DEFINE y == H[j + 2] * x + c[j + 1]
    <3>1. H[j + 2] \in Int
      <4>1. j + 2 \in 1..(n + 1)
        BY <2>2
      <4> QED BY <1>0, <4>1
    <3>2. H[j + 1] = mod(y)
      <4>1. (j + 1) + 1 = j + 2
        BY <2>2
      <4> QED BY <2>2, <4>1
    <3>3. y \in Int
      BY <1>0, <2>2, <3>1
    <3> HIDE DEF y
    <3>4. Cong(H[j + 1], y)
      BY <3>2, <3>3, ModCong
    <3> QED BY <3>4 DEF y
  <2>7. Cong(V(j), V(j + 1))
    <3> DEFINE E == Eval(c, x, j)  p == power(x, j)  a == c[j + 1]  h == H[j + 1]
               E1 == Eval(c, x, j + 1)  p1 == power(x, j + 1)  h1 == H[(j + 1) + 1]
    <3>1. E \in Int /\ p \in Int /\ a \in Int /\ h \in Int /\ E1 \in Int /\ p1 \in Int /\ h1 \in Int
      BY <1>0, <1>1, <2>2
    <3>2. Cong(h, h1 * x + a)
      <4>1. (j + 1) + 1 = j + 2
        BY <2>2
      <4> QED BY <2>6, <4>1
    <3>3. Cong(p1, p * x) /\ E1 = a * p + E
      BY <2>4, <2>5
    <3> HIDE DEF E, p, a, h, E1, p1, h1
    <3>4. Cong(E + p * h, E1 + p1 * h1)
      BY <3>1, <3>2, <3>3, HornerAlgebra
    <3> QED BY <3>4 DEF E, p, h, E1, p1, h1
  <2>8. H[1] \in Int /\ V(j) \in Int /\ V(j + 1) \in Int
    <3> HIDE DEF V
    <3> QED BY <1>A, <1>1, <2>2
  <2> HIDE DEF V
  <2> QED BY <2>3, <2>7, <2>8, CongTrans
<1>4. n \in T
  <2> HIDE DEF T
  <2>1. T \in SUBSET Nat
    BY DEF T
  <2> QED BY <1>0, <1>2, <1>3, <2>1, NatSetInduction
<1>5. Cong(H[1], Eval(c, x, n))
  <2>1. power(x, n) * H[n + 1] = 0
    <3>1. power(x, n) \in Int
      BY <1>0, <1>1
    <3> QED BY <3>1
  <2>2. V(n) = Eval(c, x, n)
    BY <1>0, <1>1, <2>1
  <2>3. Cong(H[1], V(n))
    <3> HIDE DEF V
    <3> QED BY <1>0, <1>4
  <2> QED BY <2>2, <2>3
<1>6. commitmentAt(c, x) = mod(Eval(c, x, n)) /\ H[1] \in Scalars /\ H[1] \in Int
      /\ Eval(c, x, n) \in Int
  <2>1. commitmentAt(c, x) = mod(Eval(c, x, n))
    BY <1>0, CommitmentEval
  <2>2. n \in 0..n
    BY <1>0
  <2>3. Eval(c, x, n) \in Int
    <3> HIDE DEF V
    <3> QED BY <1>1, <2>2
  <2> QED BY <1>A, <2>1, <2>3
<1> DEFINE y == Eval(c, x, n)
<1>7. mod(H[1]) = mod(y)
  <2> HIDE DEF y
  <2> QED BY <1>5, <1>6, CongMod DEF y
<1>8. mod(H[1]) = H[1]
  BY <1>6, ModScalar
<1> QED BY <1>6, <1>7, <1>8

------------------------------------------------------------------------------
(* Threshold signatures                                                    *)

\* Valid partials of enough shares aggregate to the signature of the group: every
\* check of aggregateThresholdShares passes on them.
LEMMA PartialsAggregate ==
    ASSUME NEW c \in Seq(Scalars), Len(c) >= 1, c[1] # 0,
           NEW S \in SUBSET Indexes, IsFiniteSet(S), Len(c) <= Cardinality(S),
           NEW m \in Scalars \ {0}, NEW threshold, threshold <= Cardinality(S),
           NEW keys, \A i \in S : keys[i] = commitmentAt(c, i) /\ keys[i] # 0
    PROVE  Aggregates(m, c[1], threshold, [i \in S |-> signPartial(m, keys[i])], keys)
<1> DEFINE p == [i \in S |-> signPartial(m, keys[i])]
           w(i) == lagrangeCoefficientAtZero(i, S)
           f == [i \in S |-> commitmentAt(c, i) * w(i)]
           h == [i \in S |-> p[i] * w(i)]
<1>0. m \in Int /\ mod(m) # 0 /\ c \in Seq(Int) /\ c[1] \in Scalars /\ c[1] \in Int
      /\ S \in SUBSET Int
  <2>1. m \in Int /\ mod(m) # 0
    BY ModScalar
  <2>2. c \in Seq(Int) /\ c[1] \in Scalars /\ c[1] \in Int
    BY ModScalar
  <2>3. S \in SUBSET Int
    BY OrderNat DEF Indexes
  <2> QED BY <2>1, <2>2, <2>3
<1>1. ASSUME NEW k \in Scalars \ {0} PROVE verifySignature(m, k, mod(m * k))
  <2>1. k \in Int /\ mod(k) # 0
    BY ModScalar
  <2>2. mod(m * k) # 0
    BY <1>0, <2>1, NonzeroProduct
  <2> QED BY <2>2 DEF verifySignature
<1>2. \A i \in S : keys[i] \in Scalars \ {0} /\ w(i) \in Int
  <2> SUFFICES ASSUME NEW i \in S PROVE keys[i] \in Scalars \ {0} /\ w(i) \in Int
    OBVIOUS
  <2>1. commitmentAt(c, i) \in Scalars
    BY <1>0, CommitmentEval
  <2>2. w(i) \in Int
    BY LagrangeParts, ModScalar
  <2> QED BY <2>1, <2>2
<1>3. \A i \in S : p[i] = mod(m * keys[i])
  BY DEF signPartial
<1>4. \A i \in S : verifySignature(m, keys[i], p[i])
  <2> HIDE DEF p
  <2> QED BY <1>1, <1>2, <1>3
<1>5. \A i \in S : f[i] \in Int /\ h[i] \in Int /\ Cong(h[i], m * f[i] + 0 * f[i])
  <2> SUFFICES ASSUME NEW i \in S
               PROVE f[i] \in Int /\ h[i] \in Int /\ Cong(h[i], m * f[i] + 0 * f[i])
    OBVIOUS
  <2> DEFINE k == keys[i]  l == w(i)  y == m * k
  <2>1. k \in Int /\ l \in Int /\ k = commitmentAt(c, i)
    BY <1>2, ModScalar
  <2>2. h[i] = mod(y) * l /\ f[i] = k * l
    BY <1>3, <2>1
  <2> HIDE DEF k, l, f, h
  <2>3. y \in Int /\ f[i] \in Int
    BY <1>0, <2>1, <2>2
  <2>4. m * f[i] + 0 * f[i] = y * l
    <3>1. m * (k * l) = (m * k) * l
      BY <1>0, <2>1
    <3>2. 0 * f[i] = 0 /\ m * f[i] \in Int
      BY <1>0, <2>3
    <3> QED BY <2>2, <3>1, <3>2
  <2> HIDE DEF y
  <2>5. mod(y) \in Int /\ Cong(mod(y), y)
    BY <2>3, ModInt, ModCong
  <2>6. Cong(mod(y) * l, y * l)
    BY <2>1, <2>3, <2>5, CongTimes
  <2>7. h[i] \in Int
    BY <2>1, <2>2, <2>5
  <2> QED BY <2>2, <2>3, <2>4, <2>6, <2>7
<1>6. Interpolate([i \in S |-> commitmentAt(c, i)]) = c[1]
  BY Interpolation
<1>7. Interpolate([i \in S |-> commitmentAt(c, i)]) = mod(SumOn(f, S))
  <2> DEFINE g == [i \in S |-> commitmentAt(c, i)]
  <2>1. DOMAIN g = S
    OBVIOUS
  <2>2. [i \in DOMAIN g |-> g[i] * lagrangeCoefficientAtZero(i, DOMAIN g)] = f
    BY <2>1
  <2>3. [i \in S |-> f[i]] = f
    OBVIOUS
  <2> HIDE DEF g, f
  <2> QED BY <2>2, <2>3 DEF Interpolate, SumOn, g
<1>8. Interpolate(p) = mod(SumOn(h, S))
  <2>1. DOMAIN p = S
    OBVIOUS
  <2> HIDE DEF p
  <2>2. [i \in DOMAIN p |-> p[i] * lagrangeCoefficientAtZero(i, DOMAIN p)] = h
    BY <2>1
  <2>3. [i \in S |-> h[i]] = h
    OBVIOUS
  <2> HIDE DEF h
  <2> QED BY <2>2, <2>3 DEF Interpolate, SumOn
<1> DEFINE s == SumOn(f, S)  t == SumOn(h, S)  zero == 0
<1>9. s \in Int /\ t \in Int /\ Cong(t, m * s + zero * s)
  <2>1. zero \in Int /\ \A i \in S : f[i] \in Int /\ h[i] \in Int
                        /\ Cong(h[i], m * f[i] + zero * f[i])
    BY <1>5
  <2> HIDE DEF f, h, zero
  <2>2. SumOn(f, S) \in Int /\ SumOn(h, S) \in Int
    BY <2>1, SumFacts
  <2>3. Cong(SumOn(h, S), m * SumOn(f, S) + zero * SumOn(f, S))
    BY <1>0, <2>1, SumLinear
  <2> QED BY <2>2, <2>3
<1>10. mod(t) = mod(m * c[1])
  <2>1. mod(s) = c[1]
    BY <1>6, <1>7
  <2> HIDE DEF s, t
  <2>2. m * s + zero * s = m * s
    BY <1>0, <1>9
  <2>3. Cong(s, c[1])
    <3>1. mod(s) = mod(c[1])
      BY <1>0, <2>1, ModScalar
    <3> QED BY <1>0, <1>9, <3>1, CongMod
  <2>4. Cong(m * s, m * c[1])
    BY <1>0, <1>9, <2>3, CongTimes
  <2> DEFINE u == m * s  v == m * c[1]
  <2>5. u \in Int /\ v \in Int /\ Cong(t, u) /\ Cong(u, v)
    <3>1. u \in Int /\ v \in Int
      BY <1>0, <1>9
    <3> QED BY <1>9, <2>2, <2>4, <3>1
  <2> HIDE DEF u, v
  <2>6. mod(t) = mod(v)
    BY <1>9, <2>5, CongTrans, CongMod
  <2> QED BY <2>6 DEF v
<1>11. verifySignature(m, c[1], Interpolate(p))
  <2>1. verifySignature(m, c[1], mod(m * c[1]))
    BY <1>0, <1>1
  <2> QED BY <1>8, <1>10, <2>1
<1>12. DOMAIN p = S
  OBVIOUS
<1> HIDE DEF p
<1>13. Aggregates(m, c[1], threshold, p, keys)
  BY <1>4, <1>11, <1>12 DEF Aggregates
<1> QED BY <1>13 DEF p

------------------------------------------------------------------------------
(* The ceremony: rosters, manifests and sums of deals                      *)

\* A roster numbers its members from one, each once, with indexes that are
\* different in the field.
LEMMA RosterFacts ==
    ASSUME NEW roster, IsRoster(roster)
    PROVE  /\ DOMAIN roster = 1..Len(roster) /\ Len(roster) \in Nat
           /\ DOMAIN roster \in SUBSET Indexes /\ IsFiniteSet(DOMAIN roster)
           /\ \A id \in Members(roster) : /\ IndexOf(roster, id) \in DOMAIN roster
                                          /\ roster[IndexOf(roster, id)] = id
           /\ \A i \in DOMAIN roster : /\ roster[i] \in Members(roster)
                                       /\ IndexOf(roster, roster[i]) = i
<1>1. roster \in Seq(Members(roster)) /\ IsInjective(roster) /\ Len(roster) < Order
  BY DEF IsRoster
<1>2. DOMAIN roster = 1..Len(roster) /\ Len(roster) \in Nat
  BY <1>1
<1>3. DOMAIN roster \in SUBSET Indexes
  BY <1>1, <1>2, OrderNat DEF Indexes
<1>4. IsFiniteSet(DOMAIN roster)
  BY <1>2, FS_Interval
<1>5. ASSUME NEW id \in Members(roster)
      PROVE IndexOf(roster, id) \in DOMAIN roster /\ roster[IndexOf(roster, id)] = id
  BY DEF Members, Range, IndexOf
<1>6. ASSUME NEW i \in DOMAIN roster
      PROVE roster[i] \in Members(roster) /\ IndexOf(roster, roster[i]) = i
  <2>1. roster[i] \in Members(roster)
    BY DEF Members, Range
  <2>2. \A j \in DOMAIN roster : roster[j] = roster[i] => j = i
    BY <1>1 DEF IsInjective
  <2> QED BY <1>5, <2>1, <2>2
<1> QED BY <1>2, <1>3, <1>4, <1>5, <1>6

\* Distinct members have distinct images.
LEMMA InjectiveImage ==
    ASSUME NEW S, IsFiniteSet(S), NEW b, \A x, y \in S : b[x] = b[y] => x = y
    PROVE  /\ IsFiniteSet({b[x] : x \in S})
           /\ Cardinality({b[x] : x \in S}) = Cardinality(S)
<1> DEFINE Im(s) == {b[x] : x \in s}
           P == {s \in SUBSET S : IsFiniteSet(s) /\ Cardinality(Im(s)) = Cardinality(s)}
<1>1. {} \in P
  <2>1. Im({}) = {}
    OBVIOUS
  <2> QED BY <2>1, FS_EmptySet
<1>2. ASSUME NEW s \in P, NEW x \in S \ s PROVE s \cup {x} \in P
  <2>1. Im(s \cup {x}) = Im(s) \cup {b[x]} /\ b[x] \notin Im(s)
    OBVIOUS
  <2>2. IsFiniteSet(Im(s))
    BY FiniteImage
  <2>3. IsFiniteSet(s) /\ s \cup {x} \in SUBSET S /\ Cardinality(Im(s)) = Cardinality(s)
        /\ x \notin s
    OBVIOUS
  <2> HIDE DEF Im
  <2>4. Cardinality(Im(s) \cup {b[x]}) = Cardinality(Im(s)) + 1
    BY <2>1, <2>2, FS_AddElement
  <2>5. IsFiniteSet(s \cup {x}) /\ Cardinality(s \cup {x}) = Cardinality(s) + 1
    BY <2>3, FS_AddElement
  <2> QED BY <2>1, <2>3, <2>4, <2>5
<1>3. P \in SUBSET SUBSET S
  OBVIOUS
<1>4. S \in P
  <2> HIDE DEF P
  <2> QED BY <1>1, <1>2, <1>3, SubsetInduction
<1> QED BY <1>4, FiniteImage

\* What the assumption on the two rosters and the thresholds gives.
LEMMA ConfigFacts ==
    /\ IsRoster(NewRoster) /\ IsRoster(OldRoster)
    /\ Threshold \in Nat /\ Threshold >= 2 /\ 1 \in 1..Threshold
    /\ OldCoefficients \in Seq(Scalars) /\ WellFormed(OldManifest)
    /\ Recipients # {}
    /\ \A id \in Recipients : IndexNew(id) \in Indexes /\ IndexNew(id) \in Int
<1>1. IsRoster(NewRoster) /\ IsRoster(OldRoster)
  BY DKGAssumption
<1>2. Threshold \in Nat /\ Threshold >= 2 /\ 1 \in 1..Threshold
  BY DKGAssumption DEF StrictMajority
<1>3. OldCoefficients \in Seq(Scalars) /\ WellFormed(OldManifest)
  BY DKGAssumption
<1>4. Recipients # {}
  <2>1. Len(NewRoster) \in 3..31
    BY DKGAssumption
  <2>2. 1 \in DOMAIN NewRoster
    BY <1>1, <2>1, RosterFacts
  <2> QED BY <2>2 DEF Recipients, Members, Range
<1>5. \A id \in Recipients : IndexNew(id) \in Indexes /\ IndexNew(id) \in Int
  BY <1>1, RosterFacts, OrderNat DEF Recipients, IndexNew, Indexes
<1> QED BY <1>1, <1>2, <1>3, <1>4, <1>5

\* Every threshold of the shares of a well-formed manifest interpolates to
\* its group key.
LEMMA WellFormedReconstructs ==
    ASSUME NEW m, WellFormed(m), m.coefficients \in Seq(Scalars),
           IsRoster(m.roster)
    PROVE  \A S \in Quorums(m) : Interpolate(SharesAt(m, S)) = groupPublicKey(m)
<1> SUFFICES ASSUME NEW S \in Quorums(m)
             PROVE Interpolate(SharesAt(m, S)) = groupPublicKey(m)
  OBVIOUS
<1> DEFINE c == m.coefficients
<1>1. S \in SUBSET DOMAIN m.roster /\ Cardinality(S) = m.threshold
  BY DEF Quorums
<1>2. S \in SUBSET Indexes /\ IsFiniteSet(S)
  BY <1>1, RosterFacts, FS_Subset
<1>3. Len(c) = m.threshold /\ m.threshold >= 2 /\ c \in Seq(Scalars)
  BY DEF WellFormed, StrictMajority
<1>4. \A i \in S : m.sharePublicKey[m.roster[i]] = commitmentAt(c, i)
  <2> SUFFICES ASSUME NEW i \in S PROVE m.sharePublicKey[m.roster[i]] = commitmentAt(c, i)
    OBVIOUS
  <2>1. m.roster[i] \in Members(m.roster) /\ IndexOf(m.roster, m.roster[i]) = i
    BY <1>1, RosterFacts
  <2>2. \A id \in Members(m.roster) :
           m.sharePublicKey[id] = commitmentAt(m.coefficients, IndexOf(m.roster, id))
    BY DEF WellFormed, verifyPublicShareCommitment
  <2> QED BY <2>1, <2>2
<1>5. SharesAt(m, S) = [i \in S |-> commitmentAt(c, i)]
  BY <1>4 DEF SharesAt
<1>6. Interpolate([i \in S |-> commitmentAt(c, i)]) = c[1]
  <2>1. Len(c) >= 1 /\ Len(c) <= Cardinality(S)
    BY <1>1, <1>3
  <2> HIDE DEF c
  <2> QED BY <1>2, <1>3, <2>1, Interpolation
<1> QED BY <1>5, <1>6 DEF groupPublicKey

\* The sums of a coefficient over the qualified deals are scalars.
LEMMA AggregateType ==
    ASSUME NEW Q, IsFiniteSet(Q),
           \A d \in Q : d.commitments \in Seq(Scalars) /\ Len(d.commitments) = Threshold
    PROVE  /\ aggregateCommitments(Q) \in Seq(Scalars)
           /\ Len(aggregateCommitments(Q)) = Threshold
           /\ \A k \in 1..Threshold :
                /\ aggregateCommitments(Q)[k]
                     = mod(SumOn([d \in Q |-> d.commitments[k]], Q))
                /\ SumOn([d \in Q |-> d.commitments[k]], Q) \in Int
<1> DEFINE f(k) == [d \in Q |-> d.commitments[k]]
           v(k) == mod(SumFunction(f(k)))
           a == [k \in 1..Threshold |-> v(k)]
<1>1. \A k \in 1..Threshold : \A d \in Q : d.commitments[k] \in Int
  BY ModScalar
<1>2. \A k \in 1..Threshold : SumOn(f(k), Q) = SumFunction(f(k))
  <2> SUFFICES ASSUME NEW k \in 1..Threshold PROVE SumOn(f(k), Q) = SumFunction(f(k))
    OBVIOUS
  <2>1. [d \in Q |-> f(k)[d]] = f(k)
    OBVIOUS
  <2> QED BY <2>1 DEF SumOn
<1>3. \A k \in 1..Threshold : SumOn(f(k), Q) \in Int
  <2> SUFFICES ASSUME NEW k \in 1..Threshold PROVE SumOn(f(k), Q) \in Int
    OBVIOUS
  <2>1. \A d \in Q : f(k)[d] \in Int
    BY <1>1
  <2> HIDE DEF f
  <2> QED BY <2>1, SumFacts
<1>4. \A k \in 1..Threshold : v(k) \in Scalars /\ v(k) = mod(SumOn(f(k), Q))
  <2> HIDE DEF f
  <2> QED BY <1>2, <1>3, ModInt
<1>5. a \in Seq(Scalars) /\ Len(a) = Threshold
  <2>1. Threshold \in Nat
    BY ConfigFacts
  <2> HIDE DEF v
  <2>2. a \in [1..Threshold -> Scalars]
    BY <1>4
  <2> QED BY <2>1, <2>2
<1>6. aggregateCommitments(Q) = a
  BY DEF aggregateCommitments
<1>7. \A k \in 1..Threshold : a[k] = mod(SumOn(f(k), Q))
  <2> HIDE DEF f
  <2> QED BY <1>4
<1> HIDE DEF a
<1> QED BY <1>3, <1>5, <1>6, <1>7

------------------------------------------------------------------------------
(* The ceremony: its invariant                                             *)

\* The parts of the invariant.  The ceremony and its frozen dealers.
ConfigInv ==
    /\ ceremony \in {"dkg", "reshare"}
    /\ selected \subseteq Members(OldRoster)
    /\ ceremony = "reshare" => Cardinality(selected) >= OldThreshold

\* A deal on the board commits to scalars; an honest one has the shares of its
\* polynomial and, in a reshare, the weighted old share as its constant.
SoundDeal(d) ==
    /\ d.dealer \in Dealers
    /\ d.commitments \in Seq(Scalars) /\ Len(d.commitments) = Threshold
    /\ d.dealer \notin Faulty =>
        /\ d.shares = SharesOf(d.commitments)
        /\ Last(d.commitments) # 0
        /\ ceremony = "reshare" => d.commitments[1] = HandoffConstant(d.dealer)

\* No honest dealer deals twice.
DealsInv ==
    /\ IsFiniteSet(deals)
    /\ \A d \in deals : SoundDeal(d)
    /\ \A d, e \in deals : d.dealer = e.dealer /\ d.dealer \notin Faulty => d = e

\* r holds what its recipient found when it compared the deals of D.
Judged(r, D) ==
    r.status = [dealer \in DealersOf(D) |->
        \E d \in D : d.dealer = dealer /\ validateDealPacket(d) /\ Matches(d, r.recipient)]

\* An honest response judges deals that are on the board.
ResponsesInv ==
    \A r \in responses :
        /\ r.recipient \in Recipients
        /\ r.recipient \notin Faulty => \E D \in SUBSET deals : Judged(r, D)

\* Files with which finalizeCeremony passed every check that does not depend on
\* the participant.
GoodFiles(D, R, Z) ==
    /\ D \in SUBSET deals /\ R \in SUBSET responses /\ Z \in SUBSET resolutions
    /\ FilesValid(D, R, Z)
    /\ EnoughDealers(Qualified(D, R, Z))
    /\ ceremony = "reshare" =>
        aggregateCommitments(Qualified(D, R, Z))[1] = groupPublicKey(OldManifest)

\* A finalization names such files and the polynomial they fix.  A faulty
\* participant can only copy both from another.
SoundFinalization(f) ==
    \E D, R, Z :
        /\ f.transcript = <<D, R, Z>>
        /\ GoodFiles(D, R, Z)
        /\ f.coefficients = aggregateCommitments(Qualified(D, R, Z))

\* Every finalization does.
FinalizationsInv == \A f \in finalizations : SoundFinalization(f)

\* An honest participant hands in the key of the share in its keystore, and that
\* share lies on the committed polynomial.
KeystoreInv ==
    /\ DOMAIN keystore = Recipients
    /\ \A id \in Recipients :
        \E s, t, b : keystore[id] = [share |-> s, transcript |-> t, bound |-> b]
    /\ \A f \in finalizations :
        /\ f.participant \in Recipients
        /\ f.participant \notin Faulty =>
            /\ keystore[f.participant].share = f.sharePublicKey
            /\ f.sharePublicKey = commitmentAt(f.coefficients, IndexNew(f.participant))

\* The manifest is well formed, keeps the key of a reshare, and names the shares
\* of the honest keystores; nobody can finalize again once it exists.
ManifestInv ==
    manifest # None =>
        /\ WellFormed(manifest)
        /\ manifest.roster = NewRoster
        /\ manifest.coefficients \in Seq(Scalars)
        /\ ceremony = "reshare" => groupPublicKey(manifest) = groupPublicKey(OldManifest)
        /\ \A id \in Recipients : Finalized(id)
        /\ \A id \in Recipients \ Faulty : keystore[id].share = manifest.sharePublicKey[id]

\* The inductive invariant.
DKGInv ==
    /\ ConfigInv /\ DealsInv /\ ResponsesInv /\ HonestUnexposed
    /\ FinalizationsInv /\ KeystoreInv /\ ManifestInv

\* The board only grows, and the configuration is fixed.
Grows ==
    /\ ceremony' = ceremony /\ selected' = selected
    /\ deals \subseteq deals' /\ responses \subseteq responses'
    /\ resolutions \subseteq resolutions' /\ finalizations \subseteq finalizations'

\* Which actions write each variable.
LEMMA StepWrites ==
    ASSUME [DKGNext]_dkgVars
    PROVE  /\ Grows
           /\ \/ deals' = deals
              \/ \E id \in Dealers : createDealBundle(id) \/ FaultyDeal(id)
           /\ \/ responses' = responses
              \/ \E id \in Recipients : createResponseBundle(id) \/ FaultyResponse(id)
           /\ \/ resolutions' = resolutions
              \/ \E id \in Dealers : createResolutionBundle(id) \/ FaultyResolution(id)
           /\ \/ finalizations' = finalizations
              \/ \E id \in Recipients : finalizeCeremony(id) \/ FaultyFinalization(id)
           /\ \/ keystore' = keystore
              \/ \E id \in Recipients : finalizeCeremony(id) \/ bindKeystoreToManifest(id)
           /\ manifest' = manifest \/ assembleManifest
<1> USE DEF Grows, board, config, outcome
<1>1. CASE UNCHANGED dkgVars
  BY <1>1 DEF dkgVars
<1>2. CASE Advance
  BY <1>2 DEF Advance
<1>3. ASSUME NEW id \in Dealers, createDealBundle(id)
      PROVE  Grows /\ UNCHANGED <<responses, resolutions, finalizations, keystore, manifest>>
  BY <1>3 DEF createDealBundle
<1>4. ASSUME NEW id \in Dealers, FaultyDeal(id)
      PROVE  Grows /\ UNCHANGED <<responses, resolutions, finalizations, keystore, manifest>>
  BY <1>4 DEF FaultyDeal
<1>5. ASSUME NEW id \in Recipients, createResponseBundle(id)
      PROVE  Grows /\ UNCHANGED <<deals, resolutions, finalizations, keystore, manifest>>
  BY <1>5 DEF createResponseBundle
<1>6. ASSUME NEW id \in Recipients, FaultyResponse(id)
      PROVE  Grows /\ UNCHANGED <<deals, resolutions, finalizations, keystore, manifest>>
  BY <1>6 DEF FaultyResponse
<1>7. ASSUME NEW id \in Dealers, createResolutionBundle(id)
      PROVE  Grows /\ UNCHANGED <<deals, responses, finalizations, keystore, manifest>>
  BY <1>7 DEF createResolutionBundle
<1>8. ASSUME NEW id \in Dealers, FaultyResolution(id)
      PROVE  Grows /\ UNCHANGED <<deals, responses, finalizations, keystore, manifest>>
  BY <1>8 DEF FaultyResolution
<1>9. ASSUME NEW id \in Recipients, finalizeCeremony(id)
      PROVE  Grows /\ UNCHANGED <<deals, responses, resolutions, manifest>>
  BY <1>9 DEF finalizeCeremony
<1>10. ASSUME NEW id \in Recipients, FaultyFinalization(id)
      PROVE  Grows /\ UNCHANGED <<deals, responses, resolutions, keystore, manifest>>
  BY <1>10 DEF FaultyFinalization
<1>11. ASSUME assembleManifest
      PROVE  Grows /\ UNCHANGED <<deals, responses, resolutions, finalizations, keystore>>
  BY <1>11 DEF assembleManifest
<1>12. ASSUME NEW id \in Recipients, bindKeystoreToManifest(id)
      PROVE  Grows /\ UNCHANGED <<deals, responses, resolutions, finalizations, manifest>>
  BY <1>12 DEF bindKeystoreToManifest
<1>13. ASSUME validateGroupManifest
      PROVE  Grows /\ UNCHANGED <<deals, responses, resolutions, finalizations, keystore, manifest>>
  BY <1>13 DEF validateGroupManifest
<1> HIDE DEF Grows, board, config, outcome
<1> QED BY <1>1, <1>2, <1>3, <1>4, <1>5, <1>6, <1>7, <1>8, <1>9, <1>10, <1>11,
           <1>12, <1>13 DEF DKGNext

\* The weighted old share is a scalar, for selected and other old members.
LEMMA HandoffScalar ==
    ASSUME ConfigInv, NEW id \in Members(OldRoster)
    PROVE  /\ OldManifest.sharePublicKey[id] = commitmentAt(OldCoefficients, IndexOf(OldRoster, id))
           /\ HandoffConstant(id) \in Scalars
           /\ lagrangeCoefficientAtZero(IndexOf(OldRoster, id), SelectedIndexes) \in Scalars
<1> DEFINE i == IndexOf(OldRoster, id)  S == SelectedIndexes  U == S \cup {i}
           key == OldManifest.sharePublicKey[id]  w == lagrangeCoefficientAtZero(i, S)
<1>1. key = commitmentAt(OldCoefficients, i)
  BY DEF OldManifest
<1>2. i \in Indexes /\ S \in SUBSET DOMAIN OldRoster /\ U \in SUBSET Indexes /\ IsFiniteSet(U)
  <2>1. /\ i \in DOMAIN OldRoster /\ DOMAIN OldRoster \in SUBSET Indexes
        /\ IsFiniteSet(DOMAIN OldRoster)
    BY ConfigFacts, RosterFacts
  <2>2. S \in SUBSET DOMAIN OldRoster
    BY ConfigFacts, RosterFacts DEF SelectedIndexes, ConfigInv
  <2>3. U \in SUBSET DOMAIN OldRoster
    BY <2>1, <2>2
  <2>4. IsFiniteSet(U)
    <3> HIDE DEF U
    <3> QED BY <2>1, <2>3, FS_Subset
  <2> QED BY <2>1, <2>2, <2>3, <2>4
<1>3. key \in Int
  <2>1. OldCoefficients \in Seq(Int) /\ i \in Int
    BY <1>2, ConfigFacts, ModScalar, OrderNat DEF Indexes
  <2> HIDE DEF i, key
  <2>2. key \in Scalars
    BY <1>1, <2>1, CommitmentEval
  <2> QED BY <2>2, ModScalar
<1>4. w \in Scalars
  <2>1. S \ {i} = U \ {i}
    OBVIOUS
  <2>2. lagrangeCoefficientAtZero(i, S) = lagrangeCoefficientAtZero(i, U)
    <3> HIDE DEF S, U, i
    <3> QED BY <2>1 DEF lagrangeCoefficientAtZero
  <2>3. i \in U
    OBVIOUS
  <2> HIDE DEF S, U, i
  <2> QED BY <1>2, <2>2, <2>3, LagrangeParts DEF w
<1>5. HandoffConstant(id) = mod(key * w)
  BY DEF HandoffConstant
<1>6. key * w \in Int
  <2> HIDE DEF key, w
  <2> QED BY <1>3, <1>4, ModScalar
<1>7. HandoffConstant(id) \in Scalars
  <2> DEFINE y == key * w
  <2> HIDE DEF y
  <2>1. mod(y) \in Scalars
    BY <1>6, ModInt DEF y
  <2> QED BY <2>1, <1>5 DEF y
<1> QED BY <1>1, <1>4, <1>7

\* Dealers are members of a roster.
LEMMA DealerMembers ==
    ASSUME ConfigInv, NEW id \in Dealers
    PROVE  /\ id \in Recipients \cup Members(OldRoster)
           /\ ceremony = "reshare" => id \in Members(OldRoster)
  BY DEF ConfigInv, Dealers

\* The coefficients of any deal are scalars, as many as the threshold; an
\* honest dealer's highest one is not zero, and a reshare fixes the first.
LEMMA CoefficientsFacts ==
    ASSUME ConfigInv, NEW id \in Dealers, NEW draw \in Draws[id]
    PROVE  /\ Coefficients(id, draw) \in Seq(Scalars)
           /\ Len(Coefficients(id, draw)) = Threshold
           /\ id \notin Faulty => Last(Coefficients(id, draw)) # 0
           /\ ceremony = "reshare" => Coefficients(id, draw)[1] = HandoffConstant(id)
<1>1. draw \in Seq(Scalars) /\ Len(draw) = Threshold /\ (id \notin Faulty => Last(draw) # 0)
  BY DealerMembers, DKGAssumption
<1>2. CASE ceremony = "dkg"
  BY <1>1, <1>2 DEF Coefficients
<1>3. CASE ceremony = "reshare"
  <2> DEFINE v == HandoffConstant(id)  c == [draw EXCEPT ![1] = v]
  <2>1. v \in Scalars
    BY <1>3, DealerMembers, HandoffScalar
  <2>2. Coefficients(id, draw) = c
    BY <1>3 DEF Coefficients
  <2>3. Threshold \in Nat /\ Threshold >= 2
    BY ConfigFacts
  <2> HIDE DEF v
  <2>4. c \in Seq(Scalars) /\ Len(c) = Threshold /\ c[1] = v
    BY <1>1, <2>1, <2>3
  <2>5. Last(c) = Last(draw)
    BY <1>1, <2>1, <2>3 DEF Last
  <2> QED BY <1>1, <2>2, <2>4, <2>5 DEF v
<1> QED BY <1>2, <1>3 DEF ConfigInv

\* A deal stays sound while the configuration is fixed.
LEMMA SoundDealFrame ==
    ASSUME NEW d, SoundDeal(d), ceremony' = ceremony, selected' = selected
    PROVE  SoundDeal(d)'
  BY DEF SoundDeal, Dealers, HandoffConstant, SelectedIndexes, SharesOf

\* Every step preserves the part about the configuration.
LEMMA ConfigStep == ASSUME ConfigInv, Grows PROVE ConfigInv'
  BY DEF ConfigInv, Grows

\* Every step preserves the part about deals (createDealBundle, FaultyDeal).
LEMMA DealsStep ==
    ASSUME ConfigInv, DealsInv, [DKGNext]_dkgVars
    PROVE  DealsInv'
<1>0. Grows
  BY StepWrites
<1>1. \A d \in deals : SoundDeal(d)'
  BY <1>0, SoundDealFrame DEF DealsInv, Grows
<1>2. CASE deals' = deals
  BY <1>1, <1>2 DEF DealsInv
<1>3. ASSUME NEW id \in Dealers, createDealBundle(id) PROVE DealsInv'
  <2>1. id \notin Faulty /\ DealsOf(id) = {}
    BY <1>3 DEF createDealBundle
  <2>2. PICK draw \in Draws[id] :
          deals' = deals \cup {Deal(id, Coefficients(id, draw), SharesOf(Coefficients(id, draw)))}
    BY <1>3 DEF createDealBundle
  <2>3. PICK n : /\ deals' = deals \cup {n}
                 /\ n.dealer = id /\ n.commitments = Coefficients(id, draw)
                 /\ n.shares = SharesOf(n.commitments)
    <3> DEFINE c == Coefficients(id, draw)  m == Deal(id, c, SharesOf(c))
    <3>1. m.dealer = id /\ m.commitments = c /\ m.shares = SharesOf(m.commitments)
      BY DEF Deal
    <3>2. deals' = deals \cup {m}
      BY <2>2
    <3> HIDE DEF m
    <3> QED BY <3>1, <3>2
  <2>4. /\ n.commitments \in Seq(Scalars) /\ Len(n.commitments) = Threshold
        /\ Last(n.commitments) # 0
        /\ ceremony = "reshare" => n.commitments[1] = HandoffConstant(id)
    BY <2>1, <2>3, CoefficientsFacts
  <2>5. deals' = deals \cup {n}
    BY <2>3
  <2>6. SoundDeal(n)
    BY <2>3, <2>4 DEF SoundDeal
  <2>7. SoundDeal(n)'
    BY <1>0, <2>6, SoundDealFrame DEF Grows
  <2>8. IsFiniteSet(deals')
    BY <2>5, FS_AddElement DEF DealsInv
  <2>9. \A d \in deals : d.dealer # id
    BY <2>1 DEF DealsOf
  <2>10. \A d, e \in deals' : d.dealer = e.dealer /\ d.dealer \notin Faulty => d = e
    BY <2>3, <2>5, <2>9 DEF DealsInv
  <2>11. \A d \in deals' : SoundDeal(d)'
    BY <1>1, <2>5, <2>7
  <2> QED BY <2>8, <2>10, <2>11 DEF DealsInv
<1>4. ASSUME NEW id \in Dealers, FaultyDeal(id) PROVE DealsInv'
  <2>1. id \in Faulty
    BY <1>4 DEF FaultyDeal
  <2>2. PICK draw \in Draws[id] : \E shares :
          deals' = deals \cup {Deal(id, Coefficients(id, draw), shares)}
    BY <1>4 DEF FaultyDeal
  <2>3. PICK shares : deals' = deals \cup {Deal(id, Coefficients(id, draw), shares)}
    BY <2>2
  <2>4. PICK n : /\ deals' = deals \cup {n}
                 /\ n.dealer = id /\ n.commitments = Coefficients(id, draw)
    <3> DEFINE m == Deal(id, Coefficients(id, draw), shares)
    <3>1. m.dealer = id /\ m.commitments = Coefficients(id, draw)
      BY DEF Deal
    <3>2. deals' = deals \cup {m}
      BY <2>3
    <3> HIDE DEF m
    <3> QED BY <3>1, <3>2
  <2>5. n.commitments \in Seq(Scalars) /\ Len(n.commitments) = Threshold
    BY <2>4, CoefficientsFacts
  <2>6. deals' = deals \cup {n}
    BY <2>4
  <2>7. SoundDeal(n)
    BY <2>1, <2>4, <2>5 DEF SoundDeal
  <2>8. SoundDeal(n)'
    BY <1>0, <2>7, SoundDealFrame DEF Grows
  <2>9. IsFiniteSet(deals')
    BY <2>6, FS_AddElement DEF DealsInv
  <2>10. \A d, e \in deals' : d.dealer = e.dealer /\ d.dealer \notin Faulty => d = e
    BY <2>1, <2>4, <2>6 DEF DealsInv
  <2>11. \A d \in deals' : SoundDeal(d)'
    BY <1>1, <2>6, <2>8
  <2> QED BY <2>9, <2>10, <2>11 DEF DealsInv
<1> QED BY <1>2, <1>3, <1>4, StepWrites

\* The deals an honest recipient judged are among those on the board.
LEMMA DealFilesPublished ==
    ASSUME NEW D \in DealFiles
    PROVE  D \in SUBSET deals /\ \A d, e \in D : d.dealer = e.dealer => d = e
  BY DEF DealFiles, OnePer

\* Every step preserves the part about responses (createResponseBundle,
\* FaultyResponse).
LEMMA ResponsesStep ==
    ASSUME ConfigInv, ResponsesInv, [DKGNext]_dkgVars
    PROVE  ResponsesInv'
<1>0. Grows
  BY StepWrites
<1> DEFINE Just(r) == /\ r.recipient \in Recipients
                      /\ r.recipient \notin Faulty => \E D \in SUBSET deals : Judged(r, D)
<1>1. ASSUME NEW r, Just(r) PROVE Just(r)'
  <2>1. r.recipient \in Recipients
    BY <1>1
  <2>2. ASSUME r.recipient \notin Faulty PROVE \E D \in SUBSET deals' : Judged(r, D)'
    <3>1. PICK D \in SUBSET deals : Judged(r, D)
      BY <1>1, <2>2
    <3>2. Judged(r, D)'
      BY <1>0, <3>1 DEF Judged, Grows, validateDealPacket, Dealers
    <3> QED BY <1>0, <3>2 DEF Grows
  <2> QED BY <2>1, <2>2
<1>2. \A r \in responses : Just(r)'
  <2>1. \A r \in responses : Just(r)
    BY DEF ResponsesInv
  <2> HIDE DEF Just
  <2> QED BY <1>1, <2>1
<1>3. ResponsesInv' <=> \A r \in responses' : Just(r)'
  BY DEF ResponsesInv
<1>4. CASE responses' = responses
  <2> HIDE DEF Just
  <2> QED BY <1>2, <1>3, <1>4
<1>5. ASSUME NEW id \in Recipients, createResponseBundle(id) PROVE ResponsesInv'
  <2>1. PICK D \in DealFiles :
          responses' = responses \cup
            {[recipient |-> id,
              status |-> [dealer \in DealersOf(D) |->
                  \E d \in D : d.dealer = dealer /\ validateDealPacket(d) /\ Matches(d, id)]]}
    BY <1>5 DEF createResponseBundle
  <2> DEFINE n == [recipient |-> id,
                   status |-> [dealer \in DealersOf(D) |->
                  \E d \in D : d.dealer = dealer /\ validateDealPacket(d) /\ Matches(d, id)]]
  <2>2. n.recipient = id /\ Judged(n, D)
    BY DEF Judged
  <2>3. D \in SUBSET deals
    BY DealFilesPublished
  <2>4. Just(n)
    <3> HIDE DEF n
    <3> QED BY <2>2, <2>3
  <2>5. responses' = responses \cup {n}
    BY <2>1
  <2> HIDE DEF n, Just
  <2> QED BY <1>1, <1>2, <1>3, <2>4, <2>5
<1>6. ASSUME NEW id \in Recipients, FaultyResponse(id) PROVE ResponsesInv'
  <2>1. PICK D \in DealFiles : \E status \in [DealersOf(D) -> BOOLEAN] :
          responses' = responses \cup {[recipient |-> id, status |-> status]}
    BY <1>6 DEF FaultyResponse
  <2>2. PICK status : responses' = responses \cup {[recipient |-> id, status |-> status]}
    BY <2>1
  <2> DEFINE n == [recipient |-> id, status |-> status]
  <2>3. n.recipient = id /\ id \in Faulty
    BY <1>6 DEF FaultyResponse
  <2>4. responses' = responses \cup {n}
    BY <2>2
  <2> HIDE DEF n
  <2>5. Just(n)
    BY <2>3
  <2> HIDE DEF Just
  <2> QED BY <1>1, <1>2, <1>3, <2>4, <2>5
<1> QED BY <1>4, <1>5, <1>6, StepWrites

\* The shares an honest dealer hands out lie on its committed polynomial.
LEMMA HonestShare ==
    ASSUME NEW d, SoundDeal(d), d.dealer \notin Faulty, NEW r \in Recipients
    PROVE  /\ d.shares[r] = commitmentAt(d.commitments, IndexNew(r))
           /\ d.shares[r] \in Scalars
           /\ validateDealPacket(d)
<1>1. d.commitments \in Seq(Scalars) /\ d.commitments \in Seq(Int) /\ IndexNew(r) \in Int
  BY ConfigFacts, ModScalar DEF SoundDeal
<1>2. d.shares[r] = polynomialAt(d.commitments, IndexNew(r))
  BY DEF SoundDeal, SharesOf
<1>3. polynomialAt(d.commitments, IndexNew(r)) = commitmentAt(d.commitments, IndexNew(r))
  BY <1>1, Horner
<1>4. commitmentAt(d.commitments, IndexNew(r)) \in Scalars
  BY <1>1, CommitmentEval
<1>5. validateDealPacket(d)
  BY DEF SoundDeal, validateDealPacket
<1> QED BY <1>2, <1>3, <1>4, <1>5

\* An honest recipient complains about an honest dealer only when its
\* share is zero.
LEMMA HonestComplaint ==
    ASSUME DealsInv, ResponsesInv, NEW R \in SUBSET responses,
           NEW id, id \notin Faulty, NEW r \in Complaints(R, id), r \notin Faulty
    PROVE  \E d \in DealsOf(id) : d.shares[r] = 0
<1>1. PICK x \in R : x.recipient = r /\ id \in DOMAIN x.status /\ ~x.status[id]
  BY DEF Complaints
<1>2. r \in Recipients
  BY <1>1 DEF ResponsesInv
<1>3. PICK D \in SUBSET deals : Judged(x, D)
  BY <1>1 DEF ResponsesInv
<1>4. /\ id \in DealersOf(D)
      /\ ~ \E d \in D : d.dealer = id /\ validateDealPacket(d) /\ Matches(d, r)
  BY <1>1, <1>3 DEF Judged
<1>5. PICK d \in D : d.dealer = id
  BY <1>4 DEF DealersOf
<1>6. SoundDeal(d) /\ d \in DealsOf(id)
  BY <1>5 DEF DealsInv, DealsOf
<1>7. /\ d.shares[r] = commitmentAt(d.commitments, IndexNew(r))
      /\ d.shares[r] \in Scalars /\ validateDealPacket(d)
  BY <1>2, <1>5, <1>6, HonestShare
<1>8. ~Matches(d, r)
  BY <1>4, <1>5, <1>7
<1>9. d.shares[r] = 0
  BY <1>7, <1>8 DEF Matches, shareMatchesCommitments
<1> QED BY <1>6, <1>9

\* Every step preserves HonestUnexposed (createResolutionBundle, FaultyResolution).
LEMMA UnexposedStep ==
    ASSUME DealsInv, ResponsesInv, HonestUnexposed, [DKGNext]_dkgVars
    PROVE  HonestUnexposed'
<1>0. Grows
  BY StepWrites
<1> DEFINE Safe(z) == z.dealer \in Honest =>
                        \A r \in DOMAIN z.shares \ Faulty :
                            \E d \in DealsOf(z.dealer) : d.shares[r] = 0
<1>1. ASSUME NEW z, Safe(z) PROVE Safe(z)'
  BY <1>0, <1>1 DEF Grows, DealsOf
<1>2. \A z \in resolutions : Safe(z)'
  <2>1. \A z \in resolutions : Safe(z)
    BY DEF HonestUnexposed
  <2> HIDE DEF Safe
  <2> QED BY <1>1, <2>1
<1>3. HonestUnexposed' <=> \A z \in resolutions' : Safe(z)'
  BY DEF HonestUnexposed
<1>4. CASE resolutions' = resolutions
  <2> HIDE DEF Safe
  <2> QED BY <1>2, <1>3, <1>4
<1>5. ASSUME NEW id \in Dealers, createResolutionBundle(id) PROVE HonestUnexposed'
  <2>1. id \notin Faulty
    BY <1>5 DEF createResolutionBundle
  <2>2. PICK d \in DealsOf(id), R \in SUBSET responses :
          resolutions' = resolutions \cup
            {Resolution(id, [r \in Complaints(R, id) |-> polynomialAt(d.commitments, IndexNew(r))])}
    BY <1>5 DEF createResolutionBundle
  <2>3. PICK n : /\ resolutions' = resolutions \cup {n}
                 /\ n.dealer = id /\ DOMAIN n.shares = Complaints(R, id)
    <3> DEFINE s == [r \in Complaints(R, id) |-> polynomialAt(d.commitments, IndexNew(r))]
               m == Resolution(id, s)
    <3>1. m.dealer = id /\ m.shares = s
      BY DEF Resolution
    <3>2. DOMAIN s = Complaints(R, id)
      OBVIOUS
    <3>3. resolutions' = resolutions \cup {m}
      BY <2>2
    <3> HIDE DEF m, s
    <3> QED BY <3>1, <3>2, <3>3
  <2>4. Safe(n)
    <3> SUFFICES ASSUME NEW r \in Complaints(R, id) \ Faulty
                 PROVE \E e \in DealsOf(id) : e.shares[r] = 0
      BY <2>3
    <3> QED BY <2>1, HonestComplaint
  <2> HIDE DEF Safe
  <2> QED BY <1>1, <1>2, <1>3, <2>3, <2>4
<1>6. ASSUME NEW id \in Dealers, FaultyResolution(id) PROVE HonestUnexposed'
  <2>1. id \in Faulty
    BY <1>6 DEF FaultyResolution
  <2>2. PICK s : resolutions' = resolutions \cup {Resolution(id, s)}
    <3>1. PICK d, revealed, wrong :
            resolutions' = resolutions \cup
              {Resolution(id, [r \in revealed |->
                mod(polynomialAt(d.commitments, IndexNew(r)) + wrong)])}
      BY <1>6 DEF FaultyResolution
    <3> DEFINE s == [r \in revealed |-> mod(polynomialAt(d.commitments, IndexNew(r)) + wrong)]
    <3>2. resolutions' = resolutions \cup {Resolution(id, s)}
      BY <3>1
    <3> HIDE DEF s
    <3> QED BY <3>2
  <2>3. PICK n : resolutions' = resolutions \cup {n} /\ n.dealer = id
    <3> DEFINE m == Resolution(id, s)
    <3>1. resolutions' = resolutions \cup {m} /\ m.dealer = id
      BY <2>2 DEF Resolution
    <3> HIDE DEF m
    <3> QED BY <3>1
  <2>4. Safe(n)
    BY <2>1, <2>3 DEF Honest
  <2> HIDE DEF Safe
  <2> QED BY <1>1, <1>2, <1>3, <2>3, <2>4
<1> QED BY <1>4, <1>5, <1>6, StepWrites

\* Files that passed once pass later, for the board only grows.
LEMMA GoodFilesFrame ==
    ASSUME NEW D, NEW R, NEW Z, GoodFiles(D, R, Z), Grows
    PROVE  GoodFiles(D, R, Z)'
<1>1. D \in SUBSET deals' /\ R \in SUBSET responses' /\ Z \in SUBSET resolutions'
  BY DEF GoodFiles, Grows
<1>2. FilesValid(D, R, Z)'
  <2>1. FilesValid(D, R, Z)
    BY DEF GoodFiles
  <2>2. \A d : validateDealPacket(d)' <=> validateDealPacket(d)
    BY DEF validateDealPacket, Dealers, Grows
  <2>3. \A x : HandoffConstant(x)' = HandoffConstant(x)
    BY DEF HandoffConstant, SelectedIndexes, Grows
  <2> QED BY <2>1, <2>2, <2>3 DEF FilesValid, OnePer, Grows
<1>3. EnoughDealers(Qualified(D, R, Z))'
  BY DEF GoodFiles, EnoughDealers, Grows
<1>4. (ceremony = "reshare" =>
        aggregateCommitments(Qualified(D, R, Z))[1] = groupPublicKey(OldManifest))'
  BY DEF GoodFiles, Grows
<1> QED BY <1>1, <1>2, <1>3, <1>4 DEF GoodFiles

\* A sound finalization stays sound.
LEMMA SoundFinalizationFrame ==
    ASSUME NEW f, SoundFinalization(f), Grows
    PROVE  SoundFinalization(f)'
<1>1. PICK D, R, Z :
        /\ f.transcript = <<D, R, Z>>
        /\ GoodFiles(D, R, Z)
        /\ f.coefficients = aggregateCommitments(Qualified(D, R, Z))
  BY DEF SoundFinalization
<1>2. GoodFiles(D, R, Z)'
  BY <1>1, GoodFilesFrame
<1> QED BY <1>1, <1>2 DEF SoundFinalization

\* Every step preserves the part about finalizations (finalizeCeremony,
\* FaultyFinalization).
LEMMA FinalizationsStep ==
    ASSUME FinalizationsInv, [DKGNext]_dkgVars
    PROVE  FinalizationsInv'
<1>0. Grows
  BY StepWrites
<1>1. \A f \in finalizations : SoundFinalization(f)'
  BY <1>0, SoundFinalizationFrame DEF FinalizationsInv
<1>2. CASE finalizations' = finalizations
  BY <1>1, <1>2 DEF FinalizationsInv
<1>3. ASSUME NEW id \in Recipients, finalizeCeremony(id) PROVE FinalizationsInv'
  <2>1. PICK D \in DealFiles, R \in SUBSET responses, Z \in SUBSET resolutions :
          /\ CanFinalize(id, D, R, Z)
          /\ finalizations' = finalizations \cup
                {Finalization(id, <<D, R, Z>>, aggregateCommitments(Qualified(D, R, Z)),
                              publicKeyForShare(PrivateShare(Qualified(D, R, Z), id, Z)))}
    BY <1>3 DEF finalizeCeremony
  <2>2. GoodFiles(D, R, Z)
    BY <2>1, DealFilesPublished DEF GoodFiles, CanFinalize
  <2>3. PICK n : /\ finalizations' = finalizations \cup {n}
                 /\ n.transcript = <<D, R, Z>>
                 /\ n.coefficients = aggregateCommitments(Qualified(D, R, Z))
    <3> DEFINE t == <<D, R, Z>>  a == aggregateCommitments(Qualified(D, R, Z))
               s == publicKeyForShare(PrivateShare(Qualified(D, R, Z), id, Z))
               m == Finalization(id, t, a, s)
    <3>1. finalizations' = finalizations \cup {m}
      BY <2>1
    <3> HIDE DEF t, a, s
    <3>2. m.transcript = t /\ m.coefficients = a
      BY DEF Finalization
    <3> HIDE DEF m
    <3> QED BY <3>1, <3>2 DEF t, a
  <2>4. SoundFinalization(n)
    BY <2>2, <2>3 DEF SoundFinalization
  <2>5. SoundFinalization(n)'
    BY <1>0, <2>4, SoundFinalizationFrame
  <2> QED BY <1>1, <2>3, <2>5 DEF FinalizationsInv
<1>4. ASSUME NEW id \in Recipients, FaultyFinalization(id) PROVE FinalizationsInv'
  <2>1. PICK f \in finalizations, wrong \in {0, 1} :
          finalizations' = finalizations \cup
            {Finalization(id, f.transcript, f.coefficients,
                          mod(commitmentAt(f.coefficients, IndexNew(id)) + wrong))}
    BY <1>4 DEF FaultyFinalization
  <2>2. PICK n : /\ finalizations' = finalizations \cup {n}
                 /\ n.transcript = f.transcript /\ n.coefficients = f.coefficients
    <3> DEFINE s == mod(commitmentAt(f.coefficients, IndexNew(id)) + wrong)
               m == Finalization(id, f.transcript, f.coefficients, s)
    <3>1. finalizations' = finalizations \cup {m}
      BY <2>1
    <3> HIDE DEF s
    <3>2. m.transcript = f.transcript /\ m.coefficients = f.coefficients
      BY DEF Finalization
    <3> HIDE DEF m
    <3> QED BY <3>1, <3>2
  <2>3. SoundFinalization(n)
    BY <2>2 DEF FinalizationsInv, SoundFinalization
  <2>4. SoundFinalization(n)'
    BY <1>0, <2>3, SoundFinalizationFrame
  <2> QED BY <1>1, <2>2, <2>4 DEF FinalizationsInv
<1> QED BY <1>2, <1>3, <1>4, StepWrites

\* The polynomials of several deals add up coefficient by coefficient.
LEMMA AggregateEval ==
    ASSUME NEW Q, IsFiniteSet(Q), NEW x \in Int,
           \A d \in Q : d.commitments \in Seq(Scalars) /\ Len(d.commitments) = Threshold
    PROVE  \A m \in 0..Threshold :
             Cong(SumOn([d \in Q |-> Eval(d.commitments, x, m)], Q),
                  Eval(aggregateCommitments(Q), x, m))
<1> DEFINE a == aggregateCommitments(Q)
           e(m) == [d \in Q |-> Eval(d.commitments, x, m)]
           f(m) == [d \in Q |-> d.commitments[m]]
           T == {m \in Nat : m <= Threshold => Cong(SumOn(e(m), Q), Eval(a, x, m))}
<1>0. Threshold \in Nat
  BY ConfigFacts
<1>1. /\ a \in Seq(Scalars) /\ a \in Seq(Int) /\ Len(a) = Threshold
      /\ \A k \in 1..Threshold : a[k] = mod(SumOn(f(k), Q)) /\ SumOn(f(k), Q) \in Int
  <2>1. a \in Seq(Scalars) /\ Len(a) = Threshold
    BY AggregateType
  <2>2. \A k \in 1..Threshold : a[k] = mod(SumOn(f(k), Q)) /\ SumOn(f(k), Q) \in Int
    BY AggregateType
  <2> HIDE DEF a, f
  <2>3. a \in Seq(Int)
    BY <2>1, ModScalar
  <2> QED BY <2>1, <2>2, <2>3
<1>2. \A d \in Q : d.commitments \in Seq(Int) /\ Len(d.commitments) = Threshold
  BY ModScalar
<1>3. \A m \in 0..Threshold : \A d \in Q : e(m)[d] \in Int
  <2> SUFFICES ASSUME NEW m \in 0..Threshold, NEW d \in Q PROVE Eval(d.commitments, x, m) \in Int
    OBVIOUS
  <2> QED BY <1>2, EvalFacts
<1>4. \A m \in 0..Threshold : SumOn(e(m), Q) \in Int /\ Eval(a, x, m) \in Int
  <2> SUFFICES ASSUME NEW m \in 0..Threshold PROVE SumOn(e(m), Q) \in Int /\ Eval(a, x, m) \in Int
    OBVIOUS
  <2>1. \A d \in Q : e(m)[d] \in Int
    BY <1>3
  <2> HIDE DEF e, a
  <2>2. SumOn(e(m), Q) \in Int
    BY <2>1, SumFacts
  <2>3. Eval(a, x, m) \in Int
    BY <1>1, EvalFacts
  <2> QED BY <2>2, <2>3
<1>5. 0 \in T
  <2>1. \A d \in Q : e(0)[d] = 0
    <3> SUFFICES ASSUME NEW d \in Q PROVE Eval(d.commitments, x, 0) = 0
      OBVIOUS
    <3>1. 0 \in 0..Len(d.commitments)
      BY <1>0, <1>2
    <3> QED BY <1>2, <3>1, EvalFacts
  <2>2. Eval(a, x, 0) = 0
    <3>1. 0 \in 0..Len(a)
      BY <1>0, <1>1
    <3> HIDE DEF a
    <3> QED BY <1>1, <3>1, EvalFacts
  <2>3. Cong(SumOn(e(0), Q), 0)
    <3> DEFINE g == e(0)  zero == 0
    <3>1. \A d \in Q : g[d] \in Int /\ Cong(g[d], zero * g[d] + zero * g[d])
      <4>1. Cong(0, 0)
        BY CongRefl
      <4>2. zero * zero + zero * zero = 0
        OBVIOUS
      <4> QED BY <2>1, <4>1, <4>2
    <3>2. zero \in Int
      OBVIOUS
    <3> HIDE DEF g, zero
    <3>3. Cong(SumOn(g, Q), zero * SumOn(g, Q) + zero * SumOn(g, Q))
      BY <3>1, <3>2, SumLinear
    <3>4. SumOn(g, Q) \in Int
      BY <3>1, SumFacts
    <3>5. zero * SumOn(g, Q) + zero * SumOn(g, Q) = 0
      BY <3>4 DEF zero
    <3> QED BY <3>3, <3>5 DEF g
  <2> QED BY <2>2, <2>3
<1>6. ASSUME NEW m \in T PROVE m + 1 \in T
  <2>1. SUFFICES ASSUME m + 1 <= Threshold PROVE Cong(SumOn(e(m + 1), Q), Eval(a, x, m + 1))
    OBVIOUS
  <2>2. m \in 0..Threshold /\ m + 1 \in 0..Threshold /\ m + 1 \in 1..Threshold /\ m + 1 # 0
        /\ m \in Nat
    BY <1>0, <2>1
  <2>3. Cong(SumOn(e(m), Q), Eval(a, x, m))
    BY <2>2
  <2> DEFINE p == power(x, m)  F == f(m + 1)  G == e(m)  H == e(m + 1)  one == 1
             sF == SumOn(F, Q)  sG == SumOn(G, Q)  sH == SumOn(H, Q)
             A == Eval(a, x, m)  A1 == Eval(a, x, m + 1)  ak == a[m + 1]
  <2>4. p \in Int
    BY <2>2, PowerFacts
  <2>5. \A d \in Q : F[d] \in Int /\ G[d] \in Int /\ H[d] \in Int
    <3> SUFFICES ASSUME NEW d \in Q PROVE F[d] \in Int /\ G[d] \in Int /\ H[d] \in Int
      OBVIOUS
    <3>1. F[d] \in Int
      BY <1>2, <2>2
    <3>2. G[d] \in Int /\ H[d] \in Int
      BY <1>3, <2>2
    <3> QED BY <3>1, <3>2
  <2>6. \A d \in Q : Cong(H[d], p * F[d] + one * G[d])
    <3> SUFFICES ASSUME NEW d \in Q PROVE Cong(H[d], p * F[d] + one * G[d])
      OBVIOUS
    <3>1. Eval(d.commitments, x, m + 1)
            = d.commitments[m + 1] * power(x, m) + Eval(d.commitments, x, m)
      <4>1. m + 1 \in 0..Len(d.commitments) /\ (m + 1) - 1 = m
        BY <1>2, <2>2
      <4> QED BY <1>2, <2>2, <4>1, EvalFacts
    <3>2. H[d] = F[d] * p + G[d]
      BY <3>1
    <3>3. F[d] \in Int /\ G[d] \in Int /\ H[d] \in Int
      BY <2>5
    <3> HIDE DEF F, G, H, p
    <3>4. H[d] = p * F[d] + one * G[d]
      BY <2>4, <3>2, <3>3
    <3> HIDE DEF one
    <3> QED BY <3>3, <3>4, CongRefl
  <2>7. A1 = ak * p + A /\ A \in Int /\ ak = mod(sF) /\ sF \in Int /\ sG \in Int /\ sH \in Int
    <3>1. A1 = ak * p + A
      <4>1. m + 1 \in 0..Len(a) /\ (m + 1) - 1 = m
        BY <1>1, <2>2
      <4> HIDE DEF a
      <4> QED BY <1>1, <2>2, <4>1, EvalFacts
    <3>2. A \in Int /\ sG \in Int /\ sH \in Int
      BY <1>4, <2>2
    <3>3. ak = mod(sF) /\ sF \in Int
      BY <1>1, <2>2
    <3> QED BY <3>1, <3>2, <3>3
  <2>8. Cong(sH, p * sF + one * sG)
    <3>1. one \in Int
      OBVIOUS
    <3> HIDE DEF F, G, H, p, one
    <3> QED BY <2>4, <2>5, <2>6, <3>1, SumLinear
  <2>9. Cong(sG, A)
    BY <2>3
  <2> HIDE DEF p, F, G, H, sF, sG, sH, A, A1, ak
  <2>10. ak \in Int /\ Cong(ak, sF)
    BY <2>7, ModInt, ModCong
  <2>11. Cong(p * ak, p * sF)
    BY <2>4, <2>7, <2>10, CongTimes
  <2>12. Cong(p * sF + one * sG, A1)
    <3> DEFINE u == p * sF  v == p * ak
    <3>1. u \in Int /\ v \in Int /\ Cong(u, v)
      <4>1. u \in Int /\ v \in Int
        BY <2>4, <2>7, <2>10
      <4>2. Cong(v, u)
        BY <2>11
      <4> HIDE DEF u, v
      <4> QED BY <4>1, <4>2, CongSym
    <3>2. A1 = v + A /\ p * sF + one * sG = u + sG
      BY <2>4, <2>7, <2>10
    <3> HIDE DEF u, v
    <3> QED BY <2>7, <2>9, <3>1, <3>2, CongAdd
  <2>13. Cong(sH, A1)
    <3> DEFINE u == p * sF + one * sG
    <3>1. u \in Int /\ A1 \in Int
      <4>1. ak * p \in Int
        BY <2>4, <2>10
      <4> QED BY <2>4, <2>7, <2>10, <4>1
    <3>2. Cong(sH, u) /\ Cong(u, A1)
      BY <2>8, <2>12
    <3> HIDE DEF u
    <3> QED BY <2>7, <3>1, <3>2, CongTrans
  <2> QED BY <2>13 DEF sH, H, A1
<1>7. \A m \in Nat : m \in T
  <2>1. T \in SUBSET Nat
    OBVIOUS
  <2> HIDE DEF T
  <2> QED BY <1>5, <1>6, <2>1, NatSetInduction
<1> QED BY <1>0, <1>7

\* What a participant uses of a qualified deal lies on that deal's
\* committed polynomial, whether it came privately or was revealed.
LEMMA ContributionFacts ==
    ASSUME NEW id, NEW D, NEW R, NEW Z, CanFinalize(id, D, R, Z),
           NEW d \in Qualified(D, R, Z)
    PROVE  /\ Contribution(d, id, Z) = commitmentAt(d.commitments, IndexNew(id))
           /\ Contribution(d, id, Z) \in Scalars
<1>1. d \in D /\ HasContribution(d, id, Z)
  BY DEF CanFinalize, Qualified
<1>2. CASE Matches(d, id)
  BY <1>2 DEF Contribution, Matches, shareMatchesCommitments
<1>3. CASE ~Matches(d, id)
  <2>1. id \in ResolvedShares(d, Z)
    BY <1>1, <1>3 DEF HasContribution
  <2>2. PICK z \in Z : z.dealer = d.dealer /\ id \in DOMAIN z.shares
    BY <2>1 DEF ResolvedShares
  <2>3. \A y \in Z : y.dealer = d.dealer => y = z
    BY <2>2 DEF CanFinalize, FilesValid, OnePer
  <2>4. (CHOOSE y \in Z : y.dealer = d.dealer) = z
    BY <2>2, <2>3
  <2>5. validateResolution(z, d, R)
    BY <1>1, <2>2 DEF CanFinalize, FilesValid
  <2>6. shareMatchesCommitments(z.shares[id], d.commitments, IndexNew(id))
    BY <2>2, <2>5 DEF validateResolution
  <2>7. Contribution(d, id, Z) = z.shares[id]
    BY <1>3, <2>4 DEF Contribution
  <2> QED BY <2>6, <2>7 DEF shareMatchesCommitments
<1> QED BY <1>2, <1>3

\* The share a participant computes is the value of the aggregated
\* polynomial at its index.
LEMMA PrivateShareFacts ==
    ASSUME DealsInv, NEW id \in Recipients, NEW D \in SUBSET deals, NEW R, NEW Z,
           CanFinalize(id, D, R, Z)
    PROVE  LET Q == Qualified(D, R, Z)
           IN  /\ PrivateShare(Q, id, Z) = commitmentAt(aggregateCommitments(Q), IndexNew(id))
               /\ PrivateShare(Q, id, Z) \in Scalars
<1> DEFINE Q == Qualified(D, R, Z)  x == IndexNew(id)
           C == [d \in Q |-> Contribution(d, id, Z)]
           e == [d \in Q |-> Eval(d.commitments, x, Threshold)]
           a == aggregateCommitments(Q)
<1>0. x \in Int /\ Threshold \in Nat /\ Threshold \in 0..Threshold
  BY ConfigFacts
<1>1. IsFiniteSet(Q) /\ \A d \in Q : SoundDeal(d)
  <2>1. Q \in SUBSET deals
    BY DEF Qualified
  <2>2. \A d \in Q : SoundDeal(d)
    BY <2>1 DEF DealsInv
  <2> HIDE DEF Q
  <2> QED BY <2>1, <2>2, FS_Subset DEF DealsInv
<1>2. \A d \in Q : /\ d.commitments \in Seq(Scalars) /\ Len(d.commitments) = Threshold
                   /\ d.commitments \in Seq(Int)
  BY <1>1, ModScalar DEF SoundDeal
<1>3. \A d \in Q : C[d] \in Int /\ e[d] \in Int /\ Cong(C[d], e[d])
  <2> SUFFICES ASSUME NEW d \in Q PROVE C[d] \in Int /\ e[d] \in Int /\ Cong(C[d], e[d])
    OBVIOUS
  <2>1. C[d] = commitmentAt(d.commitments, x) /\ C[d] \in Int
    BY ContributionFacts, ModScalar
  <2>2. e[d] = Eval(d.commitments, x, Threshold)
    OBVIOUS
  <2> HIDE DEF C, e, x, Q
  <2>3. Cong(commitmentAt(d.commitments, x), Eval(d.commitments, x, Threshold))
        /\ Eval(d.commitments, x, Threshold) \in Int
    BY <1>0, <1>2, CommitmentEval, EvalFacts
  <2> QED BY <2>1, <2>2, <2>3
<1>4. PrivateShare(Q, id, Z) = mod(SumOn(C, Q))
  <2>1. [d \in Q |-> C[d]] = C
    OBVIOUS
  <2> QED BY <2>1 DEF PrivateShare, SumOn
<1>5. Cong(SumOn(e, Q), Eval(a, x, Threshold))
  <2> HIDE DEF x, Q
  <2> QED BY <1>0, <1>1, <1>2, AggregateEval
<1>6. a \in Seq(Int) /\ Len(a) = Threshold
  <2> HIDE DEF Q
  <2> QED BY <1>1, <1>2, AggregateType, ModScalar
<1> DEFINE s == SumOn(C, Q)  t == SumOn(e, Q)  v == Eval(a, x, Threshold)
<1>7. s \in Int /\ t \in Int /\ Cong(s, t)
  <2> HIDE DEF C, e, Q
  <2> QED BY <1>1, <1>3, SumFacts, SumCong
<1>8. v \in Int /\ commitmentAt(a, x) = mod(v)
  <2> HIDE DEF a, x
  <2> QED BY <1>0, <1>6, EvalFacts, CommitmentEval
<1>9. mod(s) = mod(v) /\ mod(s) \in Scalars
  <2>1. Cong(t, v)
    BY <1>5
  <2> HIDE DEF s, t, v
  <2>2. Cong(s, v)
    BY <1>7, <1>8, <2>1, CongTrans
  <2> QED BY <1>7, <1>8, <2>2, CongMod, ModInt
<1> HIDE DEF s, v, a
<1> QED BY <1>4, <1>8, <1>9 DEF s, v, a

\* A keystore keeps its share when it is bound to the manifest.
LEMMA BindKeepsShares ==
    ASSUME KeystoreInv, NEW id \in Recipients, bindKeystoreToManifest(id)
    PROVE  /\ DOMAIN keystore' = Recipients
           /\ \A p \in Recipients :
                /\ \E s, t, b : keystore'[p] = [share |-> s, transcript |-> t, bound |-> b]
                /\ keystore'[p].share = keystore[p].share
<1> DEFINE yes == TRUE
           Shaped(k) == \E s, t, b : k = [share |-> s, transcript |-> t, bound |-> b]
<1>1. keystore' = [keystore EXCEPT ![id] = [keystore[id] EXCEPT !.bound = yes]]
      /\ DOMAIN keystore = Recipients
  BY DEF bindKeystoreToManifest, KeystoreInv
<1>2. \A p \in Recipients : Shaped(keystore[p])
  BY DEF KeystoreInv
<1>3. PICK s, t, b : keystore[id] = [share |-> s, transcript |-> t, bound |-> b]
  BY <1>2
<1> HIDE DEF yes
<1>4. keystore'[id] = [keystore[id] EXCEPT !.bound = yes]
  BY <1>1
<1>5. [keystore[id] EXCEPT !.bound = yes] = [share |-> s, transcript |-> t, bound |-> yes]
  BY <1>3
<1>6. Shaped(keystore'[id]) /\ keystore'[id].share = keystore[id].share
  <2> DEFINE k == keystore'[id]
  <2>1. k = [share |-> s, transcript |-> t, bound |-> yes]
    BY <1>4, <1>5
  <2> HIDE DEF k
  <2>2. Shaped(k)
    BY <2>1
  <2>3. k.share = s
    BY <2>1
  <2>4. keystore[id].share = s
    BY <1>3
  <2> QED BY <2>2, <2>3, <2>4 DEF k
<1>7. \A p \in Recipients \ {id} : keystore'[p] = keystore[p]
  BY <1>1
<1>8. DOMAIN keystore' = Recipients
  BY <1>1
<1>9. \A p \in Recipients : Shaped(keystore'[p]) /\ keystore'[p].share = keystore[p].share
  <2> HIDE DEF Shaped
  <2> QED BY <1>2, <1>6, <1>7
<1> QED BY <1>8, <1>9

\* Every step preserves the part about keystores (finalizeCeremony,
\* bindKeystoreToManifest).
LEMMA KeystoreStep ==
    ASSUME ConfigInv, DealsInv, FinalizationsInv, KeystoreInv, [DKGNext]_dkgVars
    PROVE  KeystoreInv'
<1> DEFINE Kept(f) ==
             /\ f.participant \in Recipients
             /\ f.participant \notin Faulty =>
                 /\ keystore[f.participant].share = f.sharePublicKey
                 /\ f.sharePublicKey = commitmentAt(f.coefficients, IndexNew(f.participant))
<1>1. CASE UNCHANGED <<finalizations, keystore>>
  BY <1>1 DEF KeystoreInv
<1>2. ASSUME NEW id \in Recipients, finalizeCeremony(id) PROVE KeystoreInv'
  <2>1. PICK D \in DealFiles, R \in SUBSET responses, Z \in SUBSET resolutions :
          /\ CanFinalize(id, D, R, Z)
          /\ finalizations' = finalizations \cup
                {Finalization(id, <<D, R, Z>>, aggregateCommitments(Qualified(D, R, Z)),
                              publicKeyForShare(PrivateShare(Qualified(D, R, Z), id, Z)))}
          /\ keystore' = [keystore EXCEPT ![id] =
                [share |-> PrivateShare(Qualified(D, R, Z), id, Z),
                 transcript |-> <<D, R, Z>>, bound |-> FALSE]]
    BY <1>2 DEF finalizeCeremony
  <2> DEFINE share == PrivateShare(Qualified(D, R, Z), id, Z)
             a == aggregateCommitments(Qualified(D, R, Z))
             file == <<D, R, Z>>
             entry == [share |-> share, transcript |-> file, bound |-> FALSE]
             n == Finalization(id, file, a, publicKeyForShare(share))
  <2>2. D \in SUBSET deals
    BY DealFilesPublished
  <2>3. share = commitmentAt(a, IndexNew(id)) /\ share \in Scalars
    BY <2>1, <2>2, PrivateShareFacts
  <2>4. publicKeyForShare(share) = share
    <3> HIDE DEF share
    <3> QED BY <2>3, ModScalar DEF publicKeyForShare
  <2>5. finalizations' = finalizations \cup {n} /\ keystore' = [keystore EXCEPT ![id] = entry]
    BY <2>1
  <2> HIDE DEF share, a, file
  <2>6. n.participant = id /\ n.coefficients = a /\ n.sharePublicKey = share
    BY <2>4 DEF Finalization
  <2>7. entry.share = share /\ \E s, t, b : entry = [share |-> s, transcript |-> t, bound |-> b]
    OBVIOUS
  <2> HIDE DEF n, entry
  <2>8. /\ DOMAIN keystore' = Recipients /\ keystore'[id] = entry
        /\ \A p \in Recipients \ {id} : keystore'[p] = keystore[p]
    BY <2>5 DEF KeystoreInv
  <2>9. \A p \in Recipients :
          \E s, t, b : keystore'[p] = [share |-> s, transcript |-> t, bound |-> b]
    <3> SUFFICES ASSUME NEW p \in Recipients
                 PROVE \E s, t, b : keystore'[p] = [share |-> s, transcript |-> t, bound |-> b]
      OBVIOUS
    <3>1. CASE p = id
      BY <2>7, <2>8, <3>1
    <3>2. CASE p # id
      BY <2>8, <3>2 DEF KeystoreInv
    <3> QED BY <3>1, <3>2
  <2>10. ASSUME NEW f \in finalizations'
         PROVE /\ f.participant \in Recipients
               /\ f.participant \notin Faulty =>
                   /\ keystore'[f.participant].share = f.sharePublicKey
                   /\ f.sharePublicKey = commitmentAt(f.coefficients, IndexNew(f.participant))
    <3>1. CASE f = n
      BY <2>3, <2>6, <2>7, <2>8, <3>1
    <3>2. CASE f \in finalizations
      <4>1. f.participant \in Recipients /\ f.participant # id
        BY <1>2, <3>2 DEF finalizeCeremony, Finalized, KeystoreInv
      <4>2. keystore'[f.participant] = keystore[f.participant]
        BY <2>8, <4>1
      <4> QED BY <3>2, <4>1, <4>2 DEF KeystoreInv
    <3> QED BY <2>5, <3>1, <3>2
  <2> QED BY <2>8, <2>9, <2>10 DEF KeystoreInv
<1>3. ASSUME NEW id \in Recipients, FaultyFinalization(id) PROVE KeystoreInv'
  <2>1. id \in Faulty /\ keystore' = keystore
    BY <1>3 DEF FaultyFinalization
  <2>2. PICK f \in finalizations, wrong \in {0, 1} :
          finalizations' = finalizations \cup
            {Finalization(id, f.transcript, f.coefficients,
                          mod(commitmentAt(f.coefficients, IndexNew(id)) + wrong))}
    BY <1>3 DEF FaultyFinalization
  <2>3. PICK n : finalizations' = finalizations \cup {n} /\ n.participant = id
    <3> DEFINE s == mod(commitmentAt(f.coefficients, IndexNew(id)) + wrong)
               m == Finalization(id, f.transcript, f.coefficients, s)
    <3>1. finalizations' = finalizations \cup {m}
      BY <2>2
    <3> HIDE DEF s
    <3>2. m.participant = id
      BY DEF Finalization
    <3> HIDE DEF m
    <3> QED BY <3>1, <3>2
  <2> QED BY <2>1, <2>3 DEF KeystoreInv
<1>4. ASSUME NEW id \in Recipients, bindKeystoreToManifest(id) PROVE KeystoreInv'
  <2>1. finalizations' = finalizations
    BY <1>4 DEF bindKeystoreToManifest
  <2> QED BY <1>4, <2>1, BindKeepsShares DEF KeystoreInv
<1>5. \/ UNCHANGED <<finalizations, keystore>>
      \/ \E id \in Recipients : finalizeCeremony(id) \/ FaultyFinalization(id)
      \/ \E id \in Recipients : bindKeystoreToManifest(id)
  BY StepWrites
<1> QED BY <1>1, <1>2, <1>3, <1>4, <1>5

\* Every step preserves the part about the manifest (assembleManifest).
LEMMA ManifestStep ==
    ASSUME ConfigInv, DealsInv, FinalizationsInv, KeystoreInv, ManifestInv, [DKGNext]_dkgVars
    PROVE  ManifestInv'
<1>0. Grows
  BY StepWrites
<1>1. CASE UNCHANGED <<manifest, keystore>>
  BY <1>0, <1>1 DEF ManifestInv, Grows, Finalized
<1>2. ASSUME NEW id \in Recipients, finalizeCeremony(id) PROVE ManifestInv'
  <2>1. ~Finalized(id) /\ manifest' = manifest
    BY <1>2 DEF finalizeCeremony, outcome
  <2>2. manifest = None
    BY <2>1 DEF ManifestInv
  <2> QED BY <2>1, <2>2 DEF ManifestInv
<1>3. ASSUME NEW id \in Recipients, bindKeystoreToManifest(id) PROVE ManifestInv'
  <2>1. manifest' = manifest
    BY <1>3 DEF bindKeystoreToManifest, outcome
  <2>2. \A p \in Recipients : keystore'[p].share = keystore[p].share
    BY <1>3, BindKeepsShares
  <2> QED BY <1>0, <2>1, <2>2 DEF ManifestInv, Grows, Finalized
<1>4. ASSUME assembleManifest PROVE ManifestInv'
  <2> DEFINE first == CHOOSE f \in finalizations : TRUE
             key == [id \in Recipients |->
                     (CHOOSE f \in finalizations : f.participant = id).sharePublicKey]
             m == [ceremony |-> ceremony,
                   epoch |-> IF ceremony = "dkg" THEN 1 ELSE OldEpoch + 1,
                   previous |-> IF ceremony = "dkg" THEN 0 ELSE OldEpoch,
                   threshold |-> Threshold, roster |-> NewRoster,
                   coefficients |-> first.coefficients, transcript |-> first.transcript,
                   sharePublicKey |-> key]
  <2>1. WellFormed(m) /\ manifest' = m /\ (\A id \in Recipients : Finalized(id))
        /\ UNCHANGED <<finalizations, keystore>>
    BY <1>4 DEF assembleManifest
  <2>2. m.roster = NewRoster /\ m.coefficients = first.coefficients /\ m.sharePublicKey = key
    OBVIOUS
  <2>3. \A id \in Recipients \ Faulty : keystore[id].share = key[id]
    <3> SUFFICES ASSUME NEW id \in Recipients \ Faulty PROVE keystore[id].share = key[id]
      OBVIOUS
    <3> DEFINE f == CHOOSE f \in finalizations : f.participant = id
    <3>1. f \in finalizations /\ f.participant = id
      BY <2>1 DEF Finalized
    <3>2. key[id] = f.sharePublicKey
      OBVIOUS
    <3> HIDE DEF f
    <3> QED BY <3>1, <3>2 DEF KeystoreInv
  <2>4. first \in finalizations
    BY <2>1, ConfigFacts DEF Finalized
  <2> HIDE DEF first, key, m
  <2>5. PICK D, R, Z : /\ GoodFiles(D, R, Z)
                       /\ first.coefficients = aggregateCommitments(Qualified(D, R, Z))
    BY <2>4 DEF FinalizationsInv, SoundFinalization
  <2>6. first.coefficients \in Seq(Scalars)
    <3> DEFINE Q == Qualified(D, R, Z)
    <3>1. Q \in SUBSET deals
      BY <2>5 DEF GoodFiles, Qualified
    <3> HIDE DEF Q
    <3>2. IsFiniteSet(Q) /\ \A d \in Q : SoundDeal(d)
      BY <3>1, FS_Subset DEF DealsInv
    <3>3. \A d \in Q : d.commitments \in Seq(Scalars) /\ Len(d.commitments) = Threshold
      BY <3>2 DEF SoundDeal
    <3> QED BY <2>5, <3>2, <3>3, AggregateType DEF Q
  <2>7. ceremony = "reshare" => first.coefficients[1] = groupPublicKey(OldManifest)
    BY <2>5 DEF GoodFiles
  <2>8. ceremony' = ceremony
    BY <1>0 DEF Grows
  <2>9. manifest'.coefficients = first.coefficients /\ manifest'.sharePublicKey = key
        /\ manifest'.roster = NewRoster /\ WellFormed(manifest)'
    BY <2>1, <2>2
  <2>10. ceremony' = "reshare" => groupPublicKey(manifest)' = groupPublicKey(OldManifest)
    BY <2>7, <2>8, <2>9 DEF groupPublicKey
  <2>11. \A id \in Recipients : Finalized(id)'
    BY <2>1 DEF Finalized
  <2>12. \A id \in Recipients \ Faulty : keystore'[id].share = manifest'.sharePublicKey[id]
    BY <2>1, <2>3, <2>9
  <2> QED BY <2>6, <2>9, <2>10, <2>11, <2>12 DEF ManifestInv
<1>5. \/ UNCHANGED <<manifest, keystore>>
      \/ \E id \in Recipients : finalizeCeremony(id)
      \/ \E id \in Recipients : bindKeystoreToManifest(id)
      \/ assembleManifest
  BY StepWrites
<1> QED BY <1>1, <1>2, <1>3, <1>4, <1>5

\* The invariant holds when a ceremony starts.
LEMMA DKGInitInv == ASSUME DKGInit PROVE DKGInv
<1>1. ConfigInv
  BY DEF DKGInit, ConfigInv
<1>2. DealsInv /\ ResponsesInv /\ HonestUnexposed /\ FinalizationsInv
  BY FS_EmptySet DEF DKGInit, DealsInv, ResponsesInv, HonestUnexposed, FinalizationsInv
<1>3. KeystoreInv
  <2>1. keystore = [id \in Recipients |-> [share |-> None, transcript |-> None, bound |-> FALSE]]
        /\ finalizations = {}
    BY DEF DKGInit
  <2> QED BY <2>1 DEF KeystoreInv
<1>4. ManifestInv
  BY DEF DKGInit, ManifestInv
<1> QED BY <1>1, <1>2, <1>3, <1>4 DEF DKGInv

\* Every step of a ceremony preserves the invariant.
LEMMA DKGInductive == ASSUME DKGInv, [DKGNext]_dkgVars PROVE DKGInv'
<1> USE DEF DKGInv
<1>1. ConfigInv'
  BY StepWrites, ConfigStep
<1>2. DealsInv'
  BY DealsStep
<1>3. ResponsesInv'
  BY ResponsesStep
<1>4. HonestUnexposed'
  BY UnexposedStep
<1>5. FinalizationsInv'
  BY FinalizationsStep
<1>6. KeystoreInv'
  BY KeystoreStep
<1>7. ManifestInv'
  BY ManifestStep
<1> QED BY <1>1, <1>2, <1>3, <1>4, <1>5, <1>6, <1>7

\* The invariant of the ceremony, for every roster, threshold, draw and set of
\* faulty members.
THEOREM DKGInvariant == DKGSpec => []DKGInv
<1>1. DKGInit => DKGInv
  BY DKGInitInv
<1>2. DKGInv /\ [DKGNext]_dkgVars => DKGInv'
  BY DKGInductive
<1> QED BY <1>1, <1>2, PTL DEF DKGSpec

------------------------------------------------------------------------------
(* The ceremony: its properties                                            *)

\* The invariant gives SharesReconstruct: the shares lie on one polynomial of
\* degree below the threshold.
LEMMA ManifestReconstructs == ASSUME DKGInv PROVE SharesReconstruct
<1> SUFFICES ASSUME manifest # None
             PROVE  /\ \A S \in Quorums(manifest) :
                         Interpolate(SharesAt(manifest, S)) = groupPublicKey(manifest)
                    /\ \A id \in Recipients \cap Honest :
                         keystore[id].share = manifest.sharePublicKey[id]
                    /\ ceremony = "reshare" =>
                         \A S \in Quorums(OldManifest) :
                             Interpolate(SharesAt(OldManifest, S)) = groupPublicKey(manifest)
  BY DEF SharesReconstruct
<1>1. /\ WellFormed(manifest) /\ manifest.roster = NewRoster
      /\ manifest.coefficients \in Seq(Scalars)
      /\ ceremony = "reshare" => groupPublicKey(manifest) = groupPublicKey(OldManifest)
      /\ \A id \in Recipients \ Faulty : keystore[id].share = manifest.sharePublicKey[id]
  BY DEF DKGInv, ManifestInv
<1>2. \A S \in Quorums(manifest) :
        Interpolate(SharesAt(manifest, S)) = groupPublicKey(manifest)
  <2>1. IsRoster(manifest.roster)
    BY <1>1, ConfigFacts
  <2> QED BY <1>1, <2>1, WellFormedReconstructs
<1>3. \A id \in Recipients \cap Honest : keystore[id].share = manifest.sharePublicKey[id]
  BY <1>1 DEF Honest
<1>4. \A S \in Quorums(OldManifest) :
        Interpolate(SharesAt(OldManifest, S)) = groupPublicKey(OldManifest)
  <2>1. /\ WellFormed(OldManifest) /\ OldManifest.coefficients \in Seq(Scalars)
        /\ IsRoster(OldManifest.roster)
    BY ConfigFacts DEF OldManifest
  <2> DEFINE m == OldManifest
  <2> HIDE DEF m
  <2>2. WellFormed(m) /\ m.coefficients \in Seq(Scalars) /\ IsRoster(m.roster)
    BY <2>1 DEF m
  <2>3. \A S \in Quorums(m) : Interpolate(SharesAt(m, S)) = groupPublicKey(m)
    BY <2>2, WellFormedReconstructs
  <2> QED BY <2>3 DEF m
<1> QED BY <1>1, <1>2, <1>3, <1>4

\* The invariant gives FinalizableByAll: a participant either accepted the deal
\* it was sent, and there is only one, or its complaint was answered in public.
LEMMA OthersFinalize == ASSUME DKGInv PROVE FinalizableByAll
<1> SUFFICES ASSUME \A id \in Dealers : Cardinality(DealsOf(id)) <= 1,
                    NEW f \in finalizations, NEW id \in Recipients \cap Honest,
                    {r.recipient : r \in f.transcript[2]} = Recipients
             PROVE  LET D == f.transcript[1]  R == f.transcript[2]  Z == f.transcript[3]
                    IN  \/ CanFinalize(id, D, R, Z)
                        \/ /\ \A d \in Qualified(D, R, Z) : HasContribution(d, id, Z)
                           /\ PrivateShare(Qualified(D, R, Z), id, Z) = 0
  BY DEF FinalizableByAll
<1>1. PICK D, R, Z : f.transcript = <<D, R, Z>> /\ GoodFiles(D, R, Z)
  BY DEF DKGInv, FinalizationsInv, SoundFinalization
<1>2. f.transcript[1] = D /\ f.transcript[2] = R /\ f.transcript[3] = Z
  BY <1>1
<1>3. PICK r \in R : r.recipient = id
  BY <1>2
<1>4. id \notin Faulty /\ r \in responses /\ FilesValid(D, R, Z) /\ D \in SUBSET deals
  BY <1>1 DEF Honest, GoodFiles
<1>5. PICK D0 \in SUBSET deals : Judged(r, D0)
  BY <1>3, <1>4 DEF DKGInv, ResponsesInv
<1>6. ASSUME NEW d \in Qualified(D, R, Z) PROVE HasContribution(d, id, Z)
  <2>1. d \in D /\ Complaints(R, d.dealer) \subseteq ResolvedShares(d, Z)
    BY <1>6 DEF Qualified
  <2>2. /\ d.dealer \in DealersOf(D)
        /\ DOMAIN r.status = DealersOf(D) /\ DOMAIN r.status = DealersOf(D0)
    BY <1>4, <1>5, <2>1 DEF FilesValid, DealersOf, Judged
  <2>3. CASE r.status[d.dealer]
    <3>1. PICK e \in D0 : e.dealer = d.dealer /\ Matches(e, r.recipient)
      BY <1>5, <2>2, <2>3 DEF Judged
    <3>2. e = d
      <4> DEFINE Own == DealsOf(d.dealer)
      <4>1. d \in Own /\ e \in Own /\ d \in deals
        BY <1>4, <2>1, <3>1 DEF DealsOf
      <4>2. d.dealer \in Dealers
        BY <4>1 DEF DKGInv, DealsInv, SoundDeal
      <4>3. Own \in SUBSET deals /\ IsFiniteSet(deals)
        BY DEF DealsOf, DKGInv, DealsInv
      <4>4. Cardinality(Own) <= 1
        BY <4>2
      <4> HIDE DEF Own
      <4>5. IsFiniteSet(Own) /\ Cardinality(Own) \in Nat
        BY <4>3, FS_Subset, FS_CardinalityType
      <4>6. Cardinality(Own) # 0
        BY <4>1, <4>5, FS_EmptySet
      <4>7. Cardinality(Own) = 1
        BY <4>4, <4>5, <4>6
      <4>8. \E x : Own = {x}
        BY <4>5, <4>7, FS_Singleton
      <4> QED BY <4>1, <4>8
    <3> QED BY <1>3, <3>1, <3>2 DEF HasContribution
  <2>4. CASE ~r.status[d.dealer]
    <3>1. id \in Complaints(R, d.dealer)
      BY <1>3, <2>2, <2>4 DEF Complaints
    <3> QED BY <2>1, <3>1 DEF HasContribution
  <2> QED BY <2>3, <2>4
<1>7. \/ PrivateShare(Qualified(D, R, Z), id, Z) = 0
      \/ CanFinalize(id, D, R, Z)
  BY <1>1, <1>6 DEF GoodFiles, CanFinalize
<1> QED BY <1>2, <1>6, <1>7

\* The invariant gives HandoffAddsUp: the weighted old shares interpolate the old
\* group key.
LEMMA HandoffSums == ASSUME DKGInv PROVE HandoffAddsUp
<1> SUFFICES ASSUME ceremony = "reshare", selected \subseteq DealersOf(deals),
                    selected \cap Faulty = {}
             PROVE  aggregateCommitments({d \in deals : d.dealer \in selected})[1]
                        = groupPublicKey(OldManifest)
  BY DEF HandoffAddsUp
<1> DEFINE Q == {d \in deals : d.dealer \in selected}
           S == SelectedIndexes
           c == OldCoefficients
           b == [d \in Q |-> IndexOf(OldRoster, d.dealer)]
           w(i) == lagrangeCoefficientAtZero(i, S)
           raw == [i \in S |-> commitmentAt(c, i) * w(i)]
           cut == [i \in S |-> mod(commitmentAt(c, i) * w(i))]
           first == [d \in Q |-> d.commitments[1]]
<1>0. /\ ConfigInv /\ DealsInv /\ selected \subseteq Members(OldRoster)
      /\ Cardinality(selected) >= OldThreshold
  BY DEF DKGInv, ConfigInv
<1>1. IsFiniteSet(Q) /\ \A d \in Q : SoundDeal(d) /\ d.dealer \in selected /\ d \in deals
  <2>1. Q \in SUBSET deals /\ \A d \in Q : d.dealer \in selected
    OBVIOUS
  <2> HIDE DEF Q
  <2> QED BY <1>0, <2>1, FS_Subset DEF DealsInv
<1>2. S \in SUBSET Indexes /\ IsFiniteSet(S) /\ OldThreshold <= Cardinality(S)
  <2> DEFINE I == [id \in selected |-> IndexOf(OldRoster, id)]
  <2>1. \A id \in selected : /\ IndexOf(OldRoster, id) \in DOMAIN OldRoster
                             /\ OldRoster[IndexOf(OldRoster, id)] = id
    BY <1>0, ConfigFacts, RosterFacts
  <2>2. S \in SUBSET DOMAIN OldRoster
    BY <2>1 DEF SelectedIndexes
  <2>3. \A x, y \in selected : I[x] = I[y] => x = y
    BY <2>1
  <2>4. {I[id] : id \in selected} = S
    BY DEF SelectedIndexes
  <2>5. IsFiniteSet(selected)
    <3>1. IsFiniteSet(S) /\ \A i \in S : TRUE
      BY <2>2, ConfigFacts, RosterFacts, FS_Subset
    <3>2. selected \in SUBSET {OldRoster[i] : i \in DOMAIN OldRoster}
      BY <2>1
    <3>3. IsFiniteSet({OldRoster[i] : i \in DOMAIN OldRoster})
      BY ConfigFacts, RosterFacts, FiniteImage
    <3> QED BY <3>2, <3>3, FS_Subset
  <2> HIDE DEF I, S
  <2>6. IsFiniteSet(S) /\ Cardinality(S) = Cardinality(selected)
    BY <2>3, <2>4, <2>5, InjectiveImage
  <2>7. S \in SUBSET Indexes
    BY <2>2, ConfigFacts, RosterFacts
  <2> QED BY <1>0, <2>6, <2>7
<1>3. \A d \in Q : b[d] \in S /\ first[d] = cut[b[d]]
  <2> SUFFICES ASSUME NEW d \in Q PROVE b[d] \in S /\ first[d] = cut[b[d]]
    OBVIOUS
  <2>1. SoundDeal(d) /\ d.dealer \in selected /\ d.dealer \notin Faulty
    BY <1>1
  <2>2. first[d] = HandoffConstant(d.dealer)
    BY <2>1 DEF SoundDeal
  <2>3. b[d] = IndexOf(OldRoster, d.dealer) /\ b[d] \in S
    BY <2>1 DEF SelectedIndexes
  <2>4. OldManifest.sharePublicKey[d.dealer] = commitmentAt(c, IndexOf(OldRoster, d.dealer))
    BY <1>0, <2>1, HandoffScalar
  <2>5. cut[b[d]] = mod(commitmentAt(c, b[d]) * w(b[d]))
    BY <2>3
  <2> QED BY <2>2, <2>3, <2>4, <2>5 DEF HandoffConstant
<1>4. {b[d] : d \in Q} = S
  <2>1. \A d \in Q : b[d] \in S
    BY <1>3
  <2>2. ASSUME NEW i \in S PROVE \E d \in Q : b[d] = i
    <3>1. PICK id \in selected : i = IndexOf(OldRoster, id)
      BY DEF SelectedIndexes
    <3>2. PICK d \in deals : d.dealer = id
      BY <3>1 DEF DealersOf
    <3> QED BY <3>1, <3>2
  <2> HIDE DEF b, Q, S
  <2> QED BY <2>1, <2>2
<1>5. \A d, e \in Q : b[d] = b[e] => d = e
  <2> SUFFICES ASSUME NEW d \in Q, NEW e \in Q, b[d] = b[e] PROVE d = e
    OBVIOUS
  <2>1. d.dealer \in selected /\ e.dealer \in selected /\ d \in deals /\ e \in deals
    OBVIOUS
  <2>2. OldRoster[b[d]] = d.dealer /\ OldRoster[b[e]] = e.dealer
    BY <1>0, <2>1, ConfigFacts, RosterFacts
  <2>3. d.dealer = e.dealer /\ d.dealer \notin Faulty
    BY <2>1, <2>2
  <2> QED BY <1>0, <2>1, <2>3 DEF DealsInv
<1>6. \A i \in S : raw[i] \in Int /\ cut[i] \in Int /\ Cong(cut[i], raw[i])
  <2> SUFFICES ASSUME NEW i \in S
               PROVE raw[i] \in Int /\ cut[i] \in Int /\ Cong(cut[i], raw[i])
    OBVIOUS
  <2> DEFINE p == commitmentAt(c, i)  l == w(i)  y == p * l
  <2>1. raw[i] = y /\ cut[i] = mod(y)
    OBVIOUS
  <2>2. p \in Int
    <3>1. c \in Seq(Int) /\ i \in Int
      BY <1>2, ConfigFacts, ModScalar, OrderNat DEF Indexes
    <3> HIDE DEF c
    <3>2. p \in Scalars
      BY <3>1, CommitmentEval
    <3> QED BY <3>2, ModScalar
  <2>3. l \in Int
    <3> HIDE DEF S
    <3> QED BY <1>2, LagrangeParts, ModScalar
  <2> HIDE DEF p, l
  <2>4. y \in Int
    BY <2>2, <2>3
  <2> HIDE DEF y, raw, cut
  <2> QED BY <2>1, <2>4, ModInt, ModCong
<1>7. Interpolate([i \in S |-> commitmentAt(c, i)]) = c[1]
  <2>1. WellFormed(OldManifest) /\ c \in Seq(Scalars)
    BY ConfigFacts
  <2>2. Len(c) = OldThreshold /\ OldThreshold >= 2
    BY <2>1 DEF WellFormed, OldManifest, StrictMajority
  <2>3. Len(c) >= 1 /\ Len(c) <= Cardinality(S)
    BY <1>2, <2>2
  <2> HIDE DEF S, c
  <2> QED BY <1>2, <2>1, <2>3, Interpolation
<1>8. Interpolate([i \in S |-> commitmentAt(c, i)]) = mod(SumOn(raw, S))
  <2> DEFINE g == [i \in S |-> commitmentAt(c, i)]
  <2>1. DOMAIN g = S
    OBVIOUS
  <2>2. [i \in DOMAIN g |-> g[i] * lagrangeCoefficientAtZero(i, DOMAIN g)] = raw
    BY <2>1
  <2>3. [i \in S |-> raw[i]] = raw
    OBVIOUS
  <2> HIDE DEF g, raw, S
  <2> QED BY <2>2, <2>3 DEF Interpolate, SumOn, g
<1>9. aggregateCommitments(Q)[1] = mod(SumOn(first, Q))
  <2>1. \A d \in Q : d.commitments \in Seq(Scalars) /\ Len(d.commitments) = Threshold
    BY <1>1 DEF SoundDeal
  <2> HIDE DEF Q
  <2> QED BY <1>1, <2>1, ConfigFacts, AggregateType DEF first
<1>10. SumOn(first, Q) = SumOn(cut, S)
  <2>1. \A d \in Q : cut[b[d]] \in Int /\ first[d] = cut[b[d]]
    BY <1>3, <1>6
  <2> HIDE DEF Q, b, first, cut, S
  <2>2. IsFiniteSet(Q)
    BY <1>1
  <2>3. SumOn(first, Q) = SumOn(cut, {b[d] : d \in Q})
    BY ONLY <1>5, <2>1, <2>2, SumReindex
  <2> QED BY <1>4, <2>3
<1>11. mod(SumOn(cut, S)) = mod(SumOn(raw, S))
  <2> HIDE DEF S, raw, cut
  <2>1. Cong(SumOn(cut, S), SumOn(raw, S))
    BY <1>2, <1>6, SumCong
  <2>2. SumOn(cut, S) \in Int /\ SumOn(raw, S) \in Int
    BY <1>2, <1>6, SumFacts
  <2> DEFINE u == SumOn(cut, S)  v == SumOn(raw, S)
  <2>3. u \in Int /\ v \in Int /\ Cong(u, v)
    BY <2>1, <2>2
  <2> HIDE DEF u, v
  <2>4. mod(u) = mod(v)
    BY <2>3, CongMod
  <2> QED BY <2>4 DEF u, v
<1>12. groupPublicKey(OldManifest) = c[1]
  BY DEF groupPublicKey, OldManifest
<1> QED BY <1>7, <1>8, <1>9, <1>10, <1>11, <1>12

\* Every threshold of the shares of an assembled manifest interpolates to its
\* group key, and to the old one after a reshare.
THEOREM ManifestSharesReconstruct == DKGSpec => []SharesReconstruct
  BY DKGInvariant, ManifestReconstructs, PTL

\* Files that let one honest participant finalize let every other (a zero share
\* excepted).
THEOREM EveryoneFinalizes == DKGSpec => []FinalizableByAll
  BY DKGInvariant, OthersFinalize, PTL

\* A resolution of an honest dealer makes public no honest share, unless it is
\* zero.
THEOREM HonestDealsUnexposed == DKGSpec => []HonestUnexposed
<1>1. DKGInv => HonestUnexposed
  BY DEF DKGInv
<1> QED BY <1>1, DKGInvariant, PTL

\* The constants of honest reshare dealers add up to the old group key.
THEOREM HandoffConstantsAddUp == DKGSpec => []HandoffAddsUp
  BY DKGInvariant, HandoffSums, PTL

\* The share key an honest participant hands in (finalizeCeremony) is the one the
\* aggregated commitments fix for its index, so that the commitment check of
\* normalizeBody cannot fail because of it.
HonestShareKeys ==
    \A f \in finalizations : f.participant \notin Faulty =>
        f.sharePublicKey = commitmentAt(f.coefficients, IndexNew(f.participant))

\* It always is, whichever deals and resolutions the share was added up from.
THEOREM HonestShareKeysCommitted == DKGSpec => []HonestShareKeys
<1>1. DKGInv => HonestShareKeys
  BY DEF DKGInv, KeystoreInv, HonestShareKeys
<1> QED BY <1>1, DKGInvariant, PTL

\* Partial signatures of every threshold of the shares of an assembled manifest
\* aggregate to a signature of the group key (aggregateThresholdShares).
QuorumsSign ==
    manifest # None =>
        \A S \in Quorums(manifest), message \in Scalars \ {0} :
            LET keys == SharesAt(manifest, S)
            IN  Aggregates(message, groupPublicKey(manifest), manifest.threshold,
                           [i \in S |-> signPartial(message, keys[i])], keys)

\* Whatever happened in the ceremony, the key it produced can sign.
THEOREM ManifestQuorumsSign == DKGSpec => []QuorumsSign
<1>1. DKGInv => QuorumsSign
  <2> SUFFICES ASSUME DKGInv, manifest # None,
                      NEW S \in Quorums(manifest), NEW message \in Scalars \ {0}
               PROVE  LET keys == SharesAt(manifest, S)
                      IN  Aggregates(message, groupPublicKey(manifest), manifest.threshold,
                                     [i \in S |-> signPartial(message, keys[i])], keys)
    BY DEF QuorumsSign
  <2> DEFINE c == manifest.coefficients  keys == SharesAt(manifest, S)
             roster == manifest.roster
  <2>1. WellFormed(manifest) /\ IsRoster(roster) /\ c \in Seq(Scalars)
    BY ConfigFacts DEF DKGInv, ManifestInv
  <2>2. S \in SUBSET DOMAIN roster /\ Cardinality(S) = manifest.threshold
    BY DEF Quorums
  <2>3. S \in SUBSET Indexes /\ IsFiniteSet(S)
    BY <2>1, <2>2, RosterFacts, FS_Subset
  <2>4. /\ Len(c) = manifest.threshold /\ manifest.threshold >= 2 /\ c[1] # 0
    BY <2>1 DEF WellFormed, StrictMajority, groupPublicKey
  <2>5. \A i \in S : keys[i] = commitmentAt(c, i) /\ keys[i] # 0
    <3> SUFFICES ASSUME NEW i \in S PROVE keys[i] = commitmentAt(c, i) /\ keys[i] # 0
      OBVIOUS
    <3>1. roster[i] \in Members(roster) /\ IndexOf(roster, roster[i]) = i
      BY <2>1, <2>2, RosterFacts
    <3>2. \A id \in Members(roster) :
             /\ manifest.sharePublicKey[id] # 0
             /\ manifest.sharePublicKey[id] = commitmentAt(c, IndexOf(roster, id))
      BY <2>1 DEF WellFormed, verifyPublicShareCommitment
    <3>3. keys[i] = manifest.sharePublicKey[roster[i]]
      BY DEF SharesAt
    <3> QED BY <3>1, <3>2, <3>3
  <2>6. Len(c) >= 1 /\ Len(c) <= Cardinality(S) /\ manifest.threshold <= Cardinality(S)
    BY <2>2, <2>4
  <2> HIDE DEF c, keys
  <2>7. Aggregates(message, c[1], manifest.threshold,
                   [i \in S |-> signPartial(message, keys[i])], keys)
    BY <2>1, <2>3, <2>4, <2>5, <2>6, PartialsAggregate
  <2> QED BY <2>7 DEF c, keys, groupPublicKey
<1> QED BY <1>1, DKGInvariant, PTL

------------------------------------------------------------------------------
(* The signing nodes                                                       *)

\* Of a validated manifest, any threshold of valid partials aggregates to a
\* signature of the group: aggregateThresholdShares never fails on them.
THEOREM AnyThresholdAggregates ==
    \A g \in Groups : \A m \in Messages :
        AggregatingSets[g][m] = {S \in SUBSET Nodes : Cardinality(S) = g.threshold}
<1> SUFFICES ASSUME NEW g \in Groups, NEW m \in Messages, NEW S \in SUBSET Nodes,
                    Cardinality(S) = g.threshold
             PROVE  Aggregates(m, g.coefficients[1], g.threshold,
                               [n \in S |-> signPartial(m, ShareKeys[g][n])], ShareKeys[g])
  BY DEF AggregatingSets
<1> DEFINE c == g.coefficients  keys == ShareKeys[g]
<1>1. /\ c \in Seq(Scalars) /\ g.threshold \in Nat \ {0} /\ Len(c) = g.threshold
      /\ c[1] # 0 /\ \A n \in Nodes : keys[n] # 0
  BY NodeAssumption DEF ValidatedGroup
<1>2. \A n \in S : keys[n] = commitmentAt(c, n) /\ keys[n] # 0
  BY <1>1 DEF ShareKeys
<1>3. S \in SUBSET Indexes /\ IsFiniteSet(S)
  BY NodeAssumption, FS_Subset DEF Indexes
<1>4. m \in Scalars \ {0}
  BY NodeAssumption, OrderNat DEF Messages, Scalars
<1>5. Len(c) >= 1 /\ Len(c) <= Cardinality(S) /\ g.threshold <= Cardinality(S)
  BY <1>1
<1> HIDE DEF c, keys
<1>6. Aggregates(m, c[1], g.threshold, [n \in S |-> signPartial(m, keys[n])], keys)
  BY <1>1, <1>2, <1>3, <1>4, <1>5, PartialsAggregate
<1> QED BY <1>6 DEF c, keys

Signatures == [Requests -> Messages \cup {None}]
Tasks == [request : Requests, message : Messages, pc : {"audit", "release"}]
Entries == Requests \X Messages

Logged(n) == Range(auditLog[n])

TypeInv ==
    /\ group \in Groups
    /\ up \in [Nodes -> BOOLEAN]
    /\ signed \in [Nodes -> Signatures]
    /\ stateFile \in [Nodes -> Signatures]
    /\ audited \in [Nodes -> SUBSET Requests]
    /\ waiting \in [Nodes -> SUBSET Entries]
    /\ section \in [Nodes -> Tasks \cup {None}]
    /\ auditLog \in [Nodes -> Seq(Entries)]
    /\ \A p \in released : p.node \in Nodes

\* A stopped node has no handlers.
StoppedIsEmpty(n) == ~up[n] => waiting[n] = {} /\ section[n] = None

\* The log never names two messages of one request.
LogConsistent(n) == \A x, y \in Logged(n) : x[1] = y[1] => x[2] = y[2]

\* What is logged is what a running node has in memory, and the requests it
\* takes for logged are.
MemoryCoversLog(n) ==
    up[n] =>
        /\ \A x \in Logged(n) : signed[n][x[1]] = x[2]
        /\ \A r \in audited[n] : \E x \in Logged(n) : x[1] = r

\* The task in hand is about the message in memory; past its audit it is
\* in the log.
TaskRecorded(n) ==
    section[n] # None =>
        LET t == section[n]
        IN  /\ signed[n][t.request] = t.message
            /\ t.pc = "release" => <<t.request, t.message>> \in Logged(n)

\* The disk of a node that lost no write is at least as far as its memory.
DiskInStep(n) ==
    n \notin damaged =>
        /\ LogAccepted(n)
        /\ up[n] => \A x \in Logged(n) : x[1] \in audited[n]
        /\ section[n] # None => stateFile[n][section[n].request] = section[n].message

NodeOK(n) ==
    /\ StoppedIsEmpty(n) /\ LogConsistent(n) /\ MemoryCoversLog(n)
    /\ TaskRecorded(n) /\ DiskInStep(n)

\* Whatever was proved had a threshold of responses.
ProofsBacked ==
    mode = "threshold" =>
        \A x \in proofs : Cardinality(Responders(x[1], x[2])) >= group.threshold

\* The inductive invariant.
NodeInv ==
    /\ TypeInv
    /\ \A n \in Nodes : NodeOK(n)
    /\ ReleasedIsAudited
    /\ ProofsBacked

------------------------------------------------------------------------------
(* Facts about the state the actions work on *)

\* Appending to the log adds one entry.
LEMMA AppendEntry ==
    ASSUME NEW s \in Seq(Entries), NEW e \in Entries
    PROVE  /\ Append(s, e) \in Seq(Entries)
           /\ Range(Append(s, e)) = Range(s) \cup {e}
           /\ Range(s) \subseteq Entries
<1>1. /\ Append(s, e) \in Seq(Entries) /\ DOMAIN s = 1..Len(s) /\ Len(s) \in Nat
      /\ DOMAIN Append(s, e) = 1..(Len(s) + 1)
      /\ \A i \in 1..(Len(s) + 1) : Append(s, e)[i] = IF i = Len(s) + 1 THEN e ELSE s[i]
      /\ \A i \in 1..Len(s) : s[i] \in Entries
  OBVIOUS
<1> QED BY <1>1 DEF Range

\* The entries of a log name requests and messages.
LEMMA LoggedEntries ==
    ASSUME TypeInv, NEW n \in Nodes
    PROVE  /\ Logged(n) \subseteq Entries
           /\ \A x \in Logged(n) :
                x[1] \in Requests /\ x[2] \in Messages /\ x = <<x[1], x[2]>>
<1>1. auditLog[n] \in Seq(Entries)
  BY DEF TypeInv
<1>2. Logged(n) \subseteq Entries
  BY <1>1 DEF Logged, Range
<1> QED BY <1>2 DEF Entries

\* A message is never the mark of its absence.
LEMMA NoneIsNoMessage == \A m \in Messages : m # None
BY NodeAssumption DEF Messages

\* A node none of whose state changes stays sound.
LEMMA Untouched ==
    ASSUME NEW k, NodeOK(k),
           up'[k] = up[k], signed'[k] = signed[k], audited'[k] = audited[k],
           waiting'[k] = waiting[k], section'[k] = section[k],
           stateFile'[k] = stateFile[k], auditLog'[k] = auditLog[k],
           k \in damaged' <=> k \in damaged
    PROVE  NodeOK(k)'
BY DEF NodeOK, StoppedIsEmpty, LogConsistent, MemoryCoversLog, TaskRecorded,
       DiskInStep, LogAccepted, Logged

\* The responders are nodes, and there are never fewer.
LEMMA RespondersGrow ==
    ASSUME TypeInv, \A p \in released' : p.node \in Nodes,
           released \subseteq released', group' = group,
           NEW r, NEW m
    PROVE  /\ IsFiniteSet(Responders(r, m))
           /\ Cardinality(Responders(r, m)) \in Nat
           /\ Cardinality(Responders(r, m)') \in Nat
           /\ Cardinality(Responders(r, m)) <= Cardinality(Responders(r, m)')
<1>1. Responders(r, m) \subseteq Nodes /\ Responders(r, m)' \subseteq Nodes
  BY DEF Responders, TypeInv
<1>2. Responders(r, m) \subseteq Responders(r, m)'
  BY DEF Responders, Valid
<1>3. IsFiniteSet(Nodes)
  BY NodeAssumption
<1>4. IsFiniteSet(Responders(r, m)) /\ IsFiniteSet(Responders(r, m)')
  BY <1>1, <1>3, FS_Subset
<1> QED BY <1>2, <1>4, FS_Subset, FS_CardinalityType

\* Steps that neither prove nor change the group keep ProofsBacked.
LEMMA BackedStep ==
    ASSUME NodeInv, \A p \in released' : p.node \in Nodes,
           released \subseteq released', UNCHANGED <<group, mode, proofs>>
    PROVE  ProofsBacked'
<1>1. \A g \in Groups : g.threshold \in Nat
  BY NodeAssumption DEF ValidatedGroup
<1>2. group.threshold \in Nat
  BY <1>1 DEF NodeInv, TypeInv
<1> SUFFICES ASSUME mode = "threshold", NEW x \in proofs
             PROVE  Cardinality(Responders(x[1], x[2])') >= group.threshold
  BY DEF ProofsBacked
<1>3. Cardinality(Responders(x[1], x[2])) >= group.threshold
  BY DEF NodeInv, ProofsBacked
<1>4. /\ Cardinality(Responders(x[1], x[2])) \in Nat
      /\ Cardinality(Responders(x[1], x[2])') \in Nat
      /\ Cardinality(Responders(x[1], x[2])) <= Cardinality(Responders(x[1], x[2])')
  BY RespondersGrow DEF NodeInv
<1> QED BY <1>2, <1>3, <1>4

\* How the step of one node keeps the invariant: it leaves the other nodes
\* alone, is sound itself, loses nothing from its log, and releases nothing
\* it has not logged.
LEMMA NodeStepKeeps ==
    ASSUME NodeInv, TypeInv', NEW n \in Nodes, NodeOK(n)',
           UNCHANGED <<group, mode, proofs>>,
           \A k \in Nodes \ {n} :
              /\ up'[k] = up[k] /\ signed'[k] = signed[k] /\ audited'[k] = audited[k]
              /\ waiting'[k] = waiting[k] /\ section'[k] = section[k]
              /\ stateFile'[k] = stateFile[k] /\ auditLog'[k] = auditLog[k]
              /\ k \in damaged' <=> k \in damaged,
           Logged(n) \subseteq Logged(n)',
           released \subseteq released',
           \A p \in released' \ released :
              p.node = n /\ <<p.request, p.message>> \in Logged(n)'
    PROVE  NodeInv'
<1>1. \A k \in Nodes : NodeOK(k)'
  BY Untouched DEF NodeInv
<1>2. ProofsBacked'
  BY BackedStep DEF TypeInv
<1>3. ReleasedIsAudited'
  <2> SUFFICES ASSUME NEW p \in released', p.node \notin group.faulty
               PROVE  <<p.request, p.message>> \in Logged(p.node)'
    BY DEF ReleasedIsAudited, Logged
  <2>1. CASE p \in released
    <3>1. <<p.request, p.message>> \in Logged(p.node) /\ p.node \in Nodes
      BY <2>1 DEF NodeInv, ReleasedIsAudited, Logged, TypeInv
    <3>2. \A k \in Nodes : Logged(k) \subseteq Logged(k)'
      BY DEF Logged
    <3> QED BY <3>1, <3>2
  <2> QED BY <2>1
<1> QED BY <1>1, <1>2, <1>3 DEF NodeInv

------------------------------------------------------------------------------
(* One lemma per action *)

\* Steps of the chain and of the operator that return no proof.
LEMMA QuietStep ==
    ASSUME NodeInv, UNCHANGED <<process, disk, released, group, mode, proofs>>
    PROVE  NodeInv'
<1>1. TypeInv'
  BY DEF NodeInv, TypeInv, process, disk
<1>2. \A n \in Nodes : NodeOK(n)'
  BY Untouched DEF NodeInv, process, disk
<1>3. ReleasedIsAudited'
  BY DEF NodeInv, ReleasedIsAudited, disk
<1>4. ProofsBacked'
  BY <1>1, BackedStep DEF TypeInv
<1> QED BY <1>1, <1>2, <1>3, <1>4 DEF NodeInv

\* A proof of a threshold provider has a threshold of responders.
LEMMA AggregateStep ==
    ASSUME NodeInv, NEW r \in Requests, Aggregate(r) \/ ProveLocal(r) \/ ProveRemote(r)
    PROVE  NodeInv'
<1>1. UNCHANGED <<process, disk, released, group, mode>> /\ proofs' = proofs \cup {<<r, ask[r]>>}
  BY DEF Aggregate, ProveLocal, ProveRemote, Return
<1>2. mode = "threshold" => Cardinality(Responders(r, ask[r])) >= group.threshold
  <2> SUFFICES ASSUME mode = "threshold"
               PROVE  Cardinality(Responders(r, ask[r])) >= group.threshold
    OBVIOUS
  <2>1. Aggregate(r)
    BY DEF ProveLocal, ProveRemote
  <2>2. PICK S \in SUBSET Responders(r, ask[r]) : Cardinality(S) >= group.threshold
    BY <2>1 DEF Aggregate
  <2>3. Responders(r, ask[r]) \subseteq Nodes
    BY DEF Responders, NodeInv, TypeInv
  <2>4. IsFiniteSet(Responders(r, ask[r]))
    BY <2>3, FS_Subset, NodeAssumption
  <2>5. /\ Cardinality(S) <= Cardinality(Responders(r, ask[r]))
        /\ Cardinality(S) \in Nat /\ Cardinality(Responders(r, ask[r])) \in Nat
    BY <2>4, FS_Subset, FS_CardinalityType
  <2>6. \A g \in Groups : g.threshold \in Nat
    BY NodeAssumption DEF ValidatedGroup
  <2> QED BY <2>2, <2>5, <2>6 DEF NodeInv, TypeInv
<1>3. TypeInv' /\ (\A n \in Nodes : NodeOK(n)') /\ ReleasedIsAudited'
  <2>1. TypeInv'
    BY <1>1 DEF NodeInv, TypeInv, process, disk
  <2>2. \A n \in Nodes : NodeOK(n)'
    BY <1>1, Untouched DEF NodeInv, process, disk
  <2> QED BY <1>1, <2>1, <2>2 DEF NodeInv, ReleasedIsAudited, disk
<1>4. ProofsBacked'
  <2>1. \A q, m : Responders(q, m)' = Responders(q, m)
    BY <1>1 DEF Responders, Valid
  <2> QED BY <1>1, <1>2, <2>1 DEF NodeInv, ProofsBacked
<1> QED BY <1>3, <1>4 DEF NodeInv

\* A handler queues its task.
LEMMA ResolveStep ==
    ASSUME NodeInv, NEW n \in Nodes, NEW r \in Requests, NEW m \in Messages, Resolve(n, r, m)
    PROVE  NodeInv'
<1>1. /\ up[n] /\ waiting' = [waiting EXCEPT ![n] = @ \cup {<<r, m>>}]
      /\ UNCHANGED <<up, signed, audited, section, stateFile, auditLog, damaged, released>>
      /\ UNCHANGED <<group, mode, proofs>>
  BY DEF Resolve, disk, operator
<1>2. TypeInv'
  BY <1>1 DEF NodeInv, TypeInv, Entries
<1>3. NodeOK(n)'
  BY <1>1 DEF NodeInv, NodeOK, StoppedIsEmpty, LogConsistent, MemoryCoversLog,
              TaskRecorded, DiskInStep, LogAccepted, Logged
<1> QED BY <1>1, <1>2, <1>3, NodeStepKeeps DEF Logged, NodeInv, TypeInv

\* The conflict check: what is recorded contradicts no earlier record, so no
\* logged request changes its message in memory.
LEMMA RecordStep ==
    ASSUME NodeInv, NEW n \in Nodes, NEW r \in Requests, NEW m \in Messages,
           NEW ok \in BOOLEAN, Record(n, r, m, ok)
    PROVE  NodeInv'
<1>1. /\ section[n] = None /\ <<r, m>> \in waiting[n]
      /\ waiting' = [waiting EXCEPT ![n] = @ \ {<<r, m>>}]
      /\ UNCHANGED <<up, audited, auditLog, damaged, released, group, mode, proofs>>
  BY DEF Record, operator
<1>2. up[n] /\ NodeOK(n) /\ TypeInv
  BY <1>1 DEF NodeInv, NodeOK, StoppedIsEmpty, TypeInv
<1>3. waiting' \in [Nodes -> SUBSET Entries]
  BY <1>1, <1>2 DEF TypeInv
<1>4. CASE Conflicts(n, r, m)
  <2>1. UNCHANGED <<signed, section, stateFile>>
    BY <1>4 DEF Record
  <2>2. TypeInv'
    BY <1>1, <1>2, <1>3, <2>1 DEF TypeInv
  <2>3. NodeOK(n)'
    BY <1>1, <1>2, <2>1 DEF NodeOK, StoppedIsEmpty, LogConsistent, MemoryCoversLog,
              TaskRecorded, DiskInStep, LogAccepted, Logged
  <2> QED BY <1>1, <2>1, <2>2, <2>3, NodeStepKeeps DEF Logged, NodeInv, TypeInv
<1>5. CASE ~Conflicts(n, r, m)
  <2> DEFINE t == Task(r, m, "audit")
  <2>1. /\ signed' = [signed EXCEPT ![n][r] = m]
        /\ stateFile' = IF ok THEN [stateFile EXCEPT ![n] = signed'[n]] ELSE stateFile
        /\ section' = IF ok THEN [section EXCEPT ![n] = t] ELSE section
    BY <1>5 DEF Record
  <2>2. t \in Tasks /\ t.request = r /\ t.message = m /\ t.pc = "audit"
    BY DEF Task, Tasks
  <2>3. signed[n] \in Signatures /\ signed[n][r] \in {None, m}
    BY <1>2, <1>5 DEF TypeInv, Conflicts
  <2>4. /\ signed' \in [Nodes -> Signatures] /\ signed'[n][r] = m
        /\ \A q \in Requests : signed[n][q] # None => signed'[n][q] = signed[n][q]
        /\ \A k \in Nodes \ {n} : signed'[k] = signed[k]
    BY <1>2, <2>1, <2>3 DEF TypeInv, Signatures
  <2> HIDE DEF t
  <2>5. /\ stateFile' \in [Nodes -> Signatures]
        /\ stateFile'[n] = IF ok THEN signed'[n] ELSE stateFile[n]
        /\ section' \in [Nodes -> Tasks \cup {None}]
        /\ section'[n] = IF ok THEN t ELSE None
        /\ \A k \in Nodes \ {n} : stateFile'[k] = stateFile[k] /\ section'[k] = section[k]
    BY <1>1, <1>2, <2>1, <2>2, <2>4 DEF TypeInv
  <2>6. TypeInv'
    BY <1>1, <1>2, <1>3, <2>4, <2>5 DEF TypeInv
  <2>7. \A x \in Logged(n) : x[1] \in Requests /\ x[2] \in Messages /\ signed'[n][x[1]] = x[2]
    <3>1. Logged(n) \subseteq Entries
      BY <1>2 DEF Logged, TypeInv, Range
    <3>2. \A x \in Logged(n) : x[1] \in Requests /\ x[2] \in Messages /\ signed[n][x[1]] = x[2]
      BY <1>2, <3>1 DEF Entries, NodeOK, MemoryCoversLog
    <3> QED BY <2>4, <3>2, NoneIsNoMessage
  <2>8. StoppedIsEmpty(n)' /\ LogConsistent(n)' /\ MemoryCoversLog(n)'
    BY <1>1, <1>2, <2>7 DEF NodeOK, StoppedIsEmpty, LogConsistent, MemoryCoversLog, Logged
  <2>9. TaskRecorded(n)'
    BY <2>2, <2>4, <2>5 DEF TaskRecorded
  <2>10. DiskInStep(n)'
    <3>1. \A i \in DOMAIN auditLog[n] : auditLog[n][i] \in Logged(n)
      BY DEF Logged, Range
    <3>2. n \notin damaged => LogAccepted(n)'
      BY <1>1, <1>2, <2>5, <2>7, <3>1 DEF NodeOK, DiskInStep, LogAccepted
    <3> QED BY <1>1, <1>2, <2>2, <2>4, <2>5, <3>2 DEF NodeOK, DiskInStep, Logged
  <2>11. NodeOK(n)'
    BY <2>8, <2>9, <2>10 DEF NodeOK
  <2>12. \A k \in Nodes \ {n} : waiting'[k] = waiting[k]
    BY <1>1, <1>2 DEF TypeInv
  <2> QED BY <1>1, <2>4, <2>5, <2>6, <2>11, <2>12, NodeStepKeeps DEF Logged
<1> QED BY <1>4, <1>5

\* Appending the task's entry, which memory agrees with, to the log.
LEMMA AppendTask ==
    ASSUME NodeInv, NEW n \in Nodes, section[n] # None,
           auditLog' = [auditLog EXCEPT ![n] =
                          Append(@, <<section[n].request, section[n].message>>)]
    PROVE  LET e == <<section[n].request, section[n].message>>
           IN  /\ e \in Entries /\ up[n]
               /\ e[1] = section[n].request /\ e[2] = section[n].message
               /\ auditLog' \in [Nodes -> Seq(Entries)]
               /\ auditLog'[n] = Append(auditLog[n], e)
               /\ Logged(n)' = Logged(n) \cup {e}
               /\ \A k \in Nodes \ {n} : auditLog'[k] = auditLog[k]
               /\ \A x \in Logged(n)' : signed[n][x[1]] = x[2]
<1> DEFINE e == <<section[n].request, section[n].message>>
<1>1. section[n] \in Tasks /\ auditLog \in [Nodes -> Seq(Entries)] /\ NodeOK(n)
  BY DEF NodeInv, TypeInv
<1>2. e \in Entries /\ e[1] = section[n].request /\ e[2] = section[n].message
  BY <1>1 DEF Tasks, Entries
<1>3. up[n] /\ signed[n][e[1]] = e[2]
  BY <1>1, <1>2 DEF NodeOK, StoppedIsEmpty, TaskRecorded, NodeInv, TypeInv
<1>4. auditLog'[n] = Append(auditLog[n], e) /\ \A k \in Nodes \ {n} : auditLog'[k] = auditLog[k]
  BY <1>1
<1> HIDE DEF e
<1>5. Append(auditLog[n], e) \in Seq(Entries) /\ Range(Append(auditLog[n], e)) = Logged(n) \cup {e}
  BY <1>1, <1>2, AppendEntry DEF Logged
<1>6. auditLog' \in [Nodes -> Seq(Entries)]
  BY <1>1, <1>5 DEF e
<1>7. Logged(n)' = Logged(n) \cup {e}
  BY <1>4, <1>5 DEF Logged
<1>8. \A x \in Logged(n)' : signed[n][x[1]] = x[2]
  BY <1>1, <1>3, <1>7 DEF NodeOK, MemoryCoversLog
<1> QED BY <1>2, <1>3, <1>4, <1>6, <1>7, <1>8 DEF e

\* The audit record is written, or was there.
LEMMA AuditStep ==
    ASSUME NodeInv, NEW n \in Nodes, AuditRequest(n)
    PROVE  NodeInv'
<1> DEFINE r == section[n].request
           m == section[n].message
           e == <<r, m>>
           q == [section[n] EXCEPT !.pc = "release"]
<1>1. /\ section[n] # None /\ section[n].pc = "audit"
      /\ UNCHANGED <<up, signed, waiting, damaged, stateFile, released, group, mode, proofs>>
      /\ section' = [section EXCEPT ![n] = q]
  BY DEF AuditRequest, operator
<1>2. section[n] \in Tasks /\ NodeOK(n) /\ TypeInv /\ up[n]
  BY <1>1 DEF NodeInv, TypeInv, NodeOK, StoppedIsEmpty
<1>3. q \in Tasks /\ q.request = r /\ q.message = m /\ q.pc = "release" /\ r \in Requests
  BY <1>2 DEF Tasks
<1>4. signed[n][r] = m /\ (n \notin damaged => stateFile[n][r] = m)
  BY <1>1, <1>2 DEF NodeOK, TaskRecorded, DiskInStep
<1>5. /\ section' \in [Nodes -> Tasks \cup {None}] /\ section'[n] = q
      /\ \A k \in Nodes \ {n} : section'[k] = section[k]
  BY <1>1, <1>2, <1>3 DEF TypeInv
<1> HIDE DEF q
<1>6. CASE r \in audited[n]
  <2>1. UNCHANGED <<auditLog, audited>>
    BY <1>6 DEF AuditRequest
  <2>2. e \in Logged(n)
    <3>1. PICK x \in Logged(n) : x[1] = r
      BY <1>2, <1>6 DEF NodeOK, MemoryCoversLog
    <3>2. x[2] = m
      BY <1>2, <1>4, <3>1 DEF NodeOK, MemoryCoversLog
    <3> QED BY <1>2, <3>1, <3>2, LoggedEntries
  <2>3. TypeInv'
    BY <1>1, <1>2, <1>5, <2>1 DEF TypeInv
  <2>4. StoppedIsEmpty(n)' /\ LogConsistent(n)' /\ MemoryCoversLog(n)'
    BY <1>1, <1>2, <2>1 DEF NodeOK, StoppedIsEmpty, LogConsistent, MemoryCoversLog, Logged
  <2>5. TaskRecorded(n)'
    BY <1>1, <1>3, <1>4, <1>5, <2>1, <2>2 DEF TaskRecorded, Logged
  <2>6. DiskInStep(n)'
    BY <1>1, <1>2, <1>3, <1>4, <1>5, <2>1 DEF NodeOK, DiskInStep, LogAccepted, Logged
  <2>7. NodeOK(n)'
    BY <2>4, <2>5, <2>6 DEF NodeOK
  <2> QED BY <1>1, <1>5, <2>1, <2>3, <2>7, NodeStepKeeps DEF Logged
<1>7. CASE r \notin audited[n]
  <2>1. /\ auditLog' = [auditLog EXCEPT ![n] = Append(@, e)]
        /\ audited' = [audited EXCEPT ![n] = @ \cup {r}]
    BY <1>7 DEF AuditRequest
  <2>2. /\ e \in Entries /\ e[1] = r /\ e[2] = m
        /\ auditLog' \in [Nodes -> Seq(Entries)] /\ auditLog'[n] = Append(auditLog[n], e)
        /\ Logged(n)' = Logged(n) \cup {e}
        /\ \A k \in Nodes \ {n} : auditLog'[k] = auditLog[k]
        /\ \A x \in Logged(n)' : signed[n][x[1]] = x[2]
    BY <1>1, <2>1, AppendTask
  <2>3. /\ audited' \in [Nodes -> SUBSET Requests] /\ audited'[n] = audited[n] \cup {r}
        /\ \A k \in Nodes \ {n} : audited'[k] = audited[k]
    BY <1>2, <1>3, <2>1 DEF TypeInv
  <2> HIDE DEF e, r, m
  <2>4. TypeInv'
    BY <1>1, <1>2, <1>5, <2>2, <2>3 DEF TypeInv
  <2>5. StoppedIsEmpty(n)' /\ LogConsistent(n)' /\ MemoryCoversLog(n)'
    <3>1. \A x \in Logged(n)' : signed'[n][x[1]] = x[2]
      BY <1>1, <2>2
    <3>2. \A a \in audited'[n] : \E x \in Logged(n)' : x[1] = a
      BY <1>2, <2>2, <2>3 DEF NodeOK, MemoryCoversLog
    <3> QED BY <1>1, <1>2, <3>1, <3>2 DEF StoppedIsEmpty, LogConsistent, MemoryCoversLog
  <2>6. TaskRecorded(n)'
    BY <1>1, <1>3, <1>4, <1>5, <2>2 DEF TaskRecorded, e
  <2>7. DiskInStep(n)'
    <3> SUFFICES ASSUME n \notin damaged PROVE DiskInStep(n)'
      BY <1>1 DEF DiskInStep
    <3>1. LogAccepted(n) /\ \A x \in Logged(n) : x[1] \in audited[n]
      BY <1>2 DEF NodeOK, DiskInStep
    <3>2. /\ auditLog[n] \in Seq(Entries) /\ Len(auditLog[n]) \in Nat
          /\ DOMAIN auditLog[n] = 1..Len(auditLog[n])
          /\ DOMAIN auditLog'[n] = 1..(Len(auditLog[n]) + 1)
          /\ \A i \in 1..(Len(auditLog[n]) + 1) :
                auditLog'[n][i] = IF i = Len(auditLog[n]) + 1 THEN e ELSE auditLog[n][i]
      BY <1>2, <2>2 DEF TypeInv
    <3>3. \A i \in 1..Len(auditLog[n]) : auditLog[n][i] \in Logged(n) /\ auditLog[n][i][1] # r
      BY <1>7, <3>1, <3>2 DEF Logged, Range
    <3>4. LogAccepted(n)'
      <4> DEFINE L == auditLog[n]
                 K == auditLog'[n]
                 F == stateFile[n]
                 z == Len(auditLog[n])
      <4>1. /\ \A i, j \in 1..z : L[i][1] = L[j][1] => i = j
            /\ \A i \in 1..z : F[L[i][1]] = L[i][2]
            /\ \A i \in 1..z : L[i][1] # r
        BY <3>1, <3>2, <3>3 DEF LogAccepted
      <4>2. /\ z \in Nat /\ DOMAIN K = 1..(z + 1) /\ K[z + 1] = e
            /\ \A i \in 1..z : K[i] = L[i]
        BY <3>2
      <4>3. F[e[1]] = e[2] /\ e[1] = r
        BY <1>4, <2>2
      <4>4. stateFile'[n] = F
        BY <1>1
      <4>5. \A i \in 1..(z + 1) : i \in 1..z \/ i = z + 1
        BY <4>2
      <4> HIDE DEF L, K, F, z
      <4>6. /\ \A i, j \in DOMAIN K : K[i][1] = K[j][1] => i = j
            /\ \A i \in DOMAIN K : F[K[i][1]] = K[i][2]
        BY <4>1, <4>2, <4>3, <4>5
      <4> QED BY <4>4, <4>6 DEF LogAccepted, K
    <3>5. \A x \in Logged(n)' : x[1] \in audited'[n]
      BY <2>2, <2>3, <3>1
    <3> QED BY <1>1, <1>3, <1>4, <1>5, <3>4, <3>5 DEF DiskInStep, r, m
  <2>8. NodeOK(n)'
    BY <2>5, <2>6, <2>7 DEF NodeOK
  <2>9. Logged(n) \subseteq Logged(n)'
    BY <2>2
  <2> QED BY <1>1, <1>5, <2>2, <2>3, <2>4, <2>8, <2>9, NodeStepKeeps
<1> QED BY <1>6, <1>7

\* A record whose sync failed is in the log all the same; the node counts as
\* damaged from then on, since the process may log the request again.
LEMMA AuditFailsStep ==
    ASSUME NodeInv, NEW n \in Nodes, AuditFails(n)
    PROVE  NodeInv'
<1> DEFINE e == <<section[n].request, section[n].message>>
<1>1. /\ section[n] # None /\ section' = [section EXCEPT ![n] = None]
      /\ auditLog' = [auditLog EXCEPT ![n] = Append(@, e)]
      /\ damaged' = damaged \cup {n}
      /\ UNCHANGED <<up, signed, audited, waiting, stateFile, released, group, mode, proofs>>
  BY DEF AuditFails, operator
<1>2. /\ e \in Entries /\ up[n]
      /\ auditLog' \in [Nodes -> Seq(Entries)] /\ Logged(n)' = Logged(n) \cup {e}
      /\ \A k \in Nodes \ {n} : auditLog'[k] = auditLog[k]
      /\ \A x \in Logged(n)' : signed[n][x[1]] = x[2]
  BY <1>1, AppendTask
<1> HIDE DEF e
<1>3. /\ section' \in [Nodes -> Tasks \cup {None}] /\ section'[n] = None
      /\ \A k \in Nodes \ {n} : section'[k] = section[k]
  BY <1>1 DEF NodeInv, TypeInv
<1>4. TypeInv'
  BY <1>1, <1>2, <1>3 DEF NodeInv, TypeInv
<1>5. NodeOK(n)'
  <2>1. \A x \in Logged(n)' : signed'[n][x[1]] = x[2]
    BY <1>1, <1>2
  <2>2. \A a \in audited'[n] : \E x \in Logged(n)' : x[1] = a
    BY <1>1, <1>2 DEF NodeInv, NodeOK, MemoryCoversLog
  <2> QED BY <1>1, <1>2, <1>3, <2>1, <2>2 DEF NodeOK, StoppedIsEmpty, LogConsistent,
             MemoryCoversLog, TaskRecorded, DiskInStep
<1>6. Logged(n) \subseteq Logged(n)'
  BY <1>2
<1> QED BY <1>1, <1>2, <1>3, <1>4, <1>5, <1>6, NodeStepKeeps

\* What is released is in the log.
LEMMA ReleaseStep ==
    ASSUME NodeInv, NEW n \in Nodes, Release(n)
    PROVE  NodeInv'
<1> DEFINE p == Partial(n, section[n].request, section[n].message,
                        signPartial(section[n].message, ShareKeys[group][n]))
<1>1. /\ section[n] # None /\ section[n].pc = "release"
      /\ released' = released \cup {p} /\ section' = [section EXCEPT ![n] = None]
      /\ UNCHANGED <<up, signed, audited, waiting, stateFile, auditLog, damaged>>
      /\ UNCHANGED <<group, mode, proofs>>
  BY DEF Release, operator, disk
<1>2. p.node = n /\ p.request = section[n].request /\ p.message = section[n].message
  BY DEF Partial
<1> HIDE DEF p
<1>3. /\ section' \in [Nodes -> Tasks \cup {None}] /\ section'[n] = None
      /\ \A k \in Nodes \ {n} : section'[k] = section[k]
  BY <1>1 DEF NodeInv, TypeInv
<1>4. TypeInv'
  BY <1>1, <1>2, <1>3 DEF NodeInv, TypeInv
<1>5. <<p.request, p.message>> \in Logged(n)
  BY <1>1, <1>2 DEF NodeInv, NodeOK, TaskRecorded
<1>6. NodeOK(n)'
  <2>1. NodeOK(n)
    BY DEF NodeInv
  <2>2. StoppedIsEmpty(n)' /\ LogConsistent(n)' /\ MemoryCoversLog(n)'
    BY <1>1, <1>3, <2>1 DEF NodeOK, StoppedIsEmpty, LogConsistent, MemoryCoversLog, Logged
  <2>3. TaskRecorded(n)' /\ DiskInStep(n)'
    BY <1>1, <1>3, <2>1 DEF NodeOK, TaskRecorded, DiskInStep, LogAccepted, Logged
  <2> QED BY <2>2, <2>3 DEF NodeOK
<1> QED BY <1>1, <1>2, <1>3, <1>4, <1>5, <1>6, NodeStepKeeps DEF Logged

\* Faulty nodes release what they like; nothing is claimed of them.
LEMMA FaultyReleaseStep ==
    ASSUME NodeInv, NEW n \in Nodes, NEW r, NEW wrong, FaultyRelease(n, r, wrong)
    PROVE  NodeInv'
<1>1. /\ n \in group.faulty /\ released \subseteq released'
      /\ UNCHANGED <<process, disk, group, mode, proofs>>
      /\ \A p \in released' \ released : p.node = n
  BY DEF FaultyRelease, operator, Partial
<1>2. TypeInv'
  BY <1>1 DEF NodeInv, TypeInv, process, disk
<1>3. \A k \in Nodes : NodeOK(k)'
  BY <1>1, Untouched DEF NodeInv, process, disk
<1>4. ReleasedIsAudited'
  BY <1>1 DEF NodeInv, ReleasedIsAudited, disk
<1>5. ProofsBacked'
  BY <1>1, <1>2, BackedStep DEF TypeInv
<1> QED BY <1>2, <1>3, <1>4, <1>5 DEF NodeInv

\* A crash leaves the disk, a power loss an older state file; the log stays.
LEMMA StopStep ==
    ASSUME NodeInv, NEW n \in Nodes, Crash(n) \/ PowerLoss(n)
    PROVE  NodeInv'
<1>1. /\ up' = [up EXCEPT ![n] = FALSE] /\ signed' = [signed EXCEPT ![n] = Nothing]
      /\ audited' = [audited EXCEPT ![n] = {}] /\ waiting' = [waiting EXCEPT ![n] = {}]
      /\ section' = [section EXCEPT ![n] = None]
      /\ UNCHANGED <<auditLog, released, group, mode, proofs>>
  BY DEF Crash, PowerLoss, Stop, operator
<1>2. Nothing \in Signatures /\ TypeInv /\ NodeOK(n)
  BY DEF Nothing, Signatures, NodeInv
<1>3. /\ stateFile' \in [Nodes -> Signatures] /\ \A k \in Nodes \ {n} : stateFile'[k] = stateFile[k]
      /\ \A k \in Nodes \ {n} : k \in damaged' <=> k \in damaged
      /\ n \in damaged' \/ (damaged' = damaged /\ stateFile' = stateFile)
  <2>1. CASE Crash(n)
    BY <1>2, <2>1 DEF Crash, TypeInv
  <2>2. CASE PowerLoss(n)
    <3>1. PICK kept \in SUBSET Requests :
            stateFile' = [stateFile EXCEPT ![n] =
                [r \in Requests |-> IF r \in kept THEN stateFile[n][r] ELSE None]]
      BY <2>2 DEF PowerLoss
    <3>2. [r \in Requests |-> IF r \in kept THEN stateFile[n][r] ELSE None] \in Signatures
      BY <1>2 DEF TypeInv, Signatures
    <3> QED BY <1>2, <2>2, <3>1, <3>2 DEF TypeInv, PowerLoss
  <2> QED BY <2>1, <2>2
<1>4. /\ ~up'[n] /\ section'[n] = None /\ waiting'[n] = {}
      /\ \A k \in Nodes \ {n} : /\ up'[k] = up[k] /\ signed'[k] = signed[k]
                                /\ audited'[k] = audited[k] /\ waiting'[k] = waiting[k]
                                /\ section'[k] = section[k]
  BY <1>1, <1>2 DEF TypeInv
<1>5. TypeInv'
  BY <1>1, <1>2, <1>3 DEF TypeInv
<1>6. NodeOK(n)'
  BY <1>1, <1>2, <1>3, <1>4 DEF NodeOK, StoppedIsEmpty, LogConsistent, MemoryCoversLog,
              TaskRecorded, DiskInStep, LogAccepted, Logged
<1> QED BY <1>1, <1>3, <1>4, <1>5, <1>6, NodeStepKeeps DEF Logged

\* A node starts only with a log its state file agrees with.
LEMMA RestartStep ==
    ASSUME NodeInv, NEW n \in Nodes, Restart(n)
    PROVE  NodeInv'
<1>1. /\ ~up[n] /\ LogAccepted(n)
      /\ up' = [up EXCEPT ![n] = TRUE] /\ signed' = [signed EXCEPT ![n] = stateFile[n]]
      /\ audited' = [audited EXCEPT ![n] = {auditLog[n][i][1] : i \in DOMAIN auditLog[n]}]
      /\ UNCHANGED <<waiting, section, stateFile, auditLog, damaged, released, group, mode, proofs>>
  BY DEF Restart, operator, disk
<1>2. TypeInv /\ NodeOK(n) /\ section[n] = None
  BY <1>1 DEF NodeInv, NodeOK, StoppedIsEmpty
<1>3. {auditLog[n][i][1] : i \in DOMAIN auditLog[n]} = {x[1] : x \in Logged(n)}
  BY DEF Logged, Range
<1>4. /\ Logged(n) \subseteq Entries
      /\ \A x \in Logged(n) : x[1] \in Requests /\ stateFile[n][x[1]] = x[2]
  <2>1. Logged(n) \subseteq Entries
    BY <1>2 DEF Logged, Range, TypeInv
  <2> QED BY <1>1, <2>1 DEF LogAccepted, Logged, Range, Entries
<1>5. /\ up'[n] /\ signed'[n] = stateFile[n] /\ audited'[n] = {x[1] : x \in Logged(n)}
      /\ \A k \in Nodes \ {n} : /\ up'[k] = up[k] /\ signed'[k] = signed[k]
                                /\ audited'[k] = audited[k]
  BY <1>1, <1>2, <1>3 DEF TypeInv
<1>6. TypeInv'
  <2>1. audited' \in [Nodes -> SUBSET Requests]
    <3>1. {x[1] : x \in Logged(n)} \subseteq Requests
      BY <1>4
    <3> QED BY <1>1, <1>2, <1>3, <3>1 DEF TypeInv
  <2> QED BY <1>1, <1>2, <2>1 DEF TypeInv
<1>7. NodeOK(n)'
  BY <1>1, <1>2, <1>4, <1>5, SMTT(60) DEF NodeOK, StoppedIsEmpty, LogConsistent, MemoryCoversLog,
              TaskRecorded, DiskInStep, LogAccepted, Logged
<1> QED BY <1>1, <1>5, <1>6, <1>7, NodeStepKeeps DEF Logged

------------------------------------------------------------------------------
(* The theorems *)

LEMMA NodeInit == Init => NodeInv
<1> SUFFICES ASSUME Init PROVE NodeInv
  OBVIOUS
<1>1. Nothing \in Signatures
  BY DEF Nothing, Signatures
<1>2. TypeInv
  BY <1>1 DEF Init, TypeInv
<1>3. \A n \in Nodes : /\ up[n] /\ auditLog[n] = <<>> /\ audited[n] = {} /\ section[n] = None
                       /\ Logged(n) = {} /\ DOMAIN auditLog[n] = {}
  BY DEF Init, Logged, Range
<1>4. \A n \in Nodes : NodeOK(n)
  BY <1>3 DEF NodeOK, StoppedIsEmpty, LogConsistent, MemoryCoversLog, TaskRecorded,
              DiskInStep, LogAccepted
<1> QED BY <1>2, <1>4 DEF Init, NodeInv, ReleasedIsAudited, ProofsBacked

LEMMA NodeNext == NodeInv /\ [Next]_vars => NodeInv'
<1> SUFFICES ASSUME NodeInv, [Next]_vars PROVE NodeInv'
  OBVIOUS
<1>1. CASE UNCHANGED vars
  BY <1>1, QuietStep DEF vars, operator
<1>2. ASSUME NEW r \in Requests, ProveFails(r) \/ Fulfill(r) \/ Reorg(r)
      PROVE  NodeInv'
  BY <1>2, QuietStep DEF ProveFails, Fulfill, Reorg, operator
<1>3. ASSUME NEW r \in Requests, OperatorStep(r)
      PROVE  NodeInv'
  <2>1. CASE \E m \in Messages : Prove(r, m)
    BY <2>1, QuietStep DEF Prove
  <2> QED BY <1>3, <2>1, AggregateStep DEF OperatorStep
<1>4. ASSUME NEW e \in Endpoints, Sync(e)
      PROVE  NodeInv'
  BY <1>4, QuietStep DEF Sync, operator
<1>5. ASSUME NEW n \in Nodes, NodeStep(n)
      PROVE  NodeInv'
  BY <1>5, ResolveStep, RecordStep, AuditStep, ReleaseStep, RestartStep
     DEF NodeStep, RecordRequest
<1>6. ASSUME NEW n \in Nodes, NEW r \in Requests, NEW wrong \in {0, 1}, FaultyRelease(n, r, wrong)
      PROVE  NodeInv'
  BY <1>6, FaultyReleaseStep
<1>7. ASSUME NEW n \in Fragile, NodeFault(n)
      PROVE  NodeInv'
  <2>1. n \in Nodes
    BY NodeAssumption
  <2> QED BY <1>7, <2>1, RecordStep, AuditFailsStep, StopStep DEF NodeFault, RecordFails
<1> QED BY <1>1, <1>2, <1>3, <1>4, <1>5, <1>6, <1>7 DEF Next

\* Every reachable state satisfies the inductive invariant.
THEOREM NodeInvariant == Spec => []NodeInv
BY NodeInit, NodeNext, PTL DEF Spec

LEMMA NodeInvConsistent == NodeInv => NodeNeverEquivocates
<1> SUFFICES ASSUME NodeInv, NEW p \in released, NEW q \in released,
                    p.node = q.node, p.request = q.request, p.node \notin group.faulty
             PROVE  p.message = q.message
  BY DEF NodeNeverEquivocates
<1> DEFINE x == <<p.request, p.message>>
           y == <<q.request, q.message>>
<1>1. x \in Logged(p.node) /\ y \in Logged(p.node) /\ p.node \in Nodes
  BY DEF NodeInv, ReleasedIsAudited, Logged, TypeInv
<1>2. x[1] = y[1] => x[2] = y[2]
  BY <1>1 DEF NodeInv, NodeOK, LogConsistent
<1> QED BY <1>2

\* An honest signing node never releases partials of two messages of one
\* request, across reorganisations, crashes, failed and lost writes.
THEOREM NodeEquivocation == Spec => []NodeNeverEquivocates
BY NodeInvariant, NodeInvConsistent, PTL

\* Every partial an honest node has released is in its synced audit log.
THEOREM NodeAudit == Spec => []ReleasedIsAudited
<1>1. NodeInv => ReleasedIsAudited
  BY DEF NodeInv
<1> QED BY <1>1, NodeInvariant, PTL

\* At every instant a crash leaves files that loadAuditLog accepts, unless
\* writes were lost or a sync failed.
THEOREM NodeRestart == Spec => []RestartAccepted
<1>1. NodeInv => RestartAccepted
  BY DEF NodeInv, RestartAccepted, NodeOK, DiskInStep
<1> QED BY <1>1, NodeInvariant, PTL

\* Two thresholds of responders share a node that is not faulty.
LEMMA ThresholdsMeet ==
    ASSUME NEW g \in Groups, NEW S \in SUBSET Nodes, NEW T \in SUBSET Nodes,
           Cardinality(S) >= g.threshold, Cardinality(T) >= g.threshold
    PROVE  \E n \in S \cap T : n \notin g.faulty
<1>1. /\ IsFiniteSet(Nodes) /\ g.threshold \in Nat /\ g.faulty \subseteq Nodes
      /\ Cardinality(g.faulty) + Cardinality(Nodes) < 2 * g.threshold
  BY NodeAssumption DEF ValidatedGroup
<1>2. /\ IsFiniteSet(S) /\ IsFiniteSet(T) /\ IsFiniteSet(g.faulty)
      /\ IsFiniteSet(S \cap T) /\ IsFiniteSet(S \cup T)
  BY <1>1, FS_Subset, FS_Intersection, FS_Union
<1>3. Cardinality(S \cup T) = Cardinality(S) + Cardinality(T) - Cardinality(S \cap T)
  BY <1>2, FS_Union
<1>4. Cardinality(S \cup T) <= Cardinality(Nodes)
  BY <1>1, FS_Subset
<1>5. /\ Cardinality(S) \in Nat /\ Cardinality(T) \in Nat /\ Cardinality(Nodes) \in Nat
      /\ Cardinality(S \cap T) \in Nat /\ Cardinality(S \cup T) \in Nat
      /\ Cardinality(g.faulty) \in Nat
  BY <1>1, <1>2, FS_CardinalityType
<1>6. Cardinality(g.faulty) < Cardinality(S \cap T)
  BY <1>1, <1>3, <1>4, <1>5
<1>7. CASE S \cap T \subseteq g.faulty
  <2>1. Cardinality(S \cap T) <= Cardinality(g.faulty)
    BY <1>2, <1>7, FS_Subset
  <2> QED BY <1>5, <1>6, <2>1
<1> QED BY <1>7

\* Two messages of one request never both get an aggregate, as long as the
\* faulty members are fewer than what two thresholds share.
THEOREM NodeOneOutput == Spec => []OneOutput
<1>1. NodeInv => OneOutput
  <2> SUFFICES ASSUME NodeInv, mode = "threshold", NEW x \in proofs, NEW y \in proofs,
                      x[1] = y[1]
               PROVE  x[2] = y[2]
    BY DEF OneOutput
  <2> DEFINE S == Responders(x[1], x[2])
             T == Responders(y[1], y[2])
  <2>1. /\ group \in Groups /\ S \in SUBSET Nodes /\ T \in SUBSET Nodes
        /\ Cardinality(S) >= group.threshold /\ Cardinality(T) >= group.threshold
    <3>1. S \in SUBSET Nodes /\ T \in SUBSET Nodes
      BY DEF NodeInv, TypeInv, Responders
    <3> QED BY <3>1 DEF NodeInv, TypeInv, ProofsBacked
  <2>2. PICK n \in S \cap T : n \notin group.faulty
    BY <2>1, ThresholdsMeet
  <2>3. PICK p \in released : p.node = n /\ p.request = x[1] /\ p.message = x[2]
    BY <2>2 DEF Responders
  <2>4. PICK q \in released : q.node = n /\ q.request = y[1] /\ q.message = y[2]
    BY <2>2 DEF Responders
  <2> QED BY <2>2, <2>3, <2>4, NodeInvConsistent DEF NodeNeverEquivocates
<1> QED BY <1>1, NodeInvariant, PTL
==============================================================================
