--------------------------- MODULE DebtLedgerProofs ---------------------------
(***************************************************************************)
(* Proofs about DebtLedger, for any users, accounts, debts, transactions,  *)
(* permissions and amounts.                                                *)
(***************************************************************************)
EXTENDS DebtLedger, FiniteSetTheorems, TLAPS

-----------------------------------------------------------------------------
(* Sums: MapThenSumSet adds the elements of a finite set, whichever it      *)
(* chooses first.                                                           *)

\* Every set of numbers has a least one.
LEMMA FirstOf ==
    ASSUME NEW S \in SUBSET Nat, S # {}
    PROVE  Min(S) \in S /\ \A n \in S : Min(S) <= n
<1>. DEFINE R == OpToRel(<, Nat)
<1>1. IsWellFoundedOn(R, Nat)
  BY NatLessThanWellFounded
<1>2. \A i, j \in Nat : i < j => <<i, j>> \in R
  BY DEF OpToRel
<1>. HIDE DEF R
<1>3. \E m \in S : \A n \in S : ~(<<n, m>> \in R)
  BY <1>1, WFMin
<1>4. PICK m \in S : \A n \in S : ~(<<n, m>> \in R)
  BY <1>3
<1>5. ASSUME NEW n \in S
      PROVE  m <= n
  <2>1. m \in Nat /\ n \in Nat
    OBVIOUS
  <2>2. ~(<<n, m>> \in R)
    BY <1>4
  <2>3. ~(n < m)
    BY <1>2, <2>1, <2>2, Zenon
  <2>. QED BY <2>1, <2>3
<1>. QED BY <1>5 DEF Min

\* A set of subsets has all subsets of a finite set in it if it has a subset
\* whenever it has all that lack one element of it.
LEMMA AllSubsets ==
    ASSUME NEW S, IsFiniteSet(S), NEW G,
           \A T \in SUBSET S : (\A x \in T : T \ {x} \in G) => T \in G
    PROVE  \A T \in SUBSET S : T \in G
<1>. SUFFICES ASSUME NEW B \in SUBSET S, B \notin G
              PROVE  FALSE
  OBVIOUS
<1>. DEFINE Missing == {T \in SUBSET S : T \notin G}
            Sizes == {n \in Nat : \E T \in Missing : Cardinality(T) = n}
            m == Min(Sizes)
<1>1. \A T \in SUBSET S : IsFiniteSet(T) /\ Cardinality(T) \in Nat
  BY FS_Subset, FS_CardinalityType
<1>2. Cardinality(B) \in Sizes
  BY <1>1
<1>3. m \in Sizes /\ \A n \in Sizes : m <= n
  <2>. HIDE DEF Missing
  <2>1. Sizes \in SUBSET Nat /\ Sizes # {}
    BY <1>2
  <2>. HIDE DEF Sizes
  <2>. QED BY <2>1, FirstOf
<1>4. PICK T \in Missing : Cardinality(T) = m
  BY <1>3
<1>5. ASSUME NEW x \in T
      PROVE  T \ {x} \in G
  <2>1. T \in SUBSET S /\ T \ {x} \in SUBSET S
    BY <1>4
  <2>2. Cardinality(T \ {x}) = Cardinality(T) - 1
    BY <1>1, <2>1, FS_RemoveElement
  <2>3. Cardinality(T \ {x}) \in Nat /\ m \in Nat
    BY <1>1, <1>4, <2>1
  <2>4. Cardinality(T \ {x}) \notin Sizes
    <3>. HIDE DEF m, Sizes
    <3>. QED BY <1>3, <1>4, <2>2, <2>3
  <2>. QED BY <2>1, <2>3, <2>4
<1>. QED BY <1>4, <1>5

\* A sum over a finite set as the community modules compute it: chosen element
\* after chosen element, for all subsets at once.
Chosen(T) == CHOOSE x \in T : TRUE
Adds(g, w, S) ==
    g = [T \in SUBSET S |-> IF T = {} THEN 0 ELSE w[Chosen(T)] + g[T \ {Chosen(T)}]]
Sum(w, S) == (CHOOSE g : Adds(g, w, S))[S]

LEMMA ChosenIsIn == \A T : T # {} => Chosen(T) \in T
  BY DEF Chosen

LEMMA AddsTo ==
    ASSUME NEW g, NEW w, NEW S, Adds(g, w, S)
    PROVE  \A T \in SUBSET S :
             g[T] = IF T = {} THEN 0 ELSE w[Chosen(T)] + g[T \ {Chosen(T)}]
  BY DEF Adds

LEMMA AddsAlike ==
    ASSUME NEW S, NEW A, NEW B, IsFiniteSet(S), S \subseteq A, S \subseteq B,
           NEW f, NEW g, NEW w, Adds(f, w, A), Adds(g, w, B)
    PROVE  f[S] = g[S]
<1>. DEFINE G == {T \in SUBSET S : f[T] = g[T]}
<1>1. ASSUME NEW T \in SUBSET S, \A x \in T : T \ {x} \in G
      PROVE  T \in G
  <2>1. /\ f[T] = IF T = {} THEN 0 ELSE w[Chosen(T)] + f[T \ {Chosen(T)}]
        /\ g[T] = IF T = {} THEN 0 ELSE w[Chosen(T)] + g[T \ {Chosen(T)}]
    <3>1. T \in SUBSET A /\ T \in SUBSET B
      OBVIOUS
    <3>2. \A U \in SUBSET A : f[U] = IF U = {} THEN 0 ELSE w[Chosen(U)] + f[U \ {Chosen(U)}]
      BY AddsTo
    <3>3. \A U \in SUBSET B : g[U] = IF U = {} THEN 0 ELSE w[Chosen(U)] + g[U \ {Chosen(U)}]
      BY AddsTo
    <3>. QED BY <3>1, <3>2, <3>3
  <2>2. T # {} => Chosen(T) \in T
    BY ChosenIsIn
  <2>3. T # {} => f[T \ {Chosen(T)}] = g[T \ {Chosen(T)}]
    BY <1>1, <2>2
  <2>. QED BY <2>1, <2>3
<1>. HIDE DEF G
<1>2. \A T \in SUBSET S : T \in G
  BY <1>1, AllSubsets
<1>. QED BY <1>2 DEF G

LEMMA AddsExists ==
    ASSUME NEW S, IsFiniteSet(S), NEW w
    PROVE  \E g : Adds(g, w, S)
<1>. DEFINE G == {T \in SUBSET S : \E g : Adds(g, w, T)}
<1>0. \A T \in SUBSET S : IsFiniteSet(T)
  BY FS_Subset
<1>1. ASSUME NEW T \in SUBSET S, \A x \in T : T \ {x} \in G
      PROVE  T \in G
  <2>. DEFINE piece(x) == CHOOSE g : Adds(g, w, T \ {x})
              one(U) == CHOOSE x \in T : x \notin U
              value(U) == IF U = {} THEN 0 ELSE piece(one(U))[U]
              all == IF T = {} THEN 0 ELSE w[Chosen(T)] + piece(Chosen(T))[T \ {Chosen(T)}]
              h == [U \in SUBSET T |-> IF U = T THEN all ELSE piece(one(U))[U]]
  <2>1. \A x \in T : Adds(piece(x), w, T \ {x})
    <3>. SUFFICES ASSUME NEW x \in T PROVE Adds(piece(x), w, T \ {x})
      OBVIOUS
    <3>1. \E g : Adds(g, w, T \ {x})
      BY <1>1
    <3>. HIDE DEF Adds
    <3>. QED BY <3>1
  <2>2. \A U \in SUBSET T : U # T => one(U) \in T /\ U \subseteq T \ {one(U)}
    OBVIOUS
  <2>. HIDE DEF piece, one
  <2>3. ASSUME NEW U \in SUBSET T
        PROVE  h[U] = IF U = {} THEN 0 ELSE w[Chosen(U)] + h[U \ {Chosen(U)}]
    <3>. DEFINE c == Chosen(U)
                V == U \ {c}
    <3>1. CASE U = {} /\ T = {}
      BY <3>1
    <3>2. CASE U = {} /\ T # {}
      <4>1. h[U] = piece(one(U))[U]
        BY <3>2
      <4>2. Adds(piece(one(U)), w, T \ {one(U)}) /\ U \in SUBSET (T \ {one(U)})
        BY <2>1, <2>2, <3>2
      <4>. HIDE DEF h
      <4>. QED BY <3>2, <4>1, <4>2, AddsTo
    <3>3. CASE U # {}
      <4>1. c \in U /\ V \in SUBSET T /\ V # T /\ V \subseteq T \ {one(V)} /\ one(V) \in T
        <5>1. c \in U
          BY <3>3, ChosenIsIn
        <5>. HIDE DEF c
        <5>. QED BY <5>1, <2>2
      <4>2. h[V] = piece(one(V))[V]
        BY <4>1
      <4>3. IsFiniteSet(V)
        BY <4>1, <1>0
      <4>4. \A x \in T : V \subseteq T \ {x} => piece(x)[V] = piece(one(V))[V]
        <5>. SUFFICES ASSUME NEW x \in T, V \subseteq T \ {x}
                      PROVE  piece(x)[V] = piece(one(V))[V]
          OBVIOUS
        <5>1. Adds(piece(x), w, T \ {x}) /\ Adds(piece(one(V)), w, T \ {one(V)})
          BY <2>1, <4>1
        <5>2. V \subseteq T \ {one(V)}
          BY <4>1
        <5>. HIDE DEF V
        <5>. QED BY <4>3, <5>1, <5>2, AddsAlike
      <4>5. CASE U = T
        <5>1. h[U] = w[c] + piece(c)[V]
          BY <4>5, <3>3
        <5>2. c \in T /\ V \subseteq T \ {c}
          BY <4>1, <4>5
        <5>. HIDE DEF h, c
        <5>. QED BY <3>3, <4>2, <4>4, <5>1, <5>2 DEF c
      <4>6. CASE U # T
        <5>1. h[U] = piece(one(U))[U]
          BY <4>6
        <5>2. one(U) \in T /\ U \in SUBSET (T \ {one(U)}) /\ Adds(piece(one(U)), w, T \ {one(U)})
          BY <4>6, <2>1, <2>2
        <5>3. piece(one(U))[U] = w[c] + piece(one(U))[V]
          <6>1. \A X \in SUBSET (T \ {one(U)}) :
                  piece(one(U))[X]
                    = IF X = {} THEN 0 ELSE w[Chosen(X)] + piece(one(U))[X \ {Chosen(X)}]
            BY <5>2, AddsTo
          <6>. QED BY <5>2, <6>1, <3>3
        <5>4. V \subseteq T \ {one(U)}
          BY <5>2
        <5>. HIDE DEF h, c, V
        <5>. QED BY <3>3, <4>2, <4>4, <5>1, <5>2, <5>3, <5>4 DEF c, V
      <4>. QED BY <4>5, <4>6
    <3>. QED BY <3>1, <3>2, <3>3
  <2>4. h = [U \in SUBSET T |-> h[U]]
    OBVIOUS
  <2>. HIDE DEF h
  <2>5. Adds(h, w, T)
    BY <2>3, <2>4 DEF Adds
  <2>. QED BY <2>5
<1>. HIDE DEF G
<1>2. \A T \in SUBSET S : T \in G
  BY <1>1, AllSubsets
<1>. QED BY <1>2 DEF G

LEMMA SumAdds ==
    ASSUME NEW S, IsFiniteSet(S), NEW w
    PROVE  \E g : Adds(g, w, S) /\ \A T \in SUBSET S : Sum(w, T) = g[T]
<1>1. PICK g : Adds(g, w, S)
  BY AddsExists
<1>2. ASSUME NEW T \in SUBSET S
      PROVE  Sum(w, T) = g[T]
  <2>. DEFINE h == CHOOSE f : Adds(f, w, T)
  <2>1. IsFiniteSet(T)
    BY <1>2, FS_Subset
  <2>2. Adds(h, w, T)
    <3>1. \E f : Adds(f, w, T)
      BY <2>1, AddsExists
    <3>. HIDE DEF Adds
    <3>. QED BY <3>1
  <2>3. Sum(w, T) = h[T]
    BY DEF Sum
  <2>4. T \subseteq T /\ T \subseteq S
    OBVIOUS
  <2>. HIDE DEF h
  <2>5. h[T] = g[T]
    BY <1>1, <2>1, <2>2, <2>4, AddsAlike
  <2>. QED BY <2>3, <2>5
<1>. QED BY <1>1, <1>2

LEMMA SumChosen ==
    ASSUME NEW S, IsFiniteSet(S), NEW w
    PROVE  Sum(w, S) = IF S = {} THEN 0 ELSE w[Chosen(S)] + Sum(w, S \ {Chosen(S)})
<1>1. PICK g : Adds(g, w, S) /\ \A T \in SUBSET S : Sum(w, T) = g[T]
  BY SumAdds
<1>2. Sum(w, S) = g[S] /\ Sum(w, S \ {Chosen(S)}) = g[S \ {Chosen(S)}]
  <2>1. S \in SUBSET S /\ S \ {Chosen(S)} \in SUBSET S
    OBVIOUS
  <2>. QED BY <1>1, <2>1
<1>3. g[S] = IF S = {} THEN 0 ELSE w[Chosen(S)] + g[S \ {Chosen(S)}]
  BY <1>1, AddsTo
<1>. QED BY <1>2, <1>3

LEMMA SumNothing == \A w : Sum(w, {}) = 0
  BY SumChosen, FS_EmptySet

\* Sums are integers, and of any element and what it is added to.
LEMMA SumInt ==
    ASSUME NEW S, IsFiniteSet(S), NEW w, \A x \in S : w[x] \in Int
    PROVE  Sum(w, S) \in Int
<1>. DEFINE G == {T \in SUBSET S : Sum(w, T) \in Int}
<1>1. ASSUME NEW T \in SUBSET S, \A x \in T : T \ {x} \in G
      PROVE  T \in G
  <2>1. IsFiniteSet(T)
    BY FS_Subset
  <2>2. Sum(w, T) = IF T = {} THEN 0 ELSE w[Chosen(T)] + Sum(w, T \ {Chosen(T)})
    BY <2>1, SumChosen
  <2>3. T # {} => Chosen(T) \in T
    BY ChosenIsIn
  <2>4. T # {} => w[Chosen(T)] \in Int /\ Sum(w, T \ {Chosen(T)}) \in Int
    BY <1>1, <2>3
  <2>. QED BY <2>2, <2>4
<1>. HIDE DEF G
<1>2. \A T \in SUBSET S : T \in G
  BY <1>1, AllSubsets
<1>. QED BY <1>2 DEF G

LEMMA SumOfRest ==
    ASSUME NEW S, IsFiniteSet(S), NEW w, \A x \in S : w[x] \in Int
    PROVE  \A x \in S : Sum(w, S) = w[x] + Sum(w, S \ {x})
<1>. DEFINE G == {T \in SUBSET S : \A x \in T : Sum(w, T) = w[x] + Sum(w, T \ {x})}
<1>0. \A T \in SUBSET S : IsFiniteSet(T) /\ Sum(w, T) \in Int
  <2>. SUFFICES ASSUME NEW T \in SUBSET S PROVE IsFiniteSet(T) /\ Sum(w, T) \in Int
    OBVIOUS
  <2>1. IsFiniteSet(T) /\ \A x \in T : w[x] \in Int
    BY FS_Subset
  <2>. QED BY <2>1, SumInt
<1>1. ASSUME NEW T \in SUBSET S, \A x \in T : T \ {x} \in G
      PROVE  T \in G
  <2>. SUFFICES ASSUME NEW x \in T
                PROVE  Sum(w, T) = w[x] + Sum(w, T \ {x})
    OBVIOUS
  <2>. DEFINE c == Chosen(T)
              rest == (T \ {c}) \ {x}
  <2>1. c \in T /\ Sum(w, T) = w[c] + Sum(w, T \ {c})
    <3>1. IsFiniteSet(T) /\ T # {}
      BY <1>0
    <3>. QED BY <3>1, SumChosen, ChosenIsIn
  <2>4. \A z \in T : \A u \in T \ {z} :
          Sum(w, T \ {z}) = w[u] + Sum(w, (T \ {z}) \ {u})
    BY <1>1
  <2>. HIDE DEF c, G
  <2>2. CASE x = c
    BY <2>1, <2>2
  <2>3. CASE x # c
    <3>1. Sum(w, T \ {c}) = w[x] + Sum(w, rest)
      BY <2>1, <2>3, <2>4
    <3>2. Sum(w, T \ {x}) = w[c] + Sum(w, rest)
      <4>1. (T \ {x}) \ {c} = rest
        OBVIOUS
      <4>2. Sum(w, T \ {x}) = w[c] + Sum(w, (T \ {x}) \ {c})
        BY <2>1, <2>3, <2>4
      <4>. QED BY <4>1, <4>2
    <3>3. w[x] \in Int /\ w[c] \in Int /\ Sum(w, rest) \in Int
      <4>1. rest \in SUBSET S
        OBVIOUS
      <4>. HIDE DEF rest
      <4>. QED BY <1>0, <2>1, <4>1
    <3>. HIDE DEF rest
    <3>. QED BY <2>1, <3>1, <3>2, <3>3
  <2>. QED BY <2>2, <2>3
<1>. HIDE DEF G
<1>2. \A T \in SUBSET S : T \in G
  BY <1>1, AllSubsets
<1>. QED BY <1>2 DEF G

LEMMA SumAlike ==
    ASSUME NEW S, IsFiniteSet(S), NEW v, NEW w, \A x \in S : v[x] = w[x]
    PROVE  Sum(v, S) = Sum(w, S)
<1>. DEFINE G == {T \in SUBSET S : Sum(v, T) = Sum(w, T)}
<1>1. ASSUME NEW T \in SUBSET S, \A x \in T : T \ {x} \in G
      PROVE  T \in G
  <2>1. IsFiniteSet(T)
    BY FS_Subset
  <2>2. /\ Sum(v, T) = IF T = {} THEN 0 ELSE v[Chosen(T)] + Sum(v, T \ {Chosen(T)})
        /\ Sum(w, T) = IF T = {} THEN 0 ELSE w[Chosen(T)] + Sum(w, T \ {Chosen(T)})
    BY <2>1, SumChosen
  <2>3. T # {} => Chosen(T) \in T
    BY ChosenIsIn
  <2>4. T # {} => v[Chosen(T)] = w[Chosen(T)]
                  /\ Sum(v, T \ {Chosen(T)}) = Sum(w, T \ {Chosen(T)})
    BY <1>1, <2>3
  <2>. QED BY <2>2, <2>4
<1>. HIDE DEF G
<1>2. \A T \in SUBSET S : T \in G
  BY <1>1, AllSubsets
<1>. QED BY <1>2 DEF G

LEMMA SumOfUnion ==
    ASSUME NEW A, NEW B, IsFiniteSet(A), IsFiniteSet(B), A \cap B = {},
           NEW w, \A x \in A \cup B : w[x] \in Int
    PROVE  Sum(w, A \cup B) = Sum(w, A) + Sum(w, B)
<1>. DEFINE G == {T \in SUBSET B : Sum(w, A \cup T) = Sum(w, A) + Sum(w, T)}
<1>0. \A T \in SUBSET (A \cup B) : IsFiniteSet(T) /\ Sum(w, T) \in Int
  <2>. SUFFICES ASSUME NEW T \in SUBSET (A \cup B) PROVE IsFiniteSet(T) /\ Sum(w, T) \in Int
    OBVIOUS
  <2>1. IsFiniteSet(A \cup B)
    BY FS_Union
  <2>2. IsFiniteSet(T) /\ \A x \in T : w[x] \in Int
    BY <2>1, FS_Subset
  <2>. QED BY <2>2, SumInt
<1>1. ASSUME NEW T \in SUBSET B, \A x \in T : T \ {x} \in G
      PROVE  T \in G
  <2>1. CASE T = {}
    <3>1. A \cup T = A /\ Sum(w, T) = 0 /\ Sum(w, A) \in Int
      BY <1>0, <2>1, SumNothing
    <3>. QED BY <3>1
  <2>2. CASE T # {}
    <3>. DEFINE c == Chosen(T)
    <3>1. c \in T
      BY <2>2, ChosenIsIn
    <3>. HIDE DEF c
    <3>2. Sum(w, T) = w[c] + Sum(w, T \ {c})
      <4>1. IsFiniteSet(T) /\ \A x \in T : w[x] \in Int
        BY <1>0
      <4>. QED BY <3>1, <4>1, SumOfRest
    <3>3. Sum(w, A \cup T) = w[c] + Sum(w, A \cup (T \ {c}))
      <4>1. IsFiniteSet(A \cup T) /\ (\A x \in A \cup T : w[x] \in Int) /\ c \in A \cup T
        BY <1>0, <3>1
      <4>2. Sum(w, A \cup T) = w[c] + Sum(w, (A \cup T) \ {c})
        BY <4>1, SumOfRest
      <4>3. (A \cup T) \ {c} = A \cup (T \ {c})
        BY <3>1
      <4>. QED BY <4>2, <4>3
    <3>4. Sum(w, A \cup (T \ {c})) = Sum(w, A) + Sum(w, T \ {c})
      BY <1>1, <3>1
    <3>5. w[c] \in Int /\ Sum(w, A) \in Int /\ Sum(w, T \ {c}) \in Int
      <4>1. A \in SUBSET (A \cup B) /\ T \ {c} \in SUBSET (A \cup B) /\ c \in A \cup B
        BY <3>1
      <4>. QED BY <1>0, <4>1
    <3>6. Sum(w, A \cup T) = Sum(w, A) + Sum(w, T)
      BY <3>2, <3>3, <3>4, <3>5
    <3>. QED BY <3>6
  <2>. QED BY <2>1, <2>2
<1>. HIDE DEF G
<1>2. \A T \in SUBSET B : T \in G
  BY <1>1, AllSubsets
<1>. QED BY <1>2 DEF G

\* The sums of the parts a set falls into, one for each key, are its sum.
Keyed(S, k, I) == {x \in S : k[x] \in I}
Parted(p, I, w, S, k) ==
    /\ \A x \in S : w[x] \in Int
    /\ \A i \in I : p[i] = Sum(w, Keyed(S, k, {i}))

LEMMA SumByKey ==
    ASSUME NEW I, IsFiniteSet(I), NEW S, IsFiniteSet(S), NEW k, NEW w, NEW p,
           Parted(p, I, w, S, k)
    PROVE  Sum(p, I) = Sum(w, Keyed(S, k, I))
<1>. DEFINE G == {J \in SUBSET I : Sum(p, J) = Sum(w, Keyed(S, k, J))}
<1>4. (\A x \in S : w[x] \in Int) /\ \A i \in I : p[i] = Sum(w, Keyed(S, k, {i}))
  BY DEF Parted
<1>0. \A T \in SUBSET S : IsFiniteSet(T) /\ Sum(w, T) \in Int
  <2>. SUFFICES ASSUME NEW T \in SUBSET S PROVE IsFiniteSet(T) /\ Sum(w, T) \in Int
    OBVIOUS
  <2>1. IsFiniteSet(T) /\ \A x \in T : w[x] \in Int
    BY <1>4, FS_Subset
  <2>. QED BY <2>1, SumInt
<1>1. \A i \in I : p[i] \in Int
  <2>1. \A i \in I : Keyed(S, k, {i}) \in SUBSET S
    BY DEF Keyed
  <2>. QED BY <1>0, <1>4, <2>1
<1>2. ASSUME NEW J \in SUBSET I, \A i \in J : J \ {i} \in G
      PROVE  J \in G
  <2>1. CASE J = {}
    <3>1. Keyed(S, k, J) = {}
      BY <2>1 DEF Keyed
    <3>. QED BY <2>1, <3>1, SumNothing
  <2>2. CASE J # {}
    <3>. DEFINE c == Chosen(J)
                K == J \ {c}
                A == Keyed(S, k, K)
                B == Keyed(S, k, {c})
    <3>1. c \in J
      BY <2>2, ChosenIsIn
    <3>2. IsFiniteSet(J) /\ \A i \in J : p[i] \in Int
      BY <1>1, FS_Subset
    <3>3. Sum(p, J) = p[c] + Sum(p, K)
      <4>. HIDE DEF c
      <4>. QED BY <3>1, <3>2, SumOfRest
    <3>4. Sum(p, K) = Sum(w, A)
      BY <1>2, <3>1
    <3>5. p[c] = Sum(w, B)
      BY <1>4, <3>1
    <3>6. A \cap B = {} /\ A \cup B = Keyed(S, k, J) /\ A \in SUBSET S /\ B \in SUBSET S
      <4>. HIDE DEF c
      <4>. QED BY <3>1 DEF Keyed
    <3>. HIDE DEF A, B, K, c
    <3>7. IsFiniteSet(A) /\ IsFiniteSet(B) /\ (\A x \in A \cup B : w[x] \in Int)
          /\ Sum(w, A) \in Int /\ Sum(w, B) \in Int
      BY <1>0, <1>4, <3>6
    <3>8. Sum(w, A \cup B) = Sum(w, A) + Sum(w, B)
      BY <3>6, <3>7, SumOfUnion
    <3>9. Sum(p, J) = Sum(w, A \cup B)
      BY <3>3, <3>4, <3>5, <3>7, <3>8
    <3>. QED BY <3>6, <3>9
  <2>. QED BY <2>1, <2>2
<1>. HIDE DEF G
<1>3. \A J \in SUBSET I : J \in G
  BY <1>2, AllSubsets
<1>. QED BY <1>3 DEF G

\* Sums of sums and differences.
FourTerms(t, a, b, c, d, S) ==
    \A x \in S : /\ a[x] \in Int /\ b[x] \in Int /\ c[x] \in Int /\ d[x] \in Int
                 /\ t[x] = a[x] - b[x] + c[x] - d[x]

LEMMA SumOfFour ==
    ASSUME NEW S, IsFiniteSet(S), NEW a, NEW b, NEW c, NEW d, NEW t,
           FourTerms(t, a, b, c, d, S)
    PROVE  Sum(t, S) = Sum(a, S) - Sum(b, S) + Sum(c, S) - Sum(d, S)
<1>. DEFINE G == {T \in SUBSET S :
                    Sum(t, T) = Sum(a, T) - Sum(b, T) + Sum(c, T) - Sum(d, T)}
<1>0. \A T \in SUBSET S :
        /\ IsFiniteSet(T)
        /\ Sum(a, T) \in Int /\ Sum(b, T) \in Int /\ Sum(c, T) \in Int /\ Sum(d, T) \in Int
  <2>. SUFFICES ASSUME NEW T \in SUBSET S
                PROVE  /\ IsFiniteSet(T) /\ Sum(a, T) \in Int /\ Sum(b, T) \in Int
                       /\ Sum(c, T) \in Int /\ Sum(d, T) \in Int
    OBVIOUS
  <2>1. IsFiniteSet(T)
    BY FS_Subset
  <2>2. \A x \in T : a[x] \in Int /\ b[x] \in Int /\ c[x] \in Int /\ d[x] \in Int
    BY DEF FourTerms
  <2>. QED BY <2>1, <2>2, SumInt
<1>1. ASSUME NEW T \in SUBSET S, \A x \in T : T \ {x} \in G
      PROVE  T \in G
  <2>1. CASE T = {}
    <3>1. Sum(t, T) = 0 /\ Sum(a, T) = 0 /\ Sum(b, T) = 0 /\ Sum(c, T) = 0 /\ Sum(d, T) = 0
      BY <2>1, SumNothing
    <3>. QED BY <3>1
  <2>2. CASE T # {}
    <3>. DEFINE i == Chosen(T)
                U == T \ {i}
    <3>1. IsFiniteSet(T) /\ i \in T /\ U \in SUBSET S
      BY <1>0, <2>2, ChosenIsIn
    <3>2. /\ Sum(t, T) = t[i] + Sum(t, U) /\ Sum(a, T) = a[i] + Sum(a, U)
          /\ Sum(b, T) = b[i] + Sum(b, U) /\ Sum(c, T) = c[i] + Sum(c, U)
          /\ Sum(d, T) = d[i] + Sum(d, U)
      BY <2>2, <3>1, SumChosen
    <3>3. Sum(t, U) = Sum(a, U) - Sum(b, U) + Sum(c, U) - Sum(d, U)
      BY <1>1, <3>1
    <3>. HIDE DEF i, U
    <3>4. /\ a[i] \in Int /\ b[i] \in Int /\ c[i] \in Int /\ d[i] \in Int
          /\ t[i] = a[i] - b[i] + c[i] - d[i]
      BY <3>1 DEF FourTerms
    <3>5. Sum(a, U) \in Int /\ Sum(b, U) \in Int /\ Sum(c, U) \in Int /\ Sum(d, U) \in Int
      BY <1>0, <3>1
    <3>. QED BY <3>2, <3>3, <3>4, <3>5
  <2>. QED BY <2>1, <2>2
<1>. HIDE DEF G
<1>2. \A T \in SUBSET S : T \in G
  BY <1>1, AllSubsets
<1>. QED BY <1>2 DEF G

\* What satisfies the equations of a sum is its sum.
LEMMA AddsSum ==
    ASSUME NEW T, IsFiniteSet(T), NEW w, NEW f, Adds(f, w, T)
    PROVE  f[T] = Sum(w, T)
<1>1. PICK g : Adds(g, w, T) /\ \A U \in SUBSET T : Sum(w, U) = g[U]
  BY SumAdds
<1>2. T \subseteq T /\ Adds(g, w, T)
  BY <1>1
<1>3. f[T] = g[T]
  BY <1>2, AddsAlike
<1>. QED BY <1>1, <1>3

-----------------------------------------------------------------------------
(* Rounding *)

LEMMA AmountsInt == Principals \subseteq Int /\ Amounts \subseteq Int
  BY ConstantsAssumption

LEMMA RoundInt ==
    ASSUME NEW x \in Int
    PROVE  RoundCents(x) \in Int
  BY ConstantsAssumption DEF RoundCents

LEMMA RoundNat ==
    ASSUME NEW x \in Nat
    PROVE  RoundCents(x) \in Nat
  <1> DEFINE b == 2 * Subunits
             a == 2 * x + Subunits
  <1>1. a \in Nat /\ b \in Nat \ {0}
    BY ConstantsAssumption
  <1>2. RoundCents(x) = a \div b
    BY DEF RoundCents
  <1>3. \A m \in Nat, n \in Nat \ {0} : m \div n \in Nat
    OBVIOUS
  <1> QED
    BY <1>1, <1>2, <1>3

\* Rounding is symmetric.
LEMMA RoundNegative ==
    ASSUME NEW x \in Nat
    PROVE  RoundCents(0 - x) = 0 - RoundCents(x)
  <1>1. CASE x = 0
    <2>1. \A s \in Nat \ {0} : s \div (2 * s) = 0
      OBVIOUS
    <2> QED
      BY <2>1, <1>1, ConstantsAssumption DEF RoundCents
  <1>2. CASE x > 0
    BY <1>2, RoundNat, ConstantsAssumption DEF RoundCents
  <1> QED
    BY <1>1, <1>2

\* Without fractions of a cent there is nothing to round.
LEMMA RoundExact ==
    ASSUME Subunits = 1, NEW x \in Int
    PROVE  RoundCents(x) = x
  BY DEF RoundCents

-----------------------------------------------------------------------------
(* Rows *)

Row(row) == row \in DebtRow /\ RowAccepted(row)

LEMMA SetDebtRow ==
    ASSUME NEW row \in DebtRow, NEW o \in Int, NEW a \in Int,
           NEW s \in AppStatus \cup DbStatus, NEW c \in BOOLEAN
    PROVE  /\ SetDebt(row, o, a, s, c) \in DebtRow
           /\ SetDebt(row, o, a, s, c).outstanding = o
           /\ SetDebt(row, o, a, s, c).accrued = a
           /\ SetDebt(row, o, a, s, c).closed = c
           /\ SetDebt(row, o, a, s, c).status = s
           /\ SetDebt(row, o, a, s, c).state = row.state
           /\ SetDebt(row, o, a, s, c).user = row.user
           /\ SetDebt(row, o, a, s, c).principal = row.principal
           /\ SetDebt(row, o, a, s, c).origin = row.origin
  BY DEF DebtRow, SetDebt

LEMMA NewDebtRow ==
    ASSUME NEW u \in Users, NEW p \in Principals,
           NEW t \in Transactions \cup {None},
           RowAccepted(NewDebt(u, RoundCents(p), t))
    PROVE  /\ Row(NewDebt(u, RoundCents(p), t))
           /\ NewDebt(u, RoundCents(p), t).outstanding = RoundCents(p)
           /\ NewDebt(u, RoundCents(p), t).principal = RoundCents(p)
  <1> DEFINE c == RoundCents(p)
  <1>1. c \in Nat
    BY RoundInt, AmountsInt DEF NewDebt, RowAccepted
  <1>2. NewDebt(u, c, t) =
          [state |-> "live", user |-> u, principal |-> c, outstanding |-> c,
           accrued |-> 0, status |-> "active", origin |-> t, closed |-> FALSE]
    BY DEF NewDebt
  <1> HIDE DEF c
  <1>3. NewDebt(u, c, t) \in DebtRow
    BY <1>1, <1>2 DEF DebtRow, AppStatus, DbStatus
  <1> QED
    BY <1>1, <1>2, <1>3 DEF Row, RowAccepted, DbStatus, c

AnyPayment == AmountPayments \cup SplitPayments

LEMMA PaymentFields ==
    ASSUME NEW pay \in AnyPayment
    PROVE  /\ pay.mode \in {"amount", "split"}
           /\ pay.amount \in Int
           /\ pay.interest \in Int
  <1>1. pay \in AmountPayments \/ pay \in SplitPayments
    BY DEF AnyPayment
  <1>2. pay.mode \in {"amount", "split"}
    BY <1>1 DEF AmountPayments, SplitPayments
  <1>3. pay.amount \in Amounts
    BY <1>1 DEF AmountPayments, SplitPayments
  <1>4. pay.interest \in {0} \cup Amounts
    BY <1>1 DEF AmountPayments, SplitPayments
  <1>5. pay.amount \in Int
    BY <1>3, AmountsInt
  <1>6. {0} \cup Amounts \subseteq Int
    BY AmountsInt
  <1>7. pay.interest \in Int
    BY <1>4, <1>6
  <1> QED
    BY <1>2, <1>5, <1>7

\* A payment is divided into two parts.
LEMMA AllocationType ==
    ASSUME NEW row, Row(row), NEW pay \in AnyPayment
    PROVE  /\ Allocation(row, pay).principal \in Int
           /\ Allocation(row, pay).interest \in Int
  <1> DEFINE accrued == row.accrued * Subunits
  <1>1. accrued \in Int
    BY ConstantsAssumption DEF Row, DebtRow, RowAccepted
  <1>2. /\ pay.mode \in {"amount", "split"}
        /\ pay.amount \in Int
        /\ pay.interest \in Int
    BY PaymentFields
  <1>3. CASE pay.mode = "split"
    BY <1>2, <1>3 DEF Allocation
  <1>4. CASE pay.mode = "amount" /\ pay.amount >= accrued
    <2>1. pay.amount - accrued \in Int
      BY <1>1, <1>2, <1>4
    <2>2. RoundCents(pay.amount - accrued) \in Int
      BY <2>1, RoundInt
    <2>3. Subunits * RoundCents(pay.amount - accrued) \in Int
      BY <2>2, ConstantsAssumption
    <2>4. Allocation(row, pay) =
            [principal |-> Subunits * RoundCents(pay.amount - accrued),
             interest |-> accrued]
      BY <1>4 DEF Allocation
    <2> QED
      BY <1>1, <2>3, <2>4
  <1>5. CASE pay.mode = "amount" /\ ~(pay.amount >= accrued)
    <2>1. Subunits * RoundCents(pay.amount) \in Int
      BY <1>2, RoundInt, ConstantsAssumption
    <2>2. Allocation(row, pay) =
            [principal |-> 0, interest |-> Subunits * RoundCents(pay.amount)]
      BY <1>5 DEF Allocation
    <2> QED
      BY <2>1, <2>2
  <1> QED
    BY <1>2, <1>3, <1>4, <1>5

\* What AddPaymentTx leaves of a row, and when it closes the debt.
LEMMA AfterPaymentFields ==
    ASSUME NEW row, Row(row), NEW pay \in AnyPayment,
           NEW o, o = row.outstanding * Subunits - Allocation(row, pay).principal,
           NEW a, a = row.accrued * Subunits - Allocation(row, pay).interest
    PROVE  /\ o \in Int /\ a \in Int
           /\ AfterPayment(row, pay) \in DebtRow
           /\ AfterPayment(row, pay).outstanding = RoundCents(o)
           /\ AfterPayment(row, pay).accrued = RoundCents(a)
           /\ o <= 0 /\ a <= 0 => AfterPayment(row, pay).status = "paid"
           /\ AfterPayment(row, pay).closed = (o <= 0 /\ a <= 0)
           /\ AfterPayment(row, pay).state = row.state
           /\ AfterPayment(row, pay).user = row.user
           /\ AfterPayment(row, pay).principal = row.principal
           /\ AfterPayment(row, pay).origin = row.origin
  <1> DEFINE settled == o <= 0 /\ a <= 0
             s == IF settled THEN "paid" ELSE row.status
             newO == RoundCents(o)
             newA == RoundCents(a)
             new == SetDebt(row, newO, newA, s, settled)
  <1>1. o \in Int /\ a \in Int
    BY AllocationType, ConstantsAssumption DEF Row, DebtRow
  <1>2. newO \in Int /\ newA \in Int
    BY <1>1, RoundInt
  <1>3. AfterPayment(row, pay) = new
    BY DEF AfterPayment
  <1>4. /\ row \in DebtRow
        /\ s \in AppStatus \cup DbStatus
        /\ settled \in BOOLEAN
        /\ settled => s = "paid"
    BY DEF Row, DebtRow, AppStatus
  <1> HIDE DEF settled, s, newO, newA
  <1>5. /\ new \in DebtRow
        /\ new.outstanding = newO
        /\ new.accrued = newA
        /\ new.status = s
        /\ new.closed = settled
        /\ new.state = row.state
        /\ new.user = row.user
        /\ new.principal = row.principal
        /\ new.origin = row.origin
    BY <1>2, <1>4, SetDebtRow
  <1> HIDE DEF new
  <1>6. /\ o <= 0 /\ a <= 0 => new.status = "paid"
        /\ new.closed = (o <= 0 /\ a <= 0)
    BY <1>4, <1>5 DEF settled
  <1> QED
    BY <1>1, <1>3, <1>5, <1>6 DEF newO, newA

LEMMA PaymentLinkRow ==
    ASSUME NEW row, Row(row), NEW pay \in AnyPayment, NEW d \in Debts
    PROVE  PaymentLink(d, row, pay) \in LinkRow
  BY AllocationType, RoundInt DEF PaymentLink, LinkRow

LEMMA AfterRefundRow ==
    ASSUME NEW row, Row(row), NEW l \in LinkRow
    PROVE  /\ AfterRefund(row, l) \in DebtRow
           /\ AfterRefund(row, l).outstanding = row.outstanding + l.principal
           /\ AfterRefund(row, l).accrued = row.accrued + l.interest
           /\ AfterRefund(row, l).closed = FALSE
           /\ AfterRefund(row, l).state = row.state
           /\ AfterRefund(row, l).user = row.user
           /\ AfterRefund(row, l).principal = row.principal
           /\ AfterRefund(row, l).origin = row.origin
  <1>1. /\ row.outstanding + l.principal \in Int
        /\ row.accrued + l.interest \in Int
    BY DEF Row, DebtRow, RowAccepted, LinkRow
  <1> DEFINE o == row.outstanding + l.principal
             a == row.accrued + l.interest
             closed == FALSE
             new == SetDebt(row, o, a, "active", closed)
  <1>2. /\ row \in DebtRow
        /\ o \in Int /\ a \in Int
        /\ "active" \in AppStatus \cup DbStatus
        /\ closed \in BOOLEAN
    BY <1>1 DEF Row, AppStatus
  <1> HIDE DEF o, a, closed
  <1>3. /\ new \in DebtRow
        /\ new.outstanding = o
        /\ new.accrued = a
        /\ new.closed = closed
        /\ new.status = "active"
        /\ new.state = row.state
        /\ new.user = row.user
        /\ new.principal = row.principal
        /\ new.origin = row.origin
    BY <1>2, SetDebtRow
  <1>4. AfterRefund(row, l) = new
    BY DEF AfterRefund, o, a, closed
  <1> HIDE DEF new
  <1>5. o = row.outstanding + l.principal /\ a = row.accrued + l.interest
        /\ closed = FALSE
    BY DEF o, a, closed
  <1> QED
    BY <1>3, <1>4, <1>5

-----------------------------------------------------------------------------
(* Type correctness *)

LEMMA TypeInit == Init => TypeOK
  BY DEF Init, TypeOK, NoDebt, NoTxn, NoLink, DebtRow, TxnRow, LinkRow,
         RowAccepted, AppStatus, DbStatus

LEMMA TypeRows ==
    TypeOK <=> /\ debt \in [Debts -> DebtRow]
               /\ \A d \in Debts : Row(debt[d])
               /\ txn \in [Transactions -> TxnRow]
               /\ link \in [Transactions -> LinkRow]
  BY DEF TypeOK, Row

LEMMA TypeCreateDebt ==
    ASSUME TypeOK, NEW u \in Users, NEW a \in Accounts, NEW d \in Debts,
           NEW p \in Principals, NEW o \in Transactions \cup {None},
           CreateDebt(u, a, d, p, o)
    PROVE  TypeOK'
  <1> DEFINE new == NewDebt(u, RoundCents(p), o)
  <1>1. new \in DebtRow /\ RowAccepted(new)
    BY NewDebtRow DEF Row, CreateDebt
  <1>2. debt' = [debt EXCEPT ![d] = new] /\ txn' = txn /\ link' = link
    BY DEF CreateDebt
  <1> HIDE DEF new
  <1> QED
    BY <1>1, <1>2 DEF TypeOK

LEMMA TypeCreateTransaction ==
    ASSUME TypeOK, NEW u \in Users, NEW a \in Accounts, NEW t \in Transactions,
           NEW share \in Shares, CreateTransaction(u, a, t, share)
    PROVE  TypeOK'
  <1>1. \A d \in DOMAIN share : share[d] \in Principals
    BY DEF Shares
  <1>2. \A d \in DOMAIN share : Row(NewDebt(u, RoundCents(share[d]), t))
    BY <1>1, NewDebtRow DEF CreateTransaction
  <1>3. \A d \in Debts : Row(debt'[d])
    BY <1>2, TypeRows DEF CreateTransaction
  <1>4. debt' \in [Debts -> DebtRow]
    BY <1>3 DEF CreateTransaction, Row
  <1>5. txn' \in [Transactions -> TxnRow] /\ link' = link
    BY DEF CreateTransaction, TypeOK, TxnRow
  <1> QED
    BY <1>3, <1>4, <1>5 DEF TypeOK, Row

LEMMA TypeUpdateDebt ==
    ASSUME TypeOK, NEW u \in Users, NEW d \in Debts, NEW s \in Statuses,
           UpdateDebt(u, d, s)
    PROVE  TypeOK'
  <1> DEFINE closed == debt[d].closed \/ s = "paid"
             new == SetDebt(debt[d], debt[d].outstanding, debt[d].accrued, s,
                            closed)
  <1>1. /\ debt[d] \in DebtRow
        /\ debt[d].outstanding \in Int /\ debt[d].accrued \in Int
        /\ s \in AppStatus \cup DbStatus
        /\ closed \in BOOLEAN
    BY ConstantsAssumption DEF TypeOK, DebtRow
  <1>2. new = AfterUpdate(debt[d], s)
    BY DEF AfterUpdate
  <1> HIDE DEF closed
  <1>3. new \in DebtRow
    BY <1>1, SetDebtRow
  <1> HIDE DEF new
  <1>4. /\ RowAccepted(new)
        /\ debt' = [debt EXCEPT ![d] = new]
        /\ txn' = txn /\ link' = link
    BY <1>2 DEF UpdateDebt
  <1> QED
    BY <1>3, <1>4 DEF TypeOK

LEMMA TypeDeleteDebt ==
    ASSUME TypeOK, NEW u \in Users, NEW d \in Debts, DeleteDebt(u, d)
    PROVE  TypeOK'
  BY DEF TypeOK, DeleteDebt, DebtRow, RowAccepted

LEMMA TypeRecordPayment ==
    ASSUME TypeOK, NEW u \in Users, NEW d \in Debts, NEW t \in Transactions,
           NEW pay \in AnyPayment, RecordPayment(u, d, t, pay)
    PROVE  /\ debt' \in [Debts -> DebtRow]
           /\ \A e \in Debts : RowAccepted(debt'[e])
           /\ link' \in [Transactions -> LinkRow]
  <1> DEFINE new == AfterPayment(debt[d], pay)
             l == PaymentLink(d, debt[d], pay)
  <1>1. Row(debt[d])
    BY DEF TypeOK, Row
  <1>2. new \in DebtRow
    BY <1>1, AfterPaymentFields
  <1>3. l \in LinkRow
    BY <1>1, PaymentLinkRow
  <1>4. /\ RowAccepted(new)
        /\ debt' = [debt EXCEPT ![d] = new]
        /\ link' = [link EXCEPT ![t] = l]
    BY DEF RecordPayment
  <1> HIDE DEF new, l
  <1> QED
    BY <1>2, <1>3, <1>4 DEF TypeOK

LEMMA CleanedRow ==
    ASSUME TypeOK, NEW u \in Users, NEW t \in Transactions, NEW d \in Debts,
           RowAccepted(Cleaned(u, t, d))
    PROVE  Row(Cleaned(u, t, d))
  <1> DEFINE row == IF link[t].debt = d /\ DebtVisible(u, d)
                    THEN AfterRefund(debt[d], link[t])
                    ELSE debt[d]
  <1>1. Row(debt[d]) /\ link[t] \in LinkRow
    BY DEF TypeOK, Row
  <1>2. row \in DebtRow
    BY <1>1, AfterRefundRow DEF Row
  <1>3. Cleaned(u, t, d) = row
          \/ Cleaned(u, t, d) = [row EXCEPT !.state = "deleted"]
    BY DEF Cleaned
  <1> HIDE DEF row
  <1> QED
    BY <1>2, <1>3 DEF Row, DebtRow

LEMMA TypeDeleteTransaction ==
    ASSUME TypeOK, NEW u \in Users, NEW t \in Transactions,
           DeleteTransaction(u, t)
    PROVE  TypeOK'
  <1>1. \A d \in Debts : Row(debt'[d])
    BY CleanedRow DEF DeleteTransaction
  <1>2. debt' \in [Debts -> DebtRow]
    BY <1>1 DEF DeleteTransaction, Row
  <1>3. txn' \in [Transactions -> TxnRow]
    BY DEF DeleteTransaction, TypeOK, TxnRow
  <1>4. link' \in [Transactions -> LinkRow]
    BY DEF DeleteTransaction, TypeOK, LinkRow, NoLink
  <1> QED
    BY <1>1, <1>2, <1>3, <1>4 DEF TypeOK, Row

LEMMA TypeNext == TypeOK /\ [Next]_vars => TypeOK'
  <1> SUFFICES ASSUME TypeOK, [Next]_vars PROVE TypeOK'
    OBVIOUS
  <1>1. CASE CreateNext
    BY <1>1, TypeCreateDebt, TypeCreateTransaction DEF CreateNext, CreateBy
  <1>2. CASE UpdateNext
    BY <1>2, TypeUpdateDebt, TypeDeleteDebt DEF UpdateNext
  <1>3. CASE PaymentNext
    <2>1. ASSUME NEW u \in Users, NEW d \in Debts, NEW t \in Transactions,
                 NEW pay \in Payments, AddPayment(u, d, t, pay)
          PROVE  TypeOK'
      <3>1. pay \in AnyPayment
        BY DEF Payments, AnyPayment
      <3> QED
        BY <2>1, <3>1, TypeRecordPayment DEF AddPayment, TypeOK
    <2>2. ASSUME NEW u \in Users, NEW d \in Debts, NEW t \in Transactions,
                 NEW a \in Accounts, NEW pay \in AmountPayments,
                 Repay(u, a, d, t, pay)
          PROVE  TypeOK'
      <3>1. pay \in AnyPayment
        BY DEF AnyPayment
      <3>2. txn' \in [Transactions -> TxnRow]
        BY <2>2 DEF Repay, TypeOK, TxnRow
      <3> QED
        BY <2>2, <3>1, <3>2, TypeRecordPayment DEF Repay, TypeOK
    <2> QED
      BY <1>3, <2>1, <2>2 DEF PaymentNext
  <1>4. CASE DeleteNext
    BY <1>4, TypeDeleteTransaction DEF DeleteNext
  <1>5. CASE UNCHANGED vars
    BY <1>5 DEF vars, TypeOK
  <1> QED
    BY <1>1, <1>2, <1>3, <1>4, <1>5 DEF Next

\* The rows stay within what the columns, the CHECK constraints and the enum
\* of the debts table accept.
THEOREM TypeCorrect == Spec => []TypeOK
  BY TypeInit, TypeNext, PTL DEF Spec

-----------------------------------------------------------------------------
(* Adding what was paid *)

PrincipalPaid == [t \in Transactions |-> link[t].principal]
InterestPaid == [t \in Transactions |-> link[t].interest]

LEMMA PrincipalsAdd ==
    ASSUME NEW l, NEW T \in SUBSET Transactions, IsFiniteSet(T)
    PROVE  MapThenSumSet(LAMBDA t : l[t].principal, T)
             = Sum([t \in Transactions |-> l[t].principal], T)
  <1> DEFINE w == [t \in Transactions |-> l[t].principal]
             Body(g) == [U \in SUBSET T |->
                          IF U = {} THEN 0 ELSE l[Chosen(U)].principal + g[U \ {Chosen(U)}]]
             it == CHOOSE g : g = Body(g)
  <1>1. MapThenSumSet(LAMBDA t : l[t].principal, T) = it[T]
    BY DEF MapThenSumSet, MapThenFoldSet, Chosen
  <1>2. ASSUME NEW g
        PROVE  g = Body(g) <=> Adds(g, w, T)
    <2>1. ASSUME NEW U \in SUBSET T, U # {}
          PROVE  l[Chosen(U)].principal = w[Chosen(U)]
      BY <2>1, ChosenIsIn
    <2> QED
      BY <2>1 DEF Adds
  <1>3. it = Body(it)
    <2>1. \E g : g = Body(g)
      BY <1>2, AddsExists
    <2> HIDE DEF Body
    <2> QED
      BY <2>1
  <1>4. Adds(it, w, T)
    BY <1>2, <1>3
  <1> HIDE DEF it
  <1> QED
    BY <1>1, <1>4, AddsSum

LEMMA InterestsAdd ==
    ASSUME NEW l, NEW T \in SUBSET Transactions, IsFiniteSet(T)
    PROVE  MapThenSumSet(LAMBDA t : l[t].interest, T)
             = Sum([t \in Transactions |-> l[t].interest], T)
  <1> DEFINE w == [t \in Transactions |-> l[t].interest]
             Body(g) == [U \in SUBSET T |->
                          IF U = {} THEN 0 ELSE l[Chosen(U)].interest + g[U \ {Chosen(U)}]]
             it == CHOOSE g : g = Body(g)
  <1>1. MapThenSumSet(LAMBDA t : l[t].interest, T) = it[T]
    BY DEF MapThenSumSet, MapThenFoldSet, Chosen
  <1>2. ASSUME NEW g
        PROVE  g = Body(g) <=> Adds(g, w, T)
    <2>1. ASSUME NEW U \in SUBSET T, U # {}
          PROVE  l[Chosen(U)].interest = w[Chosen(U)]
      BY <2>1, ChosenIsIn
    <2> QED
      BY <2>1 DEF Adds
  <1>3. it = Body(it)
    <2>1. \E g : g = Body(g)
      BY <1>2, AddsExists
    <2> HIDE DEF Body
    <2> QED
      BY <2>1
  <1>4. Adds(it, w, T)
    BY <1>2, <1>3
  <1> HIDE DEF it
  <1> QED
    BY <1>1, <1>4, AddsSum

\* What was paid towards d, now and after a step that leaves finitely many payments.
LEMMA PaidNow ==
    ASSUME NEW d, IsFiniteSet(PaymentsOf(d))
    PROVE  /\ Paid(d) = Sum(PrincipalPaid, PaymentsOf(d))
           /\ PaidInterest(d) = Sum(InterestPaid, PaymentsOf(d))
  <1>1. PaymentsOf(d) \in SUBSET Transactions
    BY DEF PaymentsOf
  <1>2. Paid(d) = Sum(PrincipalPaid, PaymentsOf(d))
    BY <1>1, PrincipalsAdd DEF Paid, PrincipalPaid
  <1>3. PaidInterest(d) = Sum(InterestPaid, PaymentsOf(d))
    BY <1>1, InterestsAdd DEF PaidInterest, InterestPaid
  <1> QED
    BY <1>2, <1>3

LEMMA PaidIs ==
    ASSUME TypeOK, NEW d, IsFiniteSet(PaymentsOf(d))
    PROVE  /\ Paid(d) = Sum(PrincipalPaid, PaymentsOf(d)) /\ Paid(d) \in Int
           /\ PaidInterest(d) = Sum(InterestPaid, PaymentsOf(d)) /\ PaidInterest(d) \in Int
           /\ \A t \in PaymentsOf(d) : PrincipalPaid[t] \in Int /\ InterestPaid[t] \in Int
  <1>1. \A t \in PaymentsOf(d) : PrincipalPaid[t] \in Int /\ InterestPaid[t] \in Int
    BY DEF PaymentsOf, PrincipalPaid, InterestPaid, TypeOK, LinkRow
  <1> QED
    BY <1>1, PaidNow, SumInt

LEMMA PaidBecomes ==
    ASSUME NEW d, IsFiniteSet(PaymentsOf(d)')
    PROVE  /\ Paid(d)' = Sum(PrincipalPaid', PaymentsOf(d)')
           /\ PaidInterest(d)' = Sum(InterestPaid', PaymentsOf(d)')
  <1> DEFINE T == {t \in Transactions : link'[t].debt = d}
  <1>1. PaymentsOf(d)' = T /\ T \in SUBSET Transactions /\ IsFiniteSet(T)
    BY DEF PaymentsOf
  <1>2. Paid(d)' = MapThenSumSet(LAMBDA t : link'[t].principal, T)
    BY DEF Paid, PaymentsOf, MapThenSumSet, MapThenFoldSet
  <1>3. PaidInterest(d)' = MapThenSumSet(LAMBDA t : link'[t].interest, T)
    BY DEF PaidInterest, PaymentsOf, MapThenSumSet, MapThenFoldSet
  <1>4. /\ PrincipalPaid' = [t \in Transactions |-> link'[t].principal]
        /\ InterestPaid' = [t \in Transactions |-> link'[t].interest]
    BY DEF PrincipalPaid, InterestPaid
  <1> HIDE DEF T
  <1>5. MapThenSumSet(LAMBDA t : link'[t].principal, T)
          = Sum([t \in Transactions |-> link'[t].principal], T)
    BY <1>1, PrincipalsAdd
  <1>6. MapThenSumSet(LAMBDA t : link'[t].interest, T)
          = Sum([t \in Transactions |-> link'[t].interest], T)
    BY <1>1, InterestsAdd
  <1> QED
    BY <1>1, <1>2, <1>3, <1>4, <1>5, <1>6

\* The links of a debt that no step touches count for the same amounts.
LEMMA PaidUnchanged ==
    ASSUME NEW d, IsFiniteSet(PaymentsOf(d)),
           \A t \in Transactions :
               /\ link'[t].debt = d <=> link[t].debt = d
               /\ link[t].debt = d => link'[t] = link[t]
    PROVE  /\ PaymentsOf(d)' = PaymentsOf(d)
           /\ Paid(d)' = Paid(d) /\ PaidInterest(d)' = PaidInterest(d)
  <1>1. PaymentsOf(d)' = PaymentsOf(d)
    BY DEF PaymentsOf
  <1>2. /\ \A t \in PaymentsOf(d) : PrincipalPaid'[t] = PrincipalPaid[t]
        /\ \A t \in PaymentsOf(d) : InterestPaid'[t] = InterestPaid[t]
    BY DEF PaymentsOf, PrincipalPaid, InterestPaid
  <1>3. /\ Sum(PrincipalPaid', PaymentsOf(d)) = Sum(PrincipalPaid, PaymentsOf(d))
        /\ Sum(InterestPaid', PaymentsOf(d)) = Sum(InterestPaid, PaymentsOf(d))
    BY <1>2, SumAlike
  <1> QED
    BY <1>1, <1>3, PaidBecomes, PaidNow

\* A new link adds its amounts to what was paid.
LEMMA PaidMore ==
    ASSUME TypeOK, NEW d, NEW t \in Transactions, NEW l \in LinkRow,
           link' = [link EXCEPT ![t] = l],
           link[t].debt # d, l.debt = d, IsFiniteSet(PaymentsOf(d))
    PROVE  /\ IsFiniteSet(PaymentsOf(d)')
           /\ Paid(d)' = Paid(d) + l.principal
           /\ PaidInterest(d)' = PaidInterest(d) + l.interest
  <1> DEFINE T == PaymentsOf(d)
             New == T \cup {t}
  <1>1. PaymentsOf(d)' = New /\ t \notin T
    BY DEF PaymentsOf, TypeOK
  <1>2. /\ PrincipalPaid'[t] = l.principal /\ InterestPaid'[t] = l.interest
        /\ \A s \in T : PrincipalPaid'[s] = PrincipalPaid[s]
        /\ \A s \in T : InterestPaid'[s] = InterestPaid[s]
    BY DEF PaymentsOf, TypeOK, PrincipalPaid, InterestPaid
  <1>3. IsFiniteSet(New) /\ New \ {t} = T
    BY <1>1, FS_AddElement
  <1>4. /\ \A s \in New : PrincipalPaid'[s] \in Int
        /\ \A s \in New : InterestPaid'[s] \in Int
    BY <1>2, PaidIs DEF LinkRow
  <1>5. t \in New
    OBVIOUS
  <1> HIDE DEF New, T
  <1>6. /\ Sum(PrincipalPaid', New) = l.principal + Sum(PrincipalPaid', T)
        /\ Sum(InterestPaid', New) = l.interest + Sum(InterestPaid', T)
    BY <1>2, <1>3, <1>4, <1>5, SumOfRest
  <1>7. /\ Sum(PrincipalPaid', T) = Sum(PrincipalPaid, T)
        /\ Sum(InterestPaid', T) = Sum(InterestPaid, T)
    BY <1>2, SumAlike DEF T
  <1>8. /\ Paid(d)' = Sum(PrincipalPaid', New)
        /\ PaidInterest(d)' = Sum(InterestPaid', New)
    BY <1>1, <1>3, PaidBecomes
  <1>9. l.principal \in Int /\ l.interest \in Int
    BY DEF LinkRow
  <1> QED
    BY <1>1, <1>3, <1>6, <1>7, <1>8, <1>9, PaidIs DEF T

\* A link that goes takes its amounts along.
LEMMA PaidLess ==
    ASSUME TypeOK, NEW d, NEW t \in Transactions, NEW l \in LinkRow,
           link' = [link EXCEPT ![t] = l],
           link[t].debt = d, l.debt # d, IsFiniteSet(PaymentsOf(d))
    PROVE  /\ IsFiniteSet(PaymentsOf(d)')
           /\ Paid(d)' = Paid(d) - link[t].principal
           /\ PaidInterest(d)' = PaidInterest(d) - link[t].interest
  <1> DEFINE T == PaymentsOf(d)
             Rest == T \ {t}
  <1>1. PaymentsOf(d)' = Rest /\ t \in T
    BY DEF PaymentsOf, TypeOK
  <1>2. /\ PrincipalPaid[t] = link[t].principal /\ InterestPaid[t] = link[t].interest
        /\ \A s \in Rest : PrincipalPaid'[s] = PrincipalPaid[s]
        /\ \A s \in Rest : InterestPaid'[s] = InterestPaid[s]
    BY DEF PaymentsOf, TypeOK, PrincipalPaid, InterestPaid
  <1>3. IsFiniteSet(Rest)
    BY FS_RemoveElement
  <1>4. /\ \A s \in T : PrincipalPaid[s] \in Int
        /\ \A s \in T : InterestPaid[s] \in Int
    BY PaidIs
  <1>5. /\ Sum(PrincipalPaid, T) = link[t].principal + Sum(PrincipalPaid, Rest)
        /\ Sum(InterestPaid, T) = link[t].interest + Sum(InterestPaid, Rest)
    BY <1>1, <1>2, <1>4, SumOfRest
  <1>6. /\ Sum(PrincipalPaid, Rest) \in Int /\ Sum(InterestPaid, Rest) \in Int
    BY <1>3, <1>4, SumInt
  <1> HIDE DEF Rest, T
  <1>7. /\ Sum(PrincipalPaid', Rest) = Sum(PrincipalPaid, Rest)
        /\ Sum(InterestPaid', Rest) = Sum(InterestPaid, Rest)
    BY <1>2, <1>3, SumAlike
  <1>8. /\ Paid(d)' = Sum(PrincipalPaid', Rest)
        /\ PaidInterest(d)' = Sum(InterestPaid', Rest)
    BY <1>1, <1>3, PaidBecomes
  <1>9. link[t].principal \in Int /\ link[t].interest \in Int
    BY DEF TypeOK, LinkRow
  <1> QED
    BY <1>1, <1>3, <1>5, <1>6, <1>7, <1>8, <1>9, PaidIs DEF T

-----------------------------------------------------------------------------
(* The books balance *)

\* Payment links point to debts that were created, so that a new debt starts
\* without payments.
LinksKnown ==
    \A t \in Transactions :
        link[t].debt # None => debt[link[t].debt].state # "absent"

PaymentsFinite == \A d \in Debts : IsFiniteSet(PaymentsOf(d))

\* Rounding may leave more to pay than was not paid, and nothing rounds when
\* requests carry whole cents.
Balanced(row, paid, interest) ==
    row.state = "live" =>
      /\ row.outstanding + paid >= row.principal
      /\ Subunits = 1 => /\ row.outstanding + paid = row.principal
                         /\ row.accrued + interest = 0

\* The inductive invariant behind Conservation and NeverUnderstated.
Books == /\ LinksKnown /\ PaymentsFinite
         /\ \A d \in Debts : Balanced(debt[d], Paid(d), PaidInterest(d))

LEMMA PaidInt ==
    ASSUME TypeOK, PaymentsFinite, NEW d \in Debts
    PROVE  Paid(d) \in Int /\ PaidInterest(d) \in Int
  BY PaidIs DEF PaymentsFinite

LEMMA BooksInit == Init => Books
  <1> SUFFICES ASSUME Init PROVE Books
    OBVIOUS
  <1>1. LinksKnown /\ \A d \in Debts : Balanced(debt[d], Paid(d), PaidInterest(d))
    BY DEF Init, NoDebt, NoLink, LinksKnown, Balanced
  <1>2. ASSUME NEW d \in Debts PROVE IsFiniteSet(PaymentsOf(d))
    <2>1. PaymentsOf(d) = {}
      BY ConstantsAssumption DEF Init, NoLink, PaymentsOf
    <2> QED
      BY <2>1, FS_EmptySet
  <1> QED
    BY <1>1, <1>2 DEF Books, PaymentsFinite

\* Steps that leave the links alone: a row stays balanced if its amounts stay,
\* and a new row is balanced if it owes its principal.
LEMMA BooksSameLinks ==
    ASSUME TypeOK, Books, link' = link,
           \A d \in Debts :
             \/ /\ debt'[d].outstanding = debt[d].outstanding
                /\ debt'[d].accrued = debt[d].accrued
                /\ debt'[d].principal = debt[d].principal
                /\ debt'[d].state = "live" => debt[d].state = "live"
                /\ debt[d].state # "absent" => debt'[d].state # "absent"
             \/ /\ debt[d].state = "absent"
                /\ debt'[d].state = "live"
                /\ debt'[d].outstanding = debt'[d].principal
                /\ debt'[d].accrued = 0
                /\ debt'[d].principal \in Int
    PROVE  Books'
  <1>1. \A d \in Debts : /\ PaymentsOf(d)' = PaymentsOf(d)
                         /\ Paid(d)' = Paid(d) /\ PaidInterest(d)' = PaidInterest(d)
    BY PaidUnchanged DEF Books, PaymentsFinite
  <1>3. LinksKnown'
    BY DEF Books, LinksKnown, TypeOK, LinkRow
  <1>4. ASSUME NEW d \in Debts, debt[d].state = "absent"
        PROVE  Paid(d) = 0 /\ PaidInterest(d) = 0
    <2>1. PaymentsOf(d) = {}
      BY <1>4, ConstantsAssumption DEF Books, LinksKnown, PaymentsOf
    <2> QED
      BY <2>1, PaidIs, SumNothing, FS_EmptySet
  <1>5. ASSUME NEW d \in Debts PROVE Balanced(debt'[d], Paid(d)', PaidInterest(d)')
    BY <1>1, <1>4 DEF Books, Balanced
  <1>6. (\A d \in Debts : Balanced(debt[d], Paid(d), PaidInterest(d)))'
    BY <1>5
  <1>7. PaymentsFinite'
    BY <1>1 DEF Books, PaymentsFinite
  <1> QED
    BY <1>3, <1>6, <1>7 DEF Books

\* What is rounded is less than one cent off, or half of one if it was not
\* negative.
LEMMA RoundNear ==
    ASSUME NEW x \in Nat
    PROVE  /\ 2 * (Subunits * RoundCents(x)) <= 2 * x + Subunits
           /\ 2 * x + Subunits < 2 * (Subunits * RoundCents(x)) + 2 * Subunits
  <1> DEFINE b == 2 * Subunits
             a == 2 * x + Subunits
             q == RoundCents(x)
  <1>1. a \in Nat /\ b \in Nat \ {0} /\ q \in Nat /\ Subunits \in Nat
    BY ConstantsAssumption, RoundNat
  <1>2. q = a \div b
    BY DEF RoundCents
  <1>3. \A m \in Nat, n \in Nat \ {0} : n * (m \div n) <= m /\ m < n * (m \div n) + n
    OBVIOUS
  <1>4. b * q <= a /\ a < b * q + b
    BY <1>1, <1>2, <1>3
  <1>5. \A s, k \in Nat : (2 * s) * k = 2 * (s * k)
    OBVIOUS
  <1>6. b * q = 2 * (Subunits * q)
    BY <1>1, <1>5
  <1> QED
    BY <1>4, <1>6

LEMMA LessThanOne ==
    ASSUME NEW s \in Nat \ {0}, NEW k \in Int, s * k < s
    PROVE  k < 1
  OBVIOUS

\* Of a sum of whole cents no more is lost by rounding both parts of it: what
\* is left to pay, and what is paid.
LEMMA RoundParts ==
    ASSUME NEW o \in Int, NEW p \in Nat, RoundCents(o * Subunits - p) >= 0
    PROVE  RoundCents(o * Subunits - p) + RoundCents(p) >= o
  <1> DEFINE x == o * Subunits - p
             q == RoundCents(x)
             r == RoundCents(p)
  <1>0. Subunits \in Nat \ {0}
    BY ConstantsAssumption
  <1>1. x \in Int /\ r \in Nat /\ q \in Int
    BY <1>0, RoundNat, RoundInt
  <1>2. /\ 2 * (Subunits * r) <= 2 * p + Subunits
        /\ 2 * p + Subunits < 2 * (Subunits * r) + 2 * Subunits
    BY RoundNear
  <1>3. CASE x >= 0
    <2>1. /\ 2 * (Subunits * q) <= 2 * x + Subunits
          /\ 2 * x + Subunits < 2 * (Subunits * q) + 2 * Subunits
      BY <1>1, <1>3, RoundNear
    <2>2. Subunits * (o - q - r) = o * Subunits - Subunits * q - Subunits * r
      BY <1>0, <1>1
    <2>3. x = o * Subunits - p
      OBVIOUS
    <2> HIDE DEF x, q, r
    <2>4. Subunits * q \in Int /\ Subunits * r \in Int /\ o * Subunits \in Int
      BY <1>0, <1>1
    <2>5. Subunits * (o - q - r) < Subunits
      BY <1>0, <1>1, <1>2, <2>1, <2>2, <2>3, <2>4
    <2>6. o - q - r \in Int
      BY <1>1
    <2>7. o - q - r < 1
      BY <1>0, <2>5, <2>6, LessThanOne
    <2>8. q + r >= o
      BY <1>1, <2>7
    <2> QED
      BY <2>8 DEF q, r, x
  <1>4. CASE x < 0
    <2>1. q >= 0
      OBVIOUS
    <2>2. Subunits * (o - r) = o * Subunits - Subunits * r
      BY <1>0, <1>1
    <2>3. x = o * Subunits - p
      OBVIOUS
    <2> HIDE DEF x, q, r
    <2>4. Subunits * r \in Int /\ o * Subunits \in Int
      BY <1>0, <1>1
    <2>5. Subunits * (o - r) < Subunits
      BY <1>0, <1>1, <1>2, <1>4, <2>2, <2>3, <2>4
    <2>6. o - r \in Int
      BY <1>1
    <2>7. o - r < 1
      BY <1>0, <2>5, <2>6, LessThanOne
    <2>8. q + r >= o
      BY <1>1, <2>1, <2>7
    <2> QED
      BY <2>8 DEF q, r, x
  <1> QED
    BY <1>1, <1>3, <1>4

\* What is paid back by a negative payment is added and recorded alike.
LEMMA RoundBack ==
    ASSUME NEW o \in Nat, NEW m \in Nat
    PROVE  RoundCents(o * Subunits + m) + RoundCents(0 - m) >= o
  <1> DEFINE x == o * Subunits + m
             q == RoundCents(x)
             r == RoundCents(m)
  <1>0. Subunits \in Nat \ {0}
    BY ConstantsAssumption
  <1>1. x \in Nat /\ r \in Nat /\ q \in Nat
    BY <1>0, RoundNat
  <1>2. 2 * (Subunits * r) <= 2 * m + Subunits
    BY RoundNear
  <1>3. 2 * x + Subunits < 2 * (Subunits * q) + 2 * Subunits
    BY <1>1, RoundNear
  <1>4. RoundCents(0 - m) = 0 - r
    BY RoundNegative
  <1>5. Subunits * (o + r - q) = o * Subunits + Subunits * r - Subunits * q
    BY <1>0, <1>1
  <1>6. x = o * Subunits + m
    OBVIOUS
  <1> HIDE DEF x, q, r
  <1>7. Subunits * q \in Int /\ Subunits * r \in Int /\ o * Subunits \in Int
    BY <1>0, <1>1
  <1>8. Subunits * (o + r - q) < Subunits
    BY <1>0, <1>1, <1>2, <1>3, <1>5, <1>6, <1>7
  <1>9. o + r - q \in Int
    BY <1>1
  <1>10. o + r - q < 1
    BY <1>0, <1>8, <1>9, LessThanOne
  <1>11. q + (0 - r) >= o
    BY <1>1, <1>10
  <1> QED
    BY <1>4, <1>11 DEF q, x

\* What a payment takes from the debt is no more than its link records, and just
\* that in whole cents.
LEMMA PaymentTakes ==
    ASSUME NEW row, Row(row), NEW pay \in AnyPayment, NEW d,
           RowAccepted(AfterPayment(row, pay))
    PROVE  /\ PaymentLink(d, row, pay).principal \in Int
           /\ PaymentLink(d, row, pay).interest \in Int
           /\ AfterPayment(row, pay).outstanding + PaymentLink(d, row, pay).principal
                >= row.outstanding
           /\ Subunits = 1 =>
                /\ AfterPayment(row, pay).outstanding + PaymentLink(d, row, pay).principal
                     = row.outstanding
                /\ AfterPayment(row, pay).accrued + PaymentLink(d, row, pay).interest
                     = row.accrued
  <1> DEFINE p == Allocation(row, pay).principal
             i == Allocation(row, pay).interest
             o == row.outstanding * Subunits - p
             a == row.accrued * Subunits - i
  <1>1. p \in Int /\ i \in Int /\ row.outstanding \in Nat /\ row.accrued \in Int
    BY AllocationType DEF Row, DebtRow, RowAccepted
  <1>3. /\ AfterPayment(row, pay).outstanding = RoundCents(o)
        /\ AfterPayment(row, pay).accrued = RoundCents(a)
    BY AfterPaymentFields
  <1>4. /\ PaymentLink(d, row, pay).principal = RoundCents(p)
        /\ PaymentLink(d, row, pay).interest = RoundCents(i)
    BY DEF PaymentLink
  <1>5. RoundCents(o) >= 0
    BY <1>3 DEF RowAccepted
  <1> DEFINE n == row.outstanding
             k == row.accrued
  <1>6. n \in Nat /\ o = n * Subunits - p /\ k \in Int /\ a = k * Subunits - i
    BY <1>1
  <1> HIDE DEF p, i, o, a, n, k
  <1>7. RoundCents(p) \in Int /\ RoundCents(i) \in Int
    BY <1>1, RoundInt
  <1>8. RoundCents(o) + RoundCents(p) >= n
    <2>1. CASE p \in Nat
      BY <2>1, <1>5, <1>6, RoundParts
    <2>2. CASE p \notin Nat
      <3>1. 0 - p \in Nat /\ 0 - (0 - p) = p /\ n * Subunits \in Int
        BY <2>2, <1>1, <1>6, ConstantsAssumption
      <3>2. o = n * Subunits + (0 - p)
        BY <1>1, <1>6, <3>1
      <3>3. RoundCents(n * Subunits + (0 - p)) + RoundCents(0 - (0 - p)) >= n
        BY <1>6, <3>1, RoundBack
      <3> QED
        BY <3>1, <3>2, <3>3
    <2> QED
      BY <2>1, <2>2
  <1>9. ASSUME Subunits = 1
        PROVE  /\ RoundCents(o) + RoundCents(p) = n
               /\ RoundCents(a) + RoundCents(i) = k
    <2>1. o = n - p /\ o \in Int /\ a = k - i /\ a \in Int
      BY <1>1, <1>6, <1>9
    <2>2. /\ RoundCents(o) = o /\ RoundCents(p) = p
          /\ RoundCents(a) = a /\ RoundCents(i) = i
      BY <1>1, <1>9, <2>1, RoundExact
    <2> QED
      BY <1>1, <1>6, <2>1, <2>2
  <1> QED
    BY <1>3, <1>4, <1>7, <1>8, <1>9 DEF n, k

LEMMA BooksRecordPayment ==
    ASSUME TypeOK, Books, NEW u \in Users, NEW d \in Debts,
           NEW t \in Transactions, NEW pay \in AnyPayment,
           RecordPayment(u, d, t, pay)
    PROVE  Books'
  <1> DEFINE new == AfterPayment(debt[d], pay)
             l == PaymentLink(d, debt[d], pay)
  <1>1. Row(debt[d]) /\ debt[d].state = "live" /\ link[t].debt = None
    BY DEF TypeOK, Row, RecordPayment, DebtVisible
  <1>2. debt' = [debt EXCEPT ![d] = new] /\ link' = [link EXCEPT ![t] = l]
    BY DEF RecordPayment
  <1>3. /\ new.outstanding + l.principal >= debt[d].outstanding
        /\ Subunits = 1 => /\ new.outstanding + l.principal = debt[d].outstanding
                           /\ new.accrued + l.interest = debt[d].accrued
        /\ l.principal \in Int /\ l.interest \in Int
        /\ new.state = "live" /\ new.principal = debt[d].principal
        /\ new.outstanding \in Int /\ debt[d].outstanding \in Int
        /\ new.accrued \in Int /\ debt[d].accrued \in Int
        /\ debt[d].principal \in Int
    <2>1. RowAccepted(new)
      BY DEF RecordPayment
    <2>2. /\ new \in DebtRow /\ new.state = debt[d].state
          /\ new.principal = debt[d].principal
      BY <1>1, AfterPaymentFields
    <2>3. /\ l.principal \in Int /\ l.interest \in Int
          /\ new.outstanding + l.principal >= debt[d].outstanding
          /\ Subunits = 1 => /\ new.outstanding + l.principal = debt[d].outstanding
                             /\ new.accrued + l.interest = debt[d].accrued
      BY <1>1, <2>1, PaymentTakes
    <2> HIDE DEF new, l
    <2>4. /\ new.outstanding \in Int /\ debt[d].outstanding \in Int /\ debt[d].principal \in Int
          /\ new.accrued \in Int /\ debt[d].accrued \in Int
      BY <1>1, <2>2 DEF Row, DebtRow
    <2> QED
      BY <1>1, <2>2, <2>3, <2>4
  <1>4. l \in LinkRow /\ l.debt = d
    BY <1>1, PaymentLinkRow DEF PaymentLink
  <1> HIDE DEF new, l
  <1>5. d # None
    BY ConstantsAssumption
  <1>6. /\ IsFiniteSet(PaymentsOf(d)')
        /\ Paid(d)' = Paid(d) + l.principal
        /\ PaidInterest(d)' = PaidInterest(d) + l.interest
    BY <1>1, <1>2, <1>4, <1>5, PaidMore DEF Books, PaymentsFinite
  <1>7. ASSUME NEW e \in Debts, e # d
        PROVE  /\ PaymentsOf(e)' = PaymentsOf(e)
               /\ Paid(e)' = Paid(e) /\ PaidInterest(e)' = PaidInterest(e)
    <2>1. e # None
      BY ConstantsAssumption
    <2>2. \A s \in Transactions :
             /\ link'[s].debt = e <=> link[s].debt = e
             /\ link[s].debt = e => link'[s] = link[s]
      BY <1>1, <1>2, <1>4, <1>7, <2>1 DEF TypeOK
    <2> QED
      BY <2>2, PaidUnchanged DEF Books, PaymentsFinite
  <1>8. PaymentsFinite'
    <2> SUFFICES ASSUME NEW e \in Debts PROVE IsFiniteSet(PaymentsOf(e)')
      BY DEF PaymentsFinite
    <2>1. CASE e = d
      BY <1>6, <2>1
    <2>2. CASE e # d
      BY <1>7, <2>2 DEF Books, PaymentsFinite
    <2> QED
      BY <2>1, <2>2
  <1>9. (\A e \in Debts : Balanced(debt[e], Paid(e), PaidInterest(e)))'
    <2> SUFFICES ASSUME NEW e \in Debts PROVE Balanced(debt'[e], Paid(e)', PaidInterest(e)')
      OBVIOUS
    <2>1. CASE e = d
      <3>1. /\ debt[d].outstanding + Paid(d) >= debt[d].principal
            /\ Subunits = 1 => /\ debt[d].outstanding + Paid(d) = debt[d].principal
                               /\ debt[d].accrued + PaidInterest(d) = 0
        BY <1>1 DEF Books, Balanced
      <3>2. Paid(d) \in Int /\ PaidInterest(d) \in Int
        BY PaidInt DEF Books
      <3>3. debt'[d] = new
        BY <1>2 DEF TypeOK
      <3> QED
        BY <1>3, <1>6, <2>1, <3>1, <3>2, <3>3 DEF Balanced
    <2>2. CASE e # d
      <3>1. /\ debt'[e] = debt[e] /\ Paid(e)' = Paid(e)
            /\ PaidInterest(e)' = PaidInterest(e)
        BY <1>2, <1>7, <2>2 DEF TypeOK
      <3> QED
        BY <3>1 DEF Books
    <2> QED
      BY <2>1, <2>2
  <1>10. LinksKnown'
    BY <1>1, <1>2, <1>3, <1>4, <1>5 DEF Books, LinksKnown, TypeOK, LinkRow
  <1> QED
    BY <1>8, <1>9, <1>10 DEF Books

\* What a deletion makes of a row: it gives back what the link took if the
\* link pays this debt and the user sees it, and it may delete the row.
LEMMA CleanedFields ==
    ASSUME TypeOK, NEW u \in Users, NEW t \in Transactions, NEW d \in Debts,
           NEW new, new = Cleaned(u, t, d)
    PROVE  /\ new.state \in {debt[d].state, "deleted"}
           /\ new.principal = debt[d].principal
           /\ new.outstanding =
                IF link[t].debt = d /\ DebtVisible(u, d)
                THEN debt[d].outstanding + link[t].principal
                ELSE debt[d].outstanding
           /\ new.accrued =
                IF link[t].debt = d /\ DebtVisible(u, d)
                THEN debt[d].accrued + link[t].interest
                ELSE debt[d].accrued
           /\ new.closed \in {debt[d].closed, FALSE}
  <1> DEFINE row == IF link[t].debt = d /\ DebtVisible(u, d)
                    THEN AfterRefund(debt[d], link[t])
                    ELSE debt[d]
  <1>1. Row(debt[d]) /\ link[t] \in LinkRow
    BY DEF TypeOK, Row
  <1>2. /\ row \in DebtRow
        /\ row.state = debt[d].state
        /\ row.principal = debt[d].principal
        /\ row.outstanding =
             IF link[t].debt = d /\ DebtVisible(u, d)
             THEN debt[d].outstanding + link[t].principal
             ELSE debt[d].outstanding
        /\ row.accrued =
             IF link[t].debt = d /\ DebtVisible(u, d)
             THEN debt[d].accrued + link[t].interest
             ELSE debt[d].accrued
        /\ row.closed \in {debt[d].closed, FALSE}
    BY <1>1, AfterRefundRow DEF Row
  <1>3. new = row \/ new = [row EXCEPT !.state = "deleted"]
    BY DEF Cleaned
  <1> HIDE DEF row
  <1>4. CASE new = row
    BY <1>2, <1>4
  <1>5. CASE new = [row EXCEPT !.state = "deleted"]
    BY <1>2, <1>5 DEF DebtRow
  <1> QED
    BY <1>3, <1>4, <1>5

LEMMA BooksDeleteTransaction ==
    ASSUME TypeOK, Books, NEW u \in Users, NEW t \in Transactions,
           DeleteTransaction(u, t)
    PROVE  Books'
  <1>1. \A e \in Debts : debt'[e] = Cleaned(u, t, e)
    BY DEF DeleteTransaction
  <1>2. \A e \in Debts :
          /\ debt'[e].state \in {debt[e].state, "deleted"}
          /\ debt'[e].principal = debt[e].principal
          /\ debt'[e].outstanding =
               IF link[t].debt = e /\ DebtVisible(u, e)
               THEN debt[e].outstanding + link[t].principal
               ELSE debt[e].outstanding
          /\ debt'[e].accrued =
               IF link[t].debt = e /\ DebtVisible(u, e)
               THEN debt[e].accrued + link[t].interest
               ELSE debt[e].accrued
    <2> SUFFICES ASSUME NEW e \in Debts
                 PROVE  /\ debt'[e].state \in {debt[e].state, "deleted"}
                        /\ debt'[e].principal = debt[e].principal
                        /\ debt'[e].outstanding =
                             IF link[t].debt = e /\ DebtVisible(u, e)
                             THEN debt[e].outstanding + link[t].principal
                             ELSE debt[e].outstanding
                        /\ debt'[e].accrued =
                             IF link[t].debt = e /\ DebtVisible(u, e)
                             THEN debt[e].accrued + link[t].interest
                             ELSE debt[e].accrued
      OBVIOUS
    <2>1. debt'[e] = Cleaned(u, t, e)
      BY <1>1
    <2> QED
      BY <2>1, CleanedFields
  <1>3. CASE ~(link[t].debt # None /\ debt[link[t].debt].user = u)
    <2>1. link' = link
      BY <1>3 DEF DeleteTransaction, TypeOK
    <2>2. \A e \in Debts : ~(link[t].debt = e /\ DebtVisible(u, e))
      BY <1>3, ConstantsAssumption DEF DebtVisible
    <2>3. \A e \in Debts : /\ debt'[e].outstanding = debt[e].outstanding
                           /\ debt'[e].accrued = debt[e].accrued
      BY <1>2, <2>2
    <2>4. \A e \in Debts :
            /\ debt'[e].state = "live" => debt[e].state = "live"
            /\ debt[e].state # "absent" => debt'[e].state # "absent"
      BY <1>2
    <2> QED
      BY <1>2, <2>1, <2>3, <2>4, BooksSameLinks
  <1>4. CASE link[t].debt # None /\ debt[link[t].debt].user = u
    <2>1. link[t].debt \in Debts /\ link[t].principal \in Int /\ link[t].interest \in Int
      BY <1>4 DEF TypeOK, LinkRow
    <2>4. PICK d \in Debts : link[t].debt = d
      BY <2>1
    <2>2. link' = [link EXCEPT ![t] = NoLink]
      BY <1>4 DEF DeleteTransaction
    <2>3. NoLink \in LinkRow /\ NoLink.debt = None
      BY DEF NoLink, LinkRow
    <2>5. /\ IsFiniteSet(PaymentsOf(d)')
          /\ Paid(d)' = Paid(d) - link[t].principal
          /\ PaidInterest(d)' = PaidInterest(d) - link[t].interest
      BY <1>4, <2>2, <2>3, <2>4, PaidLess DEF Books, PaymentsFinite
    <2>6. ASSUME NEW e \in Debts, e # d
          PROVE  /\ PaymentsOf(e)' = PaymentsOf(e)
                 /\ Paid(e)' = Paid(e) /\ PaidInterest(e)' = PaidInterest(e)
      <3>1. e # None
        BY ConstantsAssumption
      <3>2. \A s \in Transactions :
               /\ link'[s].debt = e <=> link[s].debt = e
               /\ link[s].debt = e => link'[s] = link[s]
        BY <2>2, <2>3, <2>4, <2>6, <3>1 DEF TypeOK
      <3> QED
        BY <3>2, PaidUnchanged DEF Books, PaymentsFinite
    <2>7. PaymentsFinite'
      <3> SUFFICES ASSUME NEW e \in Debts PROVE IsFiniteSet(PaymentsOf(e)')
        BY DEF PaymentsFinite
      <3>1. CASE e = d
        BY <2>5, <3>1
      <3>2. CASE e # d
        BY <2>6, <3>2 DEF Books, PaymentsFinite
      <3> QED
        BY <3>1, <3>2
    <2>8. (\A e \in Debts : Balanced(debt[e], Paid(e), PaidInterest(e)))'
      <3> SUFFICES ASSUME NEW e \in Debts, debt'[e].state = "live"
                   PROVE  /\ debt'[e].outstanding + Paid(e)' >= debt'[e].principal
                          /\ Subunits = 1 =>
                               /\ debt'[e].outstanding + Paid(e)' = debt'[e].principal
                               /\ debt'[e].accrued + PaidInterest(e)' = 0
        BY DEF Balanced
      <3>1. /\ debt[e].state = "live"
            /\ debt[e].outstanding + Paid(e) >= debt[e].principal
            /\ Subunits = 1 => /\ debt[e].outstanding + Paid(e) = debt[e].principal
                               /\ debt[e].accrued + PaidInterest(e) = 0
            /\ debt[e].outstanding \in Int /\ debt[e].principal \in Int
            /\ debt[e].accrued \in Int
            /\ Paid(e) \in Int /\ PaidInterest(e) \in Int
        BY <1>2, PaidInt DEF Books, Balanced, TypeOK, DebtRow
      <3>2. CASE e = d
        <4>1. DebtVisible(u, d)
          BY <1>4, <2>4, <3>1, <3>2 DEF DebtVisible
        <4>2. /\ debt'[e].outstanding = debt[e].outstanding + link[t].principal
              /\ debt'[e].accrued = debt[e].accrued + link[t].interest
          BY <1>2, <2>4, <3>2, <4>1
        <4> QED
          BY <1>2, <2>1, <2>5, <3>1, <3>2, <4>2
      <3>3. CASE e # d
        <4>1. debt'[e].outstanding = debt[e].outstanding /\ debt'[e].accrued = debt[e].accrued
          BY <1>2, <2>4, <3>3
        <4>2. Paid(e)' = Paid(e) /\ PaidInterest(e)' = PaidInterest(e)
          BY <2>6, <3>3
        <4> QED
          BY <1>2, <3>1, <4>1, <4>2
      <3> QED
        BY <3>2, <3>3
    <2>9. LinksKnown'
      BY <1>2, <2>2, <2>3 DEF Books, LinksKnown, TypeOK, LinkRow
    <2> QED
      BY <2>7, <2>8, <2>9 DEF Books
  <1> QED
    BY <1>3, <1>4

LEMMA BooksNext == TypeOK /\ Books /\ [Next]_vars => Books'
  <1> SUFFICES ASSUME TypeOK, Books, [Next]_vars PROVE Books'
    OBVIOUS
  <1>1. CASE CreateNext
    <2> PICK u \in Users : CreateBy(u)
      BY <1>1 DEF CreateNext
    <2>1. link' = link
      BY DEF CreateBy, CreateDebt, CreateTransaction
    <2>2. ASSUME NEW a \in Accounts, NEW d \in Debts, NEW p \in Principals,
                 NEW o \in Transactions \cup {None}, CreateDebt(u, a, d, p, o)
          PROVE  Books'
      <3>1. /\ NewDebt(u, RoundCents(p), o).outstanding = RoundCents(p)
            /\ NewDebt(u, RoundCents(p), o).principal = RoundCents(p)
            /\ NewDebt(u, RoundCents(p), o).state = "live"
            /\ NewDebt(u, RoundCents(p), o).accrued = 0
            /\ RoundCents(p) \in Int
        BY RoundInt, AmountsInt DEF NewDebt
      <3> QED
        BY <2>1, <2>2, <3>1, BooksSameLinks DEF CreateDebt, TypeOK
    <2>3. ASSUME NEW a \in Accounts, NEW t \in Transactions, NEW share \in Shares,
                 CreateTransaction(u, a, t, share)
          PROVE  Books'
      <3>1. \A d \in DOMAIN share : share[d] \in Principals
        BY DEF Shares
      <3>2. \A d \in DOMAIN share :
              /\ NewDebt(u, RoundCents(share[d]), t).outstanding
                   = RoundCents(share[d])
              /\ NewDebt(u, RoundCents(share[d]), t).principal
                   = RoundCents(share[d])
              /\ NewDebt(u, RoundCents(share[d]), t).state = "live"
              /\ NewDebt(u, RoundCents(share[d]), t).accrued = 0
              /\ RoundCents(share[d]) \in Int
        BY <3>1, RoundInt, AmountsInt DEF NewDebt
      <3> QED
        BY <2>1, <2>3, <3>2, BooksSameLinks DEF CreateTransaction, TypeOK
    <2> QED
      BY <2>2, <2>3 DEF CreateBy
  <1>2. CASE UpdateNext
    <2>1. ASSUME NEW u \in Users, NEW d \in Debts, NEW s \in Statuses,
                 UpdateDebt(u, d, s)
          PROVE  Books'
      <3> DEFINE new == AfterUpdate(debt[d], s)
      <3>1. debt[d] \in DebtRow
        BY DEF TypeOK
      <3>2. /\ new.outstanding = debt[d].outstanding
            /\ new.accrued = debt[d].accrued
            /\ new.principal = debt[d].principal
            /\ new.state = debt[d].state
        BY <3>1 DEF AfterUpdate, SetDebt, DebtRow
      <3>3. debt' = [debt EXCEPT ![d] = new] /\ link' = link
        BY <2>1 DEF UpdateDebt
      <3> HIDE DEF new
      <3> QED
        BY <3>2, <3>3, BooksSameLinks DEF TypeOK
    <2>2. ASSUME NEW u \in Users, NEW d \in Debts, DeleteDebt(u, d)
          PROVE  Books'
      BY <2>2, BooksSameLinks DEF DeleteDebt, TypeOK, DebtRow
    <2> QED
      BY <1>2, <2>1, <2>2 DEF UpdateNext
  <1>3. CASE PaymentNext
    BY <1>3, BooksRecordPayment
       DEF PaymentNext, AddPayment, Repay, Payments, AnyPayment
  <1>4. CASE DeleteNext
    BY <1>4, BooksDeleteTransaction DEF DeleteNext
  <1>5. CASE UNCHANGED vars
    <2>1. debt' = debt /\ link' = link
      BY <1>5 DEF vars
    <2> QED
      BY <2>1, BooksSameLinks DEF TypeOK
  <1> QED
    BY <1>1, <1>2, <1>3, <1>4, <1>5 DEF Next

\* When requests carry whole cents, of either sign, what a live debt owes and what
\* its payment links record make up its principal, and its interest is theirs, after
\* any sequence of requests.
THEOREM BooksBalance ==
    ASSUME Subunits = 1
    PROVE  Spec => []Conservation
  <1>1. Books => Conservation
    BY DEF Books, Balanced, Conservation
  <1> QED
    BY <1>1, BooksNext, BooksInit, TypeCorrect, PTL DEF Spec

\* With amounts of any precision a live debt owes at least what its links leave
\* of its principal, after any sequence of requests (AddPaymentTx rounds the
\* balance and the link by themselves).
THEOREM DebtsNeverUnderstated == Spec => []NeverUnderstated
  <1>1. Books => NeverUnderstated
    BY DEF Books, Balanced, NeverUnderstated
  <1> QED
    BY <1>1, BooksNext, BooksInit, TypeCorrect, PTL DEF Spec

-----------------------------------------------------------------------------
(* A debt cannot be paid off *)

\* A payment whose row is accepted leaves the debt as open as it was, and in whole
\* cents leaves something to pay.
LEMMA PaymentLeaves ==
    ASSUME NEW row, Row(row), NEW pay \in AnyPayment,
           RowAccepted(AfterPayment(row, pay))
    PROVE  /\ AfterPayment(row, pay).closed = FALSE
           /\ Subunits = 1 =>
                AfterPayment(row, pay).outstanding > 0 \/ AfterPayment(row, pay).accrued > 0
  <1> DEFINE o == row.outstanding * Subunits - Allocation(row, pay).principal
             a == row.accrued * Subunits - Allocation(row, pay).interest
             settled == o <= 0 /\ a <= 0
  <1>1. /\ o \in Int /\ a \in Int
        /\ AfterPayment(row, pay).outstanding = RoundCents(o)
        /\ AfterPayment(row, pay).accrued = RoundCents(a)
        /\ settled => AfterPayment(row, pay).status = "paid"
        /\ AfterPayment(row, pay).closed = settled
    BY AfterPaymentFields
  <1>2. AfterPayment(row, pay).status # "paid"
    BY DEF RowAccepted, DbStatus
  <1>3. ~settled
    BY <1>1, <1>2
  <1>4. Subunits = 1 => RoundCents(o) = o /\ RoundCents(a) = a
    BY <1>1, RoundExact
  <1>5. AfterPayment(row, pay).closed = FALSE
    BY <1>1, <1>3
  <1> HIDE DEF o, a
  <1>6. o > 0 \/ a > 0
    BY <1>1, <1>3
  <1> QED
    BY <1>1, <1>4, <1>5, <1>6

LEMMA ClosedNext == TypeOK /\ NeverClosed /\ [Next]_vars => NeverClosed'
  <1> SUFFICES ASSUME TypeOK, NeverClosed, [Next]_vars PROVE NeverClosed'
    OBVIOUS
  <1>1. CASE CreateNext
    <2> PICK u \in Users : CreateBy(u)
      BY <1>1 DEF CreateNext
    <2> QED
      <3>1. CASE \E a \in Accounts, d \in Debts, p \in Principals,
                    o \in Transactions \cup {None} : CreateDebt(u, a, d, p, o)
        BY <3>1 DEF CreateDebt, NewDebt, NeverClosed, TypeOK
      <3>2. CASE \E a \in Accounts, t \in Transactions, share \in Shares :
                    CreateTransaction(u, a, t, share)
        BY <3>2 DEF CreateTransaction, NewDebt, NeverClosed, TypeOK
      <3> QED
        BY <3>1, <3>2 DEF CreateBy
  <1>2. CASE UpdateNext
    <2>1. ASSUME NEW u \in Users, NEW d \in Debts, NEW s \in Statuses,
                 UpdateDebt(u, d, s)
          PROVE  NeverClosed'
      <3> DEFINE new == AfterUpdate(debt[d], s)
      <3>1. /\ new.status = s
            /\ new.closed = (debt[d].closed \/ s = "paid")
        BY DEF AfterUpdate, SetDebt, TypeOK, DebtRow
      <3>2. RowAccepted(new) /\ debt' = [debt EXCEPT ![d] = new]
        BY <2>1 DEF UpdateDebt
      <3> HIDE DEF new
      <3>3. s # "paid"
        BY <3>1, <3>2 DEF RowAccepted, DbStatus
      <3> QED
        BY <3>1, <3>2, <3>3 DEF NeverClosed, TypeOK
    <2>2. ASSUME NEW u \in Users, NEW d \in Debts, DeleteDebt(u, d)
          PROVE  NeverClosed'
      BY <2>2 DEF DeleteDebt, NeverClosed, TypeOK, DebtRow
    <2> QED
      BY <1>2, <2>1, <2>2 DEF UpdateNext
  <1>3. CASE PaymentNext
    <2>1. ASSUME NEW u \in Users, NEW d \in Debts, NEW t \in Transactions,
                 NEW pay \in AnyPayment, RecordPayment(u, d, t, pay)
          PROVE  NeverClosed'
      <3> DEFINE new == AfterPayment(debt[d], pay)
      <3>1. Row(debt[d])
        BY DEF TypeOK, Row
      <3>2. RowAccepted(new) /\ debt' = [debt EXCEPT ![d] = new]
        BY <2>1 DEF RecordPayment
      <3>3. new.closed = FALSE
        BY <3>1, <3>2, PaymentLeaves
      <3> HIDE DEF new
      <3> QED
        BY <3>2, <3>3 DEF NeverClosed, TypeOK
    <2> QED
      BY <1>3, <2>1 DEF PaymentNext, AddPayment, Repay, Payments, AnyPayment
  <1>4. CASE DeleteNext
    <2> PICK u \in Users, t \in Transactions : DeleteTransaction(u, t)
      BY <1>4 DEF DeleteNext
    <2> SUFFICES ASSUME NEW e \in Debts PROVE ~debt'[e].closed
      BY DEF NeverClosed
    <2>1. debt'[e] = Cleaned(u, t, e)
      BY DEF DeleteTransaction
    <2>2. debt'[e].closed \in {debt[e].closed, FALSE}
      BY <2>1, CleanedFields
    <2> QED
      BY <2>2 DEF NeverClosed
  <1>5. CASE UNCHANGED vars
    BY <1>5 DEF vars, NeverClosed
  <1> QED
    BY <1>1, <1>2, <1>3, <1>4, <1>5 DEF Next

\* No debt is ever closed, whatever the amounts, by payments, refunds or updates:
\* the row that would close it has a status the schema lacks (AddPaymentTx, Update).
THEOREM DebtsNeverClose == Spec => []NeverClosed
  <1>1. Init => NeverClosed
    BY DEF Init, NeverClosed, NoDebt
  <1> QED
    BY <1>1, ClosedNext, TypeCorrect, PTL DEF Spec

\* When requests carry whole cents, of either sign, every payment that is recorded
\* leaves principal or interest to pay: one that would leave nothing is refused with
\* its transaction (AddPaymentTx).
THEOREM DebtsNeverSettle ==
    ASSUME Subunits = 1
    PROVE  Spec => NeverPaidOff
  <1> DEFINE Leaves == \A d \in Debts, t \in Transactions :
                         link[t].debt # d /\ link'[t].debt = d =>
                           debt'[d].outstanding > 0 \/ debt'[d].accrued > 0
  <1>1. TypeOK /\ [Next]_vars => [Leaves]_vars
    <2> SUFFICES ASSUME TypeOK, Next, NEW d \in Debts, NEW t \in Transactions,
                        link[t].debt # d, link'[t].debt = d
                 PROVE  debt'[d].outstanding > 0 \/ debt'[d].accrued > 0
      OBVIOUS
    <2>1. CASE CreateNext \/ UpdateNext
      BY <2>1 DEF CreateNext, CreateBy, CreateDebt, CreateTransaction, UpdateNext,
         UpdateDebt, DeleteDebt
    <2>2. CASE PaymentNext
      <3>1. PICK u \in Users, e \in Debts, s \in Transactions, pay \in AnyPayment :
              RecordPayment(u, e, s, pay)
        BY <2>2 DEF PaymentNext, AddPayment, Repay, Payments, AnyPayment
      <3> DEFINE new == AfterPayment(debt[e], pay)
                 l == PaymentLink(e, debt[e], pay)
      <3>2. /\ RowAccepted(new) /\ debt' = [debt EXCEPT ![e] = new]
            /\ link' = [link EXCEPT ![s] = l] /\ l.debt = e
        BY <3>1 DEF RecordPayment, PaymentLink
      <3>3. Row(debt[e])
        BY DEF TypeOK, Row
      <3>4. new.outstanding > 0 \/ new.accrued > 0
        BY <3>2, <3>3, PaymentLeaves
      <3> HIDE DEF new, l
      <3> QED
        BY <3>2, <3>4 DEF TypeOK
    <2>3. CASE DeleteNext
      <3> PICK u \in Users, s \in Transactions : DeleteTransaction(u, s)
        BY <2>3 DEF DeleteNext
      <3> QED
        BY ConstantsAssumption DEF DeleteTransaction, NoLink, TypeOK
    <2> QED
      BY <2>1, <2>2, <2>3 DEF Next
  <1> QED
    BY <1>1, TypeCorrect, PTL DEF Spec, NeverPaidOff

-----------------------------------------------------------------------------
(* What a step may do *)

\* A debt that was deleted is never changed again.
THEOREM DeletedStayFrozen == Spec => DeletedDebtsFrozen
  <1>1. TypeOK /\ [Next]_vars =>
          [\A d \in Debts : debt[d].state = "deleted" => debt'[d] = debt[d]]_vars
    <2> SUFFICES ASSUME TypeOK, Next, NEW d \in Debts, debt[d].state = "deleted"
                 PROVE  debt'[d] = debt[d]
      OBVIOUS
    <2>1. CASE CreateNext
      BY <2>1 DEF CreateNext, CreateBy, CreateDebt, CreateTransaction, TypeOK
    <2>2. CASE UpdateNext
      BY <2>2 DEF UpdateNext, UpdateDebt, DeleteDebt, DebtVisible, TypeOK, DebtRow
    <2>3. CASE PaymentNext
      BY <2>3 DEF PaymentNext, AddPayment, Repay, RecordPayment, DebtVisible, TypeOK
    <2>4. CASE DeleteNext
      <3> PICK u \in Users, t \in Transactions : DeleteTransaction(u, t)
        BY <2>4 DEF DeleteNext
      <3>1. Cleaned(u, t, d) = debt[d]
        BY DEF Cleaned, DebtVisible
      <3> QED
        BY <3>1 DEF DeleteTransaction
    <2> QED
      BY <2>1, <2>2, <2>3, <2>4 DEF Next
  <1> QED
    BY <1>1, TypeCorrect, PTL DEF Spec, DeletedDebtsFrozen

\* Whoever deletes a transaction keeps neither a payment link on it nor a live debt
\* it originated, whatever other users of the account have on it.
THEOREM DeletionsCleanUp == Spec => DeletionCleansUp
  <1> DEFINE Clean ==
        \A u \in Users, t \in Transactions :
          DeleteTransaction(u, t) =>
            \A d \in Debts : debt'[d].user = u =>
              /\ link'[t].debt # d
              /\ debt'[d].origin = t => debt'[d].state # "live"
  <1>1. TypeOK => Clean
    <2> SUFFICES ASSUME TypeOK, NEW u \in Users, NEW t \in Transactions,
                        DeleteTransaction(u, t), NEW d \in Debts, debt'[d].user = u
                 PROVE  /\ link'[t].debt # d
                        /\ debt'[d].origin = t => debt'[d].state # "live"
      OBVIOUS
    <2> DEFINE row == IF link[t].debt = d /\ DebtVisible(u, d)
                      THEN AfterRefund(debt[d], link[t])
                      ELSE debt[d]
    <2>1. Row(debt[d]) /\ link[t] \in LinkRow
      BY DEF TypeOK, Row
    <2>2. row \in DebtRow /\ row.user = debt[d].user
      BY <2>1, AfterRefundRow DEF Row
    <2>3. debt'[d] = IF row.state = "live" /\ row.user = u /\ row.origin = t
                     THEN [row EXCEPT !.state = "deleted"]
                     ELSE row
      BY DEF DeleteTransaction, Cleaned
    <2> HIDE DEF row
    <2>4. debt[d].user = u
      BY <2>2, <2>3 DEF DebtRow
    <2>5. debt'[d].origin = t => debt'[d].state # "live"
      BY <2>2, <2>3 DEF DebtRow
    <2>6. link'[t].debt # d
      BY <2>4, ConstantsAssumption DEF DeleteTransaction, TypeOK, NoLink
    <2> QED
      BY <2>5, <2>6
  <1> QED
    BY <1>1, TypeCorrect, PTL DEF Spec, DeletionCleansUp
=============================================================================
