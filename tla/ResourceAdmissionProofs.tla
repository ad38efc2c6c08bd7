----------------------- MODULE ResourceAdmissionProofs -----------------------
(***************************************************************************)
(* Proofs about ResourceAdmission, for any callers, models and sizes.      *)
(***************************************************************************)
EXTENDS ResourceAdmission, FiniteSetTheorems, WellFoundedInduction, TLAPS

-----------------------------------------------------------------------------
(* Sums over finite sets.  A family of subsets that has the empty set and  *)
(* is closed under adding an element has the whole set: induction in a     *)
(* form without a predicate.                                               *)

LEMMA LeastNumber ==
  ASSUME NEW T \in SUBSET Nat, T # {}
  PROVE  \E x \in T : \A y \in T : x <= y
<1> DEFINE R == {pair \in Nat \X Nat : pair[1] < pair[2]}
<1>1. IsWellFoundedOn(R, Nat)
  BY NatLessThanWellFounded, Zenon DEF OpToRel
<1>2. PICK x \in T : \A y \in T : ~(<<y, x>> \in R)
  <2> HIDE DEF R
  <2> QED BY <1>1, WFMin
<1>3. ASSUME NEW y \in T PROVE x <= y
  <2>1. x \in Nat /\ y \in Nat /\ <<y, x>> \notin R
    BY <1>2
  <2>2. ~(y < x)
    BY <2>1
  <2> QED BY <2>1, <2>2
<1> QED BY <1>3

LEMMA FamilyInduction ==
  ASSUME NEW S, IsFiniteSet(S), NEW G \in SUBSET (SUBSET S), {} \in G,
         \A T \in G : \A x \in S : T \cup {x} \in G
  PROVE  G = SUBSET S
<1> DEFINE Bad == {n \in Nat : \E T \in (SUBSET S) \ G : Cardinality(T) = n}
<1>1. ASSUME NEW T \in SUBSET S PROVE IsFiniteSet(T) /\ Cardinality(T) \in Nat
  BY FS_Subset, FS_CardinalityType
<1>2. ASSUME Bad # {} PROVE FALSE
  <2>1. PICK n \in Bad : \A k \in Bad : n <= k
    BY <1>2, LeastNumber
  <2>2. PICK T \in (SUBSET S) \ G : Cardinality(T) = n
    BY <2>1
  <2>3. PICK x : x \in T
    BY <2>2
  <2>4. Cardinality(T \ {x}) = Cardinality(T) - 1 /\ Cardinality(T \ {x}) \in Nat
    BY <1>1, <2>2, <2>3, FS_RemoveElement
  <2>5. T \ {x} \in G
    <3>1. ASSUME T \ {x} \notin G PROVE FALSE
      <4>1. Cardinality(T \ {x}) \in Bad
        BY <2>2, <2>4, <3>1
      <4>2. n \in Nat /\ Cardinality(T \ {x}) < n
        BY <2>1, <2>2, <2>4
      <4>3. n <= Cardinality(T \ {x})
        BY <2>1, <4>1
      <4> HIDE DEF Bad
      <4> QED BY <4>2, <4>3, <2>4
    <3> QED BY <3>1
  <2>6. (T \ {x}) \cup {x} = T /\ x \in S
    BY <2>2, <2>3
  <2> QED BY <2>2, <2>5, <2>6
<1>3. ASSUME NEW T \in (SUBSET S) \ G PROVE FALSE
  <2>1. Cardinality(T) \in Bad
    BY <1>1, <1>3
  <2> QED BY <1>2, <2>1
<1> QED BY <1>3

(* A function that adds f up, in whatever order the elements are taken.    *)
Adds(g, f, S) ==
    /\ g \in [SUBSET S -> Nat]
    /\ g[{}] = 0
    /\ \A T \in SUBSET S : \A x \in T : g[T] = f[x] + g[T \ {x}]

LEMMA AddsExists ==
  ASSUME NEW S, IsFiniteSet(S), NEW f, \A x \in S : f[x] \in Nat
  PROVE  \E g : Adds(g, f, S)
<1> DEFINE G == {T \in SUBSET S : \E g : Adds(g, f, T)}
<1>1. {} \in G
  <2>1. Adds([T \in SUBSET {} |-> 0], f, {})
    BY DEF Adds
  <2> QED BY <2>1
<1>2. ASSUME NEW T \in G, NEW x \in S PROVE T \cup {x} \in G
  <2>1. CASE x \in T
    <3>1. T \cup {x} = T
      BY <2>1
    <3> QED BY <3>1
  <2>2. CASE x \notin T
    <3>1. PICK g : Adds(g, f, T)
      BY <1>2
    <3> DEFINE V == T \cup {x}
               h == [U \in SUBSET V |-> IF x \in U THEN f[x] + g[U \ {x}] ELSE g[U]]
    <3>2. ASSUME NEW U \in SUBSET V PROVE U \ {x} \in SUBSET T /\ (x \notin U => U \in SUBSET T)
      OBVIOUS
    <3>3. ASSUME NEW U \in SUBSET T PROVE g[U] \in Nat
      BY <3>1 DEF Adds
    <3>4. h \in [SUBSET V -> Nat]
      BY <3>2, <3>3
    <3>5. h[{}] = 0
      BY <3>1 DEF Adds
    <3>6. ASSUME NEW U \in SUBSET V, NEW y \in U PROVE h[U] = f[y] + h[U \ {y}]
      <4>0. U \ {y} \in SUBSET V
        BY <3>6
      <4>1. CASE y = x
        <5>1. h[U] = f[x] + g[U \ {x}] /\ h[U \ {y}] = g[U \ {x}]
          BY <4>0, <4>1, <3>6
        <5> QED BY <5>1, <4>1
      <4>2. CASE y # x /\ x \notin U
        <5>1. h[U] = g[U] /\ h[U \ {y}] = g[U \ {y}]
          BY <4>0, <4>2
        <5>2. g[U] = f[y] + g[U \ {y}]
          BY <3>1, <3>2, <4>2, <3>6 DEF Adds
        <5> QED BY <5>1, <5>2
      <4>3. CASE y # x /\ x \in U
        <5>1. h[U] = f[x] + g[U \ {x}] /\ h[U \ {y}] = f[x] + g[(U \ {y}) \ {x}]
          BY <4>0, <4>3
        <5>2. (U \ {y}) \ {x} = (U \ {x}) \ {y} /\ y \in U \ {x} /\ U \ {x} \in SUBSET T
          BY <3>2, <4>3, <3>6
        <5>3. g[U \ {x}] = f[y] + g[(U \ {x}) \ {y}]
          BY <3>1, <5>2 DEF Adds
        <5>4. f[x] \in Nat /\ f[y] \in Nat /\ g[(U \ {x}) \ {y}] \in Nat
          BY <5>2, <3>3
        <5>5. \A a, b, c \in Nat : a + (b + c) = b + (a + c)
          OBVIOUS
        <5>6. f[x] + (f[y] + g[(U \ {x}) \ {y}]) = f[y] + (f[x] + g[(U \ {x}) \ {y}])
          BY <5>4, <5>5, Zenon
        <5>7. h[U] = f[x] + (f[y] + g[(U \ {x}) \ {y}])
          BY <5>1, <5>3, Zenon
        <5>8. h[U \ {y}] = f[x] + g[(U \ {x}) \ {y}]
          BY <5>1, <5>2, Zenon
        <5> QED BY <5>6, <5>7, <5>8, Zenon
      <4> QED BY <4>1, <4>2, <4>3
    <3> HIDE DEF h
    <3>7. Adds(h, f, V)
      BY <3>4, <3>5, <3>6 DEF Adds
    <3> QED BY <3>7
  <2> QED BY <2>1, <2>2
<1>3. G \in SUBSET (SUBSET S)
  OBVIOUS
<1> HIDE DEF G
<1>4. G = SUBSET S
  BY <1>1, <1>2, <1>3, FamilyInduction
<1>5. S \in G
  BY <1>4
<1> QED BY <1>5 DEF G

LEMMA SumIs ==
  ASSUME NEW S, IsFiniteSet(S), NEW f, \A x \in S : f[x] \in Nat,
         NEW g, Adds(g, f, S)
  PROVE  SumFunctionOnSet(f, S) = g[S]
<1> DEFINE Pick(s) == CHOOSE x \in s : TRUE
           Rec(h) == h = [s \in SUBSET S |-> IF s = {} THEN 0 ELSE f[Pick(s)] + h[s \ {Pick(s)}]]
<1>1. ASSUME NEW s \in SUBSET S, s # {} PROVE Pick(s) \in s
  BY <1>1
<1>2. Rec(g)
  <2> HIDE DEF Pick
  <2>1. ASSUME NEW s \in SUBSET S
        PROVE  g[s] = IF s = {} THEN 0 ELSE f[Pick(s)] + g[s \ {Pick(s)}]
    BY <1>1 DEF Adds
  <2> QED BY <2>1 DEF Adds
<1>3. PICK h : Rec(h) /\ SumFunctionOnSet(f, S) = h[S]
  <2>1. \E h : Rec(h) /\ SumFunctionOnSet(f, S) = h[S]
    BY <1>2, Zenon DEF SumFunctionOnSet, FoldFunctionOnSet, MapThenFoldSet
  <2> QED BY <2>1
<1> DEFINE Ranked == {n \in Nat : \E s \in SUBSET S : h[s] # g[s] /\ Cardinality(s) = n}
<1>4. ASSUME Ranked # {} PROVE FALSE
  <2>1. PICK n \in Ranked : \A k \in Ranked : n <= k
    BY <1>4, LeastNumber
  <2>2. PICK s \in SUBSET S : h[s] # g[s] /\ Cardinality(s) = n
    BY <2>1
  <2> DEFINE x == Pick(s)
  <2>3. s # {}
    <3> HIDE DEF Pick
    <3> QED BY <1>2, <1>3, <2>2
  <2>4. x \in s
    BY <1>1, <2>3
  <2>5. h[s] = f[x] + h[s \ {x}] /\ g[s] = f[x] + g[s \ {x}]
    <3> HIDE DEF Pick
    <3> QED BY <1>2, <1>3, <2>3
  <2> HIDE DEF x, Pick
  <2>6. IsFiniteSet(s) /\ Cardinality(s) \in Nat
    BY FS_Subset, FS_CardinalityType
  <2>7. Cardinality(s \ {x}) = Cardinality(s) - 1 /\ Cardinality(s \ {x}) \in Nat
    BY <2>4, <2>6, FS_RemoveElement, FS_CardinalityType
  <2>8. h[s \ {x}] # g[s \ {x}]
    BY <2>2, <2>5
  <2>9. Cardinality(s \ {x}) \in Ranked
    BY <2>7, <2>8
  <2>10. n <= Cardinality(s \ {x})
    BY <2>1, <2>9
  <2> HIDE DEF Ranked
  <2> QED BY <2>2, <2>6, <2>7, <2>10
<1>5. Cardinality(S) \in Nat /\ S \in SUBSET S
  BY FS_CardinalityType
<1>6. h[S] = g[S]
  <2> HIDE DEF Rec, Pick
  <2> QED BY <1>4, <1>5
<1> QED BY <1>3, <1>6

LEMMA SumWithin ==
  ASSUME NEW S, IsFiniteSet(S), NEW f, \A x \in S : f[x] \in Nat,
         NEW g, Adds(g, f, S), NEW T \in SUBSET S
  PROVE  SumFunctionOnSet(f, T) = g[T]
<1> DEFINE h == [U \in SUBSET T |-> g[U]]
<1>1. Adds(h, f, T)
  <2>1. ASSUME NEW U \in SUBSET T, NEW x \in U PROVE h[U] = f[x] + h[U \ {x}]
    <3>1. U \in SUBSET S /\ U \ {x} \in SUBSET T
      OBVIOUS
    <3>2. g[U] = f[x] + g[U \ {x}]
      BY <3>1 DEF Adds
    <3> QED BY <3>1, <3>2
  <2>2. h \in [SUBSET T -> Nat] /\ h[{}] = 0
    BY DEF Adds
  <2> QED BY <2>1, <2>2 DEF Adds
<1>2. IsFiniteSet(T) /\ \A x \in T : f[x] \in Nat
  BY FS_Subset
<1>3. SumFunctionOnSet(f, T) = h[T]
  <2> HIDE DEF h
  <2> QED BY <1>1, <1>2, SumIs
<1> QED BY <1>3

LEMMA SumNat ==
  ASSUME NEW S, IsFiniteSet(S), NEW f, \A x \in S : f[x] \in Nat
  PROVE  SumFunctionOnSet(f, S) \in Nat
<1>1. PICK g : Adds(g, f, S)
  BY AddsExists
<1>2. SumFunctionOnSet(f, S) = g[S]
  BY <1>1, SumIs
<1> QED BY <1>1, <1>2 DEF Adds

LEMMA SumNone ==
  ASSUME NEW f
  PROVE  SumFunctionOnSet(f, {}) = 0
<1>1. PICK g : Adds(g, f, {})
  BY AddsExists, FS_EmptySet
<1>2. SumFunctionOnSet(f, {}) = g[{}]
  BY <1>1, SumIs, FS_EmptySet
<1> QED BY <1>1, <1>2 DEF Adds

LEMMA SumRemove ==
  ASSUME NEW S, IsFiniteSet(S), NEW f, \A x \in S : f[x] \in Nat, NEW x \in S
  PROVE  SumFunctionOnSet(f, S) = f[x] + SumFunctionOnSet(f, S \ {x})
<1>1. PICK g : Adds(g, f, S)
  BY AddsExists
<1>2. SumFunctionOnSet(f, S) = g[S]
  BY <1>1, SumIs
<1>3. SumFunctionOnSet(f, S \ {x}) = g[S \ {x}]
  BY <1>1, SumWithin
<1>4. g[S] = f[x] + g[S \ {x}]
  BY <1>1 DEF Adds
<1> QED BY <1>2, <1>3, <1>4

(* The sums of disjoint sets add up.                                       *)
LEMMA SumUnion ==
  ASSUME NEW S, IsFiniteSet(S), NEW f, \A x \in S : f[x] \in Nat,
         NEW A \in SUBSET S, NEW B \in SUBSET S, A \cap B = {}
  PROVE  SumFunctionOnSet(f, A \cup B) = SumFunctionOnSet(f, A) + SumFunctionOnSet(f, B)
<1>1. PICK g : Adds(g, f, S)
  BY AddsExists
<1> DEFINE G == {V \in SUBSET B : g[A \cup V] = g[A] + g[V]}
<1>2. {} \in G
  <2>1. A \cup {} = A /\ g[A] \in Nat /\ g[{}] = 0
    BY <1>1 DEF Adds
  <2>2. g[A] = g[A] + 0
    BY <2>1
  <2> QED BY <2>1, <2>2
<1>3. ASSUME NEW V \in G, NEW x \in B PROVE V \cup {x} \in G
  <2>1. CASE x \in V
    <3>1. V \cup {x} = V
      BY <2>1
    <3> QED BY <3>1
  <2>2. CASE x \notin V
    <3> DEFINE P == V \cup {x}
               Q == A \cup P
    <3>1. /\ P \in SUBSET S /\ P \ {x} = V /\ x \in P
          /\ Q \in SUBSET S /\ Q \ {x} = A \cup V /\ x \in Q
          /\ P \in SUBSET B
      BY <1>3, <2>2
    <3> HIDE DEF P, Q
    <3>2. g[P] = f[x] + g[V] /\ g[Q] = f[x] + g[A \cup V]
      <4>1. \A T \in SUBSET S : \A y \in T : g[T] = f[y] + g[T \ {y}]
        BY <1>1 DEF Adds
      <4>2. g[P] = f[x] + g[P \ {x}] /\ g[Q] = f[x] + g[Q \ {x}]
        BY <3>1, <4>1
      <4> QED BY <3>1, <4>2, Zenon
    <3>3. g[A \cup V] = g[A] + g[V] /\ V \in SUBSET S
      BY <1>3
    <3>4. f[x] \in Nat /\ g[A] \in Nat /\ g[V] \in Nat
      BY <1>1, <3>3 DEF Adds
    <3>5. \A a, b, c \in Nat : a + (b + c) = b + (a + c)
      OBVIOUS
    <3>6. f[x] + (g[A] + g[V]) = g[A] + (f[x] + g[V])
      BY <3>4, <3>5, Zenon
    <3>7. g[Q] = g[A] + g[P]
      BY <3>2, <3>3, <3>6, Zenon
    <3> QED BY <3>1, <3>7 DEF P, Q
  <2> QED BY <2>1, <2>2
<1>4. G \in SUBSET (SUBSET B) /\ IsFiniteSet(B)
  BY FS_Subset
<1> HIDE DEF G
<1>5. B \in G
  <2>1. G = SUBSET B
    BY <1>2, <1>3, <1>4, FamilyInduction
  <2> QED BY <2>1
<1>6. g[A \cup B] = g[A] + g[B]
  BY <1>5 DEF G
<1>7. A \cup B \in SUBSET S
  OBVIOUS
<1> QED BY <1>1, <1>6, <1>7, SumWithin

(* Less is held, less is taken.                                            *)
LEMMA SumGrows ==
  ASSUME NEW S, IsFiniteSet(S), NEW f, \A x \in S : f[x] \in Nat,
         NEW A \in SUBSET S, NEW B \in SUBSET A
  PROVE  SumFunctionOnSet(f, B) <= SumFunctionOnSet(f, A)
<1>1. B \in SUBSET S /\ A \ B \in SUBSET S /\ B \cap (A \ B) = {} /\ B \cup (A \ B) = A
  OBVIOUS
<1>2. SumFunctionOnSet(f, A) = SumFunctionOnSet(f, B) + SumFunctionOnSet(f, A \ B)
  BY <1>1, SumUnion
<1>3. SumFunctionOnSet(f, B) \in Nat /\ SumFunctionOnSet(f, A \ B) \in Nat
  BY <1>1, SumNat, FS_Subset
<1> QED BY <1>2, <1>3

LEMMA SumSame ==
  ASSUME NEW S, IsFiniteSet(S), NEW f, \A x \in S : f[x] \in Nat,
         NEW h, \A x \in S : h[x] = f[x]
  PROVE  SumFunctionOnSet(h, S) = SumFunctionOnSet(f, S)
<1>1. PICK g : Adds(g, f, S)
  BY AddsExists
<1>2. Adds(g, h, S)
  BY <1>1 DEF Adds
<1>3. \A x \in S : h[x] \in Nat
  OBVIOUS
<1> QED BY <1>1, <1>2, <1>3, SumIs

LEMMA SumZero ==
  ASSUME NEW S, IsFiniteSet(S), NEW f, \A x \in S : f[x] = 0
  PROVE  SumFunctionOnSet(f, S) = 0
<1>1. Adds([T \in SUBSET S |-> 0], f, S)
  BY DEF Adds
<1>2. \A x \in S : f[x] \in Nat
  OBVIOUS
<1> DEFINE z == [T \in SUBSET S |-> 0]
<1>3. SumFunctionOnSet(f, S) = z[S]
  <2> HIDE DEF z
  <2> QED BY <1>1, <1>2, SumIs DEF z
<1> QED BY <1>3

-----------------------------------------------------------------------------
(* Type correctness.                                                       *)

LEMMA UsedNat ==
  ASSUME TypeOK
  PROVE  Used \in Nat
<1> DEFINE part == [s \in Scope |-> SumFunctionOnSet(Size, loaded[s])]
<1>1. ASSUME NEW s \in Scope PROVE part[s] \in Nat
  <2>1. loaded[s] \in SUBSET Model
    BY DEF TypeOK
  <2>2. IsFiniteSet(loaded[s]) /\ \A m \in loaded[s] : Size[m] \in Nat
    BY <2>1, FS_Subset, AdmissionAssumption
  <2> QED BY <2>2, SumNat
<1>2. IsFiniteSet(Scope) /\ DOMAIN part = Scope
  BY AdmissionAssumption
<1>3. Used = SumFunctionOnSet(part, Scope)
  BY <1>2 DEF Used, SumFunction
<1> HIDE DEF part
<1> QED BY <1>1, <1>2, <1>3, SumNat

LEMMA InitTypeOK == Init => TypeOK
<1> SUFFICES ASSUME Init PROVE TypeOK
  OBVIOUS
<1>1. lapsed \in BOOLEAN
  BY DEF Init
<1>2. reservations \in [Scope -> [Model -> Reservation]]
  BY AdmissionAssumption DEF Init, Reservation, NoReservation
<1>3. \A s \in Scope, m \in Model :
        reservations[s][m].count = 0 <=> reservations[s][m].bytes = 0
  BY DEF Init, NoReservation
<1> QED BY <1>1, <1>2, <1>3 DEF Init, TypeOK, Phase

LEMMA CandidateNat ==
  ASSUME TypeOK, NEW r \in Request, pc[r] # "idle"
  PROVE  CandidateBytes(r) \in Nat
  BY AdmissionAssumption DEF TypeOK, CandidateBytes

LEMMA StepTypeOK == TypeOK /\ [Next]_vars => TypeOK'
<1> SUFFICES ASSUME TypeOK, [Next]_vars PROVE TypeOK'
  OBVIOUS
<1> USE AdmissionAssumption
<1>1. ASSUME NEW r \in Request, NEW m \in Model, Begin(r, m) PROVE TypeOK'
  BY <1>1 DEF TypeOK, Begin, Goto, Phase
<1>2. ASSUME NEW r \in Request, Probe(r) PROVE TypeOK'
  BY <1>2, UsedNat DEF TypeOK, Probe, Goto, Phase
<1>3. ASSUME NEW r \in Request, Allow(r) PROVE TypeOK'
  <2>1. CandidateBytes(r) \in Nat
    BY <1>3, CandidateNat DEF Allow
  <2> QED BY <1>3, <2>1 DEF TypeOK, Allow, Goto, Phase
<1>4. ASSUME NEW r \in Request, Busy(r) \/ Deny(r) \/ Finish(r) PROVE TypeOK'
  BY <1>4 DEF TypeOK, Busy, Deny, Finish, Goto, Phase, call
<1>5. ASSUME NEW s \in Scope, NEW m \in Model, NEW entry \in Reservation,
             entry.count = 0 <=> entry.bytes = 0,
             reservations' = [reservations EXCEPT ![s][m] = entry]
      PROVE  /\ reservations' \in [Scope -> [Model -> Reservation]]
             /\ \A t \in Scope, n \in Model :
                  reservations'[t][n].count = 0 <=> reservations'[t][n].bytes = 0
  BY <1>5 DEF TypeOK
<1>6. ASSUME NEW r \in Request, Reserve(r) PROVE TypeOK'
  <2> DEFINE s == ScopeOf[r]
             m == want[r]
  <2>1. s \in Scope /\ m \in Model
    BY <1>6 DEF Reserve, TypeOK
  <2>2. reservations[s][m] \in Reservation
    BY <2>1 DEF TypeOK
  <2>3. \/ UNCHANGED reservations
        \/ \E entry \in Reservation :
             /\ entry.count = 0 <=> entry.bytes = 0
             /\ reservations' = [reservations EXCEPT ![s][m] = entry]
    <3>1. CASE sawLoaded[r]
      BY <1>6, <3>1 DEF Reserve
    <3>2. CASE ~sawLoaded[r] /\ Reserved(s, m)
      <4> DEFINE entry == [reservations[s][m] EXCEPT !.count = @ + 1]
      <4>1. /\ reservations[s][m].count < MaxCount
            /\ reservations' = [reservations EXCEPT ![s][m].count = @ + 1]
        BY <1>6, <3>2 DEF Reserve
      <4>2. reservations' = [reservations EXCEPT ![s][m] = entry]
        BY <4>1
      <4>3. entry \in Reservation /\ entry.count # 0 /\ entry.bytes # 0
        <5>1. /\ reservations[s][m].bytes \in Nat /\ reservations[s][m].count \in 0..MaxCount
              /\ reservations[s][m].count > 0
          BY <2>2, <3>2 DEF Reservation, Reserved
        <5>2. reservations[s][m].bytes # 0
          BY <2>1, <5>1 DEF TypeOK
        <5>3. entry = [bytes |-> reservations[s][m].bytes,
                       count |-> reservations[s][m].count + 1]
          BY <2>2 DEF Reservation
        <5>4. reservations[s][m].count + 1 \in 0..MaxCount /\ reservations[s][m].count + 1 # 0
          BY <4>1, <5>1
        <5> HIDE DEF entry
        <5> QED BY <5>1, <5>2, <5>3, <5>4 DEF Reservation
      <4> QED BY <4>2, <4>3
    <3>3. CASE ~sawLoaded[r] /\ ~Reserved(s, m)
      <4> DEFINE entry == [bytes |-> IF estimate[r] = 0 THEN 1 ELSE estimate[r],
                           count |-> 1]
      <4>1. reservations' = [reservations EXCEPT ![s][m] = entry]
        BY <1>6, <3>3 DEF Reserve
      <4>2. entry \in Reservation /\ entry.count # 0 /\ entry.bytes # 0
        BY DEF Reservation, TypeOK
      <4> QED BY <4>1, <4>2
    <3> QED BY <3>1, <3>2, <3>3
  <2>4. /\ reservations' \in [Scope -> [Model -> Reservation]]
        /\ \A t \in Scope, n \in Model :
             reservations'[t][n].count = 0 <=> reservations'[t][n].bytes = 0
    <3>1. CASE UNCHANGED reservations
      BY <3>1 DEF TypeOK
    <3>2. CASE ~UNCHANGED reservations
      BY <1>5, <2>1, <2>3, <3>2
    <3> QED BY <3>1, <3>2
  <2>5. pc' = [pc EXCEPT ![r] = "running"] /\ UNCHANGED <<call, loaded, lapsed>> /\ pc[r] = "allowed"
    BY <1>6 DEF Reserve, Goto
  <2> QED BY <2>4, <2>5 DEF TypeOK, call, Phase
<1>7. ASSUME NEW r \in Request, Return(r)
      PROVE  /\ pc' \in [Request -> Phase]
             /\ want' \in [Request -> Model \cup {NoModel}]
             /\ \A q \in Request : pc'[q] # "idle" => want'[q] \in Model
             /\ seenUsed' \in [Request -> Nat]
             /\ estimate' \in [Request -> Nat]
             /\ sawLoaded' \in [Request -> BOOLEAN]
  BY <1>7 DEF TypeOK, Return, Goto, Phase
<1>8. ASSUME NEW r \in Request, Release(r) PROVE TypeOK'
  <2> DEFINE s == ScopeOf[r]
             m == want[r]
  <2>1. s \in Scope /\ m \in Model
    BY <1>8 DEF Release, TypeOK
  <2>2. Released(reservations[s][m]) \in Reservation
        /\ (Released(reservations[s][m]).count = 0 <=> Released(reservations[s][m]).bytes = 0)
    <3>1. reservations[s][m] \in Reservation
      BY <2>1 DEF TypeOK
    <3>2. CASE reservations[s][m].count <= 1
      BY <3>2 DEF Released, Reservation, NoReservation
    <3>3. CASE ~(reservations[s][m].count <= 1)
      <4>1. reservations[s][m].count = 0 <=> reservations[s][m].bytes = 0
        BY <2>1 DEF TypeOK
      <4> QED BY <3>1, <3>3, <4>1, AdmissionAssumption DEF Released, Reservation
    <3> QED BY <3>2, <3>3
  <2>3. \/ UNCHANGED reservations
        \/ reservations' = [reservations EXCEPT ![s][m] = Released(reservations[s][m])]
    BY <1>8 DEF Release
  <2>4. /\ reservations' \in [Scope -> [Model -> Reservation]]
        /\ \A t \in Scope, n \in Model :
             reservations'[t][n].count = 0 <=> reservations'[t][n].bytes = 0
    <3>1. CASE UNCHANGED reservations
      BY <3>1 DEF TypeOK
    <3>2. CASE ~UNCHANGED reservations
      BY <1>5, <2>1, <2>2, <2>3, <3>2
    <3> QED BY <3>1, <3>2
  <2>5. Return(r) /\ loaded' = loaded /\ lapsed' = lapsed
    BY <1>8 DEF Release
  <2> QED BY <1>7, <2>4, <2>5 DEF TypeOK
<1>9. ASSUME NEW r \in Request, Crash(r) PROVE TypeOK'
  <2>1. Return(r) /\ loaded' = loaded /\ reservations' = reservations /\ lapsed' = lapsed
    BY <1>9 DEF Crash
  <2> QED BY <1>7, <2>1 DEF TypeOK
<1>10. ASSUME NEW r \in Request, Load(r) PROVE TypeOK'
  BY <1>10 DEF TypeOK, Load, call
<1>11. ASSUME NEW s \in Scope, NEW m \in Model, Unload(s, m) PROVE TypeOK'
  BY <1>11 DEF TypeOK, Unload, call
<1>12. ASSUME NEW s \in Scope, NEW m \in Model, Expire(s, m) PROVE TypeOK'
  <2>1. NoReservation \in Reservation /\ NoReservation.count = 0 /\ NoReservation.bytes = 0
    BY DEF NoReservation, Reservation
  <2>2. /\ reservations' \in [Scope -> [Model -> Reservation]]
        /\ \A t \in Scope, n \in Model :
             reservations'[t][n].count = 0 <=> reservations'[t][n].bytes = 0
    BY <1>5, <1>12, <2>1 DEF Expire
  <2> QED BY <1>12, <2>2 DEF TypeOK, Expire, call
<1>13. CASE UNCHANGED vars
  BY <1>13 DEF TypeOK, vars, call
<1> QED BY <1>1, <1>2, <1>3, <1>4, <1>6, <1>8, <1>9, <1>10, <1>11, <1>12, <1>13
        DEF Next, Step

(* resource_budget.py: the variables of the admission keep their types;    *)
(* in particular an entry of the reservation file has bytes exactly when   *)
(* it has users, for any number of managers.                               *)
THEOREM TypeCorrect == Spec => []TypeOK
  BY InitTypeOK, StepTypeOK, PTL DEF Spec

-----------------------------------------------------------------------------
(* One manager with its generation lock: the configuration in which the    *)
(* VRAM limit is a promise.                                                *)
OneManager == Serialize /\ \E s \in Scope : Scope = {s}

(* The models that take memory of s now, or will by a reservation.         *)
Held(s) == loaded[s] \cup {m \in Model : Reserved(s, m)}

SizeOf(S) == SumFunctionOnSet(Size, S)

(* An entry of the file stands for the whole model, and what is held fits. *)
FileInv ==
    /\ \A s \in Scope, m \in Model : Reserved(s, m) => reservations[s][m].bytes = Size[m]
    /\ \A s \in Scope : SizeOf(Held(s)) <= Capacity

(* The snapshot of a call can only be too high, and once the call is       *)
(* allowed its model fits beside all that is held.                         *)
CallFits(r) ==
    LET s == ScopeOf[r] IN
    /\ pc[r] = "probing" => SizeOf(loaded[s]) <= seenUsed[r]
    /\ pc[r] \in {"allowed", "running"} => SizeOf(Held(s) \cup {want[r]}) <= Capacity
    /\ pc[r] = "allowed" /\ ~sawLoaded[r] /\ ~Reserved(s, want[r]) =>
         estimate[r] = Size[want[r]]

(* The generation lock admits one call.                                    *)
OneCall == \A r, q \in Request : pc[r] # "idle" /\ pc[q] # "idle" => r = q

Accounted == FileInv /\ OneCall /\ \A r \in Request : CallFits(r)

(* The accounts are kept until an entry expires under a decision.          *)
AdmissionInv == ~lapsed => Accounted

LEMMA SizeGrows ==
  ASSUME NEW B \in SUBSET Model, NEW A \in SUBSET B
  PROVE  SizeOf(A) \in Nat /\ SizeOf(B) \in Nat /\ SizeOf(A) <= SizeOf(B)
<1>1. IsFiniteSet(Model) /\ \A m \in Model : Size[m] \in Nat
  BY AdmissionAssumption
<1>2. A \in SUBSET Model /\ IsFiniteSet(A) /\ IsFiniteSet(B)
  BY <1>1, FS_Subset
<1>3. SizeOf(A) \in Nat /\ SizeOf(B) \in Nat
  BY <1>1, <1>2, SumNat DEF SizeOf
<1>4. SizeOf(A) <= SizeOf(B)
  BY <1>1, SumGrows DEF SizeOf
<1> QED BY <1>3, <1>4

LEMMA HeldIs ==
  ASSUME TypeOK, NEW s \in Scope
  PROVE  Held(s) \in SUBSET Model /\ loaded[s] \in SUBSET Held(s)
  BY DEF TypeOK, Held

LEMMA UsedIs ==
  ASSUME TypeOK, OneManager, NEW s \in Scope
  PROVE  Used = SizeOf(loaded[s])
<1> DEFINE part == [t \in Scope |-> SumFunctionOnSet(Size, loaded[t])]
<1>1. Scope = {s} /\ IsFiniteSet(Scope) /\ DOMAIN part = Scope
  BY AdmissionAssumption DEF OneManager
<1>2. Used = SumFunctionOnSet(part, Scope)
  BY <1>1 DEF Used, SumFunction
<1>3. part[s] = SizeOf(loaded[s]) /\ SizeOf(loaded[s]) \in Nat
  BY HeldIs, SizeGrows DEF SizeOf
<1> HIDE DEF part
<1>4. \A t \in Scope : part[t] \in Nat
  BY <1>1, <1>3
<1>5. SumFunctionOnSet(part, Scope) = part[s] + SumFunctionOnSet(part, Scope \ {s})
  BY <1>1, <1>4, SumRemove
<1>6. SumFunctionOnSet(part, Scope \ {s}) = 0
  <2>1. Scope \ {s} = {}
    BY <1>1
  <2> QED BY <2>1, SumNone
<1> QED BY <1>2, <1>3, <1>5, <1>6

(* What the projection adds up is the size of what is held.                *)
LEMMA ProjectionIs ==
  ASSUME TypeOK, FileInv, NEW s \in Scope
  PROVE  /\ ReservedBytes(s) \in Nat
         /\ SizeOf(Held(s)) = SizeOf(loaded[s]) + ReservedBytes(s)
<1> DEFINE free == Model \ loaded[s]
           bytes == [m \in Model |-> reservations[s][m].bytes]
           A == {m \in free : Reserved(s, m)}
           B == {m \in free : ~Reserved(s, m)}
<1>0. IsFiniteSet(Model) /\ \A m \in Model : Size[m] \in Nat
  BY AdmissionAssumption
<1>1. \A m \in Model : bytes[m] \in Nat /\ (bytes[m] = IF Reserved(s, m) THEN Size[m] ELSE 0)
  <2>1. ASSUME NEW m \in Model
        PROVE  bytes[m] \in Nat /\ (bytes[m] = IF Reserved(s, m) THEN Size[m] ELSE 0)
    <3>1. /\ bytes[m] = reservations[s][m].bytes /\ bytes[m] \in Nat
          /\ reservations[s][m].count \in Nat
          /\ reservations[s][m].count = 0 <=> reservations[s][m].bytes = 0
      BY DEF TypeOK, Reservation
    <3> HIDE DEF bytes
    <3>2. CASE Reserved(s, m)
      BY <3>1, <3>2 DEF FileInv
    <3>3. CASE ~Reserved(s, m)
      BY <3>1, <3>3 DEF Reserved
    <3> QED BY <3>1, <3>2, <3>3
  <2> QED BY <2>1
<1>2. /\ A \in SUBSET Model /\ B \in SUBSET Model /\ free = A \cup B /\ A \cap B = {}
      /\ IsFiniteSet(A) /\ IsFiniteSet(B)
      /\ loaded[s] \in SUBSET Model /\ loaded[s] \cap A = {} /\ Held(s) = loaded[s] \cup A
  <2>1. A \in SUBSET Model /\ B \in SUBSET Model /\ loaded[s] \in SUBSET Model
    BY DEF TypeOK
  <2>2. IsFiniteSet(A) /\ IsFiniteSet(B)
    BY <1>0, <2>1, FS_Subset
  <2>3. Held(s) = loaded[s] \cup A
    BY <2>1 DEF Held
  <2> QED BY <2>1, <2>2, <2>3
<1>3. ReservedBytes(s) = SumFunctionOnSet(bytes, free)
  BY DEF ReservedBytes
<1>4. (\A m \in A : bytes[m] = Size[m] /\ bytes[m] \in Nat /\ Size[m] \in Nat) /\ \A m \in B : bytes[m] = 0
  BY <1>0, <1>1
<1> HIDE DEF free, bytes, A, B
<1>5. SumFunctionOnSet(bytes, free) = SumFunctionOnSet(bytes, A) + SumFunctionOnSet(bytes, B)
  BY <1>0, <1>1, <1>2, SumUnion
<1>6. SumFunctionOnSet(bytes, A) = SizeOf(A)
  BY <1>2, <1>4, SumSame DEF SizeOf
<1>7. SumFunctionOnSet(bytes, B) = 0
  BY <1>2, <1>4, SumZero
<1>8. SizeOf(loaded[s] \cup A) = SizeOf(loaded[s]) + SizeOf(A)
  BY <1>0, <1>2, SumUnion DEF SizeOf
<1>9. SizeOf(A) \in Nat
  BY <1>2, SizeGrows
<1>10. ReservedBytes(s) = SizeOf(A)
  BY <1>3, <1>5, <1>6, <1>7, <1>9
<1> QED BY <1>2, <1>8, <1>9, <1>10

LEMMA InvIsFitting ==
  ASSUME TypeOK, OneManager, AdmissionInv
  PROVE  CommitmentsFit
<1>1. ASSUME NEW s \in Scope, ~lapsed PROVE Used + ReservedBytes(s) <= Capacity
  BY <1>1, UsedIs, ProjectionIs DEF AdmissionInv, Accounted, FileInv
<1> QED BY <1>1 DEF CommitmentsFit

(* Holding less keeps everything, as long as an allowed call keeps the     *)
(* entry its decision relied on.                                           *)
LEMMA FileFrame ==
  ASSUME TypeOK, FileInv, TypeOK',
         \A s \in Scope : Held(s)' \in SUBSET Held(s),
         \A s \in Scope, m \in Model :
            Reserved(s, m)' => /\ Reserved(s, m)
                               /\ reservations'[s][m].bytes = reservations[s][m].bytes
  PROVE  FileInv'
<1>1. ASSUME NEW s \in Scope PROVE SizeOf(Held(s)') <= Capacity
  <2>1. SizeOf(Held(s)') <= SizeOf(Held(s)) /\ SizeOf(Held(s)') \in Nat /\ SizeOf(Held(s)) \in Nat
    BY HeldIs, SizeGrows
  <2> QED BY <2>1, AdmissionAssumption DEF FileInv
<1>2. ASSUME NEW s \in Scope PROVE SizeOf(Held(s))' <= Capacity
  BY <1>1 DEF SizeOf
<1> QED BY <1>2 DEF FileInv

LEMMA CallFrame ==
  ASSUME TypeOK, TypeOK', NEW r \in Request, CallFits(r),
         pc'[r] = pc[r], UNCHANGED call,
         \A s \in Scope : Held(s)' \in SUBSET Held(s) /\ loaded'[s] \in SUBSET loaded[s],
         pc[r] = "allowed" /\ ~sawLoaded[r] /\ Reserved(ScopeOf[r], want[r]) =>
            Reserved(ScopeOf[r], want[r])'
  PROVE  CallFits(r)'
<1> DEFINE s == ScopeOf[r]
<1>1. s \in Scope /\ want' = want /\ seenUsed' = seenUsed /\ sawLoaded' = sawLoaded /\ estimate' = estimate
  BY AdmissionAssumption DEF call
<1>2. ASSUME pc[r] = "probing" PROVE SizeOf(loaded[s]') <= seenUsed[r]
  <2>1. loaded[s] \in SUBSET Model /\ loaded'[s] \in SUBSET loaded[s] /\ seenUsed[r] \in Nat
    BY <1>1 DEF TypeOK
  <2>2. SizeOf(loaded[s]) <= seenUsed[r]
    BY <1>2 DEF CallFits
  <2> QED BY <2>1, <2>2, SizeGrows
<1>3. ASSUME pc[r] \in {"allowed", "running"}
      PROVE  SizeOf(Held(s)' \cup {want[r]}) <= Capacity
  <2>1. /\ Held(s) \cup {want[r]} \in SUBSET Model
        /\ Held(s)' \cup {want[r]} \in SUBSET (Held(s) \cup {want[r]})
    BY <1>1, <1>3, HeldIs DEF TypeOK
  <2>2. SizeOf(Held(s) \cup {want[r]}) <= Capacity
    BY <1>3 DEF CallFits
  <2> QED BY <2>1, <2>2, SizeGrows, AdmissionAssumption
<1> QED BY <1>1, <1>2, <1>3 DEF CallFits, SizeOf

(* When the lock has its one call at r, the invariant is about r only.     *)
LEMMA CallAlone ==
  ASSUME TypeOK, TypeOK', OneCall, NEW r \in Request,
         \A q \in Request \ {r} : pc[q] = "idle",
         \A q \in Request \ {r} : pc'[q] = pc[q],
         FileInv', CallFits(r)'
  PROVE  Accounted'
<1>1. OneCall'
  BY DEF OneCall
<1>2. ASSUME NEW q \in Request \ {r} PROVE CallFits(q)'
  BY DEF CallFits
<1> QED BY <1>1, <1>2 DEF Accounted

LEMMA OthersIdle ==
  ASSUME OneCall, NEW r \in Request, pc[r] # "idle"
  PROVE  \A q \in Request \ {r} : pc[q] = "idle"
  BY DEF OneCall

(* A step of a call that leaves the file and the memory alone.             *)
LEMMA QuietStep ==
  ASSUME TypeOK, TypeOK', Accounted, NEW r \in Request,
         \A q \in Request \ {r} : pc[q] = "idle",
         \A q \in Request \ {r} : pc'[q] = pc[q],
         UNCHANGED <<reservations, loaded>>, CallFits(r)'
  PROVE  Accounted'
<1>1. FileInv'
  BY DEF Accounted, FileInv, Held, Reserved, SizeOf
<1> QED BY <1>1, CallAlone DEF Accounted

LEMMA AllowFits ==
  ASSUME TypeOK, Accounted, NEW r \in Request, Allow(r)
  PROVE  SizeOf(Held(ScopeOf[r]) \cup {want[r]}) <= Capacity
<1> DEFINE s == ScopeOf[r]
           m == want[r]
<1>1. s \in Scope /\ m \in Model /\ Size[m] \in Nat
  BY AdmissionAssumption DEF Allow, TypeOK
<1>2. /\ SizeOf(loaded[s]) <= seenUsed[r]
      /\ seenUsed[r] + CandidateBytes(r) + ReservedBytes(s) <= Capacity
  BY DEF Allow, Fits, Accounted, CallFits
<1>3. /\ ReservedBytes(s) \in Nat
      /\ SizeOf(Held(s)) = SizeOf(loaded[s]) + ReservedBytes(s)
  BY <1>1, ProjectionIs DEF Accounted
<1>4. Held(s) \in SUBSET Model /\ SizeOf(loaded[s]) \in Nat /\ SizeOf(Held(s)) \in Nat
  BY <1>1, HeldIs, SizeGrows
<1>5. SizeOf(Held(s) \cup {m}) <= SizeOf(Held(s)) + CandidateBytes(r) /\ CandidateBytes(r) \in Nat
  <2>1. CASE m \in Held(s)
    <3>1. Held(s) \cup {m} = Held(s) /\ CandidateBytes(r) = 0
      BY <1>1, <2>1 DEF Held, CandidateBytes
    <3>2. SizeOf(Held(s) \cup {m}) = SizeOf(Held(s))
      BY <3>1
    <3> QED BY <1>4, <3>1, <3>2
  <2>2. CASE m \notin Held(s)
    <3>1. CandidateBytes(r) = Size[m]
      BY <1>1, <2>2 DEF Held, CandidateBytes
    <3>2. IsFiniteSet(Held(s) \cup {m}) /\ \A x \in Held(s) \cup {m} : Size[x] \in Nat
      BY <1>1, <1>4, FS_Subset, AdmissionAssumption
    <3>3. (Held(s) \cup {m}) \ {m} = Held(s) /\ m \in Held(s) \cup {m}
      BY <2>2
    <3>4. SizeOf(Held(s) \cup {m}) = Size[m] + SizeOf((Held(s) \cup {m}) \ {m})
      BY <3>2, <3>3, SumRemove DEF SizeOf
    <3>5. SizeOf(Held(s) \cup {m}) = Size[m] + SizeOf(Held(s))
      BY <3>3, <3>4
    <3> QED BY <1>1, <1>4, <3>1, <3>5
  <2> QED BY <2>1, <2>2
<1>6. seenUsed[r] \in Nat /\ Capacity \in Nat /\ SizeOf(Held(s) \cup {m}) \in Nat
  <2>1. Held(s) \cup {m} \in SUBSET Model
    BY <1>1, <1>4
  <2>2. SizeOf(Held(s) \cup {m}) \in Nat
    BY <2>1, SizeGrows
  <2> QED BY <2>2, AdmissionAssumption DEF TypeOK
<1>7. \A l, u, h, c, b, n, k \in Nat :
         l <= u /\ u + c + b <= k /\ h = l + b /\ n <= h + c => n <= k
  OBVIOUS
<1> HIDE DEF s, m
<1>8. SizeOf(Held(s) \cup {m}) <= Capacity
  BY <1>2, <1>3, <1>4, <1>5, <1>6, <1>7
<1> QED BY <1>8 DEF s, m

LEMMA StepAccounted ==
  ASSUME TypeOK, TypeOK', OneManager, Accounted, [Next]_vars, ~lapsed'
  PROVE  Accounted'
<1> USE AdmissionAssumption
<1>1. ASSUME NEW r \in Request, NEW m \in Model, Begin(r, m) PROVE Accounted'
  <2>1. \A q \in Request : pc[q] = "idle"
    BY <1>1 DEF Begin, OneManager, GenerationFree, Of
  <2>2. /\ \A q \in Request \ {r} : pc'[q] = pc[q]
        /\ pc'[r] = "queued" /\ UNCHANGED <<reservations, loaded>>
    BY <1>1 DEF Begin, Goto, TypeOK
  <2>3. CallFits(r)'
    BY <2>2 DEF CallFits
  <2> QED BY <2>1, <2>2, <2>3, QuietStep
<1>2. ASSUME NEW r \in Request, Probe(r) PROVE Accounted'
  <2>1. \A q \in Request \ {r} : pc[q] = "idle"
    BY <1>2, OthersIdle DEF Probe, Accounted
  <2>2. /\ \A q \in Request \ {r} : pc'[q] = pc[q]
        /\ pc'[r] = "probing" /\ seenUsed'[r] = Used /\ UNCHANGED <<reservations, loaded>>
    BY <1>2 DEF Probe, Goto, TypeOK
  <2>3. Used = SizeOf(loaded[ScopeOf[r]]) /\ Used \in Nat
    BY UsedIs, UsedNat
  <2>4. CallFits(r)'
    BY <2>2, <2>3 DEF CallFits, SizeOf
  <2> QED BY <2>1, <2>2, <2>4, QuietStep
<1>3. ASSUME NEW r \in Request, Allow(r) PROVE Accounted'
  <2>1. \A q \in Request \ {r} : pc[q] = "idle"
    BY <1>3, OthersIdle DEF Allow, Accounted
  <2>2. /\ \A q \in Request \ {r} : pc'[q] = pc[q]
        /\ pc'[r] = "allowed" /\ want' = want /\ UNCHANGED <<reservations, loaded>>
        /\ estimate'[r] = CandidateBytes(r)
        /\ sawLoaded'[r] = (want[r] \in loaded[ScopeOf[r]])
    BY <1>3 DEF Allow, Goto, TypeOK
  <2>3. SizeOf(Held(ScopeOf[r]) \cup {want[r]}) <= Capacity
    BY <1>3, AllowFits
  <2>4. CallFits(r)'
    <3>1. Held(ScopeOf[r])' = Held(ScopeOf[r])
      BY <2>2 DEF Held, Reserved
    <3>2. SizeOf(Held(ScopeOf[r]) \cup {want[r]})' <= Capacity
      BY <2>2, <2>3, <3>1 DEF SizeOf
    <3>3. ~sawLoaded'[r] /\ ~Reserved(ScopeOf[r], want[r])' => estimate'[r] = Size[want'[r]]
      BY <2>2 DEF Reserved, CandidateBytes
    <3> QED BY <2>2, <3>2, <3>3 DEF CallFits
  <2> QED BY <2>1, <2>2, <2>4, QuietStep
<1>4. ASSUME NEW r \in Request, Busy(r) \/ Deny(r) \/ Finish(r) \/ Crash(r) PROVE Accounted'
  <2>1. \A q \in Request \ {r} : pc[q] = "idle"
    BY <1>4, OthersIdle DEF Busy, Deny, Finish, Crash, Accounted
  <2>2. /\ \A q \in Request \ {r} : pc'[q] = pc[q]
        /\ pc'[r] \in {"queued", "ending", "idle"} /\ UNCHANGED <<reservations, loaded>>
    BY <1>4 DEF Busy, Deny, Finish, Crash, Return, Goto, TypeOK
  <2>3. CallFits(r)'
    BY <2>2 DEF CallFits
  <2> QED BY <2>1, <2>2, <2>3, QuietStep
<1>5. ASSUME NEW r \in Request, Reserve(r) PROVE Accounted'
  <2> DEFINE s == ScopeOf[r]
             m == want[r]
  <2>1. \A q \in Request \ {r} : pc[q] = "idle"
    BY <1>5, OthersIdle DEF Reserve, Accounted
  <2>2. /\ \A q \in Request \ {r} : pc'[q] = pc[q]
        /\ pc[r] = "allowed" /\ pc'[r] = "running" /\ want' = want /\ UNCHANGED loaded
        /\ s \in Scope /\ m \in Model
    BY <1>5 DEF Reserve, Goto, TypeOK, call
  <2>3. \A n \in Model : Reserved(s, n)' =>
          (Reserved(s, n) \/ n = m) /\ reservations'[s][n].bytes = Size[n]
    <3>1. CASE sawLoaded[r]
      <4>1. reservations' = reservations
        BY <1>5, <3>1 DEF Reserve
      <4> QED BY <2>2, <4>1 DEF Reserved, Accounted, FileInv
    <3>2. CASE ~sawLoaded[r] /\ Reserved(s, m)
      <4>1. reservations' = [reservations EXCEPT ![s][m].count = @ + 1]
        BY <1>5, <3>2 DEF Reserve
      <4>2. ASSUME NEW n \in Model
            PROVE  /\ reservations'[s][n].bytes = reservations[s][n].bytes
                   /\ n # m => reservations'[s][n] = reservations[s][n]
        BY <2>2, <4>1 DEF TypeOK, Reservation
      <4> QED BY <2>2, <3>2, <4>2 DEF Reserved, Accounted, FileInv
    <3>3. CASE ~sawLoaded[r] /\ ~Reserved(s, m)
      <4>1. estimate[r] = Size[m] /\ Size[m] # 0
        BY <2>2, <3>3 DEF Accounted, CallFits
      <4>2. reservations' = [reservations EXCEPT ![s][m] =
              [bytes |-> IF estimate[r] = 0 THEN 1 ELSE estimate[r], count |-> 1]]
        BY <1>5, <3>3 DEF Reserve
      <4>3. ASSUME NEW n \in Model
            PROVE  /\ n = m => reservations'[s][n].bytes = Size[n]
                   /\ n # m => reservations'[s][n] = reservations[s][n]
        BY <2>2, <4>1, <4>2 DEF TypeOK
      <4> QED BY <2>2, <4>3 DEF Reserved, Accounted, FileInv
    <3> QED BY <3>1, <3>2, <3>3
  <2>4. SizeOf(Held(s) \cup {m}) <= Capacity
    BY <2>2 DEF Accounted, CallFits
  <2>5. /\ Held(s)' \in SUBSET (Held(s) \cup {m})
        /\ Held(s)' \cup {m} \in SUBSET (Held(s) \cup {m})
        /\ Held(s) \cup {m} \in SUBSET Model
    <3>1. Held(s) \in SUBSET Model
      BY <2>2, HeldIs
    <3> QED BY <2>2, <2>3, <3>1 DEF Held
  <2>6. SizeOf(Held(s)') <= Capacity /\ SizeOf(Held(s)' \cup {m}) <= Capacity
    BY <2>4, <2>5, SizeGrows
  <2>7. FileInv'
    <3>1. \A t \in Scope : t = s
      BY <2>2 DEF OneManager
    <3>2. SizeOf(Held(s))' <= Capacity
      BY <2>6 DEF SizeOf
    <3> QED BY <2>3, <3>1, <3>2 DEF FileInv
  <2>8. CallFits(r)'
    <3>1. SizeOf(Held(s) \cup {want[r]})' <= Capacity
      BY <2>2, <2>6 DEF SizeOf
    <3> QED BY <2>2, <3>1 DEF CallFits
  <2> QED BY <2>1, <2>2, <2>7, <2>8, CallAlone DEF Accounted
<1>6. ASSUME NEW r \in Request, Release(r) PROVE Accounted'
  <2> DEFINE s == ScopeOf[r]
             m == want[r]
  <2>1. \A q \in Request \ {r} : pc[q] = "idle"
    BY <1>6, OthersIdle DEF Release, Accounted
  <2>2. /\ \A q \in Request \ {r} : pc'[q] = pc[q]
        /\ pc'[r] = "idle" /\ UNCHANGED loaded
        /\ s \in Scope /\ m \in Model
    BY <1>6 DEF Release, Return, Goto, TypeOK
  <2>3. \A t \in Scope, n \in Model : Reserved(t, n)' =>
          Reserved(t, n) /\ reservations'[t][n].bytes = reservations[t][n].bytes
    <3>1. CASE ~Reserved(s, m)
      BY <1>6, <3>1 DEF Release, Reserved
    <3>2. CASE Reserved(s, m)
      <4>1. reservations' = [reservations EXCEPT ![s][m] = Released(@)]
        BY <1>6, <3>2 DEF Release
      <4>2. ASSUME NEW t \in Scope, NEW n \in Model
            PROVE  reservations'[t][n] = IF t = s /\ n = m THEN Released(reservations[s][m])
                                         ELSE reservations[t][n]
        BY <2>2, <4>1 DEF TypeOK
      <4>3. reservations[s][m] \in Reservation
        BY <2>2 DEF TypeOK
      <4>4. Released(reservations[s][m]).count > 0 =>
              Released(reservations[s][m]).bytes = reservations[s][m].bytes
        BY <4>3 DEF Released, NoReservation, Reservation
      <4> QED BY <3>2, <4>2, <4>4 DEF Reserved
    <3> QED BY <3>1, <3>2
  <2>4. \A t \in Scope : Held(t)' \in SUBSET Held(t)
    BY <2>2, <2>3 DEF Held
  <2>5. FileInv'
    BY <2>3, <2>4, FileFrame DEF Accounted
  <2>6. CallFits(r)'
    BY <2>2 DEF CallFits
  <2> QED BY <2>1, <2>2, <2>5, <2>6, CallAlone DEF Accounted
<1>7. ASSUME NEW r \in Request, Load(r) PROVE Accounted'
  <2> DEFINE s == ScopeOf[r]
             m == want[r]
  <2>1. /\ pc[r] = "running" /\ UNCHANGED <<pc, want, reservations>>
        /\ s \in Scope /\ m \in Model /\ loaded'[s] = loaded[s] \cup {m}
    BY <1>7 DEF Load, TypeOK, call
  <2>2. Held(s)' = Held(s) \cup {m}
    BY <2>1 DEF Held, Reserved
  <2>3. SizeOf(Held(s) \cup {m}) <= Capacity
    BY <2>1 DEF Accounted, CallFits
  <2>4. Held(s)' \cup {m} = Held(s) \cup {m}
    BY <2>2
  <2>5. FileInv'
    <3>1. \A t \in Scope : t = s
      BY <2>1 DEF OneManager
    <3>2. SizeOf(Held(s))' <= Capacity
      BY <2>2, <2>3 DEF SizeOf
    <3> QED BY <2>1, <3>1, <3>2 DEF FileInv, Accounted, Reserved
  <2>6. CallFits(r)'
    <3>1. SizeOf(Held(s) \cup {want[r]})' <= Capacity
      BY <2>1, <2>3, <2>4 DEF SizeOf
    <3> QED BY <2>1, <3>1 DEF CallFits
  <2>7. \A q \in Request \ {r} : pc[q] = "idle"
    BY <2>1, OthersIdle DEF Accounted
  <2> QED BY <2>1, <2>5, <2>6, <2>7, CallAlone DEF Accounted
<1>8. ASSUME UNCHANGED <<pc, call>>,
             \A s \in Scope : Held(s)' \in SUBSET Held(s) /\ loaded'[s] \in SUBSET loaded[s],
             \A s \in Scope, m \in Model : Reserved(s, m)' =>
                Reserved(s, m) /\ reservations'[s][m].bytes = reservations[s][m].bytes,
             \A r \in Request :
                pc[r] = "allowed" /\ ~sawLoaded[r] /\ Reserved(ScopeOf[r], want[r]) =>
                   Reserved(ScopeOf[r], want[r])'
      PROVE  Accounted'
  <2>1. FileInv'
    BY <1>8, FileFrame DEF Accounted
  <2>2. OneCall'
    BY <1>8 DEF Accounted, OneCall
  <2>3. ASSUME NEW r \in Request PROVE CallFits(r)'
    BY <1>8, CallFrame DEF Accounted
  <2> QED BY <2>1, <2>2, <2>3 DEF Accounted
<1>9. ASSUME NEW s \in Scope, NEW m \in Model, Unload(s, m) PROVE Accounted'
  <2>1. UNCHANGED <<pc, call, reservations>> /\ loaded' = [loaded EXCEPT ![s] = @ \ {m}]
    BY <1>9 DEF Unload
  <2>2. \A t \in Scope : loaded'[t] \in SUBSET loaded[t] /\ Held(t)' \in SUBSET Held(t)
    BY <2>1 DEF TypeOK, Held, Reserved
  <2> QED BY <1>8, <2>1, <2>2 DEF Reserved, call
<1>10. ASSUME NEW s \in Scope, NEW m \in Model, Expire(s, m) PROVE Accounted'
  <2>1. UNCHANGED <<pc, call, loaded>>
        /\ reservations' = [reservations EXCEPT ![s][m] = NoReservation]
    BY <1>10 DEF Expire
  <2>2. ASSUME NEW t \in Scope, NEW n \in Model
        PROVE  reservations'[t][n] = IF t = s /\ n = m THEN NoReservation ELSE reservations[t][n]
    BY <2>1 DEF TypeOK
  <2>3. \A t \in Scope, n \in Model : Reserved(t, n)' =>
          Reserved(t, n) /\ reservations'[t][n].bytes = reservations[t][n].bytes
    BY <2>2 DEF Reserved, NoReservation
  <2>4. \A t \in Scope : Held(t)' \in SUBSET Held(t) /\ loaded'[t] \in SUBSET loaded[t]
    BY <2>1, <2>3 DEF Held
  <2>5. ASSUME NEW r \in Request, pc[r] = "allowed", ~sawLoaded[r], Reserved(ScopeOf[r], want[r])
        PROVE  Reserved(ScopeOf[r], want[r])'
    <3>1. ScopeOf[r] \in Scope /\ want[r] \in Model /\ want' = want
      BY <2>1, <2>5 DEF TypeOK, call
    <3>2. ASSUME ScopeOf[r] = s, want[r] = m, ~sawLoaded[r] PROVE FALSE
      <4>1. r \in Of(s) /\ Relies(r, m)
        BY <2>5, <3>2 DEF Of, Relies
      <4> QED BY <1>10, <4>1 DEF Expire
    <3> QED BY <2>2, <2>5, <3>1, <3>2 DEF Reserved
  <2> QED BY <1>8, <2>1, <2>3, <2>4, <2>5
<1>11. CASE UNCHANGED vars
  <2>1. UNCHANGED <<pc, call, reservations, loaded>>
    BY <1>11 DEF vars
  <2>2. \A t \in Scope : loaded'[t] \in SUBSET loaded[t] /\ Held(t)' \in SUBSET Held(t)
    BY <2>1 DEF Held, Reserved
  <2> QED BY <1>8, <2>1, <2>2 DEF Reserved, call
<1> QED BY <1>1, <1>2, <1>3, <1>4, <1>5, <1>6, <1>7, <1>9, <1>10, <1>11
        DEF Next, Step

LEMMA StepAdmission ==
  ASSUME TypeOK, TypeOK', OneManager, AdmissionInv, [Next]_vars
  PROVE  AdmissionInv'
<1>1. ~lapsed' => ~lapsed
  BY DEF Next, Step, Begin, Probe, Allow, Busy, Deny, Reserve, Finish, Release,
         Crash, Load, Unload, Expire, vars
<1> QED BY <1>1, StepAccounted DEF AdmissionInv

LEMMA InitAdmission == Init => AdmissionInv
<1> SUFFICES ASSUME Init PROVE Accounted
  BY DEF AdmissionInv
<1>1. \A r \in Request : pc[r] = "idle"
  BY DEF Init
<1>2. ASSUME NEW s \in Scope PROVE Held(s) = {} /\ \A m \in Model : ~Reserved(s, m)
  BY DEF Init, Held, Reserved, NoReservation
<1>3. ASSUME NEW s \in Scope PROVE SizeOf(Held(s)) <= Capacity
  <2>1. SizeOf(Held(s)) = 0
    BY <1>2, SumNone DEF SizeOf
  <2> QED BY <2>1, AdmissionAssumption
<1> QED BY <1>1, <1>2, <1>3 DEF Accounted, FileInv, OneCall, CallFits

(* resource_budget.py, admit with serialize_generation and one manager per *)
(* card: what is resident and what is promised fits into the VRAM limit,   *)
(* for any callers, models and sizes, although the snapshot is read in two *)
(* parts, the decision and the reservation are separate critical sections, *)
(* crashed calls leave their entries in the file and entries expire.  It   *)
(* holds as long as no entry expired between a decision that counted on it *)
(* and its reservation; after that the code can promise bytes twice.       *)
THEOREM CommitmentsAlwaysFit ==
  ASSUME OneManager PROVE Spec => []CommitmentsFit
<1>1. Init => TypeOK /\ AdmissionInv
  BY InitTypeOK, InitAdmission
<1>2. (TypeOK /\ AdmissionInv) /\ [Next]_vars => (TypeOK /\ AdmissionInv)'
  BY StepTypeOK, StepAdmission
<1>3. TypeOK /\ AdmissionInv => CommitmentsFit
  BY InvIsFitting
<1> QED BY <1>1, <1>2, <1>3, PTL DEF Spec

(* The same configuration: the resident models take no more than the limit *)
(* until an entry expires under a decision.  The run with two managers on  *)
(* one card refutes this without such an expiry.                           *)
THEOREM LimitUntilLapse ==
  ASSUME OneManager PROVE Spec => [](~lapsed => WithinBudget)
<1>1. Init => TypeOK /\ AdmissionInv
  BY InitTypeOK, InitAdmission
<1>2. (TypeOK /\ AdmissionInv) /\ [Next]_vars => (TypeOK /\ AdmissionInv)'
  BY StepTypeOK, StepAdmission
<1>3. ASSUME TypeOK, AdmissionInv, ~lapsed PROVE WithinBudget
  <2>1. PICK s \in Scope : Scope = {s}
    BY DEF OneManager
  <2>2. SizeOf(loaded[s]) <= SizeOf(Held(s)) /\ SizeOf(loaded[s]) \in Nat /\ SizeOf(Held(s)) \in Nat
    BY <1>3, HeldIs, SizeGrows
  <2> QED BY <1>3, <2>2, UsedIs, AdmissionAssumption
          DEF WithinBudget, AdmissionInv, Accounted, FileInv
<1>4. TypeOK /\ AdmissionInv => (~lapsed => WithinBudget)
  BY <1>3
<1> QED BY <1>1, <1>2, <1>4, PTL DEF Spec
==============================================================================
