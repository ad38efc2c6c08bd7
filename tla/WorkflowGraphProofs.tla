------------------------- MODULE WorkflowGraphProofs -------------------------
(***************************************************************************)
(* What admission guarantees of a contract: the facts about its graph that *)
(* the proofs about the state machine rely on, for every contract.         *)
(***************************************************************************)
EXTENDS WorkflowRunner, FiniteSetTheorems, TLAPS

(* The nodes of the parallel lanes of c.                                   *)
LanesOf(c) == UNION {{r} \cup Children(c, r) : r \in Children(c, Fork(c))}

(* The node the agent of a role runs at.                                   *)
NodeFor(c, role) == CHOOSE n \in c.node : c.role[n] = role

(* Edges lead from other nodes of the contract, only a join has several    *)
(* parents, and the input is the one node without.                         *)
Shaped(c) ==
    /\ \A n \in c.node : c.depends[n] \subseteq c.node \ {n}
    /\ \A n \in c.node : c.role[n] # "parallel_join" =>
         \A p \in c.depends[n] : c.depends[n] = {p}
    /\ \E r \in c.node : RootsOf(c) = {r} /\ c.role[r] = "input"

(* A parallel contract has one fork, one join, and two lanes of a research *)
(* and a presentation; all research and presentation is in the lanes.      *)
ForkShaped(c) ==
    /\ Having(c, "parallel_fork") = {Fork(c)}
    /\ Having(c, "parallel_join") = {Join(c)}
    /\ Cardinality(Children(c, Fork(c))) = 2
    /\ \A r \in Children(c, Fork(c)) :
         /\ c.role[r] = "research" /\ c.depends[r] = {Fork(c)}
         /\ \E p \in c.node :
              /\ Children(c, r) = {p}
              /\ c.role[p] = "presentation" /\ c.depends[p] = {r}
    /\ c.depends[Join(c)] = UNION {Children(c, r) : r \in Children(c, Fork(c))}
    /\ \A n \in c.node : c.role[n] \in Stage => n \in LanesOf(c)

(* Behind the join is a decision, whose passed branch leads to the report. *)
JoinShaped(c) ==
    \E dec, m \in c.node :
      /\ Children(c, Join(c)) = {dec} /\ c.role[dec] = "decision"
      /\ m \in Children(c, dec) /\ c.cond[m] = "passed"
      /\ Having(c, "daily_report") \subseteq Reaches(c)[m]

-----------------------------------------------------------------------------
(* Small sets.                                                             *)

LEMMA AtMostOne ==
  ASSUME NEW S, IsFiniteSet(S), Cardinality(S) <= 1, NEW p \in S
  PROVE  S = {p}
<1>1. IsFiniteSet(S \ {p}) /\ Cardinality(S \ {p}) = Cardinality(S) - 1
  BY FS_RemoveElement
<1>2. Cardinality(S) \in Nat /\ Cardinality(S \ {p}) \in Nat
  BY <1>1, FS_CardinalityType
<1>3. Cardinality(S \ {p}) = 0
  BY <1>1, <1>2
<1>4. S \ {p} = {}
  BY <1>1, <1>3, FS_EmptySet
<1> QED BY <1>4

LEMMA ExactlyTwo ==
  ASSUME NEW S, IsFiniteSet(S), Cardinality(S) = 2
  PROVE  \E x, y \in S : x # y /\ S = {x, y}
<1>1. PICK x : x \in S
  BY FS_EmptySet
<1>2. IsFiniteSet(S \ {x}) /\ Cardinality(S \ {x}) = 1
  BY <1>1, FS_RemoveElement
<1>3. PICK y : S \ {x} = {y}
  BY <1>2, FS_Singleton
<1> QED BY <1>1, <1>3

LEMMA PairIsTwo ==
  ASSUME NEW x, NEW y, x # y
  PROVE  IsFiniteSet({x, y}) /\ Cardinality({x, y}) = 2
<1>1. IsFiniteSet({x}) /\ Cardinality({x}) = 1
  BY FS_Singleton
<1>2. /\ IsFiniteSet({x} \cup {y})
      /\ Cardinality({x} \cup {y}) = IF y \in {x} THEN Cardinality({x}) ELSE Cardinality({x}) + 1
  BY <1>1, FS_AddElement
<1>3. {x} \cup {y} = {x, y} /\ y \notin {x}
  OBVIOUS
<1> QED BY <1>1, <1>2, <1>3

-----------------------------------------------------------------------------
LEMMA ContractIs ==
  ASSUME NEW c \in Contract
  PROVE  /\ c.node \subseteq Node /\ IsFiniteSet(c.node) /\ NoNode \notin c.node
         /\ c.depends \in [c.node -> SUBSET c.node]
         /\ \A n \in c.node : /\ IsFiniteSet(c.depends[n])
                              /\ IsFiniteSet(Children(c, n))
                              /\ Children(c, n) \subseteq c.node
         /\ \A role : IsFiniteSet(Having(c, role))
<1>1. /\ c.node \subseteq Node /\ IsFiniteSet(c.node) /\ NoNode \notin c.node
      /\ c.depends \in [c.node -> SUBSET c.node]
  BY ContractAssumption
<1>2. \A T \in SUBSET c.node : IsFiniteSet(T)
  BY <1>1, FS_Subset
<1>3. \A n \in c.node : Children(c, n) \in SUBSET c.node
  BY DEF Children
<1>4. \A role : Having(c, role) \in SUBSET c.node
  BY DEF Having
<1> QED BY <1>1, <1>2, <1>3, <1>4

LEMMA SingleParent ==
  ASSUME NEW c \in Contract, NEW n \in c.node, Cardinality(c.depends[n]) <= 1,
         NEW p \in c.depends[n]
  PROVE  c.depends[n] = {p}
  BY ContractIs, AtMostOne

LEMMA AdmittedShaped ==
  ASSUME NEW c \in Admitted
  PROVE  c \in Contract /\ Shaped(c)
<1>1. c \in Contract /\ AdmitV4(c)
  BY DEF Admitted
<1>2. ValidGraph(c) /\ SingleInput(c)
  BY <1>1 DEF AdmitV4, AdmitV3
<1>3. \A n \in c.node : c.depends[n] \subseteq c.node \ {n}
  BY <1>2 DEF ValidGraph
<1>4. \E r \in c.node : RootsOf(c) = {r} /\ c.role[r] = "input"
  BY <1>2 DEF SingleInput, Having
<1>5. ASSUME NEW n \in c.node, NEW p \in c.depends[n], c.role[n] # "parallel_join"
      PROVE  c.depends[n] = {p}
  <2>1. ~(Cardinality(c.depends[n]) > 1)
    <3>1. CASE IsParallel(c)
      BY <1>1, <1>5, <3>1 DEF AdmitV4
    <3>2. CASE ~IsParallel(c)
      <4>1. Cardinality(c.depends[n]) <= 1
        BY <1>1, <3>2 DEF AdmitV4, AdmitV3
      <4>2. Cardinality(c.depends[n]) \in Nat
        BY <1>1, ContractIs, FS_CardinalityType
      <4> QED BY <4>1, <4>2
    <3> QED BY <3>1, <3>2
  <2>2. Cardinality(c.depends[n]) \in Nat
    BY <1>1, ContractIs, FS_CardinalityType
  <2>3. Cardinality(c.depends[n]) <= 1
    BY <2>1, <2>2
  <2> QED BY <1>1, <2>3, SingleParent
<1> QED BY <1>1, <1>3, <1>4, <1>5 DEF Shaped

LEMMA ForkIs ==
  ASSUME NEW c \in Admitted, IsParallel(c)
  PROVE  /\ Having(c, "parallel_fork") = {Fork(c)}
         /\ Having(c, "parallel_join") = {Join(c)}
         /\ Fork(c) \in c.node /\ Join(c) \in c.node
         /\ c.role[Fork(c)] = "parallel_fork" /\ c.role[Join(c)] = "parallel_join"
<1>1. ParallelPlanned(c)
  BY DEF Admitted, AdmitV4
<1>2. PICK f, j \in c.node : /\ Having(c, "parallel_fork") = {f}
                             /\ Having(c, "parallel_join") = {j}
  BY <1>1 DEF ParallelPlanned
<1>3. Fork(c) = f /\ Join(c) = j
  BY <1>2 DEF Fork, Join, Having
<1> QED BY <1>2, <1>3 DEF Having

LEMMA AdmittedForkShaped ==
  ASSUME NEW c \in Admitted, IsParallel(c)
  PROVE  ForkShaped(c)
<1> DEFINE F == Children(c, Fork(c))
           P == UNION {Children(c, r) : r \in F}
<1>1. c \in Contract /\ Shaped(c) /\ AdmitV4(c) /\ ParallelPlanned(c)
  BY AdmittedShaped DEF Admitted, AdmitV4
<1>2. /\ Cardinality(F) = 2
      /\ \A r \in F : /\ c.role[r] = "research"
                      /\ \E p \in c.node : /\ Children(c, r) = {p}
                                           /\ c.role[p] = "presentation"
      /\ c.depends[Join(c)] = P
  <2>1. PICK f, j, d \in c.node :
          /\ Having(c, "parallel_fork") = {f}
          /\ Having(c, "parallel_join") = {j}
          /\ Cardinality(Children(c, f)) = 2
          /\ \A r \in Children(c, f) :
               /\ c.role[r] = "research"
               /\ \E p \in c.node : Children(c, r) = {p} /\ c.role[p] = "presentation"
          /\ c.depends[j] = UNION {Children(c, r) : r \in Children(c, f)}
    BY <1>1 DEF ParallelPlanned
  <2>2. f = Fork(c) /\ j = Join(c)
    BY <2>1, ForkIs
  <2> QED BY <2>1, <2>2
<1>3. ASSUME NEW n \in c.node, NEW p \in c.node, n \in Children(c, p),
             c.role[n] \in Stage
      PROVE  c.depends[n] = {p}
  BY <1>1, <1>3 DEF Shaped, Children, Stage
<1>4. F \subseteq c.node /\ IsFiniteSet(F) /\ Fork(c) \in c.node
  BY <1>1, ContractIs, ForkIs
<1>5. \A r \in F :
        /\ c.role[r] = "research" /\ c.depends[r] = {Fork(c)}
        /\ \E p \in c.node : /\ Children(c, r) = {p}
                             /\ c.role[p] = "presentation" /\ c.depends[p] = {r}
  <2> SUFFICES ASSUME NEW r \in F
               PROVE  /\ c.role[r] = "research" /\ c.depends[r] = {Fork(c)}
                      /\ \E p \in c.node : /\ Children(c, r) = {p}
                                           /\ c.role[p] = "presentation" /\ c.depends[p] = {r}
    OBVIOUS
  <2>1. r \in c.node /\ c.role[r] = "research"
    BY <1>2, <1>4
  <2>2. c.depends[r] = {Fork(c)}
    BY <1>3, <1>4, <2>1 DEF Stage
  <2>3. PICK p \in c.node : Children(c, r) = {p} /\ c.role[p] = "presentation"
    BY <1>2
  <2>4. c.depends[p] = {r}
    BY <1>3, <2>1, <2>3 DEF Stage
  <2> QED BY <2>1, <2>2, <2>3, <2>4
<1>6. PICK r1, r2 \in F : r1 # r2 /\ F = {r1, r2}
  BY <1>2, <1>4, ExactlyTwo
<1>7. PICK p1, p2 \in c.node :
        /\ Children(c, r1) = {p1} /\ c.role[p1] = "presentation" /\ c.depends[p1] = {r1}
        /\ Children(c, r2) = {p2} /\ c.role[p2] = "presentation" /\ c.depends[p2] = {r2}
  BY <1>5
<1>8. p1 # p2
  BY <1>6, <1>7
<1>9. LanesOf(c) = {r1, r2, p1, p2}
  <2>1. LanesOf(c) = UNION {{r} \cup Children(c, r) : r \in {r1, r2}}
    BY <1>6 DEF LanesOf
  <2> QED BY <1>7, <2>1
<1>10. Having(c, "research") = {r1, r2} /\ Having(c, "presentation") = {p1, p2}
  <2>1. {r1, r2} \subseteq Having(c, "research") /\ {p1, p2} \subseteq Having(c, "presentation")
    BY <1>4, <1>5, <1>7 DEF Having
  <2>2. Cardinality({r1, r2}) = 2 /\ Cardinality({p1, p2}) = 2
    BY <1>6, <1>8, PairIsTwo
  <2>3. Cardinality(Having(c, "research")) = 2 /\ Cardinality(Having(c, "presentation")) = 2
    BY <1>1 DEF AdmitV4
  <2>4. IsFiniteSet(Having(c, "research")) /\ IsFiniteSet(Having(c, "presentation"))
    BY <1>1, ContractIs
  <2>5. Having(c, "research") = {r1, r2}
    BY <2>1, <2>2, <2>3, <2>4, FS_Subset
  <2>6. Having(c, "presentation") = {p1, p2}
    BY <2>1, <2>2, <2>3, <2>4, FS_Subset
  <2> QED BY <2>5, <2>6
<1>11. \A n \in c.node : c.role[n] \in Stage => n \in LanesOf(c)
  BY <1>9, <1>10 DEF Having, Stage
<1> QED BY <1>2, <1>5, <1>11, ForkIs DEF ForkShaped

LEMMA AdmittedJoinShaped ==
  ASSUME NEW c \in Admitted, IsParallel(c)
  PROVE  JoinShaped(c)
<1>1. ParallelPlanned(c) /\ ReportBehindJoin(c)
  BY DEF Admitted, AdmitV4
<1>2. PICK j, d \in c.node :
        /\ Having(c, "parallel_join") = {j}
        /\ Children(c, j) = {d} /\ c.role[d] = "decision"
        /\ {c.cond[m] : m \in Children(c, d)} = {"passed", "failed"}
  BY <1>1 DEF ParallelPlanned
<1>3. j = Join(c)
  BY <1>2, ForkIs
<1>4. PICK m \in Children(c, d) : c.cond[m] = "passed"
  BY <1>2
<1>5. m \in c.node
  BY <1>4 DEF Children
<1>6. Having(c, "daily_report") \subseteq Reaches(c)[m]
  BY <1>1, <1>2, <1>3, <1>4, <1>5 DEF ReportBehindJoin
<1> QED BY <1>2, <1>3, <1>4, <1>5, <1>6 DEF JoinShaped

(* Each lane has a research node and a presentation node of its own.       *)
LanePresentation(l) == CHOOSE p \in Children(contract, LaneResearch[l]) : TRUE

LEMMA LaneNodesAre ==
  ASSUME contract \in Admitted, IsParallel(contract)
  PROVE  /\ \A l \in Lane :
              /\ LaneResearch[l] \in LaneNodes /\ LanePresentation(l) \in LaneNodes
              /\ LaneResearch[l] # LanePresentation(l)
         /\ \A l, k \in Lane : l # k =>
              /\ LaneResearch[l] # LaneResearch[k]
              /\ LaneResearch[l] # LanePresentation(k)
              /\ LanePresentation(l) # LanePresentation(k)
         /\ LaneNodes \subseteq contract.node
<1> DEFINE F == Children(contract, Fork(contract))
<1>1. contract \in Contract /\ ForkShaped(contract)
  BY AdmittedShaped, AdmittedForkShaped
<1>2. IsFiniteSet(F) /\ Cardinality(F) = 2 /\ F \subseteq contract.node
  BY <1>1, ForkIs, ContractIs DEF ForkShaped
<1>3. \E f \in [Lane -> F] : \A l, k \in Lane : f[l] = f[k] => l = k
  <2>1. ExistsBijection(Lane, F)
    BY <1>2, TaskAssumption, ContractAssumption, FS_SameCardinalityBij
  <2> HIDE DEF F
  <2> QED BY <2>1 DEF ExistsBijection, Bijection, Injection, IsInjective
<1>4. /\ LaneResearch \in [Lane -> F]
      /\ \A l, k \in Lane : LaneResearch[l] = LaneResearch[k] => l = k
  BY <1>3 DEF LaneResearch
<1>5. \A l \in Lane :
        /\ LaneResearch[l] \in F /\ contract.role[LaneResearch[l]] = "research"
        /\ LanePresentation(l) \in Children(contract, LaneResearch[l])
        /\ contract.role[LanePresentation(l)] = "presentation"
        /\ contract.depends[LanePresentation(l)] = {LaneResearch[l]}
  BY <1>1, <1>4 DEF ForkShaped, LanePresentation
<1>6. \A l \in Lane : LaneResearch[l] \in LaneNodes /\ LanePresentation(l) \in LaneNodes
  BY <1>5 DEF LaneNodes
<1>7. LaneNodes \subseteq contract.node
  BY <1>2 DEF LaneNodes, Children
<1> QED BY <1>4, <1>5, <1>6, <1>7

(* The node of a role in a chain of the V2 dispatch.                       *)
LEMMA ChainNode ==
  ASSUME NEW c \in AdmittedV2,
         NEW role \in {"research", "presentation", "daily_report"}
  PROVE  NodeFor(c, role) \in c.node /\ c.role[NodeFor(c, role)] = role
<1>1. c \in Contract /\ Cardinality(Having(c, role)) = 1
  BY DEF AdmittedV2, AdmitV2
<1>2. Having(c, role) # {}
  BY <1>1, ContractIs, FS_EmptySet
<1>3. \E n \in c.node : c.role[n] = role
  BY <1>2 DEF Having
<1> QED BY <1>3 DEF NodeFor

(* Whoever is in a set closed under parents has its ancestors in it.       *)
LEMMA AncestorsIn ==
  ASSUME NEW c, NEW S \in SUBSET c.node, \A n \in S : c.depends[n] \subseteq S,
         NEW m \in c.node, NEW n \in S, n \in Reaches(c)[m]
  PROVE  m \in S
<1> DEFINE closed == {T \in SUBSET c.node : \A x \in T : c.depends[x] \subseteq T}
<1>1. S \in closed
  OBVIOUS
<1>2. \A T \in closed : n \in T => m \in T
  BY DEF Reaches
<1> QED BY <1>1, <1>2
=============================================================================
