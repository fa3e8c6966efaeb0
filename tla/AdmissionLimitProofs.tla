------------------------- MODULE AdmissionLimitProofs -------------------------
(* The policy limit: the work admitted never exceeds it, for every set of jobs,  *)
(* leases and configurations.  A sum of weights is reasoned about as a number of *)
(* slots: an element of weight n occupies n slots.                               *)
EXTENDS AdmissionProofs, FiniteSetTheorems

-----------------------------------------------------------------------------
(* Sums of weights and slots. *)

Weight == 1..4

\* The slots the elements of S occupy under the weights w.
Slots(w, S) == {p \in S \X Weight : p[2] =< w[p[1]]}

\* The element a sum over s takes next.
First(s) == CHOOSE x \in s : TRUE

\* h sums w over every subset of S, one element at a time.
Sums(h, w, S) ==
    h = [s \in SUBSET S |-> IF s = {} THEN 0 ELSE w[First(s)] + h[s \ {First(s)}]]

\* Finitely many elements occupy finitely many slots.
LEMMA SlotsFinite ==
    ASSUME NEW w, NEW S, IsFiniteSet(S)
    PROVE  IsFiniteSet(Slots(w, S)) /\ Cardinality(Slots(w, S)) \in Nat
<1>1. IsFiniteSet(Weight)
  <2>1. \A n \in Int : IsFiniteSet(1..n)
    BY FS_Interval
  <2>2. 4 \in Int
    OBVIOUS
  <2>3. IsFiniteSet(1..4)
    BY <2>1, <2>2, Zenon
  <2> QED
    BY <2>3 DEF Weight
<1>2. IsFiniteSet(S \X Weight)
  BY <1>1, FS_Product
<1>3. Slots(w, S) \in SUBSET (S \X Weight)
  BY DEF Slots
<1>4. IsFiniteSet(Slots(w, S))
  BY <1>2, <1>3, FS_Subset
<1> QED
  BY <1>4, FS_CardinalityType

\* One more element occupies as many more slots as it weighs.
LEMMA SlotsOfOneMore ==
    ASSUME NEW w, NEW S, IsFiniteSet(S), NEW x \in S, w[x] \in Weight
    PROVE  Cardinality(Slots(w, S)) = w[x] + Cardinality(Slots(w, S \ {x}))
<1> DEFINE R == Slots(w, S \ {x})
           X == {x} \X (1..w[x])
<1>1. IsFiniteSet(R) /\ Cardinality(R) \in Nat
  BY SlotsFinite, FS_RemoveElement
<1>2. IsFiniteSet(X) /\ Cardinality(X) = w[x]
  <2>1. IsFiniteSet(1..w[x]) /\ Cardinality(1..w[x]) = w[x]
    BY FS_Interval DEF Weight
  <2>2. IsFiniteSet({x}) /\ Cardinality({x}) = 1
    BY FS_Singleton
  <2>3. IsFiniteSet(X) /\ Cardinality(X) = Cardinality({x}) * Cardinality(1..w[x])
    BY <2>1, <2>2, FS_Product
  <2> QED
    BY <2>1, <2>2, <2>3 DEF Weight
<1>3. Slots(w, S) = R \cup X
  BY DEF Slots, Weight
<1>4. R \cap X = {}
  BY DEF Slots
<1> HIDE DEF R, X
<1>5. Cardinality(R \cup X) = Cardinality(R) + Cardinality(X) - Cardinality(R \cap X)
  BY <1>1, <1>2, FS_Union
<1>6. Cardinality(R \cap X) = 0
  BY <1>4, FS_EmptySet
<1>7. Cardinality(Slots(w, S)) = w[x] + Cardinality(R)
  BY <1>1, <1>2, <1>3, <1>5, <1>6 DEF Weight
<1> QED
  BY <1>7 DEF R

\* A sum of weights counts slots.
LEMMA SumCountsSlots ==
    ASSUME NEW w, NEW S, IsFiniteSet(S), \A x \in S : w[x] \in Weight,
           NEW h, Sums(h, w, S)
    PROVE  h[S] = Cardinality(Slots(w, S))
<1> DEFINE Bad == {s \in SUBSET S : h[s] # Cardinality(Slots(w, s))}
<1> SUFFICES ASSUME Bad # {} PROVE FALSE
  OBVIOUS
<1>1. PICK s \in Bad : \A t \in Bad : ~(<<t, s>> \in StrictSubsetOrdering(S))
  <2>1. IsWellFoundedOn(StrictSubsetOrdering(S), SUBSET S)
    BY FS_StrictSubsetOrderingWellFounded, FS_FiniteSubsetsOfFinite
  <2>2. Bad \subseteq SUBSET S
    OBVIOUS
  <2> HIDE DEF Bad
  <2> QED
    BY <2>1, <2>2, WFMin
<1>2. s \subseteq S /\ h[s] # Cardinality(Slots(w, s)) /\ IsFiniteSet(s)
  BY FS_Subset
<1>3. h[s] = IF s = {} THEN 0 ELSE w[First(s)] + h[s \ {First(s)}]
  BY <1>2 DEF Sums
<1>4. CASE s = {}
  <2>1. Slots(w, s) = {}
    BY <1>4 DEF Slots
  <2> QED
    BY <1>2, <1>3, <1>4, <2>1, FS_EmptySet
<1>5. CASE s # {}
  <2>1. First(s) \in s
    BY <1>5 DEF First
  <2> DEFINE t == s \ {First(s)}
  <2>2. <<t, s>> \in StrictSubsetOrdering(S)
    BY <1>2, <2>1 DEF StrictSubsetOrdering
  <2>3. h[t] = Cardinality(Slots(w, t))
    BY <1>1, <1>2, <2>2
  <2>4. Cardinality(Slots(w, s)) = w[First(s)] + Cardinality(Slots(w, t))
    BY <1>2, <2>1, SlotsOfOneMore
  <2> QED
    BY <1>2, <1>3, <1>5, <2>3, <2>4
<1> QED
  BY <1>4, <1>5

\* A finite set has a sum: the number of its slots.
LEMMA SumExists ==
    ASSUME NEW w, NEW S, IsFiniteSet(S), \A x \in S : w[x] \in Weight
    PROVE  Sums([s \in SUBSET S |-> Cardinality(Slots(w, s))], w, S)
<1> DEFINE h == [s \in SUBSET S |-> Cardinality(Slots(w, s))]
<1>1. ASSUME NEW s \in SUBSET S
      PROVE  h[s] = IF s = {} THEN 0 ELSE w[First(s)] + h[s \ {First(s)}]
  <2>1. CASE s = {}
    <3>1. Slots(w, s) = {}
      BY <2>1 DEF Slots
    <3> QED
      BY <2>1, <3>1, FS_EmptySet
  <2>2. CASE s # {}
    <3>1. First(s) \in s /\ IsFiniteSet(s)
      BY <2>2, FS_Subset DEF First
    <3>2. Cardinality(Slots(w, s)) = w[First(s)] + Cardinality(Slots(w, s \ {First(s)}))
      BY <3>1, SlotsOfOneMore
    <3> QED
      BY <2>2, <3>2
  <2> QED
    BY <2>1, <2>2
<1> QED
  BY <1>1 DEF Sums

\* Where the weights agree, so do the slots.
LEMMA SameSlots ==
    ASSUME NEW w, NEW v, NEW S, \A x \in S : w[x] = v[x]
    PROVE  Slots(w, S) = Slots(v, S)
BY DEF Slots

-----------------------------------------------------------------------------
(* The two sums of the model. *)

\* The weight of each lease, and of the lease each job works under.
LeaseWeight == [l \in Lease |-> Config[owner[l]].weight]
WorkWeight == [j \in Job |-> Config[IF Acquires(j) THEN j ELSE Config[j].control].weight]

\* The jobs WorkWithinLimit sums over.
AtWork == {j \in Job : /\ pc[j] = "working"
                       /\ Held(j) # NoLease
                       /\ status[Held(j)] = "active"}

\* Both weights are those of the inputs.
LEMMA WeightTypes ==
    ASSUME TypeOK
    PROVE  /\ \A l \in Lease : LeaseWeight[l] \in Weight
           /\ \A j \in Job : WorkWeight[j] \in Weight
BY ConfigAssumption DEF TypeOK, LeaseWeight, WorkWeight, JobConfig, Weight

\* The Worker's sum over the active leases.
LEMMA ActiveWeightCounts ==
    ASSUME TypeOK, IsFiniteSet(ActiveLeases)
    PROVE  ActiveWeight = Cardinality(Slots(LeaseWeight, ActiveLeases))
<1> DEFINE A == ActiveLeases
           P(h) == h = [s \in SUBSET A |->
                          IF s = {} THEN 0
                          ELSE Config[owner[First(s)]].weight + h[s \ {First(s)}]]
<1>1. \A x \in A : LeaseWeight[x] \in Weight /\ LeaseWeight[x] = Config[owner[x]].weight
  BY WeightTypes DEF ActiveLeases, LeaseWeight
<1>2. ActiveWeight = (CHOOSE h : P(h))[A]
  BY DEF ActiveWeight, MapThenSumSet, MapThenFoldSet, First
<1>3. ASSUME NEW h PROVE P(h) <=> Sums(h, LeaseWeight, A)
  <2>1. \A s \in SUBSET A : s # {} => Config[owner[First(s)]].weight = LeaseWeight[First(s)]
    BY <1>1 DEF First
  <2> QED
    BY <2>1 DEF Sums
<1>4. \E h : P(h)
  BY <1>1, <1>3, SumExists
<1> HIDE DEF P
<1>5. P(CHOOSE h : P(h))
  BY <1>4
<1> QED
  BY <1>1, <1>2, <1>3, <1>5, SumCountsSlots

\* The sum over the jobs at work.
LEMMA WorkWeightCounts ==
    ASSUME TypeOK, IsFiniteSet(AtWork)
    PROVE  MapThenSumSet(
               LAMBDA j : Config[IF Acquires(j) THEN j ELSE Config[j].control].weight, AtWork)
             = Cardinality(Slots(WorkWeight, AtWork))
<1> DEFINE A == AtWork
           W(j) == Config[IF Acquires(j) THEN j ELSE Config[j].control].weight
           P(h) == h = [s \in SUBSET A |->
                          IF s = {} THEN 0 ELSE W(First(s)) + h[s \ {First(s)}]]
<1>1. \A x \in A : WorkWeight[x] \in Weight /\ WorkWeight[x] = W(x)
  BY WeightTypes DEF AtWork, WorkWeight
<1>2. MapThenSumSet(
          LAMBDA j : Config[IF Acquires(j) THEN j ELSE Config[j].control].weight, AtWork)
        = (CHOOSE h : P(h))[A]
  BY DEF MapThenSumSet, MapThenFoldSet, First
<1>3. ASSUME NEW h PROVE P(h) <=> Sums(h, WorkWeight, A)
  <2>1. \A s \in SUBSET A : s # {} => W(First(s)) = WorkWeight[First(s)]
    BY <1>1 DEF First
  <2> HIDE DEF W
  <2> QED
    BY <2>1 DEF Sums
<1>4. \E h : P(h)
  BY <1>1, <1>3, SumExists
<1> HIDE DEF P
<1>5. P(CHOOSE h : P(h))
  BY <1>4
<1> QED
  BY <1>1, <1>2, <1>3, <1>5, SumCountsSlots

-----------------------------------------------------------------------------
(* The Worker's policy. *)

\* The active leases are finitely many and their slots fit the limit.
LimitInv ==
    /\ IsFiniteSet(ActiveLeases)
    /\ Cardinality(Slots(LeaseWeight, ActiveLeases)) =< Limit

\* When no lease becomes active, no slot is added.
LEMMA FewerLeases ==
    ASSUME TypeOK, LimitInv, [Next]_vars, ActiveLeases' \subseteq ActiveLeases
    PROVE  LimitInv'
<1>1. \A l \in ActiveLeases' : LeaseWeight'[l] = LeaseWeight[l]
  BY CreatedForGood DEF ActiveLeases, LeaseWeight
<1> DEFINE S == Slots(LeaseWeight, ActiveLeases)
           T == Slots(LeaseWeight, ActiveLeases)'
<1>2. T \in SUBSET S
  BY <1>1 DEF Slots
<1>3. IsFiniteSet(S) /\ Cardinality(S) \in Nat /\ Cardinality(S) =< Limit
  BY SlotsFinite DEF LimitInv
<1> HIDE DEF S, T
<1>4. IsFiniteSet(T) /\ Cardinality(T) =< Cardinality(S) /\ Cardinality(T) \in Nat
  BY <1>2, <1>3, FS_Subset, FS_CardinalityType
<1>5. Cardinality(T) =< Limit
  BY <1>3, <1>4, ConfigAssumption
<1>6. IsFiniteSet(ActiveLeases')
  BY FS_Subset DEF LimitInv
<1> QED
  BY <1>5, <1>6 DEF LimitInv, T

\* A grant adds the slots there is room for.
LEMMA GrantFits ==
    ASSUME TypeOK, TypeOK', LimitInv, NEW m \in net, GrantLease(m)
    PROVE  LimitInv'
<1> DEFINE A == ActiveLeases
           w == LeaseWeight
           v == LeaseWeight'
<1>1. PICK l \in Lease : /\ status[l] = "unused"
                         /\ status' = [status EXCEPT ![l] = "active"]
                         /\ owner' = [owner EXCEPT ![l] = m.job]
  BY DEF GrantLease
<1>2. ActiveLeases' = A \cup {l} /\ l \notin A
  BY <1>1 DEF TypeOK, ActiveLeases
<1>3. IsFiniteSet(A) /\ IsFiniteSet(A \cup {l}) /\ Cardinality(Slots(w, A)) \in Nat
  BY FS_AddElement, SlotsFinite DEF LimitInv
<1>4. v[l] = Config[m.job].weight /\ v[l] \in Weight
  BY <1>1, WeightTypes, ConfigAssumption DEF TypeOK, Message, LeaseWeight, JobConfig, Weight
<1>5. \A x \in A : v[x] = w[x]
  BY <1>1, <1>2 DEF TypeOK, LeaseWeight, ActiveLeases
<1>6. Cardinality(Slots(w, A)) + Config[m.job].weight =< Limit
  BY <1>3, ActiveWeightCounts DEF GrantLease, HasRoom
<1>7. Slots(v, A) = Slots(w, A)
  BY <1>5, SameSlots
<1> HIDE DEF v, w, A
<1>8. Cardinality(Slots(v, A \cup {l})) = v[l] + Cardinality(Slots(v, (A \cup {l}) \ {l}))
  BY <1>3, <1>4, SlotsOfOneMore
<1>9. (A \cup {l}) \ {l} = A
  BY <1>2
<1>10. Cardinality(Slots(v, A \cup {l})) =< Limit
  BY <1>3, <1>4, <1>6, <1>7, <1>8, <1>9, ConfigAssumption DEF Weight
<1> QED
  BY <1>2, <1>3, <1>10 DEF LimitInv, v

\* The Worker's leases fit the limit along every behaviour.
LEMMA LeasesWithinLimit == Spec => []LimitInv
<1>1. Init => LimitInv
  <2> SUFFICES ASSUME Init PROVE LimitInv
    OBVIOUS
  <2>1. ActiveLeases = {} /\ Slots(LeaseWeight, {}) = {}
    BY DEF Init, ActiveLeases, Slots
  <2> QED
    BY <2>1, FS_EmptySet, ConfigAssumption DEF LimitInv
<1>2. TypeOK /\ TypeOK' /\ LimitInv /\ [Next]_vars => LimitInv'
  <2> SUFFICES ASSUME TypeOK, TypeOK', LimitInv, [Next]_vars PROVE LimitInv'
    OBVIOUS
  <2>1. CASE \E m \in net : GrantLease(m)
    BY <2>1, GrantFits
  <2>2. CASE ~\E m \in net : GrantLease(m)
    <3>1. ASSUME NEW j \in Job, Process(j) \/ Runner(j) \/ Faults(j)
          PROVE  ActiveLeases' \subseteq ActiveLeases
      BY <3>1, OtherMessages DEF ActiveLeases
    <3>2. ASSUME NEW m \in net, Worker(m)
          PROVE  ActiveLeases' \subseteq ActiveLeases
      BY <2>2, <3>2
         DEF TypeOK, ActiveLeases, Worker, ReuseLease, DenyLease, RefuseRequest,
             ReleaseLease, WorkerVars
    <3>3. ASSUME NEW l \in Lease, Expire(l)
          PROVE  ActiveLeases' \subseteq ActiveLeases
      BY <3>3 DEF TypeOK, ActiveLeases, Expire
    <3>4. UNCHANGED vars => ActiveLeases' \subseteq ActiveLeases
      BY DEF vars, ActiveLeases
    <3> QED
      BY <3>1, <3>2, <3>3, <3>4, FewerLeases DEF Next
  <2> QED
    BY <2>1, <2>2
<1> QED
  BY <1>1, <1>2, TypeCorrect, PTL DEF Spec

-----------------------------------------------------------------------------
(* The work under the leases. *)

\* Each job at work has an active lease of its own, of the same weight.
LEMMA OwnLease ==
    ASSUME DistinctSubjects, ExclusiveHandoff, IInv
    PROVE  /\ \A j \in AtWork : /\ Held(j) \in ActiveLeases
                                /\ LeaseWeight[Held(j)] = WorkWeight[j]
           /\ \A i, j \in AtWork : Held(i) = Held(j) => i = j
<1>1. /\ TypeOK
      /\ \A j \in Job : JobInv(j) /\ ControlOver(j) /\ HoldInv(j)
  BY DEF IInv
<1>2. ASSUME NEW j \in AtWork
      PROVE  Held(j) \in Lease /\ status[Held(j)] = "active" /\ owner[Held(j)] = Source(j)
  <2> DEFINE c == Config[j].control
  <2>1. c \in Job /\ outputs[j].lease \in MaybeLease /\ outputs[c].lease \in MaybeLease
    BY <1>1, ConfigAssumption DEF AtWork, JobConfig, TypeOK, Outputs
  <2> QED
    BY <1>1, <2>1 DEF AtWork, Held, HoldInv, Source, MaybeLease
<1>3. \A j \in AtWork : Held(j) \in ActiveLeases /\ LeaseWeight[Held(j)] = WorkWeight[j]
  BY <1>2 DEF ActiveLeases, LeaseWeight, WorkWeight, Source, AtWork
<1>4. ASSUME NEW i \in AtWork, NEW j \in AtWork, Held(i) = Held(j)
      PROVE  i = j
  <2>1. Source(i) = Source(j) /\ i \in Job /\ j \in Job
    BY <1>2, <1>4 DEF AtWork
  <2>2. CASE Acquires(i) /\ Acquires(j)
    BY <2>1, <2>2 DEF Source
  <2>3. CASE Acquires(i) /\ ~Acquires(j)
    BY <1>1, <2>1, <2>3 DEF Source, ControlOver, AtWork
  <2>4. CASE ~Acquires(i) /\ Acquires(j)
    BY <1>1, <2>1, <2>4 DEF Source, ControlOver, AtWork
  <2>5. CASE ~Acquires(i) /\ ~Acquires(j)
    BY <2>1, <2>5 DEF Source, ExclusiveHandoff
  <2> QED
    BY <2>2, <2>3, <2>4, <2>5
<1> QED
  BY <1>3, <1>4

\* The work under active leases fits the policy limit: no two jobs hide behind
\* one lease, so the Worker's count of its leases is a count of the work.
THEOREM WorkFits ==
    ASSUME DistinctSubjects, ExclusiveHandoff
    PROVE  Spec => []WorkWithinLimit
<1>1. IInv /\ LimitInv => WorkWithinLimit
  <2> SUFFICES ASSUME IInv, LimitInv PROVE WorkWithinLimit
    OBVIOUS
  <2> DEFINE S == Slots(WorkWeight, AtWork)
             T == Slots(LeaseWeight, ActiveLeases)
             f == [p \in S |-> <<Held(p[1]), p[2]>>]
             g == [j \in AtWork |-> Held(j)]
  <2>1. TypeOK
    BY DEF IInv
  <2>2. IsFiniteSet(AtWork)
    <3>1. g \in Injection(AtWork, ActiveLeases)
      BY OwnLease DEF Injection, IsInjective
    <3> HIDE DEF g
    <3> QED
      BY <3>1, FS_Injection DEF LimitInv
  <2>3. f \in Injection(S, T)
    <3>1. \A p \in S : /\ p[1] \in AtWork /\ p[2] \in Weight /\ p[2] =< WorkWeight[p[1]]
                       /\ p = <<p[1], p[2]>>
      BY DEF Slots
    <3>2. ASSUME NEW p \in S PROVE f[p] \in T
      BY <3>1, OwnLease DEF Slots
    <3>3. ASSUME NEW p \in S, NEW q \in S, f[p] = f[q] PROVE p = q
      <4>1. Held(p[1]) = Held(q[1]) /\ p[2] = q[2]
        BY <3>3
      <4> QED
        BY <3>1, <4>1, OwnLease
    <3> QED
      BY <3>2, <3>3 DEF Injection, IsInjective
  <2>4. IsFiniteSet(T) /\ Cardinality(T) \in Nat /\ Cardinality(T) =< Limit
    BY SlotsFinite DEF LimitInv
  <2>5. IsFiniteSet(S) /\ Cardinality(S) \in Nat
    BY <2>2, SlotsFinite
  <2>6. MapThenSumSet(
            LAMBDA j : Config[IF Acquires(j) THEN j ELSE Config[j].control].weight, AtWork)
          = Cardinality(S)
    BY <2>1, <2>2, WorkWeightCounts
  <2> HIDE DEF S, T, f
  <2>7. Cardinality(S) =< Cardinality(T)
    BY <2>3, <2>4, FS_Injection
  <2>8. Cardinality(S) =< Limit
    BY <2>4, <2>5, <2>7, ConfigAssumption
  <2> QED
    BY <2>6, <2>8 DEF WorkWithinLimit, AtWork
<1> QED
  BY <1>1, Invariance, LeasesWithinLimit, PTL

=============================================================================
