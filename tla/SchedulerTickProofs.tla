------------------------ MODULE SchedulerTickProofs ------------------------
(***************************************************************************)
(* The limits and the fairness of the selection, for any models,           *)
(* providers, caps and budgets, and any number of overlapping ticks, lanes *)
(* and faults.                                                             *)
(***************************************************************************)
EXTENDS SchedulerTick, FiniteSetTheorems, TLAPS

-----------------------------------------------------------------------------
(* Minima and ranks.                                                       *)

LEMMA MinOfTwo ==
  ASSUME NEW a \in Int, NEW b \in Int
  PROVE  Min({a, b}) = IF a <= b THEN a ELSE b
<1> DEFINE low == IF a <= b THEN a ELSE b
<1>1. \A x \in {a, b} : (\A y \in {a, b} : x =< y) <=> x = low
  BY SMT
<1>2. low \in {a, b}
  OBVIOUS
<1> HIDE DEF low
<1>3. Min({a, b}) = low
  BY <1>1, <1>2 DEF Min
<1> QED
  BY <1>3 DEF low

LEMMA MinOfNaturals ==
  ASSUME NEW S \in SUBSET Nat, S # {}
  PROVE  Min(S) \in S /\ \A y \in S : Min(S) <= y
<1>1. PICK x \in S : \A y \in S : <<y, x>> \notin OpToRel(<, Nat)
  BY NatLessThanWellFounded, WFMin
<1>2. ASSUME NEW y \in S, y < x
      PROVE  FALSE
  <2>1. <<y, x>> \in OpToRel(<, Nat)
    BY <1>2 DEF OpToRel
  <2> QED
    BY <1>1, <2>1
<1>3. \A y \in S : x <= y
  BY <1>2
<1> QED
  BY <1>3 DEF Min

(* In a finite set strictly and totally ordered by R every element has its *)
(* own rank, and all ranks are taken.                                      *)
Rank(S, R) == [m \in S |-> Cardinality({k \in S : <<k, m>> \in R})]

LEMMA Ranks ==
  ASSUME NEW S, IsFiniteSet(S), NEW R,
         \A x \in S : <<x, x>> \notin R,
         \A x, y, z \in S : <<x, y>> \in R /\ <<y, z>> \in R => <<x, z>> \in R,
         \A x, y \in S : x = y \/ <<x, y>> \in R \/ <<y, x>> \in R
  PROVE  /\ Cardinality(S) \in Nat
         /\ \A m \in S : Rank(S, R)[m] \in 0 .. Cardinality(S) - 1
         /\ \A k, m \in S : <<k, m>> \in R => Rank(S, R)[k] < Rank(S, R)[m]
         /\ \A k, m \in S : Rank(S, R)[k] = Rank(S, R)[m] => k = m
         /\ \A i \in 0 .. Cardinality(S) - 1 : \E m \in S : Rank(S, R)[m] = i
<1> DEFINE rank == Rank(S, R)
<1> DEFINE Below(m) == {k \in S : <<k, m>> \in R}
           n == Cardinality(S)
<1>1. n \in Nat
  BY FS_CardinalityType
<1>2. ASSUME NEW m \in S
      PROVE  IsFiniteSet(Below(m)) /\ Cardinality(Below(m)) \in 0 .. n - 1
  <2>1. Below(m) \in SUBSET S /\ Below(m) # S
    OBVIOUS
  <2> HIDE DEF Below
  <2>2. /\ IsFiniteSet(Below(m)) /\ Cardinality(Below(m)) <= n
        /\ Cardinality(Below(m)) # n
    BY <2>1, FS_Subset
  <2>3. Cardinality(Below(m)) \in Nat
    BY <2>2, FS_CardinalityType
  <2> HIDE DEF n
  <2> QED
    BY <1>1, <2>2, <2>3
<1>3. ASSUME NEW k \in S, NEW m \in S, <<k, m>> \in R
      PROVE  Cardinality(Below(k)) < Cardinality(Below(m))
  <2>1. Below(k) \in SUBSET Below(m) /\ k \in Below(m) /\ k \notin Below(k)
    BY <1>3
  <2>2. IsFiniteSet(Below(m))
    BY <1>2
  <2>3. Cardinality(Below(k)) \in Nat /\ Cardinality(Below(m)) \in Nat
    <3> HIDE DEF Below, n
    <3> QED
      BY <1>1, <1>2
  <2> HIDE DEF Below
  <2>4. /\ Cardinality(Below(k)) <= Cardinality(Below(m))
        /\ Cardinality(Below(k)) # Cardinality(Below(m))
    BY <2>1, <2>2, FS_Subset
  <2> QED
    BY <2>3, <2>4
<1>4. /\ rank \in [S -> {Cardinality(Below(m)) : m \in S}]
      /\ \A m \in S : rank[m] = Cardinality(Below(m))
  <2>1. rank = [m \in S |-> Cardinality(Below(m))]
    BY Zenon DEF Rank
  <2> HIDE DEF Below, rank
  <2> QED
    BY <2>1
<1> HIDE DEF Below, rank
<1>5. \A m \in S : rank[m] \in 0 .. n - 1
  BY <1>2, <1>4
<1>6. \A k, m \in S : <<k, m>> \in R => rank[k] < rank[m]
  BY <1>3, <1>4
<1>7. ASSUME NEW k \in S, NEW m \in S, rank[k] = rank[m]
      PROVE  k = m
  <2> HIDE DEF n
  <2>1. rank[k] \in Int /\ rank[m] \in Int
    BY <1>1, <1>5
  <2>2. k = m \/ <<k, m>> \in R \/ <<m, k>> \in R
    OBVIOUS
  <2> QED
    BY <1>6, <1>7, <2>1, <2>2
<1>8. rank \in Injection(S, 0 .. n - 1)
  BY <1>4, <1>5, <1>7 DEF Injection, IsInjective
<1>9. IsFiniteSet(0 .. n - 1) /\ Cardinality(0 .. n - 1) = n
  <2> HIDE DEF n
  <2>1. Cardinality(0 .. n - 1) = IF 0 > n - 1 THEN 0 ELSE (n - 1) - 0 + 1
    BY <1>1, FS_Interval
  <2> QED
    BY <1>1, <2>1, FS_Interval
<1>10. rank \in Surjection(S, 0 .. n - 1)
  BY <1>8, <1>9, FS_Injection
<1> QED
  BY <1>1, <1>5, <1>6, <1>7, <1>10 DEF Surjection, rank

-----------------------------------------------------------------------------
(* The order of selection.                                                 *)

(* All that selection asks of an order: every model has a place, its own.  *)
Placed(order) ==
  /\ \A m \in Models : Place(order, m) \in Nat
  /\ \A k, m \in Models : Place(order, k) = Place(order, m) => k = m

LEMMA OrdersPlace ==
  ASSUME NEW order, NEW probes, IsOrder(order, probes)
  PROVE  Placed(order)
<1>1. ASSUME NEW m \in Models
      PROVE  Place(order, m) \in 1 .. Len(order) /\ order[Place(order, m)] = m
  <2>1. PICK i \in DOMAIN order : order[i] = m
    BY DEF IsOrder, ToSet
  <2>2. Place(order, m) \in DOMAIN order /\ order[Place(order, m)] = m
    BY <2>1 DEF Place
  <2> QED
    BY <2>2 DEF IsOrder
<1>2. Len(order) \in Nat
  BY DEF IsOrder
<1>3. \A m \in Models : Place(order, m) \in Nat
  BY <1>1, <1>2
<1> QED
  BY <1>1, <1>3 DEF Placed

LEMMA ModelsFinite == IsFiniteSet(Models)
<1>1. ByName \in Seq(Models) /\ ToSet(ByName) = Models
  BY SchedulerTickAssumption
<1>2. ByName \in Surjection(1 .. Len(ByName), Models) /\ Len(ByName) \in Nat
  BY <1>1 DEF Surjection, ToSet
<1>3. IsFiniteSet(1 .. Len(ByName))
  BY <1>2, FS_Interval
<1> QED
  BY <1>2, <1>3, FS_Surjection

(* The turns of a provider's models are 1, 2, ... in their order.          *)
LEMMA TurnsCount ==
  ASSUME NEW order, Placed(order), NEW ms \in SUBSET Models
  PROVE  /\ \A m \in ms : Turn(order, ms, m) \in Nat \ {0}
         /\ \A k, m \in ms :
              ProviderOf[k] = ProviderOf[m] /\ Place(order, k) < Place(order, m)
                => Turn(order, ms, k) < Turn(order, ms, m)
         /\ \A k, m \in ms :
              ProviderOf[k] = ProviderOf[m] /\ Turn(order, ms, k) = Turn(order, ms, m)
                => k = m
<1> DEFINE Ahead(m) == {k \in Of(ms, ProviderOf[m]) : Place(order, k) <= Place(order, m)}
<1>1. \A m \in ms : Turn(order, ms, m) = Cardinality(Ahead(m)) /\ m \in Models
  BY DEF Turn
<1>2. ASSUME NEW m \in ms
      PROVE  m \in Ahead(m) /\ Ahead(m) \in SUBSET Models
  BY DEF Of, Placed
<1>3. ASSUME NEW k \in ms, NEW m \in ms, ProviderOf[k] = ProviderOf[m],
             Place(order, k) < Place(order, m)
      PROVE  Ahead(k) \subseteq Ahead(m) /\ m \notin Ahead(k)
  BY <1>3 DEF Of, Placed
<1> HIDE DEF Ahead
<1>4. ASSUME NEW m \in ms
      PROVE  IsFiniteSet(Ahead(m)) /\ Cardinality(Ahead(m)) \in Nat \ {0}
  <2>1. IsFiniteSet(Ahead(m)) /\ Ahead(m) # {}
    BY <1>2, ModelsFinite, FS_Subset
  <2> QED
    BY <2>1, FS_EmptySet, FS_CardinalityType
<1>5. ASSUME NEW k \in ms, NEW m \in ms, ProviderOf[k] = ProviderOf[m],
             Place(order, k) < Place(order, m)
      PROVE  Turn(order, ms, k) < Turn(order, ms, m)
  <2>1. Ahead(k) \in SUBSET Ahead(m) /\ Ahead(k) # Ahead(m)
    BY <1>2, <1>3, <1>5
  <2>2. /\ Cardinality(Ahead(k)) <= Cardinality(Ahead(m))
        /\ Cardinality(Ahead(k)) # Cardinality(Ahead(m))
    BY <1>4, <2>1, FS_Subset
  <2> QED
    BY <1>1, <1>4, <2>2
<1>6. ASSUME NEW k \in ms, NEW m \in ms, ProviderOf[k] = ProviderOf[m],
             Turn(order, ms, k) = Turn(order, ms, m)
      PROVE  k = m
  <2>1. Place(order, k) \in Nat /\ Place(order, m) \in Nat
        /\ (Place(order, k) = Place(order, m) => k = m)
    BY DEF Placed
  <2>2. Turn(order, ms, k) \in Nat /\ Turn(order, ms, m) \in Nat
    BY <1>1, <1>4
  <2>3. /\ ~(Place(order, k) < Place(order, m))
        /\ ~(Place(order, m) < Place(order, k))
    BY <1>5, <1>6, <2>2
  <2> QED
    BY <2>1, <2>3
<1> QED
  BY <1>1, <1>4, <1>5, <1>6

(* Providers with candidates are told apart by their oldest ones.          *)
LEMMA OldestTellsProviders ==
  ASSUME NEW order, Placed(order), NEW ms \in SUBSET Models
  PROVE  /\ \A m \in ms : Oldest(order, ms, ProviderOf[m]) \in Nat
         /\ \A k, m \in ms :
              Oldest(order, ms, ProviderOf[k]) = Oldest(order, ms, ProviderOf[m])
                => ProviderOf[k] = ProviderOf[m]
<1> DEFINE Places(p) == {Place(order, m) : m \in Of(ms, p)}
<1>1. ASSUME NEW m \in ms
      PROVE  /\ Oldest(order, ms, ProviderOf[m]) \in Nat
             /\ \E k \in ms : /\ ProviderOf[k] = ProviderOf[m]
                              /\ Place(order, k) = Oldest(order, ms, ProviderOf[m])
  <2>1. Places(ProviderOf[m]) \in SUBSET Nat /\ Place(order, m) \in Places(ProviderOf[m])
    BY DEF Of, Placed
  <2>2. Min(Places(ProviderOf[m])) \in Places(ProviderOf[m])
    <3> HIDE DEF Places
    <3> QED
      BY <2>1, MinOfNaturals
  <2>3. Oldest(order, ms, ProviderOf[m]) = Min(Places(ProviderOf[m]))
    BY DEF Oldest
  <2>4. Oldest(order, ms, ProviderOf[m]) \in Places(ProviderOf[m])
    BY <2>2, <2>3
  <2> QED
    BY <2>1, <2>4 DEF Of
<1>2. ASSUME NEW k \in ms, NEW m \in ms,
             Oldest(order, ms, ProviderOf[k]) = Oldest(order, ms, ProviderOf[m])
      PROVE  ProviderOf[k] = ProviderOf[m]
  BY <1>1, <1>2 DEF Placed
<1> QED
  BY <1>1, <1>2

(* Before puts the candidates in a strict total order.                     *)
BeforePairs(order, ms) ==
  {pair \in ms \X ms : Before(order, ms, pair[1], pair[2])}

LEMMA BeforeIsTotal ==
  ASSUME NEW order, Placed(order), NEW ms \in SUBSET Models
  PROVE  /\ \A k, m \in ms : <<k, m>> \in BeforePairs(order, ms) <=> Before(order, ms, k, m)
         /\ \A m \in ms : ~Before(order, ms, m, m)
         /\ \A j, k, m \in ms : Before(order, ms, j, k) /\ Before(order, ms, k, m)
                                  => Before(order, ms, j, m)
         /\ \A k, m \in ms : k = m \/ Before(order, ms, k, m) \/ Before(order, ms, m, k)
<1> DEFINE turn(m) == Turn(order, ms, m)
           old(m)  == Oldest(order, ms, ProviderOf[m])
<1>1. \A m \in ms : turn(m) \in Nat /\ old(m) \in Nat
  BY TurnsCount, OldestTellsProviders
<1>2. \A k, m \in ms : turn(k) = turn(m) /\ old(k) = old(m) => k = m
  BY TurnsCount, OldestTellsProviders
<1>3. \A k, m \in ms : Before(order, ms, k, m)
                         <=> turn(k) < turn(m) \/ (turn(k) = turn(m) /\ old(k) < old(m))
  BY DEF Before
<1> HIDE DEF turn, old
<1>4. \A k, m \in ms : <<k, m>> \in BeforePairs(order, ms) <=> Before(order, ms, k, m)
  BY DEF BeforePairs
<1> QED
  BY <1>1, <1>2, <1>3, <1>4

LEMMA NthHasRank ==
  ASSUME NEW order, Placed(order), NEW ms \in SUBSET Models, NEW picks \in SUBSET ms,
         NEW rank, rank = Rank(picks, BeforePairs(order, ms))
  PROVE  /\ Cardinality(picks) \in Nat
         /\ \A i \in 1 .. Cardinality(picks) :
              Nth(order, ms, picks, i) \in picks /\ rank[Nth(order, ms, picks, i)] = i - 1
         /\ \A m \in picks : /\ rank[m] + 1 \in 1 .. Cardinality(picks)
                             /\ Nth(order, ms, picks, rank[m] + 1) = m
         /\ \A k, m \in picks : Before(order, ms, k, m) => rank[k] < rank[m]
<1> DEFINE R == BeforePairs(order, ms)
           n == Cardinality(picks)
           nth(i) == Nth(order, ms, picks, i)
           Ahead(m) == {k \in picks : Before(order, ms, k, m)}
<1>1. /\ \A k, m \in picks : <<k, m>> \in R <=> Before(order, ms, k, m)
      /\ \A x \in picks : <<x, x>> \notin R
      /\ \A x, y, z \in picks : <<x, y>> \in R /\ <<y, z>> \in R => <<x, z>> \in R
      /\ \A x, y \in picks : x = y \/ <<x, y>> \in R \/ <<y, x>> \in R
  <2>1. \A m \in picks : m \in ms
    OBVIOUS
  <2> QED
    BY <2>1, BeforeIsTotal
<1>2. IsFiniteSet(picks)
  BY ModelsFinite, FS_Subset
<1> HIDE DEF R
<1>3. /\ n \in Nat
      /\ \A m \in picks : rank[m] \in 0 .. n - 1
      /\ \A k, m \in picks : <<k, m>> \in R => rank[k] < rank[m]
      /\ \A k, m \in picks : rank[k] = rank[m] => k = m
      /\ \A i \in 0 .. n - 1 : \E m \in picks : rank[m] = i
  <2>1. rank = Rank(picks, R)
    BY DEF R
  <2> QED
    BY <1>1, <1>2, <2>1, Ranks
<1>4. ASSUME NEW m \in picks PROVE rank[m] = Cardinality(Ahead(m))
  <2>1. rank[m] = Cardinality({k \in picks : <<k, m>> \in R})
    BY DEF Rank, R
  <2>2. {k \in picks : <<k, m>> \in R} = Ahead(m)
    BY <1>1
  <2> QED
    BY <2>1, <2>2
<1>5. ASSUME NEW i PROVE nth(i) = CHOOSE m \in picks : Cardinality(Ahead(m)) = i - 1
  BY DEF Nth
<1> HIDE DEF Ahead, nth, n
<1>6. ASSUME NEW i \in 1 .. n
      PROVE  nth(i) \in picks /\ rank[nth(i)] = i - 1
  <2>1. i - 1 \in 0 .. n - 1
    BY <1>3
  <2>2. \E m \in picks : Cardinality(Ahead(m)) = i - 1
    BY <1>3, <1>4, <2>1
  <2>3. nth(i) \in picks /\ Cardinality(Ahead(nth(i))) = i - 1
    BY <1>5, <2>2
  <2> QED
    BY <1>4, <2>3
<1>7. ASSUME NEW m \in picks
      PROVE  rank[m] + 1 \in 1 .. n /\ nth(rank[m] + 1) = m
  <2>1. rank[m] \in 0 .. n - 1
    BY <1>3
  <2>2. rank[m] + 1 \in 1 .. n
    BY <1>3, <2>1
  <2>3. nth(rank[m] + 1) \in picks /\ rank[nth(rank[m] + 1)] = (rank[m] + 1) - 1
    BY <1>6, <2>2
  <2>4. rank[nth(rank[m] + 1)] = rank[m]
    BY <1>3, <2>1, <2>3
  <2> QED
    BY <1>3, <2>2, <2>3, <2>4
<1> QED
  BY <1>1, <1>3, <1>6, <1>7 DEF n, nth

-----------------------------------------------------------------------------
(* What selectJobs returns.                                                *)

Picked(order, cap, used, out) == Picks(order, Candidates(used, out), cap, used)

Gives(jobs, m) == \E j \in 1 .. Len(jobs) : jobs[j].model = m

(* Jobs of the asked type for different picks, no pick before any of them  *)
(* left out, and none at all unless the global limit is reached.           *)
LEMMA Selection ==
  ASSUME NEW order, Placed(order), NEW type \in Types, NEW global \in Nat,
         NEW cap, NEW used, NEW out,
         NEW jobs, jobs = SelectJobs(order, type, global, cap, used, out)
  PROVE  /\ jobs \in Seq(Job)
         /\ Len(jobs) \in Nat /\ Len(jobs) <= global
         /\ \A i \in 1 .. Len(jobs) :
              jobs[i].type = type /\ jobs[i].model \in Picked(order, cap, used, out)
         /\ \A i, j \in 1 .. Len(jobs) : jobs[i].model = jobs[j].model => i = j
         /\ \A k \in Picked(order, cap, used, out), i \in 1 .. Len(jobs) :
              Before(order, Candidates(used, out), k, jobs[i].model)
                => Gives(jobs, k)
         /\ Len(jobs) # global => \A k \in Picked(order, cap, used, out) : Gives(jobs, k)
<1> DEFINE ms    == Candidates(used, out)
           picks == Picked(order, cap, used, out)
           n     == Cardinality(picks)
           rank  == Rank(picks, BeforePairs(order, ms))
           nth(i) == Nth(order, ms, picks, i)
           len   == Min({global, n})
<1>1. ms \in SUBSET Models /\ picks \in SUBSET ms
  BY DEF Candidates, Picked, Picks
<1>2. jobs = [i \in 1 .. len |-> [model |-> nth(i), type |-> type]]
  BY DEF SelectJobs, Picked
<1>3. /\ n \in Nat
      /\ \A i \in 1 .. n : nth(i) \in picks /\ rank[nth(i)] = i - 1
      /\ \A m \in picks : rank[m] + 1 \in 1 .. n /\ nth(rank[m] + 1) = m
      /\ \A k, m \in picks : Before(order, ms, k, m) => rank[k] < rank[m]
  <2> HIDE DEF ms, picks
  <2> QED
    BY <1>1, NthHasRank
<1>4. ASSUME NEW m \in picks PROVE rank[m] \in Int
  <2> DEFINE Ahead == {k \in picks : <<k, m>> \in BeforePairs(order, ms)}
  <2>1. rank[m] = Cardinality(Ahead) /\ Ahead \in SUBSET picks
    BY DEF Rank
  <2> HIDE DEF ms, picks, rank, Ahead
  <2>2. IsFiniteSet(picks)
    BY <1>1, ModelsFinite, FS_Subset
  <2>3. IsFiniteSet(Ahead)
    BY <2>1, <2>2, FS_Subset
  <2> QED
    BY <2>1, <2>3, FS_CardinalityType
<1> HIDE DEF ms, picks, n, rank, nth
<1>5. len = IF global <= n THEN global ELSE n
  BY <1>3, MinOfTwo
<1> HIDE DEF len
<1>6. len \in Nat /\ len <= global /\ len <= n /\ (len # global => len = n)
  BY <1>3, <1>5
<1>7. /\ Len(jobs) = len /\ DOMAIN jobs = 1 .. len
      /\ \A i \in 1 .. len : jobs[i] = [model |-> nth(i), type |-> type] /\ nth(i) \in picks
                             /\ rank[nth(i)] = i - 1
  BY <1>2, <1>3, <1>6
<1>8. jobs \in Seq(Job)
  BY <1>1, <1>2, <1>6, <1>7 DEF Job
<1>9. \A i \in 1 .. len : jobs[i].type = type /\ jobs[i].model = nth(i)
  BY <1>7
<1>10. ASSUME NEW i \in 1 .. len, NEW j \in 1 .. len, nth(i) = nth(j)
       PROVE  i = j
  BY <1>6, <1>7, <1>10
<1>11. ASSUME NEW k \in picks, NEW i \in 1 .. len, Before(order, ms, k, nth(i))
       PROVE  \E j \in 1 .. len : nth(j) = k
  <2>1. rank[k] < i - 1 /\ rank[k] \in Int /\ rank[k] + 1 \in 1 .. n
    BY <1>3, <1>4, <1>7, <1>11
  <2>2. rank[k] + 1 \in 1 .. len
    BY <1>3, <1>6, <2>1
  <2> QED
    BY <1>3, <2>2
<1>12. ASSUME len # global, NEW k \in picks
       PROVE  \E j \in 1 .. len : nth(j) = k
  BY <1>3, <1>6, <1>12
<1> QED
  BY <1>6, <1>7, <1>8, <1>9, <1>10, <1>11, <1>12 DEF picks, ms, Gives

-----------------------------------------------------------------------------
(* How many jobs of a provider are selected.                               *)

At(jobs, p) == {i \in DOMAIN jobs : ProviderOf[jobs[i].model] = p}

LEMMA AtFinite ==
  ASSUME NEW jobs \in Seq(Job), NEW p
  PROVE  /\ At(jobs, p) \in SUBSET (1 .. Len(jobs))
         /\ IsFiniteSet(At(jobs, p)) /\ Taken(jobs, p) = Cardinality(At(jobs, p))
         /\ Taken(jobs, p) \in Nat
<1>1. At(jobs, p) \in SUBSET (1 .. Len(jobs)) /\ Len(jobs) \in Nat
  BY DEF At
<1>2. IsFiniteSet(At(jobs, p))
  <2>1. IsFiniteSet(1 .. Len(jobs))
    BY <1>1, FS_Interval
  <2> QED
    BY <1>1, <2>1, FS_Subset
<1>3. Taken(jobs, p) = Cardinality(At(jobs, p))
  BY DEF At, Taken
<1> QED
  BY <1>1, <1>2, <1>3, FS_CardinalityType

LEMMA TakenOfBoth ==
  ASSUME NEW s \in Seq(Job), NEW t \in Seq(Job), NEW p
  PROVE  Taken(s \o t, p) = Taken(s, p) + Taken(t, p)
<1> DEFINE Moved == {i + Len(s) : i \in At(t, p)}
           move  == [i \in At(t, p) |-> i + Len(s)]
<1>1. s \o t \in Seq(Job) /\ Len(s \o t) = Len(s) + Len(t) /\ Len(s) \in Nat /\ Len(t) \in Nat
  OBVIOUS
<1>2. /\ \A i \in 1 .. Len(s) : (s \o t)[i] = s[i]
      /\ \A i \in 1 .. Len(t) : (s \o t)[i + Len(s)] = t[i]
  OBVIOUS
<1>3. At(s \o t, p) = At(s, p) \cup Moved
  <2>1. ASSUME NEW i \in At(s \o t, p) PROVE i \in At(s, p) \cup Moved
    <3>1. i \in 1 .. Len(s) + Len(t) /\ ProviderOf[(s \o t)[i].model] = p
      BY <1>1 DEF At
    <3>2. CASE i <= Len(s)
      BY <1>1, <1>2, <3>1, <3>2 DEF At
    <3>3. CASE i > Len(s)
      <4>1. i - Len(s) \in 1 .. Len(t) /\ i = (i - Len(s)) + Len(s)
        BY <1>1, <3>1, <3>3
      <4>2. i - Len(s) \in At(t, p)
        BY <1>2, <3>1, <4>1 DEF At
      <4> QED
        BY <4>1, <4>2
    <3> QED
      BY <1>1, <3>1, <3>2, <3>3
  <2>2. ASSUME NEW i \in At(s, p) PROVE i \in At(s \o t, p)
    BY <1>1, <1>2 DEF At
  <2>3. ASSUME NEW i \in At(t, p) PROVE i + Len(s) \in At(s \o t, p)
    BY <1>1, <1>2 DEF At
  <2> QED
    BY <2>1, <2>2, <2>3
<1>4. At(s, p) \cap Moved = {}
  BY <1>1 DEF At
<1>5. move \in Bijection(At(t, p), Moved)
  <2>1. \A i \in At(t, p) : i \in Nat
    BY DEF At
  <2>2. move \in Surjection(At(t, p), Moved)
    BY DEF Surjection
  <2>3. move \in Injection(At(t, p), Moved)
    BY <1>1, <2>1 DEF Injection, IsInjective
  <2> QED
    BY <2>2, <2>3 DEF Bijection
<1>6. IsFiniteSet(Moved) /\ Cardinality(Moved) = Cardinality(At(t, p))
  <2> HIDE DEF Moved, move
  <2> QED
    BY <1>5, AtFinite, FS_Bijection DEF ExistsBijection
<1>7. Cardinality(At(s, p) \cup Moved)
        = Cardinality(At(s, p)) + Cardinality(Moved) - Cardinality({})
  <2> HIDE DEF Moved
  <2> QED
    BY <1>4, <1>6, AtFinite, FS_Union
<1> HIDE DEF Moved, move
<1>8. Taken(s \o t, p) = Taken(s, p) + Taken(t, p) - 0
  BY <1>1, <1>3, <1>6, <1>7, AtFinite, FS_EmptySet
<1> QED
  BY <1>8, AtFinite

Counts == [Providers -> Nat]

LEMMA TurnsIs ==
  ASSUME NEW p \in Providers, NEW cap \in Counts, NEW used \in Counts
  PROVE  /\ cap[p] \in Nat /\ used[p] \in Nat /\ RpmLimit[p] \in Nat
         /\ Turns(p, cap, used) =
              IF cap[p] <= RpmLimit[p] - used[p] THEN cap[p] ELSE RpmLimit[p] - used[p]
<1>1. cap[p] \in Nat /\ used[p] \in Nat /\ RpmLimit[p] \in Nat
  BY SchedulerTickAssumption DEF Counts
<1>2. cap[p] \in Int /\ RpmLimit[p] - used[p] \in Int
  BY <1>1
<1> QED
  BY <1>1, <1>2, MinOfTwo DEF Turns

(* A provider has at most its turns, and a turn none but its own job.      *)
LEMMA JobsHaveTurns ==
  ASSUME NEW order, Placed(order), NEW type \in Types, NEW global \in Nat,
         NEW cap \in Counts, NEW used \in Counts, NEW out,
         NEW jobs, jobs = SelectJobs(order, type, global, cap, used, out),
         NEW p, NEW n \in Nat,
         \A i \in At(jobs, p) : Turn(order, Candidates(used, out), jobs[i].model) <= n
  PROVE  Taken(jobs, p) <= n
<1> DEFINE ms   == Candidates(used, out)
           turn == [i \in At(jobs, p) |-> Turn(order, ms, jobs[i].model)]
<1>1. ms \in SUBSET Models
  BY DEF Candidates
<1>2. /\ jobs \in Seq(Job)
      /\ \A i \in 1 .. Len(jobs) : jobs[i].model \in Picked(order, cap, used, out)
      /\ \A i, j \in 1 .. Len(jobs) : jobs[i].model = jobs[j].model => i = j
  BY Selection
<1>3. \A i \in At(jobs, p) : /\ i \in 1 .. Len(jobs) /\ jobs[i].model \in ms
                             /\ ProviderOf[jobs[i].model] = p
  BY <1>2 DEF Picked, Picks, At
<1>4. /\ \A m \in ms : Turn(order, ms, m) \in Nat \ {0}
      /\ \A k, m \in ms :
           ProviderOf[k] = ProviderOf[m] /\ Turn(order, ms, k) = Turn(order, ms, m) => k = m
  <2> HIDE DEF ms
  <2> QED
    BY <1>1, TurnsCount
<1>5. \A i \in At(jobs, p) : turn[i] \in 1 .. n
  BY <1>3, <1>4
<1>6. \A i, j \in At(jobs, p) : turn[i] = turn[j] => i = j
  BY <1>2, <1>3, <1>4
<1>7. turn \in Injection(At(jobs, p), 1 .. n)
  BY <1>5, <1>6 DEF Injection, IsInjective
<1>8. IsFiniteSet(1 .. n) /\ Cardinality(1 .. n) = n
  BY FS_Interval
<1> HIDE DEF turn
<1> QED
  BY <1>2, <1>7, <1>8, AtFinite, FS_Injection

LEMMA TakenWithinTurns ==
  ASSUME NEW order, Placed(order), NEW type \in Types, NEW global \in Nat,
         NEW cap \in Counts, NEW used \in Counts, NEW out,
         NEW jobs, jobs = SelectJobs(order, type, global, cap, used, out),
         NEW p \in Providers, Taken(jobs, p) > 0
  PROVE  Taken(jobs, p) <= cap[p] /\ used[p] + Taken(jobs, p) <= RpmLimit[p]
<1> DEFINE ms == Candidates(used, out)
<1>1. ms \in SUBSET Models
  BY DEF Candidates
<1>2. /\ jobs \in Seq(Job)
      /\ \A i \in 1 .. Len(jobs) : jobs[i].model \in Picked(order, cap, used, out)
  BY Selection
<1>3. \A i \in At(jobs, p) :
         jobs[i].model \in ms /\ Turn(order, ms, jobs[i].model) <= Turns(p, cap, used)
  BY <1>2 DEF Picked, Picks, At
<1>4. \A m \in ms : Turn(order, ms, m) \in Nat \ {0}
  <2> HIDE DEF ms
  <2> QED
    BY <1>1, TurnsCount
<1>5. At(jobs, p) # {}
  BY <1>2, AtFinite, FS_EmptySet
<1>6. Turns(p, cap, used) \in Nat
  BY <1>3, <1>4, <1>5, TurnsIs
<1>7. Taken(jobs, p) <= Turns(p, cap, used)
  BY <1>3, <1>6, JobsHaveTurns
<1>8. Taken(jobs, p) \in Nat
  BY <1>2, AtFinite
<1> QED
  BY <1>6, <1>7, <1>8, TurnsIs

(* The oldest candidate of a provider that is not selected would have had  *)
(* the provider's next turn.                                               *)
LEMMA NextTurn ==
  ASSUME NEW order, Placed(order), NEW ms \in SUBSET Models, NEW jobs \in Seq(Job),
         NEW p, NEW m \in ms, ProviderOf[m] = p,
         ~Gives(jobs, m)
  PROVE  \E k \in ms : /\ ProviderOf[k] = p
                       /\ ~Gives(jobs, k)
                       /\ Turn(order, ms, k) <= Taken(jobs, p) + 1
<1> DEFINE Left   == {k \in Of(ms, p) : ~Gives(jobs, k)}
           Places == {Place(order, k) : k \in Left}
           Given  == {jobs[i].model : i \in At(jobs, p)}
           give   == [i \in At(jobs, p) |-> jobs[i].model]
<1>1. m \in Left
  BY DEF Of
<1>2. Places \in SUBSET Nat /\ Places # {}
  BY <1>1 DEF Of, Placed
<1>3. PICK k \in Left : \A x \in Left : Place(order, k) <= Place(order, x)
  <2> HIDE DEF Places
  <2>1. Min(Places) \in Places /\ \A y \in Places : Min(Places) <= y
    BY <1>2, MinOfNaturals
  <2> QED
    BY <2>1 DEF Places
<1> DEFINE Ahead == {x \in Of(ms, p) : Place(order, x) <= Place(order, k)}
<1>4. k \in ms /\ ProviderOf[k] = p /\ ~Gives(jobs, k)
  BY DEF Of
<1>5. Ahead \in SUBSET (Given \cup {k})
  <2> SUFFICES ASSUME NEW x \in Ahead, x # k PROVE x \in Given
    OBVIOUS
  <2>1. x \in Of(ms, p) /\ x \in Models /\ k \in Models
    BY <1>4 DEF Of
  <2>2. ~(Place(order, k) <= Place(order, x))
    BY <2>1 DEF Placed
  <2>3. x \notin Left
    BY <1>3, <2>2
  <2>4. PICK j \in 1 .. Len(jobs) : jobs[j].model = x
    BY <2>1, <2>3 DEF Gives
  <2>5. j \in At(jobs, p)
    BY <2>1, <2>4 DEF Of, At
  <2> QED
    BY <2>4, <2>5
<1>6. IsFiniteSet(At(jobs, p)) /\ Cardinality(At(jobs, p)) = Taken(jobs, p)
      /\ Taken(jobs, p) \in Nat
  BY AtFinite
<1>7. give \in Surjection(At(jobs, p), Given)
  BY DEF Surjection
<1> HIDE DEF give, Given, Ahead
<1>8. IsFiniteSet(Given) /\ Cardinality(Given) <= Taken(jobs, p)
  BY <1>6, <1>7, FS_Surjection
<1>9. /\ IsFiniteSet(Given \cup {k})
      /\ Cardinality(Given \cup {k})
           = IF k \in Given THEN Cardinality(Given) ELSE Cardinality(Given) + 1
  BY <1>8, FS_AddElement
<1>10. Cardinality(Given) \in Nat
  BY <1>8, FS_CardinalityType
<1>11. IsFiniteSet(Ahead) /\ Cardinality(Ahead) <= Cardinality(Given \cup {k})
  BY <1>5, <1>9, FS_Subset
<1>12. Cardinality(Ahead) \in Nat
  BY <1>11, FS_CardinalityType
<1>13. Cardinality(Ahead) <= Taken(jobs, p) + 1
  BY <1>6, <1>8, <1>9, <1>10, <1>11, <1>12
<1>14. Turn(order, ms, k) = Cardinality(Ahead)
  BY <1>4 DEF Turn, Ahead
<1> QED
  BY <1>4, <1>13, <1>14

(* A provider that could have given one model more means that the limit is *)
(* reached and that no other provider is two turns ahead.                  *)
LEMMA FairSelection ==
  ASSUME NEW order, Placed(order), NEW type \in Types, NEW global \in Nat,
         NEW cap \in Counts, NEW used \in Counts, NEW out,
         NEW jobs, jobs = SelectJobs(order, type, global, cap, used, out),
         NEW p \in Providers,
         Taken(jobs, p) < cap[p], used[p] + Taken(jobs, p) < RpmLimit[p],
         NEW m \in Candidates(used, out), ProviderOf[m] = p,
         ~Gives(jobs, m)
  PROVE  /\ Len(jobs) = global
         /\ \A q \in Providers : Taken(jobs, q) <= Taken(jobs, p) + 1
<1> DEFINE ms == Candidates(used, out)
           n  == Taken(jobs, p)
<1>1. ms \in SUBSET Models
  BY DEF Candidates
<1>2. /\ jobs \in Seq(Job)
      /\ \A i \in 1 .. Len(jobs) : jobs[i].model \in Picked(order, cap, used, out)
      /\ \A k \in Picked(order, cap, used, out), i \in 1 .. Len(jobs) :
           Before(order, ms, k, jobs[i].model) => Gives(jobs, k)
      /\ Len(jobs) # global => \A k \in Picked(order, cap, used, out) : Gives(jobs, k)
  <2> HIDE DEF n
  <2>1. /\ jobs \in Seq(Job)
        /\ \A i \in 1 .. Len(jobs) : jobs[i].model \in Picked(order, cap, used, out)
    BY Selection
  <2>2. \A k \in Picked(order, cap, used, out), i \in 1 .. Len(jobs) :
          Before(order, Candidates(used, out), k, jobs[i].model) => Gives(jobs, k)
    BY Selection
  <2>3. Len(jobs) # global => \A k \in Picked(order, cap, used, out) : Gives(jobs, k)
    BY Selection
  <2> QED
    BY <2>1, <2>2, <2>3
<1>3. PICK k \in ms : /\ ProviderOf[k] = p
                      /\ ~Gives(jobs, k)
                      /\ Turn(order, ms, k) <= n + 1
  <2>1. m \in ms
    OBVIOUS
  <2>2. jobs \in Seq(Job)
    BY <1>2
  <2> HIDE DEF ms
  <2> QED
    BY <1>1, <2>1, <2>2, NextTurn
<1>4. n \in Nat
  BY <1>2, AtFinite
<1>5. \A x \in ms : Turn(order, ms, x) \in Nat \ {0}
  <2> HIDE DEF ms
  <2> QED
    BY <1>1, TurnsCount
<1>6. n + 1 <= Turns(p, cap, used)
  BY <1>4, TurnsIs
<1>7. Turns(p, cap, used) \in Int
  BY TurnsIs
<1>8. Turn(order, ms, k) <= Turns(p, cap, used)
  BY <1>3, <1>4, <1>5, <1>6, <1>7
<1>9. k \in Picked(order, cap, used, out)
  BY <1>3, <1>8 DEF Picked, Picks
<1>10. Len(jobs) = global
  BY <1>2, <1>3, <1>9
<1>11. ASSUME NEW q \in Providers PROVE Taken(jobs, q) <= n + 1
  <2>1. ASSUME NEW i \in At(jobs, q)
        PROVE  Turn(order, ms, jobs[i].model) <= n + 1
    <3>1. i \in 1 .. Len(jobs) /\ jobs[i].model \in ms
      BY <1>2 DEF Picked, Picks, At
    <3>2. ~Before(order, ms, k, jobs[i].model)
      BY <1>2, <1>3, <1>9, <3>1
    <3>3. ~(Turn(order, ms, k) < Turn(order, ms, jobs[i].model))
      BY <3>2 DEF Before
    <3> QED
      BY <1>3, <1>4, <1>5, <3>1, <3>3
  <2>2. n + 1 \in Nat
    BY <1>4
  <2> HIDE DEF n
  <2> QED
    BY <2>1, <2>2, JobsHaveTurns
<1> QED
  BY <1>10, <1>11

-----------------------------------------------------------------------------
(* The orders keep every model, and every probe that is to stamp one.      *)

LEMMA RemovalAt ==
  ASSUME NEW A, NEW s \in Seq(A), NEW i \in 1 .. Len(s)
  PROVE  /\ RemoveAt(s, i) \in Seq(A)
         /\ Len(RemoveAt(s, i)) = Len(s) - 1
         /\ \A j \in 1 .. Len(s) - 1 :
              RemoveAt(s, i)[j] = IF j < i THEN s[j] ELSE s[j + 1]
<1>1. Len(s) \in Nat /\ i \in Nat /\ 1 <= i /\ i <= Len(s)
  OBVIOUS
<1>2. /\ SubSeq(s, 1, i - 1) \in Seq(A) /\ Len(SubSeq(s, 1, i - 1)) = i - 1
      /\ \A j \in 1 .. i - 1 : SubSeq(s, 1, i - 1)[j] = s[j]
  BY <1>1
<1>3. /\ SubSeq(s, i + 1, Len(s)) \in Seq(A)
      /\ Len(SubSeq(s, i + 1, Len(s))) = Len(s) - i
      /\ \A j \in 1 .. Len(s) - i : SubSeq(s, i + 1, Len(s))[j] = s[i + j]
  BY <1>1
<1> DEFINE front == SubSeq(s, 1, i - 1)
           back  == SubSeq(s, i + 1, Len(s))
<1>4. RemoveAt(s, i) = front \o back
  BY DEF RemoveAt
<1>5. /\ front \in Seq(A) /\ Len(front) = i - 1
      /\ back \in Seq(A) /\ Len(back) = Len(s) - i
  BY <1>2, <1>3
<1>6. ASSUME NEW j \in 1 .. Len(s) - 1
      PROVE  (front \o back)[j] = IF j < i THEN s[j] ELSE s[j + 1]
  <2>1. CASE j < i
    <3>1. j \in 1 .. i - 1 /\ front[j] = s[j]
      BY <1>1, <1>2, <2>1
    <3> HIDE DEF front, back
    <3>2. (front \o back)[j] = front[j]
      BY <1>1, <1>5, <3>1
    <3> QED
      BY <2>1, <3>1, <3>2
  <2>2. CASE ~(j < i)
    <3>1. /\ j - (i - 1) \in 1 .. Len(s) - i
          /\ i + (j - (i - 1)) = j + 1
      BY <1>1, <2>2
    <3>2. back[j - (i - 1)] = s[j + 1]
      BY <1>3, <3>1
    <3> HIDE DEF front, back
    <3>3. (front \o back)[j] = back[j - (i - 1)]
      BY <1>1, <1>5, <2>2, <3>1
    <3> QED
      BY <2>2, <3>2, <3>3
  <2> QED
    BY <2>1, <2>2
<1> HIDE DEF front, back
<1>7. front \o back \in Seq(A) /\ Len(front \o back) = Len(s) - 1
  <2>1. front \o back \in Seq(A) /\ Len(front \o back) = Len(front) + Len(back)
    BY <1>5
  <2>2. Len(front) + Len(back) = Len(s) - 1
    BY <1>1, <1>5
  <2> QED
    BY <2>1, <2>2
<1> QED
  BY <1>4, <1>6, <1>7

LEMMA WithoutIt ==
  ASSUME NEW A, NEW s \in Seq(A), IsInjective(s), NEW x
  PROVE  /\ Without(s, x) \in Seq(A) /\ IsInjective(Without(s, x))
         /\ ToSet(Without(s, x)) = ToSet(s) \ {x}
<1>0. Len(s) \in Nat /\ DOMAIN s = 1 .. Len(s)
  OBVIOUS
<1>1. CASE Contains(s, x)
  <2> DEFINE i == Place(s, x)
             t == Without(s, x)
  <2>1. i \in 1 .. Len(s) /\ s[i] = x
    BY <1>0, <1>1 DEF Contains, Place
  <2>2. t = RemoveAt(s, i)
    BY <1>1 DEF Without
  <2> HIDE DEF i, t
  <2>3. /\ t \in Seq(A) /\ Len(t) = Len(s) - 1 /\ DOMAIN t = 1 .. Len(s) - 1
        /\ \A j \in 1 .. Len(s) - 1 : t[j] = IF j < i THEN s[j] ELSE s[j + 1]
    <3>1. /\ t \in Seq(A) /\ Len(t) = Len(s) - 1
          /\ \A j \in 1 .. Len(s) - 1 : t[j] = IF j < i THEN s[j] ELSE s[j + 1]
      BY <2>1, <2>2, RemovalAt
    <3> QED
      BY <3>1
  <2> DEFINE from(j) == IF j < i THEN j ELSE j + 1
  <2>8. \A j \in 1 .. Len(s) - 1 :
          /\ from(j) \in 1 .. Len(s) /\ from(j) # i /\ t[j] = s[from(j)]
    BY <1>0, <2>1, <2>3
  <2>9. \A j, k \in 1 .. Len(s) - 1 : from(j) = from(k) => j = k
    BY <1>0, <2>1
  <2>10. \A j, k \in 1 .. Len(s) : s[j] = s[k] => j = k
    BY <1>0 DEF IsInjective
  <2> HIDE DEF from
  <2>4. \A j \in 1 .. Len(s) - 1 : t[j] \in ToSet(s) /\ t[j] # x
    BY <1>0, <2>1, <2>8, <2>10 DEF ToSet
  <2>5. ASSUME NEW y \in ToSet(s), y # x PROVE y \in ToSet(t)
    <3>1. PICK j \in 1 .. Len(s) : s[j] = y
      BY <1>0 DEF ToSet
    <3>2. CASE j < i
      BY <1>0, <2>1, <2>3, <3>1, <3>2 DEF ToSet
    <3>3. CASE j > i
      <4>1. j - 1 \in 1 .. Len(s) - 1 /\ ~(j - 1 < i) /\ (j - 1) + 1 = j
        BY <1>0, <2>1, <3>1, <3>3
      <4> QED
        BY <2>3, <3>1, <4>1 DEF ToSet
    <3> QED
      BY <1>0, <2>1, <2>5, <3>1, <3>2, <3>3
  <2>6. IsInjective(t)
    BY <2>3, <2>8, <2>9, <2>10 DEF IsInjective
  <2>7. ToSet(t) = ToSet(s) \ {x}
    BY <2>3, <2>4, <2>5 DEF ToSet
  <2> QED
    BY <2>3, <2>6, <2>7 DEF t
<1>2. CASE ~Contains(s, x)
  BY <1>0, <1>2 DEF Contains, Without, ToSet
<1> QED
  BY <1>1, <1>2

LEMMA OrderAppend ==
  ASSUME NEW s, NEW probes, IsOrder(s, probes), NEW w, w \notin Models \cup probes
  PROVE  IsOrder(Append(s, w), probes \cup {w})
<1>1. s \in Seq(Models \cup (probes \cup {w})) /\ Len(s) \in Nat /\ DOMAIN s = 1 .. Len(s)
  <2>1. s \in Seq(Models \cup probes)
    BY DEF IsOrder
  <2> QED
    BY <2>1
<1>2. /\ Append(s, w) \in Seq(Models \cup (probes \cup {w}))
      /\ DOMAIN Append(s, w) = 1 .. Len(s) + 1
      /\ \A i \in 1 .. Len(s) : Append(s, w)[i] = s[i]
      /\ Append(s, w)[Len(s) + 1] = w
  BY <1>1
<1>3. ToSet(Append(s, w)) = ToSet(s) \cup {w}
  BY <1>1, <1>2 DEF ToSet
<1>4. \A i \in 1 .. Len(s) : s[i] # w
  BY <1>1 DEF IsOrder, ToSet
<1>5. IsInjective(Append(s, w))
  <2>1. \A i, j \in 1 .. Len(s) : s[i] = s[j] => i = j
    BY <1>1 DEF IsOrder, IsInjective
  <2>2. \A i \in 1 .. Len(s) + 1 : i = Len(s) + 1 \/ i \in 1 .. Len(s)
    BY <1>1
  <2> QED
    BY <1>2, <1>4, <2>1, <2>2 DEF IsInjective
<1> QED
  BY <1>2, <1>3, <1>5 DEF IsOrder

LEMMA OrderWithout ==
  ASSUME NEW s, NEW probes, IsOrder(s, probes), NEW w, w \notin Models
  PROVE  IsOrder(Without(s, w), probes \ {w})
<1>1. /\ Without(s, w) \in Seq(Models \cup probes) /\ IsInjective(Without(s, w))
      /\ ToSet(Without(s, w)) = ToSet(s) \ {w}
  BY WithoutIt DEF IsOrder
<1>2. ToSet(Without(s, w)) = Models \cup (probes \ {w})
  BY <1>1 DEF IsOrder
<1>3. Without(s, w) \in Seq(Models \cup (probes \ {w}))
  BY <1>1, <1>2 DEF ToSet
<1> QED
  BY <1>1, <1>2, <1>3 DEF IsOrder

LEMMA OrderStamp ==
  ASSUME NEW s, NEW probes, IsOrder(s, probes), NEW w \in probes, w \notin Models,
         NEW m \in Models
  PROVE  IsOrder(Stamp(s, w, m), probes \ {w})
<1> DEFINE rest == Without(s, m)
           t    == Stamp(s, w, m)
<1>1. /\ rest \in Seq(Models \cup probes) /\ IsInjective(rest)
      /\ ToSet(rest) = (Models \cup probes) \ {m}
  BY WithoutIt DEF IsOrder
<1>2. t = [i \in 1 .. Len(rest) |-> IF rest[i] = w THEN m ELSE rest[i]]
  BY DEF Stamp
<1> HIDE DEF rest, t
<1>3. Len(rest) \in Nat /\ DOMAIN rest = 1 .. Len(rest) /\ DOMAIN t = 1 .. Len(rest)
  BY <1>1, <1>2
<1>4. \A i \in 1 .. Len(rest) : /\ rest[i] \in (Models \cup probes) \ {m}
                                /\ t[i] = IF rest[i] = w THEN m ELSE rest[i]
  BY <1>1, <1>2, <1>3 DEF ToSet
<1>5. PICK at \in 1 .. Len(rest) : rest[at] = w
  BY <1>1, <1>3 DEF ToSet
<1>6. t \in Seq(Models \cup (probes \ {w}))
  BY <1>2, <1>3, <1>4
<1>7. ASSUME NEW x \in Models \cup (probes \ {w}) PROVE x \in ToSet(t)
  <2>1. CASE x = m
    BY <1>3, <1>4, <1>5, <2>1 DEF ToSet
  <2>2. CASE x # m
    <3>1. x # w /\ x \in ToSet(rest)
      BY <1>1, <2>2
    <3> QED
      BY <1>3, <1>4, <3>1 DEF ToSet
  <2> QED
    BY <2>1, <2>2
<1>8. ToSet(t) = Models \cup (probes \ {w})
  BY <1>3, <1>4, <1>7 DEF ToSet
<1>9. IsInjective(t)
  BY <1>1, <1>3, <1>4 DEF IsInjective
<1> QED
  BY <1>6, <1>8, <1>9 DEF IsOrder, t

-----------------------------------------------------------------------------
(* Probes begin and end.                                                   *)

OrdersOK ==
  /\ lane \in [Runners -> Job \cup {NoJob}]
  /\ IsOrder(lru, Probing(Types)) /\ IsOrder(speedLru, Probing({"speed"}))

LEMMA RunnersAreNoModels == \A w \in Runners : w \notin Models
BY SchedulerTickAssumption DEF Runners

LEMMA BeginKeepsOrders ==
  ASSUME OrdersOK, NEW w \in Runners, Free(w), NEW j \in Job, Begin(w, j)
  PROVE  OrdersOK'
<1>1. lane' = [lane EXCEPT ![w] = j] /\ lane[w].type = "none"
  BY DEF Begin, Free, NoJob
<1>2. lane' \in [Runners -> Job \cup {NoJob}] /\ lane'[w] = j /\ j.type \in Types
  BY <1>1 DEF OrdersOK, Job
<1>3. \A v \in Runners \ {w} : lane'[v] = lane[v]
  BY <1>1 DEF OrdersOK
<1>4. Probing(Types)' = Probing(Types) \cup {w} /\ w \notin Probing(Types)
  BY <1>1, <1>2, <1>3 DEF Probing, Types
<1>5. IsOrder(Append(lru, w), Probing(Types) \cup {w})
  BY <1>4, OrderAppend, RunnersAreNoModels DEF OrdersOK
<1>6. IsOrder(lru', Probing(Types)')
  BY <1>4, <1>5 DEF Begin
<1>7. IsOrder(speedLru', Probing({"speed"})')
  <2>1. CASE j.type = "speed"
    <3>1. Probing({"speed"})' = Probing({"speed"}) \cup {w} /\ w \notin Probing({"speed"})
      BY <1>1, <1>2, <1>3, <2>1 DEF Probing
    <3>2. IsOrder(Append(speedLru, w), Probing({"speed"}) \cup {w})
      BY <3>1, OrderAppend, RunnersAreNoModels DEF OrdersOK
    <3> QED
      BY <2>1, <3>1, <3>2 DEF Begin
  <2>2. CASE j.type # "speed"
    <3>1. Probing({"speed"})' = Probing({"speed"})
      BY <1>1, <1>2, <1>3, <2>2 DEF Probing
    <3> QED
      BY <2>2, <3>1 DEF Begin, OrdersOK
  <2> QED
    BY <2>1, <2>2
<1> QED
  BY <1>2, <1>6, <1>7 DEF OrdersOK

(* A runner that stops, whatever its probe came to.                        *)
LEMMA Stopping ==
  ASSUME OrdersOK, NEW w \in Runners, lane' = [lane EXCEPT ![w] = NoJob]
  PROVE  /\ lane' \in [Runners -> Job \cup {NoJob}] /\ Free(w)'
         /\ \A v \in Runners \ {w} : lane'[v] = lane[v]
         /\ Probing(Types)' = Probing(Types) \ {w}
         /\ Probing({"speed"})' = Probing({"speed"}) \ {w}
<1>1. lane' \in [Runners -> Job \cup {NoJob}] /\ lane'[w] = NoJob
  BY DEF OrdersOK
<1>2. \A v \in Runners \ {w} : lane'[v] = lane[v]
  BY DEF OrdersOK
<1> QED
  BY <1>1, <1>2 DEF Probing, Types, NoJob, Free

LEMMA EndKeepsOrders ==
  ASSUME OrdersOK, NEW w \in Runners, End(w)
  PROVE  OrdersOK'
<1>1. lane' = [lane EXCEPT ![w] = NoJob] /\ lane[w] \in Job
  BY DEF End, Free, OrdersOK
<1>2. lane[w].model \in Models /\ lane[w].type \in Types /\ w \in Probing(Types)
  BY <1>1 DEF Job, Probing
<1>3. IsOrder(Stamp(lru, w, lane[w].model), Probing(Types) \ {w})
  BY <1>2, OrderStamp, RunnersAreNoModels DEF OrdersOK
<1>4. IsOrder(lru', Probing(Types)')
  BY <1>1, <1>3, Stopping DEF End
<1>5. IsOrder(speedLru', Probing({"speed"})')
  <2>1. CASE lane[w].type = "speed"
    <3>1. w \in Probing({"speed"})
      BY <2>1 DEF Probing
    <3>2. IsOrder(Stamp(speedLru, w, lane[w].model), Probing({"speed"}) \ {w})
      BY <1>2, <3>1, OrderStamp, RunnersAreNoModels DEF OrdersOK
    <3> QED
      BY <1>1, <2>1, <3>2, Stopping DEF End
  <2>2. CASE lane[w].type # "speed"
    <3>1. Probing({"speed"}) \ {w} = Probing({"speed"})
      BY <2>2 DEF Probing
    <3> QED
      BY <1>1, <2>2, <3>1, Stopping DEF End, OrdersOK
  <2> QED
    BY <2>1, <2>2
<1> QED
  BY <1>1, <1>4, <1>5, Stopping DEF OrdersOK

LEMMA ForgetKeepsOrders ==
  ASSUME OrdersOK, NEW w \in Runners, Forget(w)
  PROVE  OrdersOK'
<1>1. lane' = [lane EXCEPT ![w] = NoJob]
  BY DEF Forget
<1>2. /\ IsOrder(Without(lru, w), Probing(Types) \ {w})
      /\ IsOrder(Without(speedLru, w), Probing({"speed"}) \ {w})
  BY OrderWithout, RunnersAreNoModels DEF OrdersOK
<1> QED
  BY <1>1, <1>2, Stopping DEF OrdersOK, Forget

-----------------------------------------------------------------------------
(* The invariant: a tick probes only in its inline loop, and until that    *)
(* has begun it plans what its two passes selected, each from some order.  *)

CodingPass(order, t) ==
  SelectJobs(order, "coding", MaxGlobal, Cap, tick[t].used, tick[t].out)

SpeedPass(jobs, order, t) ==
  SelectJobs(order, "speed", SpeedTake, Minus(Cap, Offset(jobs)),
             Plus(tick[t].used, Offset(jobs)), tick[t].out)

CodingPlan(t) == \E order : Placed(order) /\ tick[t].todo = CodingPass(order, t)

BothPlan(t) ==
  \E o1, o2 : /\ Placed(o1) /\ Placed(o2)
              /\ tick[t].todo = CodingPass(o1, t) \o SpeedPass(CodingPass(o1, t), o2, t)

TickInv(t) ==
  /\ ~Free(t) => In(t, "inline") /\ tick[t].take > 0
  /\ In(t, "speed") => CodingPlan(t)
  /\ JustSelected(t) => CodingPlan(t) \/ BothPlan(t)

TickInvariant == TypeOK /\ \A t \in Ticks : TickInv(t)

LEMMA InitTick == Init => TickInvariant
<1> SUFFICES ASSUME Init PROVE TickInvariant
  OBVIOUS
<1>1. \A types \in {Types, {"speed"}} : Probing(types) = {}
  BY DEF Init, Probing, Types, NoJob
<1>2. IsOrder(ByName, {})
  BY SchedulerTickAssumption DEF IsOrder
<1>3. IsOrder(lru, Probing(Types)) /\ IsOrder(speedLru, Probing({"speed"}))
  BY <1>1, <1>2 DEF Init
<1>4. IdleTick \in Tick
  BY DEF IdleTick, Tick
<1>5. TypeOK
  BY <1>3, <1>4 DEF Init, TypeOK
<1>6. \A t \in Ticks : TickInv(t)
  BY DEF Init, TickInv, Free, In, JustSelected, IdleTick, Runners
<1> QED
  BY <1>5, <1>6 DEF TickInvariant

(* What a tick has planned and runs is its own affair.                     *)
LEMMA OtherTicks ==
  ASSUME NEW t, TickInv(t), tick'[t] = tick[t], lane'[t] = lane[t]
  PROVE  TickInv(t)'
BY DEF TickInv, Free, In, JustSelected, CodingPlan, BothPlan, CodingPass, SpeedPass

LEMMA TickSteps ==
  ASSUME TickInvariant, NEW t \in Ticks, NEW row \in Tick,
         tick' = [tick EXCEPT ![t] = row],
         OrdersOK', \A u \in Ticks \ {t} : lane'[u] = lane[u],
         cooling' = cooling, queue' \in Seq(Job), faults' \in Nat,
         TickInv(t)'
  PROVE  TickInvariant'
<1>1. tick' \in [Ticks -> Tick] /\ \A u \in Ticks \ {t} : tick'[u] = tick[u]
  BY DEF TickInvariant, TypeOK
<1>2. \A u \in Ticks : TickInv(u)'
  BY <1>1, OtherTicks DEF TickInvariant
<1>3. TypeOK'
  BY <1>1 DEF TickInvariant, TypeOK, OrdersOK
<1> QED
  BY <1>2, <1>3 DEF TickInvariant

(* Steps that leave the ticks as they are.                                 *)
LEMMA QuietSteps ==
  ASSUME TickInvariant, tick' = tick,
         OrdersOK', \A u \in Ticks : lane'[u] = lane[u],
         cooling' \subseteq Models, queue' \in Seq(Job), faults' \in Nat
  PROVE  TickInvariant'
<1>1. \A u \in Ticks : TickInv(u)'
  BY OtherTicks DEF TickInvariant
<1>2. TypeOK'
  BY DEF TickInvariant, TypeOK, OrdersOK
<1> QED
  BY <1>1, <1>2 DEF TickInvariant

LEMMA TickTypes ==
  ASSUME TickInvariant, NEW t \in Ticks
  PROVE  /\ OrdersOK /\ t \in Runners
         /\ tick[t] \in Tick /\ tick[t].todo \in Seq(Job) /\ tick[t].take \in Nat
         /\ tick[t].begun \in BOOLEAN /\ tick[t].used \in Counts
         /\ tick[t].out \subseteq Models
         /\ queue \in Seq(Job) /\ faults \in Nat /\ TickInv(t)
<1>1. tick[t] \in Tick
  BY DEF TickInvariant, TypeOK
<1> QED
  BY <1>1 DEF TickInvariant, TypeOK, OrdersOK, Runners, Tick, Counts

LEMMA RunnersTypes ==
  ASSUME TickInvariant
  PROVE  /\ OrdersOK /\ lane \in [Runners -> Job \cup {NoJob}] /\ cooling \subseteq Models
         /\ queue \in Seq(Job) /\ faults \in Nat
BY DEF TickInvariant, TypeOK, OrdersOK

(* A queue lane is not a tick.                                             *)
LEMMA LaneSteps ==
  ASSUME TickInvariant, NEW w \in Lanes,
         Finish(w) \/ FailDelivery(w) \/ \E i \in DOMAIN queue : Receive(w, i)
  PROVE  TickInvariant'
<1>1. w \in Runners /\ w \notin Ticks
  BY SchedulerTickAssumption DEF Runners
<1>2. CASE Finish(w)
  <2>1. OrdersOK' /\ \A u \in Ticks : lane'[u] = lane[u]
    BY <1>1, <1>2, EndKeepsOrders, RunnersTypes DEF Finish, End, Runners
  <2> QED
    BY <1>2, <2>1, QuietSteps, RunnersTypes DEF Finish
<1>3. CASE FailDelivery(w)
  <2>1. OrdersOK' /\ \A u \in Ticks : lane'[u] = lane[u]
    BY <1>1, <1>3, ForgetKeepsOrders, RunnersTypes DEF FailDelivery, Forget, Runners
  <2>2. lane[w] \in Job
    BY <1>1, <1>3, RunnersTypes DEF FailDelivery, Free
  <2>3. queue' \in Seq(Job)
    BY <1>3, <2>2, RunnersTypes DEF FailDelivery
  <2>4. faults' \in Nat
    BY <1>3, RunnersTypes DEF FailDelivery, Fault
  <2> QED
    BY <1>3, <2>1, <2>3, <2>4, QuietSteps, RunnersTypes DEF FailDelivery
<1>4. ASSUME NEW i \in DOMAIN queue, Receive(w, i) PROVE TickInvariant'
  <2>1. queue \in Seq(Job) /\ i \in 1 .. Len(queue) /\ queue[i] \in Job
    BY RunnersTypes
  <2>2. OrdersOK' /\ \A u \in Ticks : lane'[u] = lane[u]
    BY <1>1, <1>4, <2>1, BeginKeepsOrders, RunnersTypes DEF Receive, Begin, Runners
  <2>3. queue' \in Seq(Job)
    BY <1>4, <2>1, RemovalAt DEF Receive
  <2> QED
    BY <1>4, <2>2, <2>3, QuietSteps, RunnersTypes DEF Receive
<1> QED
  BY <1>2, <1>3, <1>4

(* The two passes.                                                         *)
LEMMA SelectionSteps ==
  ASSUME TickInvariant, NEW t \in Ticks,
         \/ \E used \in Usages : SelectCoding(t, used)
         \/ SelectSpeed(t) \/ SkipSpeed(t)
  PROVE  TickInvariant'
<1>1. Placed(lru) /\ Placed(speedLru)
  BY TickTypes, OrdersPlace DEF OrdersOK
<1>2. ASSUME UNCHANGED <<lru, speedLru, lane>>
      PROVE  OrdersOK' /\ \A u \in Ticks : lane'[u] = lane[u]
  BY <1>2, TickTypes DEF OrdersOK, Probing
<1>3. ASSUME NEW used \in Usages, SelectCoding(t, used) PROVE TickInvariant'
  <2> DEFINE jobs == SelectJobs(lru, "coding", MaxGlobal, Cap, used, cooling)
             row  == [IdleTick EXCEPT !.pc = "speed", !.used = used, !.out = cooling,
                        !.todo = jobs]
  <2>1. tick' = [tick EXCEPT ![t] = row]
    BY <1>3 DEF SelectCoding
  <2>2. jobs \in Seq(Job)
    BY <1>1, Selection, SchedulerTickAssumption DEF Types
  <2>3. used \in [Providers -> Nat] /\ cooling \in SUBSET Models
    BY RunnersTypes, SchedulerTickAssumption
  <2> HIDE DEF jobs
  <2>4. row \in Tick
    BY <2>2, <2>3 DEF Tick, IdleTick
  <2>5. /\ row.pc = "speed" /\ row.todo = jobs /\ row.used = used /\ row.out = cooling
    BY DEF IdleTick
  <2> HIDE DEF row
  <2>6. tick'[t] = row
    BY <2>1 DEF TickInvariant, TypeOK
  <2>7. Free(t)'
    BY <1>3, TickTypes DEF SelectCoding, TickInv, In, Free
  <2>8. CodingPlan(t)'
    BY <1>1, <2>5, <2>6 DEF CodingPlan, CodingPass, jobs
  <2>9. TickInv(t)'
    BY <2>5, <2>6, <2>7, <2>8 DEF TickInv, JustSelected, In
  <2>10. /\ OrdersOK' /\ (\A u \in Ticks : lane'[u] = lane[u])
         /\ cooling' = cooling /\ queue' \in Seq(Job) /\ faults' \in Nat
    BY <1>2, <1>3, RunnersTypes DEF SelectCoding
  <2> QED
    BY <2>1, <2>4, <2>9, <2>10, TickSteps
<1>4. ASSUME NEW jobs \in Seq(Job), In(t, "speed"), ToInline(t, jobs),
             CodingPlan(t),
             jobs = tick[t].todo \/ jobs = tick[t].todo \o SpeedJobs(t),
             UNCHANGED <<lru, speedLru, cooling, queue, lane>>, faults' \in Nat
      PROVE  TickInvariant'
  <2> DEFINE row == [tick[t] EXCEPT !.pc = "inline", !.todo = jobs,
                       !.take = Min({InlineTake, Len(jobs)})]
  <2>1. tick' = [tick EXCEPT ![t] = row]
    BY <1>4 DEF ToInline, TickInvariant, TypeOK
  <2>2. Min({InlineTake, Len(jobs)}) \in Nat
    <3>1. InlineTake \in Nat /\ Len(jobs) \in Nat
      BY SchedulerTickAssumption
    <3> QED
      BY <3>1, MinOfTwo
  <2>3. row \in Tick
    BY <2>2, TickTypes DEF Tick
  <2>4. /\ row.pc = "inline" /\ row.todo = jobs
        /\ row.used = tick[t].used /\ row.out = tick[t].out
    BY TickTypes DEF Tick
  <2> HIDE DEF row
  <2>5. tick'[t] = row
    BY <2>1 DEF TickInvariant, TypeOK
  <2>6. Free(t)'
    BY <1>4, TickTypes DEF TickInv, In, Free
  <2>7. (CodingPlan(t) \/ BothPlan(t))'
    <3>1. PICK order : Placed(order) /\ tick[t].todo = CodingPass(order, t)
      BY <1>4 DEF CodingPlan
    <3>2. SpeedJobs(t) = SpeedPass(CodingPass(order, t), speedLru, t)
      BY <3>1 DEF SpeedJobs, SpeedPass
    <3>3. \/ tick'[t].todo = CodingPass(order, t)
          \/ tick'[t].todo = CodingPass(order, t) \o SpeedPass(CodingPass(order, t), speedLru, t)
      BY <1>4, <2>4, <2>5, <3>1, <3>2
    <3>4. \A o1 : CodingPass(o1, t)' = CodingPass(o1, t)
      BY <2>4, <2>5 DEF CodingPass
    <3>5. \A o1, o2 : SpeedPass(CodingPass(o1, t), o2, t)' = SpeedPass(CodingPass(o1, t), o2, t)
      BY <2>4, <2>5, <3>4 DEF SpeedPass
    <3> QED
      BY <1>1, <3>1, <3>3, <3>4, <3>5 DEF CodingPlan, BothPlan
  <2>8. TickInv(t)'
    BY <2>4, <2>5, <2>6, <2>7 DEF TickInv, In
  <2>9. /\ OrdersOK' /\ (\A u \in Ticks : lane'[u] = lane[u])
        /\ cooling' = cooling /\ queue' \in Seq(Job)
    BY <1>2, <1>4, RunnersTypes
  <2> QED
    BY <1>4, <2>1, <2>3, <2>8, <2>9, TickSteps
<1>5. CASE SelectSpeed(t)
  <2>1. SpeedJobs(t) \in Seq(Job)
    BY <1>1, Selection, SchedulerTickAssumption DEF SpeedJobs, Types
  <2>2. tick[t].todo \o SpeedJobs(t) \in Seq(Job)
    BY <2>1, TickTypes
  <2>3. CodingPlan(t) /\ faults \in Nat
    BY <1>5, TickTypes DEF SelectSpeed, TickInv
  <2> QED
    BY <1>4, <1>5, <2>2, <2>3 DEF SelectSpeed
<1>6. CASE SkipSpeed(t)
  <2>1. CodingPlan(t) /\ faults' \in Nat
    BY <1>6, TickTypes DEF SkipSpeed, TickInv, Fault
  <2> QED
    BY <1>4, <1>6, <2>1, TickTypes DEF SkipSpeed
<1> QED
  BY <1>3, <1>5, <1>6

(* The inline loop.                                                        *)
LEMMA InlineSteps ==
  ASSUME TickInvariant, NEW t \in Ticks,
         BeginInline(t) \/ EndInline(t) \/ FailInline(t) \/ EndInlineLoop(t)
  PROVE  TickInvariant'
<1> DEFINE old == tick[t]
<1>1. /\ tick \in [Ticks -> Tick] /\ old \in Tick /\ OrdersOK /\ t \in Runners
      /\ old.todo \in Seq(Job) /\ old.take \in Nat /\ queue \in Seq(Job) /\ faults \in Nat
  BY TickTypes DEF TickInvariant, TypeOK
<1>2. CASE BeginInline(t)
  <2> DEFINE row == [old EXCEPT !.todo = Tail(old.todo), !.begun = TRUE]
  <2>1. tick' = [tick EXCEPT ![t] = row]
    BY <1>1, <1>2 DEF BeginInline
  <2>2. Tail(old.todo) \in Seq(Job) /\ Head(old.todo) \in Job
    BY <1>1, <1>2 DEF BeginInline
  <2>3. row \in Tick
    BY <1>1, <2>2 DEF Tick
  <2>4. row.pc = "inline" /\ row.begun /\ row.take = old.take /\ old.take > 0
    BY <1>1, <1>2 DEF Tick, BeginInline, In
  <2> HIDE DEF row
  <2>5. tick'[t] = row
    BY <1>1, <2>1
  <2>6. TickInv(t)'
    BY <2>4, <2>5 DEF TickInv, In, JustSelected
  <2>7. OrdersOK' /\ \A u \in Ticks \ {t} : lane'[u] = lane[u]
    BY <1>1, <1>2, <2>2, BeginKeepsOrders DEF BeginInline, Begin, OrdersOK, Runners
  <2> QED
    BY <1>1, <1>2, <2>1, <2>3, <2>6, <2>7, TickSteps DEF BeginInline
<1>3. CASE EndInline(t)
  <2> DEFINE row == [old EXCEPT !.take = old.take - 1]
  <2>1. tick' = [tick EXCEPT ![t] = row]
    BY <1>1, <1>3 DEF EndInline
  <2>2. old.take > 0
    BY <1>3, TickTypes DEF EndInline, End, TickInv
  <2>8. old.take - 1 \in Nat
    BY <1>1, <2>2
  <2>3. row \in Tick
    BY <1>1, <2>8 DEF Tick
  <2>4. /\ row.pc = "inline" /\ row.begun = old.begun /\ row.todo = old.todo
        /\ row.used = old.used /\ row.out = old.out
    BY <1>1, <1>3 DEF Tick, EndInline, In
  <2> HIDE DEF row
  <2>5. tick'[t] = row
    BY <1>1, <2>1
  <2>6. OrdersOK' /\ Free(t)' /\ \A u \in Ticks \ {t} : lane'[u] = lane[u]
    <3>1. End(t) /\ lane' = [lane EXCEPT ![t] = NoJob]
      BY <1>3 DEF EndInline, End
    <3> QED
      BY <1>1, <3>1, EndKeepsOrders, Stopping DEF Runners
  <2>7. TickInv(t)'
    BY <1>3, <2>4, <2>5, <2>6, TickTypes
      DEF EndInline, TickInv, In, JustSelected, CodingPlan, BothPlan, CodingPass, SpeedPass
  <2> QED
    BY <1>1, <1>3, <2>1, <2>3, <2>6, <2>7, TickSteps DEF EndInline
<1>4. CASE FailInline(t)
  <2>1. tick' = [tick EXCEPT ![t] = old]
    BY <1>1, <1>4 DEF FailInline
  <2>2. OrdersOK' /\ Free(t)' /\ \A u \in Ticks \ {t} : lane'[u] = lane[u]
    <3>1. Forget(t) /\ lane' = [lane EXCEPT ![t] = NoJob]
      BY <1>4 DEF FailInline, Forget
    <3> QED
      BY <1>1, <3>1, ForgetKeepsOrders, Stopping DEF Runners
  <2>3. tick' = tick
    BY <1>4 DEF FailInline
  <2>4. TickInv(t)'
    BY <2>2, <2>3, TickTypes
      DEF TickInv, In, JustSelected, CodingPlan, BothPlan, CodingPass, SpeedPass
  <2>5. cooling' = cooling /\ queue' \in Seq(Job) /\ faults' \in Nat
    BY <1>1, <1>4 DEF FailInline, Fault
  <2> QED
    BY <1>1, <2>1, <2>2, <2>4, <2>5, TickSteps
<1>5. CASE EndInlineLoop(t)
  <2> DEFINE row == [old EXCEPT !.pc = "send"]
  <2>1. tick' = [tick EXCEPT ![t] = row]
    BY <1>5 DEF EndInlineLoop
  <2>2. row \in Tick /\ row.pc = "send"
    BY <1>1 DEF Tick
  <2> HIDE DEF row
  <2>3. tick'[t] = row
    BY <1>1, <2>1
  <2>4. TickInv(t)'
    BY <1>5, <2>2, <2>3 DEF EndInlineLoop, TickInv, In, JustSelected, Free
  <2>5. OrdersOK' /\ \A u \in Ticks \ {t} : lane'[u] = lane[u]
    BY <1>1, <1>5 DEF EndInlineLoop, OrdersOK, Probing
  <2> QED
    BY <1>1, <1>5, <2>1, <2>2, <2>4, <2>5, TickSteps DEF EndInlineLoop
<1> QED
  BY <1>2, <1>3, <1>4, <1>5

(* What is left is sent; the tick ends, or is killed.                      *)
LEMMA SendSteps ==
  ASSUME TickInvariant, NEW t \in Ticks,
         SendWave(t) \/ LoseWave(t) \/ EndTick(t) \/ KillTick(t)
  PROVE  TickInvariant'
<1> DEFINE old == tick[t]
<1>1. /\ tick \in [Ticks -> Tick] /\ old \in Tick /\ OrdersOK /\ t \in Runners
      /\ old.todo \in Seq(Job) /\ queue \in Seq(Job) /\ faults \in Nat
  BY TickTypes DEF TickInvariant, TypeOK
<1>2. CASE SendWave(t) \/ LoseWave(t)
  <2> DEFINE rest == SubSeq(old.todo, Len(Wave(t)) + 1, Len(old.todo))
             row  == [old EXCEPT !.todo = rest]
  <2>1. tick' = [tick EXCEPT ![t] = row]
    BY <1>2 DEF SendWave, LoseWave, AfterWave
  <2>2. Wave(t) \in Seq(Job)
    <3>1. WaveSize \in Nat /\ Len(old.todo) \in Nat
      BY <1>1, SchedulerTickAssumption
    <3> DEFINE k == Min({WaveSize, Len(old.todo)})
    <3>2. k \in 0 .. Len(old.todo)
      BY <3>1, MinOfTwo
    <3>3. Wave(t) = SubSeq(old.todo, 1, k)
      BY DEF Wave, FirstOf
    <3> HIDE DEF k
    <3> QED
      BY <1>1, <3>1, <3>2, <3>3
  <2>3. rest \in Seq(Job)
    <3>1. Len(Wave(t)) \in Nat
      BY <2>2
    <3> QED
      BY <1>1, <3>1
  <2> HIDE DEF rest
  <2>4. row \in Tick /\ row.pc = "send"
    BY <1>1, <1>2, <2>3 DEF Tick, SendWave, LoseWave, In
  <2> HIDE DEF row
  <2>5. tick'[t] = row
    BY <1>1, <2>1
  <2>6. Free(t)'
    BY <1>2, TickTypes DEF SendWave, LoseWave, TickInv, In, Free
  <2>7. TickInv(t)'
    BY <2>4, <2>5, <2>6 DEF TickInv, In, JustSelected
  <2>8. OrdersOK' /\ \A u \in Ticks \ {t} : lane'[u] = lane[u]
    BY <1>1, <1>2 DEF SendWave, LoseWave, OrdersOK, Probing
  <2>9. cooling' = cooling /\ queue' \in Seq(Job) /\ faults' \in Nat
    <3>1. queue \o Wave(t) \in Seq(Job)
      BY <1>1, <2>2
    <3>2. CASE SendWave(t)
      BY <1>1, <3>1, <3>2 DEF SendWave
    <3>3. CASE LoseWave(t)
      BY <1>1, <3>3 DEF LoseWave, Fault
    <3> QED
      BY <1>2, <3>2, <3>3
  <2> QED
    BY <2>1, <2>4, <2>7, <2>8, <2>9, TickSteps
<1>3. IdleTick \in Tick /\ IdleTick.pc = "idle"
  BY DEF IdleTick, Tick
<1>4. ASSUME tick' = [tick EXCEPT ![t] = IdleTick], Free(t)'
      PROVE  TickInv(t)'
  <2>1. tick'[t].pc = "idle"
    BY <1>1, <1>3, <1>4
  <2> QED
    BY <1>4, <2>1 DEF TickInv, In, JustSelected
<1>5. CASE EndTick(t)
  <2>1. Free(t)'
    BY <1>5, TickTypes DEF EndTick, TickInv, In, Free
  <2>2. OrdersOK' /\ \A u \in Ticks \ {t} : lane'[u] = lane[u]
    BY <1>1, <1>5 DEF EndTick, OrdersOK, Probing
  <2> QED
    BY <1>1, <1>3, <1>4, <1>5, <2>1, <2>2, TickSteps DEF EndTick
<1>6. CASE KillTick(t)
  <2>1. OrdersOK' /\ Free(t)' /\ \A u \in Ticks \ {t} : lane'[u] = lane[u]
    <3>1. Forget(t) /\ lane' = [lane EXCEPT ![t] = NoJob]
      BY <1>6 DEF KillTick, Forget
    <3> QED
      BY <1>1, <3>1, ForgetKeepsOrders, Stopping DEF Runners
  <2>2. cooling' = cooling /\ queue' \in Seq(Job) /\ faults' \in Nat
    BY <1>1, <1>6 DEF KillTick, Fault
  <2> QED
    BY <1>3, <1>4, <1>6, <2>1, <2>2, TickSteps DEF KillTick
<1> QED
  BY <1>2, <1>5, <1>6

LEMMA StepTick == TickInvariant /\ [Next]_vars => TickInvariant'
<1> SUFFICES ASSUME TickInvariant, [Next]_vars PROVE TickInvariant'
  OBVIOUS
<1>1. ASSUME UNCHANGED <<lru, speedLru, queue, lane, tick, faults>>,
             cooling' \subseteq Models
      PROVE  TickInvariant'
  <2>1. OrdersOK'
    BY <1>1, RunnersTypes DEF OrdersOK, Probing
  <2> QED
    BY <1>1, <2>1, QuietSteps, RunnersTypes
<1>2. ASSUME NEW t \in Ticks, TickStep(t) \/ TickMishap(t) PROVE TickInvariant'
  BY <1>2, SelectionSteps, InlineSteps, SendSteps DEF TickStep, TickMishap
<1>3. ASSUME NEW w \in Lanes,
             Finish(w) \/ FailDelivery(w) \/ \E i \in DOMAIN queue : Receive(w, i)
      PROVE  TickInvariant'
  BY <1>3, LaneSteps
<1>4. ASSUME NEW m \in MayCool, Cool(m) PROVE TickInvariant'
  <2>1. cooling' \subseteq Models
    BY <1>4, RunnersTypes, SchedulerTickAssumption DEF Cool
  <2> QED
    BY <1>1, <1>4, <2>1 DEF Cool
<1>5. CASE UNCHANGED vars
  BY <1>1, <1>5, RunnersTypes DEF vars
<1> QED
  BY <1>2, <1>3, <1>4, <1>5 DEF Next

LEMMA AlwaysTick == Spec => []TickInvariant
BY InitTick, StepTick, PTL DEF Spec

-----------------------------------------------------------------------------
(* What the passes select keeps the limits, together and in turn.          *)

(* The two passes of a tick that has just selected: the second is empty if *)
(* its query failed.                                                       *)
LEMMA Passes ==
  ASSUME TickInvariant, NEW t \in Ticks, JustSelected(t)
  PROVE  \E order, more :
           /\ Placed(order) /\ tick[t].todo = CodingPass(order, t) \o more
           /\ \/ more = <<>>
              \/ \E o2 : Placed(o2) /\ more = SpeedPass(CodingPass(order, t), o2, t)
<1>1. CASE CodingPlan(t)
  <2>1. PICK order : Placed(order) /\ tick[t].todo = CodingPass(order, t)
    BY <1>1 DEF CodingPlan
  <2>2. tick[t].todo = CodingPass(order, t) \o <<>>
    BY <2>1, TickTypes
  <2> QED
    BY <2>1, <2>2
<1>2. CASE BothPlan(t)
  BY <1>2 DEF BothPlan
<1> QED
  BY <1>1, <1>2 DEF TickInvariant, TickInv

LEMMA LeftForSpeed ==
  ASSUME NEW jobs \in Seq(Job), NEW used \in Counts
  PROVE  /\ Minus(Cap, Offset(jobs)) \in Counts /\ Plus(used, Offset(jobs)) \in Counts
         /\ \A p \in Providers :
              /\ Plus(used, Offset(jobs))[p] = used[p] + Taken(jobs, p)
              /\ Minus(Cap, Offset(jobs))[p] > 0 =>
                   Minus(Cap, Offset(jobs))[p] = Cap[p] - Taken(jobs, p)
<1>1. \A p \in Providers : /\ Taken(jobs, p) \in Nat /\ Offset(jobs)[p] = Taken(jobs, p)
                           /\ Cap[p] \in Nat /\ used[p] \in Nat
  BY AtFinite, SchedulerTickAssumption DEF Offset, Counts
<1>2. /\ Plus(used, Offset(jobs)) \in Counts
      /\ \A p \in Providers : Plus(used, Offset(jobs))[p] = used[p] + Taken(jobs, p)
  BY <1>1 DEF Plus, Counts
<1>3. \A p \in Providers : Minus(Cap, Offset(jobs))[p] =
        IF Cap[p] - Taken(jobs, p) < 0 THEN 0 ELSE Cap[p] - Taken(jobs, p)
  BY <1>1 DEF Minus, AtLeast0
<1>4. Minus(Cap, Offset(jobs)) = [p \in Providers |-> Minus(Cap, Offset(jobs))[p]]
  BY DEF Minus, AtLeast0
<1>5. \A p \in Providers : Minus(Cap, Offset(jobs))[p] \in Nat
  BY <1>1, <1>3
<1>6. Minus(Cap, Offset(jobs)) \in Counts
  BY <1>4, <1>5 DEF Counts
<1> QED
  BY <1>1, <1>2, <1>3, <1>6

LEMMA PassesWithinLimits == TickInvariant => TickWithinLimits
<1> SUFFICES ASSUME TickInvariant, NEW t \in Ticks, JustSelected(t), NEW p \in Providers,
                    Taken(Selected(t), p) > 0
             PROVE  /\ Taken(Selected(t), p) <= Cap[p]
                    /\ tick[t].used[p] + Taken(Selected(t), p) <= RpmLimit[p]
  BY DEF TickWithinLimits
<1> DEFINE used == tick[t].used
           out  == tick[t].out
<1>1. PICK order, more :
        /\ Placed(order) /\ Selected(t) = CodingPass(order, t) \o more
        /\ \/ more = <<>>
           \/ \E o2 : Placed(o2) /\ more = SpeedPass(CodingPass(order, t), o2, t)
  BY Passes DEF Selected
<1> DEFINE jobs == CodingPass(order, t)
           cap2 == Minus(Cap, Offset(jobs))
           use2 == Plus(used, Offset(jobs))
<1>2. /\ Cap \in Counts /\ used \in Counts /\ MaxGlobal \in Nat /\ SpeedTake \in Nat
      /\ "coding" \in Types /\ "speed" \in Types
      /\ Cap[p] \in Nat /\ RpmLimit[p] \in Nat /\ used[p] \in Nat
  BY TickTypes, SchedulerTickAssumption DEF Counts, Types
<1>3. jobs = SelectJobs(order, "coding", MaxGlobal, Cap, used, out)
  BY DEF CodingPass
<1> HIDE DEF jobs, used, out
<1>4. jobs \in Seq(Job)
  BY <1>1, <1>2, <1>3, Selection
<1>5. Taken(jobs, p) > 0 => Taken(jobs, p) <= Cap[p] /\ used[p] + Taken(jobs, p) <= RpmLimit[p]
  BY <1>1, <1>2, <1>3, TakenWithinTurns
<1>6. CASE more = <<>>
  <2>1. Selected(t) = jobs
    BY <1>1, <1>4, <1>6 DEF jobs
  <2> QED
    BY <1>5, <2>1 DEF used
<1>7. CASE more # <<>>
  <2>1. PICK o2 : Placed(o2) /\ more = SpeedPass(jobs, o2, t)
    BY <1>1, <1>7 DEF jobs
  <2>2. more = SelectJobs(o2, "speed", SpeedTake, cap2, use2, out)
    BY <2>1 DEF SpeedPass, used, out
  <2>3. /\ cap2 \in Counts /\ use2 \in Counts /\ use2[p] = used[p] + Taken(jobs, p)
        /\ cap2[p] \in Nat /\ (cap2[p] > 0 => cap2[p] = Cap[p] - Taken(jobs, p))
    <3>1. cap2 \in Counts /\ use2 \in Counts
      BY <1>2, <1>4, LeftForSpeed
    <3>2. use2[p] = used[p] + Taken(jobs, p)
      BY <1>2, <1>4, LeftForSpeed
    <3>3. cap2[p] > 0 => cap2[p] = Cap[p] - Taken(jobs, p)
      BY <1>2, <1>4, LeftForSpeed
    <3> QED
      BY <3>1, <3>2, <3>3 DEF Counts
  <2> HIDE DEF cap2, use2
  <2>4. more \in Seq(Job)
    BY <1>2, <2>1, <2>2, <2>3, Selection
  <2>5. Taken(more, p) > 0 => Taken(more, p) <= cap2[p] /\ use2[p] + Taken(more, p) <= RpmLimit[p]
    BY <1>2, <2>1, <2>2, <2>3, TakenWithinTurns
  <2>6. Taken(jobs, p) \in Nat /\ Taken(more, p) \in Nat
    BY <1>4, <2>4, AtFinite
  <2>7. Taken(Selected(t), p) = Taken(jobs, p) + Taken(more, p)
    BY <1>1, <1>4, <2>4, TakenOfBoth DEF jobs
  <2> QED
    BY <1>2, <1>5, <2>3, <2>5, <2>6, <2>7 DEF used
<1> QED
  BY <1>6, <1>7

LEMMA PassesAreFair == TickInvariant => TurnsAreFair
<1> SUFFICES ASSUME TickInvariant, NEW t \in Ticks, JustSelected(t), NEW p \in Providers,
                    CouldGiveMore(t, p)
             PROVE  /\ Cardinality(CodingJobs(t)) = MaxGlobal
                    /\ \A q \in Providers :
                         Cardinality(CodingOf(t, q)) <= Cardinality(CodingOf(t, p)) + 1
  BY DEF TurnsAreFair
<1> DEFINE used == tick[t].used
           out  == tick[t].out
<1>1. PICK order, more :
        /\ Placed(order) /\ Selected(t) = CodingPass(order, t) \o more
        /\ \/ more = <<>>
           \/ \E o2 : Placed(o2) /\ more = SpeedPass(CodingPass(order, t), o2, t)
  BY Passes DEF Selected
<1> DEFINE jobs == CodingPass(order, t)
<1>2. /\ Cap \in Counts /\ used \in Counts /\ MaxGlobal \in Nat /\ SpeedTake \in Nat
      /\ "coding" \in Types /\ "speed" \in Types
  BY TickTypes, SchedulerTickAssumption DEF Counts, Types
<1>3. jobs = SelectJobs(order, "coding", MaxGlobal, Cap, used, out)
  BY DEF CodingPass
<1>4. Ready(t) = Candidates(used, out)
  BY DEF Ready, Candidates
<1> HIDE DEF jobs, used, out
<1>5. jobs \in Seq(Job) /\ \A i \in 1 .. Len(jobs) : jobs[i].type = "coding"
  BY <1>1, <1>2, <1>3, Selection
<1>6. more \in Seq(Job) /\ \A i \in 1 .. Len(more) : more[i].type = "speed"
  <2>1. CASE more = <<>>
    BY <2>1
  <2>2. CASE more # <<>>
    <3>1. PICK o2 : Placed(o2) /\ more = SpeedPass(jobs, o2, t)
      BY <1>1, <2>2 DEF jobs
    <3>2. more = SelectJobs(o2, "speed", SpeedTake, Minus(Cap, Offset(jobs)),
                            Plus(used, Offset(jobs)), out)
      BY <3>1 DEF SpeedPass, used, out
    <3> QED
      BY <1>2, <3>1, <3>2, Selection
  <2> QED
    BY <2>1, <2>2
<1>7. /\ DOMAIN Selected(t) = 1 .. Len(jobs) + Len(more)
      /\ Len(jobs) \in Nat /\ Len(more) \in Nat
      /\ \A i \in 1 .. Len(jobs) : Selected(t)[i] = jobs[i]
      /\ \A i \in 1 .. Len(jobs) + Len(more) :
           i > Len(jobs) => i - Len(jobs) \in 1 .. Len(more) /\ Selected(t)[i] = more[i - Len(jobs)]
  <2>1. Selected(t) = jobs \o more
    BY <1>1 DEF jobs
  <2> QED
    BY <1>5, <1>6, <2>1
<1>8. CodingJobs(t) = 1 .. Len(jobs)
  <2>1. \A i \in 1 .. Len(jobs) : i \in DOMAIN Selected(t) /\ Selected(t)[i].type = "coding"
    BY <1>5, <1>7
  <2>2. ASSUME NEW i \in DOMAIN Selected(t), Selected(t)[i].type = "coding"
        PROVE  i \in 1 .. Len(jobs)
    <3>1. i \in 1 .. Len(jobs) + Len(more)
      BY <1>7
    <3>2. CASE i > Len(jobs)
      <4>1. Selected(t)[i].type = "speed"
        BY <1>6, <1>7, <3>1, <3>2
      <4> QED
        BY <2>2, <4>1
    <3> QED
      BY <1>7, <3>1, <3>2
  <2> QED
    BY <2>1, <2>2 DEF CodingJobs
<1>9. \A q \in Providers : CodingOf(t, q) = At(jobs, q)
  BY <1>5, <1>7, <1>8 DEF CodingOf, At
<1>10. \A q \in Providers : Cardinality(CodingOf(t, q)) = Taken(jobs, q)
  BY <1>5, <1>9, AtFinite
<1>11. \A m : m \in CodingModels(t) <=> Gives(jobs, m)
  BY <1>7, <1>8 DEF CodingModels, Gives
<1>12. PICK m \in Candidates(used, out) : ProviderOf[m] = p /\ ~Gives(jobs, m)
  BY <1>4, <1>11 DEF CouldGiveMore
<1>13. Taken(jobs, p) < Cap[p] /\ used[p] + Taken(jobs, p) < RpmLimit[p]
  BY <1>10 DEF CouldGiveMore, used
<1>14. /\ Len(jobs) = MaxGlobal
       /\ \A q \in Providers : Taken(jobs, q) <= Taken(jobs, p) + 1
  BY <1>1, <1>2, <1>3, <1>12, <1>13, FairSelection
<1>15. Cardinality(1 .. Len(jobs)) = Len(jobs)
  <2>1. Len(jobs) \in Nat
    BY <1>7
  <2>2. Cardinality(1 .. Len(jobs)) =
          IF 1 > Len(jobs) THEN 0 ELSE Len(jobs) - 1 + 1
    BY <2>1, FS_Interval
  <2> QED
    BY <2>1, <2>2
<1> QED
  BY <1>8, <1>10, <1>14, <1>15

-----------------------------------------------------------------------------
(* The theorems.                                                           *)

(* The orders by last stamp hold every model and every running probe once, *)
(* and everything else is what it should be, whatever is killed or lost.   *)
THEOREM OrdersStayWhole == Spec => []TypeOK
<1>1. TickInvariant => TypeOK
  BY DEF TickInvariant
<1> QED
  BY <1>1, AlwaysTick, PTL

(* The two passes of a tick together stay within the concurrency cap of    *)
(* every provider and its budget for the minute (selectJobs, the reduced   *)
(* cap and withUsageOffset).                                               *)
THEOREM LimitsAreKept == Spec => []TickWithinLimits
BY AlwaysTick, PassesWithinLimits, PTL

(* The coding pass leaves no slot unused that a provider could still have  *)
(* filled, and puts no provider two turns ahead of such a one (the rounds  *)
(* of selectJobs).                                                         *)
THEOREM SelectionIsFair == Spec => []TurnsAreFair
BY AlwaysTick, PassesAreFair, PTL
=============================================================================
