---------------------------- MODULE ReplayProof ----------------------------
(***************************************************************************)
(* Proofs about Replay: for any entries, accounts and order of ties, the   *)
(* loop of validate() accepts exactly the sets LedgerRules!Valid describes. *)
(* First the sums the rules are stated with: MapThenSumSet adds up a       *)
(* finite set in an order of its own choosing, and the order does not      *)
(* matter.  A weight is a function on the entries.                         *)
(***************************************************************************)
EXTENDS Replay, FiniteSetTheorems, WellFoundedInduction, TLAPS

Pick(s) == CHOOSE x \in s : TRUE

\* One round of the recursion, and what it defines.
Round(w, f, s) == IF s = {} THEN 0 ELSE w[Pick(s)] + f[s \ {Pick(s)}]

IsSum(w, T, f) == f = [s \in SUBSET T |-> Round(w, f, s)]

Total(w, T) == (CHOOSE f : IsSum(w, T, f))[T]

LEMMA PickIn == ASSUME NEW s, s # {} PROVE Pick(s) \in s
BY DEF Pick

\* Induction over the subsets of a finite set, as a set of subsets without a
\* minimal member.
LEMMA LeastSubset ==
  ASSUME NEW S, IsFiniteSet(S), NEW F \in SUBSET SUBSET S, F # {}
  PROVE  \E T \in F : \A U \in F : U \subseteq T => U = T
<1>1. IsWellFoundedOn(StrictSubsetOrdering(S), FiniteSubsetsOf(S))
  BY FS_StrictSubsetOrderingWellFounded
<1>2. F \subseteq FiniteSubsetsOf(S)
  BY FS_Subset DEF FiniteSubsetsOf
<1>3. PICK T \in F : \A U \in F : ~ (<<U, T>> \in StrictSubsetOrdering(S))
  BY <1>1, <1>2, WFMin
<1> QED
  BY <1>3 DEF StrictSubsetOrdering

LEMMA SumRestricted ==
  ASSUME NEW w, NEW T, NEW f, IsSum(w, T, f), NEW U \in SUBSET T
  PROVE  IsSum(w, U, [s \in SUBSET U |-> f[s]])
<1> DEFINE g == [s \in SUBSET U |-> f[s]]
<1>1. ASSUME NEW s \in SUBSET U
      PROVE  g[s] = Round(w, g, s)
  <2>1. f[s] = Round(w, f, s)
    BY DEF IsSum
  <2>2. s # {} => g[s \ {Pick(s)}] = f[s \ {Pick(s)}]
    OBVIOUS
  <2> QED
    BY <2>1, <2>2 DEF Round
<1> QED
  BY <1>1 DEF IsSum

LEMMA SumUnique ==
  ASSUME NEW w, NEW T, IsFiniteSet(T), NEW f, NEW g, IsSum(w, T, f), IsSum(w, T, g)
  PROVE  f = g
<1>1. ASSUME NEW s \in SUBSET T, f[s] # g[s]
      PROVE  FALSE
  <2> DEFINE F == {u \in SUBSET T : f[u] # g[u]}
  <2>1. F \in SUBSET SUBSET T /\ F # {}
    BY <1>1
  <2> HIDE DEF F
  <2>2. PICK u \in F : \A v \in F : v \subseteq u => v = u
    BY <2>1, LeastSubset
  <2>3. u \in SUBSET T /\ f[u] # g[u]
    BY <2>2 DEF F
  <2>4. f[u] = Round(w, f, u) /\ g[u] = Round(w, g, u)
    BY <2>3 DEF IsSum
  <2>5. CASE u = {}
    BY <2>3, <2>4, <2>5 DEF Round
  <2>6. CASE u # {}
    <3>1. Pick(u) \in u
      BY <2>6, PickIn
    <3>2. u \ {Pick(u)} \notin F
      BY <2>2, <3>1
    <3>3. f[u \ {Pick(u)}] = g[u \ {Pick(u)}]
      BY <2>3, <3>2 DEF F
    <3> QED
      BY <2>3, <2>4, <2>6, <3>3 DEF Round
  <2> QED
    BY <2>5, <2>6
<1>2. /\ f = [s \in SUBSET T |-> f[s]]
      /\ g = [s \in SUBSET T |-> g[s]]
  BY DEF IsSum
<1> QED
  BY <1>1, <1>2

\* Sums of finite sets exist: from those of its smaller subsets.
LEMMA SumExists ==
  ASSUME NEW w, NEW T, IsFiniteSet(T)
  PROVE  \E f : IsSum(w, T, f)
<1> SUFFICES ASSUME ~\E f : IsSum(w, T, f) PROVE FALSE
  OBVIOUS
<1> DEFINE F == {u \in SUBSET T : ~\E f : IsSum(w, u, f)}
<1>1. F \in SUBSET SUBSET T /\ F # {}
  OBVIOUS
<1>2. PICK u \in F : \A v \in F : v \subseteq u => v = u
  <2> HIDE DEF F
  <2> QED
    BY <1>1, LeastSubset
<1>3. \A v \in SUBSET u : v # u => \E f : IsSum(w, v, f)
  BY <1>2
<1> DEFINE h == [s \in SUBSET u |-> Total(w, s)]
           g == [s \in SUBSET u |-> IF s = u THEN Round(w, h, u) ELSE Total(w, s)]
<1>4. ASSUME NEW s \in SUBSET u, s # u
      PROVE  Total(w, s) = Round(w, h, s)
  <2> DEFINE fs == CHOOSE f : IsSum(w, s, f)
  <2>1. IsSum(w, s, fs)
    BY <1>3, <1>4
  <2>2. Total(w, s) = fs[s]
    BY DEF Total
  <2> HIDE DEF fs
  <2>3. fs[s] = Round(w, fs, s)
    BY <2>1 DEF IsSum
  <2>4. CASE s = {}
    BY <2>2, <2>3, <2>4 DEF Round
  <2>5. CASE s # {}
    <3> DEFINE v == s \ {Pick(s)}
               fv == CHOOSE f : IsSum(w, v, f)
               gv == [r \in SUBSET v |-> fs[r]]
    <3>1. Pick(s) \in s
      BY <2>5, PickIn
    <3>2. v \in SUBSET u /\ v # u /\ v \in SUBSET s
      BY <3>1
    <3>3. IsFiniteSet(v)
      BY <1>2, <3>2, FS_Subset
    <3>4. IsSum(w, v, fv)
      BY <1>3, <3>2
    <3>5. IsSum(w, v, gv)
      BY <2>1, <3>2, SumRestricted
    <3>6. Total(w, v) = fv[v]
      BY DEF Total
    <3>7. gv[v] = fs[v]
      OBVIOUS
    <3>8. h[v] = Total(w, v)
      BY <3>2
    <3> HIDE DEF fv, gv, h
    <3>9. fv = gv
      BY <3>3, <3>4, <3>5, SumUnique
    <3> QED
      BY <2>2, <2>3, <2>5, <3>6, <3>7, <3>8, <3>9 DEF Round
  <2> QED
    BY <2>4, <2>5
<1>5. ASSUME NEW s \in SUBSET u
      PROVE  g[s] = Round(w, g, s)
  <2>1. g[s] = Round(w, h, s)
    BY <1>4
  <2>2. s # {} => s \ {Pick(s)} # u
    BY PickIn
  <2>3. s # {} => h[s \ {Pick(s)}] = g[s \ {Pick(s)}]
    BY <2>2
  <2> QED
    BY <2>1, <2>3 DEF Round
<1>6. IsSum(w, u, g)
  BY <1>5 DEF IsSum
<1> QED
  BY <1>2, <1>6

\* The sum of a set of one entry less.
LEMMA TotalRound ==
  ASSUME NEW w, NEW T, IsFiniteSet(T)
  PROVE  /\ T = {} => Total(w, T) = 0
         /\ T # {} => Total(w, T) = w[Pick(T)] + Total(w, T \ {Pick(T)})
<1> DEFINE f == CHOOSE f : IsSum(w, T, f)
<1>1. IsSum(w, T, f) /\ Total(w, T) = f[T]
  BY SumExists DEF Total
<1> HIDE DEF f
<1>2. f[T] = Round(w, f, T)
  BY <1>1 DEF IsSum
<1>3. CASE T = {}
  BY <1>1, <1>2, <1>3 DEF Round
<1>4. CASE T # {}
  <2> DEFINE v == T \ {Pick(T)}
             fv == CHOOSE g : IsSum(w, v, g)
             gv == [r \in SUBSET v |-> f[r]]
  <2>1. v \in SUBSET T /\ IsFiniteSet(v)
    BY FS_Subset
  <2>2. IsSum(w, v, fv) /\ Total(w, v) = fv[v]
    BY <2>1, SumExists DEF Total
  <2>3. IsSum(w, v, gv) /\ gv[v] = f[v]
    BY <1>1, <2>1, SumRestricted
  <2> HIDE DEF fv, gv
  <2>4. fv = gv
    BY <2>1, <2>2, <2>3, SumUnique
  <2> QED
    BY <1>1, <1>2, <1>4, <2>2, <2>3, <2>4 DEF Round
<1> QED
  BY <1>3, <1>4

LEMMA TotalType ==
  ASSUME NEW w, NEW T, IsFiniteSet(T), \A e \in T : w[e] \in Nat
  PROVE  Total(w, T) \in Nat
<1> SUFFICES ASSUME Total(w, T) \notin Nat PROVE FALSE
  OBVIOUS
<1> DEFINE F == {u \in SUBSET T : Total(w, u) \notin Nat}
<1>1. F \in SUBSET SUBSET T /\ F # {}
  OBVIOUS
<1>2. PICK u \in F : \A v \in F : v \subseteq u => v = u
  <2> HIDE DEF F
  <2> QED
    BY <1>1, LeastSubset
<1>3. u \in SUBSET T /\ IsFiniteSet(u) /\ Total(w, u) \notin Nat
  BY <1>2, FS_Subset
<1>4. u # {}
  <2>1. u = {} => Total(w, u) = 0
    BY <1>3, TotalRound
  <2> QED
    BY <1>3, <2>1
<1>5. Pick(u) \in u
  BY <1>4, PickIn
<1>6. Total(w, u \ {Pick(u)}) \in Nat
  BY <1>2, <1>3, <1>5
<1>7. w[Pick(u)] \in Nat
  BY <1>3, <1>5
<1>8. Total(w, u) = w[Pick(u)] + Total(w, u \ {Pick(u)})
  BY <1>3, <1>4, TotalRound
<1> QED
  BY <1>3, <1>6, <1>7, <1>8

LEMMA TotalIsInt ==
  ASSUME NEW w, NEW T, IsFiniteSet(T), \A e \in T : w[e] \in Int
  PROVE  Total(w, T) \in Int
<1> SUFFICES ASSUME Total(w, T) \notin Int PROVE FALSE
  OBVIOUS
<1> DEFINE F == {u \in SUBSET T : Total(w, u) \notin Int}
<1>1. F \in SUBSET SUBSET T /\ F # {}
  OBVIOUS
<1>2. PICK u \in F : \A v \in F : v \subseteq u => v = u
  <2> HIDE DEF F
  <2> QED
    BY <1>1, LeastSubset
<1>3. u \in SUBSET T /\ IsFiniteSet(u) /\ Total(w, u) \notin Int
  BY <1>2, FS_Subset
<1>4. u # {}
  <2>1. u = {} => Total(w, u) = 0
    BY <1>3, TotalRound
  <2> QED
    BY <1>3, <2>1
<1>5. Pick(u) \in u
  BY <1>4, PickIn
<1>6. Total(w, u \ {Pick(u)}) \in Int
  BY <1>2, <1>3, <1>5
<1>7. w[Pick(u)] \in Int
  BY <1>3, <1>5
<1>8. Total(w, u) = w[Pick(u)] + Total(w, u \ {Pick(u)})
  BY <1>3, <1>4, TotalRound
<1> QED
  BY <1>3, <1>6, <1>7, <1>8

\* Any entry may be the first.
LEMMA TotalRemove ==
  ASSUME NEW w, NEW T, IsFiniteSet(T), \A e \in T : w[e] \in Int, NEW x \in T
  PROVE  Total(w, T) = w[x] + Total(w, T \ {x})
<1> DEFINE Splits(u) == \A y \in u : Total(w, u) = w[y] + Total(w, u \ {y})
           F == {u \in SUBSET T : ~Splits(u)}
<1> SUFFICES ASSUME ~Splits(T) PROVE FALSE
  OBVIOUS
<1>1. F \in SUBSET SUBSET T /\ F # {}
  OBVIOUS
<1>2. PICK u \in F : \A v \in F : v \subseteq u => v = u
  <2> HIDE DEF F
  <2> QED
    BY <1>1, LeastSubset
<1>3. u \in SUBSET T /\ IsFiniteSet(u)
  BY <1>2, FS_Subset
<1>4. PICK y \in u : Total(w, u) # w[y] + Total(w, u \ {y})
  BY <1>2
<1> DEFINE c == Pick(u)
<1>5. c \in u /\ Total(w, u) = w[c] + Total(w, u \ {c})
  BY <1>3, <1>4, PickIn, TotalRound
<1> HIDE DEF c
<1>6. c # y
  BY <1>4, <1>5
<1>7. \A v \in SUBSET u : v # u => Splits(v)
  BY <1>2, <1>3
<1>8. /\ Total(w, u \ {c}) = w[y] + Total(w, (u \ {c}) \ {y})
      /\ Total(w, u \ {y}) = w[c] + Total(w, (u \ {y}) \ {c})
  <2>1. Splits(u \ {c}) /\ Splits(u \ {y})
    BY <1>5, <1>7
  <2> QED
    BY <1>5, <1>6, <2>1
<1>9. (u \ {c}) \ {y} = (u \ {y}) \ {c} /\ (u \ {c}) \ {y} \in SUBSET u
  OBVIOUS
<1>10. Total(w, (u \ {c}) \ {y}) \in Int /\ w[c] \in Int /\ w[y] \in Int
  BY <1>3, <1>5, <1>9, FS_Subset, TotalIsInt
<1> DEFINE r == Total(w, (u \ {c}) \ {y})
<1>11. Total(w, u) = w[c] + (w[y] + r) /\ Total(w, u \ {y}) = w[c] + r
  BY <1>5, <1>8, <1>9
<1> HIDE DEF r
<1>12. r \in Int
  BY <1>10 DEF r
<1> QED
  BY <1>4, <1>10, <1>11, <1>12

LEMMA TotalAdd ==
  ASSUME NEW w, NEW T, IsFiniteSet(T), NEW x, x \notin T,
         \A e \in T \cup {x} : w[e] \in Int
  PROVE  Total(w, T \cup {x}) = w[x] + Total(w, T)
<1>1. IsFiniteSet(T \cup {x}) /\ (T \cup {x}) \ {x} = T
  BY FS_AddElement
<1> QED
  BY <1>1, TotalRemove

\* More entries never add up to less.
LEMMA TotalGrows ==
  ASSUME NEW w, NEW T, IsFiniteSet(T), \A e \in T : w[e] \in Nat, NEW U \in SUBSET T
  PROVE  Total(w, U) <= Total(w, T)
<1> SUFFICES ASSUME ~(Total(w, U) <= Total(w, T)) PROVE FALSE
  OBVIOUS
<1> DEFINE F == {u \in SUBSET T : U \subseteq u /\ ~(Total(w, U) <= Total(w, u))}
<1>1. F \in SUBSET SUBSET T /\ F # {}
  OBVIOUS
<1>2. PICK u \in F : \A v \in F : v \subseteq u => v = u
  <2> HIDE DEF F
  <2> QED
    BY <1>1, LeastSubset
<1>3. /\ u \in SUBSET T /\ IsFiniteSet(u) /\ U \subseteq u
      /\ ~(Total(w, U) <= Total(w, u))
  BY <1>2, FS_Subset
<1>4. Total(w, U) \in Nat
  BY FS_Subset, TotalType
<1>5. u # U
  BY <1>3, <1>4
<1>6. PICK x \in u : x \notin U
  BY <1>3, <1>5
<1>7. Total(w, U) <= Total(w, u \ {x})
  BY <1>2, <1>3, <1>6
<1>8. Total(w, u) = w[x] + Total(w, u \ {x}) /\ w[x] \in Nat
  BY <1>3, <1>6, TotalRemove
<1>9. Total(w, u \ {x}) \in Nat
  BY <1>3, FS_Subset, TotalType
<1> QED
  BY <1>3, <1>4, <1>7, <1>8, <1>9

-----------------------------------------------------------------------------
\* What the entries of a set add up to, by the operator of the community
\* modules: their amounts or their quantities.
SumOf(field, E) == MapThenSumSet(LAMBDA e : e[field], E)

LEMMA SumIsTotal ==
  ASSUME NEW field, NEW T, IsFiniteSet(T)
  PROVE  SumOf(field, T) = Total([e \in T |-> e[field]], T)
<1> DEFINE w == [e \in T |-> e[field]]
           Chosen(f) == f = [s \in SUBSET T |-> IF s = {} THEN 0
                               ELSE LET x == CHOOSE x \in s : TRUE IN x[field] + f[s \ {x}]]
           g == CHOOSE f : Chosen(f)
<1>1. SumOf(field, T) = g[T]
  BY DEF SumOf, MapThenSumSet, MapThenFoldSet
<1>2. PICK f : IsSum(w, T, f)
  BY SumExists
<1>3. \A s \in SUBSET T : s # {} => w[Pick(s)] = Pick(s)[field]
  BY PickIn
<1>4. Chosen(f)
  <2>1. \A s \in SUBSET T : Round(w, f, s) =
          IF s = {} THEN 0 ELSE Pick(s)[field] + f[s \ {Pick(s)}]
    BY <1>3 DEF Round
  <2> QED
    BY <1>2, <2>1 DEF IsSum, Pick
<1>5. Chosen(g)
  BY <1>4
<1>6. IsSum(w, T, g)
  <2>1. \A s \in SUBSET T : Round(w, g, s) =
          IF s = {} THEN 0 ELSE Pick(s)[field] + g[s \ {Pick(s)}]
    BY <1>3 DEF Round
  <2> QED
    BY <1>5, <2>1 DEF IsSum, Pick
<1> HIDE DEF g, w
<1>7. PICK h : IsSum(w, T, h) /\ Total(w, T) = h[T]
  BY <1>2 DEF Total
<1>8. g = h
  BY <1>6, <1>7, SumUnique
<1> QED
  BY <1>1, <1>7, <1>8 DEF w

\* Weights that agree on a set give it the same sum.
LEMMA TotalOfEqual ==
  ASSUME NEW v, NEW w, NEW T, IsFiniteSet(T), \A e \in T : v[e] = w[e]
  PROVE  Total(v, T) = Total(w, T)
<1> DEFINE f == CHOOSE f : IsSum(v, T, f)
<1>1. IsSum(v, T, f) /\ Total(v, T) = f[T]
  BY SumExists DEF Total
<1> HIDE DEF f
<1>2. IsSum(w, T, f)
  <2>1. \A s \in SUBSET T : Round(v, f, s) = Round(w, f, s)
    BY PickIn DEF Round
  <2> QED
    BY <1>1, <2>1 DEF IsSum
<1>3. PICK h : IsSum(w, T, h) /\ Total(w, T) = h[T]
  BY <1>2 DEF Total
<1> QED
  BY <1>1, <1>2, <1>3, SumUnique

LEMMA SumOfNone == ASSUME NEW field PROVE SumOf(field, {}) = 0
<1>1. IsFiniteSet({})
  BY FS_EmptySet
<1>2. \A w : Total(w, {}) = 0
  BY <1>1, TotalRound
<1> QED
  BY <1>1, <1>2, SumIsTotal

LEMMA SumOfType ==
  ASSUME NEW field, NEW T, IsFiniteSet(T), \A e \in T : e[field] \in Nat
  PROVE  SumOf(field, T) \in Nat
<1> DEFINE w == [e \in T |-> e[field]]
<1>1. SumOf(field, T) = Total(w, T)
  BY SumIsTotal
<1>2. \A e \in T : w[e] \in Nat
  OBVIOUS
<1> HIDE DEF w
<1> QED
  BY <1>1, <1>2, TotalType

\* One entry more adds its field to the sum.
LEMMA SumOfMore ==
  ASSUME NEW field, NEW T, IsFiniteSet(T), NEW x, x \notin T,
         \A e \in T \cup {x} : e[field] \in Nat
  PROVE  SumOf(field, T \cup {x}) = x[field] + SumOf(field, T)
<1> DEFINE w == [e \in T \cup {x} |-> e[field]]
           v == [e \in T |-> e[field]]
<1>1. IsFiniteSet(T \cup {x})
  BY FS_AddElement
<1>2. SumOf(field, T \cup {x}) = Total(w, T \cup {x})
  BY <1>1, SumIsTotal
<1>3. SumOf(field, T) = Total(v, T)
  BY SumIsTotal
<1>4. /\ \A e \in T : v[e] = w[e]
      /\ \A e \in T \cup {x} : w[e] \in Nat
      /\ w[x] = x[field]
  OBVIOUS
<1> HIDE DEF v, w
<1>5. Total(v, T) = Total(w, T)
  BY <1>4, TotalOfEqual
<1>6. Total(w, T \cup {x}) = w[x] + Total(w, T)
  BY <1>4, TotalAdd
<1> QED
  BY <1>2, <1>3, <1>4, <1>5, <1>6

\* Less entries never add up to more.
LEMMA SumOfFewer ==
  ASSUME NEW field, NEW T, IsFiniteSet(T), \A e \in T : e[field] \in Nat,
         NEW U \in SUBSET T
  PROVE  SumOf(field, U) <= SumOf(field, T)
<1> DEFINE w == [e \in T |-> e[field]]
           v == [e \in U |-> e[field]]
<1>1. IsFiniteSet(U)
  BY FS_Subset
<1>2. SumOf(field, T) = Total(w, T) /\ SumOf(field, U) = Total(v, U)
  BY <1>1, SumIsTotal
<1>3. \A e \in U : v[e] = w[e]
  OBVIOUS
<1>4. \A e \in T : w[e] \in Nat
  OBVIOUS
<1> HIDE DEF v, w
<1>5. Total(v, U) = Total(w, U)
  BY <1>1, <1>3, TotalOfEqual
<1>6. Total(w, U) <= Total(w, T)
  BY <1>4, TotalGrows
<1> QED
  BY <1>2, <1>5, <1>6

-----------------------------------------------------------------------------
(* Entries.                                                                *)

LEMMA EntryFields ==
  ASSUME NEW e \in Entries
  PROVE  /\ e.type \in EntryTypes /\ e.cash \in CashAccounts /\ e.asset \in Positions
         /\ e.amount \in Nat /\ e.quantity \in Nat /\ e.at \in Nat
         /\ Priority(e) \in 0..3
<1>1. e \in Entry
  BY EntriesAssumption
<1>2. Priority(e) \in 0..3
  BY DEF Priority
<1> QED
  BY <1>1, <1>2 DEF Entry

\* Entries of one priority move an account of one kind in one direction.
LEMMA TiesAgree ==
  ASSUME NEW d, NEW e, Priority(d) = Priority(e)
  PROVE  /\ e.type \in AssetDebits => d.type \notin AssetCredits
         /\ e.type \in CashDebits => d.type \notin CashCredits
<1>1. \A x : /\ x.type \in AssetDebits => Priority(x) \in {2, 3}
             /\ x.type \in AssetCredits => Priority(x) \in {0, 1}
  BY DEF Priority, AssetCredits, AssetDebits
<1>2. \A x : /\ x.type \in CashDebits => Priority(x) \in {1, 3}
             /\ x.type \in CashCredits => Priority(x) \in {0, 2}
  BY DEF Priority, CashCredits, CashDebits
<1> QED
  BY <1>1, <1>2

-----------------------------------------------------------------------------
(* Balances.                                                               *)

\* A balance as the rules define it, of cash and of positions alike.
Net(opening, account, field, k, credits, debits, E) ==
  opening + SumOf(field, {e \in E : e[account] = k /\ e.type \in credits})
          - SumOf(field, {e \in E : e[account] = k /\ e.type \in debits})

LEMMA BalancesAreNet ==
  ASSUME NEW g, NEW k, NEW E
  PROVE  /\ CashBalance(g, k, E) =
              Net(Opening[g][k], "cash", "amount", k, CashCredits, CashDebits, E)
         /\ PositionBalance(g, k, E) =
              Net(Opening[g][k], "asset", "quantity", k, AssetCredits, AssetDebits, E)
<1>1. \A S : MapThenSumSet(LAMBDA e : e.amount, S) = SumOf("amount", S)
  BY DEF SumOf, MapThenSumSet, MapThenFoldSet
<1>2. \A S : MapThenSumSet(LAMBDA e : e.quantity, S) = SumOf("quantity", S)
  BY DEF SumOf, MapThenSumSet, MapThenFoldSet
<1>3. CashBalance(g, k, E) =
        Net(Opening[g][k], "cash", "amount", k, CashCredits, CashDebits, E)
  BY <1>1 DEF CashBalance, Net
<1>4. PositionBalance(g, k, E) =
        Net(Opening[g][k], "asset", "quantity", k, AssetCredits, AssetDebits, E)
  BY <1>2 DEF PositionBalance, Net
<1> QED
  BY <1>3, <1>4

\* What one entry moves.
Moves(account, field, k, credits, debits, e) ==
  IF e[account] = k /\ e.type \in credits THEN e[field]
  ELSE IF e[account] = k /\ e.type \in debits THEN -e[field] ELSE 0

LEMMA NetType ==
  ASSUME NEW opening \in Int, NEW account, NEW field, NEW k, NEW credits, NEW debits,
         NEW T, IsFiniteSet(T), \A e \in T : e[field] \in Nat
  PROVE  Net(opening, account, field, k, credits, debits, T) \in Int
<1> DEFINE In == {e \in T : e[account] = k /\ e.type \in credits}
           Out == {e \in T : e[account] = k /\ e.type \in debits}
<1>1. IsFiniteSet(In) /\ IsFiniteSet(Out) /\ \A e \in In \cup Out : e[field] \in Nat
  BY FS_Subset
<1>2. Net(opening, account, field, k, credits, debits, T)
        = opening + SumOf(field, In) - SumOf(field, Out)
  BY DEF Net
<1> HIDE DEF In, Out
<1>3. SumOf(field, In) \in Nat /\ SumOf(field, Out) \in Nat
  BY <1>1, SumOfType
<1> QED
  BY <1>2, <1>3

LEMMA NetOfMore ==
  ASSUME NEW opening \in Int, NEW account, NEW field, NEW k, NEW credits, NEW debits,
         credits \cap debits = {}, NEW T, IsFiniteSet(T), NEW x, x \notin T,
         \A e \in T \cup {x} : e[field] \in Nat
  PROVE  /\ Net(opening, account, field, k, credits, debits, T) \in Int
         /\ Net(opening, account, field, k, credits, debits, T \cup {x}) =
              Net(opening, account, field, k, credits, debits, T)
                + Moves(account, field, k, credits, debits, x)
<1> DEFINE In(E) == {e \in E : e[account] = k /\ e.type \in credits}
           Out(E) == {e \in E : e[account] = k /\ e.type \in debits}
<1>1. /\ IsFiniteSet(In(T)) /\ IsFiniteSet(Out(T)) /\ x \notin In(T) /\ x \notin Out(T)
      /\ \A e \in In(T) \cup {x} : e[field] \in Nat
      /\ \A e \in Out(T) \cup {x} : e[field] \in Nat
  BY FS_Subset
<1>2. SumOf(field, In(T)) \in Nat /\ SumOf(field, Out(T)) \in Nat
  BY <1>1, SumOfType
<1>3. /\ SumOf(field, In(T) \cup {x}) = x[field] + SumOf(field, In(T))
      /\ SumOf(field, Out(T) \cup {x}) = x[field] + SumOf(field, Out(T))
  BY <1>1, SumOfMore
<1>4. /\ Net(opening, account, field, k, credits, debits, T) =
           opening + SumOf(field, In(T)) - SumOf(field, Out(T))
      /\ Net(opening, account, field, k, credits, debits, T \cup {x}) =
           opening + SumOf(field, In(T \cup {x})) - SumOf(field, Out(T \cup {x}))
  BY DEF Net
<1>5. /\ In(T \cup {x}) = IF x[account] = k /\ x.type \in credits THEN In(T) \cup {x} ELSE In(T)
      /\ Out(T \cup {x}) = IF x[account] = k /\ x.type \in debits THEN Out(T) \cup {x} ELSE Out(T)
  OBVIOUS
<1>6. x[field] \in Nat
  OBVIOUS
<1> HIDE DEF In, Out
<1> QED
  BY <1>2, <1>3, <1>4, <1>5, <1>6 DEF Moves

\* More entries of which none credits the account and one debits it.
LEMMA NetOfDebits ==
  ASSUME NEW opening \in Int, NEW account, NEW field, NEW k, NEW credits, NEW debits,
         NEW T, IsFiniteSet(T), \A e \in T : e[field] \in Nat, NEW U \in SUBSET T,
         NEW x \in T \ U, x[account] = k, x.type \in debits,
         \A e \in T \ U : e.type \notin credits
  PROVE  Net(opening, account, field, k, credits, debits, T)
           <= Net(opening, account, field, k, credits, debits, U) - x[field]
<1> DEFINE In(E) == {e \in E : e[account] = k /\ e.type \in credits}
           Out(E) == {e \in E : e[account] = k /\ e.type \in debits}
<1>1. In(T) = In(U)
  OBVIOUS
<1>2. /\ IsFiniteSet(U) /\ IsFiniteSet(In(U)) /\ IsFiniteSet(Out(U)) /\ IsFiniteSet(Out(T))
      /\ x \notin Out(U) /\ Out(U) \cup {x} \in SUBSET Out(T)
      /\ \A e \in Out(U) \cup {x} : e[field] \in Nat
      /\ \A e \in Out(T) : e[field] \in Nat
      /\ \A e \in In(U) : e[field] \in Nat
  BY FS_Subset
<1>3. SumOf(field, Out(U) \cup {x}) = x[field] + SumOf(field, Out(U))
  BY <1>2, SumOfMore
<1>4. SumOf(field, Out(U) \cup {x}) <= SumOf(field, Out(T))
  BY <1>2, SumOfFewer
<1>5. /\ SumOf(field, In(U)) \in Nat /\ SumOf(field, Out(U)) \in Nat
      /\ SumOf(field, Out(T)) \in Nat /\ x[field] \in Nat
  BY <1>2, SumOfType
<1>6. /\ Net(opening, account, field, k, credits, debits, T) =
           opening + SumOf(field, In(T)) - SumOf(field, Out(T))
      /\ Net(opening, account, field, k, credits, debits, U) =
           opening + SumOf(field, In(U)) - SumOf(field, Out(U))
  BY DEF Net
<1> HIDE DEF In, Out
<1> QED
  BY <1>1, <1>3, <1>4, <1>5, <1>6

LEMMA NetOfNone ==
  ASSUME NEW opening \in Int, NEW account, NEW field, NEW k, NEW credits, NEW debits, NEW E,
         \A e \in E : e.type \notin credits \cup debits
  PROVE  Net(opening, account, field, k, credits, debits, E) = opening
<1>1. /\ {e \in E : e[account] = k /\ e.type \in credits} = {}
      /\ {e \in E : e[account] = k /\ e.type \in debits} = {}
  OBVIOUS
<1>2. SumOf(field, {}) = 0
  BY SumOfNone
<1>3. Net(opening, account, field, k, credits, debits, E) = opening + 0 - 0
  BY <1>1, <1>2 DEF Net
<1> QED
  BY <1>3

\* More entries of which none debits the account.
LEMMA NetOfCredits ==
  ASSUME NEW opening \in Int, NEW account, NEW field, NEW k, NEW credits, NEW debits,
         NEW T, IsFiniteSet(T), \A e \in T : e[field] \in Nat, NEW U \in SUBSET T,
         \A e \in T \ U : ~(e[account] = k /\ e.type \in debits)
  PROVE  Net(opening, account, field, k, credits, debits, U)
           <= Net(opening, account, field, k, credits, debits, T)
<1> DEFINE In(E) == {e \in E : e[account] = k /\ e.type \in credits}
           Out(E) == {e \in E : e[account] = k /\ e.type \in debits}
<1>1. Out(T) = Out(U)
  OBVIOUS
<1>2. /\ IsFiniteSet(U) /\ IsFiniteSet(In(U)) /\ IsFiniteSet(Out(U)) /\ IsFiniteSet(In(T))
      /\ In(U) \in SUBSET In(T)
      /\ \A e \in In(T) : e[field] \in Nat
      /\ \A e \in Out(U) : e[field] \in Nat
  BY FS_Subset
<1>3. /\ SumOf(field, In(U)) <= SumOf(field, In(T))
      /\ SumOf(field, In(U)) \in Nat /\ SumOf(field, In(T)) \in Nat
      /\ SumOf(field, Out(U)) \in Nat
  BY <1>2, SumOfFewer, SumOfType
<1>4. /\ Net(opening, account, field, k, credits, debits, T) =
           opening + SumOf(field, In(T)) - SumOf(field, Out(T))
      /\ Net(opening, account, field, k, credits, debits, U) =
           opening + SumOf(field, In(U)) - SumOf(field, Out(U))
  BY DEF Net
<1> HIDE DEF In, Out
<1> QED
  BY <1>1, <1>3, <1>4

-----------------------------------------------------------------------------
(* Coverage.                                                               *)

\* Some entry comes last in the order of the replay.
LEMMA LastEntry ==
  ASSUME NEW E \in SUBSET Entries, IsFiniteSet(E), E # {}
  PROVE  \E m \in E : UpTo(E, m) = E
<1> SUFFICES ASSUME ~\E m \in E : UpTo(E, m) = E PROVE FALSE
  OBVIOUS
<1> DEFINE F == {T \in SUBSET E : T # {} /\ ~\E m \in T : UpTo(T, m) = T}
<1>1. F \in SUBSET SUBSET E /\ F # {}
  OBVIOUS
<1>2. PICK T \in F : \A U \in F : U \subseteq T => U = T
  <2> HIDE DEF F
  <2> QED
    BY <1>1, LeastSubset
<1>3. PICK x \in T : TRUE
  OBVIOUS
<1>4. \A e \in T : e.at \in Nat /\ Priority(e) \in 0..3
  BY EntryFields
<1>5. CASE T \ {x} = {}
  <2>1. UpTo(T, x) = T
    BY <1>3, <1>4, <1>5 DEF UpTo
  <2> QED
    BY <1>3, <2>1
<1>6. CASE T \ {x} # {}
  <2>1. PICK m \in T \ {x} : UpTo(T \ {x}, m) = T \ {x}
    BY <1>2, <1>3, <1>6
  <2>2. \A e \in T \ {x} : e.at < m.at \/ (e.at = m.at /\ Priority(e) <= Priority(m))
    BY <2>1 DEF UpTo
  <2>3. CASE x.at < m.at \/ (x.at = m.at /\ Priority(x) <= Priority(m))
    <3>1. UpTo(T, m) = T
      BY <2>2, <2>3 DEF UpTo
    <3> QED
      BY <3>1
  <2>4. CASE ~(x.at < m.at \/ (x.at = m.at /\ Priority(x) <= Priority(m)))
    <3>1. UpTo(T, x) = T
      BY <1>3, <1>4, <2>1, <2>2, <2>4 DEF UpTo
    <3> QED
      BY <1>3, <3>1
  <2> QED
    BY <2>3, <2>4
<1> QED
  BY <1>5, <1>6

\* The account k is never overdrawn along the entries E.
Covers(opening, account, field, k, credits, debits, E) ==
  \A e \in E : Net(opening, account, field, k, credits, debits, UpTo(E, e)) >= 0

\* Nor at the end of any prefix of them.
LEMMA PrefixCovered ==
  ASSUME NEW opening \in Nat, NEW account, NEW field, NEW k, NEW credits, NEW debits,
         NEW E \in SUBSET Entries, IsFiniteSet(E),
         Covers(opening, account, field, k, credits, debits, E),
         NEW P \in SUBSET E, \A p \in P : UpTo(E, p) \subseteq P
  PROVE  Net(opening, account, field, k, credits, debits, P) >= 0
<1>1. CASE P = {}
  <2>1. Net(opening, account, field, k, credits, debits, P) = opening
    BY <1>1, NetOfNone
  <2> QED
    BY <2>1
<1>2. CASE P # {}
  <2>1. IsFiniteSet(P) /\ P \in SUBSET Entries
    BY FS_Subset
  <2>2. PICK m \in P : UpTo(P, m) = P
    BY <1>2, <2>1, LastEntry
  <2>3. UpTo(E, m) = P
    BY <2>2 DEF UpTo
  <2> QED
    BY <2>3 DEF Covers
<1> QED
  BY <1>1, <1>2

\* Entries of one last instant keep an account covered if it is at the end:
\* among them the debits come last.
LEMMA CoveredWithLast ==
  ASSUME NEW opening \in Nat, NEW account, NEW field, NEW k, NEW credits, NEW debits,
         NEW H \in SUBSET Entries, IsFiniteSet(H), NEW M \in SUBSET Entries, IsFiniteSet(M),
         NEW t \in Nat, \A e \in H : e.at <= t, \A e \in M : e.at = t,
         \A e \in H \cup M : e[field] \in Nat,
         Covers(opening, account, field, k, credits, debits, H),
         \A e \in M : e[account] = k /\ e.type \in debits =>
           /\ Priority(e) = 3
           /\ Net(opening, account, field, k, credits, debits, H \cup M) >= 0
  PROVE  Covers(opening, account, field, k, credits, debits, H \cup M)
<1> SUFFICES ASSUME NEW e \in H \cup M
             PROVE  Net(opening, account, field, k, credits, debits, UpTo(H \cup M, e)) >= 0
  BY DEF Covers
<1> DEFINE S == UpTo(H \cup M, e)
           P == S \cap H
<1>1. \A d \in H \cup M : d.at \in Nat /\ d.at <= t /\ Priority(d) \in 0..3
  BY EntryFields
<1>2. S \in SUBSET (H \cup M)
  BY DEF UpTo
<1>3. CASE \E d \in S \cap M : d[account] = k /\ d.type \in debits
  <2>1. PICK d \in S \cap M : d[account] = k /\ d.type \in debits
    BY <1>3
  <2>2. d.at = t /\ Priority(d) = 3
    BY <2>1
  <2>3. d.at < e.at \/ (d.at = e.at /\ Priority(d) <= Priority(e))
    BY <2>1 DEF UpTo
  <2>4. e.at = t /\ Priority(e) = 3
    BY <1>1, <2>2, <2>3
  <2>5. S = H \cup M
    BY <1>1, <2>4 DEF UpTo
  <2> QED
    BY <2>1, <2>5
<1>4. CASE ~\E d \in S \cap M : d[account] = k /\ d.type \in debits
  <2>1. \A p \in P : UpTo(H, p) \subseteq P
    BY <1>1 DEF UpTo
  <2>2. P \in SUBSET H
    OBVIOUS
  <2>3. Net(opening, account, field, k, credits, debits, P) >= 0
    <3> HIDE DEF P
    <3> QED
      BY <2>1, <2>2, PrefixCovered
  <2>4. IsFiniteSet(S) /\ IsFiniteSet(P)
    <3>1. IsFiniteSet(H \cup M)
      BY FS_Union
    <3> QED
      BY <1>2, <3>1, FS_Subset
  <2>5. /\ P \in SUBSET S /\ \A d \in S : d[field] \in Nat
        /\ \A d \in S \ P : ~(d[account] = k /\ d.type \in debits)
    BY <1>2, <1>4
  <2> HIDE DEF S, P
  <2>6. Net(opening, account, field, k, credits, debits, P)
          <= Net(opening, account, field, k, credits, debits, S)
    BY <2>4, <2>5, NetOfCredits
  <2>7. /\ Net(opening, account, field, k, credits, debits, P) \in Int
        /\ Net(opening, account, field, k, credits, debits, S) \in Int
    BY <2>4, <2>5, NetType
  <2> QED
    BY <2>3, <2>6, <2>7 DEF S
<1> QED
  BY <1>3, <1>4

-----------------------------------------------------------------------------
\* The inductive invariant.

Passed == input.entries \ rest

\* Whether validate() replays cash in this call.
CashIsReplayed(in) == in.requireCash \/ TracksCash(in.goal, in.entries)

\* The balance of any account after the entries E, and what one entry adds.
BalanceOf(in, k, E) ==
  IF k \in Positions THEN PositionBalance(in.goal, k, E)
  ELSE IF CashIsReplayed(in) THEN CashBalance(in.goal, k, E) ELSE Opening[in.goal][k]

MoveOf(in, k, e) ==
  IF k \in Positions THEN Moves("asset", "quantity", k, AssetCredits, AssetDebits, e)
  ELSE IF CashIsReplayed(in) THEN Moves("cash", "amount", k, CashCredits, CashDebits, e) ELSE 0

NotAfter(d, e) == d.at < e.at \/ (d.at = e.at /\ Priority(d) <= Priority(e))

Calls == [goal: Goals, requireCash: BOOLEAN, entries: SUBSET Entries]

TypesSound ==
  /\ input \in Calls /\ IsFiniteSet(input.entries)
  /\ rest \subseteq input.entries /\ outcome \in Outcomes

\* The loop follows the sort, whatever the ids decide of a tie.
PassedInOrder == \A p \in Passed, r \in rest : NotAfter(p, r)

Booked == balance = [k \in CashAccounts \cup Positions |-> BalanceOf(input, k, Passed)]

\* Every check so far succeeded, also in hindsight: entries that tie with p
\* and came later did not spoil what was checked at p.
CoveredSoFar ==
  \A k \in CashAccounts \cup Positions :
    /\ BalanceOf(input, k, Passed) >= 0
    /\ \A p \in Passed : BalanceOf(input, k, UpTo(Passed, p)) >= 0

PassedDated == \A p \in Passed : Dated(input.goal, p, Today)

Decided ==
  /\ outcome = "accepted" => rest = {}
  /\ outcome \in {"badDate", "insufficient"} =>
       ~Valid(input.goal, input.entries, input.requireCash, Today)

ReplayInv ==
  TypesSound /\ PassedInOrder /\ Booked /\ CoveredSoFar /\ PassedDated /\ Decided

-----------------------------------------------------------------------------

LEMMA OpeningType ==
  ASSUME NEW in \in Calls, NEW k \in CashAccounts \cup Positions
  PROVE  Opening[in.goal][k] \in Nat
BY GoalsAssumption DEF Calls

LEMMA BalanceOfNone ==
  ASSUME NEW in \in Calls, NEW k \in CashAccounts \cup Positions
  PROVE  BalanceOf(in, k, {}) = Opening[in.goal][k]
<1> DEFINE o == Opening[in.goal][k]
<1>1. /\ Net(o, "asset", "quantity", k, AssetCredits, AssetDebits, {}) = o
      /\ Net(o, "cash", "amount", k, CashCredits, CashDebits, {}) = o
  <2>1. o \in Int
    BY OpeningType
  <2> HIDE DEF o
  <2> QED
    BY <2>1, NetOfNone
<1>2. PositionBalance(in.goal, k, {}) = o /\ CashBalance(in.goal, k, {}) = o
  BY <1>1, BalancesAreNet
<1> QED
  BY <1>2 DEF BalanceOf

LEMMA BalanceOfMore ==
  ASSUME NEW in \in Calls, NEW k \in CashAccounts \cup Positions,
         NEW T \in SUBSET Entries, IsFiniteSet(T), NEW x \in Entries \ T
  PROVE  /\ BalanceOf(in, k, T) \in Int
         /\ BalanceOf(in, k, T \cup {x}) = BalanceOf(in, k, T) + MoveOf(in, k, x)
<1> DEFINE o == Opening[in.goal][k]
<1>1. o \in Int
  BY OpeningType
<1>2. \A e \in T \cup {x} : e["amount"] \in Nat /\ e["quantity"] \in Nat
  BY EntryFields
<1>3. CashCredits \cap CashDebits = {} /\ AssetCredits \cap AssetDebits = {}
  BY DEF CashCredits, CashDebits, AssetCredits, AssetDebits
<1>4. /\ PositionBalance(in.goal, k, T) \in Int
      /\ PositionBalance(in.goal, k, T \cup {x}) = PositionBalance(in.goal, k, T)
           + Moves("asset", "quantity", k, AssetCredits, AssetDebits, x)
  <2>1. /\ Net(o, "asset", "quantity", k, AssetCredits, AssetDebits, T) \in Int
        /\ Net(o, "asset", "quantity", k, AssetCredits, AssetDebits, T \cup {x}) =
             Net(o, "asset", "quantity", k, AssetCredits, AssetDebits, T)
               + Moves("asset", "quantity", k, AssetCredits, AssetDebits, x)
    <3> HIDE DEF o
    <3> QED
      BY <1>1, <1>2, <1>3, NetOfMore
  <2> QED
    BY <2>1, BalancesAreNet
<1>5. /\ CashBalance(in.goal, k, T) \in Int
      /\ CashBalance(in.goal, k, T \cup {x}) = CashBalance(in.goal, k, T)
           + Moves("cash", "amount", k, CashCredits, CashDebits, x)
  <2>1. /\ Net(o, "cash", "amount", k, CashCredits, CashDebits, T) \in Int
        /\ Net(o, "cash", "amount", k, CashCredits, CashDebits, T \cup {x}) =
             Net(o, "cash", "amount", k, CashCredits, CashDebits, T)
               + Moves("cash", "amount", k, CashCredits, CashDebits, x)
    <3> HIDE DEF o
    <3> QED
      BY <1>1, <1>2, <1>3, NetOfMore
  <2> QED
    BY <2>1, BalancesAreNet
<1> QED
  BY <1>1, <1>4, <1>5 DEF BalanceOf, MoveOf

-----------------------------------------------------------------------------
\* What the loop computes for one entry.

LEMMA CashReplayedIff ==
  ASSUME NEW e
  PROVE  CashReplayed(e) <=> e.type \notin AssetLegs /\ CashIsReplayed(input)
BY DEF CashReplayed, CashIsReplayed, TracksCash

LEMMA PositionMoved ==
  ASSUME TypesSound, Booked, NEW e \in input.entries, MovesPosition(e),
         BalanceOf(input, e.asset, Passed) \in Int
  PROVE  /\ PositionAfter(e) = BalanceOf(input, e.asset, Passed) + MoveOf(input, e.asset, e)
         /\ MoveOf(input, e.asset, e) = IF e.type \in AssetCredits THEN e.quantity ELSE -e.quantity
<1>1. e \in Entries /\ e.asset \in Positions /\ e.quantity \in Nat
  BY EntryFields DEF TypesSound, Calls
<1>2. balance[e.asset] = BalanceOf(input, e.asset, Passed)
  BY <1>1 DEF Booked
<1>3. e.type \in AssetCredits \cup AssetDebits
  BY DEF MovesPosition, OperationTypes, AssetLegs, AssetCredits, AssetDebits
<1>4. MoveOf(input, e.asset, e) = IF e.type \in AssetCredits THEN e.quantity ELSE -e.quantity
  BY <1>1, <1>3 DEF MoveOf, Moves
<1> QED
  BY <1>1, <1>2, <1>4 DEF PositionAfter

LEMMA CashMoved ==
  ASSUME TypesSound, Booked, NEW e \in input.entries, CashReplayed(e),
         BalanceOf(input, e.cash, Passed) \in Int
  PROVE  /\ CashAfter(e) = BalanceOf(input, e.cash, Passed) + MoveOf(input, e.cash, e)
         /\ MoveOf(input, e.cash, e) = IF e.type \in CashCredits THEN e.amount ELSE -e.amount
         /\ e.type \in CashCredits \cup CashDebits
<1>1. e \in Entries /\ e.cash \in CashAccounts /\ e.amount \in Nat /\ e.type \in EntryTypes
  BY EntryFields DEF TypesSound, Calls
<1>2. balance[e.cash] = BalanceOf(input, e.cash, Passed) /\ e.cash \notin Positions
  BY <1>1, KindsAssumption DEF Booked
<1>3. e.type \notin AssetLegs /\ CashIsReplayed(input)
  BY CashReplayedIff
<1>4. e.type \in CashCredits \cup CashDebits
  BY <1>1, <1>3 DEF EntryTypes, MovementTypes, OperationTypes, LegTypes, CashLegs,
                    AssetLegs, CashCredits, CashDebits
<1>5. MoveOf(input, e.cash, e) = IF e.type \in CashCredits THEN e.amount ELSE -e.amount
  BY <1>1, <1>2, <1>3, <1>4 DEF MoveOf, Moves
<1> QED
  BY <1>1, <1>2, <1>4, <1>5 DEF CashAfter

\* An account the loop leaves alone is one the entry moves by nothing.
LEMMA NotMoved ==
  ASSUME TypesSound, NEW e \in input.entries, NEW k \in CashAccounts \cup Positions,
         ~(MovesPosition(e) /\ k = e.asset), ~(CashReplayed(e) /\ k = e.cash)
  PROVE  MoveOf(input, k, e) = 0
<1>1. CASE k \in Positions
  <2>1. ~(e["asset"] = k /\ e.type \in AssetCredits \cup AssetDebits)
    BY DEF MovesPosition, OperationTypes, AssetLegs, AssetCredits, AssetDebits
  <2> QED
    BY <1>1, <2>1 DEF MoveOf, Moves
<1>2. CASE k \notin Positions /\ CashIsReplayed(input)
  <2>1. ~(e["cash"] = k /\ e.type \in CashCredits \cup CashDebits)
    BY <1>2, CashReplayedIff DEF AssetLegs, CashCredits, CashDebits
  <2> QED
    BY <1>2, <2>1 DEF MoveOf, Moves
<1>3. CASE k \notin Positions /\ ~CashIsReplayed(input)
  BY <1>3 DEF MoveOf
<1> QED
  BY <1>1, <1>2, <1>3

\* Where the entries passed stand in the order: at e, all of them.
LEMMA PassedBefore ==
  ASSUME TypesSound, PassedInOrder, NEW e \in rest, IsNext(e)
  PROVE  /\ e \in Entries \ Passed /\ Passed \in SUBSET Entries
         /\ IsFiniteSet(Passed)
         /\ Passed \in SUBSET UpTo(input.entries, e)
         /\ e \in UpTo(input.entries, e)
         /\ UpTo(Passed \cup {e}, e) = Passed \cup {e}
         /\ \A d \in UpTo(input.entries, e) \ Passed :
              d \in Entries /\ Priority(d) = Priority(e)
<1>1. e \in input.entries /\ input.entries \in SUBSET Entries
  BY DEF TypesSound, Calls
<1>2. Passed \in SUBSET input.entries /\ e \notin Passed /\ IsFiniteSet(Passed)
  BY FS_Subset DEF TypesSound, Passed
<1>3. \A d \in input.entries : d.at \in Nat /\ Priority(d) \in 0..3
  BY <1>1, EntryFields
<1>4. \A p \in Passed : NotAfter(p, e)
  BY DEF PassedInOrder
<1>5. Passed \in SUBSET UpTo(input.entries, e)
  BY <1>2, <1>4 DEF UpTo, NotAfter
<1>6. e \in UpTo(input.entries, e)
  BY <1>1, <1>3 DEF UpTo
<1>7. UpTo(Passed \cup {e}, e) = Passed \cup {e}
  BY <1>1, <1>3, <1>4 DEF UpTo, NotAfter
<1>8. ASSUME NEW d \in UpTo(input.entries, e) \ Passed
      PROVE  d \in Entries /\ Priority(d) = Priority(e)
  <2>1. d \in rest /\ d \in input.entries
    BY DEF UpTo, Passed
  <2>2. e.at < d.at \/ (e.at = d.at /\ Priority(e) <= Priority(d))
    BY <2>1 DEF IsNext
  <2>3. d.at < e.at \/ (d.at = e.at /\ Priority(d) <= Priority(e))
    BY DEF UpTo
  <2> QED
    BY <1>1, <1>3, <2>1, <2>2, <2>3
<1> QED
  BY <1>1, <1>2, <1>5, <1>6, <1>7, <1>8

LEMMA BalanceOfType ==
  ASSUME NEW in \in Calls, NEW k \in CashAccounts \cup Positions,
         NEW T \in SUBSET Entries, IsFiniteSet(T)
  PROVE  BalanceOf(in, k, T) \in Int
<1> DEFINE o == Opening[in.goal][k]
<1>1. o \in Int
  BY OpeningType
<1>2. \A e \in T : e["amount"] \in Nat /\ e["quantity"] \in Nat
  BY EntryFields
<1>3. /\ Net(o, "cash", "amount", k, CashCredits, CashDebits, T) \in Int
      /\ Net(o, "asset", "quantity", k, AssetCredits, AssetDebits, T) \in Int
  <2> HIDE DEF o
  <2> QED
    BY <1>1, <1>2, NetType
<1>4. PositionBalance(in.goal, k, T) \in Int /\ CashBalance(in.goal, k, T) \in Int
  BY <1>3, BalancesAreNet
<1> QED
  BY <1>1, <1>4 DEF BalanceOf

LEMMA PassedBalances ==
  ASSUME TypesSound, NEW k \in CashAccounts \cup Positions
  PROVE  BalanceOf(input, k, Passed) \in Int
<1>1. Passed \in SUBSET Entries /\ IsFiniteSet(Passed) /\ input \in Calls
  BY FS_Subset DEF TypesSound, Passed, Calls
<1> QED
  BY <1>1, BalanceOfType

\* A debit the loop refuses makes the entries up to it overdraw the account:
\* those that tie with it and come later credit nothing.
LEMMA RefusedUnits ==
  ASSUME TypesSound, PassedInOrder, Booked, CoveredSoFar,
         NEW e \in rest, IsNext(e), ~HoldsUnits(e)
  PROVE  ~PositionsCovered(input.goal, input.entries)
<1> DEFINE k == e.asset
           T == UpTo(input.entries, e)
           o == Opening[input.goal][k]
<1>1. /\ e \in input.entries /\ e \in Entries /\ k \in Positions /\ e.quantity \in Nat
      /\ input \in Calls /\ input.entries \in SUBSET Entries
  BY EntryFields DEF TypesSound, Calls
<1>2. BalanceOf(input, k, Passed) \in Int /\ BalanceOf(input, k, Passed) >= 0
  BY <1>1, PassedBalances DEF CoveredSoFar
<1>3. MovesPosition(e) /\ ~(PositionAfter(e) >= 0)
  BY DEF HoldsUnits
<1>4. /\ PositionAfter(e) = BalanceOf(input, k, Passed)
                              + (IF e.type \in AssetCredits THEN e.quantity ELSE -e.quantity)
  BY <1>1, <1>2, <1>3, PositionMoved
<1>5. e.type \notin AssetCredits /\ PositionAfter(e) = BalanceOf(input, k, Passed) - e.quantity
  BY <1>1, <1>2, <1>3, <1>4
<1>6. e.type \in AssetDebits
  BY <1>3, <1>5 DEF MovesPosition, OperationTypes, AssetLegs, AssetCredits, AssetDebits
<1>7. PositionBalance(input.goal, k, T) <= PositionBalance(input.goal, k, Passed) - e.quantity
  <2>1. /\ Passed \in SUBSET T /\ e \in T \ Passed
        /\ \A d \in T \ Passed : d \in Entries /\ Priority(d) = Priority(e)
    BY PassedBefore
  <2>2. \A d \in T \ Passed : d.type \notin AssetCredits
    BY <1>1, <1>6, <2>1, TiesAgree
  <2>3. IsFiniteSet(T) /\ \A d \in T : d["quantity"] \in Nat
    BY <1>1, FS_Subset, EntryFields DEF TypesSound, UpTo
  <2>4. o \in Int
    BY <1>1, OpeningType
  <2>5. e["asset"] = k /\ e["quantity"] = e.quantity
    OBVIOUS
  <2>6. Net(o, "asset", "quantity", k, AssetCredits, AssetDebits, T)
          <= Net(o, "asset", "quantity", k, AssetCredits, AssetDebits, Passed) - e["quantity"]
    <3> HIDE DEF T, o, k
    <3> QED
      BY <1>6, <2>1, <2>2, <2>3, <2>4, <2>5, NetOfDebits
  <2> QED
    BY <2>6, BalancesAreNet
<1>8. BalanceOf(input, k, Passed) = PositionBalance(input.goal, k, Passed)
  BY <1>1 DEF BalanceOf
<1>9. BalanceOf(input, k, T) = PositionBalance(input.goal, k, T)
  BY <1>1 DEF BalanceOf
<1>10. ~(PositionBalance(input.goal, k, T) >= 0)
  <2>1. IsFiniteSet(T) /\ T \in SUBSET Entries
    BY <1>1, FS_Subset DEF TypesSound, UpTo
  <2>2. PositionBalance(input.goal, k, T) \in Int
    BY <1>1, <1>9, <2>1, BalanceOfType
  <2> QED
    BY <1>1, <1>2, <1>3, <1>5, <1>7, <1>8, <2>2
<1> QED
  BY <1>1, <1>10 DEF PositionsCovered

LEMMA RefusedCash ==
  ASSUME TypesSound, PassedInOrder, Booked, CoveredSoFar,
         NEW e \in rest, IsNext(e), ~HoldsCash(e)
  PROVE  CashIsReplayed(input) /\ ~CashCovered(input.goal, input.entries)
<1> DEFINE k == e.cash
           T == UpTo(input.entries, e)
           o == Opening[input.goal][k]
<1>1. /\ e \in input.entries /\ e \in Entries /\ k \in CashAccounts /\ k \notin Positions
      /\ e.amount \in Nat /\ input \in Calls /\ input.entries \in SUBSET Entries
  BY EntryFields, KindsAssumption DEF TypesSound, Calls
<1>2. BalanceOf(input, k, Passed) \in Int /\ BalanceOf(input, k, Passed) >= 0
  BY <1>1, PassedBalances DEF CoveredSoFar
<1>3. CashReplayed(e) /\ ~(CashAfter(e) >= 0) /\ CashIsReplayed(input)
  BY CashReplayedIff DEF HoldsCash
<1>4. /\ CashAfter(e) = BalanceOf(input, k, Passed)
                          + (IF e.type \in CashCredits THEN e.amount ELSE -e.amount)
      /\ e.type \in CashCredits \cup CashDebits
  BY <1>1, <1>2, <1>3, CashMoved
<1>5. /\ e.type \in CashDebits
      /\ CashAfter(e) = BalanceOf(input, k, Passed) - e.amount
  BY <1>1, <1>2, <1>3, <1>4
<1>6. CashBalance(input.goal, k, T) <= CashBalance(input.goal, k, Passed) - e.amount
  <2>1. /\ Passed \in SUBSET T /\ e \in T \ Passed
        /\ \A d \in T \ Passed : d \in Entries /\ Priority(d) = Priority(e)
    BY PassedBefore
  <2>2. \A d \in T \ Passed : d.type \notin CashCredits
    BY <1>1, <1>5, <2>1, TiesAgree
  <2>3. IsFiniteSet(T) /\ \A d \in T : d["amount"] \in Nat
    BY <1>1, FS_Subset, EntryFields DEF TypesSound, UpTo
  <2>4. o \in Int
    BY <1>1, OpeningType
  <2>5. e["cash"] = k /\ e["amount"] = e.amount
    OBVIOUS
  <2>6. Net(o, "cash", "amount", k, CashCredits, CashDebits, T)
          <= Net(o, "cash", "amount", k, CashCredits, CashDebits, Passed) - e["amount"]
    <3> HIDE DEF T, o, k
    <3> QED
      BY <1>5, <2>1, <2>2, <2>3, <2>4, <2>5, NetOfDebits
  <2> QED
    BY <2>6, BalancesAreNet
<1>7. /\ BalanceOf(input, k, Passed) = CashBalance(input.goal, k, Passed)
      /\ BalanceOf(input, k, T) = CashBalance(input.goal, k, T)
  BY <1>1, <1>3 DEF BalanceOf
<1>8. ~(CashBalance(input.goal, k, T) >= 0)
  <2>1. IsFiniteSet(T) /\ T \in SUBSET Entries
    BY <1>1, FS_Subset DEF TypesSound, UpTo
  <2>2. CashBalance(input.goal, k, T) \in Int
    BY <1>1, <1>7, <2>1, BalanceOfType
  <2> QED
    BY <1>1, <1>2, <1>3, <1>5, <1>6, <1>7, <2>2
<1> QED
  BY <1>1, <1>3, <1>8 DEF CashCovered

-----------------------------------------------------------------------------
\* One step per action.

LEMMA ReplayStarts == ReplayInit => ReplayInv
<1> SUFFICES ASSUME ReplayInit PROVE ReplayInv
  OBVIOUS
<1>1. TypesSound /\ Passed = {}
  BY DEF ReplayInit, TypesSound, Calls, Outcomes, Passed
<1>2. Booked
  <2>1. input.goal \in Goals /\ input \in Calls
    BY <1>1 DEF TypesSound, Calls
  <2>2. \A k \in CashAccounts \cup Positions :
          BalanceOf(input, k, Passed) = Opening[input.goal][k]
    BY <1>1, <2>1, BalanceOfNone
  <2> QED
    BY <2>1, <2>2, GoalsAssumption DEF ReplayInit, Booked
<1>3. CoveredSoFar
  <2>1. input \in Calls
    BY <1>1 DEF TypesSound
  <2> QED
    BY <1>1, <2>1, BalanceOfNone, OpeningType DEF CoveredSoFar
<1> QED
  BY <1>1, <1>2, <1>3 DEF ReplayInit, ReplayInv, PassedInOrder, PassedDated, Decided

LEMMA ThrowKeeps ==
  ASSUME ReplayInv, NEW e \in rest, ThrowDate(e) \/ ThrowInsufficient(e)
  PROVE  ReplayInv'
<1>1. ~Valid(input.goal, input.entries, input.requireCash, Today)
  <2>1. e \in input.entries
    BY DEF ReplayInv, TypesSound
  <2>2. CASE ThrowDate(e)
    BY <2>1, <2>2 DEF ThrowDate, InDates, Valid
  <2>3. CASE ThrowInsufficient(e)
    <3>1. CASE ~HoldsUnits(e)
      BY <2>3, <3>1, RefusedUnits DEF ThrowInsufficient, ReplayInv, Valid
    <3>2. CASE ~HoldsCash(e)
      BY <2>3, <3>2, RefusedCash DEF ThrowInsufficient, ReplayInv, Valid, CashIsReplayed
    <3> QED
      BY <2>3, <3>1, <3>2 DEF ThrowInsufficient
  <2> QED
    BY <2>2, <2>3
<1>2. /\ UNCHANGED <<input, rest, balance>> /\ outcome' \in {"badDate", "insufficient"}
  BY DEF ThrowDate, ThrowInsufficient, Throw
<1>3. Passed' = Passed
  BY <1>2 DEF Passed
<1>4. TypesSound' /\ PassedInOrder'
  BY <1>2, <1>3 DEF ReplayInv, TypesSound, PassedInOrder, Outcomes
<1>5. Booked' /\ CoveredSoFar' /\ PassedDated'
  BY <1>2, <1>3 DEF ReplayInv, Booked, CoveredSoFar, PassedDated
<1>6. Decided'
  BY <1>1, <1>2 DEF Decided
<1> QED
  BY <1>4, <1>5, <1>6 DEF ReplayInv

LEMMA AdvanceBalances ==
  ASSUME ReplayInv, NEW e \in rest, Advance(e), NEW k \in CashAccounts \cup Positions
  PROVE  /\ balance'[k] = BalanceOf(input, k, Passed \cup {e})
         /\ BalanceOf(input, k, Passed \cup {e}) \in Int
         /\ BalanceOf(input, k, Passed \cup {e}) >= 0
<1> DEFINE b == BalanceOf(input, k, Passed)
           m == MoveOf(input, k, e)
<1>1. TypesSound /\ Booked /\ e \in input.entries /\ input \in Calls /\ e \in Entries
  BY DEF ReplayInv, TypesSound, Calls
<1>2. b \in Int /\ b >= 0 /\ balance[k] = b
  BY <1>1, PassedBalances DEF ReplayInv, CoveredSoFar, Booked
<1>3. BalanceOf(input, k, Passed \cup {e}) = b + m
  <2>1. Passed \in SUBSET Entries /\ IsFiniteSet(Passed) /\ e \notin Passed
    BY <1>1, PassedBefore DEF ReplayInv, Advance
  <2> QED
    BY <1>1, <2>1, BalanceOfMore
<1>4. balance'[k] = IF MovesPosition(e) /\ k = e.asset THEN PositionAfter(e)
                    ELSE IF CashReplayed(e) /\ k = e.cash THEN CashAfter(e) ELSE balance[k]
  BY DEF ReplayInv, Booked, Advance
<1>5. CASE MovesPosition(e) /\ k = e.asset
  <2>1. PositionAfter(e) = b + m /\ m \in Int
    <3>1. e.quantity \in Nat
      BY <1>1, EntryFields
    <3>2. /\ PositionAfter(e) = b + m
          /\ m = IF e.type \in AssetCredits THEN e.quantity ELSE -e.quantity
      BY <1>1, <1>2, <1>5, PositionMoved
    <3> QED
      BY <3>1, <3>2
  <2>2. PositionAfter(e) >= 0
    BY <1>5 DEF Advance, HoldsUnits
  <2> QED
    BY <1>2, <1>3, <1>4, <1>5, <2>1, <2>2
<1>6. CASE ~(MovesPosition(e) /\ k = e.asset) /\ CashReplayed(e) /\ k = e.cash
  <2>1. CashAfter(e) = b + m /\ m \in Int
    <3>1. e.amount \in Nat
      BY <1>1, EntryFields
    <3>2. /\ CashAfter(e) = b + m
          /\ m = IF e.type \in CashCredits THEN e.amount ELSE -e.amount
      BY <1>1, <1>2, <1>6, CashMoved
    <3> QED
      BY <3>1, <3>2
  <2>2. CashAfter(e) >= 0
    BY <1>6 DEF Advance, HoldsCash
  <2> QED
    BY <1>2, <1>3, <1>4, <1>6, <2>1, <2>2
<1>7. CASE ~(MovesPosition(e) /\ k = e.asset) /\ ~(CashReplayed(e) /\ k = e.cash)
  <2>1. m = 0
    BY <1>1, <1>7, NotMoved
  <2> QED
    BY <1>2, <1>3, <1>4, <1>7, <2>1
<1> QED
  BY <1>5, <1>6, <1>7

LEMMA AdvanceKeeps ==
  ASSUME ReplayInv, NEW e \in rest, outcome = "running", Advance(e)
  PROVE  ReplayInv'
<1>1. /\ input' = input /\ outcome' = "running" /\ rest' = rest \ {e}
      /\ e \in input.entries /\ input \in Calls
      /\ TypesSound /\ PassedInOrder /\ IsNext(e)
  BY DEF ReplayInv, Advance, TypesSound
<1>2. Passed' = Passed \cup {e}
  BY <1>1 DEF Passed, TypesSound
<1>3. /\ Passed \in SUBSET Entries /\ UpTo(Passed \cup {e}, e) = Passed \cup {e}
      /\ e \in Entries \ Passed
  BY <1>1, PassedBefore
<1>4. TypesSound'
  BY <1>1 DEF TypesSound
<1>5. PassedInOrder'
  <2>1. \A r \in rest' : NotAfter(e, r)
    BY <1>1 DEF IsNext, NotAfter
  <2>2. \A p \in Passed, r \in rest' : NotAfter(p, r)
    BY <1>1 DEF PassedInOrder
  <2> QED
    BY <1>2, <2>1, <2>2 DEF PassedInOrder
<1>6. Booked'
  <2>1. DOMAIN balance = CashAccounts \cup Positions
    BY DEF ReplayInv, Booked
  <2>2. balance' = [k \in CashAccounts \cup Positions |-> balance'[k]]
    BY <2>1 DEF Advance
  <2>3. balance' = [k \in CashAccounts \cup Positions |-> BalanceOf(input, k, Passed \cup {e})]
    BY <2>2, AdvanceBalances
  <2> QED
    BY <1>1, <1>2, <2>3 DEF Booked
<1>7. CoveredSoFar'
  <2> SUFFICES ASSUME NEW k \in CashAccounts \cup Positions
               PROVE  /\ BalanceOf(input, k, Passed \cup {e}) >= 0
                      /\ \A p \in Passed \cup {e} :
                           BalanceOf(input, k, UpTo(Passed \cup {e}, p)) >= 0
    BY <1>1, <1>2 DEF CoveredSoFar
  <2>1. BalanceOf(input, k, Passed \cup {e}) >= 0
    BY AdvanceBalances
  <2>2. ASSUME NEW p \in Passed
        PROVE  BalanceOf(input, k, UpTo(Passed \cup {e}, p)) >= 0
    <3>1. CASE e \in UpTo(Passed \cup {e}, p)
      <4>1. /\ e.at \in Nat /\ p.at \in Nat /\ Priority(e) \in 0..3 /\ Priority(p) \in 0..3
            /\ \A q \in Passed : q.at \in Nat /\ Priority(q) \in 0..3
        BY <1>3, EntryFields
      <4>2. e.at < p.at \/ (e.at = p.at /\ Priority(e) <= Priority(p))
        BY <3>1 DEF UpTo
      <4>3. \A q \in Passed : q.at < e.at \/ (q.at = e.at /\ Priority(q) <= Priority(e))
        BY <1>1 DEF PassedInOrder, NotAfter
      <4>4. UpTo(Passed \cup {e}, p) = Passed \cup {e}
        BY <4>1, <4>2, <4>3 DEF UpTo
      <4> QED
        BY <2>1, <4>4
    <3>2. CASE e \notin UpTo(Passed \cup {e}, p)
      <4>1. UpTo(Passed \cup {e}, p) = UpTo(Passed, p)
        BY <3>2 DEF UpTo
      <4> QED
        BY <4>1 DEF ReplayInv, CoveredSoFar
    <3> QED
      BY <3>1, <3>2
  <2> QED
    BY <1>3, <2>1, <2>2
<1>8. PassedDated'
  BY <1>1, <1>2 DEF ReplayInv, PassedDated, Advance, InDates
<1>9. Decided'
  BY <1>1 DEF Decided
<1> QED
  BY <1>4, <1>5, <1>6, <1>7, <1>8, <1>9 DEF ReplayInv

LEMMA ReturnKeeps == ReplayInv /\ Return => ReplayInv'
<1> SUFFICES ASSUME ReplayInv, Return PROVE ReplayInv'
  OBVIOUS
<1>1. UNCHANGED <<input, rest, balance>> /\ outcome' = "accepted" /\ rest = {}
  BY DEF Return
<1>2. Passed' = Passed
  BY <1>1 DEF Passed
<1>3. TypesSound' /\ PassedInOrder'
  BY <1>1, <1>2 DEF ReplayInv, TypesSound, PassedInOrder, Outcomes
<1>4. Booked' /\ CoveredSoFar' /\ PassedDated'
  BY <1>1, <1>2 DEF ReplayInv, Booked, CoveredSoFar, PassedDated
<1> QED
  BY <1>1, <1>3, <1>4 DEF ReplayInv, Decided

LEMMA StutterKeeps == ReplayInv /\ UNCHANGED replayVars => ReplayInv'
<1> SUFFICES ASSUME ReplayInv, UNCHANGED <<input, rest, balance, outcome>> PROVE ReplayInv'
  BY DEF replayVars
<1>1. Passed' = Passed
  BY DEF Passed
<1> QED
  BY <1>1 DEF ReplayInv, TypesSound, PassedInOrder, Booked, CoveredSoFar, PassedDated, Decided

LEMMA ReplayIsInductive == ReplaySpec => []ReplayInv
<1>1. ReplayInv /\ [ReplayNext]_replayVars => ReplayInv'
  BY ThrowKeeps, AdvanceKeeps, ReturnKeeps, StutterKeeps DEF ReplayNext
<1> QED
  BY <1>1, ReplayStarts, PTL DEF ReplaySpec

-----------------------------------------------------------------------------

\* What the loop accepted is valid: at the end every entry has been checked.
LEMMA AcceptedIsValid ==
  ASSUME ReplayInv, outcome = "accepted"
  PROVE  Valid(input.goal, input.entries, input.requireCash, Today)
<1>1. Passed = input.entries
  BY DEF ReplayInv, Decided, Passed
<1>2. \A k \in CashAccounts \cup Positions, p \in input.entries :
        BalanceOf(input, k, UpTo(input.entries, p)) >= 0
  BY <1>1 DEF ReplayInv, CoveredSoFar
<1>3. \A p \in input.entries : Dated(input.goal, p, Today)
  BY <1>1 DEF ReplayInv, PassedDated
<1>4. PositionsCovered(input.goal, input.entries)
  BY <1>2 DEF PositionsCovered, BalanceOf
<1>5. CashIsReplayed(input) => CashCovered(input.goal, input.entries)
  BY <1>2, KindsAssumption DEF CashCovered, BalanceOf
<1> QED
  BY <1>3, <1>4, <1>5 DEF Valid, CashIsReplayed

\* validate() returns exactly for the entry sets LedgerRules!Valid describes,
\* for any accounts, dates and amounts, any number of entries and any order the
\* ids give to those of one instant (portfolio-ledger.service.ts).
THEOREM ReplayAgreesWithRules == ReplaySpec => []AgreesWithValid
<1>1. ASSUME ReplayInv, outcome # "running" PROVE AgreesWithValid
  <2> DEFINE V == Valid(input.goal, input.entries, input.requireCash, Today)
  <2>1. V \in BOOLEAN
    BY DEF Valid
  <2>2. CASE outcome = "accepted"
    <3>1. V
      BY <1>1, <2>2, AcceptedIsValid
    <3> QED
      BY <2>1, <2>2, <3>1 DEF AgreesWithValid
  <2>3. CASE outcome \in {"badDate", "insufficient"}
    <3>1. ~V /\ outcome # "accepted"
      BY <1>1, <2>3 DEF ReplayInv, Decided
    <3> QED
      BY <2>1, <3>1 DEF AgreesWithValid
  <2> QED
    BY <1>1, <2>2, <2>3 DEF ReplayInv, TypesSound, Outcomes
<1>2. ReplayInv => AgreesWithValid
  BY <1>1 DEF AgreesWithValid
<1> QED
  BY <1>2, ReplayIsInductive, PTL

\* At every iteration the Maps of the loop hold the sums of the entries passed,
\* and the cash of a legacy goal without cash transfers is left at its opening.
THEOREM ReplayKeepsTheSums == ReplaySpec => []BalancesAgree
<1>1. ASSUME ReplayInv PROVE BalancesAgree
  <2>1. /\ \A k \in CashAccounts \cup Positions : balance[k] = BalanceOf(input, k, Passed)
        /\ Passed \in SUBSET input.entries
    BY <1>1 DEF ReplayInv, Booked, Passed
  <2>2. \A k \in Positions : balance[k] = PositionBalance(input.goal, k, Passed)
    BY <2>1 DEF BalanceOf
  <2>3. ASSUME NEW k \in CashAccounts
        PROVE  balance[k] = IF \E e \in input.entries : CashReplayed(e)
                            THEN CashBalance(input.goal, k, Passed)
                            ELSE Opening[input.goal][k]
    <3>1. balance[k] = IF CashIsReplayed(input) THEN CashBalance(input.goal, k, Passed)
                       ELSE Opening[input.goal][k]
      BY <2>1, KindsAssumption DEF BalanceOf
    <3>2. CASE \E e \in input.entries : CashReplayed(e)
      BY <3>1, <3>2, CashReplayedIff
    <3>3. CASE ~CashIsReplayed(input)
      BY <3>1, <3>3, CashReplayedIff
    <3>4. CASE CashIsReplayed(input) /\ ~\E e \in input.entries : CashReplayed(e)
      <4>1. \A e \in Passed : e.type \notin CashCredits \cup CashDebits
        BY <2>1, <3>4, CashReplayedIff DEF AssetLegs, CashCredits, CashDebits
      <4>2. Opening[input.goal][k] \in Int
        BY <1>1, OpeningType DEF ReplayInv, TypesSound
      <4>3. CashBalance(input.goal, k, Passed) = Opening[input.goal][k]
        BY <4>1, <4>2, NetOfNone, BalancesAreNet
      <4> QED
        BY <3>1, <3>4, <4>3
    <3> QED
      BY <3>2, <3>3, <3>4
  <2> QED
    BY <2>2, <2>3 DEF BalancesAgree, Passed
<1> QED
  BY <1>1, ReplayIsInductive, PTL
=============================================================================
