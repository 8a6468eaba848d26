--------------------------- MODULE BookValueProof ---------------------------
(***************************************************************************)
(* Proofs about BookValue and Summaries, for any goals, transfers, costs   *)
(* and order of ids: no projection of a pool ever throws where transfers   *)
(* run in order, a pool without units has no cost, what a pool had cost at *)
(* a transfer is never restated, the figures of a summary agree, and the   *)
(* last transfer of its accounts keeps the book value of the portfolio.    *)
(***************************************************************************)
EXTENDS Summaries, ReplayProof

-----------------------------------------------------------------------------
(* The sort.                                                               *)

Sortable(E) ==
  /\ IsFiniteSet(E)
  /\ \A e \in E : e.at \in Int /\ e.id \in Int
  /\ \A d, e \in E : d.id = e.id => d = e

Preceding(E, e) == {d \in E : Before(d, e)}

LEMMA PriorityType == \A e : Priority(e) \in 0..3
BY DEF Priority

LEMMA BeforeOrders ==
  ASSUME NEW E, Sortable(E)
  PROVE  /\ \A e \in E : ~Before(e, e)
         /\ \A d, e \in E : d # e => Before(d, e) \/ Before(e, d)
         /\ \A c, d, e \in E : Before(c, d) /\ Before(d, e) => Before(c, e)
<1>1. \A e \in E : e.at \in Int /\ e.id \in Int /\ Priority(e) \in Int
  BY PriorityType DEF Sortable
<1>2. \A e \in E : ~Before(e, e)
  BY <1>1 DEF Before
<1>3. \A d, e \in E : d # e => Before(d, e) \/ Before(e, d)
  <2> TAKE d, e \in E
  <2>1. d # e => d.id # e.id
    BY DEF Sortable
  <2> QED
    BY <1>1, <2>1 DEF Before
<1>4. \A c, d, e \in E : Before(c, d) /\ Before(d, e) => Before(c, e)
  <2> TAKE c, d, e \in E
  <2> QED
    BY <1>1 DEF Before
<1> QED
  BY <1>2, <1>3, <1>4

LEMMA SubsetSorts ==
  ASSUME NEW E, Sortable(E), NEW T \in SUBSET E
  PROVE  Sortable(T)
BY FS_Subset DEF Sortable

\* What comes last does: otherwise take a least subset of E without a last entry.
LEMMA LatestIs ==
  ASSUME NEW E, Sortable(E), E # {}
  PROVE  /\ Latest(E) \in E
         /\ \A d \in E \ {Latest(E)} : Before(d, Latest(E))
<1> DEFINE Ends(T, e) == e \in T /\ \A d \in T \ {e} : Before(d, e)
           F == {T \in SUBSET E : T # {} /\ ~\E e : Ends(T, e)}
<1>1. F = {}
  <2> SUFFICES ASSUME F # {} PROVE FALSE
    OBVIOUS
  <2>1. F \in SUBSET SUBSET E /\ IsFiniteSet(E)
    BY DEF Sortable
  <2>2. PICK T \in F : \A U \in F : U \subseteq T => U = T
    <3> HIDE DEF F
    <3> QED
      BY <2>1, LeastSubset
  <2>3. PICK e \in T : TRUE
    BY <2>2
  <2>4. T \ {e} # {}
    <3> SUFFICES ASSUME T \ {e} = {} PROVE FALSE
      OBVIOUS
    <3>1. Ends(T, e)
      BY <2>3
    <3> QED
      BY <2>2, <3>1
  <2>5. PICK m : Ends(T \ {e}, m)
    <3>1. T \ {e} \notin F /\ T \ {e} \in SUBSET E
      BY <2>2, <2>3
    <3> QED
      BY <2>4, <3>1
  <2>6. e \in E /\ m \in E /\ e # m /\ T \subseteq E
    BY <2>2, <2>3, <2>5
  <2>7. CASE Before(e, m)
    <3>1. Ends(T, m)
      BY <2>5, <2>7
    <3> QED
      BY <2>2, <3>1
  <2>8. CASE Before(m, e)
    <3>1. ASSUME NEW d \in T \ {e} PROVE Before(d, e)
      <4>1. d = m \/ Before(d, m)
        BY <2>5
      <4>2. d \in E
        BY <2>6
      <4> QED
        BY <2>6, <2>8, <4>1, <4>2, BeforeOrders
    <3>2. Ends(T, e)
      BY <2>3, <3>1
    <3> QED
      BY <2>2, <3>2
  <2> QED
    BY <2>6, <2>7, <2>8, BeforeOrders
<1>2. \E e \in E : \A d \in E \ {e} : Before(d, e)
  BY <1>1
<1> QED
  BY <1>2 DEF Latest

-----------------------------------------------------------------------------
(* The loops over sorted entries: of a pool, and of a position's events.   *)

PoolLoop(k, values) == [loop |-> "pool", k |-> k, values |-> values]

TradeLoop(s, g, k) == [loop |-> "trade", k |-> k, s |-> s, g |-> g]

Turn1(a, acc, e) ==
  IF a.loop = "pool" THEN Project(a.k, a.values, acc, e) ELSE Trade(a.s, a.g, a.k, acc, e)

\* The round that is left when the last entry has its turn, and what it defines.
LastRound(a, start, f, s) ==
  IF s = {} THEN start ELSE Turn1(a, f[s \ {Latest(s)}], Latest(s))

IsRun(a, start, T, f) == f = [s \in SUBSET T |-> LastRound(a, start, f, s)]

Run(a, start, T) == (CHOOSE f : IsRun(a, start, T, f))[T]

LEMMA RunRestricted ==
  ASSUME NEW a, NEW start, NEW T, Sortable(T), NEW f, IsRun(a, start, T, f), NEW U \in SUBSET T
  PROVE  IsRun(a, start, U, [s \in SUBSET U |-> f[s]])
<1> DEFINE g == [s \in SUBSET U |-> f[s]]
<1>1. ASSUME NEW s \in SUBSET U
      PROVE  g[s] = LastRound(a, start, g, s)
  <2>1. f[s] = LastRound(a, start, f, s)
    BY DEF IsRun
  <2>2. s # {} => g[s \ {Latest(s)}] = f[s \ {Latest(s)}]
    OBVIOUS
  <2> QED
    BY <2>1, <2>2 DEF LastRound
<1> QED
  BY <1>1 DEF IsRun

LEMMA RunUnique ==
  ASSUME NEW a, NEW start, NEW T, Sortable(T), NEW f, NEW g,
         IsRun(a, start, T, f), IsRun(a, start, T, g)
  PROVE  f = g
<1>1. ASSUME NEW s \in SUBSET T, f[s] # g[s]
      PROVE  FALSE
  <2> DEFINE F == {u \in SUBSET T : f[u] # g[u]}
  <2>1. F \in SUBSET SUBSET T /\ F # {} /\ IsFiniteSet(T)
    BY <1>1 DEF Sortable
  <2> HIDE DEF F
  <2>2. PICK u \in F : \A v \in F : v \subseteq u => v = u
    BY <2>1, LeastSubset
  <2>3. u \in SUBSET T /\ f[u] # g[u]
    BY <2>2 DEF F
  <2>4. f[u] = LastRound(a, start, f, u) /\ g[u] = LastRound(a, start, g, u)
    BY <2>3 DEF IsRun
  <2>5. CASE u = {}
    BY <2>3, <2>4, <2>5 DEF LastRound
  <2>6. CASE u # {}
    <3>1. Latest(u) \in u
      BY <2>3, <2>6, SubsetSorts, LatestIs
    <3>2. u \ {Latest(u)} \notin F
      BY <2>2, <3>1
    <3>3. f[u \ {Latest(u)}] = g[u \ {Latest(u)}]
      BY <2>3, <3>2 DEF F
    <3> QED
      BY <2>3, <2>4, <2>6, <3>3 DEF LastRound
  <2> QED
    BY <2>5, <2>6
<1>2. /\ f = [s \in SUBSET T |-> f[s]]
      /\ g = [s \in SUBSET T |-> g[s]]
  BY DEF IsRun
<1> QED
  BY <1>1, <1>2

LEMMA RunExists ==
  ASSUME NEW a, NEW start, NEW T, Sortable(T)
  PROVE  \E f : IsRun(a, start, T, f)
<1> SUFFICES ASSUME ~\E f : IsRun(a, start, T, f) PROVE FALSE
  OBVIOUS
<1> DEFINE F == {u \in SUBSET T : ~\E f : IsRun(a, start, u, f)}
<1>1. F \in SUBSET SUBSET T /\ F # {} /\ IsFiniteSet(T)
  BY DEF Sortable
<1>2. PICK u \in F : \A v \in F : v \subseteq u => v = u
  <2> HIDE DEF F
  <2> QED
    BY <1>1, LeastSubset
<1>3. \A v \in SUBSET u : v # u => \E f : IsRun(a, start, v, f)
  BY <1>2
<1>4. Sortable(u)
  BY <1>2, SubsetSorts
<1> DEFINE h == [s \in SUBSET u |-> Run(a, start, s)]
           g == [s \in SUBSET u |-> IF s = u THEN LastRound(a, start, h, u)
                                    ELSE Run(a, start, s)]
<1>5. ASSUME NEW s \in SUBSET u, s # u
      PROVE  Run(a, start, s) = LastRound(a, start, h, s)
  <2> DEFINE fs == CHOOSE f : IsRun(a, start, s, f)
  <2>1. IsRun(a, start, s, fs) /\ Sortable(s)
    BY <1>3, <1>4, <1>5, SubsetSorts
  <2>2. Run(a, start, s) = fs[s]
    BY DEF Run
  <2> HIDE DEF fs
  <2>3. fs[s] = LastRound(a, start, fs, s)
    BY <2>1 DEF IsRun
  <2>4. CASE s = {}
    BY <2>2, <2>3, <2>4 DEF LastRound
  <2>5. CASE s # {}
    <3> DEFINE v == s \ {Latest(s)}
               fv == CHOOSE f : IsRun(a, start, v, f)
               gv == [r \in SUBSET v |-> fs[r]]
    <3>1. Latest(s) \in s
      BY <2>1, <2>5, LatestIs
    <3>2. v \in SUBSET u /\ v # u /\ v \in SUBSET s
      BY <3>1
    <3>3. Sortable(v)
      BY <2>1, <3>2, SubsetSorts
    <3>4. IsRun(a, start, v, fv)
      BY <1>3, <3>2
    <3>5. IsRun(a, start, v, gv)
      BY <2>1, <3>2, RunRestricted
    <3>6. Run(a, start, v) = fv[v]
      BY DEF Run
    <3>7. gv[v] = fs[v]
      OBVIOUS
    <3>8. h[v] = Run(a, start, v)
      BY <3>2
    <3> HIDE DEF fv, gv, h
    <3>9. fv = gv
      BY <3>3, <3>4, <3>5, RunUnique
    <3> QED
      BY <2>2, <2>3, <2>5, <3>6, <3>7, <3>8, <3>9 DEF LastRound
  <2> QED
    BY <2>4, <2>5
<1>6. ASSUME NEW s \in SUBSET u
      PROVE  g[s] = LastRound(a, start, g, s)
  <2>1. g[s] = LastRound(a, start, h, s)
    BY <1>5
  <2>2. s # {} => Latest(s) \in s
    BY <1>4, SubsetSorts, LatestIs
  <2>3. s # {} => h[s \ {Latest(s)}] = g[s \ {Latest(s)}]
    BY <2>2
  <2> QED
    BY <2>1, <2>3 DEF LastRound
<1>7. IsRun(a, start, u, g)
  BY <1>6 DEF IsRun
<1> QED
  BY <1>2, <1>7

\* The loop is over after the round of the last entry.
LEMMA RunRound ==
  ASSUME NEW a, NEW start, NEW T, Sortable(T)
  PROVE  /\ T = {} => Run(a, start, T) = start
         /\ T # {} => Run(a, start, T) =
                        Turn1(a, Run(a, start, T \ {Latest(T)}), Latest(T))
<1> DEFINE f == CHOOSE f : IsRun(a, start, T, f)
<1>1. IsRun(a, start, T, f) /\ Run(a, start, T) = f[T]
  BY RunExists DEF Run
<1> HIDE DEF f
<1>2. f[T] = LastRound(a, start, f, T)
  BY <1>1 DEF IsRun
<1>3. CASE T = {}
  BY <1>1, <1>2, <1>3 DEF LastRound
<1>4. CASE T # {}
  <2> DEFINE v == T \ {Latest(T)}
             fv == CHOOSE g : IsRun(a, start, v, g)
             gv == [r \in SUBSET v |-> f[r]]
  <2>1. v \in SUBSET T /\ Sortable(v)
    BY SubsetSorts
  <2>2. IsRun(a, start, v, fv) /\ Run(a, start, v) = fv[v]
    BY <2>1, RunExists DEF Run
  <2>3. IsRun(a, start, v, gv) /\ gv[v] = f[v]
    BY <1>1, <2>1, RunRestricted
  <2> HIDE DEF fv, gv
  <2>4. fv = gv
    BY <2>1, <2>2, <2>3, RunUnique
  <2> QED
    BY <1>1, <1>2, <1>4, <2>2, <2>3, <2>4 DEF LastRound
<1> QED
  BY <1>3, <1>4

PoolRun(p, v, T) == Run(PoolLoop(p[2], v), Opened(p), T)

Moving(k, E, t) == {e \in Own(k, E) : e.at <= t}

LEMMA PoolIs ==
  ASSUME NEW p, NEW E, NEW v, NEW t
  PROVE  Pool(p, E, v, t) = PoolRun(p, v, Moving(p[2], E, t))
<1> DEFINE T == Moving(p[2], E, t)
           Chosen(f) == f = [s \in SUBSET T |-> IF s = {} THEN Opened(p)
              ELSE LET x == Latest(s) IN Project(p[2], v, f[s \ {x}], x)]
<1>1. Pool(p, E, v, t) = (CHOOSE f : Chosen(f))[T]
  BY DEF Pool, Replayed, MapThenFoldSet, Moving
<1>2. \A f : Chosen(f) <=> IsRun(PoolLoop(p[2], v), Opened(p), T, f)
  BY DEF IsRun, LastRound, Turn1, PoolLoop
<1> HIDE DEF Chosen, T
<1> QED
  BY <1>1, <1>2 DEF PoolRun, Run, T

InvestmentStart(g, k) ==
  [pool |-> Opened(<<g, k>>), basis |-> 0,
   average |-> [Opened(<<g, k>>) EXCEPT !.cost = OpeningQuoted[g][k]]]

LEMMA InvestmentIs ==
  ASSUME NEW s, NEW g, NEW k
  PROVE  Investment(s, g, k) = Run(TradeLoop(s, g, k), InvestmentStart(g, k), Own(k, s.entries[g]))
<1> DEFINE T == Own(k, s.entries[g])
           Chosen(f) == f = [u \in SUBSET T |-> IF u = {} THEN InvestmentStart(g, k)
              ELSE LET x == Latest(u) IN Trade(s, g, k, f[u \ {x}], x)]
<1>1. Investment(s, g, k) = (CHOOSE f : Chosen(f))[T]
  BY DEF Investment, Replayed, MapThenFoldSet, InvestmentStart
<1>2. \A f : Chosen(f) <=> IsRun(TradeLoop(s, g, k), InvestmentStart(g, k), T, f)
  BY DEF IsRun, LastRound, Turn1, TradeLoop
<1> HIDE DEF Chosen, T
<1> QED
  BY <1>1, <1>2 DEF Run, T

-----------------------------------------------------------------------------
(* Segments: what the loop has seen at some point of it.                   *)

Segments(S) == {T \in SUBSET S : \A e \in T : Preceding(S, e) \subseteq T}

LEMMA SegmentEnds ==
  ASSUME NEW S, Sortable(S), NEW T \in Segments(S), T # {}
  PROVE  /\ Sortable(T) /\ Latest(T) \in T /\ Latest(T) \in S
         /\ T \ {Latest(T)} \in Segments(S)
         /\ T \ {Latest(T)} = Preceding(S, Latest(T))
<1>1. T \in SUBSET S /\ Sortable(T)
  BY SubsetSorts DEF Segments
<1> DEFINE m == Latest(T)
<1>2. m \in T /\ \A d \in T \ {m} : Before(d, m)
  BY <1>1, LatestIs
<1> HIDE DEF m
<1>3. T \ {m} = Preceding(S, m)
  <2>1. Preceding(S, m) \subseteq T
    BY <1>2 DEF Segments
  <2>2. m \notin Preceding(S, m)
    BY <1>1, <1>2, BeforeOrders DEF Preceding
  <2>3. T \ {m} \subseteq Preceding(S, m)
    BY <1>1, <1>2 DEF Preceding
  <2> QED
    BY <2>1, <2>2, <2>3
<1>4. T \ {m} \in Segments(S)
  <2>1. ASSUME NEW e \in Preceding(S, m)
        PROVE  Preceding(S, e) \subseteq Preceding(S, m)
    BY <1>1, <1>2, <2>1, BeforeOrders DEF Preceding
  <2> QED
    BY <1>1, <1>3, <2>1 DEF Segments
<1> QED
  BY <1>1, <1>2, <1>3, <1>4 DEF m

\* A segment with entries beyond another ends in one of them.
LEMMA SegmentBeyond ==
  ASSUME NEW S, Sortable(S), NEW A \in Segments(S), NEW T \in Segments(S),
         A \subseteq T, T # A
  PROVE  Latest(T) \notin A /\ A \subseteq T \ {Latest(T)}
<1>1. PICK x \in T : x \notin A
  OBVIOUS
<1>2. Sortable(T) /\ Latest(T) \in T /\ x \in S
  BY <1>1, SegmentEnds DEF Segments
<1>3. ASSUME Latest(T) \in A
      PROVE  FALSE
  <2>1. Before(x, Latest(T))
    BY <1>1, <1>2, <1>3, LatestIs
  <2>2. x \in Preceding(S, Latest(T))
    BY <1>2, <2>1 DEF Preceding
  <2> QED
    BY <1>1, <1>3, <2>2 DEF Segments
<1> QED
  BY <1>3

\* Induction along the loop, from what it has seen already.
LEMMA SegmentsFrom ==
  ASSUME NEW S, Sortable(S), NEW A \in Segments(S), NEW F, A \in F,
         \A T \in Segments(S) :
           A \subseteq T \ {Latest(T)} /\ Latest(T) \in T \ A /\ T \ {Latest(T)} \in F => T \in F
  PROVE  \A T \in Segments(S) : A \subseteq T => T \in F
<1> DEFINE G == {T \in Segments(S) : A \subseteq T /\ T \notin F}
<1> SUFFICES ASSUME G # {} PROVE FALSE
  OBVIOUS
<1>1. G \in SUBSET SUBSET S /\ IsFiniteSet(S)
  BY DEF Segments, Sortable
<1>2. PICK T \in G : \A U \in G : U \subseteq T => U = T
  <2> HIDE DEF G
  <2> QED
    BY <1>1, LeastSubset
<1>3. T # A /\ T # {}
  BY <1>2
<1>4. /\ Latest(T) \in T \ A /\ A \subseteq T \ {Latest(T)}
      /\ T \ {Latest(T)} \in Segments(S)
  BY <1>2, <1>3, SegmentEnds, SegmentBeyond
<1>5. T \ {Latest(T)} \notin G
  BY <1>2, <1>4
<1> QED
  BY <1>2, <1>4, <1>5

LEMMA NoneIsSegment == ASSUME NEW S PROVE {} \in Segments(S)
BY DEF Segments

LEMMA AllIsSegment == ASSUME NEW S PROVE S \in Segments(S)
BY DEF Segments, Preceding

LEMMA SegmentsNest ==
  ASSUME NEW S, NEW A \in Segments(S), NEW T \in Segments(A)
  PROVE  T \in Segments(S)
BY DEF Segments, Preceding

LEMMA SegmentInside ==
  ASSUME NEW S, NEW A, NEW T \in Segments(S), A \subseteq S, T \subseteq A
  PROVE  T \in Segments(A)
BY DEF Segments, Preceding

\* What is dated up to some day.
LEMMA DatedSegment ==
  ASSUME NEW S, Sortable(S), NEW t \in Int
  PROVE  {e \in S : e.at <= t} \in Segments(S)
<1>1. \A d, e \in S : Before(d, e) => d.at <= e.at
  BY DEF Before, Sortable
<1>2. \A e \in S : e.at \in Int
  BY DEF Sortable
<1> QED
  BY <1>1, <1>2 DEF Segments, Preceding

LEMMA PrecedingSegment ==
  ASSUME NEW S, Sortable(S), NEW e \in S
  PROVE  Preceding(S, e) \in Segments(S)
BY BeforeOrders DEF Segments, Preceding

-----------------------------------------------------------------------------
(* Arithmetic of the parts of a pool.                                      *)

LEMMA Division ==
  ASSUME NEW a \in Nat, NEW b \in Nat \ {0}
  PROVE  a \div b \in Nat /\ b * (a \div b) <= a /\ a < b * (a \div b) + b
OBVIOUS

LEMMA SliceBounds ==
  ASSUME NEW pool, pool.units \in Nat, pool.cost \in Nat, NEW n \in Nat, n <= pool.units
  PROVE  /\ Slice(pool, n) \in Nat /\ Slice(pool, n) <= pool.cost
         /\ n = pool.units /\ n # 0 => Slice(pool, n) = pool.cost
<1> DEFINE u == pool.units
           c == pool.cost
           q == (c * n) \div u
<1>1. u \in Nat /\ c \in Nat
  OBVIOUS
<1>2. CASE u = 0
  BY <1>2 DEF Slice
<1>3. CASE u # 0
  <2>1. c * n \in Nat /\ Slice(pool, n) = q
    BY <1>3 DEF Slice
  <2>2. q \in Nat /\ u * q <= c * n /\ c * n < u * q + u
    BY <1>1, <1>3, <2>1, Division
  <2>3. c * n <= c * u
    BY <1>1
  <2> HIDE DEF q, u, c
  <2>4. q <= c
    <3>1. SUFFICES ASSUME c + 1 <= q PROVE FALSE
      BY <1>1, <2>2
    <3>2. u * (c + 1) <= u * q
      BY <1>1, <2>2, <3>1
    <3>3. u * (c + 1) = c * u + u
      BY <1>1
    <3>4. u * q \in Nat /\ c * u \in Nat /\ c * n \in Nat
      BY <1>1, <2>2
    <3> QED
      BY <1>1, <1>3, <2>2, <2>3, <3>2, <3>3, <3>4
  <2>5. ASSUME n = u
        PROVE  q = c
    <3>1. SUFFICES ASSUME q + 1 <= c PROVE FALSE
      BY <1>1, <2>2, <2>4
    <3>2. u * (q + 1) <= u * c
      BY <1>1, <2>2, <3>1
    <3>3. u * (q + 1) = u * q + u /\ u * c = c * n
      BY <1>1, <2>2, <2>5
    <3>4. u * q \in Nat /\ c * n \in Nat
      BY <1>1, <2>2
    <3> QED
      BY <1>1, <2>2, <3>2, <3>3, <3>4
  <2> QED
    BY <2>1, <2>2, <2>4, <2>5 DEF u, c
<1> QED
  BY <1>2, <1>3

\* More units carry no less.
LEMMA SliceGrows ==
  ASSUME NEW pool, pool.units \in Nat, pool.cost \in Nat, NEW m \in Nat, NEW n \in Nat, m <= n
  PROVE  Slice(pool, m) \in Nat /\ Slice(pool, n) \in Nat /\ Slice(pool, m) <= Slice(pool, n)
<1> DEFINE u == pool.units
           c == pool.cost
           q == (c * m) \div u
           r == (c * n) \div u
<1>1. u \in Nat /\ c \in Nat
  OBVIOUS
<1>2. CASE u = 0
  BY <1>2 DEF Slice
<1>3. CASE u # 0
  <2>1. c * m \in Nat /\ c * n \in Nat /\ Slice(pool, m) = q /\ Slice(pool, n) = r
    BY <1>3 DEF Slice
  <2>2. q \in Nat /\ u * q <= c * m
    BY <1>1, <1>3, <2>1, Division
  <2>3. r \in Nat /\ c * n < u * r + u
    BY <1>1, <1>3, <2>1, Division
  <2>4. c * m <= c * n
    BY <1>1
  <2> HIDE DEF q, r, u, c
  <2>5. q <= r
    <3>1. SUFFICES ASSUME r + 1 <= q PROVE FALSE
      BY <2>2, <2>3
    <3>2. u * (r + 1) <= u * q
      BY <1>1, <2>2, <2>3, <3>1
    <3>3. u * (r + 1) = u * r + u
      BY <1>1, <2>3
    <3>4. u * q \in Nat /\ u * r \in Nat
      BY <1>1, <2>2, <2>3
    <3> QED
      BY <1>1, <2>1, <2>2, <2>3, <2>4, <3>2, <3>3, <3>4
  <2> QED
    BY <2>1, <2>2, <2>3, <2>5
<1> QED
  BY <1>2, <1>3

-----------------------------------------------------------------------------
(* One round of a pool.                                                    *)

Credits(k, e) ==
  IF IsCash(k) THEN e.cash = k /\ e.type \in CashCredits
  ELSE e.asset = k /\ e.type \in AssetCredits

Debits(k, e) ==
  IF IsCash(k) THEN e.cash = k /\ e.type \in CashDebits
  ELSE e.asset = k /\ e.type \in AssetDebits

LEMMA OwnIs ==
  ASSUME NEW k, NEW E, NEW e
  PROVE  e \in Own(k, E) <=> e \in E /\ (Credits(k, e) \/ Debits(k, e))
BY DEF Own, CreditsTo, DebitsFrom, Credits, Debits

LEMMA CreditsNoDebits ==
  ASSUME NEW k, NEW e
  PROVE  ~(Credits(k, e) /\ Debits(k, e))
BY DEF Credits, Debits, CashCredits, CashDebits, AssetCredits, AssetDebits

\* What a pool is as long as the loop has not thrown, and whatever it was then.
Whole(pool) ==
  /\ pool \in [units: Int, cost: Int, fails: BOOLEAN]
  /\ ~pool.fails => pool.units \in Nat /\ pool.cost \in Nat

\* A pool that only a lack of units can make fail.
Solvent(pool) == Whole(pool) /\ (pool.fails => pool.units < 0)

\* One that keeps no cost without units, either.
Good(pool) == Solvent(pool) /\ (pool.units = 0 => pool.cost = 0)

LawfulEntry(k, v, e) ==
  /\ Size(k, e) \in Nat \ {0} /\ Worth[e.id] \in Nat
  /\ e.id \in DOMAIN v => v[e.id] \in Nat

Lawful(k, v, S) == \A e \in S : LawfulEntry(k, v, e)

Part(k, v, pool, e) ==
  IF e.id \in DOMAIN v THEN v[e.id]
  ELSE IF Credits(k, e) THEN Worth[e.id] ELSE Slice(pool, Size(k, e))

LEMMA PartType ==
  ASSUME NEW k, NEW v, NEW pool, NEW e, Whole(pool), ~pool.fails, LawfulEntry(k, v, e)
  PROVE  Part(k, v, pool, e) \in Nat
<1>1. Slice(pool, Size(k, e)) \in Nat
  BY SliceGrows DEF Whole, LawfulEntry
<1> QED
  BY <1>1 DEF Part, LawfulEntry

LEMMA ProjectMoves ==
  ASSUME NEW k, NEW v, NEW pool, NEW e, Whole(pool), ~pool.fails, LawfulEntry(k, v, e)
  PROVE  LET x == Project(k, v, pool, e)
             n == Size(k, e)
             c == Part(k, v, pool, e)
         IN /\ x \in [units: Int, cost: Int, fails: BOOLEAN]
            /\ x.fails <=> x.units < 0 \/ x.cost < 0
            /\ Credits(k, e) => x.units = pool.units + n /\ x.cost = pool.cost + c
            /\ ~Credits(k, e) => x.units = pool.units - n /\ x.cost = pool.cost - c
<1> DEFINE n == Size(k, e)
           c == Part(k, v, pool, e)
           sign == IF Credits(k, e) THEN 1 ELSE -1
           left == [units |-> pool.units + sign * n, cost |-> pool.cost + sign * c,
                    fails |-> pool.units + sign * n < 0 \/ pool.cost + sign * c < 0]
<1>1. e \in CreditsTo(k, {e}) <=> Credits(k, e)
  BY DEF CreditsTo, Credits
<1>2. Project(k, v, pool, e) = left
  <2>1. CASE e.id \in DOMAIN v
    BY <1>1, <2>1 DEF Project, Part
  <2>2. CASE e.id \notin DOMAIN v /\ Credits(k, e)
    BY <1>1, <2>2 DEF Project, Part
  <2>3. CASE e.id \notin DOMAIN v /\ ~Credits(k, e)
    BY <1>1, <2>3 DEF Project, Part
  <2> QED
    BY <2>1, <2>2, <2>3
<1>3. n \in Nat /\ c \in Nat /\ pool.units \in Nat /\ pool.cost \in Nat
  BY PartType DEF LawfulEntry, Whole
<1> HIDE DEF n, c
<1>4. ASSUME NEW a \in Int, NEW b \in Int,
             Project(k, v, pool, e) = [units |-> a, cost |-> b, fails |-> a < 0 \/ b < 0]
      PROVE  LET x == Project(k, v, pool, e)
             IN /\ x \in [units: Int, cost: Int, fails: BOOLEAN]
                /\ x.fails <=> x.units < 0 \/ x.cost < 0
                /\ x.units = a /\ x.cost = b
  <2> DEFINE broke == a < 0 \/ b < 0
  <2>1. broke \in BOOLEAN
    OBVIOUS
  <2>2. (broke = TRUE) <=> a < 0 \/ b < 0
    OBVIOUS
  <2>3. Project(k, v, pool, e) = [units |-> a, cost |-> b, fails |-> broke]
    BY <1>4
  <2> HIDE DEF broke
  <2>4. [units |-> a, cost |-> b, fails |-> broke] \in [units: Int, cost: Int, fails: BOOLEAN]
    BY <2>1
  <2> QED
    BY <2>1, <2>2, <2>3, <2>4
<1>5. CASE Credits(k, e)
  <2>1. pool.units + sign * n = pool.units + n /\ pool.cost + sign * c = pool.cost + c
    BY <1>3, <1>5
  <2>2. pool.units + n \in Int /\ pool.cost + c \in Int
    BY <1>3
  <2> QED
    BY <1>2, <1>4, <1>5, <2>1, <2>2 DEF n, c
<1>6. CASE ~Credits(k, e)
  <2>1. pool.units + sign * n = pool.units - n /\ pool.cost + sign * c = pool.cost - c
    BY <1>3, <1>6
  <2>2. pool.units - n \in Int /\ pool.cost - c \in Int
    BY <1>3
  <2> QED
    BY <1>2, <1>4, <1>6, <2>1, <2>2 DEF n, c
<1> QED
  BY <1>5, <1>6

LEMMA FailureSticks ==
  ASSUME NEW k, NEW v, NEW pool, NEW e, pool.fails
  PROVE  Project(k, v, pool, e) = pool
BY DEF Project

LEMMA ProjectKeepsWhole ==
  ASSUME NEW k, NEW v, NEW pool, NEW e, Whole(pool), LawfulEntry(k, v, e)
  PROVE  Whole(Project(k, v, pool, e))
<1>1. CASE pool.fails
  BY <1>1, FailureSticks
<1>2. CASE ~pool.fails
  <2>1. LET x == Project(k, v, pool, e)
        IN /\ x \in [units: Int, cost: Int, fails: BOOLEAN]
           /\ x.fails <=> x.units < 0 \/ x.cost < 0
    BY <1>2, ProjectMoves
  <2> QED
    BY <2>1 DEF Whole
<1> QED
  BY <1>1, <1>2 DEF Whole

\* An entry that takes its own part of the pool never takes too much, and all of
\* it with the last unit.
LEMMA UnrecordedIsSafe ==
  ASSUME NEW k, NEW v, NEW pool, NEW e, Whole(pool), LawfulEntry(k, v, e), e.id \notin DOMAIN v
  PROVE  /\ ~pool.fails => Solvent(Project(k, v, pool, e))
         /\ Good(pool) => Good(Project(k, v, pool, e))
<1>1. CASE pool.fails
  BY <1>1, FailureSticks DEF Good
<1>2. CASE ~pool.fails
  <2> DEFINE x == Project(k, v, pool, e)
             n == Size(k, e)
             c == Part(k, v, pool, e)
  <2>1. /\ x \in [units: Int, cost: Int, fails: BOOLEAN]
        /\ x.fails <=> x.units < 0 \/ x.cost < 0
        /\ Credits(k, e) => x.units = pool.units + n /\ x.cost = pool.cost + c
        /\ ~Credits(k, e) => x.units = pool.units - n /\ x.cost = pool.cost - c
    BY <1>2, ProjectMoves
  <2>2. n \in Nat \ {0} /\ c \in Nat /\ pool.units \in Nat /\ pool.cost \in Nat
    BY <1>2, PartType DEF LawfulEntry, Whole
  <2>3. ~Credits(k, e) => c = Slice(pool, n)
    BY DEF Part
  <2> HIDE DEF x, c, n
  <2>4. CASE Credits(k, e)
    <3>1. x.units \in Nat \ {0} /\ x.cost \in Nat
      BY <2>1, <2>2, <2>4
    <3>2. ~x.fails /\ x.units # 0
      BY <2>1, <3>1
    <3> QED
      BY <1>2, <2>1, <3>1, <3>2 DEF Good, Solvent, Whole, x
  <2>5. CASE ~Credits(k, e) /\ n <= pool.units
    <3>1. c <= pool.cost /\ (n = pool.units => c = pool.cost)
      BY <2>2, <2>3, <2>5, SliceBounds
    <3>2. x.units \in Nat /\ x.cost \in Nat /\ (x.units = 0 => x.cost = 0)
      BY <2>1, <2>2, <2>5, <3>1
    <3>3. ~x.fails
      BY <2>1, <3>2
    <3> QED
      BY <1>2, <2>1, <3>2, <3>3 DEF Good, Solvent, Whole, x
  <2>6. CASE ~Credits(k, e) /\ ~(n <= pool.units)
    <3>1. x.units < 0 /\ x.units # 0
      BY <2>1, <2>2, <2>6
    <3> QED
      BY <1>2, <2>1, <3>1 DEF Good, Solvent, Whole, x
  <2> QED
    BY <2>4, <2>5, <2>6
<1> QED
  BY <1>1, <1>2

-----------------------------------------------------------------------------
(* Pools along the loop.                                                   *)

LEMMA PoolRound ==
  ASSUME NEW p, NEW v, NEW T, Sortable(T)
  PROVE  /\ T = {} => PoolRun(p, v, T) = Opened(p)
         /\ T # {} => PoolRun(p, v, T) =
                        Project(p[2], v, PoolRun(p, v, T \ {Latest(T)}), Latest(T))
<1> DEFINE a == PoolLoop(p[2], v)
<1>1. \A pool, e : Turn1(a, pool, e) = Project(p[2], v, pool, e)
  BY DEF Turn1, PoolLoop
<1> HIDE DEF a
<1>2. /\ T = {} => Run(a, Opened(p), T) = Opened(p)
      /\ T # {} => Run(a, Opened(p), T) =
                     Turn1(a, Run(a, Opened(p), T \ {Latest(T)}), Latest(T))
  BY RunRound
<1> QED
  BY <1>1, <1>2 DEF PoolRun, a

SameCost(v, w, i) ==
  /\ i \in DOMAIN v <=> i \in DOMAIN w
  /\ i \in DOMAIN v => v[i] = w[i]

LEMMA ProjectAgrees ==
  ASSUME NEW k, NEW v, NEW w, NEW e, SameCost(v, w, e.id), NEW pool
  PROVE  Project(k, v, pool, e) = Project(k, w, pool, e)
<1>1. CASE e.id \in DOMAIN v
  BY <1>1 DEF Project, SameCost
<1>2. CASE e.id \notin DOMAIN v
  BY <1>2 DEF Project, SameCost
<1> QED
  BY <1>1, <1>2

\* The loop asks of the recorded costs only those of its entries.
LEMMA RunAgrees ==
  ASSUME NEW p, NEW v, NEW w, NEW S, Sortable(S), \A e \in S : SameCost(v, w, e.id)
  PROVE  \A T \in Segments(S) : PoolRun(p, v, T) = PoolRun(p, w, T)
<1> DEFINE F == {T \in SUBSET S : PoolRun(p, v, T) = PoolRun(p, w, T)}
<1>1. {} \in F
  <2>1. Sortable({})
    BY SubsetSorts
  <2> QED
    BY <2>1, PoolRound
<1>2. ASSUME NEW T \in Segments(S), Latest(T) \in T, T \ {Latest(T)} \in F
      PROVE  T \in F
  <2>1. T # {} /\ Sortable(T) /\ T \in SUBSET S
    BY <1>2, SegmentEnds DEF Segments
  <2>2. SameCost(v, w, Latest(T).id)
    BY <1>2, <2>1
  <2>3. PoolRun(p, v, T \ {Latest(T)}) = PoolRun(p, w, T \ {Latest(T)})
    BY <1>2
  <2>4. PoolRun(p, v, T) = PoolRun(p, w, T)
    BY <2>1, <2>2, <2>3, PoolRound, ProjectAgrees
  <2> QED
    BY <2>1, <2>4
<1> HIDE DEF F
<1>3. \A T \in Segments(S) : {} \subseteq T => T \in F
  BY <1>1, <1>2, NoneIsSegment, SegmentsFrom
<1> QED
  BY <1>3 DEF F

LEMMA RunWhole ==
  ASSUME NEW p, NEW v, NEW S, Sortable(S), Lawful(p[2], v, S), Whole(Opened(p))
  PROVE  \A T \in Segments(S) : Whole(PoolRun(p, v, T))
<1> DEFINE F == {T \in SUBSET S : Whole(PoolRun(p, v, T))}
<1>1. {} \in F
  <2>1. Sortable({})
    BY SubsetSorts
  <2> QED
    BY <2>1, PoolRound
<1>2. ASSUME NEW T \in Segments(S), Latest(T) \in T, T \ {Latest(T)} \in F
      PROVE  T \in F
  <2>1. T # {} /\ Sortable(T) /\ T \in SUBSET S
    BY <1>2, SegmentEnds DEF Segments
  <2>2. LawfulEntry(p[2], v, Latest(T))
    BY <1>2, <2>1 DEF Lawful
  <2>3. Whole(PoolRun(p, v, T \ {Latest(T)}))
    BY <1>2
  <2>4. Whole(PoolRun(p, v, T))
    BY <2>1, <2>2, <2>3, PoolRound, ProjectKeepsWhole
  <2> QED
    BY <2>1, <2>4
<1> HIDE DEF F
<1>3. \A T \in Segments(S) : {} \subseteq T => T \in F
  BY <1>1, <1>2, NoneIsSegment, SegmentsFrom
<1> QED
  BY <1>3 DEF F

\* A loop that did not throw did not do so before, either.
LEMMA RunSticks ==
  ASSUME NEW p, NEW v, NEW S, Sortable(S), NEW A \in Segments(S), PoolRun(p, v, A).fails
  PROVE  \A T \in Segments(S) : A \subseteq T => PoolRun(p, v, T) = PoolRun(p, v, A)
<1> DEFINE F == {T \in SUBSET S : PoolRun(p, v, T) = PoolRun(p, v, A)}
<1>1. A \in F
  BY DEF Segments
<1>2. ASSUME NEW T \in Segments(S), Latest(T) \in T, T \ {Latest(T)} \in F
      PROVE  T \in F
  <2>1. T # {} /\ Sortable(T) /\ T \in SUBSET S
    BY <1>2, SegmentEnds DEF Segments
  <2>2. PoolRun(p, v, T \ {Latest(T)}) = PoolRun(p, v, A)
    BY <1>2
  <2>3. PoolRun(p, v, T) = PoolRun(p, v, A)
    BY <2>1, <2>2, PoolRound, FailureSticks
  <2> QED
    BY <2>1, <2>3
<1> HIDE DEF F
<1>3. \A T \in Segments(S) : A \subseteq T => T \in F
  BY <1>1, <1>2, SegmentsFrom
<1> QED
  BY <1>3 DEF F

-----------------------------------------------------------------------------
(* Units are balances.                                                     *)

Balance(g, k, E) ==
  IF IsCash(k) THEN CashBalance(g, k, E) ELSE PositionBalance(g, k, E)

\* Entries with the numbers an account is moved by.
Counted(E) == \A e \in E : e.amount \in Nat /\ e.quantity \in Nat

LEMMA OpeningIs ==
  ASSUME NEW p \in Pools
  PROVE  /\ Opening[p[1]][p[2]] \in Nat /\ OpeningCost[p[1]][p[2]] \in Nat
         /\ Good(Opened(p))
<1>1. p[1] \in Goals /\ p[2] \in CashAccounts \cup Positions
  BY DEF Pools
<1>2. Opening[p[1]][p[2]] \in Nat /\ OpeningCost[p[1]][p[2]] \in Nat
  BY <1>1, GoalsAssumption, CostsAssumption
<1>3. Opening[p[1]][p[2]] = 0 => OpeningCost[p[1]][p[2]] = 0
  BY CostsAssumption
<1> QED
  BY <1>2, <1>3 DEF Opened, Good, Solvent, Whole

LEMMA BalanceOfNothing ==
  ASSUME NEW p \in Pools
  PROVE  Balance(p[1], p[2], {}) = Opening[p[1]][p[2]]
<1>1. Opening[p[1]][p[2]] \in Int
  BY OpeningIs
<1>2. \A account, field, credits, debits :
        Net(Opening[p[1]][p[2]], account, field, p[2], credits, debits, {}) = Opening[p[1]][p[2]]
  BY <1>1, NetOfNone
<1> QED
  BY <1>2, BalancesAreNet DEF Balance

LEMMA KindsDiffer ==
  /\ CashCredits \cap CashDebits = {} /\ AssetCredits \cap AssetDebits = {}
BY DEF CashCredits, CashDebits, AssetCredits, AssetDebits

\* One entry more.
LEMMA BalanceMoves ==
  ASSUME NEW p \in Pools, NEW T, IsFiniteSet(T), NEW e, e \notin T, Counted(T \cup {e})
  PROVE  /\ Balance(p[1], p[2], T) \in Int
         /\ Credits(p[2], e) =>
              Balance(p[1], p[2], T \cup {e}) = Balance(p[1], p[2], T) + Size(p[2], e)
         /\ Debits(p[2], e) =>
              Balance(p[1], p[2], T \cup {e}) = Balance(p[1], p[2], T) - Size(p[2], e)
<1> DEFINE g == p[1]
           k == p[2]
           o == Opening[g][k]
<1>1. o \in Int
  BY OpeningIs
<1>2. /\ \A d \in T \cup {e} : d["amount"] \in Nat
      /\ \A d \in T \cup {e} : d["quantity"] \in Nat
      /\ e.amount = e["amount"] /\ e.quantity = e["quantity"]
      /\ e.cash = e["cash"] /\ e.asset = e["asset"]
  BY DEF Counted
<1> HIDE DEF o, k, g
<1>3. CASE IsCash(k)
  <2>1. /\ Net(o, "cash", "amount", k, CashCredits, CashDebits, T) \in Int
        /\ Net(o, "cash", "amount", k, CashCredits, CashDebits, T \cup {e}) =
             Net(o, "cash", "amount", k, CashCredits, CashDebits, T)
               + Moves("cash", "amount", k, CashCredits, CashDebits, e)
    BY <1>1, <1>2, KindsDiffer, NetOfMore
  <2>2. /\ Balance(g, k, T) = Net(o, "cash", "amount", k, CashCredits, CashDebits, T)
        /\ Balance(g, k, T \cup {e}) =
             Net(o, "cash", "amount", k, CashCredits, CashDebits, T \cup {e})
    BY <1>3, BalancesAreNet DEF Balance, o
  <2>3. Size(k, e) = e.amount /\ e.amount \in Nat
    BY <1>2, <1>3 DEF Size
  <2>4. Credits(k, e) => Moves("cash", "amount", k, CashCredits, CashDebits, e) = Size(k, e)
    BY <1>2, <1>3, <2>3 DEF Moves, Credits
  <2>5. Debits(k, e) => Moves("cash", "amount", k, CashCredits, CashDebits, e) = -Size(k, e)
    BY <1>2, <1>3, <2>3, KindsDiffer DEF Moves, Debits
  <2> QED
    BY <2>1, <2>2, <2>3, <2>4, <2>5 DEF g, k
<1>4. CASE ~IsCash(k)
  <2>1. /\ Net(o, "asset", "quantity", k, AssetCredits, AssetDebits, T) \in Int
        /\ Net(o, "asset", "quantity", k, AssetCredits, AssetDebits, T \cup {e}) =
             Net(o, "asset", "quantity", k, AssetCredits, AssetDebits, T)
               + Moves("asset", "quantity", k, AssetCredits, AssetDebits, e)
    BY <1>1, <1>2, KindsDiffer, NetOfMore
  <2>2. /\ Balance(g, k, T) = Net(o, "asset", "quantity", k, AssetCredits, AssetDebits, T)
        /\ Balance(g, k, T \cup {e}) =
             Net(o, "asset", "quantity", k, AssetCredits, AssetDebits, T \cup {e})
    BY <1>4, BalancesAreNet DEF Balance, o
  <2>3. Size(k, e) = e.quantity /\ e.quantity \in Nat
    BY <1>2, <1>4 DEF Size
  <2>4. Credits(k, e) => Moves("asset", "quantity", k, AssetCredits, AssetDebits, e) = Size(k, e)
    BY <1>2, <1>4, <2>3 DEF Moves, Credits
  <2>5. Debits(k, e) => Moves("asset", "quantity", k, AssetCredits, AssetDebits, e) = -Size(k, e)
    BY <1>2, <1>4, <2>3, KindsDiffer DEF Moves, Debits
  <2> QED
    BY <2>1, <2>2, <2>3, <2>4, <2>5 DEF g, k
<1> QED
  BY <1>3, <1>4

\* More entries that do not credit the account: no more units.
LEMMA NetFalls ==
  ASSUME NEW opening \in Int, NEW account, NEW field, NEW k, NEW credits, NEW debits,
         NEW T, IsFiniteSet(T), \A e \in T : e[field] \in Nat, NEW U \in SUBSET T,
         \A e \in T \ U : ~(e[account] = k /\ e.type \in credits)
  PROVE  /\ Net(opening, account, field, k, credits, debits, T)
              <= Net(opening, account, field, k, credits, debits, U)
         /\ Net(opening, account, field, k, credits, debits, T) \in Int
         /\ Net(opening, account, field, k, credits, debits, U) \in Int
<1> DEFINE In(E) == {e \in E : e[account] = k /\ e.type \in credits}
           Out(E) == {e \in E : e[account] = k /\ e.type \in debits}
<1>1. In(T) = In(U)
  OBVIOUS
<1>2. /\ IsFiniteSet(U) /\ IsFiniteSet(In(U)) /\ IsFiniteSet(Out(U)) /\ IsFiniteSet(Out(T))
      /\ Out(U) \in SUBSET Out(T)
      /\ \A e \in Out(T) : e[field] \in Nat
      /\ \A e \in In(U) : e[field] \in Nat
  BY FS_Subset
<1>3. /\ SumOf(field, Out(U)) <= SumOf(field, Out(T))
      /\ SumOf(field, Out(U)) \in Nat /\ SumOf(field, Out(T)) \in Nat
      /\ SumOf(field, In(U)) \in Nat
  BY <1>2, SumOfFewer, SumOfType
<1>4. /\ Net(opening, account, field, k, credits, debits, T) =
           opening + SumOf(field, In(T)) - SumOf(field, Out(T))
      /\ Net(opening, account, field, k, credits, debits, U) =
           opening + SumOf(field, In(U)) - SumOf(field, Out(U))
  BY DEF Net
<1> HIDE DEF In, Out
<1> QED
  BY <1>1, <1>3, <1>4

LEMMA BalanceFalls ==
  ASSUME NEW p \in Pools, NEW T, IsFiniteSet(T), Counted(T), NEW U \in SUBSET T,
         \A e \in T \ U : ~Credits(p[2], e)
  PROVE  /\ Balance(p[1], p[2], T) <= Balance(p[1], p[2], U)
         /\ Balance(p[1], p[2], T) \in Int /\ Balance(p[1], p[2], U) \in Int
<1> DEFINE g == p[1]
           k == p[2]
           o == Opening[g][k]
<1>1. o \in Int
  BY OpeningIs
<1>2. /\ \A d \in T : d["amount"] \in Nat
      /\ \A d \in T : d["quantity"] \in Nat
  BY DEF Counted
<1>3. /\ \A E : IsCash(k) => Balance(g, k, E) = Net(o, "cash", "amount", k, CashCredits, CashDebits, E)
      /\ \A E : ~IsCash(k) =>
           Balance(g, k, E) = Net(o, "asset", "quantity", k, AssetCredits, AssetDebits, E)
  BY BalancesAreNet DEF Balance
<1> HIDE DEF o, k, g
<1>4. CASE IsCash(k)
  <2>1. \A e \in T \ U : ~(e["cash"] = k /\ e.type \in CashCredits)
    BY <1>4 DEF Credits, k
  <2>2. /\ Net(o, "cash", "amount", k, CashCredits, CashDebits, T)
             <= Net(o, "cash", "amount", k, CashCredits, CashDebits, U)
        /\ Net(o, "cash", "amount", k, CashCredits, CashDebits, T) \in Int
        /\ Net(o, "cash", "amount", k, CashCredits, CashDebits, U) \in Int
    BY <1>1, <1>2, <2>1, NetFalls
  <2> QED
    BY <1>3, <1>4, <2>2 DEF g, k
<1>5. CASE ~IsCash(k)
  <2>1. \A e \in T \ U : ~(e["asset"] = k /\ e.type \in AssetCredits)
    BY <1>5 DEF Credits, k
  <2>2. /\ Net(o, "asset", "quantity", k, AssetCredits, AssetDebits, T)
             <= Net(o, "asset", "quantity", k, AssetCredits, AssetDebits, U)
        /\ Net(o, "asset", "quantity", k, AssetCredits, AssetDebits, T) \in Int
        /\ Net(o, "asset", "quantity", k, AssetCredits, AssetDebits, U) \in Int
    BY <1>1, <1>2, <2>1, NetFalls
  <2> QED
    BY <1>3, <1>5, <2>2 DEF g, k
<1> QED
  BY <1>4, <1>5

\* The account is never overdrawn along the entries E of its goal.
Covered(p, E) == \A e \in E : Balance(p[1], p[2], UpTo(E, e)) >= 0

\* Nor after any of them: what one instant and priority still bring to an account
\* after a debit are debits.
LEMMA SegmentCovered ==
  ASSUME NEW p \in Pools, NEW E, Sortable(E), Counted(E), Covered(p, E)
  PROVE  \A T \in Segments(Own(p[2], E)) :
           Balance(p[1], p[2], T) \in Nat
<1> DEFINE k == p[2]
           S == Own(k, E)
           F == {T \in SUBSET S : Balance(p[1], k, T) \in Nat}
<1>1. S \in SUBSET E /\ \A e \in S : e \in E /\ (Credits(k, e) \/ Debits(k, e))
  BY OwnIs
<1>2. Sortable(S) /\ IsFiniteSet(E)
  BY <1>1, SubsetSorts DEF Sortable
<1>3. {} \in F
  BY BalanceOfNothing, OpeningIs
<1> HIDE DEF S
<1>4. ASSUME NEW T \in Segments(S), Latest(T) \in T, T \ {Latest(T)} \in F
      PROVE  T \in F
  <2> DEFINE m == Latest(T)
             R == T \ {m}
  <2>1. T # {} /\ T \in SUBSET S /\ m \in S /\ R = Preceding(S, m)
    BY <1>2, <1>4, SegmentEnds DEF Segments
  <2>2. IsFiniteSet(R) /\ m \notin R /\ Counted(R \cup {m}) /\ T = R \cup {m}
    BY <1>1, <1>2, <1>4, <2>1, FS_Subset DEF Counted
  <2>3. Balance(p[1], k, R) \in Nat
    BY <1>4
  <2>4. Size(k, m) \in Nat
    BY <1>1, <2>1 DEF Size, Counted
  <2> HIDE DEF m, R
  <2>5. CASE Credits(k, m)
    <3>1. Balance(p[1], k, T) = Balance(p[1], k, R) + Size(k, m)
      BY <2>2, <2>5, BalanceMoves
    <3> QED
      BY <2>1, <2>3, <2>4, <3>1
  <2>6. CASE Debits(k, m)
    <3> DEFINE U == UpTo(E, m)
    <3>1. m \in E /\ U \in SUBSET E /\ Balance(p[1], k, U) >= 0
      BY <1>1, <2>1 DEF Covered, UpTo
    <3>2. T \in SUBSET U
      <4> SUFFICES ASSUME NEW d \in T PROVE d \in U
        OBVIOUS
      <4>1. d \in E /\ (d = m \/ Before(d, m))
        BY <1>1, <2>1, <2>2 DEF Preceding
      <4>2. m.at \in Int /\ Priority(m) \in Int /\ d.at \in Int /\ Priority(d) \in Int
        BY <3>1, <4>1, PriorityType DEF Sortable
      <4>3. d.at < m.at \/ (d.at = m.at /\ Priority(d) <= Priority(m))
        BY <4>1, <4>2 DEF Before
      <4> QED
        BY <4>1, <4>3 DEF UpTo
    <3>3. ASSUME NEW e \in U, e \notin T
          PROVE  ~Credits(k, e)
      <4> SUFFICES ASSUME Credits(k, e) PROVE FALSE
        OBVIOUS
      <4>1. e \in S /\ e \in E
        BY <3>1, OwnIs DEF S
      <4>2. ~Before(e, m) /\ e # m
        BY <2>1, <2>2, <3>3, <4>1 DEF Preceding
      <4>3. e.at = m.at /\ Priority(e) = Priority(m)
        <5>1. e.at \in Int /\ m.at \in Int /\ Priority(e) \in Int /\ Priority(m) \in Int
          BY <3>1, <4>1, PriorityType DEF Sortable
        <5>2. e.at < m.at \/ (e.at = m.at /\ Priority(e) <= Priority(m))
          BY <3>3 DEF UpTo
        <5>3. ~(e.at < m.at) /\ ~(e.at = m.at /\ Priority(e) < Priority(m))
          BY <4>2 DEF Before
        <5> QED
          BY <5>1, <5>2, <5>3
      <4> QED
        BY <2>6, <4>3, TiesAgree DEF Credits, Debits
    <3>4. IsFiniteSet(U) /\ Counted(U)
      BY <1>2, <3>1, FS_Subset DEF Counted
    <3> HIDE DEF U
    <3>5. Balance(p[1], k, U) <= Balance(p[1], k, T)
            /\ Balance(p[1], k, U) \in Int /\ Balance(p[1], k, T) \in Int
      BY <3>2, <3>3, <3>4, BalanceFalls
    <3> QED
      BY <2>1, <3>1, <3>5
  <2> QED
    BY <1>1, <2>1, <2>5, <2>6
<1> HIDE DEF F
<1>5. \A T \in Segments(S) : {} \subseteq T => T \in F
  BY <1>2, <1>3, <1>4, NoneIsSegment, SegmentsFrom
<1> QED
  BY <1>5 DEF F, S

\* As long as the loop goes on, a pool holds the balance of what it has seen.
LEMMA UnitsAreBalance ==
  ASSUME NEW p \in Pools, NEW v, NEW E, Sortable(E), Counted(E), Lawful(p[2], v, Own(p[2], E))
  PROVE  \A T \in Segments(Own(p[2], E)) :
           /\ ~PoolRun(p, v, T).fails => PoolRun(p, v, T).units = Balance(p[1], p[2], T)
           /\ T # {} /\ ~PoolRun(p, v, T \ {Latest(T)}).fails =>
                PoolRun(p, v, T).units = Balance(p[1], p[2], T)
<1> DEFINE k == p[2]
           S == Own(k, E)
           Agrees(T) == ~PoolRun(p, v, T).fails => PoolRun(p, v, T).units = Balance(p[1], k, T)
           F == {T \in SUBSET S : Agrees(T)}
<1>1. S \in SUBSET E /\ \A e \in S : e \in E /\ (Credits(k, e) \/ Debits(k, e))
  BY OwnIs
<1>2. Sortable(S) /\ IsFiniteSet(E)
  BY <1>1, SubsetSorts DEF Sortable
<1>3. \A T \in Segments(S) : Whole(PoolRun(p, v, T))
  BY <1>2, OpeningIs, RunWhole DEF Good, Solvent
<1>4. {} \in F
  <2>1. Sortable({})
    BY <1>2, SubsetSorts
  <2> QED
    BY <2>1, BalanceOfNothing, PoolRound DEF Opened
<1> HIDE DEF S
<1>5. ASSUME NEW T \in Segments(S), Latest(T) \in T, Agrees(T \ {Latest(T)})
      PROVE  /\ ~PoolRun(p, v, T \ {Latest(T)}).fails =>
                  PoolRun(p, v, T).units = Balance(p[1], k, T)
             /\ Agrees(T)
  <2> DEFINE m == Latest(T)
             R == T \ {m}
             before == PoolRun(p, v, R)
             after == PoolRun(p, v, T)
  <2>1. T # {} /\ Sortable(T) /\ T \in SUBSET S /\ m \in S /\ R \in Segments(S)
    BY <1>2, <1>5, SegmentEnds DEF Segments
  <2>2. IsFiniteSet(R) /\ m \notin R /\ Counted(R \cup {m}) /\ T = R \cup {m}
    BY <1>1, <1>2, <1>5, <2>1, FS_Subset DEF Counted
  <2>3. after = Project(k, v, before, m) /\ Whole(before)
    BY <1>3, <2>1, PoolRound
  <2>4. LawfulEntry(k, v, m) /\ Size(k, m) \in Nat
    BY <2>1 DEF Lawful, LawfulEntry, S
  <2>5. before.fails => after.fails
    BY <2>3, FailureSticks
  <2>6. ASSUME ~before.fails
        PROVE  after.units = Balance(p[1], k, T)
    <3>1. before.units = Balance(p[1], k, R) /\ before.units \in Nat
      BY <1>5, <2>3, <2>6 DEF Whole
    <3>2. /\ Credits(k, m) => after.units = before.units + Size(k, m)
          /\ ~Credits(k, m) => after.units = before.units - Size(k, m)
      BY <2>3, <2>4, <2>6, ProjectMoves
    <3> HIDE DEF m, R, before, after
    <3>3. /\ Credits(k, m) => Balance(p[1], k, T) = Balance(p[1], k, R) + Size(k, m)
          /\ Debits(k, m) => Balance(p[1], k, T) = Balance(p[1], k, R) - Size(k, m)
      BY <2>2, BalanceMoves
    <3>4. Credits(k, m) \/ Debits(k, m)
      BY <1>1, <2>1
    <3> QED
      BY <3>1, <3>2, <3>3, <3>4, CreditsNoDebits
  <2> QED
    BY <2>5, <2>6
<1>6. ASSUME NEW T \in Segments(S), Latest(T) \in T, T \ {Latest(T)} \in F
      PROVE  T \in F
  <2>1. Agrees(T \ {Latest(T)}) /\ T \in SUBSET S
    BY <1>6 DEF Segments
  <2>2. Agrees(T)
    BY <1>5, <1>6, <2>1
  <2> QED
    BY <2>1, <2>2
<1>7. \A T \in Segments(S) : {} \subseteq T => T \in F
  <2> HIDE DEF F
  <2> QED
    BY <1>2, <1>4, <1>6, NoneIsSegment, SegmentsFrom
<1>8. ASSUME NEW T \in Segments(S)
      PROVE  Agrees(T)
  BY <1>7
<1>9. ASSUME NEW T \in Segments(S), T # {}
      PROVE  ~PoolRun(p, v, T \ {Latest(T)}).fails =>
               PoolRun(p, v, T).units = Balance(p[1], k, T)
  <2>1. Latest(T) \in T /\ T \ {Latest(T)} \in Segments(S)
    BY <1>2, <1>9, SegmentEnds
  <2>2. Agrees(T \ {Latest(T)})
    BY <1>8, <2>1
  <2> QED
    BY <1>5, <2>1, <2>2
<1> QED
  BY <1>8, <1>9 DEF S

-----------------------------------------------------------------------------
(* What is always so of histories and rows.                                *)

Touched(row) == {row.terms.source, row.terms.destination}

LegsAt(row, g) ==
  (IF g = row.terms.source[1] THEN Leaving(row) ELSE {})
    \cup (IF g = row.terms.destination[1] THEN Arriving(row) ELSE {})

\* Every entry was written by hand or posted by a transfer that completed.
Explained(g, e) ==
  \/ e \in Entries /\ Written(e)
  \/ \E row \in rows : row.status = "completed" /\ e \in LegsAt(row, g)

BookRow == [id: Ids, terms: Terms, at: Nat, status: {"pending", "completed", "rejected"}]

HistoriesExplained ==
  /\ history = [g \in Goals |-> history[g]]
  /\ \A g \in Goals : Sortable(history[g])
  /\ \A g \in Goals : \A e \in history[g] : Explained(g, e)

\* Ids are given in the order of the dates.
RowsDated ==
  /\ now \in Nat /\ rows \subseteq BookRow
  /\ \A r \in rows : r.at <= now
  /\ \A r, s \in rows : r.id = s.id => r = s
  /\ \A r, s \in rows : r.id < s.id => r.at <= s.at

Ordered(row) == \E p \in Touched(row) : p[2] \in InOrder

\* Where transfers run in order, none is overtaken.
NoneOvertaken ==
  \A r, s \in rows :
    r.status = "completed" /\ Ordered(r) /\ s.id < r.id => s.status # "pending"

BookInv == HistoriesExplained /\ RowsDated /\ NoneOvertaken

-----------------------------------------------------------------------------
(* The legs of a transfer.                                                 *)

LEMMA IdsAreNumbers == Ids \subseteq Nat /\ EntryIds \subseteq Nat
BY BookAssumption

LEMMA RowFacts ==
  ASSUME RowsDated, NEW row \in rows
  PROVE  /\ row.id \in Ids /\ row.id \in Nat /\ row.terms \in Terms /\ row.at \in Nat
         /\ row.status \in {"pending", "completed", "rejected"}
BY BookAssumption DEF RowsDated, BookRow

LEMMA LegFacts ==
  ASSUME RowsDated, NEW row \in rows, NEW g, NEW e \in LegsAt(row, g)
  PROVE  /\ e.at = row.at /\ e.type \in LegTypes
         /\ \E side \in AllSides : e.id = LegIds[row.id][side]
         /\ e.id \in Nat
<1>1. e.at = row.at /\ e.type \in LegTypes
  BY DEF LegsAt, Leaving, Arriving, Leg, LegTypes, CashLegs, AssetLegs
<1>2. \E side \in AllSides : e.id = LegIds[row.id][side]
  BY DEF LegsAt, Leaving, Arriving, Leg, LegId, AllSides
<1>3. PICK side \in AllSides : e.id = LegIds[row.id][side]
  BY <1>2
<1>4. LegIds[row.id] \in [AllSides -> EntryIds]
  BY RowFacts, LegIdsAssumption
<1>5. e.id \in Nat
  BY <1>3, <1>4, BookAssumption
<1> QED
  BY <1>1, <1>2, <1>5

\* A leg moves the pools its transfer names and no other.
LEMMA LegMoves ==
  ASSUME RowsDated, NEW row \in rows, NEW g, NEW k, NEW e \in LegsAt(row, g), NEW E,
         e \in Own(k, E)
  PROVE  <<g, k>> \in Touched(row)
<1> DEFINE t == row.terms
<1>1. /\ t.source \in Pools /\ t.destination \in Pools
      /\ IsCash(t.source[2]) <=> IsCash(t.destination[2])
  BY RowFacts, BookAssumption DEF IsCash
<1>2. t.source = <<t.source[1], t.source[2]>> /\ t.destination = <<t.destination[1], t.destination[2]>>
  BY <1>1 DEF Pools
<1>3. ASSUME g = t.source[1], e \in Leaving(row)
      PROVE  k = t.source[2]
  <2>1. CASE IsCash(t.source[2])
    <3>1. e.type \in {"cash_out", "cash_fee"} /\ e.cash = t.source[2]
      BY <1>3, <2>1 DEF Leaving, Leg
    <3> QED
      BY <3>1 DEF Own, CreditsTo, DebitsFrom, CashCredits, CashDebits, AssetCredits, AssetDebits
  <2>2. CASE ~IsCash(t.source[2])
    <3>1. e.type \in {"asset_out", "asset_fee"} /\ e.asset = t.source[2]
      BY <1>3, <2>2 DEF Leaving, Leg
    <3> QED
      BY <3>1 DEF Own, CreditsTo, DebitsFrom, CashCredits, CashDebits, AssetCredits, AssetDebits
  <2> QED
    BY <2>1, <2>2
<1>4. ASSUME g = t.destination[1], e \in Arriving(row)
      PROVE  k = t.destination[2]
  <2>1. CASE IsCash(t.source[2])
    <3>1. e.type = "cash_in" /\ e.cash = t.destination[2]
      BY <1>1, <1>4, <2>1 DEF Arriving, Leg
    <3> QED
      BY <3>1 DEF Own, CreditsTo, DebitsFrom, CashCredits, CashDebits, AssetCredits, AssetDebits
  <2>2. CASE ~IsCash(t.source[2])
    <3>1. e.type = "asset_in" /\ e.asset = t.destination[2]
      BY <1>1, <1>4, <2>2 DEF Arriving, Leg
    <3> QED
      BY <3>1 DEF Own, CreditsTo, DebitsFrom, CashCredits, CashDebits, AssetCredits, AssetDebits
  <2> QED
    BY <2>1, <2>2
<1> QED
  BY <1>2, <1>3, <1>4 DEF LegsAt, Touched

LEMMA LegsDiffer ==
  ASSUME RowsDated, NEW row \in rows, NEW g, NEW d \in LegsAt(row, g), NEW e \in LegsAt(row, g),
         d.id = e.id
  PROVE  d = e
<1> DEFINE cash == IsCash(row.terms.source[2])
           a == Leg(row, "source", IF cash THEN "cash_out" ELSE "asset_out",
                    row.terms.source, row.terms.units)
           b == Leg(row, "destination", IF cash THEN "cash_in" ELSE "asset_in",
                    row.terms.destination, row.terms.units)
           c == Leg(row, "commission", IF cash THEN "cash_fee" ELSE "asset_fee",
                    row.terms.source, row.terms.fee)
<1>1. d \in {a, b, c} /\ e \in {a, b, c}
  BY DEF LegsAt, Leaving, Arriving
<1>2. /\ a.id = LegIds[row.id]["source"] /\ b.id = LegIds[row.id]["destination"]
      /\ c.id = LegIds[row.id]["commission"]
  BY DEF Leg, LegId
<1>3. \A x, y \in AllSides : LegIds[row.id][x] = LegIds[row.id][y] => x = y
  BY RowFacts, LegIdsAssumption
<1> HIDE DEF a, b, c
<1>4. a.id # b.id /\ a.id # c.id /\ b.id # c.id
  BY <1>2, <1>3 DEF AllSides
<1> QED
  BY <1>1, <1>4

\* The legs a transfer would post bear ids no entry has.
LEMMA LegIdsAreNew ==
  ASSUME BookInv, NEW row \in rows, row.status = "pending",
         NEW g \in Goals, NEW d \in history[g], NEW side \in AllSides
  PROVE  d.id # LegIds[row.id][side]
<1>1. Explained(g, d)
  BY DEF BookInv, HistoriesExplained
<1>2. row.id \in Ids
  BY RowFacts DEF BookInv
<1>3. CASE d \in Entries
  BY <1>2, <1>3, LegIdsAssumption
<1>4. CASE \E r \in rows : r.status = "completed" /\ d \in LegsAt(r, g)
  <2>1. PICK r \in rows : r.status = "completed" /\ d \in LegsAt(r, g)
    BY <1>4
  <2>2. r.id # row.id /\ r.id \in Ids
    BY <2>1, RowFacts DEF BookInv, RowsDated
  <2>3. PICK other \in AllSides : d.id = LegIds[r.id][other]
    BY <2>1, LegFacts DEF BookInv
  <2> QED
    BY <1>2, <2>2, <2>3, LegIdsAssumption
<1> QED
  BY <1>1, <1>3, <1>4 DEF Explained

LEMMA PostedIs ==
  ASSUME NEW row, NEW g \in Goals
  PROVE  Posted(row)[g] = history[g] \cup LegsAt(row, g)
BY DEF Posted, LegsAt

LEMMA StatusKeepsLegs ==
  ASSUME NEW row, NEW g, NEW x
  PROVE  LegsAt([row EXCEPT !.status = x], g) = LegsAt(row, g)
BY DEF LegsAt, Leaving, Arriving, Leg, LegId

-----------------------------------------------------------------------------
(* The invariant.                                                          *)

LEMMA InitBook == BookInit => BookInv
<1> SUFFICES ASSUME BookInit PROVE BookInv
  OBVIOUS
<1>1. HistoriesExplained
  BY FS_EmptySet DEF BookInit, HistoriesExplained, Sortable
<1>2. RowsDated /\ NoneOvertaken
  BY DEF BookInit, RowsDated, NoneOvertaken
<1> QED
  BY <1>1, <1>2 DEF BookInv

\* A set of entries written by hand, at most one here.
LEMMA RewriteSorts ==
  ASSUME BookInv, NEW h \in Goals, NEW removed, NEW added \in SUBSET Entries,
         IsFiniteSet(added), \A d, e \in added : d = e, Rewrite(h, removed, added)
  PROVE  BookInv'
<1>1. /\ history' = [history EXCEPT ![h] = (@ \ removed) \cup added]
      /\ rows' = rows /\ now' = now
  BY DEF Rewrite
<1>2. \A g \in Goals : history'[g] = IF g = h THEN (history[h] \ removed) \cup added
                                     ELSE history[g]
  BY <1>1 DEF BookInv, HistoriesExplained
<1>3. history' = [g \in Goals |-> history'[g]]
  BY <1>1 DEF BookInv, HistoriesExplained
<1>4. ASSUME NEW g \in Goals
      PROVE  Sortable(history'[g])
  <2>1. Sortable(history[g]) /\ Sortable(history[h])
    BY DEF BookInv, HistoriesExplained
  <2>2. \A e \in added : e.at \in Int /\ e.id \in Int
    <3> TAKE e \in added
    <3>1. e \in Entry
      BY EntriesAssumption
    <3>2. e.at \in Nat
      BY <3>1 DEF Entry
    <3>3. e.id \in EntryIds
      BY <3>1 DEF Entry
    <3>4. e.id \in Nat
      BY <3>3, IdsAreNumbers
    <3> QED
      BY <3>2, <3>4
  <2>3. \A e \in added : \A d \in history[h] \ removed : d.id # e.id
    BY DEF Rewrite
  <2>4. IsFiniteSet((history[h] \ removed) \cup added)
    BY <2>1, FS_Subset, FS_Union DEF Sortable
  <2>5. Sortable((history[h] \ removed) \cup added)
    BY <2>1, <2>2, <2>3, <2>4 DEF Sortable
  <2> QED
    BY <1>2, <2>1, <2>5
<1>5. ASSUME NEW g \in Goals, NEW e \in history'[g]
      PROVE  Explained(g, e)'
  <2>1. e \in history[g] \/ e \in added
    BY <1>2
  <2>2. e \in added => Written(e)
    BY DEF Rewrite
  <2>3. e \in history[g] => Explained(g, e)
    BY DEF BookInv, HistoriesExplained
  <2> QED
    BY <1>1, <2>1, <2>2, <2>3 DEF Explained, Written, LegsAt, Leaving, Arriving, Leg, LegId
<1> QED
  BY <1>1, <1>3, <1>4, <1>5 DEF BookInv, HistoriesExplained, RowsDated, NoneOvertaken

LEMMA RewriteKeeps ==
  ASSUME BookInv, NEW h \in Goals, RewriteStep(h)
  PROVE  BookInv'
<1>1. ASSUME NEW e \in Entries, Rewrite(h, {}, {e})
      PROVE  BookInv'
  BY <1>1, FS_Singleton, RewriteSorts
<1>2. ASSUME NEW e \in Entries, Rewrite(h, {e}, {})
      PROVE  BookInv'
  BY <1>2, FS_EmptySet, RewriteSorts
<1>3. ASSUME NEW old \in Entries, NEW new \in Entries, Rewrite(h, {old}, {new})
      PROVE  BookInv'
  BY <1>3, FS_Singleton, RewriteSorts
<1> QED
  BY <1>1, <1>2, <1>3 DEF RewriteStep

LEMMA AcceptKeeps ==
  ASSUME BookInv, NEW i \in Ids, NEW terms \in Terms, Accept(i, terms)
  PROVE  BookInv'
<1> DEFINE new == [id |-> i, terms |-> terms, at |-> now, status |-> "pending"]
<1>1. rows' = rows \cup {new} /\ history' = history /\ now' = now
  BY DEF Accept
<1>2. \A row \in rows : row.id < i
  BY DEF Accept
<1>3. now \in Nat /\ i \in Nat
  BY BookAssumption DEF BookInv, RowsDated
<1>4. new \in BookRow /\ new.id = i /\ new.at = now /\ new.status = "pending"
  BY <1>3 DEF BookRow
<1>5. \A row \in rows : row.id \in Nat /\ row.at \in Nat /\ row.at <= now
  BY RowFacts DEF BookInv, RowsDated
<1> HIDE DEF new
<1>6. RowsDated'
  BY <1>1, <1>2, <1>3, <1>4, <1>5 DEF BookInv, RowsDated
<1>7. NoneOvertaken'
  <2> SUFFICES ASSUME NEW r \in rows', NEW s \in rows', r.status = "completed", Ordered(r),
                      s.id < r.id
               PROVE  s.status # "pending"
    BY <1>1 DEF NoneOvertaken, Ordered, Touched
  <2>1. r \in rows
    BY <1>1, <1>4
  <2>2. s \in rows
    BY <1>1, <1>2, <1>3, <1>4, <1>5, <2>1
  <2> QED
    BY <2>1, <2>2 DEF BookInv, NoneOvertaken
<1>8. HistoriesExplained'
  <2>1. ASSUME NEW g \in Goals, NEW e \in history[g]
        PROVE  Explained(g, e)'
    BY <1>1 DEF BookInv, HistoriesExplained, Explained, Written, LegsAt, Leaving, Arriving,
                Leg, LegId
  <2> QED
    BY <1>1, <2>1 DEF BookInv, HistoriesExplained
<1> QED
  BY <1>6, <1>7, <1>8 DEF BookInv

\* A row that is settled in its turn.
LEMMA SettleKeeps ==
  ASSUME BookInv, NEW row \in rows, row.status = "pending", NEW status \in {"completed", "rejected"},
         Turn(row), Settle(row, status), now' = now
  PROVE  /\ RowsDated' /\ NoneOvertaken'
         /\ \E new \in rows' : new.status = status /\ \A g : LegsAt(new, g) = LegsAt(row, g)
         /\ \A r \in rows : r.status = "completed" => r \in rows'
<1> DEFINE new == [row EXCEPT !.status = status]
<1>1. rows' = (rows \ {row}) \cup {new}
  BY DEF Settle
<1>2. row \in BookRow
  BY DEF BookInv, RowsDated
<1>3. /\ new \in BookRow /\ new.id = row.id /\ new.at = row.at /\ new.terms = row.terms
      /\ new.status = status
  BY <1>2 DEF BookRow
<1>4. \A g : LegsAt(new, g) = LegsAt(row, g)
  BY StatusKeepsLegs
<1> HIDE DEF new
<1>5. \A r \in rows : r.id \in Nat /\ r.at \in Nat /\ r.at <= now /\ (r.id = row.id => r = row)
  BY RowFacts DEF BookInv, RowsDated
<1>6. RowsDated'
  BY <1>1, <1>3, <1>5 DEF BookInv, RowsDated
<1>7. NoneOvertaken'
  <2> SUFFICES ASSUME NEW r \in rows', NEW s \in rows', r.status = "completed", Ordered(r),
                      s.id < r.id, s.status = "pending"
               PROVE  FALSE
    BY <1>1 DEF NoneOvertaken, Ordered, Touched
  <2>1. s \in rows
    BY <1>1, <1>3
  <2>2. CASE r \in rows
    BY <2>1, <2>2 DEF BookInv, NoneOvertaken
  <2>3. CASE r = new
    <3>1. Ordered(row) /\ s.id < row.id
      BY <1>3, <2>3 DEF Ordered, Touched
    <3>2. {row.terms.source[2], row.terms.destination[2]} \cap InOrder # {}
      BY <3>1 DEF Ordered, Touched
    <3> QED
      BY <2>1, <3>1, <3>2 DEF Turn
  <2> QED
    BY <1>1, <2>2, <2>3
<1> QED
  BY <1>1, <1>3, <1>4, <1>6, <1>7

LEMMA RejectKeeps ==
  ASSUME BookInv, NEW row \in rows, Reject(row)
  PROVE  BookInv'
<1>1. /\ RowsDated' /\ NoneOvertaken'
      /\ \A r \in rows : r.status = "completed" => r \in rows'
      /\ history' = history
  BY SettleKeeps DEF Reject
<1>2. ASSUME NEW g \in Goals, NEW e \in history[g]
      PROVE  Explained(g, e)'
  BY <1>1 DEF BookInv, HistoriesExplained, Explained, Written, LegsAt, Leaving, Arriving,
              Leg, LegId
<1> QED
  BY <1>1, <1>2 DEF BookInv, HistoriesExplained

LEMMA ExecuteKeeps ==
  ASSUME BookInv, NEW row \in rows, Execute(row)
  PROVE  BookInv'
<1>1. row.status = "pending" /\ history' = Posted(row)
  BY DEF Execute
<1>2. /\ RowsDated' /\ NoneOvertaken'
      /\ \A r \in rows : r.status = "completed" => r \in rows'
      /\ \E new \in rows' : new.status = "completed" /\ \A g : LegsAt(new, g) = LegsAt(row, g)
  BY SettleKeeps DEF Execute
<1>3. \A g \in Goals : history'[g] = history[g] \cup LegsAt(row, g)
  BY <1>1, PostedIs
<1>4. history' = [g \in Goals |-> history'[g]]
  BY <1>1 DEF Posted
<1>5. ASSUME NEW g \in Goals
      PROVE  Sortable(history'[g])
  <2>1. Sortable(history[g])
    BY DEF BookInv, HistoriesExplained
  <2>2. IsFiniteSet(LegsAt(row, g))
    BY FS_EmptySet, FS_Singleton, FS_Union DEF LegsAt, Leaving, Arriving
  <2>3. \A e \in LegsAt(row, g) : e.at \in Int /\ e.id \in Int
    BY LegFacts, RowFacts DEF BookInv
  <2>4. \A d \in history[g], e \in LegsAt(row, g) : d.id # e.id
    BY <1>1, LegFacts, LegIdsAreNew DEF BookInv
  <2>5. \A d, e \in LegsAt(row, g) : d.id = e.id => d = e
    BY LegsDiffer DEF BookInv
  <2>6. IsFiniteSet(history[g] \cup LegsAt(row, g))
    BY <2>1, <2>2, FS_Union DEF Sortable
  <2>7. Sortable(history[g] \cup LegsAt(row, g))
    BY <2>1, <2>3, <2>4, <2>5, <2>6 DEF Sortable
  <2> QED
    BY <1>3, <2>7
<1>6. ASSUME NEW g \in Goals, NEW e \in history'[g]
      PROVE  Explained(g, e)'
  <2>1. CASE e \in history[g]
    BY <1>2, <2>1 DEF BookInv, HistoriesExplained, Explained, Written, LegsAt, Leaving,
                      Arriving, Leg, LegId
  <2>2. CASE e \in LegsAt(row, g)
    BY <1>2, <2>2 DEF Explained, LegsAt, Leaving, Arriving, Leg, LegId
  <2> QED
    BY <1>3, <2>1, <2>2
<1> QED
  BY <1>2, <1>4, <1>5, <1>6 DEF BookInv, HistoriesExplained

LEMMA BookInvariant == BookSpec => []BookInv
<1>1. BookInv /\ [BookNext]_bookVars => BookInv'
  <2> SUFFICES ASSUME BookInv, [BookNext]_bookVars PROVE BookInv'
    OBVIOUS
  <2>1. CASE Tick
    <3>1. history' = history /\ rows' = rows /\ now' = now + 1
      BY <2>1 DEF Tick
    <3>2. RowsDated'
      <4>1. \A r \in rows : r.at \in Nat /\ r.at <= now
        BY RowFacts DEF BookInv, RowsDated
      <4> QED
        BY <3>1, <4>1 DEF BookInv, RowsDated
    <3> QED
      BY <3>1, <3>2 DEF BookInv, HistoriesExplained, NoneOvertaken, Ordered, Touched, Explained,
                        Written, LegsAt, Leaving, Arriving, Leg, LegId
  <2>2. CASE UNCHANGED bookVars
    BY <2>2 DEF bookVars, BookInv, HistoriesExplained, RowsDated, NoneOvertaken, Ordered, Touched,
                Explained, Written, LegsAt, Leaving, Arriving, Leg, LegId
  <2> QED
    BY <2>1, <2>2, RewriteKeeps, AcceptKeeps, ExecuteKeeps, RejectKeeps DEF BookNext
<1> QED
  BY <1>1, InitBook, PTL DEF BookSpec

-----------------------------------------------------------------------------
(* What is always so of the recorded costs and of the balances.            *)

\* Costs are recorded for every leg of the completed transfers, and for nothing
\* else.
CostsRecorded ==
  /\ \A i \in DOMAIN book : book[i] \in Nat
  /\ \A i \in DOMAIN book : \E row \in rows :
       row.status = "completed" /\ \E side \in AllSides : i = LegIds[row.id][side]
  /\ \A g \in Goals : \A e \in history[g] : e.type \in LegTypes => e.id \in DOMAIN book

\* No position is overdrawn, nor any cash that is tracked.
HistoriesCovered ==
  \A g \in Goals :
    /\ PositionsCovered(g, history[g])
    /\ TracksCash(g, history[g]) => CashCovered(g, history[g])

LEMMA WrittenFacts ==
  ASSUME NEW e \in Entries, Written(e)
  PROVE  /\ e.amount \in Nat \ {0} /\ e.quantity \in Nat /\ e.id \in EntryIds
         /\ e.type \in OperationTypes => e.quantity # 0
         /\ e.type \notin LegTypes
         /\ e.cash \in CashAccounts /\ e.asset \in Positions
<1>1. e \in Entry
  BY EntriesAssumption
<1>2. e.amount > 0 /\ (e.type \in OperationTypes => e.quantity > 0)
  BY CostsAssumption DEF Written
<1>3. e.type \notin LegTypes
  BY DEF Written, MovementTypes, OperationTypes, LegTypes, CashLegs, AssetLegs
<1> QED
  BY <1>1, <1>2, <1>3 DEF Entry

LEMMA LegUnits ==
  ASSUME RowsDated, NEW row \in rows, NEW g, NEW e \in LegsAt(row, g)
  PROVE  /\ e.amount \in Nat /\ e.quantity \in Nat
         /\ e.type \in CashLegs => e.amount # 0
         /\ e.type \in AssetLegs => e.quantity # 0
         /\ e.type \in CashLegs \/ e.type \in AssetLegs
<1> DEFINE t == row.terms
           cash == IsCash(t.source[2])
<1>1. /\ t.units \in Nat \ {0} /\ t.fee \in Nat
      /\ IsCash(t.source[2]) <=> IsCash(t.destination[2])
  BY RowFacts, BookAssumption DEF IsCash
<1>2. ASSUME NEW side, NEW p, IsCash(p[2]) <=> cash, NEW n \in Nat \ {0}, NEW type,
             type \in {"cash_in", "cash_out", "cash_fee", "asset_in", "asset_out", "asset_fee"},
             type \in {"cash_in", "cash_out", "cash_fee"} <=> cash,
             e = Leg(row, side, type, p, n)
      PROVE  /\ e.amount \in Nat /\ e.quantity \in Nat
             /\ e.type \in CashLegs => e.amount # 0
             /\ e.type \in AssetLegs => e.quantity # 0
             /\ e.type \in CashLegs \/ e.type \in AssetLegs
  <2>1. /\ e.type = type /\ e.amount = (IF IsCash(p[2]) THEN n ELSE 0)
        /\ e.quantity = (IF IsCash(p[2]) THEN 0 ELSE n)
    BY <1>2 DEF Leg
  <2> QED
    BY <1>2, <2>1 DEF CashLegs, AssetLegs
<1>3. \/ e = Leg(row, "source", IF cash THEN "cash_out" ELSE "asset_out", t.source, t.units)
      \/ /\ t.fee # 0
         /\ e = Leg(row, "commission", IF cash THEN "cash_fee" ELSE "asset_fee", t.source, t.fee)
      \/ e = Leg(row, "destination", IF cash THEN "cash_in" ELSE "asset_in",
                 t.destination, t.units)
  BY DEF LegsAt, Leaving, Arriving
<1> QED
  BY <1>1, <1>2, <1>3

LEMMA EntryFacts ==
  ASSUME HistoriesExplained, RowsDated, NEW g \in Goals, NEW e \in history[g]
  PROVE  /\ e.amount \in Nat /\ e.quantity \in Nat /\ e.id \in EntryIds
         /\ e.type \in CashLegs \cup MovementTypes \cup OperationTypes => e.amount # 0
         /\ e.type \in AssetLegs \cup OperationTypes => e.quantity # 0
         /\ e.type \in LegTypes \/ (e \in Entries /\ Written(e))
<1>1. Explained(g, e)
  BY DEF HistoriesExplained
<1>2. CASE e \in Entries /\ Written(e)
  <2>1. e.type \notin CashLegs /\ e.type \notin AssetLegs
    BY <1>2, WrittenFacts DEF LegTypes
  <2> QED
    BY <1>2, <2>1, WrittenFacts
<1>3. ASSUME NEW row \in rows, e \in LegsAt(row, g)
      PROVE  /\ e.amount \in Nat /\ e.quantity \in Nat /\ e.id \in EntryIds
             /\ e.type \in CashLegs \cup MovementTypes \cup OperationTypes => e.amount # 0
             /\ e.type \in AssetLegs \cup OperationTypes => e.quantity # 0
             /\ e.type \in LegTypes
  <2>1. /\ e.amount \in Nat /\ e.quantity \in Nat
        /\ e.type \in CashLegs => e.amount # 0
        /\ e.type \in AssetLegs => e.quantity # 0
        /\ e.type \in CashLegs \/ e.type \in AssetLegs
    BY <1>3, LegUnits
  <2>2. PICK side \in AllSides : e.id = LegIds[row.id][side]
    BY <1>3, LegFacts
  <2>3. LegIds[row.id] \in [AllSides -> EntryIds]
    BY RowFacts, LegIdsAssumption
  <2>4. e.id \in EntryIds
    BY <2>2, <2>3
  <2>5. e.type \notin MovementTypes \cup OperationTypes
    BY <2>1 DEF MovementTypes, OperationTypes, CashLegs, AssetLegs
  <2> QED
    BY <2>1, <2>4, <2>5 DEF LegTypes
<1> QED
  BY <1>1, <1>2, <1>3 DEF Explained

LEMMA HistoryCounted ==
  ASSUME BookInv, NEW g \in Goals
  PROVE  Sortable(history[g]) /\ Counted(history[g])
BY EntryFacts DEF BookInv, HistoriesExplained, Counted

\* What counts for an account counts with a positive number.
LEMMA OwnSize ==
  ASSUME BookInv, NEW g \in Goals, NEW k, NEW e \in Own(k, history[g])
  PROVE  Size(k, e) \in Nat \ {0}
<1>1. e \in history[g] /\ (Credits(k, e) \/ Debits(k, e))
  BY OwnIs
<1>2. /\ e.amount \in Nat /\ e.quantity \in Nat
      /\ e.type \in CashLegs \cup MovementTypes \cup OperationTypes => e.amount # 0
      /\ e.type \in AssetLegs \cup OperationTypes => e.quantity # 0
  BY <1>1, EntryFacts DEF BookInv
<1>3. CASE IsCash(k)
  <2>1. e.type \in CashLegs \cup MovementTypes \cup OperationTypes
    BY <1>1, <1>3 DEF Credits, Debits, CashCredits, CashDebits, CashLegs, MovementTypes,
                      OperationTypes
  <2> QED
    BY <1>2, <1>3, <2>1 DEF Size
<1>4. CASE ~IsCash(k)
  <2>1. e.type \in AssetLegs \cup OperationTypes
    BY <1>1, <1>4 DEF Credits, Debits, AssetCredits, AssetDebits, AssetLegs, OperationTypes
  <2> QED
    BY <1>2, <1>4, <2>1 DEF Size
<1> QED
  BY <1>3, <1>4

LEMMA HistoryLawful ==
  ASSUME BookInv, CostsRecorded, NEW g \in Goals, NEW k
  PROVE  Lawful(k, book, Own(k, history[g]))
<1> SUFFICES ASSUME NEW e \in Own(k, history[g]) PROVE LawfulEntry(k, book, e)
  BY DEF Lawful
<1>1. e \in history[g]
  BY OwnIs
<1>2. Worth[e.id] \in Nat
  BY <1>1, EntryFacts, CostsAssumption DEF BookInv
<1>3. e.id \in DOMAIN book => book[e.id] \in Nat
  BY DEF CostsRecorded
<1> QED
  BY <1>2, <1>3, OwnSize DEF LawfulEntry

\* What is written by hand has no recorded cost.
LEMMA WrittenUnrecorded ==
  ASSUME RowsDated, CostsRecorded, NEW e \in Entries
  PROVE  e.id \notin DOMAIN book
<1> SUFFICES ASSUME e.id \in DOMAIN book PROVE FALSE
  OBVIOUS
<1>1. PICK row \in rows : \E side \in AllSides : e.id = LegIds[row.id][side]
  BY DEF CostsRecorded
<1>2. row.id \in Ids
  BY RowFacts
<1> QED
  BY <1>1, <1>2, LegIdsAssumption

LEMMA MovingSegment ==
  ASSUME NEW k, NEW E, Sortable(E), NEW t \in Int
  PROVE  /\ Moving(k, E, t) \in Segments(Own(k, E))
         /\ Sortable(Own(k, E)) /\ Sortable(Moving(k, E, t))
<1> DEFINE S == Own(k, E)
<1>1. S \in SUBSET E
  BY OwnIs
<1>2. Sortable(S)
  BY <1>1, SubsetSorts
<1>3. Moving(k, E, t) = {e \in S : e.at <= t}
  BY DEF Moving
<1> HIDE DEF S
<1>4. {e \in S : e.at <= t} \in Segments(S)
  BY <1>2, DatedSegment
<1> QED
  BY <1>2, <1>3, <1>4, SubsetSorts DEF Segments, S

\* A pool is whole at any point of the loop.
LEMMA HistoryWhole ==
  ASSUME BookInv, CostsRecorded, NEW p \in Pools
  PROVE  \A T \in Segments(Own(p[2], history[p[1]])) : Whole(PoolRun(p, book, T))
<1>1. p[1] \in Goals
  BY DEF Pools
<1>2. Sortable(Own(p[2], history[p[1]]))
  BY <1>1, HistoryCounted, OwnIs, SubsetSorts
<1> QED
  BY <1>1, <1>2, HistoryLawful, OpeningIs, RunWhole DEF Good, Solvent

-----------------------------------------------------------------------------
(* What a transfer records.                                                *)

\* The pool a transfer takes from holds what it takes.
LEMMA SourcePoolIs ==
  ASSUME BookInv, CostsRecorded, NEW row \in rows, Acceptable(row)
  PROVE  LET t == row.terms
             g == t.source[1]
             k == t.source[2]
         IN /\ SourcePool(row) = PoolRun(t.source, book, Moving(k, history[g], row.at))
            /\ Whole(SourcePool(row)) /\ ~SourcePool(row).fails
            /\ SourcePool(row).units \in Nat /\ SourcePool(row).cost \in Nat
            /\ t.units \in Nat \ {0} /\ t.fee \in Nat
            /\ t.units + t.fee <= SourcePool(row).units
<1> DEFINE t == row.terms
           g == t.source[1]
           k == t.source[2]
<1>1. /\ t.units \in Nat \ {0} /\ t.fee \in Nat /\ t.source \in Pools /\ g \in Goals
      /\ row.at \in Nat
  BY RowFacts, BookAssumption DEF BookInv, Pools
<1>2. SourcePool(row) = PoolRun(t.source, book, Moving(k, history[g], row.at))
  BY PoolIs DEF SourcePool
<1>3. Whole(SourcePool(row))
  BY <1>1, <1>2, HistoryCounted, HistoryWhole, MovingSegment
<1>4. ~SourcePool(row).fails
  <2>1. t.source \in Read(row)
    BY DEF Read
  <2>2. SourcePool(row) \in Projected(t.source, history[g], book, row.at)
    BY DEF Projected, SourcePool
  <2> QED
    BY <2>1, <2>2 DEF Acceptable
<1> QED
  BY <1>1, <1>2, <1>3, <1>4 DEF Acceptable, Whole

Delivered(row) == Slice(SourcePool(row), row.terms.units)

LEMMA DeliveredIs ==
  ASSUME BookInv, CostsRecorded, NEW row \in rows, Acceptable(row)
  PROVE  LET t == row.terms
             pool == SourcePool(row)
         IN /\ Delivered(row) \in Nat /\ Commission(pool, t) \in Nat
            /\ Delivered(row) + Commission(pool, t) <= pool.cost
            /\ Delivered(row) + Commission(pool, t) = Slice(pool, t.units + t.fee)
            /\ t.units + t.fee = pool.units => Delivered(row) + Commission(pool, t) = pool.cost
            /\ t.fee = 0 => Commission(pool, t) = 0
<1> DEFINE t == row.terms
           pool == SourcePool(row)
           n == t.units + t.fee
<1>1. /\ pool.units \in Nat /\ pool.cost \in Nat /\ t.units \in Nat \ {0} /\ t.fee \in Nat
      /\ n \in Nat \ {0} /\ n <= pool.units
  BY SourcePoolIs
<1> HIDE DEF pool
<1>2. /\ Slice(pool, t.units) \in Nat /\ Slice(pool, n) \in Nat
      /\ Slice(pool, t.units) <= Slice(pool, n)
  BY <1>1, SliceGrows
<1>3. Slice(pool, n) <= pool.cost /\ (n = pool.units => Slice(pool, n) = pool.cost)
  BY <1>1, SliceBounds
<1>4. Commission(pool, t) = Slice(pool, n) - Slice(pool, t.units)
  BY DEF Commission
<1>5. Delivered(row) = Slice(pool, t.units)
  BY DEF Delivered, pool
<1>6. t.fee = 0 => n = t.units
  BY <1>1
<1> HIDE DEF t, n
<1>7. /\ Delivered(row) \in Nat /\ Commission(pool, t) \in Nat
      /\ Delivered(row) + Commission(pool, t) = Slice(pool, n)
      /\ t.fee = 0 => Commission(pool, t) = 0
  BY <1>2, <1>4, <1>5, <1>6
<1> QED
  BY <1>3, <1>7 DEF pool, t, n

\* The costs of the legs, once recorded; no other changes.
LEMMA RecordedIs ==
  ASSUME BookInv, CostsRecorded, NEW row \in rows, row.status = "pending"
  PROVE  LET new == BookOf(row)
         IN /\ DOMAIN new = DOMAIN book \cup {LegId(row, side) : side \in Sides(row)}
            /\ \A i \in DOMAIN book : new[i] = book[i]
            /\ \A side \in Sides(row) : LegId(row, side) \notin DOMAIN book
            /\ new[LegId(row, "source")] = Delivered(row)
            /\ new[LegId(row, "destination")] = Delivered(row)
            /\ row.terms.fee # 0 => new[LegId(row, "commission")]
                                      = Commission(SourcePool(row), row.terms)
<1> DEFINE fresh == {LegId(row, side) : side \in Sides(row)}
           cost == [source |-> Delivered(row), destination |-> Delivered(row),
                    commission |-> Commission(SourcePool(row), row.terms)]
<1>1. row.id \in Ids
  BY RowFacts DEF BookInv
<1>2. ASSUME NEW side \in AllSides
      PROVE  LegId(row, side) \notin DOMAIN book
  <2> SUFFICES ASSUME LegId(row, side) \in DOMAIN book PROVE FALSE
    OBVIOUS
  <2>1. PICK r \in rows : /\ r.status = "completed"
                          /\ \E a \in AllSides : LegId(row, side) = LegIds[r.id][a]
    BY DEF CostsRecorded
  <2>2. r.id # row.id /\ r.id \in Ids
    BY <2>1, RowFacts DEF BookInv, RowsDated
  <2> QED
    BY <1>1, <2>1, <2>2, LegIdsAssumption DEF LegId
<1>3. ASSUME NEW side \in AllSides
      PROVE  (CHOOSE a \in AllSides : LegId(row, side) = LegId(row, a)) = side
  <2>1. \A a \in AllSides : LegId(row, side) = LegId(row, a) => a = side
    BY <1>1, LegIdsAssumption DEF LegId
  <2> QED
    BY <2>1
<1>4. BookOf(row) = [i \in DOMAIN book \cup fresh |->
                       IF i \in DOMAIN book THEN book[i]
                       ELSE cost[CHOOSE side \in AllSides : i = LegId(row, side)]]
  BY DEF BookOf, Recorded, Delivered
<1>5. Sides(row) \subseteq AllSides
  BY DEF Sides
<1>6. {"source", "destination"} \subseteq Sides(row)
        /\ (row.terms.fee # 0 => "commission" \in Sides(row))
  BY DEF Sides, AllSides
<1>7. ASSUME NEW side \in Sides(row)
      PROVE  BookOf(row)[LegId(row, side)] = cost[side]
  <2>1. LegId(row, side) \in fresh /\ LegId(row, side) \notin DOMAIN book
    BY <1>2, <1>5
  <2> HIDE DEF cost, fresh
  <2> QED
    BY <1>3, <1>4, <1>5, <2>1
<1> HIDE DEF fresh
<1>8. DOMAIN BookOf(row) = DOMAIN book \cup fresh /\ \A i \in DOMAIN book : BookOf(row)[i] = book[i]
  BY <1>4
<1>9. \A side \in Sides(row) : LegId(row, side) \notin DOMAIN book
  BY <1>2, <1>5
<1> QED
  BY <1>6, <1>7, <1>8, <1>9 DEF fresh

LEMMA LegSides ==
  ASSUME NEW row, NEW g, NEW e \in LegsAt(row, g)
  PROVE  \E side \in Sides(row) : e.id = LegId(row, side)
<1>1. {"source", "destination"} \subseteq Sides(row)
        /\ (row.terms.fee # 0 => "commission" \in Sides(row))
  BY DEF Sides, AllSides
<1> QED
  BY <1>1 DEF LegsAt, Leaving, Arriving, Leg

-----------------------------------------------------------------------------
(* That it is so: writing by hand and executing transfers.                 *)

RecordsInv == BookInv /\ CostsRecorded /\ HistoriesCovered

\* What writing by hand does to the histories.
LEMMA RewriteIs ==
  ASSUME BookInv, NEW h \in Goals, NEW removed, NEW added \in SUBSET Entries,
         Rewrite(h, removed, added), NEW g \in Goals
  PROVE  /\ g = h => history'[g] = (history[g] \ removed) \cup added
         /\ g # h => history'[g] = history[g]
         /\ book' = book /\ rows' = rows /\ now' = now
         /\ removed \subseteq history[h]
         /\ \A e \in added : Written(e) /\ e \in Entries
         /\ \A e \in removed : Written(e)
         /\ \A e \in removed \cup added : AfterTransfers(history[h], e)
BY DEF Rewrite, BookInv, HistoriesExplained, Sealed

LEMMA RewriteRecords ==
  ASSUME RecordsInv, NEW h \in Goals, NEW removed, NEW added \in SUBSET Entries,
         Rewrite(h, removed, added)
  PROVE  CostsRecorded' /\ HistoriesCovered'
<1>1. \A g \in Goals :
        /\ g = h => history'[g] = (history[g] \ removed) \cup added
        /\ g # h => history'[g] = history[g]
  BY RewriteIs DEF RecordsInv
<1>2. book' = book /\ rows' = rows
  BY DEF Rewrite
<1>3. ASSUME NEW g \in Goals, NEW e \in history'[g], e.type \in LegTypes
      PROVE  e \in history[g]
  <2>1. e \notin added
    BY <1>3, WrittenFacts, RewriteIs DEF RecordsInv
  <2> QED
    BY <1>1, <2>1
<1>4. CostsRecorded'
  BY <1>2, <1>3 DEF RecordsInv, CostsRecorded
<1>5. Valid(h, (history[h] \ removed) \cup added, FALSE, now)
  BY DEF Rewrite
<1>6. HistoriesCovered'
  BY <1>1, <1>5 DEF RecordsInv, HistoriesCovered, Valid
<1> QED
  BY <1>4, <1>6

LEMMA ExecuteIs ==
  ASSUME BookInv, NEW row \in rows, Execute(row)
  PROVE  /\ row.status = "pending" /\ Acceptable(row)
         /\ \A g \in Goals : history'[g] = history[g] \cup LegsAt(row, g)
         /\ book' = BookOf(row) /\ now' = now
BY PostedIs DEF Execute

LEMMA ExecuteRecords ==
  ASSUME RecordsInv, NEW row \in rows, Execute(row)
  PROVE  CostsRecorded' /\ HistoriesCovered'
<1> DEFINE t == row.terms
           fresh == {LegId(row, side) : side \in Sides(row)}
<1>1. /\ row.status = "pending" /\ Acceptable(row)
      /\ \A g \in Goals : history'[g] = history[g] \cup LegsAt(row, g)
      /\ book' = BookOf(row)
  BY ExecuteIs DEF RecordsInv
<1>2. /\ DOMAIN book' = DOMAIN book \cup fresh
      /\ \A i \in DOMAIN book : book'[i] = book[i]
      /\ book'[LegId(row, "source")] = Delivered(row)
      /\ book'[LegId(row, "destination")] = Delivered(row)
      /\ row.terms.fee # 0 => book'[LegId(row, "commission")] = Commission(SourcePool(row), t)
  BY <1>1, RecordedIs DEF RecordsInv
<1>3. Delivered(row) \in Nat /\ Commission(SourcePool(row), t) \in Nat
  BY <1>1, DeliveredIs DEF RecordsInv
<1>4. \A side \in Sides(row) : book'[LegId(row, side)] \in Nat
  BY <1>2, <1>3 DEF Sides, AllSides
<1>5. \A i \in DOMAIN book' : book'[i] \in Nat
  BY <1>2, <1>4 DEF RecordsInv, CostsRecorded
<1> DEFINE done == [row EXCEPT !.status = "completed"]
<1>6. rows' = (rows \ {row}) \cup {done}
  BY DEF Execute, Settle
<1>7. done.status = "completed" /\ done.id = row.id
  BY DEF RecordsInv, BookInv, RowsDated, BookRow
<1> HIDE DEF done, fresh
<1>8. \A i \in DOMAIN book' : \E r \in rows' :
        r.status = "completed" /\ \E side \in AllSides : i = LegIds[r.id][side]
  <2> SUFFICES ASSUME NEW i \in DOMAIN book'
               PROVE  \E r \in rows' :
                        r.status = "completed" /\ \E side \in AllSides : i = LegIds[r.id][side]
    OBVIOUS
  <2>1. CASE i \in DOMAIN book
    <3>1. PICK r \in rows :
            r.status = "completed" /\ \E side \in AllSides : i = LegIds[r.id][side]
      BY <2>1 DEF RecordsInv, CostsRecorded
    <3>2. r \in rows'
      BY <1>1, <1>6, <3>1
    <3> QED
      BY <3>1, <3>2
  <2>2. CASE i \in fresh
    <3>1. PICK side \in Sides(row) : i = LegIds[done.id][side]
      BY <1>7, <2>2 DEF fresh, LegId
    <3>2. side \in AllSides /\ done \in rows'
      BY <1>6, <3>1 DEF Sides
    <3> QED
      BY <1>7, <3>1, <3>2
  <2> QED
    BY <1>2, <2>1, <2>2
<1>9. ASSUME NEW g \in Goals, NEW e \in history'[g], e.type \in LegTypes
      PROVE  e.id \in DOMAIN book'
  <2>1. CASE e \in history[g]
    BY <1>2, <1>9, <2>1 DEF RecordsInv, CostsRecorded
  <2>2. CASE e \in LegsAt(row, g)
    BY <1>2, <2>2, LegSides DEF fresh
  <2> QED
    BY <1>1, <2>1, <2>2
<1>10. CostsRecorded'
  BY <1>5, <1>8, <1>9 DEF CostsRecorded
<1>11. ASSUME NEW g \in Goals
       PROVE  /\ PositionsCovered(g, history'[g])
              /\ TracksCash(g, history'[g]) => CashCovered(g, history'[g])
  <2>1. CASE g \in {t.source[1], t.destination[1]}
    <3>1. Valid(g, Posted(row)[g], IsCash(t.source[2]), now)
      BY <1>1, <2>1 DEF Acceptable
    <3>2. history' = Posted(row)
      BY DEF Execute
    <3> QED
      BY <3>1, <3>2 DEF Valid
  <2>2. CASE g \notin {t.source[1], t.destination[1]}
    <3>1. history'[g] = history[g]
      BY <1>1, <2>2 DEF LegsAt
    <3> QED
      BY <3>1 DEF RecordsInv, HistoriesCovered
  <2> QED
    BY <2>1, <2>2
<1> QED
  BY <1>10, <1>11 DEF HistoriesCovered

LEMMA RewriteStepKeepsRecords ==
  ASSUME RecordsInv, NEW h \in Goals, RewriteStep(h)
  PROVE  CostsRecorded' /\ HistoriesCovered'
<1>1. ASSUME NEW e \in Entries, Rewrite(h, {}, {e})
      PROVE  CostsRecorded' /\ HistoriesCovered'
  BY <1>1, RewriteRecords
<1>2. ASSUME NEW e \in Entries, Rewrite(h, {e}, {})
      PROVE  CostsRecorded' /\ HistoriesCovered'
  BY <1>2, RewriteRecords
<1>3. ASSUME NEW old \in Entries, NEW new \in Entries, Rewrite(h, {old}, {new})
      PROVE  CostsRecorded' /\ HistoriesCovered'
  BY <1>3, RewriteRecords
<1> QED
  BY <1>1, <1>2, <1>3 DEF RewriteStep

LEMMA RecordsInvariant == BookSpec => []RecordsInv
<1>1. BookInit => CostsRecorded /\ HistoriesCovered
  BY DEF BookInit, CostsRecorded, HistoriesCovered, PositionsCovered, CashCovered
<1>2. RecordsInv /\ [BookNext]_bookVars => (CostsRecorded /\ HistoriesCovered)'
  <2> SUFFICES ASSUME RecordsInv, [BookNext]_bookVars
               PROVE  CostsRecorded' /\ HistoriesCovered'
    OBVIOUS
  <2>1. ASSUME history' = history, book' = book,
               \A r \in rows : r.status = "completed" => r \in rows'
        PROVE  CostsRecorded' /\ HistoriesCovered'
    BY <2>1 DEF RecordsInv, CostsRecorded, HistoriesCovered
  <2>2. ASSUME NEW row \in rows, Reject(row)
        PROVE  \A r \in rows : r.status = "completed" => r \in rows'
    BY <2>2, SettleKeeps DEF RecordsInv, Reject
  <2>3. CASE BookNext
    <3>1. ASSUME NEW i \in Ids, NEW terms \in Terms, Accept(i, terms)
          PROVE  CostsRecorded' /\ HistoriesCovered'
      BY <2>1, <3>1 DEF Accept
    <3>2. ASSUME NEW row \in rows, Reject(row)
          PROVE  CostsRecorded' /\ HistoriesCovered'
      BY <2>1, <2>2, <3>2 DEF Reject
    <3>3. CASE Tick
      BY <2>1, <3>3 DEF Tick
    <3> QED
      BY <2>3, <3>1, <3>2, <3>3, RewriteStepKeepsRecords, ExecuteRecords DEF BookNext
  <2>4. CASE UNCHANGED bookVars
    BY <2>1, <2>4 DEF bookVars
  <2> QED
    BY <2>3, <2>4
<1> QED
  BY <1>1, <1>2, BookInvariant, PTL DEF BookSpec, RecordsInv

-----------------------------------------------------------------------------
(* The past is kept.                                                       *)

LEMMA PoolAgrees ==
  ASSUME NEW p, NEW E, NEW F, NEW v, NEW w, NEW t,
         Sortable(E), Moving(p[2], E, t) = Moving(p[2], F, t),
         \A e \in Moving(p[2], E, t) : SameCost(v, w, e.id)
  PROVE  Pool(p, E, v, t) = Pool(p, F, w, t)
<1> DEFINE S == Moving(p[2], E, t)
<1>1. S \in SUBSET E
  BY OwnIs DEF Moving
<1>2. Sortable(S)
  BY <1>1, SubsetSorts
<1> HIDE DEF S
<1>3. PoolRun(p, v, S) = PoolRun(p, w, S)
  BY <1>2, AllIsSegment, RunAgrees DEF S
<1> QED
  BY <1>3, PoolIs DEF S

LEMMA SameItself == ASSUME NEW v, NEW i PROVE SameCost(v, v, i)
BY DEF SameCost

\* Costs recorded for the legs of a transfer change no other cost.
LEMMA OthersKeepCosts ==
  ASSUME BookInv, NEW row \in rows, NEW i, \A side \in AllSides : i # LegIds[row.id][side]
  PROVE  SameCost(book, BookOf(row), i)
<1> DEFINE new == {LegId(row, side) : side \in Sides(row)}
<1>1. i \notin new
  BY DEF LegId, Sides, AllSides
<1>2. \A delivered, received : SameCost(book, Recorded(row, delivered, received), i)
  BY <1>1 DEF Recorded, SameCost
<1> QED
  BY <1>2 DEF BookOf

MovesPool(k, e, t) == e \in Own(k, {e}) /\ e.at <= t

\* An entry that counts for k in one set does in any that has it.
LEMMA MovingIs ==
  ASSUME NEW k, NEW E, NEW t, NEW e
  PROVE  e \in Moving(k, E, t) <=> e \in E /\ MovesPool(k, e, t)
BY OwnIs DEF MovesPool, Moving

\* Two sets that differ in nothing that counts for k count alike.
LEMMA MovingAlike ==
  ASSUME NEW k, NEW D, NEW E, NEW t,
         \A e \in D \ E : ~MovesPool(k, e, t),
         \A e \in E \ D : ~MovesPool(k, e, t)
  PROVE  Moving(k, D, t) = Moving(k, E, t)
<1>1. ASSUME NEW e \in Moving(k, D, t) PROVE e \in Moving(k, E, t)
  <2>1. e \in D /\ MovesPool(k, e, t)
    BY MovingIs
  <2>2. e \in E
    BY <2>1
  <2> QED
    BY <2>1, <2>2, MovingIs
<1>2. ASSUME NEW e \in Moving(k, E, t) PROVE e \in Moving(k, D, t)
  <2>1. e \in E /\ MovesPool(k, e, t)
    BY MovingIs
  <2>2. e \in D
    BY <2>1
  <2> QED
    BY <2>1, <2>2, MovingIs
<1> QED
  BY <1>1, <1>2

PastOf(p, leg) ==
  (\A e \in history'[p[1]] \ history[p[1]] : e.at # leg.at) =>
    Pool(p, history'[p[1]], book', leg.at) = Pool(p, history[p[1]], book, leg.at)

\* The cutoff keeps hand-written entries out of the past of a leg.
LEMMA RewriteKeepsPast ==
  ASSUME BookInv, NEW h \in Goals, NEW removed, NEW added \in SUBSET Entries,
         Rewrite(h, removed, added),
         NEW p \in Goals \X InOrder, NEW leg \in OwnLegs(p)
  PROVE  PastOf(p, leg)
<1> DEFINE g == p[1]
<1>1. leg \in history[g] /\ leg.type \in LegTypes
  BY DEF OwnLegs, Own, CreditsTo, DebitsFrom
<1>2. /\ history'[g] = IF g = h THEN (history[h] \ removed) \cup added ELSE history[g]
      /\ book' = book
  BY DEF Rewrite, BookInv, HistoriesExplained
<1>3. removed \subseteq history[h]
  BY DEF Rewrite
<1>4. Sortable(history[g])
  BY DEF BookInv, HistoriesExplained
<1>5. \A e \in removed \cup added : e.at \in Int
  <2>1. \A e \in added : e.at \in Int
    BY EntriesAssumption DEF Entry
  <2>2. \A e \in removed : e.at \in Int
    BY <1>3 DEF BookInv, HistoriesExplained, Sortable
  <2> QED
    BY <2>1, <2>2
<1>6. ASSUME g = h, NEW e \in removed \cup added
      PROVE  ~(e.at <= leg.at)
  <2>1. leg.at < e.at
    BY <1>1, <1>6 DEF Rewrite, Sealed, AfterTransfers
  <2>2. leg.at \in Int /\ e.at \in Int
    BY <1>1, <1>4, <1>5, <1>6 DEF Sortable
  <2> QED
    BY <2>1, <2>2
<1>7. Moving(p[2], history[g], leg.at) = Moving(p[2], history'[g], leg.at)
  <2>1. CASE g # h
    BY <1>2, <2>1
  <2>2. CASE g = h
    <3>1. \A e \in removed \cup added : ~MovesPool(p[2], e, leg.at)
      BY <1>6, <2>2 DEF MovesPool
    <3>2. history'[g] = (history[g] \ removed) \cup added
      BY <1>2, <2>2
    <3>3. /\ \A e \in history[g] \ history'[g] : e \in removed
          /\ \A e \in history'[g] \ history[g] : e \in added
      BY <2>2, <3>2
    <3>4. /\ \A e \in history[g] \ history'[g] : ~MovesPool(p[2], e, leg.at)
          /\ \A e \in history'[g] \ history[g] : ~MovesPool(p[2], e, leg.at)
      BY <3>1, <3>3
    <3> QED
      BY <3>4, MovingAlike
  <2> QED
    BY <2>1, <2>2
<1> QED
  BY <1>2, <1>4, <1>7, PoolAgrees, SameItself DEF PastOf

\* A transfer that runs in order comes after every leg of its accounts.
LEMMA ExecuteKeepsPast ==
  ASSUME BookInv, NEW row \in rows, Execute(row),
         NEW p \in Goals \X InOrder, NEW leg \in OwnLegs(p)
  PROVE  PastOf(p, leg)
<1> DEFINE g == p[1]
           k == p[2]
<1> SUFFICES ASSUME \A e \in history'[g] \ history[g] : e.at # leg.at
             PROVE  Pool(p, history'[g], book', leg.at) = Pool(p, history[g], book, leg.at)
  BY DEF PastOf
<1>1. row.status = "pending" /\ history' = Posted(row) /\ book' = BookOf(row)
  BY DEF Execute
<1>2. g \in Goals /\ k \in InOrder /\ p = <<g, k>>
  OBVIOUS
<1>3. history'[g] = history[g] \cup LegsAt(row, g)
  BY <1>1, <1>2, PostedIs
<1>4. RowsDated /\ NoneOvertaken /\ Sortable(history[g])
  BY <1>2 DEF BookInv, HistoriesExplained
<1>5. leg \in history[g] /\ leg.type \in LegTypes
        /\ leg \in Own(k, history[g])
  BY DEF OwnLegs, Own, CreditsTo, DebitsFrom
<1>6. PICK r \in rows : r.status = "completed" /\ leg \in LegsAt(r, g)
  <2>1. ~Written(leg)
    BY <1>5 DEF Written, LegTypes, CashLegs, AssetLegs, MovementTypes, OperationTypes
  <2> QED
    BY <1>2, <1>5, <2>1 DEF BookInv, HistoriesExplained, Explained
<1>7. leg.at = r.at /\ p \in Touched(r)
  BY <1>2, <1>4, <1>5, <1>6, LegFacts, LegMoves
<1>8. r.at <= row.at
  <2>1. Ordered(r)
    BY <1>2, <1>7 DEF Ordered
  <2>2. ~(row.id < r.id)
    BY <1>1, <1>4, <1>6, <2>1 DEF NoneOvertaken
  <2>3. r.id \in Nat /\ row.id \in Nat /\ r.id # row.id
    BY <1>1, <1>4, <1>6, RowFacts DEF RowsDated
  <2>4. r.id < row.id
    BY <2>2, <2>3
  <2> QED
    BY <1>4, <2>4 DEF RowsDated
<1>9. Moving(k, history[g], leg.at) = Moving(k, history'[g], leg.at)
  <2>1. ASSUME NEW e \in LegsAt(row, g), e \notin history[g]
        PROVE  ~MovesPool(k, e, leg.at)
    <3>1. e.at = row.at /\ e.at # leg.at
      BY <1>3, <1>4, <2>1, LegFacts
    <3>2. r.at \in Nat /\ row.at \in Nat
      BY <1>4, RowFacts
    <3>3. ~(e.at <= leg.at)
      BY <1>7, <1>8, <3>1, <3>2
    <3> QED
      BY <3>3 DEF MovesPool
  <2>2. /\ history[g] \ history'[g] = {}
        /\ \A e \in history'[g] \ history[g] : e \in LegsAt(row, g) /\ e \notin history[g]
    BY <1>3
  <2>3. /\ \A e \in history[g] \ history'[g] : ~MovesPool(k, e, leg.at)
        /\ \A e \in history'[g] \ history[g] : ~MovesPool(k, e, leg.at)
    BY <2>1, <2>2
  <2> QED
    BY <2>3, MovingAlike
<1>10. ASSUME NEW e \in Moving(k, history[g], leg.at)
       PROVE  SameCost(book, book', e.id)
  <2>1. e \in history[g]
    BY MovingIs
  <2>2. \A side \in AllSides : e.id # LegIds[row.id][side]
    BY <1>1, <1>2, <2>1, LegIdsAreNew
  <2> QED
    BY <1>1, <2>2, OthersKeepCosts
<1> HIDE DEF g, k
<1>11. Pool(p, history[g], book, leg.at) = Pool(p, history'[g], book', leg.at)
  BY <1>4, <1>9, <1>10, PoolAgrees DEF k
<1> QED
  BY <1>11

\* What a pool held and had cost at a transfer of its own is the same ever
\* after, whatever is written by hand and posted later, if its transfers run in
\* the order of their dates (the cutoff of validate() and the recorded costs).
THEOREM PastIsKept == BookSpec => PastKept
<1>1. BookInv /\ [BookNext]_bookVars =>
        [\A p \in Goals \X InOrder : \A leg \in OwnLegs(p) : PastOf(p, leg)]_bookVars
  <2> SUFFICES ASSUME BookInv, BookNext,
                      NEW p \in Goals \X InOrder, NEW leg \in OwnLegs(p)
               PROVE  PastOf(p, leg)
    OBVIOUS
  <2>1. ASSUME history' = history, book' = book
        PROVE  PastOf(p, leg)
    BY <2>1 DEF PastOf
  <2>2. ASSUME NEW h \in Goals, RewriteStep(h)
        PROVE  PastOf(p, leg)
    <3>1. ASSUME NEW e \in Entries, Rewrite(h, {}, {e})
          PROVE  PastOf(p, leg)
      BY <3>1, RewriteKeepsPast
    <3>2. ASSUME NEW e \in Entries, Rewrite(h, {e}, {})
          PROVE  PastOf(p, leg)
      BY <3>2, RewriteKeepsPast
    <3>3. ASSUME NEW old \in Entries, NEW new \in Entries, Rewrite(h, {old}, {new})
          PROVE  PastOf(p, leg)
      BY <3>3, RewriteKeepsPast
    <3> QED
      BY <2>2, <3>1, <3>2, <3>3 DEF RewriteStep
  <2> QED
    BY <2>1, <2>2, ExecuteKeepsPast DEF BookNext, Accept, Reject, Tick
<1>2. [\A p \in Goals \X InOrder : \A leg \in OwnLegs(p) : PastOf(p, leg)]_bookVars =>
        [\A p \in Goals \X InOrder : \A leg \in OwnLegs(p) :
           (\A e \in history'[p[1]] \ history[p[1]] : e.at # leg.at) =>
             Pool(p, history'[p[1]], book', leg.at) = Pool(p, history[p[1]], book, leg.at)]_bookVars
  BY DEF PastOf
<1> QED
  BY <1>1, <1>2, BookInvariant, PTL DEF BookSpec, PastKept

-----------------------------------------------------------------------------
(* What the pools are at every point of the loop.                          *)

\* Only a lack of units can make the loop throw, and no cost is left without
\* units.
AlwaysGood(p) ==
  \A T \in Segments(Own(p[2], history[p[1]])) : Good(PoolRun(p, book, T))

NeverFails(p) ==
  \A T \in Segments(Own(p[2], history[p[1]])) : ~PoolRun(p, book, T).fails

PoolsKept ==
  /\ \A p \in OrderedPools : AlwaysGood(p)
  /\ \A p \in Goals \X Positions : NeverFails(p)

\* What the loop is run on, and that its account is not overdrawn.
PoolsLawful ==
  \A p \in Pools :
    /\ Sortable(history[p[1]]) /\ Counted(history[p[1]])
    /\ Sortable(Own(p[2], history[p[1]]))
    /\ Lawful(p[2], book, Own(p[2], history[p[1]]))
    /\ Tracked(p) => Covered(p, history[p[1]])

LEMMA OrderedAreIn == OrderedPools \subseteq Pools /\ Goals \X Positions \subseteq Pools
BY BookAssumption DEF OrderedPools, Pools

LEMMA RecordsLawful == RecordsInv => PoolsLawful
<1> SUFFICES ASSUME RecordsInv, NEW p \in Pools
             PROVE  /\ Sortable(history[p[1]]) /\ Counted(history[p[1]])
                    /\ Sortable(Own(p[2], history[p[1]]))
                    /\ Lawful(p[2], book, Own(p[2], history[p[1]]))
                    /\ Tracked(p) => Covered(p, history[p[1]])
  BY DEF PoolsLawful
<1>1. p[1] \in Goals /\ p[2] \in CashAccounts \cup Positions
  BY DEF Pools
<1>2. Sortable(history[p[1]]) /\ Counted(history[p[1]])
  BY <1>1, HistoryCounted DEF RecordsInv
<1>3. Sortable(Own(p[2], history[p[1]]))
  BY <1>2, OwnIs, SubsetSorts
<1>4. Lawful(p[2], book, Own(p[2], history[p[1]]))
  BY <1>1, HistoryLawful DEF RecordsInv
<1>5. ASSUME Tracked(p)
      PROVE  Covered(p, history[p[1]])
  <2>1. CASE IsCash(p[2])
    <3>1. CashCovered(p[1], history[p[1]])
      BY <1>1, <1>5, <2>1 DEF Tracked, RecordsInv, HistoriesCovered
    <3> QED
      BY <2>1, <3>1 DEF Covered, Balance, CashCovered, IsCash
  <2>2. CASE ~IsCash(p[2])
    <3>1. PositionsCovered(p[1], history[p[1]]) /\ p[2] \in Positions
      BY <1>1, <2>2 DEF RecordsInv, HistoriesCovered, IsCash
    <3> QED
      BY <2>2, <3>1 DEF Covered, Balance, PositionsCovered
  <2> QED
    BY <2>1, <2>2
<1> QED
  BY <1>2, <1>3, <1>4, <1>5

\* The round of an entry without recorded cost.
LEMMA RoundUnrecorded ==
  ASSUME NEW p \in Pools, NEW v, NEW E, Sortable(E), Counted(E), Lawful(p[2], v, Own(p[2], E)),
         NEW T \in Segments(Own(p[2], E)), T # {}, Latest(T).id \notin DOMAIN v
  PROVE  /\ Good(PoolRun(p, v, T \ {Latest(T)})) => Good(PoolRun(p, v, T))
         /\ Covered(p, E) /\ ~PoolRun(p, v, T \ {Latest(T)}).fails => ~PoolRun(p, v, T).fails
<1> DEFINE S == Own(p[2], E)
           m == Latest(T)
           before == PoolRun(p, v, T \ {m})
           after == PoolRun(p, v, T)
<1>1. Sortable(S)
  BY OwnIs, SubsetSorts
<1>2. Sortable(T) /\ m \in S /\ T \ {m} \in Segments(S)
  BY <1>1, SegmentEnds
<1>3. after = Project(p[2], v, before, m)
  BY <1>2, PoolRound
<1>4. Whole(before)
  BY <1>1, <1>2, OpeningIs, RunWhole DEF Good, Solvent
<1>5. LawfulEntry(p[2], v, m)
  BY <1>2 DEF Lawful
<1>6. /\ ~before.fails => Solvent(after)
      /\ Good(before) => Good(after)
  BY <1>3, <1>4, <1>5, UnrecordedIsSafe
<1>7. ASSUME Covered(p, E), ~before.fails
      PROVE  ~after.fails
  <2>1. after.units = Balance(p[1], p[2], T)
    BY <1>7, UnitsAreBalance
  <2>2. Balance(p[1], p[2], T) \in Nat
    BY <1>7, SegmentCovered
  <2> HIDE DEF after
  <2> QED
    BY <1>6, <1>7, <2>1, <2>2 DEF Solvent
<1> QED
  BY <1>6, <1>7

\* A pool that only a lack of units makes fail does not where there is none.
LEMMA GoodCovered ==
  ASSUME NEW p \in Pools, NEW v, NEW E, Sortable(E), Counted(E), Lawful(p[2], v, Own(p[2], E)),
         Covered(p, E), \A T \in Segments(Own(p[2], E)) : Good(PoolRun(p, v, T))
  PROVE  \A T \in Segments(Own(p[2], E)) : ~PoolRun(p, v, T).fails
<1> DEFINE S == Own(p[2], E)
           F == {T \in SUBSET S : ~PoolRun(p, v, T).fails}
<1>1. Sortable(S)
  BY OwnIs, SubsetSorts
<1>2. {} \in F
  <2>1. Sortable({})
    BY <1>1, SubsetSorts
  <2> QED
    BY <2>1, PoolRound DEF Opened
<1>3. ASSUME NEW T \in Segments(S), Latest(T) \in T, T \ {Latest(T)} \in F
      PROVE  T \in F
  <2>1. ~PoolRun(p, v, T \ {Latest(T)}).fails /\ T # {} /\ T \in SUBSET S
    BY <1>3 DEF Segments
  <2>2. PoolRun(p, v, T).units = Balance(p[1], p[2], T)
    BY <2>1, UnitsAreBalance
  <2>3. Balance(p[1], p[2], T) \in Nat
    BY SegmentCovered
  <2>4. ~PoolRun(p, v, T).fails
    BY <2>2, <2>3 DEF Good, Solvent
  <2> QED
    BY <2>1, <2>4
<1> HIDE DEF F, S
<1>4. \A T \in Segments(S) : {} \subseteq T => T \in F
  BY <1>1, <1>2, <1>3, NoneIsSegment, SegmentsFrom
<1> QED
  BY <1>4 DEF F, S

-----------------------------------------------------------------------------
(* Writing by hand.                                                        *)

\* The entries up to a leg are not written over.
LEMMA RewriteSegment ==
  ASSUME RecordsInv, RecordsInv', NEW h \in Goals, NEW removed, NEW added \in SUBSET Entries,
         Rewrite(h, removed, added), NEW p \in Pools,
         NEW T \in Segments(Own(p[2], history'[p[1]])), T # {}, Latest(T).id \in DOMAIN book
  PROVE  T \in Segments(Own(p[2], history[p[1]]))
<1> DEFINE g == p[1]
           k == p[2]
           S == Own(k, history[g])
           N == Own(k, history'[g])
           m == Latest(T)
<1>1. g \in Goals
  BY DEF Pools
<1>2. /\ g = h => history'[g] = (history[g] \ removed) \cup added
      /\ g # h => history'[g] = history[g]
      /\ \A e \in added : e \in Entries
      /\ \A e \in removed \cup added : AfterTransfers(history[h], e)
  BY <1>1, RewriteIs DEF RecordsInv
<1>3. Sortable(history[g]) /\ Sortable(history'[g]) /\ Sortable(S) /\ Sortable(N)
  <2>1. PoolsLawful
    BY RecordsLawful
  <2>2. PoolsLawful'
    BY RecordsLawful, PTL
  <2> QED
    BY <2>1, <2>2 DEF PoolsLawful
<1>4. m \in T /\ m \in N /\ T \ {m} = Preceding(N, m)
  BY <1>3, SegmentEnds
<1>5. CASE g # h
  BY <1>2, <1>5
<1>6. CASE g = h
  <2>1. m \notin added /\ m \in history'[g]
    BY <1>2, <1>4, OwnIs, WrittenUnrecorded DEF RecordsInv, BookInv
  <2>2. m \in history[g]
    BY <1>2, <1>6, <2>1
  <2>3. m.type \in LegTypes
    BY <1>1, <2>2, EntryFacts, WrittenUnrecorded DEF RecordsInv, BookInv
  <2>4. ASSUME NEW e \in removed \cup added, e \in history[g] \/ e \in history'[g]
        PROVE  ~Before(e, m)
    <3>1. m.at < e.at
      BY <1>2, <1>6, <2>2, <2>3 DEF AfterTransfers
    <3>2. m.at \in Int /\ e.at \in Int
      BY <1>3, <2>2, <2>4 DEF Sortable
    <3> QED
      BY <3>1, <3>2 DEF Before
  <2>5. ASSUME NEW d, d \in S, Before(d, m)
        PROVE  d \in T
    <3>1. d \in history[g] /\ d \notin removed
      BY <2>4, <2>5, OwnIs
    <3>2. d \in N
      BY <1>2, <1>6, <2>5, <3>1, OwnIs
    <3> QED
      BY <1>4, <2>5, <3>2 DEF Preceding
  <2>6. ASSUME NEW d \in T
        PROVE  d \in S /\ (d = m \/ Before(d, m))
    <3>1. d \in N /\ (d = m \/ Before(d, m))
      BY <1>4 DEF Preceding
    <3>2. d \in history'[g] /\ d \notin added
      BY <2>1, <2>4, <3>1, OwnIs
    <3>3. d \in history[g]
      BY <1>2, <1>6, <3>2
    <3> QED
      BY <3>1, <3>3, OwnIs
  <2>7. ASSUME NEW e \in T, NEW d \in Preceding(S, e)
        PROVE  d \in T
    <3>1. d \in S /\ Before(d, e) /\ e \in S /\ m \in S
      BY <1>4, <2>6 DEF Preceding
    <3>2. Before(d, m)
      BY <1>3, <2>6, <3>1, BeforeOrders
    <3> QED
      BY <2>5, <3>1, <3>2
  <2> QED
    BY <2>6, <2>7 DEF Segments
<1> QED
  BY <1>5, <1>6

LEMMA RewriteKeepsPools ==
  ASSUME RecordsInv, RecordsInv', PoolsKept, NEW h \in Goals, NEW removed,
         NEW added \in SUBSET Entries, Rewrite(h, removed, added)
  PROVE  PoolsKept'
<1>1. book' = book /\ rows' = rows
  BY DEF Rewrite
<1>2. PoolsLawful'
  BY RecordsLawful, PTL
<1>3. ASSUME NEW p \in OrderedPools
      PROVE  \A T \in Segments(Own(p[2], history'[p[1]])) : Good(PoolRun(p, book, T))
  <2> DEFINE N == Own(p[2], history'[p[1]])
             F == {T \in SUBSET N : Good(PoolRun(p, book, T))}
  <2>1. /\ p \in Pools /\ Sortable(history'[p[1]]) /\ Counted(history'[p[1]]) /\ Sortable(N)
        /\ Lawful(p[2], book, N)
    BY <1>1, <1>2, OrderedAreIn DEF PoolsLawful
  <2>2. {} \in F
    <3>1. Sortable({})
      BY <2>1, SubsetSorts
    <3> QED
      BY <2>1, <3>1, PoolRound, OpeningIs
  <2>3. ASSUME NEW T \in Segments(N), Latest(T) \in T, T \ {Latest(T)} \in F
        PROVE  T \in F
    <3>1. T # {} /\ T \in SUBSET N /\ Good(PoolRun(p, book, T \ {Latest(T)}))
      BY <2>3 DEF Segments
    <3>2. CASE Latest(T).id \in DOMAIN book
      <4>1. T \in Segments(Own(p[2], history[p[1]]))
        BY <2>1, <3>1, <3>2, RewriteSegment
      <4> QED
        BY <3>1, <4>1 DEF PoolsKept, AlwaysGood
    <3>3. CASE Latest(T).id \notin DOMAIN book
      <4>1. Good(PoolRun(p, book, T))
        BY <2>1, <3>1, <3>3, RoundUnrecorded
      <4> QED
        BY <3>1, <4>1
    <3> QED
      BY <3>2, <3>3
  <2> HIDE DEF F, N
  <2>4. \A T \in Segments(N) : {} \subseteq T => T \in F
    BY <2>1, <2>2, <2>3, NoneIsSegment, SegmentsFrom
  <2> QED
    BY <2>4 DEF F, N
<1>4. ASSUME NEW p \in Goals \X Positions
      PROVE  \A T \in Segments(Own(p[2], history'[p[1]])) : ~PoolRun(p, book, T).fails
  <2> DEFINE N == Own(p[2], history'[p[1]])
             F == {T \in SUBSET N : ~PoolRun(p, book, T).fails}
  <2>1. /\ p \in Pools /\ Sortable(history'[p[1]]) /\ Counted(history'[p[1]]) /\ Sortable(N)
        /\ Lawful(p[2], book, N)
    BY <1>1, <1>2, OrderedAreIn DEF PoolsLawful
  <2>2. Covered(p, history'[p[1]])
    <3>1. ~IsCash(p[2])
      BY KindsAssumption DEF IsCash
    <3>2. Tracked(p)'
      BY <3>1 DEF Tracked, IsCash
    <3> QED
      BY <1>2, <2>1, <3>2 DEF PoolsLawful
  <2>3. {} \in F
    <3>1. Sortable({})
      BY <2>1, SubsetSorts
    <3> QED
      BY <3>1, PoolRound DEF Opened
  <2>4. ASSUME NEW T \in Segments(N), Latest(T) \in T, T \ {Latest(T)} \in F
        PROVE  T \in F
    <3>1. T # {} /\ T \in SUBSET N /\ ~PoolRun(p, book, T \ {Latest(T)}).fails
      BY <2>4 DEF Segments
    <3>2. CASE Latest(T).id \in DOMAIN book
      <4>1. T \in Segments(Own(p[2], history[p[1]]))
        BY <2>1, <3>1, <3>2, RewriteSegment
      <4> QED
        BY <3>1, <4>1 DEF PoolsKept, NeverFails
    <3>3. CASE Latest(T).id \notin DOMAIN book
      <4>1. ~PoolRun(p, book, T).fails
        BY <2>1, <2>2, <3>1, <3>3, RoundUnrecorded
      <4> QED
        BY <3>1, <4>1
    <3> QED
      BY <3>2, <3>3
  <2> HIDE DEF F, N
  <2>5. \A T \in Segments(N) : {} \subseteq T => T \in F
    BY <2>1, <2>3, <2>4, NoneIsSegment, SegmentsFrom
  <2> QED
    BY <2>5 DEF F, N
<1>5. OrderedPools' = OrderedPools
  BY <1>1 DEF OrderedPools
<1> QED
  BY <1>1, <1>3, <1>4, <1>5 DEF PoolsKept, AlwaysGood, NeverFails

-----------------------------------------------------------------------------
(* A transfer that is executed.                                            *)

LEMMA LeavingIs ==
  ASSUME RowsDated, NEW row \in rows, NEW e \in Leaving(row)
  PROVE  LET t == row.terms
         IN /\ Debits(t.source[2], e) /\ Priority(e) = 3
            /\ \A k : Credits(k, e) \/ Debits(k, e) => k = t.source[2]
            /\ \/ e.id = LegId(row, "source") /\ Size(t.source[2], e) = t.units
               \/ /\ t.fee # 0
                  /\ e.id = LegId(row, "commission") /\ Size(t.source[2], e) = t.fee
<1> DEFINE t == row.terms
           k == t.source[2]
           cash == IsCash(k)
<1>1. ASSUME NEW side, NEW n, NEW type \in {"cash_out", "cash_fee", "asset_out", "asset_fee"},
             type \in {"cash_out", "cash_fee"} <=> cash,
             e = Leg(row, side, type, t.source, n)
      PROVE  /\ Debits(k, e) /\ Priority(e) = 3
             /\ \A j : Credits(j, e) \/ Debits(j, e) => j = k
             /\ e.id = LegId(row, side) /\ Size(k, e) = n
  <2>1. /\ e.type = type /\ e.id = LegId(row, side)
        /\ cash => e.cash = k /\ e.amount = n
        /\ ~cash => e.asset = k /\ e.quantity = n
    BY <1>1 DEF Leg
  <2>2. Priority(e) = 3
    BY <1>1, <2>1 DEF Priority
  <2>3. cash => e.type \notin AssetCredits \cup AssetDebits \cup CashCredits
    BY <1>1, <2>1 DEF AssetCredits, AssetDebits, CashCredits
  <2>4. ~cash => e.type \notin CashCredits \cup CashDebits \cup AssetCredits
    BY <1>1, <2>1 DEF CashCredits, CashDebits, AssetCredits
  <2>5. (cash => e.type \in CashDebits) /\ (~cash => e.type \in AssetDebits)
    BY <1>1, <2>1 DEF CashDebits, AssetDebits
  <2> HIDE DEF k
  <2>6. CASE cash
    BY <2>1, <2>2, <2>3, <2>5, <2>6 DEF Credits, Debits, Size
  <2>7. CASE ~cash
    BY <2>1, <2>2, <2>4, <2>5, <2>7 DEF Credits, Debits, Size
  <2> QED
    BY <2>6, <2>7
<1>2. \/ e = Leg(row, "source", IF cash THEN "cash_out" ELSE "asset_out", t.source, t.units)
      \/ /\ t.fee # 0
         /\ e = Leg(row, "commission", IF cash THEN "cash_fee" ELSE "asset_fee", t.source, t.fee)
  BY DEF Leaving
<1>3. CASE e = Leg(row, "source", IF cash THEN "cash_out" ELSE "asset_out", t.source, t.units)
  <2>1. (IF cash THEN "cash_out" ELSE "asset_out")
           \in {"cash_out", "cash_fee", "asset_out", "asset_fee"}
        /\ ((IF cash THEN "cash_out" ELSE "asset_out") \in {"cash_out", "cash_fee"} <=> cash)
    OBVIOUS
  <2> QED
    BY <1>1, <1>3, <2>1
<1>4. CASE /\ t.fee # 0
           /\ e = Leg(row, "commission", IF cash THEN "cash_fee" ELSE "asset_fee", t.source, t.fee)
  <2>1. (IF cash THEN "cash_fee" ELSE "asset_fee")
           \in {"cash_out", "cash_fee", "asset_out", "asset_fee"}
        /\ ((IF cash THEN "cash_fee" ELSE "asset_fee") \in {"cash_out", "cash_fee"} <=> cash)
    OBVIOUS
  <2> QED
    BY <1>1, <1>4, <2>1
<1> QED
  BY <1>2, <1>3, <1>4

LEMMA ArrivingIs ==
  ASSUME RowsDated, NEW row \in rows, NEW e \in Arriving(row)
  PROVE  LET t == row.terms
         IN /\ Credits(t.destination[2], e) /\ e.id = LegId(row, "destination")
            /\ \A k : Credits(k, e) \/ Debits(k, e) => k = t.destination[2]
            /\ Size(t.destination[2], e) = t.units
<1> DEFINE t == row.terms
           k == t.destination[2]
           cash == IsCash(t.source[2])
<1>1. IsCash(k) <=> cash
  BY RowFacts, BookAssumption DEF IsCash
<1>2. e = Leg(row, "destination", IF cash THEN "cash_in" ELSE "asset_in", t.destination, t.units)
  BY DEF Arriving
<1>3. /\ e.type = (IF cash THEN "cash_in" ELSE "asset_in") /\ e.id = LegId(row, "destination")
      /\ cash => e.cash = k /\ e.amount = t.units
      /\ ~cash => e.asset = k /\ e.quantity = t.units
  BY <1>1, <1>2 DEF Leg
<1>4. /\ cash => e.type \in CashCredits /\ e.type \notin CashDebits \cup AssetCredits \cup AssetDebits
      /\ ~cash => e.type \in AssetCredits /\ e.type \notin AssetDebits \cup CashCredits \cup CashDebits
  BY <1>3 DEF CashCredits, CashDebits, AssetCredits, AssetDebits
<1>5. /\ Credits(k, e) /\ Size(k, e) = t.units
      /\ \A j : Credits(j, e) \/ Debits(j, e) => j = k
  <2> HIDE DEF k
  <2>1. CASE cash
    BY <1>1, <1>3, <1>4, <2>1 DEF Credits, Debits, Size
  <2>2. CASE ~cash
    BY <1>1, <1>3, <1>4, <2>2 DEF Credits, Debits, Size
  <2> QED
    BY <2>1, <2>2
<1> QED
  BY <1>3, <1>5

\* The entries an execution adds to those of a pool.
Fresh(row, p) ==
  (IF p = row.terms.source THEN Leaving(row) ELSE {})
    \cup (IF p = row.terms.destination THEN Arriving(row) ELSE {})

LEMMA ExecuteOwn ==
  ASSUME RowsDated, NEW row \in rows, NEW p \in Pools,
         history'[p[1]] = history[p[1]] \cup LegsAt(row, p[1])
  PROVE  Own(p[2], history'[p[1]]) = Own(p[2], history[p[1]]) \cup Fresh(row, p)
<1> DEFINE t == row.terms
           g == p[1]
           k == p[2]
<1>1. t.source \in Pools /\ t.destination \in Pools
  BY RowFacts, BookAssumption
<1>2. /\ p = t.source <=> g = t.source[1] /\ k = t.source[2]
      /\ p = t.destination <=> g = t.destination[1] /\ k = t.destination[2]
  BY <1>1 DEF Pools
<1>3. ASSUME NEW e
      PROVE  e \in LegsAt(row, g) /\ (Credits(k, e) \/ Debits(k, e)) <=> e \in Fresh(row, p)
  <2>1. ASSUME e \in LegsAt(row, g), Credits(k, e) \/ Debits(k, e)
        PROVE  e \in Fresh(row, p)
    <3>1. CASE g = t.source[1] /\ e \in Leaving(row)
      BY <1>2, <2>1, <3>1, LeavingIs DEF Fresh
    <3>2. CASE g = t.destination[1] /\ e \in Arriving(row)
      BY <1>2, <2>1, <3>2, ArrivingIs DEF Fresh
    <3> QED
      BY <2>1, <3>1, <3>2 DEF LegsAt
  <2>2. ASSUME e \in Fresh(row, p)
        PROVE  e \in LegsAt(row, g) /\ (Credits(k, e) \/ Debits(k, e))
    <3>1. CASE p = t.source /\ e \in Leaving(row)
      BY <1>2, <3>1, LeavingIs DEF LegsAt
    <3>2. CASE p = t.destination /\ e \in Arriving(row)
      BY <1>2, <3>2, ArrivingIs DEF LegsAt
    <3> QED
      BY <2>2, <3>1, <3>2 DEF Fresh
  <2> QED
    BY <2>1, <2>2
<1>4. \A e : e \in Own(k, history'[g]) <=> e \in Own(k, history[g]) \/ e \in Fresh(row, p)
  BY <1>3, OwnIs
<1> QED
  BY <1>4

LEMMA FreshFacts ==
  ASSUME RowsDated, NEW row \in rows, NEW p \in Pools, NEW e \in Fresh(row, p)
  PROVE  /\ e.at = row.at /\ e.type \in LegTypes /\ p \in Touched(row)
         /\ \E side \in Sides(row) : e.id = LegId(row, side)
<1>1. e \in LegsAt(row, p[1])
  BY DEF Fresh, LegsAt
<1> QED
  BY <1>1, LegFacts, LegSides DEF Fresh, Touched

\* Where transfers run in order, the earlier ones are earlier entries.
LEMMA LegsEarlier ==
  ASSUME BookInv, NEW row \in rows, row.status = "pending", NEW p \in OrderedPools,
         p \in Touched(row), NEW e \in Own(p[2], history[p[1]]), e.type \in LegTypes
  PROVE  e.at < row.at
<1>1. p[1] \in Goals /\ p[2] \in InOrder /\ p = <<p[1], p[2]>>
  BY DEF OrderedPools
<1>2. RowsDated /\ NoneOvertaken /\ HistoriesExplained
  BY DEF BookInv
<1>3. e \in history[p[1]] /\ ~Written(e)
  BY OwnIs DEF Written, LegTypes, CashLegs, AssetLegs, MovementTypes, OperationTypes
<1>4. PICK r \in rows : r.status = "completed" /\ e \in LegsAt(r, p[1])
  BY <1>1, <1>2, <1>3 DEF HistoriesExplained, Explained
<1>5. e.at = r.at /\ p \in Touched(r)
  BY <1>1, <1>2, <1>4, LegFacts, LegMoves
<1>6. Ordered(r)
  BY <1>1, <1>5 DEF Ordered
<1>7. r.id \in Nat /\ row.id \in Nat /\ r.id # row.id /\ ~(row.id < r.id)
  BY <1>2, <1>4, <1>6, RowFacts DEF RowsDated, NoneOvertaken
<1>8. r.at <= row.at /\ r.at \in Nat /\ row.at \in Nat
  BY <1>2, <1>7, RowFacts DEF RowsDated
<1>9. r.at # row.at
  BY <1>4, <1>5 DEF OrderedPools, Touched
<1> QED
  BY <1>5, <1>8, <1>9

\* Nothing else that counts for a pool changes when a transfer is executed.
LEMMA ExecuteAgrees ==
  ASSUME RecordsInv, NEW row \in rows, Execute(row), NEW p \in Pools
  PROVE  \A T \in Segments(Own(p[2], history[p[1]])) : PoolRun(p, book', T) = PoolRun(p, book, T)
<1> DEFINE S == Own(p[2], history[p[1]])
<1>1. Sortable(S)
  BY RecordsLawful DEF PoolsLawful
<1>2. ASSUME NEW e \in S
      PROVE  SameCost(book, book', e.id)
  <2>1. e \in history[p[1]] /\ p[1] \in Goals
    BY OwnIs DEF Pools
  <2>2. row.status = "pending" /\ book' = BookOf(row)
    BY ExecuteIs DEF RecordsInv
  <2>3. \A side \in AllSides : e.id # LegIds[row.id][side]
    BY <2>1, <2>2, LegIdsAreNew DEF RecordsInv
  <2> QED
    BY <2>2, <2>3, OthersKeepCosts DEF RecordsInv
<1> HIDE DEF S
<1>3. \A T \in Segments(S) : PoolRun(p, book, T) = PoolRun(p, book', T)
  BY <1>1, <1>2, RunAgrees
<1> QED
  BY <1>3 DEF S

\* What was recorded before stays before what is recorded now.
LEMMA ExecuteSegment ==
  ASSUME RecordsInv, RecordsInv', NEW row \in rows, Execute(row),
         NEW p \in OrderedPools,
         NEW T \in Segments(Own(p[2], history'[p[1]])), T # {},
         Latest(T).id \in DOMAIN book', Latest(T) \notin Fresh(row, p)
  PROVE  T \in Segments(Own(p[2], history[p[1]]))
<1> DEFINE S == Own(p[2], history[p[1]])
           N == Own(p[2], history'[p[1]])
           m == Latest(T)
<1>1. p \in Pools /\ p[1] \in Goals
  BY OrderedAreIn DEF OrderedPools
<1>2. PoolsLawful'
  BY RecordsLawful, PTL
<1>3. Sortable(N) /\ Sortable(S)
  BY <1>1, <1>2, RecordsLawful DEF PoolsLawful
<1>4. /\ row.status = "pending" /\ book' = BookOf(row)
      /\ history'[p[1]] = history[p[1]] \cup LegsAt(row, p[1])
  BY <1>1, ExecuteIs DEF RecordsInv
<1>5. N = S \cup Fresh(row, p)
  BY <1>1, <1>4, ExecuteOwn DEF RecordsInv, BookInv
<1>6. m \in S /\ m \in N /\ T \ {m} = Preceding(N, m) /\ T \in SUBSET N
  BY <1>3, <1>5, SegmentEnds DEF Segments
<1>7. T \in SUBSET S
  <2>1. CASE p \notin Touched(row)
    BY <1>1, <1>5, <1>6, <2>1, FreshFacts DEF RecordsInv, BookInv
  <2>2. CASE p \in Touched(row)
    <3>1. m \in history[p[1]]
      BY <1>6, OwnIs
    <3>2. \A side \in AllSides : m.id # LegIds[row.id][side]
      BY <1>1, <1>4, <3>1, LegIdsAreNew DEF RecordsInv
    <3>3. m.id \in DOMAIN book
      <4>1. DOMAIN book' = DOMAIN book \cup {LegId(row, side) : side \in Sides(row)}
        BY <1>4, RecordedIs DEF RecordsInv
      <4>2. \A side \in Sides(row) : LegId(row, side) = LegIds[row.id][side] /\ side \in AllSides
        BY DEF LegId, Sides
      <4> QED
        BY <3>2, <4>1, <4>2
    <3>4. m.type \in LegTypes
      BY <1>1, <3>1, <3>3, EntryFacts, WrittenUnrecorded DEF RecordsInv, BookInv
    <3>5. m.at < row.at
      BY <1>4, <1>6, <2>2, <3>4, LegsEarlier DEF RecordsInv
    <3>6. ASSUME NEW d \in T
          PROVE  d \notin Fresh(row, p)
      <4> SUFFICES ASSUME d \in Fresh(row, p) PROVE FALSE
        OBVIOUS
      <4>1. d.at = row.at /\ d # m
        BY <1>1, FreshFacts DEF RecordsInv, BookInv
      <4>2. Before(d, m)
        BY <1>6, <4>1 DEF Preceding
      <4>3. d.at \in Int /\ m.at \in Int
        BY <1>3, <1>6 DEF Sortable
      <4> QED
        BY <3>5, <4>1, <4>2, <4>3 DEF Before
    <3> QED
      BY <1>5, <1>6, <3>6
  <2> QED
    BY <2>1, <2>2
<1>8. Preceding(S, m) \subseteq Preceding(N, m)
  BY <1>5 DEF Preceding
<1>9. \A e \in T : Preceding(S, e) \subseteq T
  BY <1>5 DEF Preceding, Segments
<1> QED
  BY <1>7, <1>9 DEF Segments

-----------------------------------------------------------------------------
(* The rounds of the new legs.                                             *)

LEMMA RecordedCreditSafe ==
  ASSUME NEW k, NEW v, NEW pool, NEW e, Good(pool), Credits(k, e), LawfulEntry(k, v, e)
  PROVE  Good(Project(k, v, pool, e))
<1>1. CASE pool.fails
  BY <1>1, FailureSticks
<1>2. CASE ~pool.fails
  <2> DEFINE x == Project(k, v, pool, e)
  <2>1. Whole(pool)
    BY DEF Good, Solvent
  <2>2. /\ x \in [units: Int, cost: Int, fails: BOOLEAN]
        /\ x.fails <=> x.units < 0 \/ x.cost < 0
        /\ x.units = pool.units + Size(k, e) /\ x.cost = pool.cost + Part(k, v, pool, e)
    BY <1>2, <2>1, ProjectMoves
  <2>3. /\ Size(k, e) \in Nat \ {0} /\ Part(k, v, pool, e) \in Nat
        /\ pool.units \in Nat /\ pool.cost \in Nat
    BY <1>2, <2>1, PartType DEF LawfulEntry, Whole
  <2> HIDE DEF x
  <2>4. x.units \in Nat \ {0} /\ x.cost \in Nat
    BY <2>2, <2>3
  <2>5. ~x.fails /\ x.units # 0
    BY <2>2, <2>4
  <2> QED
    BY <2>2, <2>4, <2>5 DEF Good, Solvent, Whole, x
<1> QED
  BY <1>1, <1>2

\* A recorded debit that leaves what must be left.
LEMMA RecordedDebit ==
  ASSUME NEW k, NEW v, NEW pool, NEW e, Whole(pool), ~pool.fails, Debits(k, e),
         LawfulEntry(k, v, e), e.id \in DOMAIN v,
         NEW n \in Nat, NEW c \in Nat, n = Size(k, e), c = v[e.id], n <= pool.units, c <= pool.cost
  PROVE  LET x == Project(k, v, pool, e)
         IN /\ Whole(x) /\ ~x.fails /\ x.units = pool.units - n /\ x.cost = pool.cost - c
            /\ (n = pool.units => c = pool.cost) => Good(x)
<1> DEFINE x == Project(k, v, pool, e)
<1>1. ~Credits(k, e)
  BY CreditsNoDebits
<1>2. Part(k, v, pool, e) = c
  BY DEF Part
<1>3. /\ x \in [units: Int, cost: Int, fails: BOOLEAN]
      /\ x.fails <=> x.units < 0 \/ x.cost < 0
      /\ x.units = pool.units - n /\ x.cost = pool.cost - c
  BY <1>1, <1>2, ProjectMoves
<1>4. pool.units \in Nat /\ pool.cost \in Nat
  BY DEF Whole
<1> HIDE DEF x
<1>5. x.units \in Nat /\ x.cost \in Nat
  BY <1>3, <1>4
<1>6. ~x.fails
  BY <1>3, <1>5
<1>7. (n = pool.units => c = pool.cost) => (x.units = 0 => x.cost = 0)
  BY <1>3, <1>4
<1> QED
  BY <1>3, <1>5, <1>6, <1>7 DEF Good, Solvent, Whole, x

\* Debits that take their own part leave fewer units and no more cost.
LEMMA OwnDebit ==
  ASSUME NEW k, NEW v, NEW pool, NEW e, Whole(pool), ~pool.fails, Debits(k, e),
         LawfulEntry(k, v, e), e.id \notin DOMAIN v, ~Project(k, v, pool, e).fails
  PROVE  LET x == Project(k, v, pool, e)
         IN x.units < pool.units /\ x.cost <= pool.cost /\ x.units \in Nat /\ x.cost \in Nat
<1> DEFINE x == Project(k, v, pool, e)
<1>1. ~Credits(k, e)
  BY CreditsNoDebits
<1>2. /\ x \in [units: Int, cost: Int, fails: BOOLEAN]
      /\ x.fails <=> x.units < 0 \/ x.cost < 0
      /\ x.units = pool.units - Size(k, e) /\ x.cost = pool.cost - Part(k, v, pool, e)
  BY <1>1, ProjectMoves
<1>3. Size(k, e) \in Nat \ {0} /\ pool.units \in Nat /\ pool.cost \in Nat
        /\ Part(k, v, pool, e) \in Nat
  BY PartType DEF LawfulEntry, Whole
<1> HIDE DEF x
<1> QED
  BY <1>2, <1>3 DEF x

\* What sorts before one leg of the source does before the other.
LEMMA LegsAdjacent ==
  ASSUME BookInv, NEW row \in rows, row.status = "pending", NEW g \in Goals, NEW e \in history[g],
         NEW m \in Leaving(row), NEW o \in Leaving(row)
  PROVE  Before(e, m) <=> Before(e, o)
<1>1. RowsDated /\ row.id \in Ids
  BY RowFacts DEF BookInv
<1>2. Priority(m) = 3 /\ Priority(o) = 3
  BY <1>1, LeavingIs
<1>3. m.at = row.at /\ o.at = row.at
  BY DEF Leaving, Leg
<1>4. PICK a \in AllSides, b \in AllSides : m.id = LegIds[row.id][a] /\ o.id = LegIds[row.id][b]
  BY DEF Leaving, Leg, LegId, AllSides
<1>5. e.id \in EntryIds /\ \A side \in AllSides : e.id # LegIds[row.id][side]
  BY <1>1, EntryFacts, LegIdsAreNew DEF BookInv
<1>6. e.id \in EntryIds \ {LegIds[row.id][side] : side \in AllSides}
  BY <1>5
<1>7. e.id < m.id <=> e.id < o.id
  BY <1>1, <1>4, <1>6, LegIdsAssumption
<1> QED
  BY <1>2, <1>3, <1>7 DEF Before

\* What the source held where the legs are inserted is no less than what the
\* service read of it.
LEMMA SourceHolds ==
  ASSUME RecordsInv, RecordsInv', PoolsKept, NEW row \in rows, Execute(row),
         NEW p \in OrderedPools, p = row.terms.source, NEW m \in Leaving(row)
  PROVE  LET S == Own(p[2], history[p[1]])
             A == Preceding(S, m)
             pool == PoolRun(p, book, A)
         IN /\ A \in Segments(S) /\ Good(pool) /\ ~pool.fails
            /\ SourcePool(row).units <= pool.units /\ SourcePool(row).cost <= pool.cost
            /\ SourcePool(row).units = pool.units => SourcePool(row).cost = pool.cost
<1> DEFINE k == p[2]
           S == Own(k, history[p[1]])
           A == Preceding(S, m)
           M == Moving(k, history[p[1]], row.at)
           pool == PoolRun(p, book, A)
           Lower(x) == ~x.fails => /\ x.units \in Nat /\ x.cost \in Nat
                                   /\ x.units <= pool.units /\ x.cost <= pool.cost
                                   /\ (x.units = pool.units => x.cost = pool.cost)
                                   /\ ~pool.fails
           F == {T \in SUBSET S : T \subseteq M => Lower(PoolRun(p, book, T))}
<1>1. p \in Pools /\ p[1] \in Goals /\ p \in Touched(row)
  BY OrderedAreIn DEF OrderedPools, Touched
<1>2. /\ Sortable(history[p[1]]) /\ Counted(history[p[1]]) /\ Sortable(S)
      /\ Lawful(k, book, S)
  BY <1>1, RecordsLawful DEF PoolsLawful
<1>3. PoolsLawful'
  BY RecordsLawful, PTL
<1>4. Sortable(Own(k, history'[p[1]]))
  BY <1>1, <1>3 DEF PoolsLawful
<1>5. /\ row.status = "pending" /\ Acceptable(row) /\ RowsDated
      /\ history'[p[1]] = history[p[1]] \cup LegsAt(row, p[1])
  BY <1>1, ExecuteIs DEF RecordsInv, BookInv
<1>6. Own(k, history'[p[1]]) = S \cup Fresh(row, p) /\ m \in Fresh(row, p)
  BY <1>1, <1>5, ExecuteOwn DEF Fresh
<1>7. m.at = row.at /\ row.at \in Int
  BY <1>5, RowFacts DEF Leaving, Leg
<1>8. A \in Segments(S)
  <2>1. \A d, e \in S : Before(d, e) /\ Before(e, m) => Before(d, m)
    BY <1>4, <1>6, BeforeOrders
  <2> QED
    BY <2>1 DEF Segments, Preceding
<1>9. M \in Segments(S)
  BY <1>2, <1>7, MovingSegment
<1>10. A \subseteq M
  <2>1. \A e \in S : e.at \in Int
    BY <1>2 DEF Sortable
  <2> QED
    BY <1>7, <2>1 DEF Moving, Before, Preceding
<1>11. Good(pool)
  BY <1>8 DEF PoolsKept, AlwaysGood
<1>12. ASSUME NEW e \in M, e \notin A
       PROVE  Debits(k, e) /\ e.id \notin DOMAIN book
  <2>1. e \in S /\ e.at <= row.at /\ ~Before(e, m)
    BY <1>12 DEF Moving, Preceding
  <2>2. e \in history[p[1]] /\ (Credits(k, e) \/ Debits(k, e))
    BY <2>1, OwnIs
  <2>3. e.at \in Int /\ Priority(e) \in 0..3 /\ Priority(m) = 3
    BY <1>2, <1>5, <2>1, PriorityType, LeavingIs DEF Sortable
  <2>4. e.at = row.at /\ Priority(e) = Priority(m)
    BY <1>7, <2>1, <2>3 DEF Before
  <2>5. Debits(k, m)
    BY <1>5, LeavingIs
  <2>6. ~Credits(k, e)
    BY <2>4, <2>5, TiesAgree DEF Credits, Debits
  <2>7. e.type \notin LegTypes
    <3> SUFFICES ASSUME e.type \in LegTypes PROVE FALSE
      OBVIOUS
    <3>1. e.at < row.at
      BY <1>1, <1>5, <2>1, LegsEarlier DEF RecordsInv
    <3> QED
      BY <1>7, <2>4, <3>1
  <2>8. e.id \notin DOMAIN book
    BY <1>1, <1>5, <2>2, <2>7, EntryFacts, WrittenUnrecorded DEF RecordsInv, BookInv
  <2> QED
    BY <2>2, <2>6, <2>8
<1>13. Whole(pool)
  BY <1>11 DEF Good, Solvent
<1>14. A \in F
  <2>1. ~pool.fails => pool.units \in Nat /\ pool.cost \in Nat
    BY <1>13 DEF Whole
  <2> HIDE DEF A
  <2> QED
    BY <1>8, <2>1 DEF Segments
<1> HIDE DEF M
<1>15. ASSUME NEW T \in Segments(S), A \subseteq T \ {Latest(T)}, Latest(T) \in T \ A,
              T \ {Latest(T)} \in F
       PROVE  T \in F
  <2> DEFINE e == Latest(T)
             R == T \ {e}
             before == PoolRun(p, book, R)
             after == PoolRun(p, book, T)
  <2>1. T # {} /\ T \in SUBSET S /\ Sortable(T) /\ R \in Segments(S) /\ e \in S
    BY <1>2, <1>15, SegmentEnds DEF Segments
  <2> SUFFICES ASSUME T \subseteq M PROVE Lower(after)
    BY <2>1
  <2>2. Lower(before)
    BY <1>15
  <2>3. Debits(k, e) /\ e.id \notin DOMAIN book
    BY <1>12, <1>15
  <2>4. after = Project(k, book, before, e)
    BY <2>1, PoolRound
  <2>5. Whole(before)
    BY <1>1, <2>1, HistoryWhole DEF RecordsInv
  <2>6. LawfulEntry(k, book, e)
    BY <1>2, <2>1 DEF Lawful
  <2>7. before.fails => after.fails
    BY <2>4, FailureSticks
  <2>8. ASSUME ~after.fails
        PROVE  /\ after.units < before.units /\ after.cost <= before.cost
               /\ after.units \in Nat /\ after.cost \in Nat
    BY <2>3, <2>4, <2>5, <2>6, <2>7, <2>8, OwnDebit
  <2>9. ~pool.fails => pool.units \in Nat /\ pool.cost \in Nat
    BY <1>13 DEF Whole
  <2> HIDE DEF before, after, pool, e, R
  <2> QED
    BY <2>2, <2>7, <2>8, <2>9
<1> HIDE DEF F, S, A
<1>16. \A T \in Segments(S) : A \subseteq T => T \in F
  BY <1>2, <1>8, <1>14, <1>15, SegmentsFrom
<1>17. SourcePool(row) = PoolRun(p, book, M) /\ ~SourcePool(row).fails
  BY <1>5, SourcePoolIs DEF RecordsInv, M
<1>18. Lower(SourcePool(row))
  BY <1>9, <1>10, <1>16, <1>17 DEF F
<1> QED
  BY <1>8, <1>11, <1>17, <1>18 DEF A, S

-----------------------------------------------------------------------------
(* What the legs of the source take.                                       *)

\* What a leg of the source takes of a pool, and what both take.
TakenBy(row, e) ==
  IF e.id = LegId(row, "source") THEN [units |-> row.terms.units, cost |-> Delivered(row)]
  ELSE [units |-> row.terms.fee, cost |-> Commission(SourcePool(row), row.terms)]

LEMMA TakenIs ==
  ASSUME RecordsInv, NEW row \in rows, Execute(row), NEW p \in Pools, p = row.terms.source,
         NEW pool, pool.units \in Nat, pool.cost \in Nat,
         SourcePool(row).units <= pool.units, SourcePool(row).cost <= pool.cost,
         SourcePool(row).units = pool.units => SourcePool(row).cost = pool.cost
  PROVE  /\ \A m \in Leaving(row) :
              LET x == TakenBy(row, m)
              IN /\ x.units \in Nat /\ x.cost \in Nat
                 /\ Size(p[2], m) = x.units /\ m.id \in DOMAIN book' /\ book'[m.id] = x.cost
                 /\ x.units <= pool.units /\ x.cost <= pool.cost
                 /\ x.units = pool.units => x.cost = pool.cost
         /\ \A m, o \in Leaving(row) : m # o =>
              LET x == TakenBy(row, m)
                  y == TakenBy(row, o)
              IN /\ x.units + y.units <= pool.units /\ x.cost + y.cost <= pool.cost
                 /\ x.units + y.units = pool.units => x.cost + y.cost = pool.cost
         /\ \A m, o, n \in Leaving(row) : m # o => n \in {m, o}
<1> DEFINE t == row.terms
           source == SourcePool(row)
           fee == Commission(source, t)
<1>1. row.status = "pending" /\ Acceptable(row) /\ book' = BookOf(row) /\ RowsDated
  BY ExecuteIs DEF RecordsInv, BookInv
<1>2. /\ t.units \in Nat \ {0} /\ t.fee \in Nat /\ t.units + t.fee <= source.units
      /\ source.units \in Nat /\ source.cost \in Nat
  BY <1>1, SourcePoolIs DEF RecordsInv
<1>3. /\ Delivered(row) \in Nat /\ fee \in Nat /\ Delivered(row) + fee <= source.cost
      /\ t.units + t.fee = source.units => Delivered(row) + fee = source.cost
      /\ t.fee = 0 => fee = 0
  BY <1>1, DeliveredIs DEF RecordsInv
<1>4. /\ LegId(row, "source") \in DOMAIN book' /\ book'[LegId(row, "source")] = Delivered(row)
      /\ t.fee # 0 => /\ LegId(row, "commission") \in DOMAIN book'
                      /\ book'[LegId(row, "commission")] = fee
  <2>1. /\ DOMAIN book' = DOMAIN book \cup {LegId(row, side) : side \in Sides(row)}
        /\ book'[LegId(row, "source")] = Delivered(row)
        /\ t.fee # 0 => book'[LegId(row, "commission")] = fee
    BY <1>1, RecordedIs DEF RecordsInv
  <2>2. "source" \in Sides(row) /\ (t.fee # 0 => "commission" \in Sides(row))
    BY DEF Sides, AllSides
  <2> QED
    BY <2>1, <2>2
<1>5. LegId(row, "source") # LegId(row, "commission")
  <2>1. row.id \in Ids
    BY <1>1, RowFacts
  <2> QED
    BY <2>1, LegIdsAssumption DEF LegId, AllSides
<1>6. \A m \in Leaving(row) :
        \/ /\ m.id = LegId(row, "source") /\ Size(p[2], m) = t.units
           /\ TakenBy(row, m) = [units |-> t.units, cost |-> Delivered(row)]
        \/ /\ t.fee # 0 /\ m.id = LegId(row, "commission") /\ Size(p[2], m) = t.fee
           /\ TakenBy(row, m) = [units |-> t.fee, cost |-> fee]
  BY <1>1, <1>5, LeavingIs DEF TakenBy
<1>7. \A m, o \in Leaving(row) : m.id = o.id => m = o
  <2>1. Leaving(row) \subseteq LegsAt(row, t.source[1])
    BY DEF LegsAt
  <2> QED
    BY <1>1, <2>1, LegsDiffer
<1> HIDE DEF source, fee, t
<1>8. ASSUME NEW m \in Leaving(row)
      PROVE  LET x == TakenBy(row, m)
             IN /\ x.units \in Nat /\ x.cost \in Nat
                /\ Size(p[2], m) = x.units /\ m.id \in DOMAIN book' /\ book'[m.id] = x.cost
                /\ x.units <= pool.units /\ x.cost <= pool.cost
                /\ x.units = pool.units => x.cost = pool.cost
  <2>1. source.units <= pool.units /\ source.cost <= pool.cost
          /\ (source.units = pool.units => source.cost = pool.cost)
    BY DEF source
  <2>2. CASE /\ m.id = LegId(row, "source") /\ Size(p[2], m) = t.units
             /\ TakenBy(row, m) = [units |-> t.units, cost |-> Delivered(row)]
    <3>1. t.units <= pool.units /\ Delivered(row) <= pool.cost
      BY <1>2, <1>3, <2>1
    <3>2. t.units = pool.units => Delivered(row) = pool.cost
      BY <1>2, <1>3, <2>1
    <3> QED
      BY <1>2, <1>3, <1>4, <2>2, <3>1, <3>2
  <2>3. CASE /\ t.fee # 0 /\ m.id = LegId(row, "commission") /\ Size(p[2], m) = t.fee
             /\ TakenBy(row, m) = [units |-> t.fee, cost |-> fee]
    <3>1. t.fee < pool.units /\ fee <= pool.cost
      BY <1>2, <1>3, <2>1
    <3>2. t.fee # pool.units
      BY <1>2, <3>1
    <3>3. t.fee <= pool.units
      BY <1>2, <3>1
    <3> QED
      BY <1>2, <1>3, <1>4, <2>3, <3>1, <3>2, <3>3
  <2> QED
    BY <1>6, <2>2, <2>3
<1>9. ASSUME NEW m \in Leaving(row), NEW o \in Leaving(row), m # o
      PROVE  LET x == TakenBy(row, m)
                 y == TakenBy(row, o)
             IN /\ x.units + y.units = t.units + t.fee
                /\ x.cost + y.cost = Delivered(row) + fee
                /\ {m.id, o.id} = {LegId(row, "source"), LegId(row, "commission")}
  <2>1. m.id # o.id
    BY <1>7, <1>9
  <2>2. CASE m.id = LegId(row, "source")
    <3>1. /\ TakenBy(row, m) = [units |-> t.units, cost |-> Delivered(row)]
          /\ TakenBy(row, o) = [units |-> t.fee, cost |-> fee]
          /\ o.id = LegId(row, "commission")
      BY <1>5, <1>6, <2>1, <2>2
    <3> QED
      BY <2>2, <3>1
  <2>3. CASE m.id # LegId(row, "source")
    <3>1. /\ TakenBy(row, m) = [units |-> t.fee, cost |-> fee]
          /\ TakenBy(row, o) = [units |-> t.units, cost |-> Delivered(row)]
          /\ m.id = LegId(row, "commission") /\ o.id = LegId(row, "source")
      BY <1>5, <1>6, <2>1, <2>3
    <3> QED
      BY <1>2, <1>3, <3>1
  <2> QED
    BY <2>2, <2>3
<1>10. ASSUME NEW m \in Leaving(row), NEW o \in Leaving(row), m # o
       PROVE  LET x == TakenBy(row, m)
                  y == TakenBy(row, o)
              IN /\ x.units + y.units <= pool.units /\ x.cost + y.cost <= pool.cost
                 /\ x.units + y.units = pool.units => x.cost + y.cost = pool.cost
  <2>1. source.units <= pool.units /\ source.cost <= pool.cost
          /\ (source.units = pool.units => source.cost = pool.cost)
    BY DEF source
  <2>2. /\ t.units + t.fee <= pool.units /\ Delivered(row) + fee <= pool.cost
        /\ t.units + t.fee = pool.units => Delivered(row) + fee = pool.cost
    BY <1>2, <1>3, <2>1
  <2> QED
    BY <1>9, <1>10, <2>2
<1>11. \A m, o, n \in Leaving(row) : m # o => n \in {m, o}
  BY <1>6, <1>7, <1>9
<1> QED
  BY <1>8, <1>10, <1>11

\* The legs of the source take no more than there is, and all of the cost with
\* the last unit.
LEMMA SourceRounds ==
  ASSUME RecordsInv, RecordsInv', PoolsKept, NEW row \in rows, Execute(row),
         NEW p \in OrderedPools, p = row.terms.source,
         NEW T \in Segments(Own(p[2], history'[p[1]])), Latest(T) \in T, Latest(T) \in Leaving(row)
  PROVE  Good(PoolRun(p, book', T))
<1> DEFINE k == p[2]
           S == Own(k, history[p[1]])
           N == Own(k, history'[p[1]])
           m == Latest(T)
           R == T \ {m}
           A == Preceding(S, m)
           pool == PoolRun(p, book', A)
<1>1. p \in Pools /\ p[1] \in Goals
  BY OrderedAreIn DEF OrderedPools
<1>2. PoolsLawful'
  BY RecordsLawful, PTL
<1>3. Sortable(N) /\ Lawful(k, book', N)
  BY <1>1, <1>2 DEF PoolsLawful
<1>4. /\ row.status = "pending" /\ RowsDated
      /\ history'[p[1]] = history[p[1]] \cup LegsAt(row, p[1])
  BY <1>1, ExecuteIs DEF RecordsInv, BookInv
<1>5. N = S \cup Leaving(row)
  <2>1. p # row.terms.destination
    BY <1>4, RowFacts, BookAssumption
  <2> QED
    BY <1>1, <1>4, <2>1, ExecuteOwn DEF Fresh
<1>6. T # {} /\ Sortable(T) /\ m \in N /\ R \in Segments(N) /\ R = Preceding(N, m)
  BY <1>3, SegmentEnds
<1>7. /\ A \in Segments(S) /\ Good(PoolRun(p, book, A)) /\ ~PoolRun(p, book, A).fails
      /\ SourcePool(row).units <= PoolRun(p, book, A).units
      /\ SourcePool(row).cost <= PoolRun(p, book, A).cost
      /\ SourcePool(row).units = PoolRun(p, book, A).units =>
           SourcePool(row).cost = PoolRun(p, book, A).cost
  BY SourceHolds
<1>8. pool = PoolRun(p, book, A)
  BY <1>1, <1>7, ExecuteAgrees
<1>9. Good(pool) /\ Whole(pool) /\ ~pool.fails /\ pool.units \in Nat /\ pool.cost \in Nat
  BY <1>7, <1>8 DEF Good, Solvent, Whole
<1>10. /\ \A n \in Leaving(row) :
            LET x == TakenBy(row, n)
            IN /\ x.units \in Nat /\ x.cost \in Nat
               /\ Size(k, n) = x.units /\ n.id \in DOMAIN book' /\ book'[n.id] = x.cost
               /\ x.units <= pool.units /\ x.cost <= pool.cost
               /\ x.units = pool.units => x.cost = pool.cost
       /\ \A n, o \in Leaving(row) : n # o =>
            LET x == TakenBy(row, n)
                y == TakenBy(row, o)
            IN /\ x.units + y.units <= pool.units /\ x.cost + y.cost <= pool.cost
               /\ x.units + y.units = pool.units => x.cost + y.cost = pool.cost
       /\ \A n, o, i \in Leaving(row) : n # o => i \in {n, o}
  <2> HIDE DEF pool
  <2>1. /\ SourcePool(row).units <= pool.units /\ SourcePool(row).cost <= pool.cost
        /\ SourcePool(row).units = pool.units => SourcePool(row).cost = pool.cost
    BY <1>7, <1>8
  <2> HIDE DEF S, N, A, m, R
  <2> QED
    BY <1>1, <1>9, <2>1, TakenIs
<1>11. PoolRun(p, book', T) = Project(k, book', PoolRun(p, book', R), m)
  BY <1>6, PoolRound
<1>12. \A n \in Leaving(row) : Debits(k, n) /\ LawfulEntry(k, book', n)
  BY <1>3, <1>4, <1>5, LeavingIs DEF Lawful
<1> DEFINE x == TakenBy(row, m)
<1> HIDE DEF pool
<1>13. CASE R \cap Leaving(row) = {}
  <2>1. R = A
    BY <1>5, <1>6, <1>13 DEF Preceding
  <2>2. PoolRun(p, book', R) = pool
    BY <2>1 DEF pool
  <2>3. /\ x.units \in Nat /\ x.cost \in Nat
        /\ Size(k, m) = x.units /\ m.id \in DOMAIN book' /\ book'[m.id] = x.cost
        /\ x.units <= pool.units /\ x.cost <= pool.cost
        /\ x.units = pool.units => x.cost = pool.cost
    BY <1>10
  <2> HIDE DEF x
  <2>4. Good(Project(k, book', pool, m))
    BY <1>9, <1>12, <2>3, RecordedDebit
  <2> QED
    BY <1>11, <2>2, <2>4
<1>14. ASSUME NEW o \in R \cap Leaving(row)
       PROVE  Good(PoolRun(p, book', T))
  <2> DEFINE y == TakenBy(row, o)
             next == PoolRun(p, book', R)
  <2>1. m # o /\ Before(o, m)
    BY <1>6, <1>14 DEF Preceding
  <2>2. R = A \cup {o}
    <3>1. \A e \in R : e \in S \/ e = o
      <4> TAKE e \in R
      <4>1. e # m /\ (e \in S \/ e \in Leaving(row))
        BY <1>5, <1>6 DEF Preceding
      <4> QED
        BY <1>10, <2>1, <4>1
    <3> QED
      BY <1>5, <1>6, <1>14, <3>1 DEF Preceding
  <2>3. Sortable(R) /\ R # {} /\ Latest(R) \in R
    <3>1. R # {} /\ R \in Segments(N)
      BY <1>6, <1>14
    <3> HIDE DEF R, N
    <3> QED
      BY <1>3, <3>1, SegmentEnds
  <2>4. Latest(R) = o
    <3> SUFFICES ASSUME Latest(R) # o PROVE FALSE
      OBVIOUS
    <3>1. Latest(R) \in A /\ Before(o, Latest(R))
      BY <1>14, <2>2, <2>3, LatestIs
    <3>2. Latest(R) \in history[p[1]] /\ Before(Latest(R), m)
      BY <3>1, OwnIs DEF Preceding
    <3>3. Before(Latest(R), o)
      BY <1>1, <1>4, <3>2, LegsAdjacent DEF RecordsInv
    <3> QED
      BY <1>14, <2>3, <3>1, <3>3, BeforeOrders
  <2>5. R \ {o} = A
    <3>1. o \notin A
      <4> SUFFICES ASSUME o \in A PROVE FALSE
        OBVIOUS
      <4>1. o \in history[p[1]]
        BY OwnIs DEF Preceding
      <4>2. Before(o, m) <=> Before(o, o)
        BY <1>1, <1>4, <1>14, <4>1, LegsAdjacent DEF RecordsInv
      <4> QED
        BY <1>14, <2>1, <2>3, <4>2, BeforeOrders
    <3> QED
      BY <2>2, <3>1
  <2>6. next = Project(k, book', pool, o)
    BY <2>3, <2>4, <2>5, PoolRound DEF pool
  <2>7. /\ x.units \in Nat /\ x.cost \in Nat
        /\ Size(k, m) = x.units /\ m.id \in DOMAIN book' /\ book'[m.id] = x.cost
    BY <1>10
  <2>8. /\ y.units \in Nat /\ y.cost \in Nat
        /\ Size(k, o) = y.units /\ o.id \in DOMAIN book' /\ book'[o.id] = y.cost
        /\ y.units <= pool.units /\ y.cost <= pool.cost
    BY <1>10, <1>14
  <2>9. /\ x.units + y.units <= pool.units /\ x.cost + y.cost <= pool.cost
        /\ x.units + y.units = pool.units => x.cost + y.cost = pool.cost
    BY <1>10, <1>14, <2>1
  <2> HIDE DEF x, y, next
  <2>10. /\ Whole(next) /\ ~next.fails
         /\ next.units = pool.units - y.units /\ next.cost = pool.cost - y.cost
    BY <1>9, <1>12, <1>14, <2>6, <2>8, RecordedDebit
  <2>11. /\ x.units <= next.units /\ x.cost <= next.cost
         /\ x.units = next.units => x.cost = next.cost
    BY <1>9, <2>7, <2>8, <2>9, <2>10
  <2>12. Good(Project(k, book', next, m))
    BY <1>12, <2>7, <2>10, <2>11, RecordedDebit
  <2> QED
    BY <1>11, <2>12 DEF next
<1> QED
  BY <1>13, <1>14

-----------------------------------------------------------------------------
(* Every step keeps the pools good.                                        *)

LEMMA ExecuteKeepsOrdered ==
  ASSUME RecordsInv, RecordsInv', PoolsKept, NEW row \in rows, Execute(row), NEW p \in OrderedPools
  PROVE  \A T \in Segments(Own(p[2], history'[p[1]])) : Good(PoolRun(p, book', T))
<1> DEFINE k == p[2]
           S == Own(k, history[p[1]])
           N == Own(k, history'[p[1]])
           F == {T \in SUBSET N : Good(PoolRun(p, book', T))}
<1>1. p \in Pools /\ p[1] \in Goals
  BY OrderedAreIn DEF OrderedPools
<1>2. PoolsLawful'
  BY RecordsLawful, PTL
<1>3. /\ Sortable(history'[p[1]]) /\ Counted(history'[p[1]]) /\ Sortable(N)
      /\ Lawful(k, book', N)
  BY <1>1, <1>2 DEF PoolsLawful
<1>4. RowsDated
  BY DEF RecordsInv, BookInv
<1>5. {} \in F
  <2>1. Sortable({})
    BY <1>3, SubsetSorts
  <2> QED
    BY <1>1, <2>1, PoolRound, OpeningIs
<1>6. ASSUME NEW T \in Segments(N), Latest(T) \in T, T \ {Latest(T)} \in F
      PROVE  T \in F
  <2> DEFINE m == Latest(T)
             before == PoolRun(p, book', T \ {m})
  <2>1. T # {} /\ T \in SUBSET N /\ Good(before) /\ m \in N
    BY <1>6 DEF Segments
  <2>2. CASE m.id \notin DOMAIN book'
    <3>1. Good(PoolRun(p, book', T))
      BY <1>1, <1>3, <2>1, <2>2, RoundUnrecorded
    <3> QED
      BY <2>1, <3>1
  <2>3. CASE m.id \in DOMAIN book' /\ m \notin Fresh(row, p)
    <3>1. T \in Segments(S)
      BY <2>1, <2>3, ExecuteSegment
    <3>2. PoolRun(p, book', T) = PoolRun(p, book, T)
      BY <1>1, <3>1, ExecuteAgrees
    <3>3. Good(PoolRun(p, book, T))
      BY <3>1 DEF PoolsKept, AlwaysGood
    <3> QED
      BY <2>1, <3>2, <3>3
  <2>4. CASE p = row.terms.source /\ m \in Leaving(row)
    <3>1. Good(PoolRun(p, book', T))
      BY <1>6, <2>4, SourceRounds
    <3> QED
      BY <2>1, <3>1
  <2>5. CASE p = row.terms.destination /\ m \in Arriving(row)
    <3>1. Credits(k, m)
      BY <1>4, <2>5, ArrivingIs
    <3>2. LawfulEntry(k, book', m)
      BY <1>3, <2>1 DEF Lawful
    <3>3. PoolRun(p, book', T) = Project(k, book', before, m)
      BY <1>3, <2>1, SegmentEnds, PoolRound
    <3>4. Good(Project(k, book', before, m))
      BY <2>1, <3>1, <3>2, RecordedCreditSafe
    <3> QED
      BY <2>1, <3>3, <3>4
  <2> QED
    BY <2>2, <2>3, <2>4, <2>5 DEF Fresh
<1> HIDE DEF F, N
<1>7. \A T \in Segments(N) : {} \subseteq T => T \in F
  BY <1>3, <1>5, <1>6, NoneIsSegment, SegmentsFrom
<1> QED
  BY <1>7 DEF F, N

\* Both positions of a transfer of an asset were projected again, legs included.
LEMMA ExecuteKeepsPositions ==
  ASSUME RecordsInv, RecordsInv', PoolsKept, NEW row \in rows, Execute(row),
         NEW p \in Goals \X Positions
  PROVE  \A T \in Segments(Own(p[2], history'[p[1]])) : ~PoolRun(p, book', T).fails
<1> DEFINE k == p[2]
           S == Own(k, history[p[1]])
           N == Own(k, history'[p[1]])
           M == Moving(k, history'[p[1]], now)
           F == {T \in SUBSET N : ~PoolRun(p, book', T).fails}
<1>1. p \in Pools /\ p[1] \in Goals /\ ~IsCash(k)
  BY OrderedAreIn, KindsAssumption DEF IsCash
<1>2. PoolsLawful'
  BY RecordsLawful, PTL
<1>3. /\ Sortable(history'[p[1]]) /\ Counted(history'[p[1]]) /\ Sortable(N)
      /\ Lawful(k, book', N) /\ Covered(p, history'[p[1]])
  <2>1. Tracked(p)'
    BY <1>1 DEF Tracked, IsCash
  <2> QED
    BY <1>1, <1>2, <2>1 DEF PoolsLawful
<1>4. /\ RowsDated /\ row.status = "pending" /\ Acceptable(row) /\ book' = BookOf(row)
      /\ history'[p[1]] = history[p[1]] \cup LegsAt(row, p[1])
  BY <1>1, ExecuteIs DEF RecordsInv, BookInv
<1>5. N = S \cup Fresh(row, p)
  BY <1>1, <1>4, ExecuteOwn
<1>6. CASE p \notin Touched(row)
  <2>1. N = S
    BY <1>1, <1>4, <1>5, <1>6, FreshFacts
  <2> QED
    BY <1>1, <2>1, ExecuteAgrees DEF PoolsKept, NeverFails
<1>7. CASE p \in Touched(row)
  <2>1. p \in Read(row)
    <3>1. ~IsCash(row.terms.source[2])
      BY <1>1, <1>4, <1>7, RowFacts, BookAssumption DEF Touched, IsCash
    <3> QED
      BY <1>7, <3>1 DEF Read, Touched
  <2>2. ~Pool(p, Posted(row)[p[1]], BookOf(row), now).fails
    <3>1. ~IsCash(row.terms.source[2])
      BY <1>1, <1>4, <1>7, RowFacts, BookAssumption DEF Touched, IsCash
    <3>2. StillProjects(row)
      BY <1>4 DEF Acceptable
    <3> QED
      BY <2>1, <3>1, <3>2 DEF StillProjects
  <2>3. ~PoolRun(p, book', M).fails
    <3>1. history' = Posted(row)
      BY DEF Execute
    <3> QED
      BY <1>4, <2>2, <3>1, PoolIs
  <2>4. now \in Int
    BY <1>4 DEF RowsDated
  <2>5. M \in Segments(N)
    BY <1>3, <2>4, MovingSegment
  <2>6. {} \in F
    <3>1. Sortable({})
      BY <1>3, SubsetSorts
    <3> QED
      BY <3>1, PoolRound DEF Opened
  <2>7. ASSUME NEW T \in Segments(N), Latest(T) \in T, T \ {Latest(T)} \in F
        PROVE  T \in F
    <3> DEFINE m == Latest(T)
    <3>1. T # {} /\ T \in SUBSET N /\ ~PoolRun(p, book', T \ {m}).fails /\ m \in N
      BY <2>7 DEF Segments
    <3>2. CASE m.id \notin DOMAIN book'
      <4>1. ~PoolRun(p, book', T).fails
        BY <1>1, <1>3, <3>1, <3>2, RoundUnrecorded
      <4> QED
        BY <3>1, <4>1
    <3>3. CASE m.id \in DOMAIN book'
      <4>1. m.at <= now
        <5>1. CASE m \in Fresh(row, p)
          BY <1>1, <1>4, <5>1, FreshFacts DEF RowsDated
        <5>2. CASE m \in S
          <6>1. m \in history[p[1]]
            BY <5>2, OwnIs
          <6>2. \A side \in AllSides : m.id # LegIds[row.id][side]
            BY <1>1, <1>4, <6>1, LegIdsAreNew DEF RecordsInv
          <6>3. m.id \in DOMAIN book
            <7>1. DOMAIN book' = DOMAIN book \cup {LegId(row, side) : side \in Sides(row)}
              BY <1>4, RecordedIs DEF RecordsInv
            <7>2. \A side \in Sides(row) :
                    LegId(row, side) = LegIds[row.id][side] /\ side \in AllSides
              BY DEF LegId, Sides
            <7> QED
              BY <3>3, <6>2, <7>1, <7>2
          <6>4. ~(m \in Entries /\ Written(m))
            BY <1>4, <6>3, WrittenUnrecorded DEF RecordsInv
          <6>5. PICK r \in rows : m \in LegsAt(r, p[1])
            BY <1>1, <6>1, <6>4 DEF RecordsInv, BookInv, HistoriesExplained, Explained
          <6> QED
            BY <1>4, <6>5, LegFacts DEF RowsDated
        <5> QED
          BY <1>5, <3>1, <5>1, <5>2
      <4>2. T \subseteq M
        <5>1. T \ {m} = Preceding(N, m)
          BY <1>3, <3>1, SegmentEnds
        <5>2. \A e \in N : e.at \in Int
          BY <1>3 DEF Sortable
        <5> QED
          BY <2>4, <3>1, <4>1, <5>1, <5>2 DEF Preceding, Before, Moving
      <4>3. ~PoolRun(p, book', T).fails
        <5> HIDE DEF M, N
        <5> QED
          BY <1>3, <2>3, <2>5, <4>2, RunSticks
      <4> QED
        BY <3>1, <4>3
    <3> QED
      BY <3>2, <3>3
  <2> HIDE DEF F, N
  <2>8. \A T \in Segments(N) : {} \subseteq T => T \in F
    BY <1>3, <2>6, <2>7, NoneIsSegment, SegmentsFrom
  <2> QED
    BY <2>8 DEF F, N
<1> QED
  BY <1>6, <1>7

\* No step adds a pool to those whose transfers are of different dates.
LEMMA OrderedShrinks ==
  ASSUME \A r \in rows : \E s \in rows' : s.id = r.id /\ s.terms = r.terms /\ s.at = r.at,
         RowsDated
  PROVE  OrderedPools' \subseteq OrderedPools
<1> SUFFICES ASSUME NEW p \in OrderedPools', NEW r \in rows, NEW s \in rows,
                    p \in Touched(r) \cap Touched(s), r.at = s.at
             PROVE  r = s
  BY DEF OrderedPools, Touched
<1>1. PICK x \in rows' : x.id = r.id /\ x.terms = r.terms /\ x.at = r.at
  OBVIOUS
<1>2. PICK y \in rows' : y.id = s.id /\ y.terms = s.terms /\ y.at = s.at
  OBVIOUS
<1>3. x = y
  BY <1>1, <1>2 DEF OrderedPools, Touched
<1> QED
  BY <1>1, <1>2, <1>3 DEF RowsDated

LEMMA SettleKeepsRows ==
  ASSUME RowsDated, NEW row \in rows, NEW status, Settle(row, status)
  PROVE  \A r \in rows : \E s \in rows' : s.id = r.id /\ s.terms = r.terms /\ s.at = r.at
<1> DEFINE new == [row EXCEPT !.status = status]
<1>1. rows' = (rows \ {row}) \cup {new}
  BY DEF Settle
<1>2. new.id = row.id /\ new.terms = row.terms /\ new.at = row.at
  BY DEF RowsDated, BookRow
<1> HIDE DEF new
<1> QED
  BY <1>1, <1>2

LEMMA InitPools == BookInit => PoolsKept
<1> SUFFICES ASSUME BookInit PROVE PoolsKept
  OBVIOUS
<1>1. \A g \in Goals : \A k : Own(k, history[g]) = {}
  BY OwnIs DEF BookInit
<1>2. ASSUME NEW p \in Pools, NEW T \in Segments(Own(p[2], history[p[1]]))
      PROVE  Good(PoolRun(p, book, T)) /\ ~PoolRun(p, book, T).fails
  <2>1. T = {}
    BY <1>1 DEF Segments, Pools
  <2>2. Sortable({})
    BY FS_EmptySet DEF Sortable
  <2>3. PoolRun(p, book, T) = Opened(p)
    BY <2>1, <2>2, PoolRound
  <2> QED
    BY <2>3, OpeningIs DEF Opened
<1> QED
  BY <1>2, OrderedAreIn DEF PoolsKept, AlwaysGood, NeverFails

LEMMA RewriteStepKeepsPools ==
  ASSUME RecordsInv, RecordsInv', PoolsKept, NEW h \in Goals, RewriteStep(h)
  PROVE  PoolsKept'
<1>1. ASSUME NEW e \in Entries, Rewrite(h, {}, {e})
      PROVE  PoolsKept'
  BY <1>1, RewriteKeepsPools
<1>2. ASSUME NEW e \in Entries, Rewrite(h, {e}, {})
      PROVE  PoolsKept'
  BY <1>2, RewriteKeepsPools
<1>3. ASSUME NEW old \in Entries, NEW new \in Entries, Rewrite(h, {old}, {new})
      PROVE  PoolsKept'
  BY <1>3, RewriteKeepsPools
<1> QED
  BY <1>1, <1>2, <1>3 DEF RewriteStep

LEMMA ExecuteKeepsPools ==
  ASSUME RecordsInv, RecordsInv', PoolsKept, NEW row \in rows, Execute(row)
  PROVE  PoolsKept'
<1>1. Settle(row, "completed") /\ RowsDated
  BY DEF Execute, RecordsInv, BookInv
<1>2. OrderedPools' \subseteq OrderedPools
  BY <1>1, SettleKeepsRows, OrderedShrinks
<1> QED
  BY <1>2, ExecuteKeepsOrdered, ExecuteKeepsPositions DEF PoolsKept, AlwaysGood, NeverFails

\* The inductive invariant of the pools.
CostsInv == RecordsInv /\ PoolsKept

LEMMA CostsInvariant == BookSpec => []CostsInv
<1>1. RecordsInv /\ RecordsInv' /\ PoolsKept /\ [BookNext]_bookVars => PoolsKept'
  <2> SUFFICES ASSUME RecordsInv, RecordsInv', PoolsKept, [BookNext]_bookVars
               PROVE  PoolsKept'
    OBVIOUS
  <2>1. RowsDated
    BY DEF RecordsInv, BookInv
  <2>2. ASSUME history' = history, book' = book,
               \A r \in rows : \E s \in rows' : s.id = r.id /\ s.terms = r.terms /\ s.at = r.at
        PROVE  PoolsKept'
    <3>1. OrderedPools' \subseteq OrderedPools
      BY <2>1, <2>2, OrderedShrinks
    <3> QED
      BY <2>2, <3>1 DEF PoolsKept, AlwaysGood, NeverFails
  <2>3. CASE BookNext
    <3>1. ASSUME NEW i \in Ids, NEW terms \in Terms, Accept(i, terms)
          PROVE  PoolsKept'
      BY <2>2, <3>1 DEF Accept
    <3>2. ASSUME NEW row \in rows, Reject(row)
          PROVE  PoolsKept'
      BY <2>1, <2>2, <3>2, SettleKeepsRows DEF Reject
    <3>3. CASE Tick
      BY <2>2, <3>3 DEF Tick
    <3> QED
      BY <2>3, <3>1, <3>2, <3>3, RewriteStepKeepsPools, ExecuteKeepsPools DEF BookNext
  <2>4. CASE UNCHANGED bookVars
    BY <2>2, <2>4 DEF bookVars
  <2> QED
    BY <2>3, <2>4
<1> QED
  BY <1>1, InitPools, RecordsInvariant, PTL DEF BookSpec, CostsInv

\* No part of the loop over the entries of a pool ever throws.
LEMMA NoneFails ==
  ASSUME CostsInv, NEW p \in OrderedPools \cup (Goals \X Positions), Tracked(p)
  PROVE  NeverFails(p)
<1>1. p \in Pools
  BY OrderedAreIn
<1>2. CASE p \in OrderedPools
  <2>1. /\ Sortable(history[p[1]]) /\ Counted(history[p[1]])
        /\ Lawful(p[2], book, Own(p[2], history[p[1]])) /\ Covered(p, history[p[1]])
    BY <1>1, RecordsLawful DEF CostsInv, PoolsLawful
  <2>2. \A T \in Segments(Own(p[2], history[p[1]])) : Good(PoolRun(p, book, T))
    BY <1>2 DEF CostsInv, PoolsKept, AlwaysGood
  <2> QED
    BY <1>1, <2>1, <2>2, GoodCovered DEF NeverFails
<1>3. CASE p \in Goals \X Positions
  BY <1>3 DEF CostsInv, PoolsKept
<1> QED
  BY <1>2, <1>3

LEMMA PoolIsSegment ==
  ASSUME CostsInv, NEW p \in Pools, NEW t \in Int
  PROVE  /\ Pool(p, history[p[1]], book, t) = PoolRun(p, book, Moving(p[2], history[p[1]], t))
         /\ Moving(p[2], history[p[1]], t) \in Segments(Own(p[2], history[p[1]]))
<1>1. Sortable(history[p[1]])
  BY RecordsLawful DEF CostsInv, PoolsLawful
<1> QED
  BY <1>1, PoolIs, MovingSegment

\* The costs recorded with transfers are there when they are replayed: no
\* projection of a pool throws, of positions in whatever order transfers are
\* executed, of cash where they are in that of their dates.
THEOREM CostsStayPayable == BookSpec => []CostsProject
<1>1. CostsInv => CostsProject
  <2> SUFFICES ASSUME CostsInv, NEW p \in OrderedPools \cup (Goals \X Positions), Tracked(p)
               PROVE  ~Pool(p, history[p[1]], book, now).fails
    BY DEF CostsProject
  <2>1. p \in Pools /\ now \in Int
    BY OrderedAreIn DEF CostsInv, RecordsInv, BookInv, RowsDated
  <2> QED
    BY <2>1, NoneFails, PoolIsSegment DEF NeverFails
<1> QED
  BY <1>1, CostsInvariant, PTL

\* A pool without units has no cost left, whatever was rounded on the way, as
\* the commission takes all that the delivered part leaves of the total.
THEOREM EmptyPoolsAreFree == BookSpec => []EmptyPoolFree
<1>1. CostsInv => EmptyPoolFree
  <2> SUFFICES ASSUME CostsInv, NEW p \in OrderedPools,
                      Pool(p, history[p[1]], book, now).units = 0
               PROVE  Pool(p, history[p[1]], book, now).cost = 0
    BY DEF EmptyPoolFree
  <2>1. p \in Pools /\ now \in Int
    BY OrderedAreIn DEF CostsInv, RecordsInv, BookInv, RowsDated
  <2>2. Good(Pool(p, history[p[1]], book, now))
    BY <2>1, PoolIsSegment DEF CostsInv, PoolsKept, AlwaysGood
  <2> QED
    BY <2>2 DEF Good
<1> QED
  BY <1>1, CostsInvariant, PTL

-----------------------------------------------------------------------------
(* The positions of a summary.                                             *)

TradeRun(g, k, T) == Run(TradeLoop(Snapshot, g, k), InvestmentStart(g, k), T)

LEMMA TradeRound ==
  ASSUME NEW g, NEW k, NEW T, Sortable(T)
  PROVE  /\ T = {} => TradeRun(g, k, T) = InvestmentStart(g, k)
         /\ T # {} => LET acc == TradeRun(g, k, T \ {Latest(T)})
                          next == TradeRun(g, k, T)
                          e == Latest(T)
                      IN /\ next.pool = Project(k, book, acc.pool, e)
                         /\ next.average = Project(k, AverageValues(Snapshot, g), acc.average, e)
                         /\ next.basis = acc.basis + CostBasis(Snapshot, k, acc.pool, e)
<1> DEFINE a == TradeLoop(Snapshot, g, k)
<1>1. \A acc, e : Turn1(a, acc, e) =
        [pool |-> Project(k, book, acc.pool, e),
         average |-> Project(k, AverageValues(Snapshot, g), acc.average, e),
         basis |-> acc.basis + CostBasis(Snapshot, k, acc.pool, e)]
  <2>1. \A acc, e : Turn1(a, acc, e) = Trade(Snapshot, g, k, acc, e)
    BY DEF Turn1, TradeLoop
  <2>2. Snapshot.costs = book
    BY DEF Snapshot
  <2> HIDE DEF a
  <2> QED
    BY <2>1, <2>2 DEF Trade
<1> HIDE DEF a
<1>2. /\ T = {} => Run(a, InvestmentStart(g, k), T) = InvestmentStart(g, k)
      /\ T # {} => Run(a, InvestmentStart(g, k), T) =
                     Turn1(a, Run(a, InvestmentStart(g, k), T \ {Latest(T)}), Latest(T))
  BY RunRound
<1> QED
  BY <1>1, <1>2 DEF TradeRun, a

LEMMA InvestmentRun ==
  ASSUME NEW g, NEW k
  PROVE  Investment(Snapshot, g, k) = TradeRun(g, k, Own(k, history[g]))
<1>1. Snapshot.entries = history
  BY DEF Snapshot
<1> QED
  BY <1>1, InvestmentIs DEF TradeRun

\* The first projection of a position is that of its pool.
LEMMA TradePool ==
  ASSUME NEW g, NEW k, NEW S, Sortable(S)
  PROVE  \A T \in Segments(S) : TradeRun(g, k, T).pool = PoolRun(<<g, k>>, book, T)
<1> DEFINE F == {T \in SUBSET S : TradeRun(g, k, T).pool = PoolRun(<<g, k>>, book, T)}
<1>1. {} \in F
  <2>1. Sortable({})
    BY SubsetSorts
  <2> QED
    BY <2>1, TradeRound, PoolRound DEF InvestmentStart
<1>2. ASSUME NEW T \in Segments(S), Latest(T) \in T, T \ {Latest(T)} \in F
      PROVE  T \in F
  <2>1. T # {} /\ Sortable(T) /\ T \in SUBSET S
    BY <1>2, SegmentEnds DEF Segments
  <2>2. TradeRun(g, k, T \ {Latest(T)}).pool = PoolRun(<<g, k>>, book, T \ {Latest(T)})
    BY <1>2
  <2>3. <<g, k>>[2] = k
    OBVIOUS
  <2>4. TradeRun(g, k, T).pool = PoolRun(<<g, k>>, book, T)
    BY <2>1, <2>2, <2>3, TradeRound, PoolRound
  <2> QED
    BY <2>1, <2>4
<1> HIDE DEF F
<1>3. \A T \in Segments(S) : {} \subseteq T => T \in F
  BY <1>1, <1>2, NoneIsSegment, SegmentsFrom
<1> QED
  BY <1>3 DEF F

\* The average costs are recorded for every credit and for no debit.
LEMMA AverageIs ==
  ASSUME CostsInv, NEW g \in Goals, NEW k \in Positions, NEW e \in Own(k, history[g])
  PROVE  LET v == AverageValues(Snapshot, g)
         IN /\ LawfulEntry(k, v, e)
            /\ Debits(k, e) => e.id \notin DOMAIN v
<1> DEFINE v == AverageValues(Snapshot, g)
           C == {d \in history[g] : d.type \in {"asset_in", "buy"}}
<1>1. ~IsCash(k)
  BY KindsAssumption DEF IsCash
<1>2. v = [i \in {d.id : d \in C} |-> IF i \in DOMAIN book THEN book[i] ELSE Quoted[i]]
  BY DEF AverageValues, OfType, Snapshot
<1>3. e \in history[g] /\ BookInv /\ Sortable(history[g])
  BY OwnIs, HistoryCounted DEF CostsInv, RecordsInv
<1>4. \A i \in DOMAIN v : v[i] \in Nat
  <2> SUFFICES ASSUME NEW i \in DOMAIN v PROVE v[i] \in Nat
    OBVIOUS
  <2>1. PICK d \in C : d.id = i
    BY <1>2
  <2>2. d.id \in EntryIds
    BY <1>3, EntryFacts DEF BookInv
  <2>3. Quoted[i] \in Nat
    BY <2>1, <2>2, SummariesAssumption
  <2>4. i \in DOMAIN book => book[i] \in Nat
    BY DEF CostsInv, RecordsInv, CostsRecorded
  <2> HIDE DEF v
  <2> QED
    BY <1>2, <2>3, <2>4
<1>5. Size(k, e) \in Nat \ {0} /\ Worth[e.id] \in Nat
  BY <1>3, OwnSize, EntryFacts, CostsAssumption DEF BookInv
<1>6. ASSUME Debits(k, e), e.id \in DOMAIN v
      PROVE  FALSE
  <2>1. PICK d \in C : d.id = e.id
    BY <1>2, <1>6
  <2>2. d = e
    BY <1>3, <2>1 DEF Sortable
  <2>3. e.type \in AssetDebits
    BY <1>1, <1>6 DEF Debits
  <2> QED
    BY <2>1, <2>2, <2>3 DEF AssetDebits
<1> HIDE DEF v
<1> QED
  BY <1>4, <1>5, <1>6 DEF LawfulEntry, v

\* The second projection never throws where the first does not.
LEMMA AverageStands ==
  ASSUME CostsInv, NEW g \in Goals, NEW k \in Positions
  PROVE  \A T \in Segments(Own(k, history[g])) : ~TradeRun(g, k, T).average.fails
<1> DEFINE p == <<g, k>>
           S == Own(k, history[g])
           v == AverageValues(Snapshot, g)
           Stands(T) == LET x == TradeRun(g, k, T).average
                        IN Whole(x) /\ ~x.fails /\ x.units = PoolRun(p, book, T).units
           F == {T \in SUBSET S : Stands(T)}
<1>1. p \in Pools /\ p \in Goals \X Positions /\ p[1] = g /\ p[2] = k
  BY DEF Pools
<1>2. Sortable(S)
  BY <1>1, RecordsLawful DEF CostsInv, PoolsLawful
<1>3. \A T \in Segments(S) : ~PoolRun(p, book, T).fails /\ Whole(PoolRun(p, book, T))
  <2>1. NeverFails(p)
    BY <1>1 DEF CostsInv, PoolsKept
  <2> HIDE DEF p
  <2> QED
    BY <1>1, <2>1, HistoryWhole DEF NeverFails, CostsInv, RecordsInv
<1>4. {} \in F
  <2>1. Sortable({})
    BY <1>2, SubsetSorts
  <2>2. TradeRun(g, k, {}).average = [Opened(p) EXCEPT !.cost = OpeningQuoted[g][k]]
    BY <2>1, TradeRound DEF InvestmentStart
  <2>3. PoolRun(p, book, {}) = Opened(p)
    BY <2>1, PoolRound
  <2>4. Opening[g][k] \in Nat /\ OpeningQuoted[g][k] \in Nat
    BY GoalsAssumption, SummariesAssumption
  <2>5. TradeRun(g, k, {}).average =
          [units |-> Opening[g][k], cost |-> OpeningQuoted[g][k], fails |-> FALSE]
    BY <1>1, <2>2, <2>4 DEF Opened
  <2>6. PoolRun(p, book, {}).units = Opening[g][k]
    BY <1>1, <2>3 DEF Opened
  <2> DEFINE x == [units |-> Opening[g][k], cost |-> OpeningQuoted[g][k], fails |-> FALSE]
  <2>7. x \in [units: Int, cost: Int, fails: BOOLEAN] /\ ~x.fails
    BY <2>4
  <2>8. x.units = Opening[g][k] /\ x.units \in Nat /\ x.cost \in Nat
    BY <2>4
  <2> HIDE DEF p, x
  <2>9. Stands({})
    BY <2>5, <2>6, <2>7, <2>8 DEF Whole, x
  <2> QED
    BY <2>9
<1>5. ASSUME NEW T \in Segments(S), Latest(T) \in T, T \ {Latest(T)} \in F
      PROVE  T \in F
  <2> DEFINE e == Latest(T)
             R == T \ {e}
             x == TradeRun(g, k, R).average
             y == TradeRun(g, k, T).average
             before == PoolRun(p, book, R)
             after == PoolRun(p, book, T)
             n == Size(k, e)
  <2>1. T # {} /\ Sortable(T) /\ T \in SUBSET S /\ e \in S /\ R \in Segments(S)
    BY <1>2, <1>5, SegmentEnds DEF Segments
  <2>2. Whole(x) /\ ~x.fails /\ x.units = before.units
    BY <1>5
  <2>3. y = Project(k, v, x, e)
    BY <2>1, TradeRound
  <2>4. after = Project(k, book, before, e)
    BY <1>1, <2>1, PoolRound
  <2>5. LawfulEntry(k, v, e) /\ (Debits(k, e) => e.id \notin DOMAIN v)
    BY <2>1, AverageIs
  <2>6. LawfulEntry(k, book, e) /\ (Credits(k, e) \/ Debits(k, e))
    BY <2>1, HistoryLawful, OwnIs DEF Lawful, CostsInv, RecordsInv
  <2>7. /\ ~before.fails /\ Whole(before) /\ ~after.fails /\ Whole(after)
        /\ before.units \in Nat /\ after.units \in Nat
    BY <1>3, <2>1 DEF Whole
  <2> HIDE DEF p, S, v, x, y, before, after, e
  <2>8. /\ y \in [units: Int, cost: Int, fails: BOOLEAN]
        /\ y.fails <=> y.units < 0 \/ y.cost < 0
        /\ Credits(k, e) => y.units = x.units + n /\ y.cost = x.cost + Part(k, v, x, e)
        /\ ~Credits(k, e) => y.units = x.units - n
    BY <2>2, <2>3, <2>5, ProjectMoves
  <2>9. /\ Credits(k, e) => after.units = before.units + n
        /\ ~Credits(k, e) => after.units = before.units - n
    BY <2>4, <2>6, <2>7, ProjectMoves
  <2>10. y.units = after.units
    BY <2>2, <2>8, <2>9
  <2>11. ~y.fails
    <3>1. CASE Credits(k, e)
      <4>1. Part(k, v, x, e) \in Nat /\ x.cost \in Nat
        BY <2>2, <2>5, PartType DEF Whole
      <4>2. ~(y.cost < 0) /\ ~(y.units < 0)
        BY <2>7, <2>8, <2>10, <3>1, <4>1
      <4> QED
        BY <2>8, <4>2
    <3>2. CASE Debits(k, e)
      <4>1. Solvent(y)
        BY <2>2, <2>3, <2>5, <3>2, UnrecordedIsSafe
      <4>2. ~(y.units < 0)
        BY <2>7, <2>10
      <4> QED
        BY <4>1, <4>2 DEF Solvent
    <3> QED
      BY <2>6, <3>1, <3>2
  <2>12. Whole(y)
    BY <2>2, <2>3, <2>5, ProjectKeepsWhole
  <2>13. Stands(T)
    BY <2>10, <2>11, <2>12 DEF y, after
  <2> QED
    BY <2>1, <2>13
<1> HIDE DEF F, S
<1>6. \A T \in Segments(S) : {} \subseteq T => T \in F
  BY <1>2, <1>4, <1>5, NoneIsSegment, SegmentsFrom
<1> QED
  BY <1>6 DEF F, S

\* A goal that moved cash by a transfer is not overdrawn.
LEMMA NotOverdrawn ==
  ASSUME CostsInv, NEW g \in Goals, CashInOrder(g), TracksCash(g, history[g])
  PROVE  ~Overdrawn(Snapshot, g)
<1> SUFFICES ASSUME NEW k \in CashAccounts PROVE ~CashPool(Snapshot, g, k).fails
  BY DEF Overdrawn
<1> DEFINE p == <<g, k>>
<1>1. p \in OrderedPools /\ p[1] = g /\ p[2] = k /\ MaxTime \in Int
  BY BookAssumption DEF CashInOrder
<1> HIDE DEF p
<1>2. Tracked(p) /\ p \in Pools
  BY <1>1, OrderedAreIn DEF Tracked
<1>3. ~Pool(p, history[g], book, MaxTime).fails
  BY <1>1, <1>2, NoneFails, PoolIsSegment DEF NeverFails
<1> QED
  BY <1>3 DEF CashPool, Snapshot, EndOfTime, p

\* The summary of a goal does not fail, where its transfers of cash run in the
\* order of their dates: cash is not overdrawn once transfers move it, and the
\* average costs, projected apart, stay payable as long as the units are there.
THEOREM SummariesStand == BookSpec => []SummaryStands
<1>1. CostsInv => SummaryStands
  <2> SUFFICES ASSUME CostsInv, NEW g \in Goals, CashInOrder(g), SummaryFails(Snapshot, g)
               PROVE  FALSE
    BY DEF SummaryStands
  <2>1. CASE Overdrawn(Snapshot, g) /\ OfType(Snapshot, g, CashLegs) # {}
    <3>1. TracksCash(g, history[g])
      BY <2>1 DEF TracksCash, OfType, Snapshot
    <3> QED
      BY <2>1, <3>1, NotOverdrawn
  <2>2. ASSUME NEW k \in Positions
        PROVE  ~Investment(Snapshot, g, k).pool.fails /\ ~Investment(Snapshot, g, k).average.fails
    <3> DEFINE p == <<g, k>>
               S == Own(k, history[g])
    <3>1. p \in Goals \X Positions /\ p \in Pools /\ p[1] = g /\ p[2] = k
      BY DEF Pools
    <3>2. Sortable(S)
      BY <3>1, RecordsLawful DEF CostsInv, PoolsLawful
    <3>3. TradeRun(g, k, S).pool = PoolRun(p, book, S)
      BY <3>2, AllIsSegment, TradePool
    <3>4. ~PoolRun(p, book, S).fails
      <4>1. NeverFails(p)
        BY <3>1 DEF CostsInv, PoolsKept
      <4> HIDE DEF p
      <4> QED
        BY <3>1, <4>1, AllIsSegment DEF NeverFails
    <3> QED
      BY <3>3, <3>4, AllIsSegment, AverageStands, InvestmentRun
  <2> QED
    BY <2>1, <2>2 DEF SummaryFails
<1> QED
  BY <1>1, CostsInvariant, PTL

-----------------------------------------------------------------------------
(* The sums of a summary.                                                  *)

\* The sums of the community modules are totals.
LEMMA SetSumIsTotal ==
  ASSUME NEW w, NEW T
  PROVE  SumFunctionOnSet(w, T) = Total(w, T)
<1> DEFINE Chosen(f) == f = [s \in SUBSET T |-> IF s = {} THEN 0
                           ELSE LET x == CHOOSE x \in s : TRUE IN w[x] + f[s \ {x}]]
<1>1. SumFunctionOnSet(w, T) = (CHOOSE f : Chosen(f))[T]
  BY DEF SumFunctionOnSet, FoldFunctionOnSet, MapThenFoldSet
<1>2. \A f : Chosen(f) <=> IsSum(w, T, f)
  BY DEF IsSum, Round, Pick
<1> HIDE DEF Chosen
<1> QED
  BY <1>1, <1>2 DEF Total

LEMMA SumIsTotalOf ==
  ASSUME NEW w, NEW T, w = [x \in T |-> w[x]]
  PROVE  SumFunction(w) = Total(w, T)
<1>1. DOMAIN w = T
  OBVIOUS
<1> QED
  BY <1>1, SetSumIsTotal DEF SumFunction

LEMMA TotalPlus ==
  ASSUME NEW T, IsFiniteSet(T), NEW a, NEW b, NEW c,
         \A x \in T : a[x] \in Int /\ b[x] \in Int /\ c[x] = a[x] + b[x]
  PROVE  Total(c, T) = Total(a, T) + Total(b, T)
<1> DEFINE Adds(u) == Total(c, u) = Total(a, u) + Total(b, u)
           F == {u \in SUBSET T : ~Adds(u)}
<1> SUFFICES ASSUME ~Adds(T) PROVE FALSE
  OBVIOUS
<1>1. F \in SUBSET SUBSET T /\ F # {}
  OBVIOUS
<1>2. PICK u \in F : \A v \in F : v \subseteq u => v = u
  <2> HIDE DEF F
  <2> QED
    BY <1>1, LeastSubset
<1>3. u \in SUBSET T /\ IsFiniteSet(u) /\ ~Adds(u)
  BY <1>2, FS_Subset
<1>4. u # {}
  <2>1. u = {} => Total(a, u) = 0 /\ Total(b, u) = 0 /\ Total(c, u) = 0
    BY <1>3, TotalRound
  <2> QED
    BY <1>3, <2>1
<1> DEFINE x == Pick(u)
           v == u \ {x}
<1>5. x \in u /\ v \in SUBSET u /\ v # u /\ IsFiniteSet(v)
  BY <1>3, <1>4, PickIn, FS_Subset
<1>6. /\ Total(a, u) = a[x] + Total(a, v)
      /\ Total(b, u) = b[x] + Total(b, v)
      /\ Total(c, u) = c[x] + Total(c, v)
  BY <1>3, <1>4, TotalRound
<1>7. Adds(v)
  BY <1>2, <1>3, <1>5
<1> HIDE DEF x, v
<1>8. /\ a[x] \in Int /\ b[x] \in Int /\ c[x] = a[x] + b[x]
      /\ \A e \in v : a[e] \in Int /\ b[e] \in Int
  BY <1>3, <1>5
<1>9. Total(a, v) \in Int /\ Total(b, v) \in Int
  BY <1>5, <1>8, TotalIsInt
<1> QED
  BY <1>3, <1>6, <1>7, <1>8, <1>9

\* What some part of the set adds up to, when one more joins.
LEMMA PartOfMore ==
  ASSUME NEW w, NEW T, IsFiniteSet(T), NEW x \in T, NEW A, \A e \in T : w[e] \in Int
  PROVE  /\ Total(w, (T \ {x}) \cap A) \in Int
         /\ x \in A => Total(w, T \cap A) = w[x] + Total(w, (T \ {x}) \cap A)
         /\ x \notin A => Total(w, T \cap A) = Total(w, (T \ {x}) \cap A)
<1>1. /\ IsFiniteSet(T \cap A) /\ IsFiniteSet((T \ {x}) \cap A)
      /\ \A e \in T \cap A : w[e] \in Int
      /\ \A e \in (T \ {x}) \cap A : w[e] \in Int
  BY FS_Subset
<1>2. Total(w, (T \ {x}) \cap A) \in Int
  BY <1>1, TotalIsInt
<1>3. CASE x \in A
  <2>1. x \in T \cap A /\ (T \cap A) \ {x} = (T \ {x}) \cap A
    BY <1>3
  <2>2. Total(w, T \cap A) = w[x] + Total(w, (T \cap A) \ {x})
    BY <1>1, <2>1, TotalRemove
  <2> QED
    BY <1>2, <1>3, <2>1, <2>2
<1>4. CASE x \notin A
  <2>1. T \cap A = (T \ {x}) \cap A
    BY <1>4
  <2> QED
    BY <1>2, <1>4, <2>1
<1> QED
  BY <1>3, <1>4

\* A sum over two sets without common members.
LEMMA TotalOfBoth ==
  ASSUME NEW w, NEW A, NEW B, IsFiniteSet(A), IsFiniteSet(B), A \cap B = {},
         \A x \in A \cup B : w[x] \in Int
  PROVE  Total(w, A \cup B) = Total(w, A) + Total(w, B)
<1> DEFINE Adds(u) == Total(w, A \cup u) = Total(w, A) + Total(w, u)
           F == {u \in SUBSET B : ~Adds(u)}
<1> SUFFICES ASSUME ~Adds(B) PROVE FALSE
  OBVIOUS
<1>1. F \in SUBSET SUBSET B /\ F # {}
  OBVIOUS
<1>2. PICK u \in F : \A v \in F : v \subseteq u => v = u
  <2> HIDE DEF F
  <2> QED
    BY <1>1, LeastSubset
<1>3. u \in SUBSET B /\ IsFiniteSet(u) /\ IsFiniteSet(A \cup u) /\ ~Adds(u)
  BY <1>2, FS_Subset, FS_Union
<1>0. Total(w, A) \in Int
  BY TotalIsInt
<1>4. PICK x \in u : TRUE
  <2> SUFFICES ASSUME u = {} PROVE FALSE
    OBVIOUS
  <2>1. Total(w, u) = 0 /\ A \cup u = A
    BY <1>3, TotalRound
  <2>2. Total(w, A \cup u) = Total(w, A)
    BY <2>1
  <2> QED
    BY <1>0, <1>3, <2>1, <2>2
<1> DEFINE v == u \ {x}
<1>5. /\ v \in SUBSET u /\ v # u /\ IsFiniteSet(v) /\ (A \cup u) \ {x} = A \cup v
      /\ x \in A \cup u
  BY <1>3, <1>4, FS_Subset
<1>6. /\ \A e \in A \cup u : w[e] \in Int
      /\ \A e \in u : w[e] \in Int
      /\ \A e \in v : w[e] \in Int
  BY <1>3
<1>7. /\ Total(w, u) = w[x] + Total(w, v)
      /\ Total(w, A \cup u) = w[x] + Total(w, (A \cup u) \ {x})
  BY <1>3, <1>5, <1>6, TotalRemove
<1>8. Total(w, A \cup v) = Total(w, A) + Total(w, v)
  BY <1>2, <1>3, <1>5
<1>9. Total(w, v) \in Int
  BY <1>5, <1>6, TotalIsInt
<1>10. w[x] \in Int
  BY <1>4, <1>6
<1>11. Total(w, A \cup u) = w[x] + Total(w, A \cup v)
  BY <1>5, <1>7
<1> HIDE DEF v
<1>12. Total(w, A \cup u) = Total(w, A) + Total(w, u)
  BY <1>0, <1>7, <1>8, <1>9, <1>10, <1>11
<1> QED
  BY <1>3, <1>12

Having(key, S, c) == {e \in S : key[e] = c}

\* A sum over a set is the sum over its classes.
LEMMA TotalByClass ==
  ASSUME NEW w, NEW S, IsFiniteSet(S), \A e \in S : w[e] \in Int,
         NEW C, IsFiniteSet(C), NEW key, \A e \in S : key[e] \in C
  PROVE  Total([c \in C |-> Total(w, Having(key, S, c))], C) = Total(w, S)
<1> DEFINE By(T) == [c \in C |-> Total(w, Having(key, T, c))]
           Adds(T) == Total(By(T), C) = Total(w, T)
           F == {T \in SUBSET S : ~Adds(T)}
<1> SUFFICES ASSUME ~Adds(S) PROVE FALSE
  OBVIOUS
<1>1. F \in SUBSET SUBSET S /\ F # {}
  OBVIOUS
<1>2. PICK T \in F : \A v \in F : v \subseteq T => v = T
  <2> HIDE DEF F
  <2> QED
    BY <1>1, LeastSubset
<1>3. T \in SUBSET S /\ IsFiniteSet(T) /\ ~Adds(T)
  BY <1>2, FS_Subset
<1>4. \A U \in SUBSET S : \A c \in C : By(U)[c] = Total(w, Having(key, U, c)) /\ By(U)[c] \in Int
  <2> SUFFICES ASSUME NEW U \in SUBSET S, NEW c \in C
               PROVE  By(U)[c] = Total(w, Having(key, U, c)) /\ By(U)[c] \in Int
    OBVIOUS
  <2>1. IsFiniteSet(Having(key, U, c)) /\ \A e \in Having(key, U, c) : w[e] \in Int
    BY FS_Subset DEF Having
  <2> QED
    BY <2>1, TotalIsInt
<1>5. T # {}
  <2> SUFFICES ASSUME T = {} PROVE FALSE
    OBVIOUS
  <2>1. \A c \in C : By({})[c] = 0
    <3>1. \A c : Having(key, {}, c) = {}
      BY DEF Having
    <3>2. Total(w, {}) = 0
      BY FS_EmptySet, TotalRound
    <3> QED
      BY <3>1, <3>2
  <2> DEFINE b == By({})
  <2>2. \A c \in C : b[c] \in Int /\ b[c] = b[c] + b[c]
    BY <2>1
  <2> HIDE DEF b
  <2>3. Total(b, C) = Total(b, C) + Total(b, C) /\ Total(b, C) \in Int
    BY <2>2, TotalPlus, TotalIsInt
  <2>4. Total(w, {}) = 0
    BY FS_EmptySet, TotalRound
  <2>5. Total(b, C) = 0
    <3> DEFINE n == Total(b, C)
    <3>1. n \in Int /\ n = n + n
      BY <2>3
    <3> HIDE DEF n
    <3>2. n = 0
      BY <3>1
    <3> QED
      BY <3>2 DEF n
  <2>6. b = By({})
    BY DEF b
  <2> HIDE DEF By
  <2> QED
    BY <1>3, <2>4, <2>5, <2>6
<1>6. PICK x \in T : TRUE
  BY <1>5
<1> DEFINE U == T \ {x}
           d == key[x]
           b == By(T)
           a == By(U)
<1>7. U \in SUBSET S /\ U \subseteq T /\ U # T /\ IsFiniteSet(U) /\ d \in C
  BY <1>3, <1>6, FS_Subset
<1>8. Adds(U)
  BY <1>2, <1>7
<1>9. Total(w, T) = w[x] + Total(w, U) /\ w[x] \in Int
  BY <1>3, <1>6, TotalRemove
<1>10. \A c \in C : c # d => b[c] = a[c]
  <2>1. \A c \in C : c # d => Having(key, T, c) = Having(key, U, c)
    BY DEF Having
  <2> QED
    BY <2>1
<1>11. b[d] = w[x] + a[d]
  <2>1. IsFiniteSet(Having(key, T, d)) /\ \A e \in Having(key, T, d) : w[e] \in Int
    BY <1>3, FS_Subset DEF Having
  <2>2. x \in Having(key, T, d) /\ Having(key, T, d) \ {x} = Having(key, U, d)
    BY <1>6 DEF Having
  <2>3. Total(w, Having(key, T, d)) = w[x] + Total(w, Having(key, T, d) \ {x})
    <3> HIDE DEF d
    <3> QED
      BY <2>1, <2>2, TotalRemove
  <2> QED
    BY <1>7, <2>2, <2>3
<1>12. \A c \in C : a[c] \in Int /\ b[c] \in Int
  BY <1>3, <1>4, <1>7
<1>13. Total(b, C) = Total(w, T) <=> Adds(T)
  OBVIOUS
<1>14. Total(a, C) = Total(w, U)
  BY <1>8
<1> HIDE DEF a, b, d, U, Adds, By
<1>15. /\ Total(b, C) = b[d] + Total(b, C \ {d})
       /\ Total(a, C) = a[d] + Total(a, C \ {d})
  BY <1>7, <1>12, TotalRemove
<1>16. IsFiniteSet(C \ {d}) /\ \A c \in C \ {d} : a[c] \in Int /\ b[c] = a[c]
  BY <1>10, <1>12, FS_Subset
<1>17. Total(b, C \ {d}) = Total(a, C \ {d}) /\ Total(a, C \ {d}) \in Int
  BY <1>16, TotalOfEqual, TotalIsInt
<1>18. a[d] \in Int
  BY <1>7, <1>12
<1>19. Total(b, C) = Total(w, T)
  BY <1>9, <1>11, <1>14, <1>15, <1>17, <1>18
<1> QED
  BY <1>3, <1>13, <1>19

-----------------------------------------------------------------------------
(* The platforms of a goal.                                                *)

Costs(g) == [k \in CashAccounts |-> CashCost(Snapshot, g, k)]
Stakes(g) == [k \in Positions |-> Invested(Snapshot, g, k)]

LEMMA PoolCosts ==
  ASSUME CostsInv, NEW g \in Goals
  PROVE  /\ \A k \in CashAccounts : CashPool(Snapshot, g, k).cost \in Int
         /\ \A k \in Positions : Invested(Snapshot, g, k) \in Int
<1>1. ASSUME NEW k \in CashAccounts
      PROVE  CashPool(Snapshot, g, k).cost \in Int
  <2> DEFINE p == <<g, k>>
  <2>1. p \in Pools /\ p[1] = g /\ p[2] = k /\ MaxTime \in Int
    BY BookAssumption DEF Pools
  <2> HIDE DEF p
  <2>2. Whole(Pool(p, history[g], book, MaxTime))
    BY <2>1, PoolIsSegment, HistoryWhole DEF CostsInv, RecordsInv
  <2> QED
    BY <2>2 DEF Whole, CashPool, Snapshot, EndOfTime, p
<1>2. ASSUME NEW k \in Positions
      PROVE  Invested(Snapshot, g, k) \in Int
  <2> DEFINE p == <<g, k>>
             S == Own(k, history[g])
  <2>1. p \in Pools /\ p[1] = g /\ p[2] = k
    BY DEF Pools
  <2>2. Sortable(S)
    BY <2>1, RecordsLawful DEF CostsInv, PoolsLawful
  <2>3. Whole(PoolRun(p, book, S))
    <3> HIDE DEF p
    <3> QED
      BY <2>1, AllIsSegment, HistoryWhole DEF CostsInv, RecordsInv
  <2>4. Investment(Snapshot, g, k).pool = PoolRun(p, book, S)
    BY <2>2, AllIsSegment, TradePool, InvestmentRun
  <2> QED
    BY <2>3, <2>4 DEF Whole, Invested
<1> QED
  BY <1>1, <1>2

\* What the entries of a goal are worth, and its sums.
Values(E) == [e \in E |-> Worth[e.id]]

LEMMA WorthIs ==
  ASSUME CostsInv, NEW g \in Goals, NEW E \in SUBSET history[g]
  PROVE  /\ WorthOf(E) = Total(Values(history[g]), E)
         /\ IsFiniteSet(E) /\ \A e \in E : Values(history[g])[e] \in Int
         /\ Total(Values(history[g]), E) \in Int
<1>1. IsFiniteSet(E) /\ BookInv
  BY HistoryCounted, FS_Subset DEF CostsInv, RecordsInv, Sortable
<1>2. \A e \in E : Worth[e.id] \in Int
  BY <1>1, EntryFacts, CostsAssumption DEF BookInv
<1>3. WorthOf(E) = Total(Values(E), E)
  <2> DEFINE w == Values(E)
  <2>1. w = [e \in E |-> w[e]]
    BY DEF Values
  <2>2. WorthOf(E) = SumFunction(w)
    BY DEF WorthOf, Values
  <2> HIDE DEF w
  <2>3. WorthOf(E) = Total(w, E)
    BY <2>1, <2>2, SumIsTotalOf
  <2> QED
    BY <2>3 DEF w
<1>4. \A e \in E : Values(E)[e] = Values(history[g])[e] /\ Values(history[g])[e] \in Int
  BY <1>2 DEF Values
<1>5. Total(Values(E), E) = Total(Values(history[g]), E)
  BY <1>1, <1>4, TotalOfEqual
<1> QED
  BY <1>1, <1>3, <1>4, <1>5, TotalIsInt

\* The rates of one account, and of all of them.
InOf(E, k) == {e \in E : e.cash = k /\ e.type \in {"contribution", "sell"}}
OutOf(E, k) == {e \in E : e.cash = k /\ e.type \in {"withdrawal", "buy"}}

LEMMA AddedIs ==
  ASSUME NEW k, NEW E, NEW w, DOMAIN w = E
  PROVE  Added(k, w) = Total(w, InOf(E, k)) - Total(w, OutOf(E, k))
BY SetSumIsTotal DEF Added, InOf, OutOf

LEMMA EntryCash ==
  ASSUME CostsInv, NEW g \in Goals, NEW e \in history[g],
         e.type \in MovementTypes \cup OperationTypes
  PROVE  e.cash \in CashAccounts
<1>1. e.type \notin LegTypes
  BY DEF MovementTypes, OperationTypes, LegTypes, CashLegs, AssetLegs
<1>2. e \in Entries /\ Written(e)
  BY <1>1, EntryFacts DEF CostsInv, RecordsInv, BookInv
<1> QED
  BY <1>2, WrittenFacts

\* What the entries of some types are worth, account by account.
LEMMA WorthByAccount ==
  ASSUME CostsInv, NEW g \in Goals, NEW types, types \subseteq MovementTypes \cup OperationTypes
  PROVE  LET w == Values(history[g])
             Of(k) == {e \in history[g] : e.cash = k /\ e.type \in types}
         IN /\ Total([k \in CashAccounts |-> Total(w, Of(k))], CashAccounts)
                 = Total(w, {e \in history[g] : e.type \in types})
            /\ \A k \in CashAccounts : Total(w, Of(k)) \in Int
<1> DEFINE w == Values(history[g])
           S == {e \in history[g] : e.type \in types}
           key == [e \in S |-> e.cash]
           Of(k) == {e \in history[g] : e.cash = k /\ e.type \in types}
<1>1. S \in SUBSET history[g] /\ \A e \in S : key[e] \in CashAccounts
  BY EntryCash
<1>2. \A k : Of(k) = Having(key, S, k) /\ Of(k) \in SUBSET history[g]
  BY DEF Having
<1>3. IsFiniteSet(CashAccounts)
  BY SummariesAssumption
<1> HIDE DEF S, key, Of, w
<1>4. IsFiniteSet(S) /\ \A e \in S : w[e] \in Int
  BY <1>1, WorthIs DEF w
<1>5. \A k \in CashAccounts : Total(w, Of(k)) \in Int
  BY <1>2, WorthIs DEF w
<1>6. Total([k \in CashAccounts |-> Total(w, Having(key, S, k))], CashAccounts) = Total(w, S)
  BY <1>1, <1>3, <1>4, TotalByClass
<1>7. [k \in CashAccounts |-> Total(w, Having(key, S, k))] = [k \in CashAccounts |-> Total(w, Of(k))]
  BY <1>2
<1>8. Total([k \in CashAccounts |-> Total(w, Of(k))], CashAccounts) = Total(w, S)
  BY <1>6, <1>7
<1> QED
  BY <1>5, <1>8 DEF S, Of, w

\* The cash of a goal is that of its accounts.
LEMMA CashAddsUp ==
  ASSUME CostsInv, NEW g \in Goals
  PROVE  /\ \A k \in CashAccounts : Costs(g)[k] \in Int
         /\ Total(Costs(g), CashAccounts) = CashValue(Snapshot, g)
<1>0. IsFiniteSet(CashAccounts) /\ Snapshot.entries = history
  BY SummariesAssumption DEF Snapshot
<1>1. CASE ~Overdrawn(Snapshot, g)
  <2> DEFINE w == [k \in CashAccounts |-> CashPool(Snapshot, g, k).cost]
  <2>1. CashValue(Snapshot, g) = SumFunction(w)
    BY <1>1 DEF CashValue
  <2>2. Costs(g) = w
    BY <1>1 DEF Costs, CashCost
  <2>3. \A k \in CashAccounts : w[k] \in Int
    BY PoolCosts
  <2>4. w = [k \in CashAccounts |-> w[k]]
    OBVIOUS
  <2> HIDE DEF w
  <2>5. SumFunction(w) = Total(w, CashAccounts)
    BY <2>4, SumIsTotalOf
  <2> QED
    BY <2>1, <2>2, <2>3, <2>5
<1>2. CASE Overdrawn(Snapshot, g)
  <2> DEFINE E == history[g]
             w == Values(E)
             c == Costs(g)
             o == OpeningCost[g]
             in == [k \in CashAccounts |-> Total(w, InOf(E, k))]
             out == [k \in CashAccounts |-> Total(w, OutOf(E, k))]
             both == [k \in CashAccounts |-> o[k] + in[k]]
             In(types) == {e \in E : e.type \in types}
  <2>1. /\ {"contribution", "sell"} \subseteq MovementTypes \cup OperationTypes
        /\ {"withdrawal", "buy"} \subseteq MovementTypes \cup OperationTypes
    BY DEF MovementTypes, OperationTypes
  <2>2. /\ Total(in, CashAccounts) = Total(w, In({"contribution", "sell"}))
        /\ \A k \in CashAccounts : in[k] \in Int
    BY <2>1, WorthByAccount DEF InOf
  <2>3. /\ Total(out, CashAccounts) = Total(w, In({"withdrawal", "buy"}))
        /\ \A k \in CashAccounts : out[k] \in Int
    BY <2>1, WorthByAccount DEF OutOf
  <2>4. \A k \in CashAccounts : o[k] \in Int
    BY CostsAssumption
  <2>5. \A k \in CashAccounts : c[k] = o[k] + (in[k] - out[k])
    <3>1. DOMAIN w = E /\ w = [e \in E |-> Worth[e.id]]
      BY DEF Values
    <3> SUFFICES ASSUME NEW k \in CashAccounts PROVE c[k] = o[k] + (in[k] - out[k])
      OBVIOUS
    <3>2. c[k] = o[k] + Added(k, w)
      BY <1>0, <1>2, <3>1 DEF Costs, CashCost
    <3>3. Added(k, w) = Total(w, InOf(E, k)) - Total(w, OutOf(E, k))
      <4> HIDE DEF w, E
      <4> QED
        BY <3>1, AddedIs
    <3> QED
      BY <3>2, <3>3
  <2> HIDE DEF in, out, o, c
  <2>6. \A k \in CashAccounts : c[k] \in Int /\ both[k] = o[k] + in[k] /\ both[k] \in Int
    BY <2>2, <2>3, <2>4, <2>5
  <2> HIDE DEF both
  <2>7. Total(both, CashAccounts) = Total(o, CashAccounts) + Total(in, CashAccounts)
    BY <1>0, <2>2, <2>4, <2>6, TotalPlus
  <2>8. \A k \in CashAccounts : both[k] = c[k] + out[k]
    BY <2>2, <2>3, <2>4, <2>5, <2>6
  <2>9. Total(both, CashAccounts) = Total(c, CashAccounts) + Total(out, CashAccounts)
    BY <1>0, <2>3, <2>6, <2>8, TotalPlus
  <2>10. /\ In({"contribution", "sell"}) = In({"contribution"}) \cup In({"sell"})
         /\ In({"withdrawal", "buy"}) = In({"withdrawal"}) \cup In({"buy"})
         /\ In({"contribution"}) \cap In({"sell"}) = {}
         /\ In({"withdrawal"}) \cap In({"buy"}) = {}
         /\ \A types : In(types) \in SUBSET E
    OBVIOUS
  <2>11. CashValue(Snapshot, g) =
           SumFunctionOnSet(o, CashAccounts)
             + (WorthOf(In({"contribution"})) - WorthOf(In({"withdrawal"})))
             - WorthOf(In({"buy"})) + WorthOf(In({"sell"}))
    BY <1>0, <1>2 DEF CashValue, NetContributions, OfType, o
  <2>12. SumFunctionOnSet(o, CashAccounts) = Total(o, CashAccounts)
    BY SetSumIsTotal
  <2> HIDE DEF In
  <2>13. \A types : /\ WorthOf(In(types)) = Total(w, In(types)) /\ Total(w, In(types)) \in Int
                    /\ IsFiniteSet(In(types)) /\ \A e \in In(types) : w[e] \in Int
    BY <2>10, WorthIs
  <2> HIDE DEF w
  <2>14. Total(w, In({"contribution"}) \cup In({"sell"})) =
           Total(w, In({"contribution"})) + Total(w, In({"sell"}))
    BY <2>10, <2>13, TotalOfBoth
  <2>15. Total(w, In({"withdrawal"}) \cup In({"buy"})) =
           Total(w, In({"withdrawal"})) + Total(w, In({"buy"}))
    BY <2>10, <2>13, TotalOfBoth
  <2>16. /\ Total(c, CashAccounts) \in Int /\ Total(o, CashAccounts) \in Int
         /\ Total(in, CashAccounts) \in Int /\ Total(out, CashAccounts) \in Int
    BY <1>0, <2>2, <2>3, <2>4, <2>6, TotalIsInt
  <2>17. Total(c, CashAccounts) = CashValue(Snapshot, g)
    <3> DEFINE contributed == Total(w, In({"contribution"}))
               sold == Total(w, In({"sell"}))
               withdrawn == Total(w, In({"withdrawal"}))
               bought == Total(w, In({"buy"}))
               oc == Total(o, CashAccounts)
               cc == Total(c, CashAccounts)
               ins == Total(in, CashAccounts)
               outs == Total(out, CashAccounts)
    <3>1. contributed \in Int /\ sold \in Int /\ withdrawn \in Int /\ bought \in Int
      BY <2>13
    <3>2. oc + ins = cc + outs
      BY <2>7, <2>9
    <3>3. ins = contributed + sold /\ outs = withdrawn + bought
      BY <2>2, <2>3, <2>10, <2>14, <2>15
    <3>4. CashValue(Snapshot, g) = oc + (contributed - withdrawn) - bought + sold
      BY <2>11, <2>12, <2>13
    <3>5. oc \in Int /\ cc \in Int /\ ins \in Int /\ outs \in Int
      BY <2>16
    <3> HIDE DEF contributed, sold, withdrawn, bought, oc, cc, ins, outs
    <3>6. cc = CashValue(Snapshot, g)
      BY <3>1, <3>2, <3>3, <3>4, <3>5
    <3> QED
      BY <3>6 DEF cc
  <2>18. c = Costs(g)
    BY DEF c
  <2> QED
    BY <2>6, <2>17, <2>18
<1> QED
  BY <1>1, <1>2

\* The platforms add up to the book value.
LEMMA PlatformsAddUp ==
  ASSUME CostsInv, NEW g \in Goals
  PROVE  SumFunction([p \in Platforms |-> PlatformValue(Snapshot, g, p)]) =
           GoalBookValue(Snapshot, g)
<1> DEFINE c == Costs(g)
           i == Stakes(g)
           all == [p \in Platforms |-> PlatformValue(Snapshot, g, p)]
           cash == [p \in Platforms |-> Total(c, Having(PlatformOf, CashAccounts, p))]
           held == [p \in Platforms |-> Total(i, Having(PlatformOf, Positions, p))]
<1>1. /\ IsFiniteSet(CashAccounts) /\ IsFiniteSet(Positions) /\ IsFiniteSet(Platforms)
      /\ \A k \in CashAccounts \cup Positions : PlatformOf[k] \in Platforms
  <2> DEFINE K == CashAccounts \cup Positions
             f == [k \in K |-> PlatformOf[k]]
  <2>1. IsFiniteSet(K)
    BY SummariesAssumption, FS_Union
  <2>2. f \in Surjection(K, Platforms)
    BY DEF Surjection, Platforms
  <2>3. IsFiniteSet(Platforms)
    BY <2>1, <2>2, FS_Surjection
  <2> QED
    BY <2>3, SummariesAssumption DEF Platforms
<1>2. /\ \A k \in CashAccounts : c[k] \in Int
      /\ \A k \in Positions : i[k] \in Int
      /\ i = [k \in Positions |-> i[k]]
  BY CashAddsUp, PoolCosts DEF Stakes
<1>3. ASSUME NEW p \in Platforms
      PROVE  cash[p] \in Int /\ held[p] \in Int /\ all[p] = cash[p] + held[p]
  <2> DEFINE A == Having(PlatformOf, CashAccounts, p)
             B == Having(PlatformOf, Positions, p)
             ca == [k \in A |-> CashCost(Snapshot, g, k)]
             ib == [k \in B |-> Invested(Snapshot, g, k)]
  <2>1. /\ IsFiniteSet(A) /\ IsFiniteSet(B)
        /\ A \subseteq CashAccounts /\ B \subseteq Positions
    BY <1>1, FS_Subset DEF Having
  <2>2. all[p] = SumFunction(ca) + SumFunction(ib)
    BY DEF PlatformValue, Having
  <2>3. /\ ca = [k \in A |-> ca[k]] /\ ib = [k \in B |-> ib[k]]
        /\ \A k \in A : ca[k] = c[k]
        /\ \A k \in B : ib[k] = i[k]
    BY <2>1 DEF Costs, Stakes
  <2> HIDE DEF ca, ib, A, B, c, i, all
  <2>4. SumFunction(ca) = Total(ca, A) /\ SumFunction(ib) = Total(ib, B)
    BY <2>3, SumIsTotalOf
  <2>5. Total(ca, A) = Total(c, A) /\ Total(ib, B) = Total(i, B)
    BY <2>1, <2>3, TotalOfEqual
  <2>6. Total(c, A) \in Int /\ Total(i, B) \in Int
    BY <1>2, <2>1, TotalIsInt
  <2> QED
    BY <2>2, <2>4, <2>5, <2>6 DEF A, B
<1>4. /\ Total(cash, Platforms) = Total(c, CashAccounts)
      /\ Total(held, Platforms) = Total(i, Positions)
  <2> HIDE DEF c, i
  <2> QED
    BY <1>1, <1>2, TotalByClass
<1>5. all = [p \in Platforms |-> all[p]]
  OBVIOUS
<1>6. SumFunction(i) = Total(i, Positions)
  <2> HIDE DEF i
  <2> QED
    BY <1>2, SumIsTotalOf
<1>7. GoalBookValue(Snapshot, g) = CashValue(Snapshot, g) + SumFunction(i)
  BY DEF GoalBookValue, Stakes
<1>8. Total(c, CashAccounts) = CashValue(Snapshot, g)
  BY CashAddsUp
<1> HIDE DEF all, cash, held, c, i
<1>9. SumFunction(all) = Total(all, Platforms)
  BY <1>5, SumIsTotalOf
<1>10. Total(all, Platforms) = Total(cash, Platforms) + Total(held, Platforms)
  BY <1>1, <1>3, TotalPlus
<1>11. SumFunction(all) = GoalBookValue(Snapshot, g)
  BY <1>4, <1>6, <1>7, <1>8, <1>9, <1>10
<1> QED
  BY <1>11 DEF all

-----------------------------------------------------------------------------
(* The balances of a summary are those of the ledger.                      *)

ClockBounded == now <= MaxTime

LEMMA ClockInvariant == BookSpec => []ClockBounded
<1>1. BookInit => ClockBounded
  BY BookAssumption DEF BookInit, ClockBounded
<1>2. ClockBounded /\ BookInv /\ [BookNext]_bookVars => ClockBounded'
  <2> SUFFICES ASSUME ClockBounded, BookInv, [BookNext]_bookVars PROVE ClockBounded'
    OBVIOUS
  <2>1. now \in Nat /\ MaxTime \in Nat
    BY BookAssumption DEF BookInv, RowsDated
  <2>2. now' = now \/ (now < MaxTime /\ now' = now + 1)
    <3>1. ASSUME NEW g \in Goals, RewriteStep(g) PROVE now' = now
      BY <3>1 DEF RewriteStep, Rewrite
    <3>2. ASSUME NEW i, NEW terms, Accept(i, terms) PROVE now' = now
      BY <3>2 DEF Accept
    <3>3. ASSUME NEW row, Execute(row) \/ Reject(row) PROVE now' = now
      BY <3>3 DEF Execute, Reject
    <3>4. CASE Tick
      BY <3>4 DEF Tick
    <3>5. CASE UNCHANGED bookVars
      BY <3>5 DEF bookVars
    <3> QED
      BY <3>1, <3>2, <3>3, <3>4, <3>5 DEF BookNext
  <2> QED
    BY <2>1, <2>2 DEF ClockBounded
<1> QED
  BY <1>1, <1>2, BookInvariant, PTL DEF BookSpec

\* Every entry is in the past of the summary.
LEMMA AllIsMoving ==
  ASSUME BookInv, ClockBounded, NEW g \in Goals, NEW k
  PROVE  Moving(k, history[g], MaxTime) = Own(k, history[g])
<1> SUFFICES ASSUME NEW e \in Own(k, history[g]) PROVE e.at <= MaxTime
  BY DEF Moving
<1>1. e \in history[g] /\ Explained(g, e)
  BY OwnIs DEF BookInv, HistoriesExplained
<1>2. CASE e \in Entries
  BY <1>2, SummariesAssumption
<1>3. ASSUME NEW row \in rows, e \in LegsAt(row, g)
      PROVE  e.at <= MaxTime
  <2>1. e.at = row.at /\ row.at \in Nat /\ row.at <= now
    BY <1>3, LegFacts, RowFacts DEF BookInv, RowsDated
  <2>2. now \in Nat /\ MaxTime \in Nat
    BY BookAssumption DEF BookInv, RowsDated
  <2> QED
    BY <2>1, <2>2 DEF ClockBounded
<1> QED
  BY <1>1, <1>2, <1>3 DEF Explained

\* Only what counts for the account counts.
LEMMA BalanceOfOwn ==
  ASSUME NEW g, NEW k, IsCash(k), NEW E
  PROVE  Balance(g, k, Own(k, E)) = CashBalance(g, k, E)
<1>1. /\ {e \in Own(k, E) : e["cash"] = k /\ e.type \in CashCredits}
           = {e \in E : e["cash"] = k /\ e.type \in CashCredits}
      /\ {e \in Own(k, E) : e["cash"] = k /\ e.type \in CashDebits}
           = {e \in E : e["cash"] = k /\ e.type \in CashDebits}
  BY DEF Own, CreditsTo, DebitsFrom
<1>2. CashBalance(g, k, Own(k, E)) = CashBalance(g, k, E)
  <2>1. \A o : Net(o, "cash", "amount", k, CashCredits, CashDebits, Own(k, E)) =
               Net(o, "cash", "amount", k, CashCredits, CashDebits, E)
    BY <1>1 DEF Net
  <2> QED
    BY <2>1, BalancesAreNet
<1> QED
  BY <1>2 DEF Balance

LEMMA ProjectedUnits ==
  ASSUME CostsInv, ClockBounded, NEW g \in Goals, NEW k \in CashAccounts,
         ~CashPool(Snapshot, g, k).fails
  PROVE  CashPool(Snapshot, g, k).units = CashBalance(g, k, history[g])
<1> DEFINE p == <<g, k>>
<1>1. p \in Pools /\ p[1] = g /\ p[2] = k /\ MaxTime \in Int /\ IsCash(k)
  BY BookAssumption DEF Pools, IsCash
<1>2. CashPool(Snapshot, g, k) = Pool(p, history[g], book, MaxTime)
  BY DEF CashPool, Snapshot, EndOfTime
<1> HIDE DEF p
<1>3. Pool(p, history[g], book, MaxTime) = PoolRun(p, book, Own(k, history[g]))
  BY <1>1, PoolIsSegment, AllIsMoving DEF CostsInv, RecordsInv
<1>4. Sortable(history[g]) /\ Counted(history[g]) /\ Lawful(k, book, Own(k, history[g]))
  BY <1>1, RecordsLawful DEF CostsInv, PoolsLawful
<1>5. PoolRun(p, book, Own(k, history[g])).units = Balance(g, k, Own(k, history[g]))
  BY <1>1, <1>2, <1>3, <1>4, AllIsSegment, UnitsAreBalance
<1> QED
  BY <1>1, <1>2, <1>3, <1>5, BalanceOfOwn

\* The balance of an overdrawn account, entry by entry.
LEMMA AddedUnits ==
  ASSUME CostsInv, NEW g \in Goals, NEW k \in CashAccounts, ~TracksCash(g, history[g])
  PROVE  Opening[g][k] + Added(k, [e \in history[g] |-> e.amount]) = CashBalance(g, k, history[g])
<1> DEFINE E == history[g]
           w == [e \in E |-> e.amount]
           In == {e \in E : e.cash = k /\ e.type \in CashCredits}
           Out == {e \in E : e.cash = k /\ e.type \in CashDebits}
<1>1. \A e \in E : e.type \notin {"cash_in", "cash_out", "cash_fee"}
  BY DEF TracksCash, CashLegs
<1>2. In = InOf(E, k) /\ Out = OutOf(E, k)
  BY <1>1 DEF InOf, OutOf, CashCredits, CashDebits
<1>3. Sortable(E) /\ Counted(E)
  BY HistoryCounted DEF CostsInv, RecordsInv
<1>4. IsFiniteSet(In) /\ IsFiniteSet(Out) /\ In \in SUBSET E /\ Out \in SUBSET E
  BY <1>3, FS_Subset DEF Sortable
<1>5. Opening[g][k] \in Int
  BY GoalsAssumption
<1>6. Added(k, w) = Total(w, In) - Total(w, Out)
  <2> HIDE DEF E
  <2>1. DOMAIN w = E
    OBVIOUS
  <2> HIDE DEF w, In, Out
  <2> QED
    BY <1>2, <2>1, AddedIs
<1>7. CashBalance(g, k, E) = Opening[g][k] + SumOf("amount", In) - SumOf("amount", Out)
  <2>1. /\ In = {e \in E : e["cash"] = k /\ e.type \in CashCredits}
        /\ Out = {e \in E : e["cash"] = k /\ e.type \in CashDebits}
    OBVIOUS
  <2> HIDE DEF In, Out
  <2>2. Net(Opening[g][k], "cash", "amount", k, CashCredits, CashDebits, E) =
          Opening[g][k] + SumOf("amount", In) - SumOf("amount", Out)
    BY <2>1 DEF Net
  <2> QED
    BY <2>2, BalancesAreNet
<1>8. ASSUME NEW T \in SUBSET E, IsFiniteSet(T)
      PROVE  SumOf("amount", T) = Total(w, T) /\ Total(w, T) \in Int
  <2> DEFINE v == [e \in T |-> e["amount"]]
  <2>1. SumOf("amount", T) = Total(v, T)
    BY <1>8, SumIsTotal
  <2>2. \A e \in T : v[e] = w[e] /\ w[e] \in Int
    BY <1>3 DEF Counted
  <2> HIDE DEF v, w
  <2>3. Total(v, T) = Total(w, T) /\ Total(w, T) \in Int
    BY <1>8, <2>2, TotalOfEqual, TotalIsInt
  <2> QED
    BY <2>1, <2>3
<1>9. Opening[g][k] + Added(k, w) = CashBalance(g, k, E)
  <2> HIDE DEF w, In, Out
  <2>1. /\ SumOf("amount", In) = Total(w, In) /\ SumOf("amount", Out) = Total(w, Out)
        /\ Total(w, In) \in Int /\ Total(w, Out) \in Int
    BY <1>4, <1>8
  <2> QED
    BY <1>5, <1>6, <1>7, <2>1
<1> QED
  BY <1>9

LEMMA BalancesStand ==
  ASSUME CostsInv, ClockBounded, NEW g \in Goals, CashInOrder(g), NEW k \in CashAccounts
  PROVE  CashUnits(Snapshot, g, k) = CashBalance(g, k, history[g])
<1>1. CASE Overdrawn(Snapshot, g)
  <2>1. ~TracksCash(g, history[g])
    BY <1>1, NotOverdrawn
  <2>2. CashUnits(Snapshot, g, k) = Opening[g][k] + Added(k, [e \in history[g] |-> e.amount])
    BY <1>1 DEF CashUnits, Snapshot
  <2> QED
    BY <2>1, <2>2, AddedUnits
<1>2. CASE ~Overdrawn(Snapshot, g)
  <2>1. ~CashPool(Snapshot, g, k).fails
    BY <1>2 DEF Overdrawn
  <2> QED
    BY <1>2, <2>1, ProjectedUnits DEF CashUnits
<1> QED
  BY <1>1, <1>2

-----------------------------------------------------------------------------
(* The cost of a position.                                                 *)

\* What is recorded of an entry, nothing if it is no leg.
Carries(S) == [e \in S |-> IF e.id \in DOMAIN book THEN book[e.id] ELSE 0]

Typed(S, types) == {e \in S : e.type \in types}

\* What brought cost to the position, what left with it, and the sales' part.
AddsUp(g, k, T) ==
  LET S == Own(k, history[g])
      acc == TradeRun(g, k, T)
  IN /\ OpeningCost[g][k] + Total(Values(S), T \cap Typed(S, {"buy"}))
           + Total(Carries(S), T \cap Typed(S, {"asset_in"}))
         = acc.pool.cost + acc.basis
             + Total(Carries(S), T \cap Typed(S, {"asset_out", "asset_fee"}))
     /\ acc.basis \in Int

\* The part of one entry.
LEMMA EntryPart ==
  ASSUME CostsInv, NEW g \in Goals, NEW k \in Positions, NEW e \in Own(k, history[g]),
         NEW pool
  PROVE  /\ e.type \in {"buy", "sell", "asset_in", "asset_out", "asset_fee"}
         /\ Credits(k, e) <=> e.type \in {"buy", "asset_in"}
         /\ e.type = "buy" => Part(k, book, pool, e) = Worth[e.id]
         /\ e.type = "sell" => Part(k, book, pool, e) = CostBasis(Snapshot, k, pool, e)
         /\ e.type # "sell" => CostBasis(Snapshot, k, pool, e) = 0
         /\ e.type \in {"asset_in", "asset_out", "asset_fee"} =>
              /\ e.id \in DOMAIN book
              /\ Part(k, book, pool, e) = book[e.id]
         /\ Worth[e.id] \in Nat
         /\ e.id \in DOMAIN book => book[e.id] \in Nat
<1>1. ~IsCash(k) /\ e \in history[g] /\ (Credits(k, e) \/ Debits(k, e))
  BY OwnIs, KindsAssumption DEF IsCash
<1>2. /\ e.type \in {"buy", "sell", "asset_in", "asset_out", "asset_fee"}
      /\ Credits(k, e) <=> e.type \in {"buy", "asset_in"}
  BY <1>1 DEF Credits, Debits, AssetCredits, AssetDebits
<1>3. LawfulEntry(k, book, e)
  BY HistoryLawful DEF Lawful, CostsInv, RecordsInv
<1>4. ASSUME e.type \in {"buy", "sell"}
      PROVE  e.id \notin DOMAIN book
  <2>1. e.type \notin LegTypes
    BY <1>4 DEF LegTypes, CashLegs, AssetLegs
  <2>2. e \in Entries
    BY <1>1, <2>1, EntryFacts DEF CostsInv, RecordsInv, BookInv
  <2> QED
    BY <2>2, WrittenUnrecorded DEF CostsInv, RecordsInv, BookInv
<1>5. ASSUME e.type \in {"asset_in", "asset_out", "asset_fee"}
      PROVE  e.id \in DOMAIN book
  <2>1. e.type \in LegTypes
    BY <1>5 DEF LegTypes, AssetLegs
  <2> QED
    BY <1>1, <2>1 DEF CostsInv, RecordsInv, CostsRecorded
<1>6. Size(k, e) = e.quantity
  BY <1>1 DEF Size
<1>7. e.type = "sell" => Part(k, book, pool, e) = CostBasis(Snapshot, k, pool, e)
  BY <1>2, <1>4, <1>6 DEF Part, CostBasis
<1> QED
  BY <1>2, <1>3, <1>4, <1>5, <1>7 DEF Part, CostBasis, LawfulEntry

LEMMA CostsAlong ==
  ASSUME CostsInv, NEW g \in Goals, NEW k \in Positions
  PROVE  AddsUp(g, k, Own(k, history[g]))
<1> DEFINE p == <<g, k>>
           S == Own(k, history[g])
           w == Values(S)
           c == Carries(S)
           B == Typed(S, {"buy"})
           I == Typed(S, {"asset_in"})
           D == Typed(S, {"asset_out", "asset_fee"})
           o == OpeningCost[g][k]
           F == {T \in SUBSET S : AddsUp(g, k, T)}
<1>1. p \in Pools /\ p \in Goals \X Positions /\ p[1] = g /\ p[2] = k
  BY DEF Pools
<1>2. Sortable(S) /\ IsFiniteSet(S)
  BY <1>1, RecordsLawful DEF CostsInv, PoolsLawful, Sortable
<1>3. \A T \in Segments(S) : ~PoolRun(p, book, T).fails /\ Whole(PoolRun(p, book, T))
  <2>1. NeverFails(p)
    BY <1>1 DEF CostsInv, PoolsKept
  <2> HIDE DEF p
  <2> QED
    BY <1>1, <2>1, HistoryWhole DEF NeverFails, CostsInv, RecordsInv
<1>4. \A e \in S : w[e] = Worth[e.id] /\ w[e] \in Int /\ c[e] \in Int
  BY EntryPart DEF Values, Carries
<1>5. o \in Int
  BY CostsAssumption
<1>6. {} \in F
  <2>1. Sortable({})
    BY <1>2, SubsetSorts
  <2>2. TradeRun(g, k, {}).pool = Opened(p) /\ TradeRun(g, k, {}).basis = 0
    BY <2>1, TradeRound DEF InvestmentStart
  <2>3. \A v, A : Total(v, {} \cap A) = 0
    <3>1. \A v : Total(v, {}) = 0
      BY FS_EmptySet, TotalRound
    <3>2. \A A : {} \cap A = {}
      OBVIOUS
    <3> QED
      BY <3>1, <3>2
  <2>4. Opened(p).cost = o
    BY DEF Opened
  <2>5. AddsUp(g, k, {})
    <3> HIDE DEF p
    <3> QED
      BY <1>5, <2>2, <2>3, <2>4 DEF AddsUp
  <2> QED
    BY <2>5
<1>7. ASSUME NEW T \in Segments(S), Latest(T) \in T, T \ {Latest(T)} \in F
      PROVE  T \in F
  <2> DEFINE e == Latest(T)
             R == T \ {e}
             x == TradeRun(g, k, R)
             y == TradeRun(g, k, T)
             n == Part(k, book, x.pool, e)
             b == CostBasis(Snapshot, k, x.pool, e)
  <2>1. T # {} /\ Sortable(T) /\ T \in SUBSET S /\ e \in S /\ R \in Segments(S)
    BY <1>2, <1>7, SegmentEnds DEF Segments
  <2>2. y.pool = Project(k, book, x.pool, e) /\ y.basis = x.basis + b
    BY <2>1, TradeRound
  <2>3. ~x.pool.fails /\ Whole(x.pool)
    BY <1>2, <1>3, <2>1, TradePool
  <2>4. LawfulEntry(k, book, e)
    BY <2>1, HistoryLawful DEF Lawful, CostsInv, RecordsInv
  <2>5. AddsUp(g, k, R) /\ x.basis \in Int /\ x.pool.cost \in Int
    BY <1>7, <2>3 DEF AddsUp, Whole
  <2>6. IsFiniteSet(T) /\ e \in T /\ \A d \in T : w[d] \in Int /\ c[d] \in Int
    BY <1>2, <1>4, <1>7, <2>1, FS_Subset
  <2>7. n \in Nat
    BY <2>3, <2>4, PartType
  <2>8. /\ Credits(k, e) => y.pool.cost = x.pool.cost + n
        /\ ~Credits(k, e) => y.pool.cost = x.pool.cost - n
    <3> HIDE DEF x, y, e
    <3> QED
      BY <2>2, <2>3, <2>4, ProjectMoves
  <2>9. \A A : /\ Total(w, R \cap A) \in Int
               /\ e \in A => Total(w, T \cap A) = w[e] + Total(w, R \cap A)
               /\ e \notin A => Total(w, T \cap A) = Total(w, R \cap A)
    <3> HIDE DEF w, c, e
    <3> QED
      BY <2>6, PartOfMore
  <2>10. \A A : /\ Total(c, R \cap A) \in Int
                /\ e \in A => Total(c, T \cap A) = c[e] + Total(c, R \cap A)
                /\ e \notin A => Total(c, T \cap A) = Total(c, R \cap A)
    <3> HIDE DEF w, c, e
    <3> QED
      BY <2>6, PartOfMore
  <2>11. /\ e.type \in {"buy", "sell", "asset_in", "asset_out", "asset_fee"}
         /\ Credits(k, e) <=> e.type \in {"buy", "asset_in"}
         /\ e.type = "buy" => n = w[e] /\ b = 0
         /\ e.type = "sell" => n = b
         /\ e.type \in {"asset_in", "asset_out", "asset_fee"} => n = c[e] /\ b = 0
    BY <1>4, <2>1, EntryPart DEF Carries
  <2>12. /\ e \in B <=> e.type = "buy"
         /\ e \in I <=> e.type = "asset_in"
         /\ e \in D <=> e.type \in {"asset_out", "asset_fee"}
    BY <2>1 DEF Typed
  <2>13. /\ o + Total(w, R \cap B) + Total(c, R \cap I)
              = x.pool.cost + x.basis + Total(c, R \cap D)
    BY <2>5 DEF AddsUp
  <2> HIDE DEF n, b, x, y, w, c, B, I, D, o, e
  <2>14. /\ o + Total(w, T \cap B) + Total(c, T \cap I)
              = y.pool.cost + y.basis + Total(c, T \cap D)
         /\ y.basis \in Int
    <3> DEFINE tb == Total(w, R \cap B)
               ti == Total(c, R \cap I)
               td == Total(c, R \cap D)
    <3>1. tb \in Int /\ ti \in Int /\ td \in Int /\ o + tb + ti = x.pool.cost + x.basis + td
      BY <2>9, <2>10, <2>13
    <3>2. /\ Total(w, T \cap B) = IF e \in B THEN w[e] + tb ELSE tb
          /\ Total(c, T \cap I) = IF e \in I THEN c[e] + ti ELSE ti
          /\ Total(c, T \cap D) = IF e \in D THEN c[e] + td ELSE td
      BY <2>9, <2>10
    <3> HIDE DEF tb, ti, td
    <3>3. CASE e.type = "buy"
      BY <1>5, <2>2, <2>5, <2>7, <2>8, <2>11, <2>12, <3>1, <3>2, <3>3
    <3>4. CASE e.type = "sell"
      BY <1>5, <2>2, <2>5, <2>7, <2>8, <2>11, <2>12, <3>1, <3>2, <3>4
    <3>5. CASE e.type = "asset_in"
      BY <1>5, <2>2, <2>5, <2>7, <2>8, <2>11, <2>12, <3>1, <3>2, <3>5
    <3>6. CASE e.type \in {"asset_out", "asset_fee"}
      BY <1>5, <2>2, <2>5, <2>7, <2>8, <2>11, <2>12, <3>1, <3>2, <3>6
    <3> QED
      BY <2>11, <3>3, <3>4, <3>5, <3>6
  <2>15. AddsUp(g, k, T)
    BY <2>14 DEF AddsUp, y, w, c, B, I, D, o
  <2> QED
    BY <2>1, <2>15
<1> HIDE DEF F, S
<1>8. \A T \in Segments(S) : {} \subseteq T => T \in F
  BY <1>2, <1>6, <1>7, NoneIsSegment, SegmentsFrom
<1>9. S \in F
  BY <1>8, AllIsSegment
<1> QED
  BY <1>9 DEF F, S

-----------------------------------------------------------------------------
(* The figures of a summary.                                               *)

LEMMA PositionsAccounted ==
  ASSUME CostsInv, NEW g \in Goals, NEW k \in Positions, <<g, k>> \in OrderedPools
  PROVE  CostsAccounted(Snapshot, g, k)
<1> DEFINE p == <<g, k>>
           S == Own(k, history[g])
           acc == TradeRun(g, k, S)
           Of(types) == {e \in OfType(Snapshot, g, types) : e.asset = k}
           counted == AssetCredits \cup AssetDebits
<1>1. p \in Pools /\ p \in OrderedPools /\ p[1] = g /\ p[2] = k /\ ~IsCash(k)
  BY KindsAssumption DEF Pools, IsCash
<1>2. Sortable(S) /\ IsFiniteSet(S)
  BY <1>1, RecordsLawful DEF CostsInv, PoolsLawful, Sortable
<1>3. acc.pool = PoolRun(p, book, S) /\ Investment(Snapshot, g, k) = acc
  BY <1>2, AllIsSegment, TradePool, InvestmentRun
<1>4. Good(acc.pool)
  <2>1. AlwaysGood(p)
    BY <1>1 DEF CostsInv, PoolsKept
  <2> HIDE DEF p, acc
  <2> QED
    BY <1>1, <1>3, <2>1, AllIsSegment DEF AlwaysGood
<1>5. Invested(Snapshot, g, k) = acc.pool.cost
  <2> HIDE DEF acc
  <2> QED
    BY <1>3, <1>4 DEF Invested, Good
<1>6. \A types \in SUBSET counted : Of(types) = S \cap Typed(S, types) /\ Of(types) \in SUBSET S
  <2>1. S = {e \in history[g] : e.asset = k /\ e.type \in counted}
    BY <1>1 DEF Own, CreditsTo, DebitsFrom
  <2>2. Snapshot.entries = history
    BY DEF Snapshot
  <2> HIDE DEF S, counted
  <2> QED
    BY <2>1, <2>2 DEF OfType, Typed
<1>7. /\ {"buy"} \in SUBSET counted /\ {"asset_in"} \in SUBSET counted
      /\ {"asset_out", "asset_fee"} \in SUBSET counted
  BY DEF AssetCredits, AssetDebits
<1>8. WorthOf(Of({"buy"})) = Total(Values(S), Of({"buy"}))
  <2> DEFINE X == Of({"buy"})
             v == [e \in X |-> Worth[e.id]]
  <2>1. X \in SUBSET S
    BY <1>6, <1>7
  <2>2. WorthOf(X) = SumFunction(v) /\ v = [e \in X |-> v[e]]
    BY DEF WorthOf
  <2>3. IsFiniteSet(X) /\ \A e \in X : v[e] = Values(S)[e]
    BY <1>2, <2>1, FS_Subset DEF Values
  <2> HIDE DEF X, v
  <2>4. WorthOf(X) = Total(Values(S), X)
    BY <2>2, <2>3, SumIsTotalOf, TotalOfEqual
  <2> QED
    BY <2>4 DEF X
<1>9. ASSUME NEW types \in SUBSET {"asset_in", "asset_out", "asset_fee"}, types \in SUBSET counted
      PROVE  Carried(Snapshot, Of(types)) = Total(Carries(S), Of(types))
  <2> DEFINE X == Of(types)
             v == [e \in X |-> book[e.id]]
  <2>1. X \in SUBSET S /\ \A e \in X : e.type \in types
    BY <1>6, <1>9 DEF OfType
  <2>2. Carried(Snapshot, X) = SumFunction(v) /\ v = [e \in X |-> v[e]]
    BY DEF Carried, Snapshot
  <2>3. IsFiniteSet(X)
    BY <1>2, <2>1, FS_Subset
  <2>4. \A e \in X : e \in S /\ e.id \in DOMAIN book
    BY <2>1, <1>9, EntryPart
  <2>5. \A e \in X : v[e] = Carries(S)[e]
    <3> HIDE DEF S, X
    <3> QED
      BY <2>4 DEF Carries
  <2> HIDE DEF X, v
  <2>6. Carried(Snapshot, X) = Total(Carries(S), X)
    BY <2>2, <2>3, <2>5, SumIsTotalOf, TotalOfEqual
  <2> QED
    BY <2>6 DEF X
<1>10. /\ Carried(Snapshot, Of({"asset_in"})) = Total(Carries(S), Of({"asset_in"}))
       /\ Carried(Snapshot, Of({"asset_out", "asset_fee"}))
            = Total(Carries(S), Of({"asset_out", "asset_fee"}))
  <2> HIDE DEF Of, S, counted
  <2> QED
    BY <1>7, <1>9
<1>11. OpeningCost[g][k] + Total(Values(S), S \cap Typed(S, {"buy"}))
         + Total(Carries(S), S \cap Typed(S, {"asset_in"}))
       = acc.pool.cost + acc.basis
           + Total(Carries(S), S \cap Typed(S, {"asset_out", "asset_fee"}))
  BY CostsAlong DEF AddsUp
<1>12. OpeningCost[g][k] + WorthOf(Of({"buy"})) + Carried(Snapshot, Of({"asset_in"}))
         = Invested(Snapshot, g, k) + Investment(Snapshot, g, k).basis
             + Carried(Snapshot, Of({"asset_out", "asset_fee"}))
  <2> HIDE DEF Of, S, counted, acc
  <2> QED
    BY <1>3, <1>5, <1>6, <1>7, <1>8, <1>10, <1>11
<1> QED
  BY <1>12 DEF CostsAccounted

\* The figures of a summary agree: those of the platforms with the book value,
\* however cash was computed, the balances with the ledger's, and what each
\* position cost with what is invested, sold and sent away, where its transfers
\* run in the order of their dates.
THEOREM SummariesAddUp == BookSpec => []SummaryAddsUp
<1>1. CostsInv /\ ClockBounded => SummaryAddsUp
  BY PlatformsAddUp, BalancesStand, PositionsAccounted DEF SummaryAddsUp
<1> QED
  BY <1>1, CostsInvariant, ClockInvariant, PTL

-----------------------------------------------------------------------------
(* Sums of which one part grows and another falls.                         *)

\* n at a alone, and the sum of that.
Only(x, a, n) == IF x = a THEN n ELSE 0
Within(a, S, n) == IF a \in S THEN n ELSE 0

LEMMA TotalOfOne ==
  ASSUME NEW S, IsFiniteSet(S), NEW a, NEW n \in Int
  PROVE  Total([x \in S |-> Only(x, a, n)], S) = Within(a, S, n)
<1> DEFINE w == [x \in S |-> Only(x, a, n)]
           R == S \ {a}
<1>1. (\A x \in S : w[x] \in Int) /\ (\A x \in R : w[x] = 0) /\ (a \in S => w[a] = n)
  BY DEF Only
<1>2. IsFiniteSet(R) /\ R \subseteq S
  BY FS_Subset
<1> HIDE DEF w
<1>3. Total(w, R) = 0
  <2> DEFINE t == Total(w, R)
  <2>1. \A x \in R : w[x] \in Int /\ w[x] = w[x] + w[x]
    BY <1>1
  <2> HIDE DEF R
  <2>2. Total(w, R) = Total(w, R) + Total(w, R) /\ Total(w, R) \in Int
    BY <1>2, <2>1, TotalPlus, TotalIsInt
  <2>3. t \in Int /\ t = t + t
    BY <2>2
  <2> HIDE DEF t
  <2>4. t = 0
    BY <2>3
  <2> QED
    BY <2>4 DEF t
<1>4. CASE a \in S
  <2>1. Total(w, S) = w[a] + Total(w, R)
    BY <1>1, <1>4, TotalRemove
  <2> QED
    BY <1>1, <1>3, <1>4, <2>1 DEF w, Within
<1>5. CASE a \notin S
  <2>1. R = S
    BY <1>5
  <2>2. Total(w, S) = 0
    BY <1>3, <2>1
  <2> QED
    BY <1>5, <2>2 DEF w, Within
<1> QED
  BY <1>4, <1>5

\* n leaves at a and c comes in at b.
LEMMA TotalShift ==
  ASSUME NEW S, IsFiniteSet(S), NEW v, NEW w, \A x \in S : v[x] \in Int /\ w[x] \in Int,
         NEW a, NEW b, NEW n \in Int, NEW c \in Int,
         \A x \in S : w[x] + Only(x, a, n) = v[x] + Only(x, b, c)
  PROVE  Total(w, S) + Within(a, S, n) = Total(v, S) + Within(b, S, c)
<1> DEFINE out == [x \in S |-> Only(x, a, n)]
           in == [x \in S |-> Only(x, b, c)]
           sum == [x \in S |-> w[x] + out[x]]
<1>1. /\ \A x \in S : w[x] \in Int /\ out[x] \in Int /\ sum[x] = w[x] + out[x]
      /\ \A x \in S : v[x] \in Int /\ in[x] \in Int /\ sum[x] = v[x] + in[x]
  BY DEF Only
<1>2. Total(out, S) = Within(a, S, n) /\ Total(in, S) = Within(b, S, c)
  BY TotalOfOne
<1> HIDE DEF out, in, sum
<1>3. Total(sum, S) = Total(w, S) + Total(out, S) /\ Total(sum, S) = Total(v, S) + Total(in, S)
  BY <1>1, TotalPlus
<1> QED
  BY <1>2, <1>3

-----------------------------------------------------------------------------
(* The book value of the portfolio, account by account.                    *)

Accounts == CashAccounts \cup Positions

At(p) == Having(PlatformOf, Accounts, p)

OnPlatforms(V) ==
  [p \in Platforms |-> Total([g \in Goals |-> Total(V[g], At(p))], Goals)]

LEMMA PlatformsFinite ==
  /\ IsFiniteSet(Goals) /\ IsFiniteSet(Accounts) /\ IsFiniteSet(Platforms)
  /\ \A k \in Accounts : PlatformOf[k] \in Platforms
<1> DEFINE f == [k \in Accounts |-> PlatformOf[k]]
<1>1. IsFiniteSet(Accounts)
  BY SummariesAssumption, FS_Union DEF Accounts
<1>2. f \in Surjection(Accounts, Platforms)
  BY DEF Surjection, Platforms, Accounts
<1>3. IsFiniteSet(Platforms)
  BY <1>1, <1>2, FS_Surjection
<1> QED
  BY <1>1, <1>3, SummariesAssumption DEF Platforms, Accounts

LEMMA OnPlatformsType ==
  ASSUME NEW V, \A g \in Goals : \A k \in Accounts : V[g][k] \in Int
  PROVE  /\ \A p \in Platforms : \A g \in Goals : Total(V[g], At(p)) \in Int
         /\ \A p \in Platforms : OnPlatforms(V)[p] \in Int
         /\ Total(OnPlatforms(V), Platforms) \in Int
<1>1. ASSUME NEW p \in Platforms, NEW g \in Goals
      PROVE  Total(V[g], At(p)) \in Int
  <2>1. IsFiniteSet(At(p)) /\ \A k \in At(p) : V[g][k] \in Int
    BY PlatformsFinite, FS_Subset DEF At, Having
  <2> QED
    BY <2>1, TotalIsInt
<1>2. ASSUME NEW p \in Platforms
      PROVE  OnPlatforms(V)[p] \in Int
  <2> DEFINE w == [g \in Goals |-> Total(V[g], At(p))]
  <2>1. \A g \in Goals : w[g] \in Int
    BY <1>1
  <2> HIDE DEF w
  <2>2. Total(w, Goals) \in Int
    BY <2>1, PlatformsFinite, TotalIsInt
  <2> QED
    BY <2>2 DEF OnPlatforms, w
<1>3. Total(OnPlatforms(V), Platforms) \in Int
  BY <1>2, PlatformsFinite, TotalIsInt
<1> QED
  BY <1>1, <1>2, <1>3

\* What leaves one account of a goal and comes to another does so in the sums.
LEMMA PortfolioShift ==
  ASSUME NEW V, NEW W,
         \A g \in Goals : \A k \in Accounts : V[g][k] \in Int /\ W[g][k] \in Int,
         NEW a \in Pools, NEW b \in Pools, NEW n \in Int, NEW c \in Int,
         \A g \in Goals : \A k \in Accounts :
           W[g][k] + Only(<<g, k>>, a, n) = V[g][k] + Only(<<g, k>>, b, c)
  PROVE  Total(OnPlatforms(W), Platforms) + n = Total(OnPlatforms(V), Platforms) + c
<1>1. /\ a[1] \in Goals /\ a[2] \in Accounts /\ b[1] \in Goals /\ b[2] \in Accounts
      /\ \A g, k : <<g, k>> = a <=> g = a[1] /\ k = a[2]
      /\ \A g, k : <<g, k>> = b <=> g = b[1] /\ k = b[2]
  BY DEF Pools, Accounts
<1>2. ASSUME NEW p \in Platforms, NEW g \in Goals
      PROVE  Total(W[g], At(p)) + Only(g, a[1], Within(a[2], At(p), n))
               = Total(V[g], At(p)) + Only(g, b[1], Within(b[2], At(p), c))
  <2> DEFINE out == Only(g, a[1], n)
             in == Only(g, b[1], c)
             v == V[g]
             w == W[g]
  <2>1. IsFiniteSet(At(p)) /\ At(p) \subseteq Accounts
    BY PlatformsFinite, FS_Subset DEF At, Having
  <2>2. out \in Int /\ in \in Int
    BY DEF Only
  <2>3. ASSUME NEW k \in At(p)
        PROVE  w[k] + Only(k, a[2], out) = v[k] + Only(k, b[2], in)
    <3>1. /\ Only(<<g, k>>, a, n) = Only(k, a[2], out)
          /\ Only(<<g, k>>, b, c) = Only(k, b[2], in)
      BY <1>1 DEF Only
    <3>2. w[k] + Only(<<g, k>>, a, n) = v[k] + Only(<<g, k>>, b, c)
      BY <2>1
    <3> QED
      BY <3>1, <3>2
  <2>4. \A k \in At(p) : v[k] \in Int /\ w[k] \in Int
    BY <2>1
  <2>5. /\ Within(a[2], At(p), out) = Only(g, a[1], Within(a[2], At(p), n))
        /\ Within(b[2], At(p), in) = Only(g, b[1], Within(b[2], At(p), c))
    BY DEF Only, Within
  <2> HIDE DEF out, in, v, w
  <2>6. Total(w, At(p)) + Within(a[2], At(p), out) = Total(v, At(p)) + Within(b[2], At(p), in)
    BY <2>1, <2>2, <2>3, <2>4, TotalShift
  <2> QED
    BY <2>5, <2>6 DEF v, w
<1>3. ASSUME NEW p \in Platforms
      PROVE  OnPlatforms(W)[p] + Only(p, PlatformOf[a[2]], n)
               = OnPlatforms(V)[p] + Only(p, PlatformOf[b[2]], c)
  <2> DEFINE out == Within(a[2], At(p), n)
             in == Within(b[2], At(p), c)
             v == [g \in Goals |-> Total(V[g], At(p))]
             w == [g \in Goals |-> Total(W[g], At(p))]
  <2>1. out = Only(p, PlatformOf[a[2]], n) /\ in = Only(p, PlatformOf[b[2]], c)
    BY <1>1 DEF At, Having, Only, Within
  <2>2. OnPlatforms(W)[p] = Total(w, Goals) /\ OnPlatforms(V)[p] = Total(v, Goals)
    BY DEF OnPlatforms
  <2>3. \A g \in Goals : v[g] \in Int /\ w[g] \in Int
    BY OnPlatformsType
  <2>4. \A g \in Goals : w[g] + Only(g, a[1], out) = v[g] + Only(g, b[1], in)
    BY <1>2
  <2>5. out \in Int /\ in \in Int /\ IsFiniteSet(Goals)
    BY PlatformsFinite DEF Within
  <2> HIDE DEF v, w, out, in
  <2>6. Total(w, Goals) + Within(a[1], Goals, out) = Total(v, Goals) + Within(b[1], Goals, in)
    BY <2>3, <2>4, <2>5, TotalShift
  <2>7. Within(a[1], Goals, out) = out /\ Within(b[1], Goals, in) = in
    BY <1>1 DEF Within
  <2> QED
    BY <2>1, <2>2, <2>6, <2>7
<1> DEFINE v == OnPlatforms(V)
           w == OnPlatforms(W)
           i == PlatformOf[a[2]]
           j == PlatformOf[b[2]]
<1>4. \A p \in Platforms : v[p] \in Int /\ w[p] \in Int
  BY OnPlatformsType
<1>5. Within(i, Platforms, n) = n /\ Within(j, Platforms, c) = c
  BY <1>1, PlatformsFinite DEF Within
<1>6. \A p \in Platforms : w[p] + Only(p, i, n) = v[p] + Only(p, j, c)
  BY <1>3
<1> HIDE DEF v, w, i, j
<1>7. Total(w, Platforms) + Within(i, Platforms, n) = Total(v, Platforms) + Within(j, Platforms, c)
  BY <1>4, <1>6, PlatformsFinite, TotalShift
<1> QED
  BY <1>5, <1>7 DEF v, w

\* What an account of a goal is shown to have cost.
Held(g, k) == IF IsCash(k) THEN CashCost(Snapshot, g, k) ELSE Invested(Snapshot, g, k)

Stocks == [g \in Goals |-> [k \in Accounts |-> Held(g, k)]]

LEMMA StocksAddUp ==
  ASSUME CostsInv
  PROVE  /\ \A g \in Goals : \A k \in Accounts : Stocks[g][k] = Held(g, k) /\ Held(g, k) \in Int
         /\ TotalBookValue(Snapshot) = Total(OnPlatforms(Stocks), Platforms)
<1>1. \A g \in Goals : \A k \in Accounts : Stocks[g][k] = Held(g, k) /\ Held(g, k) \in Int
  <2> SUFFICES ASSUME NEW g \in Goals, NEW k \in Accounts
               PROVE  Stocks[g][k] = Held(g, k) /\ Held(g, k) \in Int
    OBVIOUS
  <2>1. CASE IsCash(k)
    <3>1. Costs(g)[k] = CashCost(Snapshot, g, k) /\ Costs(g)[k] \in Int
      BY <2>1, CashAddsUp DEF Costs, IsCash
    <3> QED
      BY <2>1, <3>1 DEF Stocks, Held
  <2>2. CASE ~IsCash(k)
    <3>1. k \in Positions
      BY <2>2 DEF IsCash, Accounts
    <3> QED
      BY <2>2, <3>1, PoolCosts DEF Stocks, Held
  <2> QED
    BY <2>1, <2>2
<1>2. ASSUME NEW g \in Goals, NEW p \in Platforms
      PROVE  PlatformValue(Snapshot, g, p) = Total(Stocks[g], At(p))
  <2> DEFINE A == Having(PlatformOf, CashAccounts, p)
             B == Having(PlatformOf, Positions, p)
             ca == [k \in A |-> CashCost(Snapshot, g, k)]
             ib == [k \in B |-> Invested(Snapshot, g, k)]
             w == Stocks[g]
  <2>1. /\ IsFiniteSet(A) /\ IsFiniteSet(B)
        /\ A \subseteq Accounts /\ B \subseteq Accounts /\ A \cap B = {} /\ At(p) = A \cup B
    BY SummariesAssumption, FS_Subset, KindsAssumption DEF Having, At, Accounts
  <2>2. PlatformValue(Snapshot, g, p) = SumFunction(ca) + SumFunction(ib)
    BY DEF PlatformValue, Having
  <2>3. /\ ca = [k \in A |-> ca[k]] /\ ib = [k \in B |-> ib[k]]
        /\ \A k \in A : ca[k] = w[k]
        /\ \A k \in B : ib[k] = w[k]
    <3>1. (\A k \in A : IsCash(k) /\ k \in Accounts) /\ (\A k \in B : ~IsCash(k) /\ k \in Accounts)
      BY KindsAssumption DEF IsCash, Having, Accounts
    <3> HIDE DEF A, B
    <3> QED
      BY <1>1, <3>1 DEF Held
  <2> HIDE DEF ca, ib, A, B
  <2>4. SumFunction(ca) = Total(ca, A) /\ SumFunction(ib) = Total(ib, B)
    BY <2>3, SumIsTotalOf
  <2>5. Total(ca, A) = Total(w, A) /\ Total(ib, B) = Total(w, B)
    BY <2>1, <2>3, TotalOfEqual
  <2>6. \A k \in A \cup B : w[k] \in Int
    BY <1>1, <2>1
  <2> HIDE DEF w
  <2>7. Total(w, A \cup B) = Total(w, A) + Total(w, B)
    BY <2>1, <2>6, TotalOfBoth
  <2> QED
    BY <2>1, <2>2, <2>4, <2>5, <2>7 DEF w
<1>3. ASSUME NEW p \in Platforms
      PROVE  SumFunction([g \in Goals |-> PlatformValue(Snapshot, g, p)]) = OnPlatforms(Stocks)[p]
  <2> DEFINE w == [g \in Goals |-> PlatformValue(Snapshot, g, p)]
  <2>1. w = [g \in Goals |-> w[g]] /\ w = [g \in Goals |-> Total(Stocks[g], At(p))]
    BY <1>2
  <2>2. OnPlatforms(Stocks)[p] = Total([g \in Goals |-> Total(Stocks[g], At(p))], Goals)
    BY DEF OnPlatforms
  <2> HIDE DEF w
  <2>3. SumFunction(w) = Total(w, Goals)
    BY <2>1, SumIsTotalOf
  <2> QED
    BY <2>1, <2>2, <2>3 DEF w
<1>4. TotalBookValue(Snapshot) = Total(OnPlatforms(Stocks), Platforms)
  <2> DEFINE w == [p \in Platforms |-> SumFunction([g \in Goals |-> PlatformValue(Snapshot, g, p)])]
             v == OnPlatforms(Stocks)
  <2>1. w = [p \in Platforms |-> w[p]] /\ \A p \in Platforms : w[p] = v[p]
    BY <1>3
  <2>2. TotalBookValue(Snapshot) = SumFunction(w)
    BY DEF TotalBookValue
  <2> HIDE DEF w, v
  <2>3. SumFunction(w) = Total(w, Platforms) /\ Total(w, Platforms) = Total(v, Platforms)
    BY <2>1, SumIsTotalOf, PlatformsFinite, TotalOfEqual
  <2> QED
    BY <2>2, <2>3 DEF v
<1> QED
  BY <1>1, <1>4

Fees(g) == {e \in history[g] : e.type \in {"cash_fee", "asset_fee"}}

FeesOf(g) == Total(Carries(history[g]), Fees(g))

LEMMA FeesAddUp ==
  ASSUME CostsInv
  PROVE  /\ \A g \in Goals : FeesOf(g) \in Int
         /\ TotalFees(Snapshot) = Total([g \in Goals |-> FeesOf(g)], Goals)
<1>1. ASSUME NEW g \in Goals
      PROVE  /\ IsFiniteSet(Fees(g))
             /\ \A e \in Fees(g) : e.id \in DOMAIN book /\ Carries(history[g])[e] = book[e.id]
             /\ \A e \in Fees(g) : Carries(history[g])[e] \in Nat
  <2>1. IsFiniteSet(Fees(g))
    BY HistoryCounted, FS_Subset DEF CostsInv, RecordsInv, Sortable, Fees
  <2>2. \A e \in Fees(g) : e \in history[g] /\ e.type \in LegTypes
    BY DEF Fees, LegTypes, CashLegs, AssetLegs
  <2>3. \A e \in Fees(g) : e.id \in DOMAIN book /\ book[e.id] \in Nat
    BY <2>2 DEF CostsInv, RecordsInv, CostsRecorded
  <2> QED
    BY <2>1, <2>2, <2>3 DEF Carries
<1>2. ASSUME NEW g \in Goals
      PROVE  /\ FeesOf(g) \in Int
             /\ Carried(Snapshot, OfType(Snapshot, g, {"cash_fee", "asset_fee"})) = FeesOf(g)
  <2> DEFINE X == Fees(g)
             v == [e \in X |-> book[e.id]]
             w == Carries(history[g])
  <2>1. Carried(Snapshot, OfType(Snapshot, g, {"cash_fee", "asset_fee"})) = SumFunction(v)
    BY DEF Carried, OfType, Snapshot, Fees
  <2>2. v = [e \in X |-> v[e]] /\ \A e \in X : v[e] = w[e] /\ w[e] \in Int
    BY <1>1
  <2>3. IsFiniteSet(X) /\ FeesOf(g) = Total(w, X)
    BY <1>1 DEF FeesOf
  <2> HIDE DEF v, X, w
  <2>4. SumFunction(v) = Total(v, X) /\ Total(v, X) = Total(w, X) /\ Total(w, X) \in Int
    BY <2>2, <2>3, SumIsTotalOf, TotalOfEqual, TotalIsInt
  <2> QED
    BY <2>1, <2>3, <2>4
<1>3. TotalFees(Snapshot) = Total([g \in Goals |-> FeesOf(g)], Goals)
  <2> DEFINE v == [g \in Goals |-> Carried(Snapshot, OfType(Snapshot, g, {"cash_fee", "asset_fee"}))]
  <2>1. v = [g \in Goals |-> v[g]] /\ v = [g \in Goals |-> FeesOf(g)]
    BY <1>2
  <2>2. TotalFees(Snapshot) = SumFunction(v)
    BY DEF TotalFees
  <2> HIDE DEF v
  <2> QED
    BY <2>1, <2>2, SumIsTotalOf
<1> QED
  BY <1>2, <1>3

-----------------------------------------------------------------------------
(* A transfer that is the last thing to happen to its accounts.            *)

\* A pool after all of its entries.
Final(p) == PoolRun(p, book, Own(p[2], history[p[1]]))

LEMMA AppendOne ==
  ASSUME NEW p, NEW v, NEW T, NEW m, m \notin T, Sortable(T \cup {m}), \A e \in T : Before(e, m)
  PROVE  PoolRun(p, v, T \cup {m}) = Project(p[2], v, PoolRun(p, v, T), m)
<1> DEFINE U == T \cup {m}
<1>1. Latest(U) = m
  <2> SUFFICES ASSUME Latest(U) # m PROVE FALSE
    OBVIOUS
  <2>1. Latest(U) \in U /\ \A d \in U \ {Latest(U)} : Before(d, Latest(U))
    BY LatestIs
  <2>2. Latest(U) \in T /\ m \in U
    BY <2>1
  <2>3. Before(m, Latest(U)) /\ Before(Latest(U), m)
    BY <2>1, <2>2
  <2> QED
    BY <2>1, <2>2, <2>3, BeforeOrders
<1>2. U # {} /\ U \ {m} = T
  OBVIOUS
<1> HIDE DEF U
<1>3. Sortable(U)
  BY DEF U
<1> QED
  BY <1>1, <1>2, <1>3, PoolRound DEF U

\* Executing adds no pool to those it runs in order, and takes none from them.
LEMMA OrderedStays ==
  ASSUME RecordsInv, RecordsInv', NEW row \in rows, Execute(row)
  PROVE  OrderedPools \subseteq OrderedPools'
<1> DEFINE new == [row EXCEPT !.status = "completed"]
<1>1. RowsDated /\ RowsDated'
  BY DEF RecordsInv, BookInv
<1>2. rows' = (rows \ {row}) \cup {new}
  BY DEF Execute, Settle
<1>3. new.id = row.id /\ new.terms = row.terms /\ new.at = row.at
  BY <1>1 DEF RowsDated, BookRow
<1> HIDE DEF new
<1>4. \A r \in rows' : \E x \in rows : x.id = r.id /\ x.terms = r.terms /\ x.at = r.at
  BY <1>2, <1>3
<1> SUFFICES ASSUME NEW p \in OrderedPools, NEW r \in rows', NEW s \in rows',
                    p \in {r.terms.source, r.terms.destination}
                            \cap {s.terms.source, s.terms.destination}, r.at = s.at
             PROVE  r = s
  BY DEF OrderedPools
<1>5. PICK x \in rows : x.id = r.id /\ x.terms = r.terms /\ x.at = r.at
  BY <1>4
<1>6. PICK y \in rows : y.id = s.id /\ y.terms = s.terms /\ y.at = s.at
  BY <1>4
<1>7. x = y
  BY <1>5, <1>6 DEF OrderedPools
<1> QED
  BY <1>1, <1>5, <1>6, <1>7 DEF RowsDated

\* Pools that a transfer does not touch.
LEMMA UntouchedStays ==
  ASSUME RecordsInv, NEW row \in rows, Execute(row), NEW p \in Pools, p \notin Touched(row)
  PROVE  Final(p)' = Final(p)
<1>1. RowsDated /\ history'[p[1]] = history[p[1]] \cup LegsAt(row, p[1])
  BY ExecuteIs DEF RecordsInv, BookInv, Pools
<1>2. Fresh(row, p) = {}
  BY DEF Fresh, Touched
<1>3. Own(p[2], history'[p[1]]) = Own(p[2], history[p[1]])
  BY <1>1, <1>2, ExecuteOwn
<1>4. PoolRun(p, book', Own(p[2], history[p[1]])) = PoolRun(p, book, Own(p[2], history[p[1]]))
  BY AllIsSegment, ExecuteAgrees
<1> QED
  BY <1>3, <1>4 DEF Final

\* What the pools of a transfer hold, and what it adds to them.
LEMMA LastOwn ==
  ASSUME RecordsInv, RecordsInv', NEW row \in rows, Execute(row), IsLast(row),
         NEW p \in Touched(row)
  PROVE  /\ p \in Pools /\ p \in OrderedPools
         /\ Own(p[2], history'[p[1]]) = Own(p[2], history[p[1]]) \cup Fresh(row, p)
         /\ Sortable(Own(p[2], history'[p[1]]))
         /\ Lawful(p[2], book', Own(p[2], history'[p[1]]))
         /\ PoolRun(p, book', Own(p[2], history[p[1]])) = Final(p)
         /\ \A e \in Own(p[2], history[p[1]]), m \in Fresh(row, p) : Before(e, m) /\ e # m
         /\ Whole(Final(p))
<1>1. p \in OrderedPools /\ p \in Pools /\ p[1] \in Goals
  BY OrderedAreIn DEF IsLast, Touched, Pools
<1>2. RowsDated /\ history'[p[1]] = history[p[1]] \cup LegsAt(row, p[1])
  BY <1>1, ExecuteIs DEF RecordsInv, BookInv
<1>3. Own(p[2], history'[p[1]]) = Own(p[2], history[p[1]]) \cup Fresh(row, p)
  BY <1>1, <1>2, ExecuteOwn
<1>4. PoolsLawful'
  BY RecordsLawful, PTL
<1>5. /\ Sortable(Own(p[2], history'[p[1]])) /\ Lawful(p[2], book', Own(p[2], history'[p[1]]))
  BY <1>1, <1>4 DEF PoolsLawful
<1>6. PoolRun(p, book', Own(p[2], history[p[1]])) = Final(p)
  BY <1>1, AllIsSegment, ExecuteAgrees DEF Final
<1>7. ASSUME NEW e \in Own(p[2], history[p[1]]), NEW m \in Fresh(row, p)
      PROVE  Before(e, m) /\ e # m
  <2>1. m.at = row.at
    BY <1>1, <1>2, FreshFacts
  <2>2. e.at < row.at
    BY DEF IsLast, Touched
  <2>3. e.at \in Int /\ m.at \in Int
    BY <1>3, <1>5 DEF Sortable
  <2> QED
    BY <2>1, <2>2, <2>3 DEF Before
<1>8. Whole(Final(p))
  BY <1>1, AllIsSegment, HistoryWhole DEF Final, RecordsInv
<1> QED
  BY <1>1, <1>3, <1>5, <1>6, <1>7, <1>8

LEMMA OrderedNeverFail == CostsInv => \A q \in OrderedPools : Tracked(q) => NeverFails(q)
BY NoneFails

LEMMA LastArrives ==
  ASSUME CostsInv, CostsInv', NEW row \in rows, Execute(row), IsLast(row),
         NEW p, p = row.terms.destination
  PROVE  ~Final(p).fails /\ Final(p)'.cost = Final(p).cost + Delivered(row)
<1> DEFINE k == p[2]
           S == Own(k, history[p[1]])
           N == Own(k, history'[p[1]])
<1>1. RecordsInv /\ RecordsInv' /\ p \in Touched(row)
  BY DEF CostsInv, Touched
<1>2. /\ p \in Pools /\ p \in OrderedPools /\ N = S \cup Fresh(row, p)
      /\ Sortable(N) /\ Lawful(k, book', N) /\ PoolRun(p, book', S) = Final(p)
      /\ \A e \in S, m \in Fresh(row, p) : Before(e, m) /\ e # m
      /\ Whole(Final(p))
  BY <1>1, LastOwn
<1>3. /\ RowsDated /\ row.status = "pending" /\ book' = BookOf(row) /\ Acceptable(row)
      /\ history'[p[1]] = history[p[1]] \cup LegsAt(row, p[1])
  BY <1>1, <1>2, ExecuteIs DEF RecordsInv, BookInv, Pools
<1>4. PICK m : Arriving(row) = {m}
  BY DEF Arriving
<1>5. Fresh(row, p) = {m}
  <2>1. p # row.terms.source
    BY <1>3, RowFacts, BookAssumption
  <2> QED
    BY <1>4, <2>1 DEF Fresh
<1>6. Credits(k, m) /\ m.id = LegId(row, "destination")
  BY <1>3, <1>4, ArrivingIs
<1>7. m.id \in DOMAIN book' /\ book'[m.id] = Delivered(row)
  <2>1. /\ DOMAIN book' = DOMAIN book \cup {LegId(row, side) : side \in Sides(row)}
        /\ book'[LegId(row, "destination")] = Delivered(row)
    BY <1>1, <1>3, RecordedIs DEF RecordsInv
  <2>2. "destination" \in Sides(row)
    BY DEF Sides, AllSides
  <2> QED
    BY <1>6, <2>1, <2>2
<1>8. Final(p)' = Project(k, book', Final(p), m)
  <2>1. PoolRun(p, book', S \cup {m}) = Project(k, book', PoolRun(p, book', S), m)
    <3>1. m \notin S /\ Sortable(S \cup {m}) /\ \A e \in S : Before(e, m)
      BY <1>2, <1>5
    <3> HIDE DEF S, N
    <3> QED
      BY <3>1, AppendOne
  <2>2. Final(p)' = PoolRun(p, book', N)
    BY DEF Final
  <2> HIDE DEF S, N
  <2> QED
    BY <1>2, <1>5, <2>1, <2>2
<1>9. ~Final(p)'.fails
  <2>1. p \in OrderedPools'
    BY <1>1, <1>2, OrderedStays
  <2>2. Tracked(p)'
    <3>1. ASSUME IsCash(k)
          PROVE  m.type \in CashLegs
      <4>1. IsCash(row.terms.source[2])
        BY <1>3, <3>1, RowFacts, BookAssumption DEF IsCash
      <4> QED
        BY <1>4, <4>1 DEF Arriving, Leg, CashLegs
    <3>2. m \in history'[p[1]]
      BY <1>3, <1>4 DEF LegsAt
    <3>3. IsCash(p[2]) => TracksCash(p[1], history'[p[1]])
      BY <3>1, <3>2 DEF TracksCash
    <3> QED
      BY <3>3 DEF Tracked, IsCash
  <2>3. NeverFails(p)'
    <3>1. (\A q \in OrderedPools : Tracked(q) => NeverFails(q))'
      BY OrderedNeverFail, PTL
    <3> QED
      BY <2>1, <2>2, <3>1
  <2> QED
    BY <2>3, AllIsSegment DEF NeverFails, Final
<1>10. ~Final(p).fails
  BY <1>8, <1>9, FailureSticks
<1>11. Final(p)'.cost = Final(p).cost + Delivered(row)
  <2>1. LawfulEntry(k, book', m)
    BY <1>2, <1>5 DEF Lawful
  <2>2. Part(k, book', Final(p), m) = Delivered(row)
    BY <1>7 DEF Part
  <2> QED
    BY <1>2, <1>6, <1>8, <1>10, <2>1, <2>2, ProjectMoves
<1> QED
  BY <1>10, <1>11

Taken(row) == Delivered(row) + Commission(SourcePool(row), row.terms)

LEMMA LastLeaves ==
  ASSUME CostsInv, CostsInv', NEW row \in rows, Execute(row), IsLast(row),
         NEW p, p = row.terms.source
  PROVE  ~Final(p).fails /\ Final(p).cost = Final(p)'.cost + Taken(row)
<1> DEFINE k == p[2]
           S == Own(k, history[p[1]])
           N == Own(k, history'[p[1]])
           pool == Final(p)
           fee == Commission(SourcePool(row), row.terms)
<1>1. RecordsInv /\ RecordsInv' /\ p \in Touched(row)
  BY DEF CostsInv, Touched
<1>2. /\ p \in Pools /\ p \in OrderedPools /\ N = S \cup Fresh(row, p)
      /\ Sortable(N) /\ Lawful(k, book', N) /\ PoolRun(p, book', S) = pool
      /\ \A e \in S, m \in Fresh(row, p) : Before(e, m) /\ e # m
      /\ Whole(pool)
  BY <1>1, LastOwn
<1>3. RowsDated /\ row.status = "pending" /\ Acceptable(row) /\ BookInv /\ CostsRecorded
  BY <1>1, ExecuteIs DEF RecordsInv, BookInv
<1>4. Fresh(row, p) = Leaving(row)
  <2>1. p # row.terms.destination
    BY <1>3, RowFacts, BookAssumption
  <2> QED
    BY <2>1 DEF Fresh
<1>5. SourcePool(row) = pool /\ ~pool.fails /\ pool.units \in Nat /\ pool.cost \in Nat
  <2>1. Moving(k, history[p[1]], row.at) = S
    <3>1. \A e \in S : e.at < row.at
      BY DEF IsLast
    <3>2. \A e \in S : e.at \in Int
      BY <1>2 DEF Sortable
    <3>3. row.at \in Int
      BY <1>3, RowFacts
    <3> HIDE DEF S
    <3>4. \A e \in S : e.at <= row.at
      BY <3>1, <3>2, <3>3
    <3> QED
      BY <3>4 DEF Moving, S
  <2> QED
    BY <1>3, <2>1, SourcePoolIs DEF Final
<1>6. Delivered(row) \in Nat /\ fee \in Nat /\ (row.terms.fee = 0 => fee = 0)
  BY <1>3, DeliveredIs
<1>7. /\ \A m \in Leaving(row) :
           LET x == TakenBy(row, m)
           IN /\ x.units \in Nat /\ x.cost \in Nat
              /\ Size(k, m) = x.units /\ m.id \in DOMAIN book' /\ book'[m.id] = x.cost
              /\ x.units <= pool.units /\ x.cost <= pool.cost
      /\ \A m, o \in Leaving(row) : m # o =>
           LET x == TakenBy(row, m)
               y == TakenBy(row, o)
           IN x.units + y.units <= pool.units /\ x.cost + y.cost <= pool.cost
      /\ \A m \in Leaving(row) : Debits(k, m) /\ LawfulEntry(k, book', m)
  <2>1. /\ SourcePool(row).units <= pool.units /\ SourcePool(row).cost <= pool.cost
        /\ SourcePool(row).units = pool.units => SourcePool(row).cost = pool.cost
    BY <1>5
  <2>2. \A m \in Leaving(row) : Debits(k, m) /\ LawfulEntry(k, book', m)
    BY <1>2, <1>3, <1>4, LeavingIs DEF Lawful
  <2> HIDE DEF pool
  <2> QED
    BY <1>1, <1>2, <1>5, <2>1, <2>2, TakenIs
<1>8. Final(p)' = PoolRun(p, book', N)
  BY DEF Final
<1> DEFINE first == Leg(row, "source", IF IsCash(k) THEN "cash_out" ELSE "asset_out", p, row.terms.units)
           second == Leg(row, "commission", IF IsCash(k) THEN "cash_fee" ELSE "asset_fee", p, row.terms.fee)
<1>9. /\ Leaving(row) = {first} \cup (IF row.terms.fee = 0 THEN {} ELSE {second})
      /\ TakenBy(row, first).cost = Delivered(row) /\ TakenBy(row, second).cost = fee
      /\ first # second
  <2>1. first.id = LegId(row, "source") /\ second.id = LegId(row, "commission")
    BY DEF Leg
  <2>2. LegId(row, "source") # LegId(row, "commission")
    <3>1. row.id \in Ids
      BY <1>3, RowFacts
    <3> QED
      BY <3>1, LegIdsAssumption DEF LegId, AllSides
  <2>3. Leaving(row) = {first} \cup (IF row.terms.fee = 0 THEN {} ELSE {second})
    BY DEF Leaving
  <2> HIDE DEF first, second
  <2> QED
    BY <2>1, <2>2, <2>3 DEF TakenBy
<1> HIDE DEF first, second, fee, S, N, pool
<1>10. CASE row.terms.fee = 0
  <2>1. Leaving(row) = {first}
    BY <1>9, <1>10
  <2>2. PoolRun(p, book', S \cup {first}) = Project(k, book', PoolRun(p, book', S), first)
    <3>1. first \notin S /\ Sortable(S \cup {first}) /\ \A e \in S : Before(e, first)
      BY <1>2, <1>4, <2>1
    <3> QED
      BY <3>1, AppendOne
  <2>3. Final(p)' = Project(k, book', pool, first)
    BY <1>2, <1>4, <1>8, <2>1, <2>2
  <2>4. Project(k, book', pool, first).cost = pool.cost - Delivered(row)
    BY <1>2, <1>5, <1>7, <1>9, <2>1, RecordedDebit
  <2>5. Final(p)'.cost = pool.cost - Delivered(row) /\ fee = 0
    BY <1>6, <1>10, <2>3, <2>4
  <2> QED
    BY <1>5, <1>6, <2>5 DEF Taken, fee, pool
<1>11. ASSUME row.terms.fee # 0, NEW o, NEW m, m # o, Leaving(row) = {o, m}, Before(o, m),
              TakenBy(row, o).cost + TakenBy(row, m).cost = Delivered(row) + fee
       PROVE  Final(p).cost = Final(p)'.cost + Taken(row)
  <2> DEFINE x == TakenBy(row, m)
             y == TakenBy(row, o)
             next == Project(k, book', pool, o)
             last == Project(k, book', next, m)
  <2>1. PoolRun(p, book', S \cup {o}) = next
    <3>1. o \notin S /\ \A e \in S : Before(e, o)
      BY <1>2, <1>4, <1>11
    <3>2. Sortable(S \cup {o})
      BY <1>2, <1>4, <1>11, SubsetSorts
    <3> QED
      BY <1>2, <3>1, <3>2, AppendOne
  <2>2. PoolRun(p, book', (S \cup {o}) \cup {m}) = last
    <3> DEFINE R == S \cup {o}
    <3>1. m \notin R /\ Sortable(R \cup {m}) /\ \A e \in R : Before(e, m)
      <4>1. R \cup {m} = N
        BY <1>2, <1>4, <1>11
      <4> QED
        BY <1>2, <1>4, <1>11, <4>1
    <3> HIDE DEF R
    <3>2. PoolRun(p, book', R \cup {m}) = Project(k, book', PoolRun(p, book', R), m)
      BY <3>1, AppendOne
    <3> QED
      BY <2>1, <3>2 DEF R
  <2>3. (S \cup {o}) \cup {m} = N
    BY <1>2, <1>4, <1>11
  <2>4. /\ x.units \in Nat /\ x.cost \in Nat
        /\ Size(k, m) = x.units /\ m.id \in DOMAIN book' /\ book'[m.id] = x.cost
        /\ Debits(k, m) /\ LawfulEntry(k, book', m)
    BY <1>7, <1>11
  <2>5. /\ y.units \in Nat /\ y.cost \in Nat
        /\ Size(k, o) = y.units /\ o.id \in DOMAIN book' /\ book'[o.id] = y.cost
        /\ y.units <= pool.units /\ y.cost <= pool.cost
        /\ Debits(k, o) /\ LawfulEntry(k, book', o)
    BY <1>7, <1>11
  <2>6. x.units + y.units <= pool.units /\ x.cost + y.cost <= pool.cost
    BY <1>7, <1>11
  <2>0. x.cost + y.cost = Delivered(row) + fee
    BY <1>11, <2>4, <2>5
  <2>7. Final(p)' = last
    BY <1>8, <2>2, <2>3
  <2> HIDE DEF x, y, next, last
  <2>8. Whole(next) /\ ~next.fails
          /\ next.units = pool.units - y.units /\ next.cost = pool.cost - y.cost
    BY <1>2, <1>5, <2>5, RecordedDebit DEF next
  <2>9. x.units <= next.units /\ x.cost <= next.cost
    BY <1>5, <2>4, <2>5, <2>6, <2>8
  <2>10. last.cost = next.cost - x.cost
    BY <2>4, <2>8, <2>9, RecordedDebit DEF last
  <2>11. pool.cost = last.cost + (Delivered(row) + fee)
    BY <1>5, <1>6, <2>0, <2>4, <2>5, <2>8, <2>10
  <2> QED
    BY <2>7, <2>11 DEF Taken, fee, pool
<1>12. CASE row.terms.fee # 0
  <2>1. Leaving(row) = {first, second} /\ Leaving(row) \subseteq N
    BY <1>2, <1>4, <1>9, <1>12
  <2>2. Before(first, second) \/ Before(second, first)
    BY <1>2, <1>9, <2>1, BeforeOrders
  <2>3. /\ TakenBy(row, first).cost + TakenBy(row, second).cost = Delivered(row) + fee
        /\ TakenBy(row, second).cost + TakenBy(row, first).cost = Delivered(row) + fee
    BY <1>6, <1>9
  <2>4. Leaving(row) = {second, first}
    BY <2>1
  <2> QED
    BY <1>5, <1>9, <1>11, <1>12, <2>1, <2>2, <2>3, <2>4 DEF pool
<1>13. ~Final(p).fails
  BY <1>5 DEF pool
<1>14. CASE row.terms.fee = 0
  BY <1>10, <1>14
<1> QED
  BY <1>12, <1>13, <1>14

-----------------------------------------------------------------------------
(* What accounts are shown to have cost, before and after a transfer.      *)

\* A position costs what its pool does.
HeldInPositions ==
  \A g \in Goals : \A k \in Positions :
    LET pool == Final(<<g, k>>)
    IN /\ Held(g, k) = IF pool.units = 0 THEN 0 ELSE pool.cost
       /\ <<g, k>> \in OrderedPools => Held(g, k) = pool.cost

LEMMA PositionsHeld == CostsInv => HeldInPositions
<1> SUFFICES ASSUME CostsInv, NEW g \in Goals, NEW k \in Positions
             PROVE  LET pool == Final(<<g, k>>)
                    IN /\ Held(g, k) = IF pool.units = 0 THEN 0 ELSE pool.cost
                       /\ <<g, k>> \in OrderedPools => Held(g, k) = pool.cost
  BY DEF HeldInPositions
<1> DEFINE p == <<g, k>>
           S == Own(k, history[g])
<1>1. p \in Pools /\ p[1] = g /\ p[2] = k /\ ~IsCash(k)
  BY KindsAssumption DEF Pools, IsCash
<1>2. Sortable(S)
  BY <1>1, RecordsLawful DEF CostsInv, PoolsLawful
<1>3. Investment(Snapshot, g, k).pool = Final(p)
  BY <1>2, AllIsSegment, TradePool, InvestmentRun DEF Final
<1>4. Held(g, k) = IF Final(p).units = 0 THEN 0 ELSE Final(p).cost
  BY <1>1, <1>3 DEF Held, Invested
<1>5. ASSUME p \in OrderedPools
      PROVE  Final(p).units = 0 => Final(p).cost = 0
  <2>1. AlwaysGood(p)
    BY <1>5 DEF CostsInv, PoolsKept
  <2> HIDE DEF p
  <2>2. Good(Final(p))
    BY <1>1, <2>1, AllIsSegment DEF AlwaysGood, Final
  <2> QED
    BY <2>2 DEF Good
<1> QED
  BY <1>4, <1>5

Spent(g) == \E k \in CashAccounts : Final(<<g, k>>).fails

\* Cash costs what its pool does, or is added up.
HeldInCash ==
  \A g \in Goals :
    /\ Spent(g) <=> Overdrawn(Snapshot, g)
    /\ \A k \in CashAccounts :
         Held(g, k) = IF Spent(g)
                      THEN OpeningCost[g][k] + (Total(Values(history[g]), InOf(history[g], k))
                                                  - Total(Values(history[g]), OutOf(history[g], k)))
                      ELSE Final(<<g, k>>).cost

LEMMA CashHeld == CostsInv /\ ClockBounded => HeldInCash
<1> SUFFICES ASSUME CostsInv, ClockBounded, NEW g \in Goals
             PROVE  /\ Spent(g) <=> Overdrawn(Snapshot, g)
                    /\ \A k \in CashAccounts :
                         Held(g, k) = IF Spent(g)
                           THEN OpeningCost[g][k] + (Total(Values(history[g]), InOf(history[g], k))
                                   - Total(Values(history[g]), OutOf(history[g], k)))
                           ELSE Final(<<g, k>>).cost
  BY DEF HeldInCash
<1>1. ASSUME NEW k \in CashAccounts
      PROVE  CashPool(Snapshot, g, k) = Final(<<g, k>>)
  <2> DEFINE p == <<g, k>>
  <2>1. p \in Pools /\ p[1] = g /\ p[2] = k /\ MaxTime \in Int
    BY BookAssumption DEF Pools
  <2>2. CashPool(Snapshot, g, k) = Pool(p, history[g], book, MaxTime)
    BY DEF CashPool, Snapshot, EndOfTime
  <2> HIDE DEF p
  <2>3. Pool(p, history[g], book, MaxTime) = Final(p)
    BY <2>1, PoolIsSegment, AllIsMoving DEF CostsInv, RecordsInv, Final
  <2> QED
    BY <2>2, <2>3 DEF p
<1>2. Spent(g) <=> Overdrawn(Snapshot, g)
  BY <1>1 DEF Spent, Overdrawn
<1>3. ASSUME NEW k \in CashAccounts, Spent(g)
      PROVE  Held(g, k) = OpeningCost[g][k]
                            + (Total(Values(history[g]), InOf(history[g], k))
                                 - Total(Values(history[g]), OutOf(history[g], k)))
  <2> DEFINE E == history[g]
             w == Values(E)
  <2>1. DOMAIN w = E /\ w = [e \in E |-> Worth[e.id]]
    BY DEF Values
  <2>2. Held(g, k) = OpeningCost[g][k] + Added(k, w)
    <3>1. Held(g, k) = CashCost(Snapshot, g, k) /\ Snapshot.entries = history
      BY DEF Held, IsCash, Snapshot
    <3> QED
      BY <1>2, <1>3, <2>1, <3>1 DEF CashCost
  <2> HIDE DEF w, E
  <2>3. Added(k, w) = Total(w, InOf(E, k)) - Total(w, OutOf(E, k))
    BY <2>1, AddedIs
  <2> QED
    BY <2>2, <2>3 DEF w, E
<1>4. ASSUME NEW k \in CashAccounts, ~Spent(g)
      PROVE  Held(g, k) = Final(<<g, k>>).cost
  BY <1>1, <1>2, <1>4 DEF Held, IsCash, CashCost
<1> QED
  BY <1>2, <1>3, <1>4

\* The rates of an overdrawn account are of what is written by hand.
LEMMA RatesStay ==
  ASSUME RecordsInv, NEW row \in rows, Execute(row), NEW g \in Goals, NEW k
  PROVE  /\ Total(Values(history'[g]), InOf(history'[g], k))
              = Total(Values(history[g]), InOf(history[g], k))
         /\ Total(Values(history'[g]), OutOf(history'[g], k))
              = Total(Values(history[g]), OutOf(history[g], k))
<1> DEFINE E == history[g]
           N == history'[g]
<1>1. N = E \cup LegsAt(row, g) /\ RowsDated
  BY ExecuteIs DEF RecordsInv, BookInv
<1>2. \A e \in LegsAt(row, g) : e.type \notin {"contribution", "sell", "withdrawal", "buy"}
  <2>1. \A e \in LegsAt(row, g) : e.type \in LegTypes
    BY <1>1, LegFacts
  <2> QED
    BY <2>1 DEF LegTypes, CashLegs, AssetLegs
<1>3. IsFiniteSet(E)
  BY HistoryCounted DEF RecordsInv, Sortable
<1>4. InOf(N, k) = InOf(E, k) /\ OutOf(N, k) = OutOf(E, k)
  BY <1>1, <1>2 DEF InOf, OutOf
<1>5. /\ IsFiniteSet(InOf(E, k)) /\ IsFiniteSet(OutOf(E, k))
      /\ InOf(E, k) \subseteq E /\ OutOf(E, k) \subseteq E
  BY <1>3, FS_Subset DEF InOf, OutOf
<1>6. \A e \in E : Values(N)[e] = Values(E)[e]
  BY <1>1 DEF Values
<1> DEFINE v == Values(E)
           w == Values(N)
           A == InOf(E, k)
           B == OutOf(E, k)
<1>7. (\A e \in A : w[e] = v[e]) /\ (\A e \in B : w[e] = v[e])
  BY <1>5, <1>6
<1> HIDE DEF v, w, A, B, E, N
<1>8. Total(w, A) = Total(v, A) /\ Total(w, B) = Total(v, B)
  BY <1>5, <1>7, TotalOfEqual DEF A, B
<1> QED
  BY <1>4, <1>8 DEF v, w, A, B, E, N

FinalsWhole == \A q \in Pools : Whole(Final(q))

LEMMA FinalsAreWhole == RecordsInv => FinalsWhole
<1> SUFFICES ASSUME RecordsInv, NEW q \in Pools PROVE Whole(Final(q))
  BY DEF FinalsWhole
<1> QED
  BY AllIsSegment, HistoryWhole DEF Final, RecordsInv

\* What the pools cost after a transfer that is their last.
LEMMA FinalShift ==
  ASSUME CostsInv, CostsInv', NEW row \in rows, Execute(row), IsLast(row), NEW q \in Pools
  PROVE  /\ Taken(row) \in Int /\ Delivered(row) \in Int
         /\ Final(q).cost \in Int /\ Final(q)'.cost \in Int
         /\ Final(q)'.cost + Only(q, row.terms.source, Taken(row))
              = Final(q).cost + Only(q, row.terms.destination, Delivered(row))
         /\ q \notin Touched(row) => Final(q)' = Final(q)
         /\ q \in Touched(row) =>
              ~Final(q).fails /\ q \in OrderedPools /\ q \in OrderedPools'
<1> DEFINE s == row.terms.source
           d == row.terms.destination
           x == Final(q).cost
           y == Final(q)'.cost
           n == Taken(row)
           c == Delivered(row)
<1>1. RecordsInv /\ RecordsInv' /\ BookInv /\ CostsRecorded /\ RowsDated /\ Acceptable(row)
  BY ExecuteIs DEF CostsInv, RecordsInv, BookInv
<1>2. Touched(row) = {s, d} /\ s # d
  BY <1>1, RowFacts, BookAssumption DEF Touched
<1>3. n \in Int /\ c \in Int
  BY <1>1, DeliveredIs DEF Taken
<1>4. Whole(Final(q)) /\ Whole(Final(q)')
  <2>1. FinalsWhole'
    BY <1>1, FinalsAreWhole, PTL
  <2> QED
    BY <1>1, <2>1, FinalsAreWhole DEF FinalsWhole
<1>5. x \in Int /\ y \in Int
  BY <1>4 DEF Whole
<1>6. q \notin Touched(row) => Final(q)' = Final(q)
  BY <1>1, UntouchedStays
<1>7. q = s => ~Final(q).fails /\ x = y + n
  BY LastLeaves
<1>8. q = d => ~Final(q).fails /\ y = x + c
  BY LastArrives
<1>9. q \in Touched(row) => q \in OrderedPools /\ q \in OrderedPools'
  BY <1>1, LastOwn, OrderedStays
<1>10. q \notin Touched(row) => x = y
  BY <1>6
<1> HIDE DEF x, y, n, c, s, d
<1>11. y + Only(q, s, n) = x + Only(q, d, c)
  BY <1>2, <1>3, <1>5, <1>7, <1>8, <1>10 DEF Only
<1> QED
  BY <1>2, <1>3, <1>5, <1>6, <1>7, <1>8, <1>9, <1>11 DEF x, y, n, c, s, d

NoneSpent ==
  \A g \in Goals : CashInOrder(g) /\ TracksCash(g, history[g]) => ~Spent(g)

LEMMA NoneIsSpent == CostsInv /\ ClockBounded => NoneSpent
BY NotOverdrawn, CashHeld DEF NoneSpent, HeldInCash

\* A goal whose cash is moved has all of it projected, before and after.
LEMMA MovedUnspent ==
  ASSUME CostsInv, CostsInv', ClockBounded, ClockBounded',
         NEW row \in rows, Execute(row), IsLast(row),
         NEW p \in Touched(row), IsCash(p[2])
  PROVE  ~Spent(p[1]) /\ ~Spent(p[1])'
<1> DEFINE g == p[1]
<1>1. RecordsInv /\ RecordsInv' /\ RowsDated
  BY DEF CostsInv, RecordsInv, BookInv
<1>2. p \in Pools /\ g \in Goals
  BY <1>1, RowFacts, BookAssumption DEF Touched, Pools
<1>3. CashInOrder(g) /\ CashInOrder(g)'
  <2>1. CashInOrder(g)
    BY DEF IsLast, Touched
  <2>2. OrderedPools \subseteq OrderedPools'
    BY <1>1, OrderedStays
  <2> QED
    BY <2>1, <2>2 DEF CashInOrder
<1>4. TracksCash(g, history'[g])
  <2>1. history'[g] = history[g] \cup LegsAt(row, g)
    BY <1>1, <1>2, ExecuteIs DEF RecordsInv
  <2>2. IsCash(row.terms.source[2])
    BY <1>1, RowFacts, BookAssumption DEF Touched, IsCash
  <2>3. \E e \in LegsAt(row, g) : e.type \in CashLegs
    <3> DEFINE out == Leg(row, "source", "cash_out", row.terms.source, row.terms.units)
               in == Leg(row, "destination", "cash_in", row.terms.destination, row.terms.units)
    <3>1. out \in Leaving(row) /\ in \in Arriving(row)
      BY <2>2 DEF Leaving, Arriving
    <3>2. out.type \in CashLegs /\ in.type \in CashLegs
      BY DEF Leg, CashLegs
    <3> HIDE DEF out, in
    <3>3. out \in LegsAt(row, g) \/ in \in LegsAt(row, g)
      BY <3>1 DEF LegsAt, Touched
    <3> QED
      BY <3>2, <3>3
  <2> QED
    BY <2>1, <2>3 DEF TracksCash
<1>5. ~Spent(g)'
  <2>1. NoneSpent'
    BY NoneIsSpent, PTL
  <2> QED
    BY <1>2, <1>3, <1>4, <2>1 DEF NoneSpent
<1>6. ~Spent(g)
  <2> SUFFICES ASSUME NEW k \in CashAccounts PROVE ~Final(<<g, k>>).fails
    BY DEF Spent
  <2> DEFINE q == <<g, k>>
  <2>1. q \in Pools
    BY <1>2 DEF Pools
  <2>2. ~Final(q)'.fails
    BY <1>5 DEF Spent
  <2> HIDE DEF q
  <2>3. ~Final(q).fails
    BY <2>1, <2>2, FinalShift
  <2> QED
    BY <2>3 DEF q
<1> QED
  BY <1>5, <1>6

LEMMA HeldShift ==
  ASSUME CostsInv, CostsInv', ClockBounded, ClockBounded',
         NEW row \in rows, Execute(row), IsLast(row),
         NEW g \in Goals, NEW k \in Accounts
  PROVE  Held(g, k)' + Only(<<g, k>>, row.terms.source, Taken(row))
           = Held(g, k) + Only(<<g, k>>, row.terms.destination, Delivered(row))
<1> DEFINE q == <<g, k>>
           s == row.terms.source
           d == row.terms.destination
           n == Taken(row)
           c == Delivered(row)
           x == Final(q)
           y == Final(q)'
<1>1. q \in Pools
  BY DEF Pools, Accounts
<1>2. /\ n \in Int /\ c \in Int /\ x.cost \in Int /\ y.cost \in Int
      /\ y.cost + Only(q, s, n) = x.cost + Only(q, d, c)
      /\ q \notin Touched(row) => y = x
      /\ q \in Touched(row) => q \in OrderedPools /\ q \in OrderedPools'
  <2> HIDE DEF q
  <2> QED
    BY <1>1, FinalShift
<1>3. q \notin Touched(row) => Only(q, s, n) = 0 /\ Only(q, d, c) = 0
  BY DEF Only, Touched
<1>4. ASSUME Held(g, k)' = y.cost, Held(g, k) = x.cost
      PROVE  Held(g, k)' + Only(q, s, n) = Held(g, k) + Only(q, d, c)
  BY <1>2, <1>4
<1>5. ASSUME Held(g, k)' = Held(g, k), q \notin Touched(row)
      PROVE  Held(g, k)' + Only(q, s, n) = Held(g, k) + Only(q, d, c)
  BY <1>3, <1>5
<1>6. CASE k \in Positions
  <2>1. /\ Held(g, k) = IF x.units = 0 THEN 0 ELSE x.cost
        /\ q \in OrderedPools => Held(g, k) = x.cost
    BY <1>6, PositionsHeld DEF HeldInPositions
  <2>2. /\ Held(g, k)' = IF y.units = 0 THEN 0 ELSE y.cost
        /\ q \in OrderedPools' => Held(g, k)' = y.cost
    <3>1. HeldInPositions'
      BY PositionsHeld, PTL
    <3> QED
      BY <1>6, <3>1 DEF HeldInPositions
  <2>3. CASE q \in Touched(row)
    BY <1>2, <1>4, <2>1, <2>2, <2>3
  <2>4. CASE q \notin Touched(row)
    BY <1>2, <1>5, <2>1, <2>2, <2>4
  <2> QED
    BY <2>3, <2>4
<1>7. CASE k \in CashAccounts
  <2> DEFINE rate == OpeningCost[g][k] + (Total(Values(history[g]), InOf(history[g], k))
                                           - Total(Values(history[g]), OutOf(history[g], k)))
  <2>1. Held(g, k) = IF Spent(g) THEN rate ELSE x.cost
    BY <1>7, CashHeld DEF HeldInCash
  <2>2. Held(g, k)' = IF Spent(g)' THEN rate' ELSE y.cost
    <3>1. HeldInCash'
      BY CashHeld, PTL
    <3> QED
      BY <1>7, <3>1 DEF HeldInCash
  <2>3. rate' = rate
    BY RatesStay DEF CostsInv
  <2> HIDE DEF rate
  <2>4. CASE \E p \in Touched(row) : IsCash(p[2]) /\ p[1] = g
    <3>1. ~Spent(g) /\ ~Spent(g)'
      BY <2>4, MovedUnspent
    <3> QED
      BY <1>4, <2>1, <2>2, <3>1
  <2>5. CASE ~\E p \in Touched(row) : IsCash(p[2]) /\ p[1] = g
    <3>1. ASSUME NEW j \in CashAccounts
          PROVE  <<g, j>> \notin Touched(row) /\ Final(<<g, j>>)' = Final(<<g, j>>)
      <4> DEFINE o == <<g, j>>
      <4>1. o \in Pools /\ o \notin Touched(row)
        BY <2>5 DEF Pools, IsCash
      <4> HIDE DEF o
      <4>2. Final(o)' = Final(o)
        BY <4>1, FinalShift
      <4> QED
        BY <4>1, <4>2 DEF o
    <3>2. Spent(g)' = Spent(g)
      BY <3>1 DEF Spent
    <3>3. q \notin Touched(row) /\ y = x
      BY <1>7, <3>1
    <3> QED
      BY <1>5, <2>1, <2>2, <2>3, <3>2, <3>3
  <2> QED
    BY <2>4, <2>5
<1> QED
  BY <1>6, <1>7 DEF Accounts

-----------------------------------------------------------------------------
(* The portfolio before and after it.                                      *)

PortfolioCounted ==
  /\ \A g \in Goals : \A k \in Accounts : Stocks[g][k] = Held(g, k) /\ Held(g, k) \in Int
  /\ TotalBookValue(Snapshot) = Total(OnPlatforms(Stocks), Platforms)
  /\ \A g \in Goals : FeesOf(g) \in Int
  /\ TotalFees(Snapshot) = Total([g \in Goals |-> FeesOf(g)], Goals)

LEMMA PortfolioIsCounted == CostsInv => PortfolioCounted
BY StocksAddUp, FeesAddUp DEF PortfolioCounted

CommissionOf(row) == Commission(SourcePool(row), row.terms)

\* The fees of a goal grow by the commission, where it was paid.
LEMMA FeesShift ==
  ASSUME CostsInv, CostsInv', NEW row \in rows, Execute(row), NEW g \in Goals
  PROVE  FeesOf(g)' = FeesOf(g) + Only(g, row.terms.source[1], CommissionOf(row))
<1> DEFINE E == history[g]
           F == Fees(g)
           G == {e \in history'[g] : e.type \in {"cash_fee", "asset_fee"}}
           v == Carries(E)
           w == [e \in history'[g] |-> IF e.id \in DOMAIN book' THEN book'[e.id] ELSE 0]
           t == row.terms
           m == Leg(row, "commission", IF IsCash(t.source[2]) THEN "cash_fee" ELSE "asset_fee",
                    t.source, t.fee)
<1>1. /\ RecordsInv /\ BookInv /\ CostsRecorded /\ RowsDated
      /\ row.status = "pending" /\ Acceptable(row) /\ book' = BookOf(row)
      /\ history'[g] = E \cup LegsAt(row, g)
  BY ExecuteIs DEF CostsInv, RecordsInv, BookInv
<1>2. FeesOf(g) = Total(v, F) /\ FeesOf(g)' = Total(w, G)
  BY DEF FeesOf, Carries, Fees
<1>3. CommissionOf(row) \in Nat /\ (t.fee = 0 => CommissionOf(row) = 0)
  BY <1>1, DeliveredIs DEF CommissionOf
<1>4. \A e \in LegsAt(row, g) : e.type \in {"cash_fee", "asset_fee"}
                                  <=> g = t.source[1] /\ t.fee # 0 /\ e = m
  BY DEF LegsAt, Leaving, Arriving, Leg
<1>5. g = t.source[1] /\ t.fee # 0 => m \in LegsAt(row, g)
  BY DEF LegsAt, Leaving
<1>6. G = F \cup (IF g = t.source[1] /\ t.fee # 0 THEN {m} ELSE {})
  <2> HIDE DEF m
  <2> QED
    BY <1>1, <1>4, <1>5 DEF Fees
<1>7. IsFiniteSet(F) /\ F \subseteq E
  BY <1>1, HistoryCounted, FS_Subset DEF Sortable, Fees
<1>8. \A e \in F : v[e] = w[e] /\ v[e] \in Int
  <2> SUFFICES ASSUME NEW e \in F PROVE v[e] = w[e] /\ v[e] \in Int
    OBVIOUS
  <2>1. e \in E /\ e \in history'[g]
    BY <1>1, <1>7
  <2>2. SameCost(book, book', e.id)
    BY <1>1, <2>1, LegIdsAreNew, OthersKeepCosts
  <2>3. v[e] = IF e.id \in DOMAIN book THEN book[e.id] ELSE 0
    BY <2>1 DEF Carries
  <2>4. w[e] = IF e.id \in DOMAIN book' THEN book'[e.id] ELSE 0
    BY <2>1
  <2>5. \A i \in DOMAIN book : book[i] \in Nat
    BY <1>1 DEF CostsRecorded
  <2> HIDE DEF v, w
  <2> QED
    BY <2>2, <2>3, <2>4, <2>5 DEF SameCost
<1> HIDE DEF F, G, v
<1>9. Total(w, F) = Total(v, F) /\ Total(v, F) \in Int
  <2> HIDE DEF w
  <2> QED
    BY <1>7, <1>8, TotalOfEqual, TotalIsInt
<1>10. CASE g = t.source[1] /\ t.fee # 0
  <2>1. m \in history'[g] /\ m.id = LegId(row, "commission")
    BY <1>1, <1>5, <1>10 DEF Leg
  <2>2. m \notin F
    <3>1. "commission" \in AllSides
      BY DEF AllSides
    <3> QED
      BY <1>1, <1>7, <2>1, <3>1, LegIdsAreNew DEF LegId
  <2>3. m.id \in DOMAIN book' /\ book'[m.id] = CommissionOf(row)
    <3>1. /\ DOMAIN book' = DOMAIN book \cup {LegId(row, side) : side \in Sides(row)}
          /\ book'[LegId(row, "commission")] = CommissionOf(row)
      BY <1>1, <1>10, RecordedIs DEF CommissionOf
    <3>2. "commission" \in Sides(row)
      BY <1>10 DEF Sides, AllSides
    <3> QED
      BY <2>1, <3>1, <3>2
  <2>4. w[m] = CommissionOf(row)
    <3> HIDE DEF m
    <3> QED
      BY <2>1, <2>3
  <2> HIDE DEF w, m
  <2>5. \A e \in F \cup {m} : w[e] \in Int
    BY <1>3, <1>8, <2>4
  <2>6. Total(w, F \cup {m}) = w[m] + Total(w, F)
    BY <1>7, <2>2, <2>5, TotalAdd
  <2>7. Total(w, G) = CommissionOf(row) + Total(v, F)
    BY <1>6, <1>9, <1>10, <2>4, <2>6
  <2> HIDE DEF t
  <2> QED
    BY <1>2, <1>3, <1>9, <1>10, <2>7 DEF Only, t
<1>11. CASE ~(g = t.source[1] /\ t.fee # 0)
  <2> HIDE DEF w, m
  <2>1. Total(w, G) = Total(v, F)
    BY <1>6, <1>9, <1>11
  <2>2. Only(g, t.source[1], CommissionOf(row)) = 0
    BY <1>3, <1>11 DEF Only
  <2> QED
    BY <1>2, <1>9, <2>1, <2>2
<1> QED
  BY <1>10, <1>11

LEMMA PortfolioKept ==
  ASSUME CostsInv, CostsInv', ClockBounded, ClockBounded',
         NEW row \in rows, Execute(row), IsLast(row)
  PROVE  (TotalBookValue(Snapshot) + TotalFees(Snapshot))'
           = TotalBookValue(Snapshot) + TotalFees(Snapshot)
<1> DEFINE s == row.terms.source
           d == row.terms.destination
           n == Taken(row)
           c == Delivered(row)
           f == CommissionOf(row)
<1>1. BookInv /\ CostsRecorded /\ RowsDated /\ Acceptable(row)
  BY ExecuteIs DEF CostsInv, RecordsInv, BookInv
<1>2. c \in Nat /\ f \in Nat /\ n = c + f
  BY <1>1, DeliveredIs DEF Taken, CommissionOf
<1>3. s \in Pools /\ d \in Pools /\ s[1] \in Goals
  BY <1>1, RowFacts, BookAssumption DEF Pools
<1>4. PortfolioCounted /\ PortfolioCounted'
  BY PortfolioIsCounted, PTL
<1>5. TotalBookValue(Snapshot)' + n = TotalBookValue(Snapshot) + c
      /\ TotalBookValue(Snapshot) \in Int /\ TotalBookValue(Snapshot)' \in Int
  <2> DEFINE V == Stocks
             W == Stocks'
  <2>1. \A g \in Goals : \A k \in Accounts :
          /\ V[g][k] \in Int /\ W[g][k] \in Int
          /\ V[g][k] = Held(g, k) /\ W[g][k] = Held(g, k)'
    BY <1>4 DEF PortfolioCounted
  <2>2. \A g \in Goals : \A k \in Accounts :
          W[g][k] + Only(<<g, k>>, s, n) = V[g][k] + Only(<<g, k>>, d, c)
    BY <2>1, HeldShift
  <2>3. TotalBookValue(Snapshot) = Total(OnPlatforms(V), Platforms)
    BY <1>4 DEF PortfolioCounted
  <2>4. TotalBookValue(Snapshot)' = Total(OnPlatforms(W), Platforms)
    BY <1>4 DEF PortfolioCounted
  <2>5. n \in Int /\ c \in Int
    BY <1>2
  <2> HIDE DEF V, W, s, d, n, c
  <2>6. Total(OnPlatforms(W), Platforms) + n = Total(OnPlatforms(V), Platforms) + c
    <3>1. \A g \in Goals : \A k \in Accounts : V[g][k] \in Int /\ W[g][k] \in Int
      BY <2>1
    <3>2. s \in Pools /\ d \in Pools
      BY <1>3
    <3> QED
      BY <2>2, <2>5, <3>1, <3>2, PortfolioShift
  <2>7. Total(OnPlatforms(W), Platforms) \in Int /\ Total(OnPlatforms(V), Platforms) \in Int
    BY <2>1, OnPlatformsType
  <2> QED
    BY <2>3, <2>4, <2>6, <2>7
<1>6. TotalFees(Snapshot)' = TotalFees(Snapshot) + f
      /\ TotalFees(Snapshot) \in Int /\ TotalFees(Snapshot)' \in Int
  <2> DEFINE a == s[1]
             v == [g \in Goals |-> FeesOf(g)]
             w == [g \in Goals |-> FeesOf(g)']
             z == 0
  <2>1. \A g \in Goals : v[g] \in Int /\ w[g] \in Int
    BY <1>4 DEF PortfolioCounted
  <2>2. \A g \in Goals : w[g] + Only(g, a, z) = v[g] + Only(g, a, f)
    <3> SUFFICES ASSUME NEW g \in Goals
                 PROVE  w[g] + Only(g, a, z) = v[g] + Only(g, a, f)
      OBVIOUS
    <3>1. FeesOf(g)' = FeesOf(g) + Only(g, a, f)
      BY FeesShift
    <3>2. Only(g, a, z) = 0
      BY DEF Only
    <3>3. w[g] = FeesOf(g)' /\ v[g] = FeesOf(g)
      OBVIOUS
    <3> HIDE DEF v, w, a, z
    <3> QED
      BY <2>1, <3>1, <3>2, <3>3
  <2>3. TotalFees(Snapshot) = Total(v, Goals)
    BY <1>4 DEF PortfolioCounted
  <2>4. TotalFees(Snapshot)' = Total(w, Goals)
    BY <1>4 DEF PortfolioCounted
  <2>5. z \in Int /\ f \in Int /\ IsFiniteSet(Goals)
    BY <1>2, PlatformsFinite
  <2>6. Within(a, Goals, z) = 0 /\ Within(a, Goals, f) = f
    BY <1>3 DEF Within
  <2> HIDE DEF v, w, a, z, f, s
  <2>7. Total(w, Goals) + Within(a, Goals, z) = Total(v, Goals) + Within(a, Goals, f)
    BY <2>1, <2>2, <2>5, TotalShift
  <2>8. Total(w, Goals) \in Int /\ Total(v, Goals) \in Int
    BY <2>1, <2>5, TotalIsInt
  <2> QED
    BY <2>3, <2>4, <2>5, <2>6, <2>7, <2>8
<1> HIDE DEF n, c, f
<1> QED
  BY <1>2, <1>5, <1>6

\* Only its own execution completes a transfer.
LEMMA CompletedByExecution ==
  ASSUME RecordsInv, [BookNext]_bookVars, NEW row \in rows, row.status = "pending",
         NEW r \in rows', r.id = row.id, r.status = "completed"
  PROVE  Execute(row)
<1>1. RowsDated
  BY DEF RecordsInv, BookInv
<1>2. r \notin rows
  BY <1>1 DEF RowsDated
<1>3. rows' # rows
  BY <1>2
<1>4. CASE BookNext
  <2>1. ASSUME NEW g \in Goals, RewriteStep(g)
        PROVE  FALSE
    BY <1>3, <2>1 DEF RewriteStep, Rewrite
  <2>2. ASSUME NEW i \in Ids, NEW terms \in Terms, Accept(i, terms)
        PROVE  FALSE
    BY <1>2, <2>2 DEF Accept
  <2>3. ASSUME NEW x \in rows, Execute(x)
        PROVE  Execute(row)
    <3>1. r = [x EXCEPT !.status = "completed"]
      BY <1>2, <2>3 DEF Execute, Settle
    <3>2. x.id = row.id
      BY <1>1, <3>1 DEF RowsDated, BookRow
    <3> QED
      BY <1>1, <2>3, <3>2 DEF RowsDated
  <2>4. ASSUME NEW x \in rows, Reject(x)
        PROVE  FALSE
    <3>1. r = [x EXCEPT !.status = "rejected"]
      BY <1>2, <2>4 DEF Reject, Settle
    <3> QED
      BY <1>1, <3>1 DEF RowsDated, BookRow
  <2>5. CASE Tick
    BY <1>3, <2>5 DEF Tick
  <2> QED
    BY <1>4, <2>1, <2>2, <2>3, <2>4, <2>5 DEF BookNext
<1>5. CASE UNCHANGED bookVars
  BY <1>3, <1>5 DEF bookVars
<1> QED
  BY <1>4, <1>5

\* A transfer that is the last thing to happen to its accounts makes no book
\* value and destroys none: what the platforms hold falls by its commission, and
\* the fees paid grow by it.
THEOREM PortfolioKeepsValue == BookSpec => TransfersKeepValue
<1> DEFINE Keeps ==
             LET next == [entries |-> history', costs |-> book']
             IN \A row \in rows :
                  /\ row.status = "pending" /\ IsLast(row)
                  /\ \E r \in rows' : r.id = row.id /\ r.status = "completed"
                  => TotalBookValue(next) + TotalFees(next)
                       = TotalBookValue(Snapshot) + TotalFees(Snapshot)
<1>1. CostsInv /\ CostsInv' /\ ClockBounded /\ ClockBounded' /\ [BookNext]_bookVars
        => [Keeps]_bookVars
  <2> SUFFICES ASSUME CostsInv, CostsInv', ClockBounded, ClockBounded', [BookNext]_bookVars,
                      NEW row \in rows, row.status = "pending", IsLast(row),
                      NEW r \in rows', r.id = row.id, r.status = "completed"
               PROVE  LET next == [entries |-> history', costs |-> book']
                      IN TotalBookValue(next) + TotalFees(next)
                           = TotalBookValue(Snapshot) + TotalFees(Snapshot)
    OBVIOUS
  <2>1. Execute(row)
    BY CompletedByExecution DEF CostsInv
  <2>2. (TotalBookValue(Snapshot) + TotalFees(Snapshot))'
          = TotalBookValue(Snapshot) + TotalFees(Snapshot)
    BY <2>1, PortfolioKept
  <2> QED
    BY <2>2 DEF Snapshot
<1> QED
  BY <1>1, CostsInvariant, ClockInvariant, PTL DEF BookSpec, TransfersKeepValue
=============================================================================
