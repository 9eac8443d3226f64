----------------------------- MODULE RootProofs -----------------------------
(***************************************************************************)
(* What a root keeps, for every set of origins and parents, every clock,    *)
(* every pair of counter regions and every limit:                           *)
(*   - the pair of slots a floor is stored in (RedundantStore) implements   *)
(*     one atomic record;                                                   *)
(*   - the table of edges (DaoRoot) follows the stored floors, has no       *)
(*     cycle, and its routes are real;                                      *)
(*   - a root and a leaf that lost their common counter (PathSync) agree    *)
(*     again after a bounded number of DAOs.                                *)
(***************************************************************************)
EXTENDS DaoRoot, PathSync, RedundantStore, AccessOrderProofs

(***************************************************************************)
(* The durable store.                                                       *)
(***************************************************************************)

\* A client's handle never runs ahead of the stored generation, and a handle
\* of the stored generation names the stored slot and carries its payload.
HandleBound ==
    \A c \in Clients :
        handle[c].gen > 0 =>
            /\ Readable(slots)
            /\ handle[c].gen <= slots[Latest(slots)].gen
            /\ handle[c].gen = slots[Latest(slots)].gen =>
                  /\ handle[c].slot = Latest(slots)
                  /\ cache[c] = slots[Latest(slots)].val

\* A client without a handle has no payload; a parsed copy has a generation.
Wellformed ==
    /\ \A c \in Clients : handle[c].gen = 0 => cache[c] = NoPayload
    /\ \A i \in {0, 1} : Parses(slots, i) => slots[i].gen > 0

\* The inductive invariant.
StoreInv == TypeOK /\ CopiesConsecutive /\ HandleBound /\ Wellformed

\* The initial state satisfies the invariant.
LEMMA StoreInitInv == StoreInit => StoreInv
BY MaxGenAssumption DEF StoreInit, StoreInv, TypeOK, CopiesConsecutive, HandleBound,
   Wellformed, SlotValues, Blank, NoHandle, Parses, Readable

\* Every step keeps it: one case per action.
LEMMA StoreNextInv == StoreInv /\ [StoreNext]_storeVars => StoreInv'
<1> SUFFICES ASSUME StoreInv, [StoreNext]_storeVars PROVE StoreInv'
  OBVIOUS
<1> USE DEF StoreInv, TypeOK, CopiesConsecutive, HandleBound, Wellformed, SlotValues,
        Parses, Readable, Latest, Blank, Record, NoHandle
<1>1. ASSUME NEW v \in Payloads, Provision(v) PROVE StoreInv'
  BY <1>1, MaxGenAssumption DEF Provision, Missing
<1>2. ASSUME NEW v \in Payloads, CrashInProvision(v) PROVE StoreInv'
  BY <1>2, MaxGenAssumption DEF CrashInProvision, Missing, Reset
<1>3. ASSUME NEW c \in Clients, Open(c) PROVE StoreInv'
  BY <1>3, MaxGenAssumption DEF Open
<1>4. ASSUME NEW c \in Clients, NEW v \in Payloads, Update(c, v) PROVE StoreInv'
  BY <1>4, MaxGenAssumption DEF Update, CanUpdate, IsCurrent, TargetSlot
<1>5. ASSUME NEW c \in Clients, NEW v \in Payloads, CrashInUpdate(c, v) PROVE StoreInv'
  BY <1>5, MaxGenAssumption DEF CrashInUpdate, CanUpdate, IsCurrent, TargetSlot, Reset
<1>6. CASE PowerLoss
  BY <1>6, MaxGenAssumption DEF PowerLoss, Reset
<1>7. CASE UNCHANGED storeVars
  BY <1>7 DEF storeVars
<1> QED BY <1>1, <1>2, <1>3, <1>4, <1>5, <1>6, <1>7 DEF StoreNext

\* TypeOK holds in every reachable state.
THEOREM StoreTypeCorrect == StoreSpec => []TypeOK
BY StoreInitInv, StoreNextInv, PTL DEF StoreSpec, StoreInv

\* The two copies are always consecutive generations, and a pair that does
\* not parse was never acknowledged (open_redundant's Corrupt).
THEOREM StoreConsecutive == StoreSpec => []CopiesConsecutive
BY StoreInitInv, StoreNextInv, PTL DEF StoreSpec, StoreInv

\* Whoever may update holds the stored payload (the Stale check of
\* update_redundant is enough).
THEOREM StoreCoherent == StoreSpec => []HandleCoherent
<1>1. StoreInv => HandleCoherent
  BY DEF StoreInv, HandleBound, Wellformed, TypeOK, SlotValues, HandleCoherent, IsCurrent,
     View, Readable, Latest, Parses
<1> QED BY <1>1, StoreInitInv, StoreNextInv, PTL DEF StoreSpec

\* The initial state maps to the initial state of the atomic record.
LEMMA StoreInitRefines == StoreInit => Abs!Init
BY DEF StoreInit, Abs!Init, View, Readable, Missing, Parses, Blank, NoHandle,
   Abs!Blank, Abs!Nothing

\* Every step maps to a step of the atomic record or changes nothing there.
LEMMA StoreNextRefines == StoreInv /\ [StoreNext]_storeVars => [Abs!Next]_(Abs!vars)
<1> SUFFICES ASSUME StoreInv, [StoreNext]_storeVars PROVE [Abs!Next]_(Abs!vars)
  OBVIOUS
<1> USE DEF StoreInv, TypeOK, CopiesConsecutive, HandleBound, Wellformed, SlotValues,
        Parses, Readable, Latest, Blank, Record, NoHandle, View, Missing,
        Abs!Blank, Abs!Record, Abs!Nothing, Abs!Copy
<1>1. ASSUME NEW v \in Payloads, Provision(v) PROVE Abs!Provision(v)
  BY <1>1 DEF Provision, Abs!Provision
<1>2. ASSUME NEW v \in Payloads, CrashInProvision(v) PROVE Abs!PowerLoss
  BY <1>2 DEF CrashInProvision, Reset, Abs!PowerLoss
<1>3. ASSUME NEW c \in Clients, Open(c) PROVE Abs!Open(c)
  BY <1>3 DEF Open, Abs!Open
<1>4. ASSUME NEW c \in Clients, NEW v \in Payloads, Update(c, v) PROVE Abs!Update(c, v)
  <2> USE <1>4 DEF Update, CanUpdate, IsCurrent, TargetSlot
  <2>1. /\ View(slots).kind = "record" /\ View(slots).gen = handle[c].gen
        /\ View(slots).val = cache[c] /\ handle[c].gen < MaxGen
    OBVIOUS
  <2>2. View(slots)' = Record(handle[c].gen + 1, v)
    OBVIOUS
  <2>3. \A d \in Clients : d # c => handle'[d] = handle[d] /\ cache'[d] = cache[d]
    OBVIOUS
  <2>4. handle'[c].gen = handle[c].gen + 1 /\ cache'[c] = v
    OBVIOUS
  <2> HIDE <1>4 DEF Update, CanUpdate, IsCurrent, TargetSlot, StoreInv, View, Latest
  <2> QED BY <2>1, <2>2, <2>3, <2>4 DEF Abs!Update
<1>5. ASSUME NEW c \in Clients, NEW v \in Payloads, CrashInUpdate(c, v) PROVE Abs!PowerLoss
  BY <1>5 DEF CrashInUpdate, CanUpdate, IsCurrent, TargetSlot, Reset, Abs!PowerLoss
<1>6. CASE PowerLoss
  BY <1>6 DEF PowerLoss, Reset, Abs!PowerLoss, Abs!Next
<1>7. CASE UNCHANGED storeVars
  BY <1>7 DEF storeVars, Abs!vars
<1> QED BY <1>1, <1>2, <1>3, <1>4, <1>5, <1>6, <1>7 DEF StoreNext, Abs!Next

\* The pair of slots implements one atomic durable record: no acknowledged
\* value is lost or rolled back, no stale handle replaces it.
THEOREM StoreRefinement == StoreSpec => AtomicRecord
BY StoreInitInv, StoreNextInv, StoreInitRefines, StoreNextRefines, PTL DEF StoreSpec, AtomicRecord, Abs!Spec

-----------------------------------------------------------------------------

(***************************************************************************)
(* Walks along the edges: Chain, and the routes that follow it.             *)
(***************************************************************************)

\* How many origins there are: what get_path and would_create_loop bound their
\* walks by.
Nodes == Cardinality(Origins)

\* The number of origins is a number.
LEMMA NodesNat == Nodes \in Nat
BY RootAssumption, FS_CardinalityType DEF Nodes

\* The recursive function of Chain exists.
LEMMA ChainDef ==
    ASSUME NEW es, NEW o
    PROVE  Chain(es, o) = [k \in 0 .. Nodes |->
               IF k = 0 THEN o
               ELSE IF Chain(es, o)[k - 1] \in Origins THEN Above(es, Chain(es, o)[k - 1]) ELSE NoEdge]
<1> DEFINE next(x) == IF x \in Origins THEN Above(es, x) ELSE NoEdge
           Is(g, n) == g = [k \in 0 .. n |-> IF k = 0 THEN o ELSE next(g[k - 1])]
           T == {n \in Nat : ~ \E g : Is(g, n)}
<1>1. ASSUME NEW n \in Nat, n \in T, \A m \in T : n <= m
      PROVE  FALSE
    <2>1. CASE n = 0
        <3> DEFINE g == [k \in 0 .. 0 |-> o]
        <3>1. g = [k \in 0 .. 0 |-> IF k = 0 THEN o ELSE next(g[k - 1])]
            OBVIOUS
        <3> QED
            BY <1>1, <2>1, <3>1
    <2>2. CASE n # 0
        <3>1. n - 1 \in Nat /\ n - 1 \notin T
            <4> HIDE DEF T
            <4> QED
                BY <1>1, <2>2
        <3>2. PICK g : Is(g, n - 1)
            BY <3>1
        <3> DEFINE h == [k \in 0 .. n |-> IF k < n THEN g[k] ELSE next(g[n - 1])]
        <3> HIDE DEF next
        <3>3. \A k \in 0 .. n : h[k] = IF k = 0 THEN o ELSE next(h[k - 1])
            <4> SUFFICES ASSUME NEW k \in 0 .. n
                         PROVE  h[k] = IF k = 0 THEN o ELSE next(h[k - 1])
                OBVIOUS
            <4>1. CASE k < n
                <5>1. h[k] = g[k] /\ (k # 0 => h[k - 1] = g[k - 1])
                    BY <4>1
                <5>2. g[k] = IF k = 0 THEN o ELSE next(g[k - 1])
                    BY <3>2, <4>1
                <5> QED
                    BY <5>1, <5>2
            <4>2. CASE k = n
                BY <2>2, <4>2
            <4> QED
                BY <4>1, <4>2
        <3>4. Is(h, n)
            <4> DEFINE r == [k \in 0 .. n |-> IF k = 0 THEN o ELSE next(h[k - 1])]
            <4>1. \A k \in 0 .. n : h[k] = r[k]
                BY <3>3
            <4>2. h = r
                BY <4>1
            <4> QED
                BY <4>2
        <3> HIDE DEF h
        <3> QED
            BY <1>1, <3>4
    <2> QED
        BY <2>1, <2>2
<1>2. T = {}
    <2>1. T \in SUBSET Nat
        OBVIOUS
    <2> QED
        BY <1>1, <2>1, LeastNat
<1>3. \E g : Is(g, Nodes)
    BY <1>2, NodesNat
<1>4. Chain(es, o) = CHOOSE g : Is(g, Nodes)
    BY DEF Chain, Nodes
<1> HIDE DEF next
<1>5. Is(Chain(es, o), Nodes)
    BY <1>3, <1>4
<1> QED
    BY <1>5 DEF next

\* A chain starts at its node and goes on to the parent of each, or ends.
LEMMA ChainSteps ==
    ASSUME NEW es, NEW o
    PROVE  /\ Chain(es, o)[0] = o
           /\ \A k \in 0 .. Nodes - 1 : Chain(es, o)[k + 1] = Above(es, Chain(es, o)[k])
<1> DEFINE c == Chain(es, o)
           d(k) == IF k = 0 THEN o
                   ELSE IF c[k - 1] \in Origins THEN Above(es, c[k - 1]) ELSE NoEdge
<1>1. c = [k \in 0 .. Nodes |-> d(k)]
    BY ChainDef
<1> HIDE DEF c
<1>2. \A k \in 0 .. Nodes : c[k] = d(k)
    BY <1>1
<1>3. c[0] = o
    BY <1>2, NodesNat
<1>4. ASSUME NEW k \in 0 .. Nodes - 1
      PROVE  c[k + 1] = Above(es, c[k])
    <2>1. k + 1 \in 0 .. Nodes /\ k + 1 # 0 /\ (k + 1) - 1 = k
        BY NodesNat
    <2>2. c[k + 1] = d(k + 1)
        BY <1>2, <2>1
    <2> QED
        BY <2>1, <2>2 DEF Above
<1> QED
    BY <1>3, <1>4 DEF c

\* A chain that has left the origins has ended.
LEMMA ChainEnds ==
    ASSUME NEW es, NEW o, NEW j \in Nat, NEW m \in Nat, j < m, m <= Nodes,
           Chain(es, o)[j] \notin Origins
    PROVE  Chain(es, o)[m] = NoEdge
<1> DEFINE c == Chain(es, o)
           T == {i \in Nat : j < i /\ i <= Nodes /\ c[i] # NoEdge}
<1> HIDE DEF c
<1>1. SUFFICES ASSUME T # {}
               PROVE  FALSE
    BY DEF c
<1>2. PICK i \in T : \A k \in T : i <= k
    BY <1>1, LeastNat
<1>3. i - 1 \in 0 .. Nodes - 1 /\ c[i] = Above(es, c[i - 1]) /\ j <= i - 1
    BY <1>2, ChainSteps, NodesNat DEF c
<1>4. c[i - 1] \notin Origins
    <2>1. CASE j = i - 1
        BY <2>1 DEF c
    <2>2. CASE j < i - 1
        <3>1. i - 1 \notin T
            BY <1>2
        <3>2. i - 1 \in Nat /\ j < i - 1 /\ i - 1 <= Nodes
            BY <1>3, <2>2, NodesNat
        <3>3. c[i - 1] = NoEdge
            BY <3>1, <3>2
        <3> QED
            BY <3>3, RootAssumption
    <2> QED
        BY <1>3, <2>1, <2>2
<1> QED
    BY <1>2, <1>3, <1>4 DEF Above

\* The chain of a node on a chain is the rest of it.
LEMMA ChainShift ==
    ASSUME NEW es, NEW o, NEW i \in Nat, NEW j \in Nat, i + j <= Nodes
    PROVE  Chain(es, Chain(es, o)[i])[j] = Chain(es, o)[i + j]
<1> DEFINE c == Chain(es, o)
           x == c[i]
           d == Chain(es, x)
           T == {n \in Nat : i + n <= Nodes /\ d[n] # c[i + n]}
<1>a. /\ d[0] = x
      /\ \A k \in 0 .. Nodes - 1 : d[k + 1] = Above(es, d[k])
      /\ \A k \in 0 .. Nodes - 1 : c[k + 1] = Above(es, c[k])
    BY ChainSteps
<1> HIDE DEF c, d
<1>1. SUFFICES ASSUME T # {}
               PROVE  FALSE
    BY DEF c, d
<1>2. PICK n \in T : \A k \in T : n <= k
    BY <1>1, LeastNat
<1>3. n # 0
    BY <1>2, <1>a
<1>4. n - 1 \in Nat /\ n - 1 \notin T /\ n - 1 \in 0 .. Nodes - 1 /\ i + n - 1 \in 0 .. Nodes - 1
    BY <1>2, <1>3, NodesNat
<1>5. d[n - 1] = c[i + n - 1]
    BY <1>4, NodesNat
<1>6. d[n] = Above(es, d[n - 1]) /\ c[i + n] = Above(es, c[i + n - 1])
    BY <1>4, <1>a
<1> QED
    BY <1>2, <1>5, <1>6

-----------------------------------------------------------------------------
\* The tables of edges.
EdgeMaps == [Origins -> Edges \cup {NoEdge}]

\* Every set of origins has a way out.
Exits(es) ==
    \A S \in (SUBSET Origins) \ {{}} : \E o \in S : es[o] = NoEdge \/ es[o].parent \notin S

\* contains_cycle finds every loop: a set of origins without a way out has a
\* chain within it as long as there are origins, in which one comes twice.
LEMMA CycleFound ==
    ASSUME NEW es \in EdgeMaps, ~ContainsCycle(es)
    PROVE  Exits(es)
<1> SUFFICES ASSUME NEW S \in (SUBSET Origins) \ {{}}
             PROVE  \E o \in S : es[o] = NoEdge \/ es[o].parent \notin S
    BY DEF Exits
<1> SUFFICES ASSUME \A o \in S : es[o] # NoEdge /\ es[o].parent \in S
             PROVE  FALSE
    OBVIOUS
<1>1. PICK o \in S : TRUE
    OBVIOUS
<1> DEFINE c == Chain(es, o)
           T == {k \in Nat : k <= Nodes /\ c[k] \notin S}
<1>2. c[0] = o /\ \A k \in 0 .. Nodes - 1 : c[k + 1] = Above(es, c[k])
    BY ChainSteps
<1> HIDE DEF c
<1>3. T = {}
    <2> SUFFICES ASSUME T # {}
                 PROVE  FALSE
        OBVIOUS
    <2>1. PICK n \in T : \A k \in T : n <= k
        BY LeastNat
    <2>2. n # 0
        BY <1>2, <2>1
    <2>3. n - 1 \in 0 .. Nodes - 1 /\ n - 1 \notin T
        BY <2>1, <2>2, NodesNat
    <2>4. c[n - 1] \in S /\ c[n] = Above(es, c[n - 1])
        BY <1>2, <2>3, NodesNat
    <2> QED
        BY <2>1, <2>4 DEF Above
<1> DEFINE f == [k \in 0 .. Nodes |-> c[k]]
<1>4. f \in [0 .. Nodes -> Origins]
    BY <1>3, NodesNat
<1>5. PICK a, b \in 0 .. Nodes : a # b /\ f[a] = f[b]
    <2>1. IsFiniteSet(0 .. Nodes) /\ Cardinality(0 .. Nodes) = Nodes + 1
        BY NodesNat, FS_Interval
    <2>2. Cardinality(Origins) < Cardinality(0 .. Nodes) /\ IsFiniteSet(Origins)
        BY <2>1, NodesNat, RootAssumption DEF Nodes
    <2> DEFINE D == 0 .. Nodes
    <2>3. f \in [D -> Origins] /\ IsFiniteSet(D) /\ Cardinality(Origins) < Cardinality(D)
        BY <1>4, <2>1, <2>2
    <2> HIDE DEF f, D
    <2>4. \E a, b \in D : a # b /\ f[a] = f[b]
        BY <2>2, <2>3, FS_PigeonHole, SMTT(30)
    <2> QED
        BY <2>4 DEF D
<1>6. \E i, j \in 0 .. Nodes : i < j /\ c[i] = c[j]
    BY <1>5, NodesNat
<1>7. PICK i, j \in 0 .. Nodes : i < j /\ c[i] = c[j]
    BY <1>6
<1>8. c[i] \in Origins /\ j - i \in 1 .. Nodes /\ j - i \in Nat /\ i \in Nat /\ i + (j - i) = j
    BY <1>3, <1>7, NodesNat
<1>9. Chain(es, c[i])[j - i] = c[i + (j - i)]
    <2>1. i + (j - i) <= Nodes
        BY <1>7, <1>8, NodesNat
    <2>2. Chain(es, Chain(es, o)[i])[j - i] = Chain(es, o)[i + (j - i)]
        BY <1>8, <2>1, ChainShift
    <2> QED
        BY <2>2 DEF c
<1> QED
    BY <1>7, <1>8, <1>9 DEF ContainsCycle, Nodes

\* The nodes of a chain before one that is an origin or the root have edges.
LEMMA ChainLinked ==
    ASSUME NEW es \in EdgeMaps, NEW o, NEW n \in 1 .. Nodes, Chain(es, o)[n] \in Parents,
           NEW k \in 0 .. n - 1
    PROVE  /\ Chain(es, o)[k] \in Origins
           /\ es[Chain(es, o)[k]] # NoEdge
           /\ es[Chain(es, o)[k]].parent = Chain(es, o)[k + 1]
<1>1. \A j \in 0 .. n - 1 : Chain(es, o)[j] \in Origins
    <2> SUFFICES ASSUME NEW j \in 0 .. n - 1, Chain(es, o)[j] \notin Origins
                 PROVE  FALSE
        OBVIOUS
    <2>1. Chain(es, o)[n] = NoEdge
        BY ChainEnds, NodesNat
    <2> QED
        BY <2>1, RootAssumption
<1>2. Chain(es, o)[k + 1] = Above(es, Chain(es, o)[k])
    BY ChainSteps, NodesNat
<1>3. Chain(es, o)[k + 1] # NoEdge
    <2>1. CASE k + 1 = n
        BY <2>1, RootAssumption
    <2>2. CASE k + 1 # n
        <3>1. k + 1 \in 0 .. n - 1
            BY <2>2, NodesNat
        <3> QED
            BY <1>1, <3>1, RootAssumption
    <2> QED
        BY <2>1, <2>2
<1> QED
    BY <1>1, <1>2, <1>3 DEF Above

\* And it reports nothing else.
LEMMA NoFalseCycle ==
    ASSUME NEW es \in EdgeMaps, Exits(es)
    PROVE  ~ContainsCycle(es)
<1> SUFFICES ASSUME NEW o \in Origins, NEW n \in 1 .. Nodes, Chain(es, o)[n] = o
             PROVE  FALSE
    BY DEF ContainsCycle, Nodes
<1> DEFINE c == Chain(es, o)
           S == {c[k] : k \in 0 .. n - 1}
<1>1. \A k \in 0 .. n - 1 : c[k] \in Origins /\ es[c[k]] # NoEdge /\ es[c[k]].parent = c[k + 1]
    BY ChainLinked, RootAssumption
<1>2. c[0] = o /\ c[n] = o
    BY ChainSteps
<1> HIDE DEF c
<1>3. S \in SUBSET Origins /\ S # {}
    BY <1>1, NodesNat
<1>4. ASSUME NEW x \in S
      PROVE  es[x] # NoEdge /\ es[x].parent \in S
    <2>1. PICK k \in 0 .. n - 1 : x = c[k]
        OBVIOUS
    <2>2. CASE k + 1 = n
        <3>1. c[k + 1] = c[0] /\ 0 \in 0 .. n - 1
            BY <1>2, <2>2, NodesNat
        <3> QED
            BY <1>1, <2>1, <3>1
    <2>3. CASE k + 1 # n
        <3>1. k + 1 \in 0 .. n - 1
            BY <2>3, NodesNat
        <3> QED
            BY <1>1, <2>1, <3>1
    <2> QED
        BY <2>2, <2>3
<1> HIDE DEF S
<1> QED
    BY <1>3, <1>4 DEF Exits

\* A chain to the root comes to no node twice.
LEMMA ChainDistinct ==
    ASSUME NEW es \in EdgeMaps, ~ContainsCycle(es), NEW o, NEW n \in 1 .. Nodes,
           Chain(es, o)[n] \in Parents, NEW i \in 0 .. n - 1, NEW j \in 0 .. n - 1, i < j
    PROVE  Chain(es, o)[i] # Chain(es, o)[j]
<1> SUFFICES ASSUME Chain(es, o)[i] = Chain(es, o)[j]
             PROVE  FALSE
    OBVIOUS
<1> DEFINE x == Chain(es, o)[i]
<1>1. x \in Origins
    BY ChainLinked
<1>2. i \in Nat /\ j - i \in Nat /\ i + (j - i) = j /\ j <= Nodes /\ j - i \in 1 .. Nodes
    BY NodesNat
<1>3. Chain(es, x)[j - i] = Chain(es, o)[i + (j - i)]
    BY <1>2, ChainShift
<1> QED
    BY <1>1, <1>2, <1>3 DEF ContainsCycle, Nodes

\* assemble_path_checked: over edges without a loop that passed the length
\* check, the route of a node is a path of accepted edges from the root.
PathOver(es, o, r) ==
    /\ Len(r) <= MaxHops
    /\ r[Len(r)] = o
    /\ \A i, j \in 1 .. Len(r) : r[i] = r[j] => i = j
    /\ \A i \in 1 .. Len(r) :
          /\ es[r[i]] # NoEdge
          /\ es[r[i]].parent = IF i = 1 THEN Root ELSE r[i - 1]

\* What get_path returns is a route: it ends with the origin it was asked for,
\* names nobody twice, and each hop is the parent of the next by its edge.
LEMMA PathSound ==
    ASSUME NEW es \in EdgeMaps, ~ContainsCycle(es), ~TooLong(es), NEW o \in Origins,
           AssemblePath(es, o) # <<>>
    PROVE  PathOver(es, o, AssemblePath(es, o))
<1> DEFINE c == Chain(es, o)
           hops == {k \in 1 .. Nodes : c[k] = Root}
           n == CHOOSE k \in hops : TRUE
           r == AssemblePath(es, o)
<1>1. r = IF hops = {} THEN <<>> ELSE [i \in 1 .. n |-> c[n - i]]
    BY DEF AssemblePath, Nodes
<1>2. n \in 1 .. Nodes /\ c[n] = Root
    BY <1>1
<1>3. r = [i \in 1 .. n |-> c[n - i]]
    BY <1>1
<1>4. c[n] \in Parents
    BY <1>2, RootAssumption
<1>5. \A k \in 0 .. n - 1 : c[k] \in Origins /\ es[c[k]] # NoEdge /\ es[c[k]].parent = c[k + 1]
    BY <1>2, <1>4, ChainLinked
<1>6. \A i, j \in 0 .. n - 1 : i < j => c[i] # c[j]
    BY <1>2, <1>4, ChainDistinct
<1>7. c[0] = o
    BY ChainSteps
<1>8. n <= MaxHops
    <2> SUFFICES ASSUME n > MaxHops
                 PROVE  Climbs(es, o, MaxHops)
        BY <1>2, RootAssumption, NodesNat DEF TooLong
    <2>1. MaxHops <= Nodes /\ MaxHops \in Nat /\ n \in Nat
        BY <1>2, RootAssumption, NodesNat
    <2>a. MaxHops + 1 <= n
        BY <2>1
    <2>2. ASSUME NEW k \in 0 .. MaxHops
          PROVE  Above(es, c[k]) # NoEdge /\ \A j \in 0 .. k - 1 : c[j] # c[k]
        <3>1. k \in 0 .. n - 1 /\ \A j \in 0 .. k - 1 : j \in 0 .. n - 1 /\ j < k
            <4> HIDE DEF n
            <4> QED
                BY <2>1, <2>a
        <3>2. c[k] \in Origins /\ es[c[k]] # NoEdge /\ es[c[k]] \in Edges
            BY <1>5, <3>1 DEF EdgeMaps
        <3>3. Above(es, c[k]) \in Parents
            BY <3>2 DEF Above, Edges
        <3> QED
            BY <1>6, <3>1, <3>3, RootAssumption
    <2> HIDE DEF c
    <2> QED
        BY <2>1, <2>2 DEF Climbs, Nodes, c
<1> HIDE DEF c, hops, n, r
<1>9. n \in Nat /\ Len(r) = n
    BY <1>2, <1>3, NodesNat
<1>10. r[n] = o
    BY <1>2, <1>3, <1>7, NodesNat
<1>11. ASSUME NEW i \in 1 .. n, NEW j \in 1 .. n, r[i] = r[j]
       PROVE  i = j
    <2>1. n - i \in 0 .. n - 1 /\ n - j \in 0 .. n - 1 /\ c[n - i] = c[n - j]
        BY <1>3, <1>9, <1>11
    <2>2. ~ (n - i < n - j) /\ ~ (n - j < n - i)
        BY <1>6, <2>1
    <2> QED
        BY <1>9, <2>2
<1>12. ASSUME NEW i \in 1 .. n
       PROVE  es[r[i]] # NoEdge /\ es[r[i]].parent = IF i = 1 THEN Root ELSE r[i - 1]
    <2>1. n - i \in 0 .. n - 1 /\ r[i] = c[n - i] /\ n - i + 1 = n - (i - 1)
        BY <1>3, <1>9
    <2>2. es[r[i]] # NoEdge /\ es[r[i]].parent = c[n - (i - 1)]
        BY <1>5, <2>1
    <2>3. CASE i = 1
        <3>1. n - (i - 1) = n
            BY <2>3, <1>9
        <3> QED
            BY <1>2, <2>2, <2>3, <3>1
    <2>4. CASE i # 1
        <3>1. i - 1 \in 1 .. n
            BY <2>4, <1>9
        <3>2. r[i - 1] = c[n - (i - 1)]
            BY <1>3, <3>1
        <3> QED
            BY <2>2, <2>4, <3>2
    <2> QED
        BY <2>3, <2>4
<1> QED
    BY <1>8, <1>9, <1>10, <1>11, <1>12 DEF PathOver, r

-----------------------------------------------------------------------------

(***************************************************************************)
(* The table of edges.                                                      *)
(***************************************************************************)

\* Whole units of m in x.
LEMMA DivBounds ==
    ASSUME NEW x \in Nat, NEW m \in Nat \ {0}
    PROVE  x \div m \in Nat /\ m * (x \div m) <= x /\ x < m * (x \div m) + m
OBVIOUS

\* A product grows with its factor.
LEMMA MulMono ==
    ASSUME NEW a \in Nat, NEW b \in Nat, NEW m \in Nat, a <= b
    PROVE  a * m <= m * b
OBVIOUS

\* What the variables of the root and of its leaves hold.
RootTypes ==
    /\ seq \in [Origins -> 0 .. MaxSeq]
    /\ path \in [Origins -> Seqs]
    /\ building \in [Origins -> 0 .. MaxSeq]
    /\ sent \subseteq Daos
    /\ floor \in [Origins -> Daos \cup {NoDao}]
    /\ fresh \in [Origins -> Paths \cup {NoEdge}]
    /\ edges \in EdgeMaps
    /\ now \in Nat

\* The edge of an origin comes from the path sequence entry, and that from the
\* DAO of the floor.
Follows ==
    \A o \in Origins :
        /\ edges[o] # NoEdge => fresh[o] # NoEdge /\ fresh[o].parent = edges[o].parent
        /\ fresh[o] # NoEdge => floor[o] # NoDao /\ floor[o].parent = fresh[o].parent

\* The routes are paths over the edges there are.
Routed == \A o \in Origins : routes[o] # <<>> => PathOver(edges, o, routes[o])

\* The inductive invariant of the root.
RootInv == RootTypes /\ Follows /\ Exits(edges) /\ Routed

\* The clock in whole seconds, down and up.
LEMMA Seconds ==
    ASSUME now \in Nat
    PROVE  /\ FloorSeconds \in Nat /\ FloorSeconds * TicksPerSecond <= now
           /\ CeilSeconds \in Nat /\ CeilSeconds * TicksPerSecond < now + TicksPerSecond
<1> DEFINE T == TicksPerSecond
           a == now
           b == now + T - 1
<1>1. T \in Nat \ {0} /\ a \in Nat /\ b \in Nat
    BY RootAssumption
<1> HIDE DEF T, a, b
<1>2. a \div T \in Nat /\ T * (a \div T) <= a
    BY <1>1, DivBounds
<1>3. b \div T \in Nat /\ T * (b \div T) <= b
    BY <1>1, DivBounds
<1>4. b < now + T
    BY <1>1 DEF a, b
<1>5. (a \div T) * T = T * (a \div T) /\ (b \div T) * T = T * (b \div T)
    BY <1>1, <1>2, <1>3
<1> QED
    BY <1>1, <1>2, <1>3, <1>4, <1>5 DEF FloorSeconds, CeilSeconds, T, a, b

\* What pruning leaves was there, and what it drops had less than a second left.
LEMMA Pruned ==
    ASSUME edges \in EdgeMaps, now \in Nat, NEW t \in {FloorSeconds, CeilSeconds}
    PROVE  /\ Prune(edges, t) \in EdgeMaps
           /\ \A o \in Origins :
                /\ Prune(edges, t)[o] \in {edges[o], NoEdge}
                /\ Prune(edges, t)[o] # edges[o] =>
                     /\ edges[o].until # Forever
                     /\ now + TicksPerSecond > edges[o].until * TicksPerSecond
<1>1. Prune(edges, t) \in EdgeMaps
    BY DEF Prune, EdgeMaps
<1>2. ASSUME NEW o \in Origins, Prune(edges, t)[o] # edges[o]
      PROVE  /\ edges[o].until # Forever
             /\ now + TicksPerSecond > edges[o].until * TicksPerSecond
    <2>1. edges[o] # NoEdge /\ ~IsActive(edges[o], t)
        BY <1>2 DEF Prune, EdgeMaps
    <2>2. edges[o] \in Edges /\ edges[o].until # Forever /\ ~ (edges[o].until > t)
        BY <2>1 DEF IsActive, EdgeMaps
    <2>3. edges[o].until \in Nat
        BY <2>2 DEF Edges
    <2>4. t \in Nat /\ t * TicksPerSecond < now + TicksPerSecond
        BY Seconds, RootAssumption
    <2>5. TicksPerSecond \in Nat /\ edges[o].until <= t
        BY <2>2, <2>3, <2>4, RootAssumption
    <2>6. edges[o].until * TicksPerSecond <= TicksPerSecond * t
        BY <2>3, <2>4, <2>5, MulMono
    <2>7. TicksPerSecond * t = t * TicksPerSecond
        BY <2>4, <2>5
    <2> DEFINE u == edges[o].until * TicksPerSecond
               v == t * TicksPerSecond
    <2>8. u \in Nat /\ v \in Nat
        BY <2>3, <2>4, <2>5
    <2>9. u <= v /\ v < now + TicksPerSecond
        BY <2>4, <2>6, <2>7
    <2> HIDE DEF u, v
    <2>10. now + TicksPerSecond > u
        BY <2>5, <2>8, <2>9
    <2> QED
        BY <2>2, <2>10 DEF u
<1>3. \A o \in Origins : Prune(edges, t)[o] \in {edges[o], NoEdge}
    BY DEF Prune
<1> QED
    BY <1>1, <1>2, <1>3

\* Dropping edges opens no loop.
LEMMA PruneExits ==
    ASSUME NEW es \in EdgeMaps, NEW fs \in EdgeMaps, Exits(es),
           \A o \in Origins : fs[o] \in {es[o], NoEdge}
    PROVE  Exits(fs)
BY DEF Exits

\* The routes rebuilt over edges that passed the two checks are paths.
LEMMA Rebuilt ==
    ASSUME NEW es \in EdgeMaps, Exits(es), ~TooLong(es), NEW o \in Origins,
           RebuiltRoutes(es)[o] # <<>>
    PROVE  PathOver(es, o, RebuiltRoutes(es)[o])
<1>1. RebuiltRoutes(es)[o] = AssemblePath(es, o)
    BY DEF RebuiltRoutes
<1> QED
    BY <1>1, NoFalseCycle, PathSound

-----------------------------------------------------------------------------
\* The invariant holds initially.
LEMMA RootInitInv == Init => RootInv
<1> SUFFICES ASSUME Init
             PROVE  RootInv
    OBVIOUS
<1>1. RootTypes
    BY LollipopAssumption, MaxSeqAssumption
       DEF Init, SourceInit, RootTypes, Nothing, EdgeMaps, Seqs, Start
<1>2. Exits(edges)
    BY DEF Init, Nothing, Exits
<1> QED
    BY <1>1, <1>2 DEF Init, RootInv, Follows, Routed, Nothing

\* A step of the leaves sends DAOs of the type and changes nothing else.
LEMMA LeafKeeps ==
    ASSUME RootInv, NEW o \in Origins, Leaf(o)
    PROVE  RootInv'
<1>1. UNCHANGED rootVars
    BY DEF Leaf
<1>2. seq' \in [Origins -> 0 .. MaxSeq] /\ path' \in [Origins -> Seqs]
      /\ building' \in [Origins -> 0 .. MaxSeq] /\ sent' \subseteq Daos
    <2> USE DEF RootInv, RootTypes
    <2>1. CASE Begin(o)
        <3>1. IncrementLollipop(path[o]) \in Seqs
            BY LollipopAssumption DEF Seqs, IncrementLollipop
        <3> QED
            BY <2>1, <3>1, MaxSeqAssumption DEF Begin
    <2>2. CASE Abandon(o)
        BY <2>2, MaxSeqAssumption DEF Abandon
    <2>3. CASE Reboot(o)
        BY <2>3, LollipopAssumption, MaxSeqAssumption DEF Reboot, Start, Seqs
    <2>4. ASSUME NEW p \in Parents \ {o}, Emit(o, p)
          PROVE  /\ seq' \in [Origins -> 0 .. MaxSeq] /\ path' \in [Origins -> Seqs]
                 /\ building' \in [Origins -> 0 .. MaxSeq] /\ sent' \subseteq Daos
        <3>1. [origin |-> o, seq |-> building[o], path |-> path[o], parent |-> p] \in Daos
            BY <2>4, MaxSeqAssumption DEF Emit, Daos
        <3> QED
            BY <2>4, <3>1, MaxSeqAssumption DEF Emit
    <2> QED
        BY <2>1, <2>2, <2>3, <2>4 DEF Leaf
<1> QED
    BY <1>1, <1>2 DEF RootInv, RootTypes, Follows, Routed, rootVars

\* Committing a DAO of an origin's floor keeps the invariant of the edges.
LEMMA CommitKeeps ==
    ASSUME RootInv, NEW d \in Daos, Commit(d)
    PROVE  /\ edges' \in EdgeMaps /\ fresh' \in [Origins -> Paths \cup {NoEdge}]
           /\ Exits(edges')
           /\ \A o \in Origins : routes'[o] # <<>> => PathOver(edges', o, routes'[o])
           /\ \A o \in Origins : edges'[o] # NoEdge =>
                 fresh'[o] # NoEdge /\ fresh'[o].parent = edges'[o].parent
           /\ \A o \in Origins \ {d.origin} : fresh'[o] = fresh[o]
           /\ fresh'[d.origin] # NoEdge /\ fresh'[d.origin].parent = d.parent
           /\ \A o \in Origins : edges[o] # NoEdge /\ edges'[o] # edges[o] =>
                \/ fresh'[o] # fresh[o]
                \/ /\ edges[o].until # Forever
                   /\ now + TicksPerSecond > edges[o].until * TicksPerSecond
<1> DEFINE kept == Prune(edges, CeilSeconds)
           entry == [path |-> d.path, parent |-> d.parent]
           edge == Edge(d.parent, CeilSeconds)
<1>1. edges \in EdgeMaps /\ now \in Nat /\ fresh \in [Origins -> Paths \cup {NoEdge}]
    BY DEF RootInv, RootTypes
<1>2. d.origin \in Origins /\ entry \in Paths /\ d.parent \in Parents
    BY DEF Daos, Paths
<1>3. /\ kept \in EdgeMaps
      /\ \A o \in Origins :
            /\ kept[o] \in {edges[o], NoEdge}
            /\ kept[o] # edges[o] =>
                 /\ edges[o].until # Forever
                 /\ now + TicksPerSecond > edges[o].until * TicksPerSecond
    BY <1>1, Pruned
<1>4. CeilSeconds \in Nat
    BY <1>1, Seconds
<1>5. edge \in Edges /\ edge.parent = d.parent
    BY <1>2, <1>4, RootAssumption DEF Edge, Edges, Deadline
<1>6. edge # NoEdge /\ entry # NoEdge
    BY <1>2, <1>5, RootAssumption
<1>7. /\ edges' = IF SameCopy(d) THEN kept ELSE [kept EXCEPT ![d.origin] = edge]
      /\ fresh' = [fresh EXCEPT ![d.origin] = entry]
      /\ routes' = RebuiltRoutes(edges')
      /\ ~ContainsCycle(edges') /\ ~TooLong(edges')
    BY DEF Commit, Proposed
<1>8. SameCopy(d) <=> fresh[d.origin] = entry
    BY DEF SameCopy
<1>9. Follows
    BY DEF RootInv
<1> HIDE DEF kept, entry, edge
<1>10. edges' \in EdgeMaps
    BY <1>3, <1>5, <1>7 DEF EdgeMaps
<1>11. fresh' \in [Origins -> Paths \cup {NoEdge}] /\ fresh'[d.origin] = entry
       /\ \A o \in Origins \ {d.origin} : fresh'[o] = fresh[o]
    BY <1>1, <1>2, <1>7
<1>12. Exits(edges')
    BY <1>7, <1>10, CycleFound
<1>13. \A o \in Origins : routes'[o] # <<>> => PathOver(edges', o, routes'[o])
    BY <1>7, <1>10, <1>12, Rebuilt
<1>14. entry.parent = d.parent
    BY DEF entry
<1>15. \A o \in Origins : edges'[o] = kept[o] \/ (~SameCopy(d) /\ o = d.origin /\ edges'[o] = edge)
    BY <1>2, <1>3, <1>7 DEF EdgeMaps
<1>16. ASSUME NEW o \in Origins
       PROVE  /\ edges'[o] # NoEdge => fresh'[o] # NoEdge /\ fresh'[o].parent = edges'[o].parent
              /\ edges[o] # NoEdge /\ edges'[o] # edges[o] =>
                \/ fresh'[o] # fresh[o]
                \/ /\ edges[o].until # Forever
                   /\ now + TicksPerSecond > edges[o].until * TicksPerSecond
    <2>1. CASE edges'[o] = kept[o]
        <3>1. edges'[o] # NoEdge => edges'[o] = edges[o]
            BY <1>3, <2>1
        <3>2. edges[o] # NoEdge => fresh[o] # NoEdge /\ fresh[o].parent = edges[o].parent
            BY <1>9 DEF Follows
        <3>3. edges'[o] # edges[o] =>
                 /\ edges[o].until # Forever
                 /\ now + TicksPerSecond > edges[o].until * TicksPerSecond
            BY <1>3, <2>1
        <3>4. CASE fresh'[o] = fresh[o]
            BY <3>1, <3>2, <3>3, <3>4
        <3>5. CASE fresh'[o] # fresh[o]
            <4>1. o = d.origin /\ ~SameCopy(d)
                BY <1>8, <1>11, <3>5
            <4>2. edges'[o] = edge
                BY <1>2, <1>3, <1>7, <4>1 DEF EdgeMaps
            <4> QED
                BY <1>5, <1>6, <1>11, <1>14, <3>5, <4>1, <4>2
        <3> QED
            BY <3>4, <3>5
    <2>2. CASE ~SameCopy(d) /\ o = d.origin /\ edges'[o] = edge
        BY <1>5, <1>6, <1>8, <1>11, <1>14, <2>2
    <2> QED
        BY <1>15, <2>1, <2>2
<1> QED
    BY <1>6, <1>10, <1>11, <1>12, <1>13, <1>14, <1>16

\* Every step of the root and of its leaves keeps the invariant.
LEMMA RootNextInv == RootInv /\ [Next]_vars => RootInv'
<1> SUFFICES ASSUME RootInv, [Next]_vars
             PROVE  RootInv'
    OBVIOUS
<1>1. ASSUME NEW o \in Origins, Leaf(o)
      PROVE  RootInv'
    BY <1>1, LeafKeeps
<1>2. ASSUME NEW o \in Origins, Admit(o)
      PROVE  RootInv'
    BY <1>2 DEF Admit, sourceVars, RootInv, RootTypes, Follows, Routed
<1>3. ASSUME NEW d \in sent, Apply(d)
      PROVE  RootInv'
    <2>1. d \in Daos /\ Commit(d)
        BY <1>3 DEF Apply, RootInv, RootTypes
    <2>2. d.origin \in Origins /\ d # NoDao
        BY <2>1, RootAssumption DEF Daos
    <2>3. floor' = [floor EXCEPT ![d.origin] = d] /\ UNCHANGED <<sourceVars, now>>
        BY <1>3 DEF Apply
    <2>4. RootTypes'
        BY <2>1, <2>3, CommitKeeps DEF RootInv, RootTypes, sourceVars
    <2>5. Follows'
        <3> SUFFICES ASSUME NEW o \in Origins, fresh'[o] # NoEdge
                     PROVE  floor'[o] # NoDao /\ floor'[o].parent = fresh'[o].parent
            BY <2>1, CommitKeeps DEF Follows
        <3>1. CASE o = d.origin
            BY <2>1, <2>2, <2>3, <3>1, CommitKeeps DEF RootInv, RootTypes
        <3>2. CASE o # d.origin
            <4>1. fresh'[o] = fresh[o]
                BY <2>1, <3>2, CommitKeeps
            <4> QED
                BY <2>3, <3>2, <4>1 DEF RootInv, RootTypes, Follows
        <3> QED
            BY <3>1, <3>2
    <2>6. Exits(edges)' /\ Routed'
        BY <2>1, CommitKeeps DEF Exits, Routed, PathOver
    <2> QED
        BY <2>4, <2>5, <2>6 DEF RootInv
<1>4. ASSUME NEW d \in sent, Reconcile(d)
      PROVE  RootInv'
    <2>1. d \in Daos /\ Commit(d)
        BY <1>4 DEF Reconcile, RootInv, RootTypes
    <2>2. d.origin \in Origins /\ d # NoDao /\ floor[d.origin] = d
        BY <1>4, <2>1, RootAssumption DEF Daos, Reconcile
    <2>3. UNCHANGED <<sourceVars, floor, now>>
        BY <1>4 DEF Reconcile
    <2>4. RootTypes'
        BY <2>1, <2>3, CommitKeeps DEF RootInv, RootTypes, sourceVars
    <2>5. Follows'
        <3> SUFFICES ASSUME NEW o \in Origins, fresh'[o] # NoEdge
                     PROVE  floor'[o] # NoDao /\ floor'[o].parent = fresh'[o].parent
            BY <2>1, CommitKeeps DEF Follows
        <3>1. CASE o = d.origin
            BY <2>1, <2>2, <2>3, <3>1, CommitKeeps
        <3>2. CASE o # d.origin
            <4>1. fresh'[o] = fresh[o]
                BY <2>1, <3>2, CommitKeeps
            <4> QED
                BY <2>3, <4>1 DEF RootInv, Follows
        <3> QED
            BY <3>1, <3>2
    <2>6. Exits(edges)' /\ Routed'
        BY <2>1, CommitKeeps DEF Exits, Routed, PathOver
    <2> QED
        BY <2>4, <2>5, <2>6 DEF RootInv
<1>5. CASE Expire
    <2> DEFINE kept == Prune(edges, FloorSeconds)
    <2>1. edges \in EdgeMaps /\ now \in Nat
        BY DEF RootInv, RootTypes
    <2>2. kept \in EdgeMaps /\ \A o \in Origins : kept[o] \in {edges[o], NoEdge}
        BY <2>1, Pruned
    <2>3. /\ edges' = kept /\ routes' = RebuiltRoutes(edges') /\ ~TooLong(kept)
          /\ UNCHANGED <<sourceVars, floor, fresh, now>>
        BY <1>5 DEF Expire
    <2> HIDE DEF kept
    <2>4. Exits(edges')
        BY <2>1, <2>2, <2>3, PruneExits DEF RootInv
    <2>5. Routed'
        BY <2>2, <2>3, <2>4, Rebuilt DEF Routed, PathOver
    <2>6. RootTypes' /\ Follows'
        BY <2>2, <2>3 DEF RootInv, RootTypes, Follows, sourceVars
    <2> QED
        BY <2>4, <2>5, <2>6 DEF RootInv, Exits
<1>6. CASE Tick
    BY <1>6 DEF Tick, sourceVars, RootInv, RootTypes, Follows, Routed
<1>7. CASE Crash
    <2>1. RootTypes'
        BY <1>7 DEF Crash, Nothing, EdgeMaps, RootInv, RootTypes, sourceVars
    <2>2. Exits(edges)'
        BY <1>7 DEF Crash, Nothing, Exits
    <2> QED
        BY <1>7, <2>1, <2>2 DEF Crash, Nothing, RootInv, Follows, Routed
<1>8. CASE UNCHANGED vars
    BY <1>8 DEF vars, sourceVars, rootVars, RootInv, RootTypes, Follows, Routed
<1> QED
    BY <1>1, <1>2, <1>3, <1>4, <1>5, <1>6, <1>7, <1>8 DEF Next

\* The root's volatile edges never contradict its durable replay floors
\* (process_signature_verified, open_root): both restarts included.
THEOREM FloorKept == Spec => []EdgesMatchFloor
<1>1. RootInv => EdgesMatchFloor
    BY DEF RootInv, Follows, EdgesMatchFloor
<1> QED
    BY <1>1, RootInitInv, RootNextInv, PTL DEF Spec

\* No order of DAOs forms a loop: contains_cycle, which looks along the parents
\* of each origin only, finds every loop a new edge would close.
THEOREM NoLoops == Spec => []Loopless
<1>1. RootInv => Loopless
    BY DEF RootInv, Exits, Loopless
<1> QED
    BY <1>1, RootInitInv, RootNextInv, PTL DEF Spec

\* Every source route is a path of accepted edges from the root, without
\* repetition and within MAX_ROUTE_HOPS (assemble_path_checked).
THEOREM RoutesAreSound == Spec => []RoutesSound
<1>1. RootInv => RoutesSound
    BY DEF RootInv, Routed, PathOver, RoutesSound
<1> QED
    BY <1>1, RootInitInv, RootNextInv, PTL DEF Spec

\* What an edge may be dropped or replaced for.
LEMMA EdgeGoes ==
    ASSUME RootInv, [Next]_vars, NEW o \in Origins
    PROVE  edges[o] # NoEdge /\ edges'[o] # edges[o] =>
               \/ fresh'[o] # fresh[o]
               \/ /\ edges[o].until # Forever
                  /\ now + TicksPerSecond > edges[o].until * TicksPerSecond
<1> DEFINE Kept ==
        edges[o] # NoEdge /\ edges'[o] # edges[o] =>
            \/ fresh'[o] # fresh[o]
            \/ /\ edges[o].until # Forever
               /\ now + TicksPerSecond > edges[o].until * TicksPerSecond
<1>1. ASSUME NEW d \in sent, Apply(d) \/ Reconcile(d)
      PROVE  Kept
    <2>1. d \in Daos /\ Commit(d)
        BY <1>1 DEF Apply, Reconcile, RootInv, RootTypes
    <2> QED
        BY <2>1, CommitKeeps
<1>2. CASE Expire
    <2>1. edges \in EdgeMaps /\ now \in Nat
        BY DEF RootInv, RootTypes
    <2>2. edges' = Prune(edges, FloorSeconds)
        BY <1>2 DEF Expire
    <2> QED
        BY <2>1, <2>2, Pruned
<1>3. CASE Crash
    BY <1>3 DEF Crash, Nothing, RootInv, Follows
<1>4. CASE edges' = edges
    BY <1>4
<1>5. \/ \E d \in sent : Apply(d) \/ Reconcile(d)
      \/ Expire \/ Crash \/ edges' = edges
    BY DEF Next, vars, rootVars, Leaf, Admit, Tick
<1> QED
    BY <1>1, <1>2, <1>3, <1>4, <1>5

\* Whatever the lifetime, an infinite one included, an edge goes only with a
\* newer path of its origin, with a restart of the root or with less than a
\* second of its lifetime left: no DAO of another origin costs a live leaf its
\* route (the pruning in process_signature_verified_dao).
THEOREM LiveEdgesStay == Spec => EdgesStay
<1>1. RootInv /\ [Next]_vars =>
        [\A o \in Origins :
            edges[o] # NoEdge /\ edges'[o] # edges[o] =>
                \/ fresh'[o] # fresh[o]
                \/ /\ edges[o].until # Forever
                   /\ now + TicksPerSecond > edges[o].until * TicksPerSecond]_vars
    BY EdgeGoes
<1> QED
    BY <1>1, RootInitInv, RootNextInv, PTL DEF Spec, EdgesStay

-----------------------------------------------------------------------------

(***************************************************************************)
(* Two counters that lost each other.                                       *)
(***************************************************************************)

\* The DAOs made since the last Install or reboot of the leaf.
Since == refused + lost

\* The values a counter takes: the circular region, and the linear one from
\* its start.
Reached == (0 .. Circular - 1) \cup (Start .. 2 * Circular - 1)

\* What the counters hold.
SyncTypes ==
    /\ leaf \in Reached /\ root \in Reached \cup {NoEntry}
    /\ refused \in Nat /\ lost \in Nat

\* The leaf has made Since DAOs since it installed the root's value: the first
\* Window of them would be accepted, so a refusal comes after as many losses.
FromRoot ==
    /\ refused = 0 \/ lost = Window
    /\ IF root < Circular
       THEN /\ Since <= Circular
            /\ leaf = IF root + Since < Circular THEN root + Since
                      ELSE root + Since - Circular
       ELSE /\ root + Since < 3 * Circular
            /\ leaf = IF root + Since < 2 * Circular THEN root + Since
                      ELSE root + Since - 2 * Circular

\* The leaf has made Since DAOs since it rebooted.
FromStart ==
    /\ leaf = IF Since < Window THEN Start + Since
              ELSE IF Since < Window + Circular THEN Since - Window
              ELSE Since - Window - Circular
    /\ IF root >= Circular
       THEN /\ Since < Window + Circular
            /\ lost >= Since - (root - Start) \/ lost >= Window
       ELSE IF root + Window > Circular
       THEN Since <= Window /\ refused = 0
       ELSE IF root >= Window
       THEN /\ Since <= Window + root + 1
            /\ refused = 0 \/ lost >= Window - 1
            /\ Since = Window + root + 1 => lost >= Window
       ELSE LET first == IF root = 0 THEN 0 ELSE root - 1
            IN  /\ Since <= Window + root + Circular
                /\ refused = 0 \/ lost >= first
                /\ Since >= Window + root =>
                     \/ lost >= first + Since - Window - root
                     \/ lost >= first + Window

\* The inductive invariant: with an entry at the root and at most Window DAOs
\* lost, the leaf is where it is because of one of its two starting points.
SyncInv ==
    /\ SyncTypes
    /\ root = NoEntry => StallBounded
    /\ root # NoEntry /\ lost <= Window => FromRoot \/ FromStart

\* Both starting points bound the refusals, for a window of at least two values.
LEMMA SyncBounded ==
    ASSUME SyncInv, Window >= 2
    PROVE  StallBounded
BY LollipopAssumption DEF SyncInv, SyncTypes, StallBounded, FromRoot, FromStart, Since, Start,
    Reached, NoEntry

\* A first boot satisfies the invariant.
LEMMA SyncInitInv == SyncInit => SyncInv
BY LollipopAssumption DEF SyncInit, SyncInv, SyncTypes, StallBounded, Start, Reached, NoEntry


\* A DAO moves the leaf on by one, whichever way it is looked at.
LEMMA SyncNextInv ==
    ASSUME Window >= 2
    PROVE  SyncInv /\ [SyncNext]_syncVars => SyncInv'
<1> SUFFICES ASSUME SyncInv, [SyncNext]_syncVars
             PROVE  SyncInv'
    OBVIOUS
<1> USE LollipopAssumption
<1>1. StallBounded
    BY SyncBounded
<1>2. Built \in Reached /\ Built # NoEntry
    BY DEF SyncInv, SyncTypes, Built, IncrementLollipop, Reached, Start, NoEntry
<1>3. CASE Install
    BY <1>2, <1>3 DEF Install, SyncInv, SyncTypes, FromRoot, Since, Reached, Start
<1>4. CASE LeafReboot
    BY <1>1, <1>4 DEF LeafReboot, SyncInv, SyncTypes, StallBounded, FromStart, Since, Reached, Start
<1>5. CASE RootReboot
    BY <1>1, <1>5 DEF RootReboot, SyncInv, SyncTypes, StallBounded
<1>6. CASE UNCHANGED syncVars
    BY <1>6 DEF syncVars, SyncInv, SyncTypes, StallBounded, FromRoot, FromStart, Since
<1>7. ASSUME Refuse \/ Lose
      PROVE  SyncInv'
    <2>1. leaf' = Built /\ root' = root
        BY <1>7 DEF Refuse, Lose
    <2>2. \/ Refuse /\ refused' = refused + 1 /\ lost' = lost
          \/ Lose /\ lost' = lost + 1 /\ refused' = refused
        BY <1>7 DEF Refuse, Lose
    <2>3. SyncTypes'
        BY <1>2, <2>1, <2>2 DEF SyncInv, SyncTypes
    <2>4. CASE root = NoEntry
        <3>1. lost' = lost + 1 /\ refused' = refused
            BY <2>2, <2>4 DEF Refuse, Installs
        <3> QED
            BY <1>1, <2>1, <2>3, <2>4, <3>1 DEF SyncInv, SyncTypes, StallBounded
    <2>5. CASE root # NoEntry
        <3> SUFFICES ASSUME lost' <= Window
                     PROVE  FromRoot' \/ FromStart'
            BY <2>1, <2>3, <2>5 DEF SyncInv
        <3>1. root \in Reached /\ leaf \in Reached /\ lost \in Nat /\ refused \in Nat
            BY <2>5 DEF SyncInv, SyncTypes
        <3>2. lost <= Window /\ Since' = Since + 1 /\ Since \in Nat
            <4>1. Window \in Nat /\ (lost' = lost \/ lost' = lost + 1)
                BY <2>2
            <4>2. lost <= Window
                BY <3>1, <4>1
            <4>3. Since' = refused' + lost' /\ Since = refused + lost
                BY DEF Since
            <4>4. refused' + lost' = (refused + lost) + 1
                BY <2>2, <3>1
            <4> QED
                BY <3>1, <4>2, <4>3, <4>4
        <3>3. CASE FromRoot
            <4>1. CASE root < Circular
                BY <2>1, <2>2, <3>2, <3>1, <3>3, <4>1
                   DEF FromRoot, Refuse, Installs, SeqIsNewer, SameRegion, Ahead, Built,
                       IncrementLollipop, Since, Reached, Start
            <4>2. CASE root >= Circular
                BY <2>1, <2>2, <3>2, <3>1, <3>3, <4>2
                   DEF FromRoot, Refuse, Installs, SeqIsNewer, SameRegion, Ahead, Built,
                       IncrementLollipop, Since, Reached, Start
            <4> QED
                BY <3>1, <4>1, <4>2 DEF Reached, Start
        <3>4. CASE FromStart
            <4>1. CASE root >= Circular
                BY <2>1, <2>2, <3>2, <3>1, <3>4, <4>1
                   DEF FromStart, Refuse, Installs, SeqIsNewer, SameRegion, Ahead, Built,
                       IncrementLollipop, Since, Reached, Start
            <4>2. CASE root < Circular /\ root + Window > Circular
                BY <2>1, <2>2, <3>2, <3>1, <3>4, <4>2
                   DEF FromStart, Refuse, Installs, SeqIsNewer, SameRegion, Ahead, Built,
                       IncrementLollipop, Since, Reached, Start
            <4>3. CASE root >= Window /\ root + Window <= Circular
                BY <2>1, <2>2, <3>2, <3>1, <3>4, <4>3
                   DEF FromStart, Refuse, Installs, SeqIsNewer, SameRegion, Ahead, Built,
                       IncrementLollipop, Since, Reached, Start
            <4>4. CASE root < Window
                BY <2>1, <2>2, <3>2, <3>1, <3>4, <4>4
                   DEF FromStart, Refuse, Installs, SeqIsNewer, SameRegion, Ahead, Built,
                       IncrementLollipop, Since, Reached, Start
            <4> QED
                BY <3>1, <4>1, <4>2, <4>3, <4>4 DEF Reached, Start
        <3> QED
            BY <2>5, <3>2, <3>3, <3>4 DEF SyncInv
    <2> QED
        BY <2>4, <2>5
<1> QED
    BY <1>3, <1>4, <1>5, <1>6, <1>7 DEF SyncNext

\* A root that refuses the DAOs of a leaf (SeqIsNewer in process_dao) goes on
\* refusing only as long as StallBounded says, whatever the two reboots and
\* whatever the sizes of the two regions of the lollipop counter.
THEOREM StallsEnd ==
    ASSUME Window >= 2
    PROVE  SyncSpec => []StallBounded
BY SyncInitInv, SyncNextInv, SyncBounded, PTL DEF SyncSpec
=============================================================================
