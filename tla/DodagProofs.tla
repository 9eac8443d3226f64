----------------------------- MODULE DodagProofs -----------------------------
(***************************************************************************)
(* What holds of every leaf of every network: a node never creeps more than *)
(* MaxRankIncrease above the lowest rank it held in its version, and its    *)
(* candidates are neighbours it tracks, of lower rank than its own.         *)
(***************************************************************************)
EXTENDS Dodag, AccessOrderProofs

Ranks == 0 .. Infinite
Dios  == [version : Nat, rank : Nat, authorized : BOOLEAN]
Cands == [addr : Nodes, rank : Nat]
States == [version : Nat, authorized : BOOLEAN, rank : Ranks, parent : Nodes \cup {None},
           cands : SUBSET Cands, lowest : Ranks, heard : SUBSET Nodes,
           before : SUBSET (Nodes \X Nodes)]

\* The neighbour table is within its capacity and ordered, and every candidate
\* is in it.
Tabled(s) ==
    /\ IsFiniteSet(s.heard) /\ Cardinality(s.heard) <= MaxNeighbors
    /\ TotalOn(s.before, s.heard)
    /\ Candidates(s) \subseteq s.heard

\* What select_parent leaves: candidates below the node, a rank that is the
\* lowest one or within MaxRankIncrease of it.
Ranked(s) ==
    /\ \A c \in s.cands : DagRank(c.rank) < DagRank(s.rank)
    /\ s.lowest <= s.rank
    /\ s.rank # Infinite /\ MaxInc # 0 => s.rank <= s.lowest + MaxInc

Good(s) == s \in States /\ Tabled(s) /\ Ranked(s)

\* What a step may do to the lowest rank: it only falls within a version.
Falls(s, t) == t.version = s.version => t.lowest <= s.lowest

-----------------------------------------------------------------------------
(* Parent selection.                                                        *)

\* The path cost of a rank.
LEMMA PathCostType ==
    ASSUME NEW r \in Nat
    PROVE  PathCost(r) \in Ranks
BY DodagAssumption DEF PathCost, Saturated, Ranks

\* The hysteresis chooses one of the candidates.
LEMMA ChosenIsCandidate ==
    ASSUME NEW s, NEW best \in s.cands
    PROVE  Chosen(s, best) \in s.cands
<1> DEFINE cost(c) == PathCost(c.rank)
           bar(c)  == IF cost(c) > Threshold THEN cost(c) - Threshold ELSE 0
           stays   == {c \in s.cands : c.addr = s.parent /\ cost(best) > bar(c)}
<1>1. Chosen(s, best) = IF stays = {} THEN best ELSE CHOOSE c \in stays : TRUE
    BY DEF Chosen
<1>2. stays \subseteq s.cands
    OBVIOUS
<1> HIDE DEF stays
<1> QED
    BY <1>1, <1>2

\* While there are candidates there is a best one.
LEMMA BestExists ==
    ASSUME NEW s, s.cands \subseteq Cands, s.cands # {}
    PROVE  {c \in s.cands : \A d \in s.cands : c.rank <= d.rank} # {}
<1> DEFINE T == {c.rank : c \in s.cands}
<1>1. T \in SUBSET Nat /\ T # {}
    BY DEF Cands
<1>2. PICK least \in T : \A n \in T : least <= n
    BY <1>1, LeastNat
<1>3. PICK c \in s.cands : c.rank = least
    BY <1>2
<1> QED
    BY <1>2, <1>3

\* A node that joins through an admissible candidate.
LEMMA Joins ==
    ASSUME NEW s \in States, NEW c \in s.cands, Admissible(c.rank, s.rank, s.lowest)
    PROVE  LET t == Join(s, c) IN
           /\ t = [s EXCEPT !.parent = t.parent, !.rank = t.rank, !.lowest = t.lowest]
           /\ t.parent \in Nodes /\ t.rank \in Ranks /\ t.lowest \in Ranks
           /\ t.rank # Infinite
           /\ t.lowest <= s.lowest /\ t.lowest <= t.rank
           /\ MaxInc # 0 => t.rank <= t.lowest + MaxInc
<1> USE DodagAssumption
<1>1. c.addr \in Nodes /\ c.rank \in Nat
    BY DEF States, Cands
<1> DEFINE r == PathCost(c.rank)
           l == IF r < s.lowest THEN r ELSE s.lowest
<1>2. r \in Ranks /\ r # Infinite
    BY <1>1, PathCostType DEF Admissible
<1>3. s.lowest \in Ranks
    BY DEF States
<1>4. MaxInc = 0 \/ s.lowest = Infinite \/ r <= Saturated(s.lowest + MaxInc)
    BY DEF Admissible
<1>5. Join(s, c) = [s EXCEPT !.parent = c.addr, !.rank = r, !.lowest = l]
    BY DEF Join, States
<1> HIDE DEF r
<1>6. l \in Ranks /\ l <= s.lowest /\ l <= r
    BY <1>2, <1>3 DEF Ranks
<1>7. MaxInc # 0 => r <= l + MaxInc
    BY <1>2, <1>3, <1>4 DEF Ranks, Saturated
<1> HIDE DEF l
<1>8. LET t == Join(s, c) IN t.parent = c.addr /\ t.rank = r /\ t.lowest = l
    BY <1>5 DEF States
<1> QED
    BY <1>1, <1>2, <1>5, <1>6, <1>7, <1>8

\* Pruning keeps everything but the candidates that are not admissible.
LEMMA Prunes ==
    ASSUME NEW s \in States
    PROVE  LET t == Pruned(s) IN
           /\ t \in States
           /\ t.cands = {c \in s.cands : Admissible(c.rank, s.rank, s.lowest)}
           /\ t.version = s.version /\ t.authorized = s.authorized /\ t.rank = s.rank
           /\ t.parent = s.parent /\ t.lowest = s.lowest
           /\ t.heard = s.heard /\ t.before = s.before
<1> DEFINE kept == {c \in s.cands : Admissible(c.rank, s.rank, s.lowest)}
<1>1. Pruned(s) = [s EXCEPT !.cands = kept]
    BY DEF Pruned, States
<1>2. kept \in SUBSET Cands
    BY DEF States
<1> HIDE DEF kept
<1>3. LET t == Pruned(s) IN
           /\ t \in States
           /\ t.cands = kept
           /\ t.version = s.version /\ t.authorized = s.authorized /\ t.rank = s.rank
           /\ t.parent = s.parent /\ t.lowest = s.lowest
           /\ t.heard = s.heard /\ t.before = s.before
    BY <1>1, <1>2 DEF States
<1> QED
    BY <1>3 DEF kept

\* What a reselection keeps.
SameTable(s, t) ==
    /\ t.version = s.version /\ t.authorized = s.authorized
    /\ t.heard = s.heard /\ t.before = s.before
    /\ t.cands \subseteq s.cands
    /\ t.lowest <= s.lowest

\* A node whose candidates are all admissible leaves or joins.
LEMMA Reselects ==
    ASSUME NEW s \in States, \A c \in s.cands : Admissible(c.rank, s.rank, s.lowest),
           NEW t \in Reselected(s)
    PROVE  /\ t \in States /\ SameTable(s, t)
           /\ t.rank = Infinite => t.cands = {}
           /\ t.lowest <= t.rank
           /\ t.rank # Infinite /\ MaxInc # 0 => t.rank <= t.lowest + MaxInc
<1> USE DodagAssumption
<1> DEFINE best == {c \in s.cands : \A d \in s.cands : c.rank <= d.rank}
<1>0. s.lowest \in Ranks /\ s.lowest <= Infinite /\ s.cands \subseteq Cands
    BY DEF States, Ranks
<1>1. CASE best = {}
    <2>1. s.cands = {}
        BY <1>0, <1>1, BestExists
    <2>2. t = [s EXCEPT !.parent = None, !.rank = Infinite]
        BY <1>1 DEF Reselected, Leave
    <2>3. Infinite \in Ranks
        BY DEF Ranks
    <2>4. /\ t \in States /\ t.cands = {} /\ t.rank = Infinite /\ t.lowest = s.lowest
          /\ t.version = s.version /\ t.authorized = s.authorized
          /\ t.heard = s.heard /\ t.before = s.before
        BY <2>1, <2>2, <2>3 DEF States
    <2> QED
        BY <1>0, <2>1, <2>4 DEF SameTable, Ranks
<1>2. CASE best # {}
    <2>1. PICK b \in best : t = Join(s, Chosen(s, b))
        BY <1>2 DEF Reselected
    <2>2. Chosen(s, b) \in s.cands
        BY ChosenIsCandidate
    <2>3. Admissible(Chosen(s, b).rank, s.rank, s.lowest)
        BY <2>2
    <2>4. /\ t = [s EXCEPT !.parent = t.parent, !.rank = t.rank, !.lowest = t.lowest]
          /\ t.parent \in Nodes /\ t.rank \in Ranks /\ t.lowest \in Ranks
          /\ t.rank # Infinite
          /\ t.lowest <= s.lowest /\ t.lowest <= t.rank
          /\ MaxInc # 0 => t.rank <= t.lowest + MaxInc
        BY <2>1, <2>2, <2>3, Joins
    <2>5. /\ t \in States /\ t.cands = s.cands
          /\ t.version = s.version /\ t.authorized = s.authorized
          /\ t.heard = s.heard /\ t.before = s.before
        BY <2>4 DEF States
    <2> QED
        BY <2>4, <2>5 DEF SameTable
<1> QED
    BY <1>1, <1>2

\* select_parent of any state, however its candidates were changed before.
LEMMA Selects ==
    ASSUME NEW s \in States, NEW t \in Selected(s)
    PROVE  t \in States /\ SameTable(s, t) /\ Ranked(t)
<1>1. PICK u \in Reselected(Pruned(s)) : t = Pruned(u)
    BY DEF Selected
<1> DEFINE p == Pruned(s)
<1>2. /\ p \in States /\ SameTable(s, p) /\ p.lowest = s.lowest
      /\ \A c \in p.cands : Admissible(c.rank, p.rank, p.lowest)
    <2>1. s.lowest <= s.lowest
        BY DodagAssumption DEF States, Ranks
    <2> QED
        BY <2>1, Prunes DEF SameTable
<1> HIDE DEF p
<1>3. /\ u \in States /\ SameTable(p, u)
      /\ u.rank = Infinite => u.cands = {}
      /\ u.lowest <= u.rank
      /\ u.rank # Infinite /\ MaxInc # 0 => u.rank <= u.lowest + MaxInc
    BY <1>1, <1>2, Reselects DEF p
<1>4. /\ t \in States /\ t.cands = {c \in u.cands : Admissible(c.rank, u.rank, u.lowest)}
      /\ t.version = u.version /\ t.authorized = u.authorized /\ t.rank = u.rank
      /\ t.lowest = u.lowest /\ t.heard = u.heard /\ t.before = u.before
    BY <1>1, <1>3, Prunes
<1>5. SameTable(s, t)
    <2>1. t.lowest <= s.lowest
        BY <1>2, <1>3, <1>4 DEF SameTable
    <2> QED
        BY <1>2, <1>3, <1>4, <2>1 DEF SameTable
<1>6. \A c \in t.cands : DagRank(c.rank) < DagRank(t.rank)
    BY <1>3, <1>4 DEF Admissible
<1> QED
    BY <1>3, <1>4, <1>5, <1>6 DEF Ranked

\* remove_parents, of a state whose remaining candidates are in its table.
LEMMA Removes ==
    ASSUME NEW s \in States, NEW gone,
           IsFiniteSet(s.heard), Cardinality(s.heard) <= MaxNeighbors,
           TotalOn(s.before, s.heard), Candidates(s) \ gone \subseteq s.heard,
           NEW t \in Removed(s, gone)
    PROVE  /\ Good(t) /\ t.version = s.version /\ t.lowest <= s.lowest
           /\ t.heard = s.heard
<1> DEFINE u == [s EXCEPT !.cands = {c \in s.cands : c.addr \notin gone}]
<1>1. u \in States /\ u.cands = {c \in s.cands : c.addr \notin gone}
      /\ u.version = s.version /\ u.heard = s.heard /\ u.before = s.before
      /\ u.lowest = s.lowest
    BY DEF States
<1>2. t \in Selected(u)
    BY DEF Removed
<1> HIDE DEF u
<1>3. t \in States /\ SameTable(u, t) /\ Ranked(t)
    BY <1>1, <1>2, Selects
<1>4. Candidates(t) \subseteq s.heard
    BY <1>1, <1>3 DEF SameTable, Candidates
<1> QED
    BY <1>1, <1>3, <1>4 DEF Good, Tabled, SameTable

-----------------------------------------------------------------------------
(* The neighbour table.                                                     *)

\* A full table of at least two has someone to evict besides the parent.
LEMMA EvictsSomeone ==
    ASSUME NEW s \in States, Tabled(s), NEW m \in Nodes, m \notin s.heard,
           ~ (Cardinality(s.heard) < MaxNeighbors)
    PROVE  Evicted(s, m) # {}
<1> USE DodagAssumption
<1> DEFINE S == s.heard
           rest == s.heard \ {s.parent}
<1>1. IsFiniteSet(S) /\ Cardinality(S) \in Nat /\ Cardinality(S) <= MaxNeighbors
    BY FS_CardinalityType DEF Tabled
<1>2. IsFiniteSet(rest) /\ Cardinality(rest) \in {Cardinality(S), Cardinality(S) - 1}
    BY <1>1, FS_RemoveElement
<1>3. Cardinality(rest) # 0
    BY <1>1, <1>2
<1>4. rest # {}
    BY <1>3, FS_EmptySet
<1>5. TotalOn(s.before, S)
    BY DEF Tabled
<1>6. TotalOn({p \in s.before : p \in rest \X rest}, rest)
    BY <1>5 DEF TotalOn
<1>7. First({p \in s.before : p \in rest \X rest}, rest) # {}
    BY <1>2, <1>4, <1>6, FirstExists
<1>8. First(s.before, rest) # {}
    BY <1>7 DEF First
<1> QED
    BY <1>8 DEF Evicted

\* update_with_coords_and_eviction: m is in the table, at most one other left.
LEMMA Hears ==
    ASSUME NEW s \in States, Tabled(s), NEW m \in Nodes
    PROVE  LET t == Heard(s, m) IN
           /\ t \in States
           /\ t.heard = (s.heard \ Evicted(s, m)) \cup {m}
           /\ IsFiniteSet(t.heard) /\ Cardinality(t.heard) <= MaxNeighbors
           /\ TotalOn(t.before, t.heard)
           /\ t.version = s.version /\ t.authorized = s.authorized /\ t.rank = s.rank
           /\ t.parent = s.parent /\ t.cands = s.cands /\ t.lowest = s.lowest
<1> USE DodagAssumption
<1> DEFINE gone == Evicted(s, m)
           kept == s.heard \ gone
           before == Touch(Without(s.before, gone), kept, m)
           t == [s EXCEPT !.heard = kept \cup {m}, !.before = before]
<1>1. IsFiniteSet(s.heard) /\ Cardinality(s.heard) \in Nat /\ Cardinality(s.heard) <= MaxNeighbors
      /\ s.heard \subseteq Nodes
    BY FS_CardinalityType DEF Tabled, States
<1>2. gone \subseteq s.heard
    BY DEF Evicted, First
<1>3. IsFiniteSet(kept) /\ Cardinality(kept) \in Nat /\ Cardinality(kept) <= Cardinality(s.heard)
      /\ (Cardinality(s.heard) = Cardinality(kept) => s.heard = kept)
    <2>1. kept \in SUBSET s.heard
        OBVIOUS
    <2> HIDE DEF kept
    <2>2. IsFiniteSet(kept) /\ Cardinality(kept) <= Cardinality(s.heard)
          /\ (Cardinality(s.heard) = Cardinality(kept) => s.heard = kept)
        BY <1>1, <2>1, FS_Subset
    <2> QED
        BY <2>2, FS_CardinalityType
<1>4. m \in kept \/ Cardinality(kept) < MaxNeighbors
    <2>1. CASE m \in s.heard
        BY <2>1 DEF Evicted
    <2>2. CASE Cardinality(s.heard) < MaxNeighbors
        BY <1>1, <1>3, <2>2
    <2>3. CASE m \notin s.heard /\ ~ (Cardinality(s.heard) < MaxNeighbors)
        <3>1. gone # {}
            BY <2>3, EvictsSomeone
        <3>2. s.heard # kept
            BY <1>2, <3>1
        <3> QED
            BY <1>1, <1>3, <3>2
    <2> QED
        BY <2>1, <2>2, <2>3
<1> HIDE DEF gone
<1>5. /\ IsFiniteSet(kept \cup {m})
      /\ Cardinality(kept \cup {m}) =
             IF m \in kept THEN Cardinality(kept) ELSE Cardinality(kept) + 1
    BY <1>3, FS_AddElement
<1>6. Cardinality(kept \cup {m}) <= MaxNeighbors
    BY <1>1, <1>3, <1>4, <1>5
<1>7. /\ IsFiniteSet(kept \ {m})
      /\ Cardinality(kept \ {m}) =
             IF m \in kept THEN Cardinality(kept) - 1 ELSE Cardinality(kept)
    BY <1>3, FS_RemoveElement
<1>8. Cardinality(kept \ {m}) # MaxNeighbors
    BY <1>1, <1>3, <1>4, <1>7
<1>9. Heard(s, m) = t
    BY <1>8 DEF Heard, gone
<1>10. TotalOn(before, kept \cup {m})
    <2>1. TotalOn(Without(s.before, gone), kept)
        BY WithoutTotal DEF Tabled
    <2> HIDE DEF kept
    <2> QED
        BY <2>1, TouchTotal
<1>11. before \in SUBSET (Nodes \X Nodes) /\ kept \cup {m} \in SUBSET Nodes
    BY <1>1, <1>10 DEF TotalOn
<1> HIDE DEF before
<1>12. /\ t \in States /\ t.heard = kept \cup {m} /\ t.before = before
       /\ t.version = s.version /\ t.authorized = s.authorized /\ t.rank = s.rank
       /\ t.parent = s.parent /\ t.cands = s.cands /\ t.lowest = s.lowest
    <2> HIDE DEF kept
    <2> QED
        BY <1>11 DEF States
<1> QED
    BY <1>5, <1>6, <1>9, <1>10, <1>12 DEF gone

\* Who is dropped from the table is dropped as a candidate.
LEMMA Forgets ==
    ASSUME NEW s, Good(s), NEW gone, NEW t \in Forgotten(s, gone)
    PROVE  Good(t) /\ t.version = s.version /\ t.lowest <= s.lowest
<1> DEFINE h == s.heard \ gone
           b == Without(s.before, gone)
           u == [s EXCEPT !.heard = h, !.before = b]
<1>1. s \in States /\ Tabled(s)
    BY DEF Good
<1>2. h \in SUBSET s.heard /\ TotalOn(b, h) /\ IsFiniteSet(s.heard)
    BY <1>1, WithoutTotal DEF Tabled
<1>3. IsFiniteSet(h) /\ Cardinality(h) <= Cardinality(s.heard)
    BY <1>2, FS_Subset
<1>4. Cardinality(h) <= MaxNeighbors
    <2>1. Cardinality(h) \in Nat /\ Cardinality(s.heard) \in Nat /\ Cardinality(s.heard) <= MaxNeighbors
        BY <1>1, <1>2, <1>3, FS_CardinalityType DEF Tabled
    <2> QED
        BY <1>3, <2>1, DodagAssumption
<1>5. h \in SUBSET Nodes /\ b \in SUBSET (Nodes \X Nodes)
    BY <1>1 DEF States, Without
<1>6. Candidates(s) \ gone \subseteq h
    BY <1>1 DEF Tabled
<1> HIDE DEF h, b
<1>7. /\ u \in States /\ u.heard = h /\ u.before = b /\ u.cands = s.cands
      /\ u.version = s.version /\ u.lowest = s.lowest
    BY <1>1, <1>5 DEF States
<1>8. t \in Removed(u, gone)
    BY DEF Forgotten, Unheard, h, b
<1> HIDE DEF u
<1>9. Candidates(u) \ gone \subseteq u.heard
    BY <1>6, <1>7 DEF Candidates
<1> QED
    BY <1>2, <1>3, <1>4, <1>7, <1>8, <1>9, Removes

-----------------------------------------------------------------------------
(* DIOs.                                                                    *)

\* The staged state: m is tracked, and who made room for it is no candidate.
LEMMA Stages ==
    ASSUME NEW s, Good(s), NEW m \in Nodes, NEW t \in Staged(s, m)
    PROVE  Good(t) /\ m \in t.heard /\ t.version = s.version /\ t.lowest <= s.lowest
<1> DEFINE h == Heard(s, m)
           ev == Evicted(s, m)
<1>1. s \in States /\ Tabled(s) /\ Ranked(s) /\ Candidates(s) \subseteq s.heard
    BY DEF Good, Tabled
<1>2. /\ h \in States
      /\ h.heard = (s.heard \ ev) \cup {m}
      /\ IsFiniteSet(h.heard) /\ Cardinality(h.heard) <= MaxNeighbors
      /\ TotalOn(h.before, h.heard)
      /\ h.version = s.version /\ h.authorized = s.authorized /\ h.rank = s.rank
      /\ h.parent = s.parent /\ h.cands = s.cands /\ h.lowest = s.lowest
    BY <1>1, Hears
<1>3. t \in IF ev = {} THEN {h} ELSE Removed(h, ev)
    BY DEF Staged
<1> HIDE DEF h, ev
<1>4. Candidates(h) \ ev \subseteq h.heard
    BY <1>1, <1>2 DEF Candidates
<1>5. CASE ev = {}
    <2>1. t = h /\ h.lowest <= s.lowest
        BY <1>1, <1>2, <1>3, <1>5, DodagAssumption DEF States, Ranks
    <2> QED
        BY <1>1, <1>2, <1>4, <1>5, <2>1 DEF Good, Tabled, Ranked
<1>6. CASE ev # {}
    BY <1>2, <1>3, <1>4, <1>6, Removes
<1> QED
    BY <1>5, <1>6

\* process_dio_with_version_authorization of a tracked neighbour's DIO.
LEMMA Processes ==
    ASSUME NEW old, Good(old), NEW m \in Nodes, m \in old.heard, NEW dio \in Dios,
           NEW res \in ProcessDio(old, m, dio), res[1] # "rejected"
    PROVE  Good(res[2]) /\ Falls(old, res[2])
<1> USE DodagAssumption
<1> DEFINE newer == VersionNewer(dio.version, old.version)
           s     == IF newer THEN Adopted(old, dio.version) ELSE old
           unfit == \/ s.rank # Infinite /\ dio.rank >= s.rank
                    \/ ~ Admissible(dio.rank, s.rank, s.lowest)
<1>1. old \in States /\ Tabled(old) /\ dio.version \in Nat /\ dio.rank \in Nat
      /\ old.version \in Nat /\ old.lowest \in Ranks
    BY DEF Good, Dios, States
<1>2. /\ s \in States /\ s.heard = old.heard /\ s.before = old.before
      /\ s.cands \subseteq old.cands /\ Falls(old, s)
    <2>1. CASE newer
        <3>1. s = [Leave(old) EXCEPT !.version = dio.version, !.lowest = Infinite, !.cands = {}]
            BY <2>1 DEF Adopted
        <3>2. Infinite \in Ranks /\ dio.version # old.version
            BY <1>1, <2>1 DEF Ranks, VersionNewer
        <3> HIDE DEF s, newer
        <3>3. /\ s \in States /\ s.heard = old.heard /\ s.before = old.before
              /\ s.cands = {} /\ s.version = dio.version
            BY <1>1, <3>1, <3>2 DEF States, Leave
        <3> QED
            BY <3>2, <3>3 DEF Falls
    <2>2. CASE ~ newer
        <3>1. old.lowest <= old.lowest
            BY <1>1 DEF Ranks
        <3> QED
            BY <1>1, <2>2, <3>1 DEF Falls
    <2> QED
        BY <2>1, <2>2
<1>3. res \in IF newer /\ ~ Admissible(dio.rank, Infinite, Infinite)
              THEN {<<"rejected", s>>}
              ELSE IF unfit
              THEN {<<IF m \in Candidates(s) THEN "removed" ELSE "rejected", t>> :
                      t \in Removed(s, {m})}
              ELSE {<<"accepted", t>> : t \in Selected(Inserted(s, m, dio.rank))}
    BY DEF ProcessDio
<1> HIDE DEF newer, s, unfit
<1>4. /\ IsFiniteSet(s.heard) /\ Cardinality(s.heard) <= MaxNeighbors
      /\ TotalOn(s.before, s.heard) /\ Candidates(s) \subseteq s.heard
    BY <1>1, <1>2 DEF Tabled, Candidates
<1>5. CASE res[2] \in Removed(s, {m})
    <2>1. Good(res[2]) /\ res[2].version = s.version /\ res[2].lowest <= s.lowest
        BY <1>2, <1>4, <1>5, Removes
    <2>2. s.lowest \in Ranks /\ res[2].lowest \in Ranks
        BY <1>2, <2>1 DEF Good, States
    <2> QED
        BY <1>1, <1>2, <2>1, <2>2 DEF Falls, Ranks
<1>6. CASE res[2] \in Selected(Inserted(s, m, dio.rank))
    <2> DEFINE cs == {c \in s.cands : c.addr # m} \cup {Candidate(m, dio.rank)}
               u == Inserted(s, m, dio.rank)
    <2>1. Candidate(m, dio.rank) \in Cands /\ Candidate(m, dio.rank).addr = m
        BY <1>1 DEF Candidate, Cands
    <2>2. cs \in SUBSET Cands
        BY <1>2, <2>1 DEF States
    <2>3. u = s \/ u = [s EXCEPT !.cands = cs]
        BY DEF Inserted, States
    <2>4. \A c \in cs : c.addr \in s.heard
        BY <1>2, <1>4, <2>1 DEF Candidates
    <2> HIDE DEF cs, u
    <2>5. /\ u \in States /\ u.heard = s.heard /\ u.before = s.before
          /\ u.version = s.version /\ u.lowest = s.lowest /\ u.cands \in {s.cands, cs}
        BY <1>2, <2>2, <2>3 DEF States
    <2>6. Candidates(u) \subseteq s.heard
        BY <1>4, <2>4, <2>5 DEF Candidates
    <2>7. res[2] \in States /\ SameTable(u, res[2]) /\ Ranked(res[2])
        BY <1>6, <2>5, Selects DEF u
    <2>8. Candidates(res[2]) \subseteq s.heard
        BY <2>6, <2>7 DEF SameTable, Candidates
    <2>9. Good(res[2])
        BY <1>4, <2>5, <2>7, <2>8 DEF Good, Tabled, SameTable
    <2>10. s.lowest \in Ranks /\ res[2].lowest \in Ranks
        BY <1>2, <2>7 DEF States
    <2> QED
        BY <1>1, <1>2, <2>5, <2>7, <2>9, <2>10 DEF Falls, SameTable, Ranks
<1> QED
    BY <1>3, <1>5, <1>6

\* process_dio_with_etx_outcome: whatever the Router answers to a DIO.
LEMMA Answers ==
    ASSUME NEW s, Good(s), NEW m \in Nodes, NEW dio \in Dios, NEW res \in Processed(s, m, dio)
    PROVE  Good(res[2]) /\ Falls(s, res[2])
<1>0. s \in States /\ s.lowest \in Ranks
    BY DEF Good, States
<1>1. CASE res = Rejected(s)
    <2>1. s.lowest <= s.lowest
        BY <1>0, DodagAssumption DEF Ranks
    <2> QED
        BY <1>1, <2>1 DEF Rejected, Falls
<1>2. ASSUME NEW t \in Removed(Heard(s, m), {m}), res = Accepted(t), m \in s.heard
      PROVE  Good(res[2]) /\ Falls(s, res[2])
    <2> DEFINE h == Heard(s, m)
    <2>1. /\ h \in States
          /\ h.heard = (s.heard \ Evicted(s, m)) \cup {m}
          /\ IsFiniteSet(h.heard) /\ Cardinality(h.heard) <= MaxNeighbors
          /\ TotalOn(h.before, h.heard)
          /\ h.version = s.version /\ h.cands = s.cands /\ h.lowest = s.lowest
        BY Hears DEF Good
    <2>2. Evicted(s, m) = {}
        BY <1>2 DEF Evicted
    <2>3. t \in Removed(h, {m})
        BY <1>2
    <2> HIDE DEF h
    <2>4. Candidates(h) \ {m} \subseteq h.heard
        BY <2>1, <2>2 DEF Candidates, Good, Tabled
    <2>5. Good(t) /\ t.version = s.version /\ t.lowest <= s.lowest
        BY <2>1, <2>3, <2>4, Removes
    <2> QED
        BY <1>2, <2>5 DEF Accepted, Falls
<1>3. ASSUME NEW t \in Staged(s, m), NEW r \in ProcessDio(t, m, dio), res = Installed(s, dio, r)
      PROVE  Good(res[2]) /\ Falls(s, res[2])
    <2>1. Good(t) /\ m \in t.heard /\ t.version = s.version /\ t.lowest <= s.lowest
        BY <1>3, Stages
    <2>2. CASE r[1] = "rejected"
        <3>1. res = Rejected(s)
            BY <1>3, <2>2 DEF Installed
        <3> QED
            BY <1>1, <3>1
    <2>3. CASE r[1] # "rejected"
        <3> DEFINE v == r[2]
        <3>1. Good(v) /\ Falls(t, v)
            BY <1>3, <2>1, <2>3, Processes
        <3>2. v \in States /\ t.lowest \in Ranks /\ v.lowest \in Ranks
            BY <2>1, <3>1 DEF Good, States
        <3>3. Falls(s, v)
            BY <1>0, <2>1, <3>1, <3>2 DEF Falls, Ranks
        <3>4. CASE r[1] = "removed"
            <4>1. res = Accepted(v)
                BY <1>3, <3>4 DEF Installed
            <4> QED
                BY <3>1, <3>3, <4>1 DEF Accepted
        <3>5. CASE r[1] # "removed"
            <4> DEFINE w == [v EXCEPT !.authorized = @ \/ dio.authorized]
            <4>1. res = Accepted(w)
                BY <1>3, <2>3, <3>5 DEF Installed
            <4> HIDE DEF v
            <4>2. (v.authorized \/ dio.authorized) \in BOOLEAN
                BY <3>2
            <4>3. /\ w \in States /\ w.version = v.version /\ w.lowest = v.lowest
                  /\ w.cands = v.cands /\ w.heard = v.heard /\ w.before = v.before
                  /\ w.rank = v.rank
                BY <3>2, <4>2 DEF States
            <4> HIDE DEF w
            <4>4. Good(w) /\ Falls(s, w)
                BY <3>1, <3>3, <4>3 DEF Good, Tabled, Ranked, Candidates, Falls
            <4> QED
                BY <4>1, <4>4 DEF Accepted
        <3> QED
            BY <3>4, <3>5
    <2> QED
        BY <2>2, <2>3
<1> QED
    BY <1>1, <1>2, <1>3 DEF Processed

-----------------------------------------------------------------------------
(* The network.                                                             *)

Types ==
    /\ DOMAIN node = Leaves
    /\ low \in [Leaves -> Ranks]
    /\ root \in [version : Nat, up : BOOLEAN]
    /\ \A f \in air : f.from \in Nodes /\ f.to \in Leaves /\ f.dio \in Dios

\* Each leaf is in order, and its DodagState remembers a rank that is no
\* higher than the lowest one it has shown in its version.
DInv ==
    /\ Types
    /\ \A n \in Leaves : Good(node[n]) /\ node[n].lowest <= low[n]

\* The nodes as Router::new makes them.
LEMMA NewIsGood == Good(NewNode) /\ NewNode.lowest = Infinite
<1> USE DodagAssumption
<1>1. NewNode \in States
    BY DEF NewNode, States, Ranks
<1>2. IsFiniteSet({}) /\ Cardinality({}) = 0
    BY FS_EmptySet
<1>3. Tabled(NewNode)
    BY <1>2 DEF Tabled, NewNode, TotalOn, Candidates
<1>4. Ranked(NewNode)
    BY DEF Ranked, NewNode
<1> QED
    BY <1>1, <1>3, <1>4 DEF Good, NewNode

\* Init satisfies the invariant.
LEMMA DInvInit == Init => DInv
<1> SUFFICES ASSUME Init
             PROVE  DInv
    OBVIOUS
<1>1. node = [n \in Leaves |-> NewNode] /\ low = [n \in Leaves |-> Infinite]
      /\ air = {} /\ root = [version |-> 0, up |-> TRUE]
    BY DEF Init
<1>2. Infinite \in Ranks /\ Infinite <= Infinite
    BY DodagAssumption DEF Ranks
<1> QED
    BY <1>1, <1>2, NewIsGood DEF DInv, Types

\* A leaf that becomes a good state whose lowest rank only fell keeps it.
LEMMA BecomesKeeps ==
    ASSUME DInv, NEW n \in Leaves, NEW s, Becomes(n, s), Good(s), Falls(node[n], s),
           root' = root, air' \subseteq air
    PROVE  DInv'
<1>1. node' = [node EXCEPT ![n] = s]
      /\ low' = [low EXCEPT ![n] = IF s.version # node[n].version THEN s.rank ELSE Lower(low[n], s.rank)]
    BY DEF Becomes, DInv, Types
<1>2. s.rank \in Ranks /\ s.lowest \in Ranks /\ s.lowest <= s.rank
    BY DEF Good, States, Ranked
<1>3. node[n].lowest \in Ranks /\ low[n] \in Ranks /\ node[n].lowest <= low[n]
    BY DEF DInv, Types, Good, States
<1>4. low'[n] \in Ranks /\ s.lowest <= low'[n]
    BY <1>1, <1>2, <1>3, DodagAssumption DEF Lower, Ranks, Falls, DInv, Types
<1>5. \A k \in Leaves \ {n} : node'[k] = node[k] /\ low'[k] = low[k]
    BY <1>1 DEF DInv, Types
<1>6. node'[n] = s /\ DOMAIN node' = Leaves /\ low' \in [Leaves -> Ranks]
    BY <1>1, <1>4 DEF DInv, Types
<1> QED
    BY <1>4, <1>5, <1>6 DEF DInv, Types

\* Every step of every node, the radio and the root keeps it.
LEMMA DInvStep == DInv /\ [Next]_vars => DInv'
<1> SUFFICES ASSUME DInv, [Next]_vars
             PROVE  DInv'
    OBVIOUS
<1> USE DodagAssumption
<1>1. ASSUME NEW m \in Nodes, Broadcast(m)
      PROVE  DInv'
    <2>1. /\ air' = {[from |-> m, to |-> n, dio |-> DioOf(m)] :
                         n \in {k \in Leaves : <<m, k>> \in Links}}
          /\ UNCHANGED <<node, root, low>>
        BY <1>1 DEF Broadcast
    <2>2. DioOf(m) \in Dios
        <3>1. CASE m = Root
            BY <3>1 DEF DioOf, Dios, DInv, Types
        <3>2. CASE m # Root
            <4>1. m \in Leaves
                BY <3>2 DEF Nodes
            <4>2. node[m] \in States
                BY <4>1 DEF DInv, Good
            <4> QED
                BY <3>2, <4>2 DEF DioOf, Dios, States, Ranks
        <3> QED
            BY <3>1, <3>2
    <2>3. ASSUME NEW f \in air'
          PROVE  f.from \in Nodes /\ f.to \in Leaves /\ f.dio \in Dios
        <3> DEFINE d == DioOf(m)
        <3>1. d \in Dios
            BY <2>2
        <3>2. PICK n \in Leaves : f = [from |-> m, to |-> n, dio |-> d]
            BY <2>1
        <3> HIDE DEF d
        <3> QED
            BY <3>1, <3>2
    <2> QED
        BY <2>1, <2>3 DEF DInv, Types
<1>2. ASSUME NEW n \in Leaves, NEW m \in Nodes, NEW answer, Receive(n, m, answer)
      PROVE  DInv'
    <2>1. PICK f \in air :
             /\ f.from = m /\ air' = air \ {f}
             /\ \E res \in Processed(node[n], m, f.dio) : Becomes(n, res[2])
        BY <1>2 DEF Receive
    <2>2. PICK res \in Processed(node[n], m, f.dio) : Becomes(n, res[2])
        BY <2>1
    <2>3. Good(node[n]) /\ f.dio \in Dios
        BY DEF DInv, Types
    <2>4. Good(res[2]) /\ Falls(node[n], res[2])
        BY <2>2, <2>3, Answers
    <2>5. root' = root /\ air' \subseteq air
        BY <1>2, <2>1 DEF Receive
    <2> QED
        BY <2>2, <2>4, <2>5, BecomesKeeps
<1>3. ASSUME NEW n \in Leaves, NEW gone, NEW s \in Forgotten(node[n], gone), Becomes(n, s),
             UNCHANGED <<root, air>>
      PROVE  DInv'
    <2>1. Good(node[n])
        BY DEF DInv
    <2>2. Good(s) /\ Falls(node[n], s)
        BY <1>3, <2>1, Forgets DEF Falls
    <2> QED
        BY <1>3, <2>2, BecomesKeeps
<1>4. ASSUME NEW n \in Leaves, NEW m \in Nodes, Revoke(n, m)
      PROVE  DInv'
    BY <1>3, <1>4 DEF Revoke
<1>5. ASSUME NEW n \in Leaves, NEW m \in Nodes, Maintain(n, m)
      PROVE  DInv'
    BY <1>3, <1>5 DEF Maintain
<1>6. ASSUME NEW n \in Leaves, Reboot(n)
      PROVE  DInv'
    <2>1. /\ node' = [node EXCEPT ![n] = NewNode] /\ low' = [low EXCEPT ![n] = Infinite]
          /\ UNCHANGED <<root, air>>
        BY <1>6 DEF Reboot
    <2>2. Infinite \in Ranks /\ Infinite <= Infinite
        BY DEF Ranks
    <2>3. /\ \A k \in Leaves \ {n} : node'[k] = node[k] /\ low'[k] = low[k]
          /\ node'[n] = NewNode /\ low'[n] = Infinite
          /\ DOMAIN node' = Leaves /\ low' \in [Leaves -> Ranks]
        BY <2>1, <2>2 DEF DInv, Types
    <2> QED
        BY <2>1, <2>2, <2>3, NewIsGood DEF DInv, Types
<1>7. CASE NewVersion \/ RootLost
    <2>1. UNCHANGED <<node, air, low>> /\ root' \in [version : Nat, up : BOOLEAN]
        <3>1. CASE NewVersion
            <4>1. root' = [root EXCEPT !.version = root.version + 1] /\ UNCHANGED <<node, air, low>>
                BY <3>1 DEF NewVersion
            <4> QED
                BY <4>1 DEF DInv, Types
        <3>2. CASE RootLost
            <4>1. root' = [root EXCEPT !.up = FALSE] /\ UNCHANGED <<node, air, low>>
                BY <3>2 DEF RootLost
            <4> QED
                BY <4>1 DEF DInv, Types
        <3> QED
            BY <1>7, <3>1, <3>2
    <2> QED
        BY <2>1 DEF DInv, Types
<1>8. CASE UNCHANGED vars
    BY <1>8 DEF vars, DInv, Types
<1> QED
    BY <1>1, <1>2, <1>4, <1>5, <1>6, <1>7, <1>8 DEF Next

\* The invariant holds in every behaviour, whatever DIOs are lost or late.
LEMMA Invariance == Spec => []DInv
BY DInvInit, DInvStep, PTL DEF Spec

\* No node creeps more than MaxRankIncrease above the lowest rank it has held
\* in its version, also over leaving and coming back (select_parent and
\* adopt_version).
THEOREM NeverCreeps == Spec => []NoCreep
<1>1. DInv => NoCreep
    <2> SUFFICES ASSUME DInv, NEW n \in Leaves, node[n].rank # Infinite, MaxInc # 0
                 PROVE  node[n].rank <= low[n] + MaxInc
        BY DEF NoCreep
    <2>1. /\ node[n].rank \in Ranks /\ node[n].lowest \in Ranks /\ low[n] \in Ranks
          /\ node[n].lowest <= low[n] /\ node[n].rank <= node[n].lowest + MaxInc
        BY DEF DInv, Types, Good, States, Ranked
    <2> QED
        BY <2>1, DodagAssumption DEF Ranks
<1> QED
    BY Invariance, <1>1, PTL

\* Every candidate is a tracked neighbour of lower rank than the node: evicting,
\* pruning or revoking a neighbour takes its candidacy along, for every table
\* of at least two entries.
THEOREM AlwaysTracked == Spec => []CandidatesTracked
<1>1. DInv => CandidatesTracked
    BY DEF DInv, Good, Tabled, Ranked, Candidates, CandidatesTracked
<1> QED
    BY Invariance, <1>1, PTL
=============================================================================
