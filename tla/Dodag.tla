-------------------------------- MODULE Dodag --------------------------------
(***************************************************************************)
(* The DODAG of a network of leaves and a root: what each Router does with  *)
(* a DIO (process_authenticated_dio), with the silence of a neighbour       *)
(* (maintain) and with a frame that revokes its signer, over DodagState     *)
(* (lichen-rpl dodag.rs: MRHOF parent selection with hysteresis, the        *)
(* MaxRankIncrease bound, versions) and the NeighborTable.                  *)
(*                                                                          *)
(* A DIO says what its sender was when it was built; it is heard late, by   *)
(* some, or not at all.  No node persists any of this.  The rank            *)
(* configuration is the same everywhere: every Router is built with the     *)
(* default one, and no root changes it.  RplStack passes the link ETX 1.0,  *)
(* so a hop costs MinHopRankIncrease.  The role is Joined exactly when      *)
(* there is a preferred parent.  The rate limit on DIOs is one more loss.   *)
(* The root sends the form of DIO that carries the authorization of its     *)
(* version; the root-signed form leaves it out for its size.                *)
(***************************************************************************)
EXTENDS Integers, FiniteSets, AccessOrder

CONSTANTS
    Leaves, Root,        \* the nodes
    Links,               \* pairs <<sender, leaf>> in radio range
    MinHop,              \* MIN_HOP_RANK_INCREASE
    MaxInc,              \* MAX_RANK_INCREASE
    Threshold,           \* PARENT_SWITCH_THRESHOLD
    Infinite,            \* INFINITE_RANK
    MaxNeighbors,        \* MAX_NEIGHBORS = MAX_PARENT_CANDIDATES
    MaxEvents            \* bound on new versions and restarts together

None == "none"
Nodes == Leaves \union {Root}

ASSUME DodagAssumption ==
    /\ Root \notin Leaves /\ None \notin Nodes
    /\ Links \subseteq Nodes \X Leaves
    /\ {MinHop, Infinite} \subseteq Nat \ {0} /\ MaxNeighbors \in Nat \ {0, 1}
    /\ {MaxInc, Threshold, MaxEvents} \subseteq Nat
    /\ MinHop <= Infinite \div 2 /\ MaxEvents <= 16

VARIABLES
    node,      \* the DodagState, neighbours and version authorization of each leaf
    root,      \* the root: its version, and whether it is there
    air,       \* the DIO under way, once for everyone who may still hear it
    events,    \* how many new versions and restarts there were
    low        \* observer: the lowest rank each leaf has held in its version

vars == <<node, root, air, events, low>>

-----------------------------------------------------------------------------
\* version_cmp and lollipop_cmp, of versions within one window.
VersionNewer(a, b) == a > b

(* DodagState.                                                              *)

\* DodagState::new and NeighborTable::new.
NewNode == [version |-> 0, authorized |-> FALSE, rank |-> Infinite, parent |-> None,
            cands |-> {}, lowest |-> Infinite,
            heard |-> {}, before |-> {}]

Saturated(r) == IF r > Infinite THEN Infinite ELSE r

\* ParentCandidate::path_cost.
PathCost(r) == Saturated(r + MinHop)

\* Ranks are compared in whole hops.
DagRank(r) == r \div MinHop

\* candidate_admissible: of a neighbour of rank r, to a node of this rank.
Admissible(r, rank, lowest) ==
    /\ r >= MinHop /\ PathCost(r) # Infinite /\ DagRank(PathCost(r)) > DagRank(r)
    /\ rank # Infinite => DagRank(r) < DagRank(rank)
    /\ MaxInc = 0 \/ lowest = Infinite \/ PathCost(r) <= Saturated(lowest + MaxInc)

\* The map of parent candidates is a set of them, one for each address.
Candidate(m, r) == [addr |-> m, rank |-> r]
Candidates(s) == {c.addr : c \in s.cands}

\* prune_inadmissible_parents.
Pruned(s) == [s EXCEPT !.cands = {c \in @ : Admissible(c.rank, s.rank, s.lowest)}]

\* The hysteresis of select_parent: the present parent stays unless the best
\* candidate is better by the threshold.
Chosen(s, best) ==
    LET cost(c) == PathCost(c.rank)
        bar(c)  == IF cost(c) > Threshold THEN cost(c) - Threshold ELSE 0
        stays   == {c \in s.cands : c.addr = s.parent /\ cost(best) > bar(c)}
    IN  IF stays = {} THEN best ELSE CHOOSE c \in stays : TRUE

\* Mutant of Leave: a node that leaves forgets its lowest rank.
LeaveAfresh(s) == [s EXCEPT !.parent = None, !.rank = Infinite, !.lowest = Infinite]

\* Without a candidate the node leaves, but remembers its lowest rank.
Leave(s) == [s EXCEPT !.parent = None, !.rank = Infinite]

Join(s, c) ==
    [s EXCEPT !.parent = c.addr, !.rank = PathCost(c.rank),
              !.lowest = IF PathCost(c.rank) < @ THEN PathCost(c.rank) ELSE @]

\* select_parent: the possible outcomes, because equal candidates are met in
\* the order of a hash map.
Reselected(s) ==
    LET best == {c \in s.cands : \A d \in s.cands : c.rank <= d.rank}
    IN  IF best = {} THEN {Leave(s)} ELSE {Join(s, Chosen(s, b)) : b \in best}

Selected(old) == {Pruned(t) : t \in UNION {Reselected(s) : s \in {Pruned(old)}}}

\* remove_parents.
Removed(s, gone) == Selected([s EXCEPT !.cands = {c \in @ : c.addr \notin gone}])

\* adopt_version.
Adopted(s, version) ==
    [Leave(s) EXCEPT !.version = version, !.lowest = Infinite, !.cands = {}]

\* The candidate of process_dio_with_version_authorization is taken or updated.
\* A full candidate set takes no new one.
Inserted(s, m, rank) ==
    IF m \in Candidates(s) \/ Cardinality(s.cands) < MaxNeighbors
    THEN [s EXCEPT !.cands = {c \in @ : c.addr # m} \union {Candidate(m, rank)}]
    ELSE s

\* process_dio_with_version_authorization of an authorized DIO with a finite
\* rank: the outcomes and the states they come with.
ProcessDio(old, m, dio) ==
    LET newer == VersionNewer(dio.version, old.version)
        s     == IF newer THEN Adopted(old, dio.version) ELSE old
        unfit == \/ s.rank # Infinite /\ dio.rank >= s.rank
                 \/ ~ Admissible(dio.rank, s.rank, s.lowest)
    IN  IF newer /\ ~ Admissible(dio.rank, Infinite, Infinite)
        THEN {<<"rejected", s>>}
        ELSE IF unfit
        THEN {<<IF m \in Candidates(s) THEN "removed" ELSE "rejected", t>> :
                t \in Removed(s, {m})}
        ELSE {<<"accepted", t>> : t \in Selected(Inserted(s, m, dio.rank))}

-----------------------------------------------------------------------------
(* The neighbour table: who was heard, and before in the order of their     *)
(* last_seen_ms.                                                            *)

\* The oldest entry but for the preferred parent, when a new one needs its place.
Evicted(s, m) ==
    IF m \in s.heard \/ Cardinality(s.heard) < MaxNeighbors THEN {}
    ELSE First(s.before, s.heard \ {s.parent})

\* update_with_coords_and_eviction.  A table of nothing but the preferred
\* parent is left as it is.
Heard(s, m) ==
    LET kept == s.heard \ Evicted(s, m)
    IN  IF Cardinality(kept \ {m}) = MaxNeighbors THEN s
        ELSE [s EXCEPT !.heard = kept \cup {m},
                       !.before = Touch(Without(@, Evicted(s, m)), kept, m)]

Unheard(s, gone) == [s EXCEPT !.heard = @ \ gone, !.before = Without(@, gone)]

\* Mutant of Forgotten: the candidates stay.
ForgottenNeighbour(s, gone) ==
    {Unheard(s, gone)}

\* The neighbours of gone are dropped, and their candidates with them.
Forgotten(s, gone) ==
    Removed(Unheard(s, gone), gone)

\* What can have aged out of the table together: the least recently heard ones.
Oldest(s) ==
    {gone \in SUBSET s.heard :
        gone # {} /\ \A x \in gone, y \in s.heard \ gone : <<x, y>> \in s.before}

-----------------------------------------------------------------------------
(* Router.                                                                  *)

\* Mutant of Staged: who is evicted stays a candidate.
StagedKeeping(s, m) == {Heard(s, m)}

\* The staged neighbours and DODAG: hearing m may evict a candidate.
Staged(s, m) ==
    IF Evicted(s, m) = {} THEN {Heard(s, m)} ELSE Removed(Heard(s, m), Evicted(s, m))

\* What the Router answers, and what it becomes.
Rejected(s) == <<"rejected", s>>
Accepted(s) == <<"accepted", s>>

\* What is installed of the staged state: nothing of a rejected DIO.
Installed(s, dio, result) ==
    CASE result[1] = "rejected" -> Rejected(s)
      [] result[1] = "removed"  -> Accepted(result[2])
      [] OTHER -> Accepted([result[2] EXCEPT !.authorized = @ \/ dio.authorized])

\* process_dio_with_etx_outcome.
Processed(s, m, dio) ==
    IF \/ VersionNewer(s.version, dio.version)
       \/ VersionNewer(dio.version, s.version) /\ ~ dio.authorized
    THEN {Rejected(s)}
    ELSE IF dio.rank = Infinite
    THEN IF dio.version # s.version \/ m \notin s.heard THEN {Rejected(s)}
         ELSE {Accepted(t) : t \in Removed(Heard(s, m), {m})}
    ELSE {Installed(s, dio, result) :
            result \in UNION {ProcessDio(t, m, dio) : t \in Staged(s, m)}}

\* build_authenticated_dio: a leaf passes on the root's authorization of its
\* version; without a parent its rank is infinite.
DioOf(m) ==
    IF m = Root THEN [version |-> root.version, rank |-> MinHop, authorized |-> TRUE]
    ELSE [version |-> node[m].version, rank |-> node[m].rank,
          authorized |-> node[m].authorized]

-----------------------------------------------------------------------------
(* Actions.                                                                 *)

Init ==
    /\ node = [n \in Leaves |-> NewNode]
    /\ root = [version |-> 0, up |-> TRUE]
    /\ air = {}
    /\ events = 0
    /\ low = [n \in Leaves |-> Infinite]

Lower(a, b) == IF a < b THEN a ELSE b

\* A step of leaf n, observed.
Becomes(n, s) ==
    /\ node' = [node EXCEPT ![n] = s]
    /\ low' = [low EXCEPT ![n] =
                 IF s.version # node[n].version THEN s.rank ELSE Lower(@, s.rank)]

\* send_dio.  What is under way is replaced: it is lost to who has not heard it.
Broadcast(m) ==
    /\ m = Root => root.up
    /\ air' = {[from |-> m, to |-> n, dio |-> DioOf(m)] :
                   n \in {k \in Leaves : <<m, k>> \in Links}}
    /\ UNCHANGED <<node, root, events, low>>

\* RplStack hears a DIO of m that passes the link layer and SCHC.
Receive(n, m, answer) ==
    /\ \E f \in air :
          /\ f.to = n /\ f.from = m
          /\ air' = air \ {f}
          /\ \E result \in Processed(node[n], m, f.dio) :
                result[1] = answer /\ Becomes(n, result[2])
    /\ UNCHANGED <<root, events>>

\* revoke_schc_peer: an authentic frame of a neighbour that fails DIO admission.
Revoke(n, m) ==
    /\ <<m, n>> \in Links /\ m \in node[n].heard
    /\ \E s \in Forgotten(node[n], {m}) : Becomes(n, s)
    /\ UNCHANGED <<root, air, events>>

\* maintain, when m and perhaps others have not been heard for a timeout.
Maintain(n, m) ==
    /\ \E gone \in Oldest(node[n]) :
          /\ m \in gone
          /\ \E s \in Forgotten(node[n], gone) : Becomes(n, s)
    /\ UNCHANGED <<root, air, events>>

Reboot(n) ==
    /\ events < MaxEvents
    /\ events' = events + 1
    /\ node' = [node EXCEPT ![n] = NewNode]
    /\ low' = [low EXCEPT ![n] = Infinite]
    /\ UNCHANGED <<root, air>>

\* External: a root that repairs its DODAG (the coordinator of the other
\* implementations), and one that is switched off.
NewVersion ==
    /\ root.up /\ events < MaxEvents
    /\ events' = events + 1
    /\ root' = [root EXCEPT !.version = @ + 1]
    /\ UNCHANGED <<node, air, low>>

RootLost ==
    /\ root.up
    /\ root' = [root EXCEPT !.up = FALSE]
    /\ UNCHANGED <<node, air, events, low>>

Next ==
    \/ \E m \in Nodes : Broadcast(m)
    \/ \E n \in Leaves, m \in Nodes :
          \/ \E answer \in {"accepted", "rejected"} : Receive(n, m, answer)
          \/ Revoke(n, m) \/ Maintain(n, m)
    \/ \E n \in Leaves : Reboot(n)
    \/ NewVersion
    \/ RootLost

\* The owner loop runs maintenance for as long as the node is on (RplLoop), so
\* a neighbour is pruned or has a DIO accepted time and again.  Nothing is
\* assumed of the radio.
Fairness ==
    \A l \in Links :
        WF_vars(Maintain(l[2], l[1])) \/ []<><<Receive(l[2], l[1], "accepted")>>_vars

Spec == Init /\ [][Next]_vars /\ Fairness

-----------------------------------------------------------------------------
(* Properties.                                                              *)

\* Within a version a node never ranks more than MaxRankIncrease above the
\* lowest rank it has held, also after it has left the DODAG and come back.
NoCreep ==
    \A n \in Leaves :
        node[n].rank # Infinite /\ MaxInc # 0 => node[n].rank <= low[n] + MaxInc

\* Whatever is a candidate is a tracked neighbour, so its silence is noticed,
\* and below the node, so choosing it makes no loop.
CandidatesTracked ==
    \A n \in Leaves : \A c \in node[n].cands :
        /\ c.addr \in node[n].heard
        /\ DagRank(c.rank) < DagRank(node[n].rank)

\* When the root is gone, every node ends up outside the DODAG: no two keep
\* each other in it for ever.
OrphansLeave == ~ root.up ~> \A n \in Leaves : node[n].parent = None
=============================================================================
