------------------------------- MODULE DaoRoot -------------------------------
(***************************************************************************)
(* The root of the DODAG: admission and replay floors (lichen-rpl           *)
(* persistence.rs), DaoManager::process_signature_verified and the source   *)
(* routes it assembles (routing.rs), as RplStack and Router drive them.     *)
(*                                                                          *)
(* The leaves are DaoSource.  A DAO that was made may reach the root any    *)
(* number of times, in any order, or never: relays, the radio and a         *)
(* restarted leaf that resends lose, repeat and reorder.  Signature,        *)
(* instance, DODAG, pinned key and self-Target checks pass for such a DAO;  *)
(* one that fails them is rejected without effect and is not modelled.      *)
(* A DAO has one Target, its origin, and one Transit, its parent, which is  *)
(* all the leaf builder makes.  Both replay floors and admissions are       *)
(* durable, and a persisted floor whose route was lost to a crash is the    *)
(* step Apply followed by Crash.                                            *)
(***************************************************************************)
EXTENDS DaoSource, FiniteSets, Sequences

CONSTANTS
    Root,            \* the address of the root
    NoDao, NoEdge,   \* an absent floor, and an absent edge or sequence entry
    Lifetime,        \* Path Lifetime of every DAO in seconds, or Forever (255)
    Forever,
    TicksPerSecond,  \* the clock runs in milliseconds, lifetimes in seconds
    MaxNow,          \* bound on the clock, in ticks
    Capacity,        \* MAX_DAO_ORIGINS
    MaxHops          \* MAX_ROUTE_HOPS

\* What is kept of an accepted path, and the edge it installs.
Paths == [path : Seqs, parent : Parents]
Edges == [parent : Parents, until : Nat \cup {Forever}]

ASSUME RootAssumption ==
    /\ Parents = Origins \cup {Root}
    /\ Root \notin Origins /\ IsFiniteSet(Origins)
    /\ NoDao \notin Daos
    /\ NoEdge \notin Parents \cup Paths \cup Edges /\ Forever \notin Nat
    /\ Lifetime \in (Nat \ {0}) \cup {Forever}
    /\ TicksPerSecond \in Nat \ {0}
    /\ Capacity \in Nat /\ MaxNow \in Nat /\ MaxHops \in Nat \ {0}

VARIABLES
    admitted,    \* DaoAdmissionState: the admitted keys (durable)
    floor,       \* origin_high_water: the newest accepted DAO per key (durable)
    edges,       \* parent_map and edge_expiry
    fresh,       \* path_seq_map and candidate_map: what the edge came from
    routes,      \* routing_table: the source route per host, or <<>>
    now          \* the clock, in ticks

rootVars == <<admitted, floor, edges, fresh, routes, now>>
vars     == <<sourceVars, rootVars>>

Nothing == [o \in Origins |-> NoEdge]

Init ==
    /\ SourceInit
    /\ admitted = {}
    /\ floor = [o \in Origins |-> NoDao]
    /\ edges = Nothing
    /\ fresh = Nothing
    /\ routes = [o \in Origins |-> <<>>]
    /\ now = 0

-----------------------------------------------------------------------------
(* Time.  Expiry compares whole seconds passed; a lifetime starts at the    *)
(* next whole second, and a DAO that is processed also drops what has        *)
(* expired by then.                                                         *)

FloorSeconds == now \div TicksPerSecond

\* Mutant of CeilSeconds: a whole second is rounded up as well.
CeilSecondsExtra == now \div TicksPerSecond + 1

CeilSeconds == (now + TicksPerSecond - 1) \div TicksPerSecond

Deadline(t) == IF Lifetime = Forever THEN Forever ELSE t + Lifetime

IsActive(e, t) == e # NoEdge /\ (e.until = Forever \/ e.until > t)

Prune(es, t) == [o \in Origins |-> IF IsActive(es[o], t) THEN es[o] ELSE NoEdge]

-----------------------------------------------------------------------------
(* The graph of accepted edges.                                             *)

Above(es, x) == IF x \in Origins /\ es[x] # NoEdge THEN es[x].parent ELSE NoEdge

\* The chain of parents from o: o, its parent, its parent's parent...
Chain(es, o) ==
    LET up[k \in 0 .. Cardinality(Origins)] ==
            IF k = 0 THEN o
            ELSE IF up[k - 1] \in Origins THEN Above(es, up[k - 1]) ELSE NoEdge
    IN  up

\* Mutant of ContainsCycle: only a node that is its own parent is noticed.
ContainsCycleSelf(es) == \E o \in Origins : es[o] # NoEdge /\ es[o].parent = o

\* contains_cycle.
ContainsCycle(es) ==
    \E o \in Origins, k \in 1 .. Cardinality(Origins) : Chain(es, o)[k] = o

\* The first n + 1 nodes of o's chain are distinct and each has an edge.
Climbs(es, o, n) ==
    /\ n <= Cardinality(Origins)
    /\ \A k \in 0 .. n :
          /\ Above(es, Chain(es, o)[k]) # NoEdge
          /\ \A j \in 0 .. k - 1 : Chain(es, o)[j] # Chain(es, o)[k]

\* assemble_path_from fails on a chain of more than MAX_ROUTE_HOPS nodes.
TooLong(es) == \E o \in Origins : Climbs(es, o, MaxHops)

\* assemble_path_checked: the nodes from the root's child down to o.
AssemblePath(es, o) ==
    LET chain == Chain(es, o)
        hops  == {k \in 1 .. Cardinality(Origins) : chain[k] = Root}
    IN  IF hops = {} THEN <<>>
        ELSE LET n == CHOOSE k \in hops : TRUE
             IN  [i \in 1 .. n |-> chain[n - i]]

RebuiltRoutes(es) == [o \in Origins |-> AssemblePath(es, o)]

-----------------------------------------------------------------------------
(* Handling one DAO.                                                        *)

Floors == {o \in Origins : floor[o] # NoDao}

\* The per-key classification: newer than the floor, or the DAO of the floor.
NotReplay(d) ==
    \/ floor[d.origin] = NoDao /\ Cardinality(Floors) # Capacity
    \/ floor[d.origin] # NoDao /\ (d.seq > floor[d.origin].seq \/ d = floor[d.origin])

\* Mutant of SameCopy: an equal Path Sequence counts as a copy.
SameCopyPathOnly(d) == fresh[d.origin] # NoEdge /\ fresh[d.origin].path = d.path

SameCopy(d) == fresh[d.origin] = [path |-> d.path, parent |-> d.parent]

\* An equal Path Sequence must be an exact copy, any other one newer.
PathAccepted(d) ==
    \/ fresh[d.origin] = NoEdge
    \/ SameCopy(d)
    \/ fresh[d.origin] # NoEdge /\ SeqIsNewer(d.path, fresh[d.origin].path)

\* An edge installed at t.
Edge(p, t) == [parent |-> p, until |-> Deadline(t)]

\* The edges after d: an exact copy changes nothing, not even the deadline.
Proposed(d) ==
    LET kept == Prune(edges, CeilSeconds)
    IN  IF SameCopy(d) THEN kept
        ELSE [kept EXCEPT ![d.origin] = Edge(d.parent, CeilSeconds)]

\* process_dao_inner commits all of its maps, or none.
Commit(d) ==
    /\ PathAccepted(d)
    /\ ~ContainsCycle(Proposed(d))
    /\ ~TooLong(Proposed(d))
    /\ edges' = Proposed(d)
    /\ fresh' = [fresh EXCEPT ![d.origin] = [path |-> d.path, parent |-> d.parent]]
    /\ routes' = RebuiltRoutes(Proposed(d))

\* A fresh DAO: the floor is persisted, then the routes change.
Apply(d) ==
    /\ d.origin \in admitted
    /\ NotReplay(d)
    /\ d # floor[d.origin]
    /\ Commit(d)
    /\ floor' = [floor EXCEPT ![d.origin] = d]
    /\ UNCHANGED <<sourceVars, admitted, now>>

\* The DAO of the floor again: it rebuilds what a restart of the root lost,
\* and does nothing while the origin has a Path Sequence entry.
Reconcile(d) ==
    /\ d.origin \in admitted
    /\ d = floor[d.origin]
    /\ fresh[d.origin] = NoEdge
    /\ Commit(d)
    /\ UNCHANGED <<sourceVars, admitted, floor, now>>

CanAdmit(o) == o \notin admitted /\ Cardinality(admitted) # Capacity

\* DaoAdmissionState::admit.
Admit(o) ==
    /\ CanAdmit(o)
    /\ admitted' = admitted \cup {o}
    /\ UNCHANGED <<sourceVars, floor, edges, fresh, routes, now>>

\* Mutant of Expire: the routes over an expired edge stay.
ExpireKeepsRoutes ==
    /\ edges' = Prune(edges, FloorSeconds)
    /\ UNCHANGED <<sourceVars, admitted, floor, fresh, routes, now>>

\* expire_routes: by maintain, by the Trickle timer and before every lookup.
Expire ==
    /\ ~TooLong(Prune(edges, FloorSeconds))
    /\ edges' = Prune(edges, FloorSeconds)
    /\ routes' = RebuiltRoutes(edges')
    /\ UNCHANGED <<sourceVars, admitted, floor, fresh, now>>

Tick ==
    /\ now < MaxNow
    /\ now' = now + 1
    /\ UNCHANGED <<sourceVars, admitted, floor, edges, fresh, routes>>

\* The root restarts: open_root restores the floors and nothing else.
Crash ==
    /\ edges' = Nothing
    /\ fresh' = Nothing
    /\ routes' = [o \in Origins |-> <<>>]
    /\ UNCHANGED <<sourceVars, admitted, floor, now>>

\* A step of a leaf; no leaf is its own parent.
Leaf(o) ==
    /\ \/ Begin(o) \/ Abandon(o) \/ Reboot(o)
       \/ \E p \in Parents \ {o} : Emit(o, p)
    /\ UNCHANGED rootVars

Next ==
    \/ \E o \in Origins : Leaf(o) \/ Admit(o)
    \/ \E d \in sent : Apply(d) \/ Reconcile(d)
    \/ Expire \/ Tick \/ Crash

Spec == Init /\ [][Next]_vars

-----------------------------------------------------------------------------
(* Properties.                                                              *)

\* The edge of an origin is the one its newest accepted DAO names, in spite of
\* replayed, reordered and repeated DAOs and of restarts of both sides: the
\* volatile route state never contradicts the durable replay floor.
EdgesMatchFloor ==
    \A o \in Origins :
        edges[o] # NoEdge => floor[o] # NoDao /\ floor[o].parent = edges[o].parent

\* A source route starts at a child of the root, every node on it is the
\* accepted parent of the next, none occurs twice, and it is short enough.
RoutesSound ==
    \A o \in Origins :
        LET r == routes[o] IN
        r # <<>> =>
            /\ Len(r) <= MaxHops
            /\ r[Len(r)] = o
            /\ \A i, j \in 1 .. Len(r) : r[i] = r[j] => i = j
            /\ \A i \in 1 .. Len(r) :
                  /\ edges[r[i]] # NoEdge
                  /\ edges[r[i]].parent = IF i = 1 THEN Root ELSE r[i - 1]

\* The accepted edges never form a loop, in whatever order the DAOs of a
\* changing topology arrive: every set of leaves has a way out.
Loopless ==
    \A S \in (SUBSET Origins) \ {{}} :
        \E o \in S : edges[o] = NoEdge \/ edges[o].parent \notin S

\* An edge disappears only when its origin sends a newer path, when the root
\* restarts, or with less than a second of its lifetime left: a DAO of another
\* origin, which rounds the clock up before it drops expired edges, costs a
\* live leaf no more of its route than that.
EdgesStay ==
    [][\A o \in Origins :
          edges[o] # NoEdge /\ edges'[o] # edges[o] =>
              \/ fresh'[o] # fresh[o]
              \/ /\ edges[o].until # Forever
                 /\ now + TicksPerSecond > edges[o].until * TicksPerSecond]_vars
=============================================================================
