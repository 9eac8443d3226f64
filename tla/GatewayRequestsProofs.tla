----------------------- MODULE GatewayRequestsProofs -----------------------
(***************************************************************************)
(* Proofs of the properties of GatewayRequests.  The invariant has a part   *)
(* for each of its three durable stores: the two stores of OSCORE records,  *)
(* of which one argument serves both, and the slot coordinator; one for the *)
(* stage of the dispatch and one for the pending requests.                  *)
(***************************************************************************)
EXTENDS GatewayRequests, AccessOrderProofs, SequenceTheorems

-----------------------------------------------------------------------------
(* The sealed stores.  The two instances differ in the order of their       *)
(* states only, so what follows is stated once, for a set S of states with  *)
(* the pairs N of states of which the first is not older, and for a set G   *)
(* of pairs of a context and a state that it may be taken to be in.         *)

File(S) == {<< >>} \cup {<<s>> : s \in S}
Entry(S) == [context : Peers, state : S]
Stores(S) == [state : [Peers -> File(S)], floor : [Peers -> File(S)], cache : Seq(Entry(S))]

OneEntryEach(cache) ==
    \A i, j \in 1..Len(cache) : cache[i].context = cache[j].context => i = j

\* A cached state is the one its floor was written for, if it was.
CacheAtFloor(st) ==
    \A i \in 1..Len(st.cache) :
        st.floor[st.cache[i].context] \in {<< >>, <<st.cache[i].state>>}

\* No floor is ahead of its state.
FloorBehind(st, N) ==
    \A c \in Peers : st.floor[c] # << >> =>
        st.state[c] # << >> /\ <<st.state[c][1], st.floor[c][1]>> \in N

\* What a process can load for a context is in G.
LoadsWithin(st, first, G) ==
    /\ \A c \in Peers : <<c, IF st.state[c] = << >> THEN first ELSE st.state[c][1]>> \in G
    /\ \A i \in 1..Len(st.cache) : <<st.cache[i].context, st.cache[i].state>> \in G

StoreInv(st, S, first, N, G) ==
    /\ st \in Stores(S)
    /\ OneEntryEach(st.cache)
    /\ CacheAtFloor(st)
    /\ FloorBehind(st, N)
    /\ LoadsWithin(st, first, G)

Pushed(cache, c, s) == Recipient!Push(cache, c, s)

\* The least member of a set of numbers that Min chooses is one of them.
LEMMA MinIsMember ==
    ASSUME NEW I \in SUBSET Nat, I # {}
    PROVE  Min(I) \in I
BY LeastNat DEF Min

\* A cache keeps its entries in their order, without the oldest when it is full.
LEMMA PushedEntries ==
    ASSUME NEW S, NEW cache \in Seq(Entry(S)), NEW c \in Peers, NEW s \in S
    PROVE  /\ Pushed(cache, c, s) \in Seq(Entry(S))
           /\ \E k \in {0, 1} :
                 LET p == Pushed(cache, c, s)
                 IN  /\ Len(p) = Len(cache) - k + 1
                     /\ p[Len(p)] = [context |-> c, state |-> s]
                     /\ \A i \in 1..(Len(p) - 1) : i + k \in 1..Len(cache) /\ p[i] = cache[i + k]
<1> DEFINE e == [context |-> c, state |-> s]
           kept == IF Len(cache) >= MaxContexts THEN Tail(cache) ELSE cache
           k == IF Len(cache) >= MaxContexts THEN 1 ELSE 0
<1>1. e \in Entry(S)
    BY DEF Entry
<1>2. Len(cache) \in Nat
    BY LenProperties
<1>3. /\ kept \in Seq(Entry(S)) /\ Len(kept) = Len(cache) - k
      /\ \A i \in 1..Len(kept) : i + k \in 1..Len(cache) /\ kept[i] = cache[i + k]
    <2>1. CASE Len(cache) >= MaxContexts
        <3>1. cache # << >>
            BY <1>2, <2>1, EmptySeq, RequestsAssumption
        <3> QED
            BY <1>2, <2>1, <3>1, HeadTailProperties
    <2>2. CASE ~ (Len(cache) >= MaxContexts)
        BY <1>2, <2>2
    <2> QED
        BY <2>1, <2>2
<1>4. Pushed(cache, c, s) = kept \o <<e>>
    BY DEF Pushed, Recipient!Push
<1> HIDE DEF e, kept
<1>5. <<e>> \in Seq(Entry(S)) /\ Len(<<e>>) = 1 /\ <<e>>[1] = e
    BY <1>1
<1>6. /\ kept \o <<e>> \in Seq(Entry(S))
      /\ Len(kept \o <<e>>) = Len(kept) + 1
      /\ \A i \in 1..(Len(kept) + 1) :
            (kept \o <<e>>)[i] = IF i <= Len(kept) THEN kept[i] ELSE <<e>>[i - Len(kept)]
    BY <1>3, <1>5, ConcatProperties
<1>7. Len(kept) \in Nat
    BY <1>3, LenProperties
<1>8. k \in {0, 1}
    OBVIOUS
<1> HIDE DEF k
<1> DEFINE p == kept \o <<e>>
<1>9. Len(p) = Len(cache) - k + 1
    BY <1>2, <1>3, <1>6, <1>8
<1>10. p[Len(p)] = e
    BY <1>5, <1>6, <1>7
<1>11. \A i \in 1..(Len(p) - 1) : i + k \in 1..Len(cache) /\ p[i] = cache[i + k]
    BY <1>3, <1>6, <1>7
<1> HIDE DEF p
<1> QED
    BY <1>4, <1>6, <1>8, <1>9, <1>10, <1>11 DEF p, e

\* The cache new is the cache old with s for the context c.
Takes(new, old, c, s, S) ==
    /\ new \in Seq(Entry(S))
    /\ OneEntryEach(new)
    /\ \A i \in 1..Len(new) :
          \/ new[i] = [context |-> c, state |-> s]
          \/ \E j \in 1..Len(old) : new[i] = old[j] /\ old[j].context # c

\* A push of a context that is not cached.
LEMMA PushTakes ==
    ASSUME NEW S, NEW cache \in Seq(Entry(S)), NEW c \in Peers, NEW s \in S,
           OneEntryEach(cache), \A i \in 1..Len(cache) : cache[i].context # c
    PROVE  Takes(Pushed(cache, c, s), cache, c, s, S)
<1> DEFINE p == Pushed(cache, c, s)
           e == [context |-> c, state |-> s]
<1>1. p \in Seq(Entry(S))
    BY PushedEntries
<1>2. PICK k \in {0, 1} :
         /\ Len(p) = Len(cache) - k + 1
         /\ p[Len(p)] = e
         /\ \A i \in 1..(Len(p) - 1) : i + k \in 1..Len(cache) /\ p[i] = cache[i + k]
    BY PushedEntries
<1>3. Len(p) \in Nat /\ Len(cache) \in Nat
    BY <1>1, LenProperties
<1>4. e.context = c
    OBVIOUS
<1> HIDE DEF p, e
<1>5. \A i \in 1..Len(p) : i = Len(p) \/ i \in 1..(Len(p) - 1)
    BY <1>3
<1>6. \A i \in 1..(Len(p) - 1) : p[i].context # c
    BY <1>2
<1>7. ASSUME NEW i \in 1..Len(p), NEW j \in 1..Len(p), p[i].context = p[j].context
      PROVE  i = j
    <2>1. CASE i = Len(p) \/ j = Len(p)
        BY <1>2, <1>4, <1>5, <1>6, <1>7, <2>1
    <2>2. CASE i \in 1..(Len(p) - 1) /\ j \in 1..(Len(p) - 1)
        <3>1. i + k \in 1..Len(cache) /\ j + k \in 1..Len(cache)
              /\ cache[i + k].context = cache[j + k].context
            BY <1>2, <1>7, <2>2
        <3>2. i + k = j + k
            BY <3>1 DEF OneEntryEach
        <3> QED
            BY <1>3, <3>2
    <2> QED
        BY <1>5, <2>1, <2>2
<1>8. \A i \in 1..Len(p) : \/ p[i] = e
                           \/ \E j \in 1..Len(cache) : p[i] = cache[j] /\ cache[j].context # c
    BY <1>2, <1>5
<1>9. OneEntryEach(p)
    BY <1>7 DEF OneEntryEach
<1> QED
    BY <1>1, <1>8, <1>9 DEF Takes, p, e

\* A new state in the entry of a context that is cached.
LEMMA ReplaceTakes ==
    ASSUME NEW S, NEW cache \in Seq(Entry(S)), NEW c \in Peers, NEW s \in S,
           OneEntryEach(cache), NEW i \in 1..Len(cache), cache[i].context = c
    PROVE  Takes([cache EXCEPT ![i].state = s], cache, c, s, S)
<1> DEFINE n == [cache EXCEPT ![i].state = s]
           e == [context |-> c, state |-> s]
<1>1. cache[i] \in Entry(S)
    BY ElementOfSeq
<1>2. [cache[i] EXCEPT !.state = s] = e /\ e \in Entry(S) /\ e.context = c
    BY <1>1 DEF Entry
<1>3. n = [cache EXCEPT ![i] = e]
    BY <1>2
<1> HIDE DEF n, e
<1>4. n \in Seq(Entry(S)) /\ Len(n) = Len(cache)
    BY <1>2, <1>3, ExceptSeq
<1>5. \A j \in 1..Len(cache) : n[j] = IF j = i THEN e ELSE cache[j]
    BY <1>3, ExceptSeq, LenProperties
<1>6. \A j \in 1..Len(cache) : j # i => cache[j].context # c
    BY DEF OneEntryEach
<1>7. OneEntryEach(n)
    BY <1>2, <1>4, <1>5, <1>6 DEF OneEntryEach
<1> QED
    BY <1>4, <1>5, <1>6, <1>7 DEF Takes, n, e

\* A store whose files and cache change for one context only.
LEMMA TakesKeeps ==
    ASSUME NEW S, NEW first, NEW N, NEW G, NEW H, NEW st, StoreInv(st, S, first, N, G),
           NEW c \in Peers, NEW s \in S, NEW cache, Takes(cache, st.cache, c, s, S),
           NEW x \in File(S), NEW f \in {<< >>, <<s>>},
           f # << >> => x # << >> /\ <<x[1], s>> \in N,
           <<c, IF x = << >> THEN first ELSE x[1]>> \in H, <<c, s>> \in H,
           \A d, t : <<d, t>> \in G /\ d # c => <<d, t>> \in H
    PROVE  StoreInv([state |-> [st.state EXCEPT ![c] = x],
                     floor |-> [st.floor EXCEPT ![c] = f],
                     cache |-> cache], S, first, N, H)
<1> DEFINE n == [state |-> [st.state EXCEPT ![c] = x],
                 floor |-> [st.floor EXCEPT ![c] = f],
                 cache |-> cache]
<1>1. /\ st.state \in [Peers -> File(S)] /\ st.floor \in [Peers -> File(S)]
      /\ st.cache \in Seq(Entry(S))
    BY DEF StoreInv, Stores
<1>2. f \in File(S)
    BY DEF File
<1>3. /\ n.state = [st.state EXCEPT ![c] = x] /\ n.floor = [st.floor EXCEPT ![c] = f]
      /\ n.cache = cache
    OBVIOUS
<1>4. n \in Stores(S) /\ OneEntryEach(n.cache)
    BY <1>1, <1>2 DEF Stores, Takes
<1> HIDE DEF n
<1>5. /\ n.state[c] = x /\ n.floor[c] = f
      /\ \A d \in Peers \ {c} : n.state[d] = st.state[d] /\ n.floor[d] = st.floor[d]
    BY <1>1, <1>3
<1>6. \A i \in 1..Len(cache) :
         \/ cache[i].context = c /\ cache[i].state = s
         \/ \E j \in 1..Len(st.cache) : cache[i] = st.cache[j] /\ st.cache[j].context \in Peers \ {c}
    <2>1. ASSUME NEW j \in 1..Len(st.cache)
          PROVE  st.cache[j].context \in Peers
        <3>1. st.cache[j] \in Entry(S)
            BY <1>1, ElementOfSeq
        <3> QED
            BY <3>1 DEF Entry
    <2>2. ASSUME NEW i \in 1..Len(cache), cache[i] = [context |-> c, state |-> s]
          PROVE  cache[i].context = c /\ cache[i].state = s
        BY <2>2
    <2> QED
        BY <2>1, <2>2 DEF Takes
<1>7. CacheAtFloor(n)
    BY <1>3, <1>5, <1>6 DEF CacheAtFloor, StoreInv
<1>8. FloorBehind(n, N)
    <2>1. ASSUME NEW d \in Peers, n.floor[d] # << >>
          PROVE  n.state[d] # << >> /\ <<n.state[d][1], n.floor[d][1]>> \in N
        <3>1. CASE d = c
            BY <1>5, <2>1, <3>1
        <3>2. CASE d # c
            BY <1>5, <2>1, <3>2 DEF FloorBehind, StoreInv
        <3> QED
            BY <3>1, <3>2
    <2> QED
        BY <2>1 DEF FloorBehind
<1>9. LoadsWithin(n, first, H)
    <2>1. ASSUME NEW d \in Peers
          PROVE  <<d, IF n.state[d] = << >> THEN first ELSE n.state[d][1]>> \in H
        <3>1. CASE d = c
            BY <1>5, <3>1
        <3>2. CASE d # c
            <4>1. <<d, IF st.state[d] = << >> THEN first ELSE st.state[d][1]>> \in G
                BY DEF LoadsWithin, StoreInv
            <4> QED
                BY <1>5, <3>2, <4>1
        <3> QED
            BY <3>1, <3>2
    <2>2. ASSUME NEW i \in 1..Len(cache)
          PROVE  <<cache[i].context, cache[i].state>> \in H
        BY <1>6 DEF LoadsWithin, StoreInv
    <2> QED
        BY <1>3, <2>1, <2>2 DEF LoadsWithin
<1> QED
    BY <1>4, <1>7, <1>8, <1>9 DEF StoreInv, n

\* A state file that is written while its floor and the cache are not.
LEMMA WriteKeeps ==
    ASSUME NEW S, NEW first, NEW N, NEW G, NEW st, StoreInv(st, S, first, N, G),
           NEW c \in Peers, NEW s \in S, <<c, s>> \in G,
           st.floor[c] # << >> => <<s, st.floor[c][1]>> \in N
    PROVE  StoreInv([st EXCEPT !.state[c] = <<s>>], S, first, N, G)
<1> DEFINE n == [st EXCEPT !.state[c] = <<s>>]
<1>1. st \in Stores(S)
    BY DEF StoreInv
<1>2. <<s>> \in File(S) /\ <<s>> # << >> /\ <<s>>[1] = s
    BY DEF File
<1>3. /\ n.state = [st.state EXCEPT ![c] = <<s>>] /\ n.floor = st.floor
      /\ n.cache = st.cache /\ n \in Stores(S)
    BY <1>1, <1>2 DEF Stores
<1> HIDE DEF n
<1>4. n.state[c] = <<s>> /\ \A d \in Peers \ {c} : n.state[d] = st.state[d]
    BY <1>1, <1>3 DEF Stores
<1>5. CacheAtFloor(n)
    BY <1>3 DEF CacheAtFloor, StoreInv
<1>6. FloorBehind(n, N)
    <2>1. ASSUME NEW d \in Peers, n.floor[d] # << >>
          PROVE  n.state[d] # << >> /\ <<n.state[d][1], n.floor[d][1]>> \in N
        <3>1. CASE d = c
            BY <1>2, <1>3, <1>4, <2>1, <3>1
        <3>2. CASE d # c
            BY <1>3, <1>4, <2>1, <3>2 DEF FloorBehind, StoreInv
        <3> QED
            BY <3>1, <3>2
    <2> QED
        BY <2>1 DEF FloorBehind
<1>7. LoadsWithin(n, first, G)
    <2>1. ASSUME NEW d \in Peers
          PROVE  <<d, IF n.state[d] = << >> THEN first ELSE n.state[d][1]>> \in G
        <3>1. CASE d = c
            BY <1>2, <1>4, <3>1
        <3>2. CASE d # c
            BY <1>4, <3>2 DEF LoadsWithin, StoreInv
        <3> QED
            BY <3>1, <3>2
    <2> QED
        BY <1>3, <2>1 DEF LoadsWithin, StoreInv
<1> QED
    BY <1>3, <1>5, <1>6, <1>7 DEF StoreInv, n

\* What Load may answer, ini being what a context without a record has.
Loaded(st, c, ini, l) ==
    \/ l.ok = FALSE /\ l.store = st
    \/ /\ l.ok = TRUE
       /\ l.store = st
       /\ \E i \in 1..Len(st.cache) : st.cache[i].context = c /\ l.state = <<st.cache[i].state>>
    \/ /\ l.ok = TRUE
       /\ \A i \in 1..Len(st.cache) : st.cache[i].context # c
       /\ st.state[c] # << >> /\ l.state = st.state[c]
       /\ l.store = [state |-> st.state,
                     floor |-> [st.floor EXCEPT ![c] = st.state[c]],
                     cache |-> Pushed(st.cache, c, st.state[c][1])]
    \/ /\ l.ok = TRUE
       /\ \A i \in 1..Len(st.cache) : st.cache[i].context # c
       /\ st.state[c] = << >> /\ st.floor[c] = << >> /\ l.state = ini
       /\ l.store = IF ini = << >> THEN st
                    ELSE [state |-> st.state, floor |-> st.floor,
                          cache |-> Pushed(st.cache, c, ini[1])]

\* The index of the entry of a context in the cache, zero if it has none.
IndexOf(cache, c) ==
    LET I == {i \in 1..Len(cache) : cache[i].context = c}
    IN  IF I # {} THEN Min(I) ELSE 0

\* It is the index of an entry of the context.
LEMMA CachedIndex ==
    ASSUME NEW S, NEW cache \in Seq(Entry(S)), NEW c
    PROVE  \/ /\ IndexOf(cache, c) = 0
              /\ \A i \in 1..Len(cache) : cache[i].context # c
           \/ /\ IndexOf(cache, c) \in 1..Len(cache) /\ IndexOf(cache, c) # 0
              /\ cache[IndexOf(cache, c)].context = c
<1> DEFINE I == {i \in 1..Len(cache) : cache[i].context = c}
<1>1. I \in SUBSET Nat /\ 0 \notin I
    OBVIOUS
<1>2. I # {} => Min(I) \in I
    BY <1>1, MinIsMember
<1> QED
    BY <1>1, <1>2 DEF IndexOf

\* Both instances look for the entry of a context in the same way, push and
\* replace entries in the same way, and save in the same way.
LEMMA SameCaches ==
    ASSUME NEW st, NEW c, NEW s
    PROVE  /\ Recipient!Cached(st, c) = IndexOf(st.cache, c)
           /\ Sender!Cached(st, c) = IndexOf(st.cache, c)
           /\ Sender!Push(st.cache, c, s) = Pushed(st.cache, c, s)
           /\ Sender!Save(st, c, s) = Recipient!Save(st, c, s)
<1>1. Recipient!Cached(st, c) = IndexOf(st.cache, c)
    BY DEF Recipient!Cached, Recipient!SelectInSeq, Recipient!Min, Min, IndexOf
<1>2. Sender!Cached(st, c) = IndexOf(st.cache, c)
    BY DEF Sender!Cached, Sender!SelectInSeq, Sender!Min, Min, IndexOf
<1>3. \A q, t : Sender!Push(q, c, t) = Recipient!Push(q, c, t)
    BY DEF Pushed, Sender!Push, Recipient!Push
<1>4. \A q, i : Sender!Remember(q, i, c, s) = Recipient!Remember(q, i, c, s)
    BY <1>3 DEF Sender!Remember, Recipient!Remember
<1>5. Sender!Save(st, c, s) = Recipient!Save(st, c, s)
    BY <1>1, <1>2, <1>4 DEF Sender!Save, Recipient!Save, Sender!Result, Recipient!Result
<1> QED
    BY <1>1, <1>2, <1>3, <1>5 DEF Pushed

\* The recipient store loads so.
LEMMA RecipientLoads ==
    ASSUME NEW S, NEW st \in Stores(S), NEW c \in Peers, NEW l \in Recipient!Load(st, c)
    PROVE  Loaded(st, c, <<EmptyReplay>>, l)
<1> DEFINE i == IndexOf(st.cache, c)
<1>1. /\ Recipient!Cached(st, c) = i
      /\ \/ i = 0 /\ \A j \in 1..Len(st.cache) : st.cache[j].context # c
         \/ i \in 1..Len(st.cache) /\ i # 0 /\ st.cache[i].context = c
    BY SameCaches, CachedIndex DEF Stores
<1> HIDE DEF i
<1>2. CASE i # 0
    BY <1>1, <1>2 DEF Loaded, Recipient!Load, Recipient!Result
<1>3. CASE i = 0 /\ Recipient!Corrupt(st, c)
    BY <1>1, <1>3 DEF Loaded, Recipient!Load, Recipient!Result
<1>4. CASE i = 0 /\ ~ Recipient!Corrupt(st, c) /\ st.state[c] # << >>
    <2>1. l \in Recipient!LoadFiles(st, c)
        BY <1>1, <1>4 DEF Recipient!Load
    <2>2. /\ st = [state |-> st.state, floor |-> st.floor, cache |-> st.cache]
          /\ st.floor = [st.floor EXCEPT ![c] = st.floor[c]]
        BY DEF Stores
    <2>3. Recipient!Push(st.cache, c, st.state[c][1]) = Pushed(st.cache, c, st.state[c][1])
        BY DEF Pushed
    <2> DEFINE p == Pushed(st.cache, c, st.state[c][1])
               n == [state |-> st.state, floor |-> [st.floor EXCEPT ![c] = st.state[c]], cache |-> p]
               u == [st EXCEPT !.cache = p]
    <2>4. u = [state |-> st.state, floor |-> st.floor, cache |-> p]
        BY <2>2
    <2> HIDE DEF u, p
    <2>5. [u EXCEPT !.floor[c] = st.state[c]] = n
        BY <2>4
    <2>6. st.floor[c] = st.state[c] => u = n
        BY <2>2, <2>4
    <2> USE DEF u, p
    <2>7. \/ l = [store |-> n, ok |-> TRUE, state |-> st.state[c]]
          \/ l = [store |-> st, ok |-> FALSE, state |-> << >>]
        BY <2>1, <2>3, <2>5, <2>6 DEF Recipient!LoadFiles, Recipient!Result
    <2> QED
        BY <1>1, <1>4, <2>7 DEF Loaded
<1>5. CASE i = 0 /\ ~ Recipient!Corrupt(st, c) /\ st.state[c] = << >>
    <2>1. st.floor[c] = << >>
        BY <1>5 DEF Recipient!Corrupt
    <2>2. l = [store |-> [st EXCEPT !.cache = Recipient!Push(@, c, EmptyReplay)],
               ok |-> TRUE, state |-> <<EmptyReplay>>]
        BY <1>1, <1>5 DEF Recipient!Load, Recipient!Result
    <2>3. l.store = [state |-> st.state, floor |-> st.floor,
                     cache |-> Recipient!Push(st.cache, c, EmptyReplay)]
        BY <2>2 DEF Stores
    <2>4. <<EmptyReplay>> # << >> /\ <<EmptyReplay>>[1] = EmptyReplay
        OBVIOUS
    <2> QED
        BY <1>1, <1>5, <2>1, <2>2, <2>3, <2>4 DEF Loaded, Pushed
<1> QED
    BY <1>2, <1>3, <1>4, <1>5

\* The sender store loads so.
LEMMA SenderLoads ==
    ASSUME NEW S, NEW st \in Stores(S), NEW c \in Peers, NEW l \in Sender!Load(st, c)
    PROVE  Loaded(st, c, << >>, l)
<1> DEFINE i == IndexOf(st.cache, c)
<1>1. /\ Sender!Cached(st, c) = i
      /\ \/ i = 0 /\ \A j \in 1..Len(st.cache) : st.cache[j].context # c
         \/ i \in 1..Len(st.cache) /\ i # 0 /\ st.cache[i].context = c
    BY SameCaches, CachedIndex DEF Stores
<1> HIDE DEF i
<1>2. CASE i # 0
    BY <1>1, <1>2 DEF Loaded, Sender!Load, Sender!Result
<1>3. CASE i = 0 /\ Sender!Corrupt(st, c)
    BY <1>1, <1>3 DEF Loaded, Sender!Load, Sender!Result
<1>4. CASE i = 0 /\ ~ Sender!Corrupt(st, c) /\ st.state[c] # << >>
    <2>1. l \in Sender!LoadFiles(st, c)
        BY <1>1, <1>4 DEF Sender!Load
    <2>2. /\ st = [state |-> st.state, floor |-> st.floor, cache |-> st.cache]
          /\ st.floor = [st.floor EXCEPT ![c] = st.floor[c]]
        BY DEF Stores
    <2>3. Sender!Push(st.cache, c, st.state[c][1]) = Pushed(st.cache, c, st.state[c][1])
        BY SameCaches
    <2> DEFINE p == Pushed(st.cache, c, st.state[c][1])
               n == [state |-> st.state, floor |-> [st.floor EXCEPT ![c] = st.state[c]], cache |-> p]
               u == [st EXCEPT !.cache = p]
    <2>4. u = [state |-> st.state, floor |-> st.floor, cache |-> p]
        BY <2>2
    <2> HIDE DEF u, p
    <2>5. [u EXCEPT !.floor[c] = st.state[c]] = n
        BY <2>4
    <2>6. st.floor[c] = st.state[c] => u = n
        BY <2>2, <2>4
    <2> USE DEF u, p
    <2>7. \/ l = [store |-> n, ok |-> TRUE, state |-> st.state[c]]
          \/ l = [store |-> st, ok |-> FALSE, state |-> << >>]
        BY <2>1, <2>3, <2>5, <2>6 DEF Sender!LoadFiles, Sender!Result
    <2> QED
        BY <1>1, <1>4, <2>7 DEF Loaded
<1>5. CASE i = 0 /\ ~ Sender!Corrupt(st, c) /\ st.state[c] = << >>
    <2>1. st.floor[c] = << >>
        BY <1>5 DEF Sender!Corrupt
    <2>2. l = [store |-> st, ok |-> TRUE, state |-> << >>]
        BY <1>1, <1>5 DEF Sender!Load, Sender!Result
    <2> QED
        BY <1>1, <1>5, <2>1, <2>2 DEF Loaded
<1> QED
    BY <1>2, <1>3, <1>4, <1>5

\* What a load leaves and answers, and what a save does.
LoadOutcome(l, c, ini, S, first, N, G) ==
    /\ StoreInv(l.store, S, first, N, G)
    /\ l.ok \in BOOLEAN
    /\ l.ok => \/ /\ l.state = << >> /\ ini = << >>
                  /\ <<c, first>> \in G /\ l.store.floor[c] = << >>
               \/ \E s \in S : /\ l.state = <<s>> /\ <<c, s>> \in G
                               /\ l.store.floor[c] \in {<< >>, <<s>>}

SaveOutcome(r, s, S, first, N, G, H) ==
    /\ r.ok \in BOOLEAN
    /\ IF r.ok THEN StoreInv(r.store, S, first, N, H) /\ r.state = <<s>>
       ELSE StoreInv(r.store, S, first, N, G)

\* A load keeps the invariant, and what it answers is a state in G that may be
\* replaced by any state that is not older.
LEMMA LoadKeeps ==
    ASSUME NEW S, NEW first \in S, NEW N, NEW G, NEW st, StoreInv(st, S, first, N, G),
           \A s \in S : <<s, s>> \in N,
           NEW c \in Peers, NEW ini \in {<< >>, <<first>>}, NEW l, Loaded(st, c, ini, l)
    PROVE  LoadOutcome(l, c, ini, S, first, N, G)
<1> USE DEF LoadOutcome
<1>1. /\ st \in Stores(S) /\ st.cache \in Seq(Entry(S)) /\ OneEntryEach(st.cache)
      /\ st.state \in [Peers -> File(S)] /\ st.floor \in [Peers -> File(S)]
    BY DEF StoreInv, Stores
<1>2. CASE l.ok = FALSE /\ l.store = st
    BY <1>2
<1>3. CASE /\ l.ok = TRUE /\ l.store = st
           /\ \E i \in 1..Len(st.cache) : st.cache[i].context = c /\ l.state = <<st.cache[i].state>>
    <2>1. PICK i \in 1..Len(st.cache) : st.cache[i].context = c /\ l.state = <<st.cache[i].state>>
        BY <1>3
    <2>2. st.cache[i] \in Entry(S)
        BY <1>1, ElementOfSeq
    <2>3. st.cache[i].state \in S
        BY <2>2 DEF Entry
    <2>4. <<c, st.cache[i].state>> \in G
        BY <2>1 DEF StoreInv, LoadsWithin
    <2>5. st.floor[c] \in {<< >>, <<st.cache[i].state>>}
        BY <2>1 DEF StoreInv, CacheAtFloor
    <2> QED
        BY <1>3, <2>1, <2>3, <2>4, <2>5
<1>4. CASE /\ l.ok = TRUE
           /\ \A i \in 1..Len(st.cache) : st.cache[i].context # c
           /\ st.state[c] # << >> /\ l.state = st.state[c]
           /\ l.store = [state |-> st.state,
                         floor |-> [st.floor EXCEPT ![c] = st.state[c]],
                         cache |-> Pushed(st.cache, c, st.state[c][1])]
    <2>1. PICK s \in S : st.state[c] = <<s>>
        BY <1>1, <1>4 DEF File
    <2>2. st.state[c][1] = s /\ <<c, s>> \in G /\ <<s>> # << >> /\ <<s>>[1] = s /\ <<s>> \in File(S)
        BY <1>4, <2>1 DEF StoreInv, LoadsWithin, File
    <2>3. Takes(Pushed(st.cache, c, s), st.cache, c, s, S)
        BY <1>1, <1>4, PushTakes
    <2>4. st.state = [st.state EXCEPT ![c] = <<s>>]
        BY <1>1, <2>1
    <2>5. l.store = [state |-> [st.state EXCEPT ![c] = <<s>>],
                     floor |-> [st.floor EXCEPT ![c] = <<s>>],
                     cache |-> Pushed(st.cache, c, s)]
        BY <1>4, <2>1, <2>2, <2>4
    <2>6. StoreInv(l.store, S, first, N, G)
        <3>1. StoreInv([state |-> [st.state EXCEPT ![c] = <<s>>],
                        floor |-> [st.floor EXCEPT ![c] = <<s>>],
                        cache |-> Pushed(st.cache, c, s)], S, first, N, G)
            BY <2>2, <2>3, TakesKeeps
        <3> QED
            BY <2>5, <3>1
    <2>7. l.store.floor[c] = <<s>>
        BY <1>1, <2>5
    <2> QED
        BY <1>4, <2>1, <2>2, <2>6, <2>7
<1>5. CASE /\ l.ok = TRUE
           /\ \A i \in 1..Len(st.cache) : st.cache[i].context # c
           /\ st.state[c] = << >> /\ st.floor[c] = << >> /\ l.state = ini
           /\ l.store = IF ini = << >> THEN st
                        ELSE [state |-> st.state, floor |-> st.floor,
                              cache |-> Pushed(st.cache, c, ini[1])]
    <2>1. <<c, first>> \in G
        BY <1>5 DEF StoreInv, LoadsWithin
    <2>2. CASE ini = << >>
        BY <1>5, <2>1, <2>2
    <2>3. CASE ini = <<first>>
        <3>1. ini[1] = first /\ ini # << >> /\ << >> \in File(S)
            BY <2>3 DEF File
        <3>2. Takes(Pushed(st.cache, c, first), st.cache, c, first, S)
            BY <1>1, <1>5, PushTakes
        <3>3. st.state = [st.state EXCEPT ![c] = << >>] /\ st.floor = [st.floor EXCEPT ![c] = << >>]
            BY <1>1, <1>5
        <3>4. l.store = [state |-> [st.state EXCEPT ![c] = << >>],
                         floor |-> [st.floor EXCEPT ![c] = << >>],
                         cache |-> Pushed(st.cache, c, first)]
            BY <1>5, <3>1, <3>3
        <3>5. StoreInv(l.store, S, first, N, G)
            <4>1. StoreInv([state |-> [st.state EXCEPT ![c] = << >>],
                            floor |-> [st.floor EXCEPT ![c] = << >>],
                            cache |-> Pushed(st.cache, c, first)], S, first, N, G)
                BY <2>1, <3>1, <3>2, TakesKeeps
            <4> QED
                BY <3>4, <4>1
        <3>6. l.store.floor[c] = << >>
            BY <1>1, <3>4
        <3> QED
            BY <1>5, <2>1, <2>3, <3>5, <3>6
    <2> QED
        BY <2>2, <2>3
<1> QED
    BY <1>2, <1>3, <1>4, <1>5 DEF Loaded

\* A save of a state that is not older than its floor keeps the invariant however
\* far it comes; when it succeeds the new state is all that can be loaded.
LEMMA SaveKeeps ==
    ASSUME NEW S, NEW first \in S, NEW N, NEW G, NEW H, NEW st, StoreInv(st, S, first, N, G),
           \A s \in S : <<s, s>> \in N,
           NEW c \in Peers, NEW s \in S, <<c, s>> \in G, <<c, s>> \in H,
           st.floor[c] # << >> => <<s, st.floor[c][1]>> \in N,
           \A d, t : <<d, t>> \in G /\ d # c => <<d, t>> \in H,
           NEW r \in Recipient!Save(st, c, s)
    PROVE  SaveOutcome(r, s, S, first, N, G, H)
<1> USE DEF SaveOutcome
<1> DEFINE w == [st EXCEPT !.state[c] = <<s>>]
           f == [w EXCEPT !.floor[c] = <<s>>]
           cache == Recipient!Remember(st.cache, Recipient!Cached(st, c), c, s)
           done == [state |-> [st.state EXCEPT ![c] = <<s>>],
                    floor |-> [st.floor EXCEPT ![c] = <<s>>],
                    cache |-> cache]
<1>1. /\ st \in Stores(S) /\ st.cache \in Seq(Entry(S)) /\ OneEntryEach(st.cache)
      /\ st.state \in [Peers -> File(S)] /\ st.floor \in [Peers -> File(S)]
      /\ st = [state |-> st.state, floor |-> st.floor, cache |-> st.cache]
    BY DEF StoreInv, Stores
<1>2. Takes(cache, st.cache, c, s, S)
    <2> DEFINE i == IndexOf(st.cache, c)
    <2>1. /\ Recipient!Cached(st, c) = i
          /\ \/ i = 0 /\ \A j \in 1..Len(st.cache) : st.cache[j].context # c
             \/ i \in 1..Len(st.cache) /\ i # 0 /\ st.cache[i].context = c
        BY <1>1, SameCaches, CachedIndex
    <2> HIDE DEF i
    <2>2. cache = IF i # 0 THEN [st.cache EXCEPT ![i].state = s] ELSE Pushed(st.cache, c, s)
        BY <2>1 DEF Recipient!Remember, Pushed
    <2> HIDE DEF cache
    <2> QED
        BY <1>1, <2>1, <2>2, PushTakes, ReplaceTakes
<1>3. w = [state |-> [st.state EXCEPT ![c] = <<s>>], floor |-> st.floor, cache |-> st.cache]
    BY DEF StoreInv, Stores
<1>4. StoreInv(w, S, first, N, G)
    BY WriteKeeps
<1>5. \/ r = [store |-> st, ok |-> FALSE, state |-> << >>]
      \/ r = [store |-> w, ok |-> FALSE, state |-> << >>]
      \/ r = [store |-> [f EXCEPT !.cache = cache], ok |-> TRUE, state |-> <<s>>]
    <2> HIDE DEF w
    <2>1. w.cache = st.cache
        BY <1>3
    <2>2. f.cache = st.cache
        BY <1>3, <2>1
    <2> QED
        BY <2>2 DEF Recipient!Save, Recipient!Result, w
<1> HIDE DEF w, cache
<1>6. f = [state |-> [st.state EXCEPT ![c] = <<s>>], floor |-> [st.floor EXCEPT ![c] = <<s>>],
           cache |-> st.cache]
    BY <1>3
<1> HIDE DEF f
<1>7. [f EXCEPT !.cache = cache] = done
    BY <1>6
<1>8. <<s>> \in File(S) /\ <<s>> # << >> /\ <<s>>[1] = s
    BY DEF File
<1>9. StoreInv(done, S, first, N, H)
    BY <1>2, <1>8, TakesKeeps
<1> HIDE DEF done
<1>10. CASE r = [store |-> st, ok |-> FALSE, state |-> << >>]
    BY <1>10
<1>11. CASE r = [store |-> w, ok |-> FALSE, state |-> << >>]
    BY <1>4, <1>11
<1>12. CASE r = [store |-> [f EXCEPT !.cache = cache], ok |-> TRUE, state |-> <<s>>]
    BY <1>7, <1>9, <1>12
<1> QED
    BY <1>5, <1>10, <1>11, <1>12

-----------------------------------------------------------------------------
(* The replay window of the recipient store.                                *)

ReplayStates == [highest : Nat, window : SUBSET Nat, initialized : BOOLEAN]

\* What accept makes of a state is a state.
LEMMA AcceptedType ==
    ASSUME NEW s \in ReplayStates, NEW v \in Nat, ~ IsReplay(s, v)
    PROVE  Accepted(s, v) \in ReplayStates
<1> USE RequestsAssumption
<1>1. CASE ~ s.initialized \/ v > s.highest
    BY <1>1 DEF Accepted, ReplayStates
<1>2. CASE s.initialized /\ ~ (v > s.highest)
    <2>1. s.highest - v \in Nat
        BY <1>2 DEF ReplayStates
    <2> QED
        BY <1>2, <2>1 DEF Accepted, ReplayStates
<1> QED
    BY <1>1, <1>2

\* A request that was accepted is a replay from then on.
LEMMA AcceptedIsReplay ==
    ASSUME NEW s \in ReplayStates, NEW v \in Nat, ~ IsReplay(s, v)
    PROVE  IsReplay(Accepted(s, v), v)
BY RequestsAssumption DEF Accepted, IsReplay, ReplayStates

\* What is a replay stays one when another request is accepted, also when the
\* window moves past it.
LEMMA ReplayStays ==
    ASSUME NEW s \in ReplayStates, NEW v \in Nat, NEW w \in Nat,
           ~ IsReplay(s, v), IsReplay(s, w)
    PROVE  IsReplay(Accepted(s, v), w)
<1> USE RequestsAssumption
<1> DEFINE a == Accepted(s, v)
<1>1. s.initialized /\ w <= s.highest /\ s.highest \in Nat
    BY DEF IsReplay, ReplayStates
<1>2. CASE v > s.highest
    <2>1. a.highest = v /\ a.initialized
          /\ a.window = {0} \union ({d + v - s.highest : d \in s.window} \intersect 0..(Window - 1))
        BY <1>1, <1>2 DEF Accepted
    <2>2. CASE v - w >= Window
        BY <1>1, <1>2, <2>1, <2>2 DEF IsReplay
    <2>3. CASE v - w < Window
        <3>1. s.highest - w \in s.window
            BY <1>1, <1>2, <2>3 DEF IsReplay
        <3>2. v - w = (s.highest - w) + v - s.highest /\ v - w \in 0..(Window - 1)
            BY <1>1, <1>2, <2>3
        <3>3. v - w \in a.window
            BY <2>1, <3>1, <3>2
        <3> QED
            BY <1>1, <1>2, <2>1, <3>3 DEF IsReplay
    <2> QED
        BY <1>1, <2>2, <2>3
<1>3. CASE ~ (v > s.highest)
    <2>1. a.highest = s.highest /\ a.initialized = s.initialized
          /\ a.window = s.window \union {s.highest - v}
        BY <1>1, <1>3 DEF Accepted, ReplayStates
    <2> QED
        BY <1>1, <2>1 DEF IsReplay
<1> QED
    BY <1>2, <1>3

\* An accepted request never makes a state that is older, so its floor is not
\* ahead of it.
LEMMA AcceptedNotOlder ==
    ASSUME NEW s \in ReplayStates, NEW v \in Nat, ~ IsReplay(s, v)
    PROVE  ~ ReplayPrecedes(Accepted(s, v), s)
<1> DEFINE a == Accepted(s, v)
<1>1. s.highest \in Nat /\ s.window \subseteq Nat /\ s.initialized \in BOOLEAN
    BY DEF ReplayStates
<1>2. a.initialized = TRUE
    BY <1>1 DEF Accepted, ReplayStates
<1>3. CASE s.initialized = FALSE
    BY <1>2, <1>3 DEF ReplayPrecedes
<1>4. CASE s.initialized = TRUE /\ v > s.highest
    <2>1. a.highest = v
        BY <1>4 DEF Accepted
    <2> HIDE DEF a
    <2>2. ~ ReplayPrecedes(a, s)
        BY <1>1, <1>2, <1>4, <2>1 DEF ReplayPrecedes
    <2> QED
        BY <2>2 DEF a
<1>5. CASE s.initialized = TRUE /\ ~ (v > s.highest)
    <2>1. a.highest = s.highest /\ s.window \subseteq a.window
        BY <1>1, <1>5 DEF Accepted, ReplayStates
    <2> HIDE DEF a
    <2>2. ~ ReplayPrecedes(a, s)
        BY <1>1, <1>2, <1>5, <2>1 DEF ReplayPrecedes
    <2> QED
        BY <2>2 DEF a
<1> QED
    BY <1>1, <1>3, <1>4, <1>5

-----------------------------------------------------------------------------
(* The slot coordinator.                                                    *)

Claims == [slots : SUBSET SlotSet, superframe : Nat, seq : Nat \ {0}]

\* What validate_semantic_slot_state asks and what it rests on: a table within
\* its capacity, claims of the gateways in the table with their replay state,
\* and no claim ahead of the superframe sf.
CoordInv(c, sf) ==
    /\ c = [seen |-> c.seen, generation |-> c.generation, claims |-> c.claims, owned |-> c.owned]
    /\ c.generation \in Nat \ {0}
    /\ IsFiniteSet(DOMAIN c.seen) /\ Cardinality(DOMAIN c.seen) <= MaxGateways
    /\ DOMAIN c.seen \subseteq Peers
    /\ \A g \in DOMAIN c.seen : c.seen[g].seq \in Nat
    /\ DOMAIN c.claims \subseteq DOMAIN c.seen
    /\ c.owned = << >> \/ \E o \in SUBSET SlotSet : c.owned = <<o>>
    /\ \A g \in DOMAIN c.claims :
          /\ c.claims[g] \in Claims /\ c.claims[g].superframe <= sf
          /\ c.seen[g] = [superframe |-> c.claims[g].superframe, seq |-> c.claims[g].seq]

\* The coordinator n that a claim of g makes of c, and its answer.
Advances(c, g, claim, answer, n) ==
    /\ n.generation = c.generation + 1
    /\ DOMAIN n.seen = DOMAIN c.seen \union {g}
    /\ n.seen[g].seq = claim.seq
    /\ \A h \in DOMAIN c.seen \ {g} : n.seen[h] = c.seen[h]
    /\ g \in DOMAIN c.seen => c.seen[g].seq < claim.seq
    /\ DOMAIN n.claims = DOMAIN c.claims \union {g}
    /\ n.claims[g] = claim
    /\ \A h \in DOMAIN c.claims \ {g} : n.claims[h] = c.claims[h]
    /\ \/ answer = "changed" /\ claim.slots \intersect OwnedSlots(n) = {}
       \/ answer = "conflict" /\ Self < g
    /\ \A h \in DOMAIN c.claims \ {g} :
          /\ c.claims[h].superframe = claim.superframe
          /\ c.claims[h].slots \intersect OwnedSlots(c) = {}
          => c.claims[h].slots \intersect OwnedSlots(n) = {}

\* Saving and loading accept a coordinator of this kind.
LEMMA CoordValid ==
    ASSUME NEW c, NEW sf, CoordInv(c, sf)
    PROVE  Valid(c)
<1>1. DOMAIN c.claims \in SUBSET DOMAIN c.seen /\ IsFiniteSet(DOMAIN c.seen)
    BY DEF CoordInv
<1>2. /\ Cardinality(DOMAIN c.claims) \in Nat /\ Cardinality(DOMAIN c.seen) \in Nat
      /\ Cardinality(DOMAIN c.claims) <= Cardinality(DOMAIN c.seen)
    BY <1>1, FS_Subset, FS_CardinalityType
<1>3. Cardinality(DOMAIN c.claims) <= MaxGateways
    BY <1>2, CoordinatorAssumption DEF CoordInv
<1>4. c.owned # << >> => c.owned[1] \subseteq SlotSet
    BY DEF CoordInv
<1> QED
    BY <1>1, <1>3, <1>4 DEF Valid, CoordInv, Claims

\* The slots a gateway owns are slots.
LEMMA OwnedAreSlots ==
    ASSUME NEW c, NEW sf, CoordInv(c, sf)
    PROVE  OwnedSlots(c) \subseteq SlotSet
BY DEF CoordInv, OwnedSlots

\* What a claim that is verified has passed.
LEMMA VerdictFacts ==
    ASSUME NEW c, NEW g, NEW claim, NEW sf,
           Verdict(c, g, claim, sf) \notin {"stale", "replay", "full"}
    PROVE  /\ claim.superframe = sf
           /\ ~ (g \in DOMAIN c.seen /\ claim.seq <= c.seen[g].seq)
           /\ ~ (g \notin DOMAIN c.seen /\ Cardinality(DOMAIN c.seen) >= MaxGateways)
BY DEF Verdict

\* The coordinator c with a claim of g in its table and the slots o owned.
Entered(c, g, claim, o) ==
    [seen |-> Put(c.seen, g, [superframe |-> claim.superframe, seq |-> claim.seq]),
     generation |-> c.generation + 1,
     claims |-> Put(c.claims, g, claim),
     owned |-> o]

\* A verified claim that is recorded is such an entry.
LEMMA RecordedEntered ==
    ASSUME NEW sf, NEW c, CoordInv(c, sf), NEW g, NEW claim, NEW o
    PROVE  /\ Recorded(Verified(c, g, claim), g, claim) = Entered(c, g, claim, c.owned)
           /\ [Recorded(Verified(c, g, claim), g, claim) EXCEPT !.owned = o]
                 = Entered(c, g, claim, o)
<1> DEFINE mark == [superframe |-> claim.superframe, seq |-> claim.seq]
           v == Verified(c, g, claim)
           r == Recorded(v, g, claim)
<1>1. v = [seen |-> Put(c.seen, g, mark), generation |-> c.generation + 1,
           claims |-> c.claims, owned |-> c.owned]
    <2>1. PICK s, k, d, e : c = [seen |-> s, generation |-> k, claims |-> d, owned |-> e]
        BY DEF CoordInv
    <2>2. c.seen = s /\ c.generation = k /\ c.claims = d /\ c.owned = e
        BY <2>1
    <2>3. v = [[c EXCEPT !.seen = Put(s, g, mark)] EXCEPT !.generation = k + 1]
        BY <2>1 DEF Verified
    <2>4. [c EXCEPT !.seen = Put(s, g, mark)]
          = [seen |-> Put(s, g, mark), generation |-> k, claims |-> d, owned |-> e]
        BY <2>1
    <2> QED
        BY <2>2, <2>3, <2>4
<1> HIDE DEF v
<1>2. r = [seen |-> Put(c.seen, g, mark), generation |-> c.generation + 1,
           claims |-> Put(c.claims, g, claim), owned |-> c.owned]
    BY <1>1 DEF Recorded
<1> HIDE DEF r
<1>3. [r EXCEPT !.owned = o] = [seen |-> Put(c.seen, g, mark), generation |-> c.generation + 1,
                                claims |-> Put(c.claims, g, claim), owned |-> o]
    BY <1>2
<1> QED
    BY <1>2, <1>3 DEF Entered, r, v

\* What such an entry n has, when the claim was verified.
EntryFacts(sf, c, g, claim, o, n) ==
    /\ n.owned = o
    /\ CoordInv(n, sf)
    /\ n.generation = c.generation + 1
    /\ DOMAIN n.seen = DOMAIN c.seen \union {g}
    /\ n.seen[g].seq = claim.seq
    /\ \A h \in DOMAIN c.seen \ {g} : n.seen[h] = c.seen[h]
    /\ g \in DOMAIN c.seen => c.seen[g].seq < claim.seq
    /\ DOMAIN n.claims = DOMAIN c.claims \union {g}
    /\ n.claims[g] = claim
    /\ \A h \in DOMAIN c.claims \ {g} : n.claims[h] = c.claims[h]

\* A verified claim in the table, with any slots owned, is a coordinator to which
\* validation has no objection.
LEMMA EnteredKeeps ==
    ASSUME NEW sf \in Nat, NEW c, CoordInv(c, sf), NEW g \in Peers, NEW claim \in Claims,
           Verdict(c, g, claim, sf) \notin {"stale", "replay", "full"},
           NEW o, o = << >> \/ \E x \in SUBSET SlotSet : o = <<x>>,
           NEW n, n = Entered(c, g, claim, o)
    PROVE  EntryFacts(sf, c, g, claim, o, n)
<1> DEFINE mark == [superframe |-> claim.superframe, seq |-> claim.seq]
<1>1. n = [seen |-> Put(c.seen, g, mark), generation |-> c.generation + 1,
           claims |-> Put(c.claims, g, claim), owned |-> o]
    BY DEF Entered
<1>2. /\ claim.superframe = sf /\ claim.seq \in Nat
      /\ g \in DOMAIN c.seen => c.seen[g].seq < claim.seq
      /\ g \notin DOMAIN c.seen => ~ (Cardinality(DOMAIN c.seen) >= MaxGateways)
    BY VerdictFacts DEF CoordInv, Claims
<1>3. /\ n.seen = Put(c.seen, g, mark) /\ n.claims = Put(c.claims, g, claim) /\ n.owned = o
      /\ n.generation = c.generation + 1
      /\ n = [seen |-> n.seen, generation |-> n.generation, claims |-> n.claims, owned |-> n.owned]
    BY <1>1
<1>4. /\ DOMAIN n.seen = DOMAIN c.seen \union {g} /\ n.seen[g] = mark
      /\ \A h \in DOMAIN c.seen \ {g} : n.seen[h] = c.seen[h]
    BY <1>3 DEF Put
<1>5. /\ DOMAIN n.claims = DOMAIN c.claims \union {g} /\ n.claims[g] = claim
      /\ \A h \in DOMAIN c.claims \ {g} : n.claims[h] = c.claims[h]
    BY <1>3 DEF Put
<1>6. mark.seq = claim.seq /\ mark = [superframe |-> claim.superframe, seq |-> claim.seq]
    OBVIOUS
<1> HIDE DEF mark
<1>7. IsFiniteSet(DOMAIN n.seen) /\ Cardinality(DOMAIN n.seen) <= MaxGateways
    <2>1. IsFiniteSet(DOMAIN c.seen) /\ Cardinality(DOMAIN c.seen) \in Nat
          /\ Cardinality(DOMAIN c.seen) <= MaxGateways
        BY FS_CardinalityType DEF CoordInv
    <2>2. CASE g \in DOMAIN c.seen
        <3>1. DOMAIN n.seen = DOMAIN c.seen
            BY <1>4, <2>2
        <3> QED
            BY <2>1, <3>1
    <2>3. CASE g \notin DOMAIN c.seen
        <3>1. /\ IsFiniteSet(DOMAIN c.seen \union {g})
              /\ Cardinality(DOMAIN c.seen \union {g}) = Cardinality(DOMAIN c.seen) + 1
            BY <2>1, <2>3, FS_AddElement
        <3>2. Cardinality(DOMAIN c.seen) < MaxGateways
            BY <1>2, <2>1, <2>3, CoordinatorAssumption
        <3> QED
            BY <1>4, <2>1, <3>1, <3>2, CoordinatorAssumption
    <2> QED
        BY <2>2, <2>3
<1>8. n.generation \in Nat \ {0}
    BY <1>3 DEF CoordInv
<1>9. DOMAIN n.seen \subseteq Peers /\ DOMAIN n.claims \subseteq DOMAIN n.seen
    BY <1>4, <1>5 DEF CoordInv
<1>10. \A h \in DOMAIN n.seen : n.seen[h].seq \in Nat
    BY <1>2, <1>4, <1>6 DEF CoordInv
<1>11. ASSUME NEW h \in DOMAIN n.claims
       PROVE  /\ n.claims[h] \in Claims /\ n.claims[h].superframe <= sf
              /\ n.seen[h] = [superframe |-> n.claims[h].superframe, seq |-> n.claims[h].seq]
    <2>1. CASE h = g
        BY <1>2, <1>4, <1>5, <1>6, <2>1
    <2>2. CASE h # g
        BY <1>4, <1>5, <2>2 DEF CoordInv
    <2> QED
        BY <2>1, <2>2
<1>12. CoordInv(n, sf)
    BY <1>3, <1>7, <1>8, <1>9, <1>10, <1>11 DEF CoordInv
<1> QED
    BY <1>2, <1>3, <1>4, <1>5, <1>6, <1>12 DEF EntryFacts

\* Without a conflict, or in one that is won, the owned slots stay.
LEMMA ResolvedKeeps ==
    ASSUME NEW sf \in Nat, NEW c, CoordInv(c, sf), NEW g \in Peers, NEW claim \in Claims,
           Verdict(c, g, claim, sf) \notin {"stale", "replay", "full"},
           NEW answer,
           \/ answer = "changed" /\ OwnedSlots(c) \intersect claim.slots = {}
           \/ answer = "conflict" /\ Self < g
    PROVE  LET n == Recorded(Verified(c, g, claim), g, claim)
           IN  CoordInv(n, sf) /\ Advances(c, g, claim, answer, n)
<1> DEFINE n == Recorded(Verified(c, g, claim), g, claim)
<1>1. c.owned = << >> \/ \E x \in SUBSET SlotSet : c.owned = <<x>>
    BY DEF CoordInv
<1>2. n = Entered(c, g, claim, c.owned)
    BY RecordedEntered
<1> HIDE DEF n
<1>3. EntryFacts(sf, c, g, claim, c.owned, n)
    BY <1>1, <1>2, EnteredKeeps
<1>4. OwnedSlots(n) = OwnedSlots(c)
    BY <1>3 DEF EntryFacts, OwnedSlots
<1> QED
    BY <1>3, <1>4 DEF EntryFacts, Advances, n

\* A conflict that is lost: the slots taken instead are in no claim for the
\* superframe, and the slots that are kept are not in the claim at hand.
LEMMA YieldKeeps ==
    ASSUME NEW sf \in Nat, NEW c, CoordInv(c, sf), NEW g \in Peers, NEW claim \in Claims,
           Verdict(c, g, claim, sf) \notin {"stale", "replay", "full"},
           NEW u, u = Yield(c, g, claim, sf)
    PROVE  \/ u.answer = "insufficient" /\ u.next = c
           \/ CoordInv(u.next, sf) /\ Advances(c, g, claim, u.answer, u.next)
<1> DEFINE overlap  == OwnedSlots(c) \intersect claim.slots
           retained == OwnedSlots(c) \ claim.slots
           occupied == retained \union claim.slots \union OccupiedByOthers(c, g, sf)
           found    == FindNextAvailable(Cardinality(overlap), occupied)
           o        == <<retained \union found>>
           n        == Entered(c, g, claim, o)
<1>1. \/ u = [answer |-> "insufficient", next |-> c]
      \/ u = [answer |-> "changed", next |-> n]
    <2> DEFINE r == [Recorded(Verified(c, g, claim), g, claim) EXCEPT !.owned = o]
    <2>1. u = IF Cardinality(found) # Cardinality(overlap)
              THEN Outcome("insufficient", c) ELSE Outcome("changed", r)
        BY DEF Yield
    <2>2. r = n
        <3> HIDE DEF o
        <3> QED
            BY RecordedEntered
    <2> HIDE DEF r, n, found, overlap
    <2> QED
        BY <2>1, <2>2 DEF Outcome
<1>2. found \subseteq SlotSet \ occupied
    BY DEF FindNextAvailable
<1>3. retained \subseteq SlotSet
    BY OwnedAreSlots
<1> HIDE DEF found
<1>4. \E x \in SUBSET SlotSet : o = <<x>>
    BY <1>2, <1>3
<1>5. o[1] = retained \union found /\ o # << >>
    OBVIOUS
<1>6. n = Entered(c, g, claim, o)
    OBVIOUS
<1> HIDE DEF o, n
<1>7. EntryFacts(sf, c, g, claim, o, n)
    BY <1>4, <1>6, EnteredKeeps
<1>8. OwnedSlots(n) = retained \union found
    BY <1>5, <1>7 DEF EntryFacts, OwnedSlots
<1>9. claim.slots \intersect OwnedSlots(n) = {}
    BY <1>2, <1>8
<1>10. ASSUME NEW h \in DOMAIN c.claims \ {g}, c.claims[h].superframe = claim.superframe,
              c.claims[h].slots \intersect OwnedSlots(c) = {}
       PROVE  c.claims[h].slots \intersect OwnedSlots(n) = {}
    <2>1. claim.superframe = sf
        BY VerdictFacts
    <2>2. c.claims[h].slots \subseteq OccupiedByOthers(c, g, sf)
        BY <1>10, <2>1 DEF OccupiedByOthers
    <2> QED
        BY <1>2, <1>8, <1>10, <2>2
<1>11. CoordInv(n, sf) /\ Advances(c, g, claim, "changed", n)
    BY <1>7, <1>9, <1>10 DEF EntryFacts, Advances
<1> QED
    BY <1>1, <1>11

\* What POST of a claim makes of a coordinator.
LEMMA PostSlotsKeeps ==
    ASSUME NEW sf \in Nat, NEW c, CoordInv(c, sf), NEW g \in Peers, NEW claim \in Claims,
           NEW u, u = PostSlots(c, g, claim, sf)
    PROVE  \/ u.answer \in {"forbidden", "empty", "insufficient"} /\ u.next = c
           \/ /\ CoordInv(u.next, sf) /\ Advances(c, g, claim, u.answer, u.next)
              /\ claim.superframe = sf
<1>1. CASE Verdict(c, g, claim, sf) \in {"stale", "replay"}
    BY <1>1 DEF PostSlots, Outcome
<1>2. CASE Verdict(c, g, claim, sf) = "full"
    BY <1>2 DEF PostSlots, Outcome
<1>3. CASE Verdict(c, g, claim, sf) \notin {"stale", "replay", "full"}
    <2> DEFINE v == Recorded(Verified(c, g, claim), g, claim)
    <2>1. u = Resolve(c, g, claim, sf)
        BY <1>3 DEF PostSlots
    <2>2. claim.superframe = sf
        BY <1>3, VerdictFacts
    <2>3. CASE OwnedSlots(c) \intersect claim.slots = {}
        <3>1. u.answer = "changed" /\ u.next = v
            BY <2>1, <2>3 DEF Resolve, Outcome
        <3> QED
            BY <1>3, <2>2, <2>3, <3>1, ResolvedKeeps
    <2>4. CASE OwnedSlots(c) \intersect claim.slots # {} /\ Self < g
        <3>1. u.answer = "conflict" /\ u.next = v
            BY <2>1, <2>4 DEF Resolve, Outcome
        <3> QED
            BY <1>3, <2>2, <2>4, <3>1, ResolvedKeeps
    <2>5. CASE OwnedSlots(c) \intersect claim.slots # {} /\ ~ (Self < g)
        <3>1. u = Yield(c, g, claim, sf)
            BY <2>1, <2>5 DEF Resolve
        <3> QED
            BY <1>3, <2>2, <3>1, YieldKeeps
    <2> QED
        BY <2>3, <2>4, <2>5
<1> QED
    BY <1>1, <1>2, <1>3

-----------------------------------------------------------------------------
(* The inductive invariant.                                                 *)

Promises == [Peers -> [seq : Nat, answer : {"none", "changed", "conflict"}]]

Types ==
    /\ requests \in [Peers -> Seq(Claims)]
    /\ superframe \in Nat
    /\ up \in BOOLEAN
    /\ served \subseteq Peers \X Nat
    /\ used \subseteq Peers \X Nat
    /\ promised \in Promises

\* A dispatch under way is of a running process and of a request that was sent.
StageInv ==
    /\ stage.at \in {"idle", "accepted", "handled", "protected"}
    /\ stage.at # "idle" =>
          up /\ stage.peer \in Peers /\ stage.piv \in DOMAIN requests[stage.peer]
    /\ stage.at = "accepted" => stage.superframe = superframe
    /\ stage.at = "handled" => stage.answer # "invalid"

\* The promises prom are kept in c.
Kept(c, prom) ==
    \A p \in Peers : prom[p].seq > 0 =>
        p \in DOMAIN c.seen /\ c.seen[p].seq >= prom[p].seq

\* The slots that c owns are in no claim that wins or was answered with success.
Respects(c, prom, sf) ==
    \A p \in DOMAIN c.claims :
        /\ c.claims[p].superframe = sf
        /\ p < Self \/ prom[p] = [seq |-> c.claims[p].seq, answer |-> "changed"]
        => c.claims[p].slots \intersect OwnedSlots(c) = {}

\* The coordinator on disk may be ahead of the one in memory, by the one claim
\* whose commit failed; both are fit to run from.
SlotsInv ==
    /\ slots = [memory |-> slots.memory, disk |-> slots.disk, floor |-> slots.floor]
    /\ CoordInv(slots.memory, superframe) /\ CoordInv(slots.disk, superframe)
    /\ slots.floor \in Nat /\ slots.floor <= slots.disk.generation
    /\ Kept(slots.disk, promised) /\ Respects(slots.disk, promised, superframe)
    /\ up => /\ slots.floor <= slots.memory.generation + 1
             /\ Kept(slots.memory, promised) /\ Respects(slots.memory, promised, superframe)

\* No record that can be loaded takes a served request for new, or has a sequence
\* number that was used.
NotOlderReplay == {p \in ReplayStates \X ReplayStates : ~ ReplayPrecedes(p[1], p[2])}
NotOlderSequence == {p \in Nat \X Nat : ~ SequencePrecedes(p[1], p[2])}
Knows(sv) == {p \in Peers \X ReplayStates : \A q \in sv : q[1] = p[1] => IsReplay(p[2], q[2])}
Beyond(us) == {p \in Peers \X Nat : \A q \in us : q[1] = p[1] => q[2] < p[2]}

RecipientInv == StoreInv(recipient, ReplayStates, EmptyReplay, NotOlderReplay, Knows(served))
SenderInv == StoreInv(sender, Nat, 0, NotOlderSequence, Beyond(used))

ContextsInv ==
    /\ contexts = [p \in DOMAIN contexts |-> contexts[p]]
    /\ \A p \in DOMAIN contexts :
          contexts[p] = [opened |-> contexts[p].opened, next |-> contexts[p].next]

\* A peer's first context remembers that it opened a request.
HasOpened(p, v) == p \notin renewed => p \in DOMAIN contexts /\ v \in contexts[p].opened

Opened == [peer : Peers, piv : Nat]

\* Of a peer that has its first context, what is pending was opened once, and no
\* response was bound to it but the one that is being transmitted.
PendingInv ==
    /\ pending \in Seq(Opened)
    /\ \A i, j \in 1..Len(pending) :
          pending[i] = pending[j] /\ pending[i].peer \notin renewed => i = j
    /\ \A i \in 1..Len(pending) : HasOpened(pending[i].peer, pending[i].piv)
    /\ \A a \in answered : HasOpened(a[1], a[2])
    /\ \A i \in 1..Len(pending) :
          pending[i].peer \notin renewed /\ <<pending[i].peer, pending[i].piv>> \in answered =>
              stage.at = "protected" /\ i = Correlated(stage.peer, stage.piv)
    /\ stage.at # "idle" =>
          \E i \in 1..Len(pending) : pending[i] = [peer |-> stage.peer, piv |-> stage.piv]

GInv == Types /\ StageInv /\ SlotsInv /\ RecipientInv /\ SenderInv /\ ContextsInv /\ PendingInv

-----------------------------------------------------------------------------
(* The stores keep their parts of it.                                       *)

\* The store of a gateway that never used a context.
LEMMA EmptyKeeps ==
    ASSUME NEW S, NEW first, NEW N, NEW G, \A c \in Peers : <<c, first>> \in G,
           NEW st, st = [state |-> [c \in Peers |-> << >>], floor |-> [c \in Peers |-> << >>],
                         cache |-> << >>]
    PROVE  StoreInv(st, S, first, N, G)
<1>1. st.cache = << >> /\ Len(st.cache) = 0 /\ << >> \in Seq(Entry(S)) /\ << >> \in File(S)
    BY EmptySeq DEF File
<1>2. \A c \in Peers : st.state[c] = << >> /\ st.floor[c] = << >>
    OBVIOUS
<1>3. st \in Stores(S)
    BY <1>1 DEF Stores
<1> QED
    BY <1>1, <1>2, <1>3 DEF StoreInv, OneEntryEach, CacheAtFloor, FloorBehind, LoadsWithin

\* A restart, which empties the cache.
LEMMA ReopenKeeps ==
    ASSUME NEW S, NEW first, NEW N, NEW G, NEW st, StoreInv(st, S, first, N, G)
    PROVE  StoreInv([st EXCEPT !.cache = << >>], S, first, N, G)
<1> DEFINE n == [st EXCEPT !.cache = << >>]
<1>1. n.state = st.state /\ n.floor = st.floor /\ n.cache = << >> /\ n \in Stores(S)
    BY EmptySeq DEF StoreInv, Stores
<1>2. Len(n.cache) = 0
    BY <1>1
<1> HIDE DEF n
<1>3. StoreInv(n, S, first, N, G)
    BY <1>1, <1>2 DEF StoreInv, OneEntryEach, CacheAtFloor, FloorBehind, LoadsWithin
<1> QED
    BY <1>3 DEF n

\* The admission of a request: what is accepted was not served, and every record
\* that is written knows all that was.
LEMMA RecipientAdmits ==
    ASSUME Types, RecipientInv, NEW p \in Peers, NEW v \in Nat, Admit(p, v)
    PROVE  RecipientInv' /\ (stage' # stage => <<p, v>> \notin served)
<1> DEFINE RS == ReplayStates
           N == NotOlderReplay
           G == Knows(served)
           H == Knows(served \union {<<p, v>>})
<1>1. PICK l \in Recipient!Load(recipient, p) :
         IF ~ l.ok \/ IsReplay(l.state[1], v) \/ v \in contexts[p].opened
         THEN Consumed(l.store) /\ Noted(l.ok)
         ELSE Accept(p, v, l)
    BY DEF Admit
<1>2. EmptyReplay \in RS /\ recipient \in Stores(RS) /\ StoreInv(recipient, RS, EmptyReplay, N, G)
    BY DEF EmptyReplay, ReplayStates, RecipientInv, StoreInv
<1>3. \A s \in RS : <<s, s>> \in N
    BY DEF NotOlderReplay, ReplayPrecedes, ReplayStates
<1>4. Loaded(recipient, p, <<EmptyReplay>>, l)
    BY <1>2, RecipientLoads
<1>5. /\ StoreInv(l.store, RS, EmptyReplay, N, G)
      /\ l.ok => \E s \in RS : /\ l.state = <<s>> /\ <<p, s>> \in G
                               /\ l.store.floor[p] \in {<< >>, <<s>>}
    <2> DEFINE ini == <<EmptyReplay>>
    <2>1. ini # << >> /\ ini \in {<< >>, <<EmptyReplay>>}
        OBVIOUS
    <2> HIDE DEF N, G, RS, ini
    <2>2. LoadOutcome(l, p, ini, RS, EmptyReplay, N, G)
        BY <1>2, <1>3, <1>4, <2>1, LoadKeeps DEF ini
    <2> QED
        BY <2>1, <2>2 DEF LoadOutcome
<1>6. CASE ~ l.ok \/ IsReplay(l.state[1], v) \/ v \in contexts[p].opened
    <2>1. recipient' = l.store /\ UNCHANGED <<served, stage>>
        BY <1>1, <1>6 DEF Consumed
    <2> QED
        BY <1>5, <2>1 DEF RecipientInv
<1>7. CASE ~ (~ l.ok \/ IsReplay(l.state[1], v) \/ v \in contexts[p].opened)
    <2>1. PICK s \in RS : /\ l.state = <<s>> /\ <<p, s>> \in G
                          /\ l.store.floor[p] \in {<< >>, <<s>>}
        BY <1>5, <1>7
    <2>2. l.state[1] = s /\ ~ IsReplay(s, v)
        BY <1>7, <2>1
    <2> DEFINE a == Accepted(s, v)
    <2>3. PICK r \in Recipient!Save(l.store, p, a) :
             /\ recipient' = r.store
             /\ IF r.ok THEN served' = served \union {<<p, v>>} ELSE served' = served
        BY <1>1, <1>7, <2>2 DEF Accept
    <2>4. /\ a \in RS
          /\ \A q \in served : q[1] = p => IsReplay(a, q[2])
          /\ IsReplay(a, v) /\ ~ ReplayPrecedes(a, s)
        <3>1. ASSUME NEW q \in served, q[1] = p
              PROVE  IsReplay(a, q[2])
            <4>1. q[2] \in Nat /\ IsReplay(s, q[2])
                BY <2>1, <3>1 DEF Knows, Types
            <4> QED
                BY <2>2, <4>1, ReplayStays
        <3> QED
            BY <2>2, <3>1, AcceptedType, AcceptedIsReplay, AcceptedNotOlder
    <2> HIDE DEF a
    <2>5. <<p, a>> \in G /\ <<p, a>> \in H
        BY <2>4 DEF Knows
    <2>6. \A d, t : <<d, t>> \in G /\ d # p => <<d, t>> \in H
        BY DEF Knows
    <2>7. l.store.floor[p] # << >> => <<a, l.store.floor[p][1]>> \in N
        BY <2>1, <2>4 DEF NotOlderReplay
    <2>8. <<p, v>> \notin served
        BY <2>1, <2>2 DEF Knows
    <2>9. /\ r.ok \in BOOLEAN
          /\ IF r.ok THEN StoreInv(r.store, RS, EmptyReplay, N, H)
             ELSE StoreInv(r.store, RS, EmptyReplay, N, G)
        <3> HIDE DEF N, G, H, RS
        <3>1. SaveOutcome(r, a, RS, EmptyReplay, N, G, H)
            BY <1>2, <1>3, <1>5, <2>3, <2>4, <2>5, <2>6, <2>7, SaveKeeps
        <3> QED
            BY <3>1 DEF SaveOutcome
    <2> QED
        BY <2>3, <2>8, <2>9 DEF RecipientInv
<1> QED
    BY <1>6, <1>7

\* What a compare-and-exchange that expects e of the context p leaves.
ExchangeOutcome(r, p, e, us) ==
    IF r.ok /\ e # << >>
    THEN /\ e[1] \in Nat /\ <<p, e[1]>> \in Beyond(us)
         /\ StoreInv(r.store, Nat, 0, NotOlderSequence, Beyond(us \union {<<p, e[1]>>}))
    ELSE StoreInv(r.store, Nat, 0, NotOlderSequence, Beyond(us))

\* A compare-and-exchange of a sequence number: no number that was used is
\* compared equal, and every record that is written is beyond all that were.
LEMMA Exchanged ==
    ASSUME NEW us \in SUBSET (Peers \X Nat), NEW st,
           StoreInv(st, Nat, 0, NotOlderSequence, Beyond(us)),
           NEW p \in Peers, NEW e, NEW x,
           (e = << >> /\ x = 0) \/ (\E n : e = <<n>> /\ x = n + 1),
           NEW r \in Sender!CompareExchange(st, p, e, x)
    PROVE  ExchangeOutcome(r, p, e, us)
<1> USE DEF ExchangeOutcome
<1> DEFINE N == NotOlderSequence
           G == Beyond(us)
<1>1. PICK l \in Sender!Load(st, p) :
         r \in IF \/ ~ l.ok
                  \/ l.state # e
                  \/ l.state = << >> /\ Len(l.store.cache) >= MaxContexts
               THEN {[store |-> l.store, ok |-> FALSE, state |-> << >>]}
               ELSE Sender!Save(l.store, p, x)
    BY DEF Sender!CompareExchange, Sender!Result
<1>2. st \in Stores(Nat) /\ 0 \in Nat
    BY DEF StoreInv
<1>3. \A s \in Nat : <<s, s>> \in N
    BY DEF NotOlderSequence, SequencePrecedes
<1>4. Loaded(st, p, << >>, l)
    BY <1>2, SenderLoads
<1>5. LoadOutcome(l, p, << >>, Nat, 0, N, G)
    <2> DEFINE ini == << >>
    <2>1. ini \in {<< >>, <<0>>}
        OBVIOUS
    <2> HIDE DEF N, G, ini
    <2>2. LoadOutcome(l, p, ini, Nat, 0, N, G)
        BY <1>2, <1>3, <1>4, <2>1, LoadKeeps DEF N, G, ini
    <2> QED
        BY <2>2 DEF ini
<1>6. CASE r = [store |-> l.store, ok |-> FALSE, state |-> << >>]
    <2>1. r.store = l.store /\ ~ r.ok
        BY <1>6
    <2> QED
        BY <1>5, <2>1 DEF LoadOutcome
<1>7. CASE l.ok /\ l.state = e /\ r \in Sender!Save(l.store, p, x)
    <2>1. r \in Recipient!Save(l.store, p, x)
        BY <1>7, SameCaches
    <2>2. StoreInv(l.store, Nat, 0, N, G)
        BY <1>5 DEF LoadOutcome
    <2>3. CASE e = << >>
        <3>1. x = 0 /\ <<p, 0>> \in G /\ l.store.floor[p] = << >>
            <4>1. \A n : e # <<n>>
                BY <2>3
            <4> QED
                BY <1>5, <1>7, <2>3, <4>1 DEF LoadOutcome
        <3>2. SaveOutcome(r, 0, Nat, 0, N, G, G)
            <4> HIDE DEF N, G
            <4> QED
                BY <1>2, <1>3, <2>1, <2>2, <3>1, SaveKeeps
        <3> QED
            BY <2>3, <3>2 DEF SaveOutcome
    <2>4. CASE e # << >>
        <3>1. PICK n \in Nat : /\ e = <<n>> /\ <<p, n>> \in G
                               /\ l.store.floor[p] \in {<< >>, <<n>>}
            BY <1>5, <1>7, <2>4 DEF LoadOutcome
        <3>2. x = n + 1 /\ x \in Nat /\ e[1] = n
            BY <2>4, <3>1
        <3> DEFINE H == Beyond(us \union {<<p, n>>})
        <3>3. <<p, x>> \in G /\ <<p, x>> \in H
            <4>1. ASSUME NEW q \in us \union {<<p, n>>}, q[1] = p
                  PROVE  q[2] < x
                <5>1. CASE q \in us
                    <6>1. q[2] \in Nat /\ q[2] < n
                        BY <3>1, <4>1, <5>1 DEF Beyond
                    <6> QED
                        BY <3>2, <6>1
                <5>2. CASE q = <<p, n>>
                    BY <3>2, <5>2
                <5> QED
                    BY <5>1, <5>2
            <4> QED
                BY <3>2, <4>1 DEF Beyond
        <3>4. \A d, t : <<d, t>> \in G /\ d # p => <<d, t>> \in H
            BY DEF Beyond
        <3>5. l.store.floor[p] # << >> => <<x, l.store.floor[p][1]>> \in N
            BY <3>1, <3>2 DEF NotOlderSequence, SequencePrecedes
        <3>6. SaveOutcome(r, x, Nat, 0, N, G, H)
            <4> HIDE DEF N, G, H
            <4> QED
                BY <1>2, <1>3, <2>1, <2>2, <3>2, <3>3, <3>4, <3>5, SaveKeeps
        <3> QED
            BY <2>4, <3>1, <3>2, <3>6 DEF SaveOutcome
    <2> QED
        BY <2>3, <2>4
<1> QED
    BY <1>1, <1>6, <1>7

\* Installing a context.
LEMMA SenderInstalls ==
    ASSUME Types, SenderInv, NEW p \in Peers, Install(p)
    PROVE  SenderInv'
<1>1. PICK r \in Registered(p) : sender' = r.store
    BY DEF Install
<1>2. used' = used
    BY DEF Install
<1>3. PICK l \in Sender!Load(sender, p) :
         r \in IF ~ l.ok \/ l.state # << >> THEN {l}
               ELSE Sender!CompareExchange(l.store, p, << >>, 0)
    BY <1>1 DEF Registered
<1> DEFINE N == NotOlderSequence
           G == Beyond(used)
<1>4. StoreInv(l.store, Nat, 0, N, G)
    <2>1. sender \in Stores(Nat) /\ 0 \in Nat /\ StoreInv(sender, Nat, 0, N, G)
        BY DEF SenderInv, StoreInv
    <2>2. \A s \in Nat : <<s, s>> \in N
        BY DEF NotOlderSequence, SequencePrecedes
    <2>3. Loaded(sender, p, << >>, l)
        BY <2>1, SenderLoads
    <2> DEFINE ini == << >>
    <2>4. ini \in {<< >>, <<0>>}
        OBVIOUS
    <2> HIDE DEF N, G, ini
    <2>5. LoadOutcome(l, p, ini, Nat, 0, N, G)
        BY <2>1, <2>2, <2>3, <2>4, LoadKeeps DEF ini
    <2> QED
        BY <2>5 DEF LoadOutcome
<1>5. StoreInv(r.store, Nat, 0, N, G)
    <2>1. CASE r = l
        BY <1>4, <2>1
    <2>2. CASE r \in Sender!CompareExchange(l.store, p, << >>, 0)
        <3> DEFINE e == << >>
        <3>1. e = << >> /\ r \in Sender!CompareExchange(l.store, p, e, 0)
              /\ used \in SUBSET (Peers \X Nat)
            BY <2>2 DEF Types
        <3> HIDE DEF e
        <3>2. ExchangeOutcome(r, p, e, used)
            BY <1>4, <3>1, Exchanged
        <3> QED
            BY <3>1, <3>2 DEF ExchangeOutcome
    <2> QED
        BY <1>3, <2>1, <2>2
<1> QED
    BY <1>1, <1>2, <1>5 DEF SenderInv

\* Reserving the number of a response, which was not used.
LEMMA SenderReserves ==
    ASSUME Types, StageInv, SenderInv, Reserve
    PROVE  /\ SenderInv'
           /\ used' \subseteq Peers \X Nat
           /\ stage'.at = "protected" => <<stage'.peer, stage'.nonce>> \notin used
<1> DEFINE p == stage.peer
           n == contexts[p].next
           e == <<n>>
<1>1. p \in Peers /\ used \in SUBSET (Peers \X Nat)
    BY DEF Reserve, StageInv, Types
<1>2. PICK r \in Sender!CompareExchange(sender, p, e, n + 1) :
         /\ sender' = r.store
         /\ IF r.ok
            THEN /\ used' = used \union {<<p, n>>}
                 /\ stage' = Idle \/ (stage'.peer = p /\ stage'.nonce = n)
            ELSE used' = used /\ stage' = Idle
    BY DEF Reserve, Protect, GiveUp
<1>3. e # << >> /\ e[1] = n /\ (\E m : e = <<m>> /\ n + 1 = m + 1)
    OBVIOUS
<1> HIDE DEF p, e, n
<1>4. ExchangeOutcome(r, p, e, used)
    <2>1. StoreInv(sender, Nat, 0, NotOlderSequence, Beyond(used))
        BY DEF SenderInv
    <2> QED
        BY <1>1, <1>2, <1>3, <2>1, Exchanged
<1>5. CASE r.ok
    <2>1. /\ n \in Nat /\ <<p, n>> \in Beyond(used)
          /\ StoreInv(r.store, Nat, 0, NotOlderSequence, Beyond(used \union {<<p, n>>}))
        BY <1>3, <1>4, <1>5 DEF ExchangeOutcome
    <2>2. <<p, n>> \notin used
        BY <2>1 DEF Beyond
    <2>3. used' = used \union {<<p, n>>} /\ sender' = r.store
        BY <1>2, <1>5
    <2>6. stage' = Idle \/ (stage'.peer = p /\ stage'.nonce = n)
        BY <1>2, <1>5
    <2>4. SenderInv'
        BY <2>1, <2>3 DEF SenderInv
    <2>5. used' \subseteq Peers \X Nat
        BY <1>1, <2>1, <2>3
    <2> QED
        BY <2>2, <2>4, <2>5, <2>6 DEF Idle
<1>6. CASE ~ r.ok
    BY <1>1, <1>2, <1>4, <1>6 DEF SenderInv, Idle, ExchangeOutcome
<1> QED
    BY <1>5, <1>6

-----------------------------------------------------------------------------
(* The coordinator keeps its part of it.                                    *)

\* A new coordinator.
LEMMA FreshIsGood ==
    ASSUME NEW sf
    PROVE  CoordInv(Fresh, sf) /\ Fresh.generation = 1 /\ DOMAIN Fresh.claims = {}
<1>1. DOMAIN << >> = {}
    OBVIOUS
<1>2. IsFiniteSet({}) /\ Cardinality({}) = 0
    BY FS_EmptySet
<1>3. /\ Fresh.seen = << >> /\ Fresh.claims = << >> /\ Fresh.owned = << >>
      /\ Fresh.generation = 1
      /\ Fresh = [seen |-> Fresh.seen, generation |-> Fresh.generation,
                  claims |-> Fresh.claims, owned |-> Fresh.owned]
    BY DEF Fresh
<1>4. 0 <= MaxGateways
    BY CoordinatorAssumption
<1> QED
    BY <1>1, <1>2, <1>3, <1>4 DEF CoordInv

\* A claim that a commit has made durable, if not more, on top of the coordinator
\* that runs: the candidate keeps every promise, and respects every claim that the
\* coordinator respects, under the old promises ...
LEMMA CandidateKeeps ==
    ASSUME NEW prom \in Promises, NEW sf, NEW c, CoordInv(c, sf), Kept(c, prom), Respects(c, prom, sf),
           NEW g \in Peers, NEW claim \in Claims, NEW answer, NEW n,
           CoordInv(n, sf), Advances(c, g, claim, answer, n), claim.superframe = sf
    PROVE  Kept(n, prom) /\ Respects(n, prom, sf)
<1>1. ASSUME NEW p \in Peers, prom[p].seq > 0
      PROVE  p \in DOMAIN n.seen /\ n.seen[p].seq >= prom[p].seq
    <2>1. p \in DOMAIN c.seen /\ c.seen[p].seq >= prom[p].seq /\ c.seen[p].seq \in Nat
          /\ prom[p].seq \in Nat /\ claim.seq \in Nat
        BY <1>1 DEF Kept, CoordInv, Promises, Claims
    <2>2. CASE p = g
        BY <2>1, <2>2 DEF Advances
    <2>3. CASE p # g
        BY <2>1, <2>3 DEF Advances
    <2> QED
        BY <2>2, <2>3
<1>2. ASSUME NEW p \in DOMAIN n.claims, n.claims[p].superframe = sf,
             p < Self \/ prom[p] = [seq |-> n.claims[p].seq, answer |-> "changed"]
      PROVE  n.claims[p].slots \intersect OwnedSlots(n) = {}
    <2>1. CASE p = g
        <3>1. n.claims[p] = claim /\ claim.seq \in Nat \ {0} /\ g \in Nat /\ Self \in Nat
            BY <2>1, RequestsAssumption, CoordinatorAssumption DEF Advances, Claims
        <3>2. prom[g].seq # claim.seq
            <4>1. prom[g].seq \in Nat
                BY DEF Promises
            <4>2. CASE g \in DOMAIN c.seen
                <5>1. c.seen[g].seq \in Nat /\ c.seen[g].seq < claim.seq
                    BY <4>2 DEF CoordInv, Advances
                <5> QED
                    BY <3>1, <4>1, <5>1 DEF Kept
            <4>3. CASE g \notin DOMAIN c.seen
                BY <3>1, <4>1, <4>3 DEF Kept
            <4> QED
                BY <4>2, <4>3
        <3>3. p < Self
            BY <1>2, <2>1, <3>1, <3>2
        <3>4. answer = "changed" /\ claim.slots \intersect OwnedSlots(n) = {}
            BY <2>1, <3>1, <3>3 DEF Advances
        <3> QED
            BY <3>1, <3>4
    <2>2. CASE p # g
        <3>1. p \in DOMAIN c.claims \ {g} /\ n.claims[p] = c.claims[p]
            BY <2>2 DEF Advances
        <3>2. c.claims[p].slots \intersect OwnedSlots(c) = {}
            BY <1>2, <3>1 DEF Respects
        <3> QED
            BY <1>2, <3>1, <3>2 DEF Advances
    <2> QED
        BY <2>1, <2>2
<1> QED
    BY <1>1, <1>2 DEF Kept, Respects

\* ... and, once it is committed, under the promise that answers the claim.
LEMMA PromiseKeeps ==
    ASSUME NEW prom \in Promises, NEW sf, NEW c, CoordInv(c, sf), Kept(c, prom), Respects(c, prom, sf),
           NEW g \in Peers, NEW claim \in Claims, NEW answer, NEW n,
           CoordInv(n, sf), Advances(c, g, claim, answer, n), claim.superframe = sf,
           NEW new, new = [prom EXCEPT ![g] = [seq |-> claim.seq, answer |-> answer]]
    PROVE  new \in Promises /\ Kept(n, new) /\ Respects(n, new, sf)
<1>1. Kept(n, prom) /\ Respects(n, prom, sf)
    BY CandidateKeeps
<1>2. /\ new[g] = [seq |-> claim.seq, answer |-> answer]
      /\ \A p \in Peers \ {g} : new[p] = prom[p]
    BY DEF Promises
<1>3. claim.seq \in Nat /\ answer \in {"changed", "conflict"}
    BY DEF Claims, Advances
<1>4. new \in Promises
    BY <1>3 DEF Promises
<1>5. g \in DOMAIN n.seen /\ n.seen[g].seq = claim.seq /\ n.claims[g] = claim
    BY DEF Advances
<1>6. ASSUME NEW p \in Peers, new[p].seq > 0
      PROVE  p \in DOMAIN n.seen /\ n.seen[p].seq >= new[p].seq
    <2>1. CASE p = g
        BY <1>2, <1>3, <1>5, <2>1
    <2>2. CASE p # g
        BY <1>1, <1>2, <1>6, <2>2 DEF Kept
    <2> QED
        BY <2>1, <2>2
<1>7. ASSUME NEW p \in DOMAIN n.claims, n.claims[p].superframe = sf,
             p < Self \/ new[p] = [seq |-> n.claims[p].seq, answer |-> "changed"]
      PROVE  n.claims[p].slots \intersect OwnedSlots(n) = {}
    <2>1. p \in Peers
        BY DEF CoordInv
    <2>2. CASE p = g
        <3>1. new[p] = [seq |-> n.claims[p].seq, answer |-> "changed"] => answer = "changed"
            BY <1>2, <2>2
        <3>2. g \in Nat /\ Self \in Nat
            BY RequestsAssumption, CoordinatorAssumption
        <3>3. answer = "changed"
            BY <1>7, <2>2, <3>1, <3>2 DEF Advances
        <3> QED
            BY <1>5, <2>2, <3>3 DEF Advances
    <2>3. CASE p # g
        BY <1>1, <1>2, <1>7, <2>1, <2>3 DEF Respects
    <2> QED
        BY <2>2, <2>3
<1> QED
    BY <1>4, <1>6, <1>7 DEF Kept, Respects

\* The commit of a candidate: however far it comes, both coordinators are fit to
\* run from, and a promise is made by a commit that succeeds only.
LEMMA CommitKeeps ==
    ASSUME Types, SlotsInv, up, NEW g \in Peers, NEW claim \in Claims, NEW answer, NEW n,
           CoordInv(n, superframe), Advances(slots.memory, g, claim, answer, n),
           claim.superframe = superframe, superframe' = superframe,
           NEW r \in Commit(slots, n), slots' = r.slots,
           promised' = IF r.ok THEN [promised EXCEPT ![g] = [seq |-> claim.seq, answer |-> answer]]
                       ELSE promised
    PROVE  SlotsInv' /\ promised' \in Promises
<1> DEFINE m == slots.memory
           d == slots.disk
           f == slots.floor
<1>1. slots = [memory |-> m, disk |-> d, floor |-> f]
    BY DEF SlotsInv
<1>2. Valid(n)
    BY CoordValid
<1>3. /\ CoordInv(m, superframe) /\ Kept(m, promised) /\ Respects(m, promised, superframe)
      /\ f \in Nat /\ f <= m.generation + 1 /\ m.generation \in Nat
      /\ promised \in Promises
    BY DEF SlotsInv, CoordInv, Types
<1>4. Kept(n, promised) /\ Respects(n, promised, superframe)
    BY <1>3, CandidateKeeps
<1>5. n.generation = m.generation + 1 /\ n.generation \in Nat
    BY DEF Advances, CoordInv
<1> DEFINE w == [slots EXCEPT !.disk = n]
           x == [w EXCEPT !.floor = n.generation]
           y == [x EXCEPT !.memory = n]
<1>6. \/ r = [slots |-> slots, ok |-> FALSE] \/ r = [slots |-> w, ok |-> FALSE]
      \/ r = [slots |-> x, ok |-> FALSE] \/ r = [slots |-> y, ok |-> TRUE]
    BY <1>2 DEF Commit
<1>7. w = [memory |-> m, disk |-> n, floor |-> f]
    BY <1>1
<1> HIDE DEF w
<1>8. x = [memory |-> m, disk |-> n, floor |-> n.generation]
    BY <1>7
<1> HIDE DEF x
<1>9. y = [memory |-> n, disk |-> n, floor |-> n.generation]
    BY <1>8
<1> HIDE DEF y
<1>10. CASE r = [slots |-> slots, ok |-> FALSE]
    <2>1. slots' = slots /\ promised' = promised
        BY <1>10
    <2> QED
        BY <1>3, <1>5, <2>1 DEF SlotsInv
<1> HIDE DEF m, d, f
<1>11. CASE r = [slots |-> w, ok |-> FALSE]
    <2>1. slots' = [memory |-> m, disk |-> n, floor |-> f] /\ promised' = promised
        BY <1>7, <1>11
    <2> QED
        BY <1>3, <1>4, <1>5, <2>1 DEF SlotsInv
<1>12. CASE r = [slots |-> x, ok |-> FALSE]
    <2>1. slots' = [memory |-> m, disk |-> n, floor |-> n.generation] /\ promised' = promised
        BY <1>8, <1>12
    <2> QED
        BY <1>3, <1>4, <1>5, <2>1 DEF SlotsInv
<1>13. CASE r = [slots |-> y, ok |-> TRUE]
    <2>1. /\ slots' = [memory |-> n, disk |-> n, floor |-> n.generation]
          /\ promised' = [promised EXCEPT ![g] = [seq |-> claim.seq, answer |-> answer]]
        BY <1>9, <1>13
    <2>2. promised' \in Promises /\ Kept(n, promised') /\ Respects(n, promised', superframe)
        <3>1. Advances(m, g, claim, answer, n)
            BY DEF m
        <3> DEFINE new == [promised EXCEPT ![g] = [seq |-> claim.seq, answer |-> answer]]
        <3>2. new = [promised EXCEPT ![g] = [seq |-> claim.seq, answer |-> answer]]
            OBVIOUS
        <3>3. promised' = new
            BY <2>1
        <3> HIDE DEF new
        <3>4. new \in Promises /\ Kept(n, new) /\ Respects(n, new, superframe)
            BY <1>3, <3>1, <3>2, PromiseKeeps
        <3> QED
            BY <3>3, <3>4
    <2> QED
        BY <1>5, <2>1, <2>2 DEF SlotsInv
<1> QED
    BY <1>6, <1>10, <1>11, <1>12, <1>13

\* The handling of a request by its resource.
LEMMA HandleKeeps ==
    ASSUME Types, StageInv, SlotsInv, Handle
    PROVE  SlotsInv' /\ StageInv' /\ promised' \in Promises
<1> DEFINE p == stage.peer
           v == stage.piv
           claim == Request(p, v)
           u == PostSlots(slots.memory, p, claim, stage.superframe)
<1>1. /\ up /\ p \in Peers /\ v \in DOMAIN requests[p] /\ stage.superframe = superframe
      /\ UNCHANGED <<requests, superframe, up>>
    BY DEF Handle, StageInv
<1>2. claim \in Claims
    <2>1. requests[p] \in Seq(Claims)
        BY <1>1 DEF Types
    <2>2. v \in 1..Len(requests[p])
        BY <1>1, <2>1, LenProperties
    <2>3. requests[p][v] \in Claims
        BY <2>1, <2>2, ElementOfSeq
    <2> QED
        BY <2>3 DEF Request
<1>3. /\ CoordInv(slots.memory, superframe)
      /\ superframe \in Nat /\ promised \in Promises
    BY DEF SlotsInv, Types
<1> HIDE DEF p, v, claim
<1>4. \/ u.answer \in {"forbidden", "empty", "insufficient"} /\ u.next = slots.memory
      \/ /\ CoordInv(u.next, superframe) /\ Advances(slots.memory, p, claim, u.answer, u.next)
         /\ claim.superframe = superframe
    BY <1>1, <1>2, <1>3, PostSlotsKeeps
<1>5. u.answer # "invalid"
    BY <1>4 DEF Advances
<1> HIDE DEF u
<1>6. ASSUME NEW code, code # "invalid",
             stage' = [at |-> "handled", peer |-> p, piv |-> v, answer |-> code]
      PROVE  StageInv'
    BY <1>1, <1>6 DEF StageInv
<1>7. ASSUME NEW code, code # "invalid", Answer(code)
      PROVE  StageInv'
    BY <1>6, <1>7 DEF Answer, p, v
<1>8. CASE UNCHANGED <<slots, promised>> /\ (Answer(u.answer) \/ Answer("empty"))
    <2>1. StageInv'
        BY <1>5, <1>7, <1>8
    <2>2. SlotsInv'
        BY <1>1, <1>8 DEF SlotsInv
    <2> QED
        BY <1>3, <1>8, <2>1, <2>2
<1>9. CASE u.next # slots.memory /\ CommitClaim(p, claim, u)
    <2>1. /\ CoordInv(u.next, superframe) /\ Advances(slots.memory, p, claim, u.answer, u.next)
          /\ claim.superframe = superframe
        BY <1>4, <1>9
    <2>2. Valid(u.next)
        BY <2>1, CoordValid
    <2>3. PICK r \in Commit(slots, u.next) :
             /\ slots' = r.slots
             /\ Answer(IF r.ok THEN u.answer ELSE IF Valid(u.next) THEN "error" ELSE "invalid")
             /\ Promise(p, claim, IF r.ok THEN u.answer
                                  ELSE IF Valid(u.next) THEN "error" ELSE "invalid")
        BY <1>9 DEF CommitClaim
    <2>4. StageInv'
        BY <1>5, <1>7, <2>2, <2>3
    <2>5. u.answer \in {"changed", "conflict"}
        BY <2>1 DEF Advances
    <2>6. promised' = IF r.ok THEN [promised EXCEPT ![p] = [seq |-> claim.seq, answer |-> u.answer]]
                      ELSE promised
        BY <2>2, <2>3, <2>5 DEF Promise
    <2>7. SlotsInv' /\ promised' \in Promises
        BY <1>1, <1>2, <2>1, <2>3, <2>6, CommitKeeps
    <2> QED
        BY <2>4, <2>7
<1>10. HandleClaim(p, claim) \/ RateLimited
    BY DEF Handle, p, v, claim
<1> QED
    BY <1>8, <1>9, <1>10 DEF HandleClaim, RateLimited, u

-----------------------------------------------------------------------------
(* The steps.                                                               *)

\* The pending request that a response is matched with is one of its peer.
LEMMA FirstPending ==
    ASSUME NEW p, NEW v, NEW i \in 1..Len(pending), pending[i] = [peer |-> p, piv |-> v],
           pending \in Seq(Opened)
    PROVE  Correlated(p, v) \in 1..Len(pending) /\ pending[Correlated(p, v)].peer = p
<1> DEFINE I == {k \in 1..Len(pending) : pending[k].peer = p
                                         /\ Request(p, pending[k].piv) = Request(p, v)}
<1>1. pending[i].peer = p /\ pending[i].piv = v
    OBVIOUS
<1>2. i \in I /\ I \in SUBSET Nat
    BY <1>1, LenProperties
<1>3. Correlated(p, v) = IF I # {} THEN Min(I) ELSE 0
    BY DEF Correlated, SelectInSeq
<1>4. \A k \in I : k \in 1..Len(pending) /\ pending[k].peer = p
    OBVIOUS
<1> HIDE DEF I
<1> QED
    BY <1>2, <1>3, <1>4, MinIsMember

\* What is left when an entry is removed.
LEMMA Removed ==
    ASSUME NEW S, NEW s \in Seq(S), NEW i \in 1..Len(s)
    PROVE  /\ RemoveAt(s, i) \in Seq(S)
           /\ Len(RemoveAt(s, i)) = Len(s) - 1
           /\ \A k \in 1..(Len(s) - 1) :
                 RemoveAt(s, i)[k] = IF k < i THEN s[k] ELSE s[k + 1]
<1> DEFINE a == SubSeq(s, 1, i - 1)
           b == SubSeq(s, i + 1, Len(s))
<1>1. Len(s) \in Nat
    BY LenProperties
<1>2. \A k \in 1..Len(s) : s[k] \in S
    BY ElementOfSeq
<1>3. a \in Seq(S) /\ Len(a) = i - 1 /\ \A k \in 1..(i - 1) : a[k] = s[k]
    BY <1>1, <1>2, SubSeqProperties
<1>4. b \in Seq(S) /\ Len(b) = Len(s) - i /\ \A k \in 1..(Len(s) - i) : b[k] = s[i + k]
    BY <1>1, <1>2, SubSeqProperties
<1>5. RemoveAt(s, i) = a \o b
    BY DEF RemoveAt
<1> HIDE DEF a, b
<1>6. /\ a \o b \in Seq(S) /\ Len(a \o b) = Len(a) + Len(b)
      /\ \A k \in 1..(Len(a) + Len(b)) :
            (a \o b)[k] = IF k <= Len(a) THEN a[k] ELSE b[k - Len(a)]
    BY <1>3, <1>4, ConcatProperties
<1>7. \A k \in 1..(Len(s) - 1) : (a \o b)[k] = IF k < i THEN s[k] ELSE s[k + 1]
    <2> TAKE k \in 1..(Len(s) - 1)
    <2>1. CASE k < i
        BY <1>1, <1>3, <1>4, <1>6, <2>1
    <2>2. CASE ~ (k < i)
        <3>1. k - Len(a) \in 1..(Len(s) - i) /\ i + (k - Len(a)) = k + 1 /\ ~ (k <= Len(a))
            BY <1>1, <1>3, <2>2
        <3>2. (a \o b)[k] = b[k - Len(a)]
            BY <1>1, <1>3, <1>4, <1>6, <2>2, <3>1
        <3>3. b[k - Len(a)] = s[k + 1]
            BY <1>4, <3>1
        <3> QED
            BY <2>2, <3>2, <3>3
    <2> QED
        BY <2>1, <2>2
<1> QED
    BY <1>1, <1>3, <1>4, <1>5, <1>6, <1>7

\* What is pending once a request is opened: the oldest may have made room.
LEMMA Pended ==
    ASSUME NEW p \in Peers, NEW v \in Nat, pending \in Seq(Opened)
    PROVE  /\ Pend(p, v) \in Seq(Opened)
           /\ \E k \in {0, 1} :
                 LET n == Pend(p, v)
                 IN  /\ Len(n) = Len(pending) - k + 1 /\ Len(n) \in 1..Len(n)
                     /\ n[Len(n)] = [peer |-> p, piv |-> v]
                     /\ \A i \in 1..Len(n) :
                           i # Len(n) => i + k \in 1..Len(pending) /\ n[i] = pending[i + k]
<1> DEFINE e == [peer |-> p, piv |-> v]
           kept == IF Len(pending) = MaxPending THEN Tail(pending) ELSE pending
           k == IF Len(pending) = MaxPending THEN 1 ELSE 0
<1>1. e \in Opened
    BY DEF Opened
<1>2. Len(pending) \in Nat
    BY LenProperties
<1>3. /\ kept \in Seq(Opened) /\ Len(kept) = Len(pending) - k
      /\ \A i \in 1..Len(kept) : i + k \in 1..Len(pending) /\ kept[i] = pending[i + k]
    <2>1. CASE Len(pending) = MaxPending
        <3>1. pending # << >>
            BY <1>2, <2>1, EmptySeq, RequestsAssumption
        <3> QED
            BY <1>2, <2>1, <3>1, HeadTailProperties
    <2>2. CASE Len(pending) # MaxPending
        BY <1>2, <2>2
    <2> QED
        BY <2>1, <2>2
<1>4. Pend(p, v) = kept \o <<e>>
    BY DEF Pend
<1> HIDE DEF e, kept
<1>5. <<e>> \in Seq(Opened) /\ Len(<<e>>) = 1 /\ <<e>>[1] = e
    BY <1>1
<1>6. /\ kept \o <<e>> \in Seq(Opened)
      /\ Len(kept \o <<e>>) = Len(kept) + 1
      /\ \A i \in 1..(Len(kept) + 1) :
            (kept \o <<e>>)[i] = IF i <= Len(kept) THEN kept[i] ELSE <<e>>[i - Len(kept)]
    BY <1>3, <1>5, ConcatProperties
<1>7. Len(kept) \in Nat
    BY <1>3, LenProperties
<1>8. k \in {0, 1}
    OBVIOUS
<1> HIDE DEF k
<1> DEFINE n == kept \o <<e>>
<1>9. Len(n) = Len(pending) - k + 1 /\ Len(n) \in 1..Len(n)
    BY <1>2, <1>3, <1>6, <1>7, <1>8
<1>10. n[Len(n)] = e
    BY <1>5, <1>6, <1>7
<1>11. \A i \in 1..Len(n) : i # Len(n) => i + k \in 1..Len(pending) /\ n[i] = pending[i + k]
    BY <1>3, <1>6, <1>7
<1> HIDE DEF n
<1> QED
    BY <1>4, <1>6, <1>8, <1>9, <1>10, <1>11 DEF n, e

\* A step after which nothing is dispatched, and that leaves what is pending alone.
LEMMA Abandons ==
    ASSUME PendingInv, stage.at # "protected", stage'.at = "idle",
           pending' = pending, answered' = answered, renewed \subseteq renewed',
           \A p, v : HasOpened(p, v) => HasOpened(p, v)'
    PROVE  PendingInv'
<1>1. \A i \in 1..Len(pending) :
         ~ (pending[i].peer \notin renewed /\ <<pending[i].peer, pending[i].piv>> \in answered)
    BY DEF PendingInv
<1>2. \A i \in 1..Len(pending) : HasOpened(pending[i].peer, pending[i].piv)'
    <2> TAKE i \in 1..Len(pending)
    <2>1. PICK p, v : p = pending[i].peer /\ v = pending[i].piv
        OBVIOUS
    <2>2. HasOpened(p, v)'
        BY <2>1 DEF PendingInv
    <2> QED
        BY <2>1, <2>2 DEF HasOpened
<1>3. \A a \in answered : HasOpened(a[1], a[2])'
    BY DEF PendingInv
<1> QED
    BY <1>1, <1>2, <1>3 DEF PendingInv

\* The contexts do not change.
LEMMA SameOpened ==
    ASSUME UNCHANGED <<contexts, renewed>>
    PROVE  /\ \A p, v : HasOpened(p, v) => HasOpened(p, v)'
           /\ renewed \subseteq renewed'
           /\ ContextsInv => ContextsInv'
BY DEF HasOpened, ContextsInv

\* The first states of the gateway.
LEMMA InitGood == Init => GInv
<1> SUFFICES ASSUME Init
             PROVE  GInv
    OBVIOUS
<1>1. Types
    <2>1. << >> \in Seq(Claims)
        BY EmptySeq
    <2> QED
        BY <2>1 DEF Init, Types, Promises
<1>2. StageInv /\ stage.at = "idle"
    BY DEF Init, StageInv, Idle
<1>3. SlotsInv
    <2>1. CoordInv(Fresh, superframe) /\ Fresh.generation = 1 /\ DOMAIN Fresh.claims = {}
        BY FreshIsGood
    <2>2. slots = [memory |-> Fresh, disk |-> Fresh, floor |-> 1]
        BY DEF Init
    <2>3. Kept(Fresh, promised) /\ Respects(Fresh, promised, superframe)
        BY <2>1 DEF Init, Kept, Respects
    <2> QED
        BY <2>1, <2>2, <2>3 DEF SlotsInv
<1>4. RecipientInv
    <2>1. recipient = [state |-> [c \in Peers |-> << >>], floor |-> [c \in Peers |-> << >>],
                       cache |-> << >>]
        BY DEF Init, Recipient!EmptyStore
    <2>2. \A c \in Peers : <<c, EmptyReplay>> \in Knows(served)
        BY DEF Init, Knows, EmptyReplay, ReplayStates
    <2> QED
        BY <2>1, <2>2, EmptyKeeps DEF RecipientInv
<1>5. SenderInv
    <2>1. sender = [state |-> [c \in Peers |-> << >>], floor |-> [c \in Peers |-> << >>],
                    cache |-> << >>]
        BY DEF Init, Sender!EmptyStore
    <2>2. \A c \in Peers : <<c, 0>> \in Beyond(used)
        BY DEF Init, Beyond
    <2> QED
        BY <2>1, <2>2, EmptyKeeps DEF SenderInv
<1>6. ContextsInv
    BY DEF Init, ContextsInv
<1>7. PendingInv
    <2>1. pending = << >> /\ Len(pending) = 0 /\ pending \in Seq(Opened) /\ answered = {}
        BY EmptySeq DEF Init
    <2> QED
        BY <1>2, <2>1 DEF PendingInv
<1> QED
    BY <1>1, <1>2, <1>3, <1>4, <1>5, <1>6, <1>7 DEF GInv

\* The peers send.
LEMMA SendStep ==
    ASSUME GInv, NEW p \in Peers, Send(p)
    PROVE  GInv'
<1>1. PICK r \in NewRequests(p) : requests' = [requests EXCEPT ![p] = Append(@, r)]
    BY DEF Send
<1>2. requests[p] \in Seq(Claims) /\ superframe \in Nat
    BY DEF GInv, Types
<1>3. Len(requests[p]) \in Nat
    BY <1>2, LenProperties
<1>4. requests[p] # << >> => Last(requests[p]) \in Claims
    <2>1. requests[p] # << >> => Len(requests[p]) \in 1..Len(requests[p])
        BY <1>2, <1>3, EmptySeq
    <2> QED
        BY <1>2, <2>1, ElementOfSeq DEF Last
<1>5. NextSeq(p) \in Nat \ {0}
    BY <1>4 DEF NextSeq, Claims
<1>6. r \in Claims
    <2>1. CASE r \in [slots : ClaimSlots[p], superframe : {superframe}, seq : {NextSeq(p)}]
        <3>1. ClaimSlots[p] \subseteq SUBSET SlotSet
            BY RequestsAssumption
        <3> QED
            BY <1>2, <1>5, <2>1, <3>1 DEF Claims
    <2>2. CASE requests[p] # << >> /\ r = Last(requests[p])
        BY <1>4, <2>2
    <2> QED
        BY <1>1, <2>1, <2>2 DEF NewRequests
<1>7. requests' \in [Peers -> Seq(Claims)]
    <2>1. Append(requests[p], r) \in Seq(Claims)
        BY <1>2, <1>6, AppendProperties
    <2> QED
        BY <1>1, <2>1 DEF GInv, Types
<1>8. /\ stage = Idle /\ stage.at = "idle"
      /\ UNCHANGED <<superframe, slots, up, stage, recipient, sender, contexts, pending, served,
                     used, promised, answered, renewed>>
    BY DEF Send, Idle, oscore, ghosts
<1>9. Types'
    BY <1>7, <1>8 DEF GInv, Types
<1>10. StageInv'
    BY <1>8 DEF StageInv
<1>11. ContextsInv' /\ PendingInv'
    BY <1>8, Abandons, SameOpened DEF GInv
<1> QED
    BY <1>8, <1>9, <1>10, <1>11 DEF GInv, SlotsInv, RecipientInv, SenderInv

\* A superframe ends: no claim on record is for the next one.
LEMMA SuperframeStep ==
    ASSUME GInv, NextSuperframe
    PROVE  GInv'
<1>1. /\ superframe' = superframe + 1 /\ superframe \in Nat
      /\ stage.at = "idle"
      /\ UNCHANGED <<requests, slots, up, stage, recipient, sender, contexts, pending, served,
                     used, promised, answered, renewed>>
    BY DEF NextSuperframe, Idle, oscore, ghosts, GInv, Types
<1>2. ASSUME NEW c, CoordInv(c, superframe)
      PROVE  CoordInv(c, superframe') /\ Respects(c, promised', superframe')
    <2>1. \A g \in DOMAIN c.claims : /\ c.claims[g].superframe \in Nat
                                     /\ c.claims[g].superframe <= superframe
        BY <1>2 DEF CoordInv, Claims
    <2>2. \A g \in DOMAIN c.claims : /\ c.claims[g].superframe <= superframe'
                                     /\ c.claims[g].superframe # superframe'
        BY <1>1, <2>1
    <2>3. CoordInv(c, superframe')
        BY <1>2, <2>2 DEF CoordInv
    <2> QED
        BY <2>2, <2>3 DEF Respects
<1>3. SlotsInv'
    BY <1>1, <1>2 DEF GInv, SlotsInv
<1>4. Types' /\ StageInv'
    BY <1>1 DEF GInv, Types, StageInv
<1>5. ContextsInv' /\ PendingInv'
    BY <1>1, Abandons, SameOpened DEF GInv
<1> QED
    BY <1>1, <1>3, <1>4, <1>5 DEF GInv, RecipientInv, SenderInv

\* A context is installed: that of another peer stays, and so does a first one.
LEMMA InstallStep ==
    ASSUME GInv, NEW p \in Peers, Install(p)
    PROVE  GInv'
<1>1. /\ UNCHANGED <<requests, superframe, recipient, slots, up, pending, stage, served, used,
                     promised, answered>>
      /\ stage.at = "idle"
    BY DEF Install, Idle
<1>2. SenderInv'
    BY SenderInstalls DEF GInv
<1>3. Types' /\ StageInv'
    BY <1>1 DEF GInv, Types, StageInv
<1>4. SlotsInv' /\ RecipientInv'
    BY <1>1 DEF GInv, SlotsInv, RecipientInv
<1>5. \/ UNCHANGED <<contexts, renewed>>
      \/ \E n : /\ contexts' = Put(contexts, p, [opened |-> {}, next |-> n])
                /\ renewed' = renewed \union (DOMAIN contexts \intersect {p})
    BY DEF Install
<1>6. /\ \A q, v : HasOpened(q, v) => HasOpened(q, v)'
      /\ renewed \subseteq renewed'
      /\ ContextsInv'
    <2>1. CASE UNCHANGED <<contexts, renewed>>
        BY <2>1, SameOpened DEF GInv
    <2>2. ASSUME NEW n, contexts' = Put(contexts, p, [opened |-> {}, next |-> n]),
                 renewed' = renewed \union (DOMAIN contexts \intersect {p})
          PROVE  <1>6!1 /\ <1>6!2 /\ <1>6!3
        <3>1. /\ DOMAIN contexts' = DOMAIN contexts \union {p}
              /\ contexts' = [x \in DOMAIN contexts' |-> contexts'[x]]
              /\ contexts'[p] = [opened |-> {}, next |-> n]
              /\ \A q \in DOMAIN contexts : q # p => contexts'[q] = contexts[q]
            BY <2>2 DEF Put
        <3>2. ContextsInv'
            BY <3>1 DEF GInv, ContextsInv
        <3>3. ASSUME NEW q, NEW v, HasOpened(q, v)
              PROVE  HasOpened(q, v)'
            BY <2>2, <3>1, <3>3 DEF HasOpened
        <3> QED
            BY <2>2, <3>2, <3>3
    <2> QED
        BY <1>5, <2>1, <2>2
<1>7. PendingInv'
    BY <1>1, <1>6, Abandons DEF GInv
<1> QED
    BY <1>2, <1>3, <1>4, <1>6, <1>7 DEF GInv

\* A request is opened, and becomes the last one that is pending.
LEMMA Opens ==
    ASSUME ContextsInv, PendingInv, NEW p \in Peers, NEW v \in Nat, stage.at = "idle",
           p \in DOMAIN contexts, v \notin contexts[p].opened, Open(p, v),
           UNCHANGED <<answered, renewed>>,
           \/ stage'.at = "idle"
           \/ stage'.at = "accepted" /\ stage'.peer = p /\ stage'.piv = v
    PROVE  ContextsInv' /\ PendingInv'
<1> DEFINE n == Pend(p, v)
           e == [peer |-> p, piv |-> v]
<1>1. contexts' = [contexts EXCEPT ![p].opened = @ \union {v}] /\ pending' = n
    BY DEF Open
<1>2. /\ contexts' = [x \in DOMAIN contexts' |-> contexts'[x]]
      /\ DOMAIN contexts' = DOMAIN contexts
      /\ contexts'[p] = [opened |-> contexts[p].opened \union {v}, next |-> contexts[p].next]
      /\ \A q \in DOMAIN contexts : q # p => contexts'[q] = contexts[q]
    <2>1. PICK o, x : o = contexts[p].opened /\ x = contexts[p].next
                      /\ contexts[p] = [opened |-> o, next |-> x]
        BY DEF ContextsInv
    <2> DEFINE c == [opened |-> o \union {v}, next |-> x]
    <2>4. [contexts[p] EXCEPT !.opened = contexts[p].opened \union {v}] = c
        BY <2>1
    <2>2. contexts' = [contexts EXCEPT ![p] = c]
        BY <1>1, <2>4
    <2> HIDE DEF c
    <2>3. /\ contexts' = [y \in DOMAIN contexts' |-> contexts'[y]]
          /\ DOMAIN contexts' = DOMAIN contexts
          /\ contexts'[p] = c
          /\ \A q \in DOMAIN contexts : q # p => contexts'[q] = contexts[q]
        BY <2>2
    <2> QED
        BY <2>1, <2>3 DEF c
<1>3. ContextsInv'
    BY <1>2 DEF ContextsInv
<1>4. contexts'[p].opened = contexts[p].opened \union {v}
    BY <1>2
<1>5. HasOpened(p, v)' /\ \A q, w : HasOpened(q, w) => HasOpened(q, w)'
    BY <1>2, <1>4 DEF HasOpened
<1>6. pending \in Seq(Opened)
    BY DEF PendingInv
<1>7. n \in Seq(Opened)
    BY <1>6, Pended
<1>8. PICK k \in {0, 1} :
         /\ Len(n) = Len(pending) - k + 1 /\ Len(n) \in 1..Len(n)
         /\ n[Len(n)] = e
         /\ \A i \in 1..Len(n) :
               i # Len(n) => i + k \in 1..Len(pending) /\ n[i] = pending[i + k]
    BY <1>6, Pended
<1>9. e.peer = p /\ e.piv = v
    OBVIOUS
<1> HIDE DEF n, e
<1>10. ~ HasOpened(p, v) \/ p \in renewed
    BY DEF HasOpened
<1>11. \A i \in 1..Len(pending) : pending[i].peer \notin renewed => pending[i] # e
    BY <1>9, <1>10 DEF PendingInv
<1>12. \A i, j \in 1..Len(n) : n[i] = n[j] /\ n[i].peer \notin renewed => i = j
    <2> SUFFICES ASSUME NEW i \in 1..Len(n), NEW j \in 1..Len(n), n[i] = n[j],
                        n[i].peer \notin renewed
                 PROVE  i = j
        OBVIOUS
    <2>1. CASE i # Len(n) /\ j # Len(n)
        <3>1. /\ i + k \in 1..Len(pending) /\ j + k \in 1..Len(pending)
              /\ pending[i + k] = pending[j + k] /\ pending[i + k].peer \notin renewed
            BY <1>8, <2>1
        <3>2. i + k = j + k
            BY <3>1 DEF PendingInv
        <3> QED
            BY <3>2
    <2>2. CASE i = Len(n) \/ j = Len(n)
        BY <1>8, <1>11, <2>2
    <2> QED
        BY <2>1, <2>2
<1>13. \A i \in 1..Len(n) : \E q, w : q = n[i].peer /\ w = n[i].piv /\ HasOpened(q, w)'
    <2> TAKE i \in 1..Len(n)
    <2>1. CASE i = Len(n)
        BY <1>5, <1>8, <1>9, <2>1
    <2>2. CASE i # Len(n)
        <3>1. i + k \in 1..Len(pending) /\ n[i] = pending[i + k]
            BY <1>8, <2>2
        <3>2. HasOpened(pending[i + k].peer, pending[i + k].piv)
            BY <3>1 DEF PendingInv
        <3>3. PICK q, w : q = pending[i + k].peer /\ w = pending[i + k].piv
            OBVIOUS
        <3>4. HasOpened(q, w)'
            BY <1>5, <3>2, <3>3
        <3> QED
            BY <3>1, <3>3, <3>4
    <2> QED
        BY <2>1, <2>2
<1>14. \A i \in 1..Len(n) :
          ~ (n[i].peer \notin renewed /\ <<n[i].peer, n[i].piv>> \in answered)
    <2> TAKE i \in 1..Len(n)
    <2>1. CASE i = Len(n)
        <3>1. <<p, v>> \in answered => HasOpened(p, v)
            BY DEF PendingInv
        <3> QED
            BY <1>8, <1>9, <1>10, <2>1, <3>1
    <2>2. CASE i # Len(n)
        BY <1>8, <2>2 DEF PendingInv
    <2> QED
        BY <2>1, <2>2
<1>15. \A a \in answered : HasOpened(a[1], a[2])'
    BY <1>5 DEF PendingInv
<1>16. stage'.at # "idle" =>
          \E i \in 1..Len(n) : n[i] = [peer |-> stage'.peer, piv |-> stage'.piv]
    BY <1>8 DEF e
<1>17. \A i \in 1..Len(n) : (n[i].peer \notin renewed' =>
           n[i].peer \in DOMAIN contexts' /\ n[i].piv \in contexts'[n[i].peer].opened)
    BY <1>13 DEF HasOpened
<1>18. PendingInv'
    BY <1>1, <1>7, <1>12, <1>14, <1>15, <1>16, <1>17 DEF PendingInv, HasOpened
<1> QED
    BY <1>3, <1>18

\* A request is refused, or opened and accepted.
LEMMA AdmitStep ==
    ASSUME GInv, NEW p \in Peers, NEW v \in DOMAIN requests[p], Admit(p, v)
    PROVE  GInv' /\ (stage'.at = "accepted" => <<stage'.peer, stage'.piv>> \notin served)
<1>1. v \in Nat
    <2>1. requests[p] \in Seq(Claims)
        BY DEF GInv, Types
    <2>2. v \in 1..Len(requests[p])
        BY <2>1, LenProperties
    <2> QED
        BY <2>2
<1>2. RecipientInv' /\ (stage' # stage => <<p, v>> \notin served)
    BY <1>1, RecipientAdmits DEF GInv
<1>3. /\ up /\ stage.at = "idle"
      /\ UNCHANGED <<requests, superframe, sender, slots, up, used, promised>>
    BY DEF Admit, Idle
<1>4. SlotsInv' /\ SenderInv'
    BY <1>3 DEF GInv, SlotsInv, SenderInv
<1>5. UNCHANGED <<answered, renewed>> /\ p \in DOMAIN contexts
    BY DEF Admit
<1>6. \/ UNCHANGED <<contexts, pending, stage, served>>
      \/ /\ Open(p, v) /\ v \notin contexts[p].opened
         /\ \/ UNCHANGED <<stage, served>>
            \/ /\ served' = served \union {<<p, v>>}
               /\ stage' = [at |-> "accepted", peer |-> p, piv |-> v, superframe |-> superframe]
    <2>1. PICK l \in Recipient!Load(recipient, p) :
             IF ~ l.ok \/ IsReplay(l.state[1], v) \/ v \in contexts[p].opened
             THEN Consumed(l.store) /\ Noted(l.ok)
             ELSE Accept(p, v, l)
        BY DEF Admit
    <2>2. CASE ~ l.ok \/ IsReplay(l.state[1], v) \/ v \in contexts[p].opened
        BY <2>1, <2>2 DEF Consumed
    <2>3. CASE ~ (~ l.ok \/ IsReplay(l.state[1], v) \/ v \in contexts[p].opened)
        BY <2>1, <2>3 DEF Accept
    <2> QED
        BY <2>2, <2>3
<1>7. CASE UNCHANGED <<contexts, pending, stage, served>>
    <2>1. ContextsInv' /\ PendingInv'
        BY <1>3, <1>5, <1>7, Abandons, SameOpened DEF GInv
    <2> QED
        BY <1>2, <1>3, <1>4, <1>7, <2>1 DEF GInv, Types, StageInv
<1>8. CASE Open(p, v) /\ v \notin contexts[p].opened /\ UNCHANGED <<stage, served>>
    <2>1. ContextsInv' /\ PendingInv'
        BY <1>1, <1>3, <1>5, <1>8, Opens DEF GInv
    <2> QED
        BY <1>2, <1>3, <1>4, <1>8, <2>1 DEF GInv, Types, StageInv
<1>9. CASE /\ Open(p, v) /\ v \notin contexts[p].opened
           /\ served' = served \union {<<p, v>>}
           /\ stage' = [at |-> "accepted", peer |-> p, piv |-> v, superframe |-> superframe]
    <2>1. /\ stage'.at = "accepted" /\ stage'.peer = p /\ stage'.piv = v
          /\ stage'.superframe = superframe
        BY <1>9
    <2>2. StageInv'
        BY <1>3, <2>1 DEF StageInv
    <2>3. Types'
        BY <1>1, <1>3, <1>9 DEF GInv, Types
    <2>4. ContextsInv' /\ PendingInv'
        BY <1>1, <1>3, <1>5, <1>9, <2>1, Opens DEF GInv
    <2>5. <<p, v>> \notin served
        <3>1. stage' # stage
            BY <1>3, <2>1
        <3> QED
            BY <1>2, <3>1
    <2> QED
        BY <1>2, <1>4, <2>1, <2>2, <2>3, <2>4, <2>5 DEF GInv
<1> QED
    BY <1>6, <1>7, <1>8, <1>9

\* A request is dropped, or its answer is not sent: it stays pending.
LEMMA GiveUpStep ==
    ASSUME GInv, Drop \/ Unsent
    PROVE  GInv' /\ stage'.at = "idle"
<1>1. /\ stage.at # "protected" /\ stage'.at = "idle"
      /\ UNCHANGED <<requests, superframe, recipient, sender, slots, up, contexts, pending,
                     served, used, promised, answered, renewed>>
    BY DEF Drop, Unsent, Idle, oscore, ghosts
<1>2. Types' /\ StageInv'
    BY <1>1 DEF GInv, Types, StageInv
<1>3. SlotsInv' /\ RecipientInv' /\ SenderInv'
    BY <1>1 DEF GInv, SlotsInv, RecipientInv, SenderInv
<1>4. ContextsInv' /\ PendingInv'
    BY <1>1, Abandons, SameOpened DEF GInv
<1> QED
    BY <1>1, <1>2, <1>3, <1>4 DEF GInv

\* The resource answers.
LEMMA HandleStep ==
    ASSUME GInv, Handle
    PROVE  GInv' /\ stage'.at = "handled"
<1>1. SlotsInv' /\ StageInv' /\ promised' \in Promises
    BY HandleKeeps DEF GInv
<1>2. /\ stage.at = "accepted"
      /\ UNCHANGED <<requests, superframe, up, recipient, sender, contexts, pending, served, used,
                     answered, renewed>>
    BY DEF Handle, oscore
<1>3. \E code : stage' = [at |-> "handled", peer |-> stage.peer, piv |-> stage.piv, answer |-> code]
    BY DEF Handle, HandleClaim, CommitClaim, RateLimited, Answer
<1>4. stage'.at = "handled" /\ stage'.peer = stage.peer /\ stage'.piv = stage.piv
    BY <1>3
<1>5. Types'
    BY <1>1, <1>2 DEF GInv, Types
<1>6. RecipientInv' /\ SenderInv' /\ ContextsInv'
    BY <1>2 DEF GInv, RecipientInv, SenderInv, ContextsInv
<1>7. PendingInv'
    BY <1>2, <1>4 DEF GInv, PendingInv, HasOpened
<1> QED
    BY <1>1, <1>4, <1>5, <1>6, <1>7 DEF GInv

\* The contexts after a reservation have opened what they had.
LEMMA ReservedContexts ==
    ASSUME ContextsInv, NEW p, NEW n, UNCHANGED renewed,
           contexts' = [contexts EXCEPT ![p].next = n]
    PROVE  ContextsInv' /\ \A q, v : HasOpened(q, v) => HasOpened(q, v)'
<1>1. /\ contexts' = [x \in DOMAIN contexts' |-> contexts'[x]]
      /\ DOMAIN contexts' = DOMAIN contexts
      /\ p \in DOMAIN contexts => contexts'[p] = [opened |-> contexts[p].opened, next |-> n]
      /\ \A q \in DOMAIN contexts : q # p => contexts'[q] = contexts[q]
    <2>1. CASE p \in DOMAIN contexts
        <3>1. PICK o, x : o = contexts[p].opened /\ contexts[p] = [opened |-> o, next |-> x]
            BY <2>1 DEF ContextsInv
        <3> DEFINE c == [opened |-> o, next |-> n]
        <3>4. [contexts[p] EXCEPT !.next = n] = c
            BY <3>1
        <3>2. contexts' = [contexts EXCEPT ![p] = c]
            BY <3>4
        <3> HIDE DEF c
        <3>3. /\ contexts' = [y \in DOMAIN contexts' |-> contexts'[y]]
              /\ DOMAIN contexts' = DOMAIN contexts
              /\ contexts'[p] = c
              /\ \A q \in DOMAIN contexts : q # p => contexts'[q] = contexts[q]
            BY <2>1, <3>2
        <3> QED
            BY <3>1, <3>3 DEF c
    <2>2. CASE p \notin DOMAIN contexts
        BY <2>2 DEF ContextsInv
    <2> QED
        BY <2>1, <2>2
<1>2. \A q \in DOMAIN contexts : contexts'[q].opened = contexts[q].opened
    BY <1>1
<1>3. ContextsInv'
    BY <1>1 DEF ContextsInv
<1> QED
    BY <1>1, <1>2, <1>3 DEF HasOpened

\* A response is bound to a pending request, to which none was bound before.
LEMMA Binds ==
    ASSUME PendingInv, StageInv, stage.at = "handled", Protect(stage.peer, stage.piv, contexts[stage.peer].next),
           UNCHANGED <<requests, pending, renewed>>,
           \A q, v : HasOpened(q, v) => HasOpened(q, v)'
    PROVE  /\ PendingInv'
           /\ stage'.peer \notin renewed => <<stage'.peer, stage'.under>> \notin answered
<1> DEFINE p == stage.peer
           v == stage.piv
           c == Correlated(p, v)
           u == pending[c].piv
<1>1. /\ stage'.at = "protected" /\ stage'.peer = p /\ stage'.piv = v /\ stage'.under = u
      /\ answered' = answered \union {<<p, u>>}
    BY DEF Protect
<1>2. PICK i \in 1..Len(pending) : pending[i] = [peer |-> p, piv |-> v]
    BY DEF PendingInv
<1>3. pending \in Seq(Opened)
    BY DEF PendingInv
<1>4. c \in 1..Len(pending) /\ pending[c].peer = p
    BY <1>2, <1>3, FirstPending
<1>5. p \in Peers /\ \A k \in 1..Len(pending) : pending[k] \in Opened
    BY <1>3, ElementOfSeq DEF StageInv
<1>6. Correlated(stage.peer, stage.piv)' = c
    BY <1>1 DEF Correlated, SelectInSeq, Request
<1> HIDE DEF p, v, c
<1>7. \A k \in 1..Len(pending) : pending[k].peer = p /\ pending[k].piv = u => pending[k] = pending[c]
    BY <1>4, <1>5 DEF Opened
<1> HIDE DEF u
<1>8. \A k \in 1..Len(pending) :
         ~ (pending[k].peer \notin renewed /\ <<pending[k].peer, pending[k].piv>> \in answered)
    BY DEF PendingInv
<1>9. p \notin renewed => <<p, u>> \notin answered
    BY <1>4, <1>8 DEF u
<1>10. \A k \in 1..Len(pending) :
          pending[k].peer \notin renewed /\ <<pending[k].peer, pending[k].piv>> \in answered' => k = c
    <2> SUFFICES ASSUME NEW k \in 1..Len(pending), pending[k].peer \notin renewed,
                        <<pending[k].peer, pending[k].piv>> \in answered'
                 PROVE  k = c
        OBVIOUS
    <2>1. pending[k].peer = p /\ pending[k].piv = u
        BY <1>1, <1>8
    <2>2. pending[k] = pending[c]
        BY <1>7, <2>1
    <2> QED
        BY <1>4, <2>2 DEF PendingInv
<1>11. HasOpened(p, u)
    BY <1>4 DEF PendingInv, u
<1>12. \A a \in answered' : \E q, w : q = a[1] /\ w = a[2] /\ HasOpened(q, w)'
    <2>1. \A a \in answered : HasOpened(a[1], a[2])
        BY DEF PendingInv
    <2>2. PICK q, w : q = p /\ w = u /\ HasOpened(q, w)
        BY <1>11
    <2>3. HasOpened(q, w)'
        BY <2>2
    <2>4. ASSUME NEW a \in answered'
          PROVE  \E x, y : x = a[1] /\ y = a[2] /\ HasOpened(x, y)'
        <3>1. CASE a \in answered
            BY <2>1, <3>1
        <3>2. CASE a = <<q, w>>
            BY <2>3, <3>2
        <3> QED
            BY <1>1, <2>2, <3>1, <3>2
    <2> QED
        BY <2>4
<1>13. \A k \in 1..Len(pending) : \E q, w : q = pending[k].peer /\ w = pending[k].piv /\ HasOpened(q, w)'
    BY DEF PendingInv
<1>14. PendingInv'
    <2>1. \A a \in answered' : HasOpened(a[1], a[2])'
        BY <1>12 DEF HasOpened
    <2>2. \A k \in 1..Len(pending) : (pending[k].peer \notin renewed' =>
             pending[k].peer \in DOMAIN contexts' /\ pending[k].piv \in contexts'[pending[k].peer].opened)
        BY <1>13 DEF HasOpened
    <2>3. \E k \in 1..Len(pending) : pending[k] = [peer |-> stage'.peer, piv |-> stage'.piv]
        BY <1>1, <1>2
    <2>4. \A k \in 1..Len(pending) :
             pending[k].peer \notin renewed /\ <<pending[k].peer, pending[k].piv>> \in answered'
             => stage'.at = "protected" /\ k = Correlated(stage.peer, stage.piv)'
        BY <1>1, <1>6, <1>10
    <2> QED
        BY <1>3, <2>1, <2>2, <2>3, <2>4 DEF PendingInv, HasOpened
<1> QED
    BY <1>1, <1>9, <1>14

\* The number of the response is reserved, and the response protected or not.
LEMMA ReserveStep ==
    ASSUME GInv, Reserve
    PROVE  /\ GInv' /\ stage'.at \in {"idle", "protected"}
           /\ stage'.at = "protected" =>
                 /\ <<stage'.peer, stage'.nonce>> \notin used
                 /\ stage'.peer \notin renewed => <<stage'.peer, stage'.under>> \notin answered
<1> DEFINE p == stage.peer
           v == stage.piv
           n == contexts[p].next
<1>1. /\ SenderInv' /\ used' \subseteq Peers \X Nat
      /\ stage'.at = "protected" => <<stage'.peer, stage'.nonce>> \notin used
    BY SenderReserves DEF GInv
<1>2. /\ stage.at = "handled"
      /\ UNCHANGED <<requests, superframe, recipient, slots, up, pending, served, promised, renewed>>
    BY DEF Reserve
<1>3. /\ contexts' = contexts \/ contexts' = [contexts EXCEPT ![p].next = n + 1]
      /\ Protect(p, v, n) \/ GiveUp
    BY DEF Reserve
<1>4. ContextsInv' /\ \A q, w : HasOpened(q, w) => HasOpened(q, w)'
    <2>1. CASE contexts' = contexts
        BY <1>2, <2>1, SameOpened DEF GInv
    <2>2. CASE contexts' = [contexts EXCEPT ![p].next = n + 1]
        BY <1>2, <2>2, ReservedContexts DEF GInv
    <2> QED
        BY <1>3, <2>1, <2>2
<1>5. SlotsInv' /\ RecipientInv'
    BY <1>2 DEF GInv, SlotsInv, RecipientInv
<1>6. Types'
    BY <1>1, <1>2 DEF GInv, Types
<1>7. CASE Protect(p, v, n)
    <2>1. stage'.at = "protected" /\ stage'.peer = p /\ stage'.piv = v
        BY <1>7 DEF Protect
    <2>2. StageInv'
        BY <1>2, <2>1 DEF GInv, StageInv
    <2>3. /\ PendingInv'
          /\ stage'.peer \notin renewed => <<stage'.peer, stage'.under>> \notin answered
        BY <1>2, <1>4, <1>7, Binds DEF GInv
    <2> QED
        BY <1>1, <1>4, <1>5, <1>6, <2>1, <2>2, <2>3 DEF GInv
<1>8. CASE GiveUp
    <2>1. stage'.at = "idle" /\ answered' = answered
        BY <1>8 DEF GiveUp, Idle
    <2>2. StageInv' /\ PendingInv'
        BY <1>2, <1>4, <2>1, Abandons DEF GInv, StageInv
    <2> QED
        BY <1>1, <1>4, <1>5, <1>6, <2>1, <2>2 DEF GInv
<1> QED
    BY <1>3, <1>7, <1>8

\* The response is transmitted, or not; the request it is bound to is removed.
LEMMA TransmitStep ==
    ASSUME GInv, Transmit
    PROVE  GInv' /\ stage'.at = "idle"
<1> DEFINE c == Correlated(stage.peer, stage.piv)
           m == RemoveAt(pending, c)
<1>1. /\ stage.at = "protected" /\ stage'.at = "idle" /\ pending' = m
      /\ UNCHANGED <<requests, superframe, recipient, sender, slots, up, contexts, served, used,
                     promised, answered, renewed>>
    BY DEF Transmit, Idle, ghosts
<1>2. Types' /\ StageInv' /\ ContextsInv'
    BY <1>1 DEF GInv, Types, StageInv, ContextsInv
<1>3. SlotsInv' /\ RecipientInv' /\ SenderInv'
    BY <1>1 DEF GInv, SlotsInv, RecipientInv, SenderInv
<1>4. PendingInv /\ pending \in Seq(Opened) /\ Len(pending) \in Nat
    BY LenProperties DEF GInv, PendingInv
<1>5. PICK i \in 1..Len(pending) : pending[i] = [peer |-> stage.peer, piv |-> stage.piv]
    BY <1>1, <1>4 DEF PendingInv
<1>6. c \in 1..Len(pending)
    BY <1>4, <1>5, FirstPending
<1>7. /\ m \in Seq(Opened) /\ Len(m) = Len(pending) - 1
      /\ \A k \in 1..(Len(pending) - 1) : m[k] = IF k < c THEN pending[k] ELSE pending[k + 1]
    <2> HIDE DEF c
    <2> QED
        BY <1>4, <1>6, Removed
<1>8. \A k \in 1..Len(pending) :
         pending[k].peer \notin renewed /\ <<pending[k].peer, pending[k].piv>> \in answered => k = c
    BY <1>4 DEF PendingInv
<1> HIDE DEF c, m
<1> DEFINE At(k) == IF k < c THEN k ELSE k + 1
<1>9. \A k \in 1..Len(m) : /\ At(k) \in 1..Len(pending) /\ At(k) # c
                            /\ m[k] = pending[At(k)]
    BY <1>4, <1>6, <1>7
<1>10. \A j, k \in 1..Len(m) : At(j) = At(k) => j = k
    BY <1>4, <1>6, <1>7
<1> HIDE DEF At
<1>11. \A j, k \in 1..Len(m) : m[j] = m[k] /\ m[j].peer \notin renewed => j = k
    <2> SUFFICES ASSUME NEW j \in 1..Len(m), NEW k \in 1..Len(m), m[j] = m[k],
                        m[j].peer \notin renewed
                 PROVE  j = k
        OBVIOUS
    <2>1. At(j) = At(k)
        BY <1>4, <1>9 DEF PendingInv
    <2> QED
        BY <1>10, <2>1
<1>12. \A k \in 1..Len(m) : HasOpened(m[k].peer, m[k].piv)
    BY <1>4, <1>9 DEF PendingInv
<1>13. \A k \in 1..Len(m) : ~ (m[k].peer \notin renewed /\ <<m[k].peer, m[k].piv>> \in answered)
    BY <1>8, <1>9
<1>14. PendingInv'
    BY <1>1, <1>4, <1>7, <1>11, <1>12, <1>13 DEF PendingInv, HasOpened
<1> QED
    BY <1>1, <1>2, <1>3, <1>14 DEF GInv

\* The process is lost: the files are all that is left.
LEMMA CrashStep ==
    ASSUME GInv, Crash
    PROVE  GInv' /\ stage'.at = "idle"
<1>1. /\ up' = FALSE /\ pending' = << >> /\ stage'.at = "idle"
      /\ contexts' = << >> /\ answered' = {} /\ renewed' = {}
      /\ slots' = [slots EXCEPT !.memory = Fresh]
      /\ recipient' = [recipient EXCEPT !.cache = << >>]
      /\ sender' = [sender EXCEPT !.cache = << >>]
      /\ UNCHANGED <<requests, superframe, served, used, promised>>
    BY DEF Crash, Idle, Recipient!Reopened, Sender!Reopened
<1>2. Types' /\ StageInv'
    BY <1>1 DEF GInv, Types, StageInv
<1>7. ContextsInv'
    BY <1>1 DEF ContextsInv
<1>3. RecipientInv'
    BY <1>1, ReopenKeeps DEF GInv, RecipientInv
<1>4. SenderInv'
    BY <1>1, ReopenKeeps DEF GInv, SenderInv
<1>5. SlotsInv'
    <2>1. slots' = [memory |-> Fresh, disk |-> slots.disk, floor |-> slots.floor]
        BY <1>1 DEF GInv, SlotsInv
    <2>2. CoordInv(Fresh, superframe)
        BY FreshIsGood
    <2> QED
        BY <1>1, <2>1, <2>2 DEF GInv, SlotsInv
<1>6. PendingInv'
    <2>1. Len(<< >>) = 0 /\ << >> \in Seq(Opened)
        BY EmptySeq
    <2> QED
        BY <1>1, <2>1 DEF PendingInv
<1> QED
    BY <1>1, <1>2, <1>3, <1>4, <1>5, <1>6, <1>7 DEF GInv

\* A process starts from the files.
LEMMA StartStep ==
    ASSUME GInv, Start
    PROVE  GInv' /\ stage' = stage
<1>1. /\ up' = TRUE /\ slots' = [slots EXCEPT !.memory = slots.disk] /\ stage' = stage
      /\ UNCHANGED <<requests, superframe, recipient, sender, contexts, pending, served, used,
                     promised, answered, renewed>>
    BY DEF Start, oscore, ghosts
<1>2. slots' = [memory |-> slots.disk, disk |-> slots.disk, floor |-> slots.floor]
    BY <1>1 DEF GInv, SlotsInv
<1>3. slots.disk.generation \in Nat
    BY DEF GInv, SlotsInv, CoordInv
<1>4. SlotsInv'
    BY <1>1, <1>2, <1>3 DEF GInv, SlotsInv
<1>5. Types' /\ StageInv' /\ RecipientInv' /\ SenderInv' /\ ContextsInv'
    BY <1>1 DEF GInv, Types, StageInv, RecipientInv, SenderInv, ContextsInv
<1>6. PendingInv'
    <2>1. stage.at = "idle"
        BY DEF Start, GInv, StageInv
    <2> QED
        BY <1>1, <2>1, Abandons, SameOpened DEF GInv
<1> QED
    BY <1>1, <1>4, <1>5, <1>6 DEF GInv

\* Every step keeps the invariant; a request that comes to a resource is new, and so
\* are the number of a response and the request it is bound to.
LEMMA GInvStep ==
    ASSUME GInv, [Next]_vars
    PROVE  /\ GInv'
           /\ stage'.at = "accepted" /\ stage.at # "accepted"
                 => <<stage'.peer, stage'.piv>> \notin served
           /\ stage'.at = "protected" /\ stage.at # "protected" =>
                 /\ <<stage'.peer, stage'.nonce>> \notin used
                 /\ stage'.peer \notin renewed => <<stage'.peer, stage'.under>> \notin answered
<1>1. ASSUME NEW p \in Peers, Send(p)
      PROVE  GInv' /\ stage' = stage
    BY <1>1, SendStep DEF Send
<1>2. ASSUME NEW p \in Peers, Install(p)
      PROVE  GInv' /\ stage' = stage
    BY <1>2, InstallStep DEF Install
<1>3. ASSUME NEW p \in Peers, NEW v \in DOMAIN requests[p], Admit(p, v)
      PROVE  /\ GInv' /\ stage'.at # "protected"
             /\ stage'.at = "accepted" => <<stage'.peer, stage'.piv>> \notin served
    <2>1. stage' = stage \/ stage'.at = "accepted"
        BY <1>3 DEF Admit, Consumed, Accept
    <2>2. stage.at = "idle"
        BY <1>3 DEF Admit, Idle
    <2> QED
        BY <1>3, <2>1, <2>2, AdmitStep
<1>4. CASE NextSuperframe
    BY <1>4, SuperframeStep DEF NextSuperframe
<1>5. CASE Handle
    BY <1>5, HandleStep
<1>11. CASE Drop \/ Unsent
    BY <1>11, GiveUpStep
<1>6. CASE Reserve
    BY <1>6, ReserveStep
<1>7. CASE Transmit
    BY <1>7, TransmitStep
<1>8. CASE Crash
    BY <1>8, CrashStep
<1>9. CASE Start
    BY <1>9, StartStep
<1>10. CASE UNCHANGED vars
    <2>1. UNCHANGED <<requests, superframe, recipient, sender, slots, up, contexts, pending, stage,
                      served, used, promised, answered, renewed>>
        BY <1>10 DEF vars, oscore, ghosts
    <2>2. Types' /\ StageInv' /\ SlotsInv' /\ RecipientInv' /\ SenderInv' /\ ContextsInv'
        BY <2>1 DEF GInv, Types, StageInv, SlotsInv, RecipientInv, SenderInv, ContextsInv
    <2>3. PendingInv'
        BY <2>1 DEF GInv, PendingInv, HasOpened, Correlated, SelectInSeq, Request
    <2> QED
        BY <2>1, <2>2, <2>3 DEF GInv
<1> QED
    BY <1>1, <1>2, <1>3, <1>4, <1>5, <1>6, <1>7, <1>8, <1>9, <1>10, <1>11 DEF Next

-----------------------------------------------------------------------------
(* The invariant holds of every reachable state, for any gateways, claims,  *)
(* capacities, window, and number of requests, crashes and failed writes.   *)
THEOREM Invariant == Spec => []GInv
<1>1. GInv /\ [Next]_vars => GInv'
    BY GInvStep
<1> QED
    BY InitGood, <1>1, PTL DEF Spec

(* StoresReadable: whatever writes failed and wherever the process was lost, *)
(* the next one can read every context's records and the coordinator: a file *)
(* is written before its floor, and never with a state older than the floor. *)
THEOREM Readable == Spec => []StoresReadable
<1>1. GInv => StoresReadable
    <2> SUFFICES ASSUME GInv
                 PROVE  StoresReadable
        OBVIOUS
    <2>1. FloorBehind(recipient, NotOlderReplay) /\ FloorBehind(sender, NotOlderSequence)
        BY DEF GInv, RecipientInv, SenderInv, StoreInv
    <2>2. Recipient!Readable(recipient)
        BY <2>1 DEF FloorBehind, NotOlderReplay, Recipient!Readable, Recipient!Corrupt
    <2>3. Sender!Readable(sender)
        BY <2>1 DEF FloorBehind, NotOlderSequence, Sender!Readable, Sender!Corrupt
    <2>4. Loadable(slots)
        <3>1. CoordInv(slots.disk, superframe) /\ slots.floor \in Nat
              /\ slots.floor <= slots.disk.generation
            BY DEF GInv, SlotsInv
        <3>2. Valid(slots.disk)
            BY <3>1, CoordValid
        <3> QED
            BY <3>1, <3>2 DEF Loadable, CoordInv
    <2> QED
        BY <2>2, <2>3, <2>4 DEF StoresReadable
<1> QED
    BY <1>1, Invariant, PTL

(* PromisesKept: a claim answered with success or with a conflict is spent in *)
(* the file and in the running process, after any failed commit and crash.    *)
THEOREM Promised == Spec => []PromisesKept
<1>1. GInv => PromisesKept
    BY DEF GInv, SlotsInv, Kept, PromisesKept
<1> QED
    BY <1>1, Invariant, PTL

(* ClaimsRespected: the gateway owns no slot of a recorded claim for the       *)
(* current superframe that has the lower IID or was answered with success.     *)
THEOREM Respected == Spec => []ClaimsRespected
<1>1. GInv => ClaimsRespected
    BY DEF GInv, SlotsInv, Respects, ClaimsRespected
<1> QED
    BY <1>1, Invariant, PTL

(* CandidatesValid: the coordinator never composes a state that its own        *)
(* validation refuses.                                                         *)
THEOREM AlwaysValid == Spec => []CandidatesValid
<1>1. GInv => CandidatesValid
    BY DEF GInv, StageInv, CandidatesValid
<1> QED
    BY <1>1, Invariant, PTL

(* ServedOnce: a request reaches a resource at most once in the life of the    *)
(* files, however often it is delivered and whatever the cache forgets.        *)
THEOREM AtMostOnce == Spec => ServedOnce
<1>1. GInv /\ [Next]_vars => [stage'.at = "accepted" /\ stage.at # "accepted"
                                 => <<stage'.peer, stage'.piv>> \notin served]_vars
    BY GInvStep
<1> QED
    BY <1>1, Invariant, PTL DEF Spec, ServedOnce

(* NonceFresh: no two responses to a peer are protected under one sequence     *)
(* number, over crashes, failed writes and evictions.                          *)
THEOREM NoncesFresh == Spec => NonceFresh
<1>1. GInv /\ [Next]_vars => [stage'.at = "protected" /\ stage.at # "protected"
                                 => <<stage'.peer, stage'.nonce>> \notin used]_vars
    BY GInvStep
<1> QED
    BY <1>1, Invariant, PTL DEF Spec, NonceFresh

(* AnsweredOnce: while a peer has its first context, no two responses are      *)
(* bound to one request, whatever else is opened, abandoned or evicted: what   *)
(* a response was bound to is no longer pending, and is not opened again.      *)
THEOREM BoundOnce == Spec => AnsweredOnce
<1>1. GInv /\ [Next]_vars =>
         [stage'.at = "protected" /\ stage.at # "protected" /\ stage'.peer \notin renewed
             => <<stage'.peer, stage'.under>> \notin answered]_vars
    BY GInvStep
<1> QED
    BY <1>1, Invariant, PTL DEF Spec, AnsweredOnce
=============================================================================
