--------------------------- MODULE SealedRecords ---------------------------
(***************************************************************************)
(* A store of sealed OSCORE records in lichen-gateway/src/gateway.rs: for  *)
(* every context a sealed state file, a sealed floor file in a second      *)
(* root, and a bounded first-in first-out cache of the states in memory.   *)
(* GatewayOscoreSenderStore and GatewayOscoreRecipientStore are the two    *)
(* instances: they differ in the order of their states (Precedes) and in   *)
(* what a context without a record has (Initial).                          *)
(*                                                                         *)
(* A store is [state, floor, cache]; a file is a sequence of at most one   *)
(* sealed state, empty when it does not exist.  A failed FileStorage.write *)
(* leaves its file as it was.  Every operator returns the set of results   *)
(* the calls it stands for may have, a failed write being one of them.     *)
(***************************************************************************)
EXTENDS Naturals, Sequences, SequencesExt

CONSTANTS
    Contexts,        \* the context identifiers
    MaxContexts,     \* MAX_GCP_OSCORE_CONTEXTS, the capacity of the cache
    Initial,         \* the state of a context without a record, if it has one
    Precedes(_, _)   \* the first state is older than the second

\* The files of a gateway that never used a context, and an empty cache.
EmptyStore ==
    [ state |-> [c \in Contexts |-> << >>],
      floor |-> [c \in Contexts |-> << >>],
      cache |-> << >> ]

\* The store of the process that reopens the files.
Reopened(store) == [store EXCEPT !.cache = << >>]

Cached(store, c) == SelectInSeq(store.cache, LAMBDA e : e.context = c)

\* The oldest entry of a full cache makes room for a new one.
Push(cache, c, s) ==
    (IF Len(cache) >= MaxContexts THEN Tail(cache) ELSE cache)
        \o << [context |-> c, state |-> s] >>

Result(store, ok, state) == [store |-> store, ok |-> ok, state |-> state]

Corrupt(store, c) ==
    LET s == store.state[c]
        f == store.floor[c]
    IN  f # << >> /\ (s = << >> \/ Precedes(s[1], f[1]))

(***************************************************************************)
(* Load: from the cache; otherwise from the files, where a floor that is   *)
(* behind the state is written again first.                                *)
(***************************************************************************)
LoadFiles(store, c) ==
    LET s      == store.state[c]
        loaded == [store EXCEPT !.cache = Push(@, c, s[1])]
    IN  IF store.floor[c] = s
        THEN {Result(loaded, TRUE, s)}
        ELSE {Result([loaded EXCEPT !.floor[c] = s], TRUE, s),
              Result(store, FALSE, << >>)}

Load(store, c) ==
    LET i == Cached(store, c)
    IN  IF i # 0
        THEN {Result(store, TRUE, <<store.cache[i].state>>)}
        ELSE IF Corrupt(store, c)
        THEN {Result(store, FALSE, << >>)}
        ELSE IF store.state[c] # << >>
        THEN LoadFiles(store, c)
        ELSE {Result(IF Initial = << >>
                     THEN store
                     ELSE [store EXCEPT !.cache = Push(@, c, Initial[1])],
                     TRUE, Initial)}

(***************************************************************************)
(* Save: the state file, then the floor file, then the cache.              *)
(***************************************************************************)
Remember(cache, i, c, s) ==
    IF i # 0 THEN [cache EXCEPT ![i].state = s] ELSE Push(cache, c, s)

\* MUTANT of Save: the floor is written before the state.
SaveFloorFirst(store, c, s) ==
    LET floored == [store EXCEPT !.floor[c] = <<s>>]
        written == [floored EXCEPT !.state[c] = <<s>>]
    IN  {Result(store, FALSE, << >>), Result(floored, FALSE, << >>),
         Result([written EXCEPT !.cache = Remember(@, Cached(store, c), c, s)],
                TRUE, <<s>>)}

Save(store, c, s) ==
    LET written == [store EXCEPT !.state[c] = <<s>>]
        floored == [written EXCEPT !.floor[c] = <<s>>]
    IN  {Result(store, FALSE, << >>), Result(written, FALSE, << >>),
         Result([floored EXCEPT !.cache = Remember(@, Cached(store, c), c, s)],
                TRUE, <<s>>)}

\* MUTANT of CompareExchange: the reservation is not written to the files.
CompareExchangeVolatile(store, c, expected, next) ==
    { IF ~ l.ok \/ l.state # expected
      THEN Result(l.store, FALSE, << >>)
      ELSE Result([l.store EXCEPT !.cache = Remember(@, Cached(l.store, c), c, next)],
                  TRUE, <<next>>) : l \in Load(store, c) }

(***************************************************************************)
(* compare_exchange_sender.  A context without a record is refused by a    *)
(* full cache.                                                             *)
(***************************************************************************)
CompareExchange(store, c, expected, next) ==
    UNION { IF \/ ~ l.ok
               \/ l.state # expected
               \/ l.state = << >> /\ Len(l.store.cache) >= MaxContexts
            THEN {Result(l.store, FALSE, << >>)}
            ELSE Save(l.store, c, next) : l \in Load(store, c) }

\* Every context either has no record or one that the next process can read.
Readable(store) == \A c \in Contexts : ~ Corrupt(store, c)
=============================================================================
