-------------------------- MODULE GatewayRequests --------------------------
(***************************************************************************)
(* Coordination requests between gateways, as a gateway dispatches them:   *)
(* Gateway::dispatch_runtime_gcp in lichen-gateway/src/gateway.rs with the *)
(* durable OSCORE stores, the slot coordinator, the correlation of         *)
(* requests and responses in lichen-node/src/secure.rs, crashes, restarts,*)
(* and disk writes that fail.                                              *)
(*                                                                         *)
(* The radio network may lose, delay, repeat and reorder requests: what a  *)
(* peer has sent may be delivered at any time, any number of times.  The   *)
(* OSCORE context itself is a library outside the repository: it opens     *)
(* each Partial IV once in its lifetime and reserves a sender sequence     *)
(* number by compare-and-exchange on the store.                            *)
(***************************************************************************)
EXTENDS SlotCoordinator, SequencesExt

CONSTANTS
    Peers,           \* the IIDs of the other gateways
    ClaimSlots,      \* by peer: the sets of slots that it claims (see Routed)
    Window,          \* the width of the replay window (32 in the code)
    MaxContexts,     \* MAX_GCP_OSCORE_CONTEXTS
    MaxPending,      \* MAX_PENDING_REQUESTS
    MaxRequests,     \* bound: the requests that are sent, over all peers
    MaxSuperframe,   \* bound: the superframes
    MaxRenewed,      \* bound: the peers whose context is replaced in a process
    MaxCrashes,      \* bound: the crashes
    MaxFailures      \* bound: the calls that fail by a failed write

ASSUME RequestsAssumption ==
    /\ Peers \subseteq Nat \ {Self}
    /\ IsFiniteSet(Peers)
    /\ ClaimSlots \in [Peers -> SUBSET (SUBSET SlotSet)]
    /\ Window \in Nat \ {0}
    /\ MaxContexts \in Nat \ {0}
    /\ MaxPending \in Nat \ {0}
    /\ {MaxRequests, MaxSuperframe, MaxRenewed, MaxCrashes, MaxFailures} \subseteq Nat

VARIABLES
    requests,    \* by peer: the requests it sent; its Partial IVs count from 1
    superframe,  \* the current superframe
    recipient,   \* GatewayOscoreRecipientStore
    sender,      \* GatewayOscoreSenderStore
    slots,       \* the coordinator: [memory, disk, floor]
    up,          \* the process runs
    contexts,    \* by installed peer: the OSCORE context [opened, next]
    pending,     \* pending_requests: the requests opened and not answered
    stage,       \* how far the dispatch of a request has come
    faults,      \* the crashes and the failed calls so far: [crashes, failures]
    served,      \* the requests dispatched to a resource, <<peer, piv>>
    used,        \* the nonces of the responses so far, <<peer, sequence>>
    promised,    \* by peer: the last claim answered 2.04 or 4.09, and the answer
    answered,    \* the requests that responses were bound to since the start
    renewed      \* the peers whose context was replaced since the start

oscore == <<recipient, sender, contexts, pending>>
ghosts == <<served, used, promised, answered, renewed>>
vars == <<requests, superframe, slots, up, stage, faults, oscore, ghosts>>

\* Whether a call succeeded; a failed one counts against the bound.
Noted(ok) ==
    /\ ok \/ faults.failures < MaxFailures
    /\ faults' = [faults EXCEPT !.failures = IF ok THEN @ ELSE @ + 1]

Idle == [at |-> "idle"]

(***************************************************************************)
(* The two stores.                                                         *)
(***************************************************************************)
EmptyReplay == [highest |-> 0, window |-> {}, initialized |-> FALSE]

\* GatewayOscoreRecipientStore::precedes
ReplayPrecedes(s, f) ==
    \/ ~ s.initialized /\ f.initialized
    \/ s.initialized = f.initialized /\ s.highest < f.highest
    \/ f.initialized /\ s.highest = f.highest /\ ~ (f.window \subseteq s.window)

\* sender_state_precedes of states that are not exhausted
SequencePrecedes(s, f) == s < f

Recipient == INSTANCE SealedRecords WITH
    Contexts <- Peers, Initial <- <<EmptyReplay>>, Precedes <- ReplayPrecedes

Sender == INSTANCE SealedRecords WITH
    Contexts <- Peers, Initial <- << >>, Precedes <- SequencePrecedes

\* MUTANT of IsReplay: what fell out of the window is taken for new.
IsReplayAge(s, v) ==
    /\ s.initialized
    /\ v <= s.highest
    /\ s.highest - v \in s.window

\* GatewayOscoreRecipientStore::is_replay
IsReplay(s, v) ==
    /\ s.initialized
    /\ v <= s.highest
    /\ s.highest - v >= Window \/ s.highest - v \in s.window

\* The replay state after GatewayOscoreRecipientStore::accept
Accepted(s, v) ==
    IF ~ s.initialized \/ v > s.highest
    THEN [highest |-> v,
          window |-> {0} \union IF s.initialized
                                THEN {d + v - s.highest : d \in s.window} \intersect 0..(Window - 1)
                                ELSE {},
          initialized |-> TRUE]
    ELSE [s EXCEPT !.window = @ \union {s.highest - v}]

-----------------------------------------------------------------------------
Init ==
    /\ requests = [p \in Peers |-> << >>]
    /\ superframe = 1
    /\ recipient = Recipient!EmptyStore
    /\ sender = Sender!EmptyStore
    /\ slots = [memory |-> Fresh, disk |-> Fresh, floor |-> 1]
    /\ up = TRUE
    /\ contexts = << >>
    /\ pending = << >>
    /\ stage = Idle
    /\ faults = [crashes |-> 0, failures |-> 0]
    /\ served = {}
    /\ used = {}
    /\ promised = [p \in Peers |-> [seq |-> 0, answer |-> "none"]]
    /\ answered = {}
    /\ renewed = {}

(***************************************************************************)
(* The peers.  A new claim takes the next claim sequence (ClaimSeqStore);  *)
(* a request that was not answered is posted again under a new Partial IV. *)
(***************************************************************************)
NextSeq(p) == IF requests[p] = << >> THEN 1 ELSE Last(requests[p]).seq + 1

NewRequests(p) ==
    [slots : ClaimSlots[p], superframe : {superframe}, seq : {NextSeq(p)}]
        \union (IF requests[p] = << >> THEN {} ELSE {Last(requests[p])})

Sent == FoldFunction(LAMBDA r, n : Len(r) + n, 0, requests)

\* (Sending while a request is dispatched changes nothing for the dispatch.)
Send(p) ==
    /\ up
    /\ stage = Idle
    /\ Sent < MaxRequests
    /\ \E r \in NewRequests(p) : requests' = [requests EXCEPT ![p] = Append(@, r)]
    /\ UNCHANGED <<superframe, slots, up, stage, faults, oscore, ghosts>>

\* (What passes while the gateway is down may as well pass after its start.)
NextSuperframe ==
    /\ up
    /\ superframe < MaxSuperframe
    /\ stage = Idle
    /\ superframe' = superframe + 1
    /\ UNCHANGED <<requests, slots, up, stage, faults, oscore, ghosts>>

(***************************************************************************)
(* install_gcp_context: a context without a record is registered, another  *)
(* one restored with its stored sequence number and an empty replay window.*)
(* It replaces the context of a peer that has one; what was opened under   *)
(* that one stays pending.                                                 *)
(***************************************************************************)
Registered(p) ==
    UNION { IF ~ l.ok \/ l.state # << >>
            THEN {l}
            ELSE Sender!CompareExchange(l.store, p, << >>, 0) : l \in Sender!Load(sender, p) }

Install(p) ==
    /\ up
    /\ stage = Idle
    /\ p \in DOMAIN contexts => Cardinality(renewed \union {p}) <= MaxRenewed
    /\ \E r \in Registered(p) :
          /\ sender' = r.store
          /\ Noted(r.ok)
          /\ IF r.ok
             THEN /\ contexts' = Put(contexts, p, [opened |-> {}, next |-> r.state[1]])
                  /\ renewed' = renewed \union (DOMAIN contexts \intersect {p})
             ELSE UNCHANGED <<contexts, renewed>>
    /\ UNCHANGED <<requests, superframe, recipient, slots, up, pending, stage,
                   served, used, promised, answered>>

(***************************************************************************)
(* Admission: the replay check, the opening of the request, which leaves   *)
(* it pending, and its durable acceptance.                                 *)
(***************************************************************************)
Pend(p, v) ==
    (IF Len(pending) = MaxPending THEN Tail(pending) ELSE pending)
        \o <<[peer |-> p, piv |-> v]>>

Consumed(store) ==
    /\ recipient' = store
    /\ UNCHANGED <<contexts, pending, stage, served>>

\* The library opens a request once, and records what it opened.
Open(p, v) ==
    /\ contexts' = [contexts EXCEPT ![p].opened = @ \union {v}]
    /\ pending' = Pend(p, v)

Accept(p, v, loaded) ==
    \E r \in Recipient!Save(loaded.store, p, Accepted(loaded.state[1], v)) :
        /\ Open(p, v)
        /\ recipient' = r.store
        /\ Noted(r.ok)
        /\ IF r.ok
           THEN /\ stage' = [at |-> "accepted", peer |-> p, piv |-> v,
                             superframe |-> superframe]
                /\ served' = served \union {<<p, v>>}
           ELSE UNCHANGED <<stage, served>>

Admit(p, v) ==
    /\ up
    /\ stage = Idle
    /\ p \in DOMAIN contexts
    /\ \E l \in Recipient!Load(recipient, p) :
          IF ~ l.ok \/ IsReplay(l.state[1], v) \/ v \in contexts[p].opened
          THEN /\ Consumed(l.store)
               /\ Noted(l.ok)
          ELSE Accept(p, v, l)
    /\ UNCHANGED <<requests, superframe, sender, slots, up, used, promised, answered, renewed>>

(***************************************************************************)
(* The resource.  A request for a path or with a method that the gateway   *)
(* does not have is dropped, and stays pending.  A claim over the rate limit  *)
(* is dropped behind an answer that looks like success; one whose state    *)
(* cannot be saved is an error.  (A read of a resource is answered like a  *)
(* claim that is refused: it changes nothing.)                             *)
(***************************************************************************)
Request(p, v) == requests[p][v]

\* A request without slots stands for one that names no resource.
Routed(request) == request.slots # {}

Drop ==
    /\ stage.at = "accepted"
    /\ ~ Routed(Request(stage.peer, stage.piv))
    /\ stage' = Idle
    /\ UNCHANGED <<requests, superframe, slots, up, faults, oscore, ghosts>>

Answer(code) == stage' = [at |-> "handled", peer |-> stage.peer, piv |-> stage.piv, answer |-> code]

Promise(p, claim, code) ==
    promised' = IF code \in {"changed", "conflict"}
                THEN [promised EXCEPT ![p] = [seq |-> claim.seq, answer |-> code]]
                ELSE promised

CommitClaim(p, claim, outcome) ==
    \E r \in Commit(slots, outcome.next) :
        LET code == IF r.ok THEN outcome.answer
                    ELSE IF Valid(outcome.next) THEN "error" ELSE "invalid"
        IN  /\ slots' = r.slots
            /\ Answer(code)
            /\ Promise(p, claim, code)
            /\ Noted(r.ok)

HandleClaim(p, claim) ==
    LET outcome == PostSlots(slots.memory, p, claim, stage.superframe)
    IN  \/ /\ outcome.next = slots.memory
           /\ Answer(outcome.answer)
           /\ UNCHANGED <<slots, promised, faults>>
        \/ /\ outcome.next # slots.memory
           /\ CommitClaim(p, claim, outcome)

RateLimited ==
    /\ Answer("empty")
    /\ UNCHANGED <<slots, promised, faults>>

Handle ==
    /\ stage.at = "accepted"
    /\ Routed(Request(stage.peer, stage.piv))
    /\ HandleClaim(stage.peer, Request(stage.peer, stage.piv)) \/ RateLimited
    /\ UNCHANGED <<requests, superframe, up, oscore, served, used, answered, renewed>>

(***************************************************************************)
(* The response: correlated with the first pending request that is equal,  *)
(* protected under a sequence number reserved in the store, transmitted.   *)
(* Each step before the transmission may be the last: there is no route to *)
(* the peer or the response does not fit (Unsent), the reservation fails,  *)
(* the protection or the encoding fails after it.  The request then stays  *)
(* pending.                                                                *)
(***************************************************************************)
Correlated(p, v) ==
    SelectInSeq(pending, LAMBDA e : e.peer = p /\ Request(p, e.piv) = Request(p, v))

Unsent ==
    /\ stage.at = "handled"
    /\ stage' = Idle
    /\ UNCHANGED <<requests, superframe, slots, up, faults, oscore, ghosts>>

GiveUp ==
    /\ stage' = Idle
    /\ UNCHANGED answered

Protect(p, v, n) ==
    LET under == pending[Correlated(p, v)].piv
    IN  /\ stage' = [at |-> "protected", peer |-> p, piv |-> v, nonce |-> n, under |-> under]
        /\ answered' = answered \union {<<p, under>>}

Reserve ==
    /\ stage.at = "handled"
    /\ LET p == stage.peer
           n == contexts[p].next
       IN  \E r \in Sender!CompareExchange(sender, p, <<n>>, n + 1) :
              /\ sender' = r.store
              /\ Noted(r.ok)
              /\ IF r.ok
                 THEN /\ contexts' = [contexts EXCEPT ![p].next = n + 1]
                      /\ used' = used \union {<<p, n>>}
                      /\ Protect(p, stage.piv, n) \/ GiveUp
                 ELSE /\ GiveUp
                      /\ UNCHANGED <<contexts, used>>
    /\ UNCHANGED <<requests, superframe, recipient, slots, up, pending, served, promised, renewed>>

\* MUTANT of Transmit: a response that is not sent leaves its request pending.
TransmitSent ==
    /\ stage.at = "protected"
    /\ \/ pending' = RemoveAt(pending, Correlated(stage.peer, stage.piv))
       \/ UNCHANGED pending
    /\ stage' = Idle
    /\ UNCHANGED <<requests, superframe, recipient, sender, slots, up, contexts, faults, ghosts>>

\* Sent or not, the response leaves no pending request behind.
Transmit ==
    /\ stage.at = "protected"
    /\ pending' = RemoveAt(pending, Correlated(stage.peer, stage.piv))
    /\ stage' = Idle
    /\ UNCHANGED <<requests, superframe, recipient, sender, slots, up, contexts, faults, ghosts>>

(***************************************************************************)
(* A crash loses what is in memory; a restart loads the coordinator.       *)
(***************************************************************************)
Crash ==
    /\ up
    /\ faults.crashes < MaxCrashes
    /\ faults' = [faults EXCEPT !.crashes = @ + 1]
    /\ up' = FALSE
    /\ recipient' = Recipient!Reopened(recipient)
    /\ sender' = Sender!Reopened(sender)
    /\ slots' = [slots EXCEPT !.memory = Fresh]
    /\ contexts' = << >>
    /\ pending' = << >>
    /\ stage' = Idle
    /\ answered' = {}
    /\ renewed' = {}
    /\ UNCHANGED <<requests, superframe, served, used, promised>>

Start ==
    /\ ~ up
    /\ Loadable(slots)
    /\ up' = TRUE
    /\ slots' = [slots EXCEPT !.memory = slots.disk]
    /\ UNCHANGED <<requests, superframe, stage, faults, oscore, ghosts>>

Next ==
    \/ \E p \in Peers : Send(p) \/ Install(p)
    \/ \E p \in Peers : \E v \in DOMAIN requests[p] : Admit(p, v)
    \/ NextSuperframe
    \/ Drop
    \/ Handle
    \/ Unsent
    \/ Reserve
    \/ Transmit
    \/ Crash
    \/ Start

Spec == Init /\ [][Next]_vars

-----------------------------------------------------------------------------
(***************************************************************************)
(* A request reaches a resource at most once, whatever the network         *)
(* repeats, whenever the gateway crashes, and however contexts come and go *)
(* in the cache of the recipient store.                                    *)
(***************************************************************************)
ServedOnce ==
    [][stage'.at = "accepted" /\ stage.at # "accepted"
          => <<stage'.peer, stage'.piv>> \notin served]_vars

(***************************************************************************)
(* No two responses to a peer are protected under one sequence number,     *)
(* over crashes, failed writes and evictions from the sender store.        *)
(***************************************************************************)
NonceFresh ==
    [][stage'.at = "protected" /\ stage.at # "protected"
          => <<stage'.peer, stage'.nonce>> \notin used]_vars

(***************************************************************************)
(* After any crash and any failed write the next process can read every    *)
(* context's records and the coordinator's state: no floor is ahead.       *)
(***************************************************************************)
StoresReadable ==
    Recipient!Readable(recipient) /\ Sender!Readable(sender) /\ Loadable(slots)

(***************************************************************************)
(* A claim that was answered with success or with a conflict is not        *)
(* forgotten: its sequence is spent in the file and in the running process.*)
(***************************************************************************)
PromisesKept ==
    \A p \in Peers : promised[p].seq > 0 =>
        \A c \in {slots.disk} \union (IF up THEN {slots.memory} ELSE {}) :
            p \in DOMAIN c.seen /\ c.seen[p].seq >= promised[p].seq

(***************************************************************************)
(* In the current superframe the gateway owns no slot that the recorded    *)
(* claim of a gateway with a lower IID takes (the lower IID wins), nor one *)
(* of a claim that it answered with success, also after it yields to a     *)
(* third gateway and looks for other slots.                                *)
(***************************************************************************)
ClaimsRespected ==
    LET c == slots.memory
    IN  up => \A p \in DOMAIN c.claims :
           /\ c.claims[p].superframe = superframe
           /\ p < Self \/ promised[p] = [seq |-> c.claims[p].seq, answer |-> "changed"]
           => c.claims[p].slots \intersect OwnedSlots(c) = {}

(***************************************************************************)
(* The coordinator never composes a state that its own validation refuses: *)
(* such a claim could never be committed, however often it were repeated.  *)
(***************************************************************************)
CandidatesValid == stage.at = "handled" => stage.answer # "invalid"

(***************************************************************************)
(* While a peer's context is the one the process installed first, no two   *)
(* responses are bound to one request: a response that was transmitted, or *)
(* failed to be, leaves nothing that a later equal request could be bound  *)
(* to, however many requests were opened, abandoned and evicted between.   *)
(* (It may be bound to an equal earlier request that was given up.)        *)
(***************************************************************************)
AnsweredOnce ==
    [][stage'.at = "protected" /\ stage.at # "protected" /\ stage'.peer \notin renewed
          => <<stage'.peer, stage'.under>> \notin answered]_vars
=============================================================================
