------------------------------ MODULE PathSync ------------------------------
(***************************************************************************)
(* How long a root can refuse a leaf that keeps sending fresh DAOs.  The    *)
(* 64-bit origin sequence is durable, but the Path Sequence the root also   *)
(* compares is kept in RAM on both sides: a rebooted leaf starts again at   *)
(* 240 (DaoManager::new), a rebooted root has none, and every DAO that is   *)
(* lost or whose build fails still advances the leaf.  DAOs arrive in order *)
(* here: an overtaken one is refused by its origin sequence (see DaoRoot).  *)
(***************************************************************************)
EXTENDS Lollipop

CONSTANT MaxLost     \* losses since the route was last refreshed

VARIABLES
    leaf,        \* path_sequence of the leaf's DaoManager
    root,        \* path_seq_map entry of the leaf at the root, or NoEntry
    refused,     \* DAOs delivered since the last refresh, or the leaf's reboot
    lost         \* DAOs lost since then

syncVars == <<leaf, root, refused, lost>>

NoEntry == -1

SyncInit ==
    /\ leaf = Start
    /\ root = NoEntry
    /\ refused = 0
    /\ lost = 0

\* build_dao_with_lifetime advances the counter before it encodes.
Built == IncrementLollipop(leaf)

\* process_dao_inner: no entry, or a newer sequence, installs the path.
Installs == root = NoEntry \/ SeqIsNewer(Built, root)

\* The DAO reaches the root and (re)installs the path.
Install ==
    /\ Installs
    /\ leaf' = Built
    /\ root' = Built
    /\ refused' = 0
    /\ lost' = 0

\* The DAO reaches the root and does not: an older or incomparable sequence,
\* or an equal one, which is rejected when it carries another parent and is
\* an idempotent copy that leaves the old deadline when it carries the same.
Refuse ==
    /\ ~Installs
    /\ leaf' = Built
    /\ refused' = refused + 1
    /\ UNCHANGED <<root, lost>>

\* The DAO is lost, or its signing or finalizing fails after the increment.
Lose ==
    /\ lost < MaxLost
    /\ leaf' = Built
    /\ lost' = lost + 1
    /\ UNCHANGED <<root, refused>>

LeafReboot ==
    /\ leaf' = Start
    /\ refused' = 0
    /\ lost' = 0
    /\ UNCHANGED root

RootReboot ==
    /\ root' = NoEntry
    /\ UNCHANGED <<leaf, refused, lost>>

SyncNext == Install \/ Refuse \/ Lose \/ LeafReboot \/ RootReboot

SyncSpec == SyncInit /\ [][SyncNext]_syncVars

-----------------------------------------------------------------------------
\* As long as fewer than Window - 1 DAOs are lost, a leaf is refused at most
\* Window + 1 times before a DAO installs its path, whenever either side
\* reboots; one or two losses more can make the counters incomparable, and it
\* is refused for up to a whole turn of the circular region.
StallBounded ==
    /\ lost < Window - 1 => refused <= Window + 1
    /\ lost <= Window => refused <= Circular + 1
=============================================================================
