----------------------------- MODULE HeaderKeeper ---------------------------
(***************************************************************************)
(* The x/header module's keeper: at the beginning of every block it prunes *)
(* old header hashes and saves the hash of the current header.  Heights    *)
(* are unsigned with a fixed width.  The header of a height is abstracted  *)
(* to a hash that is no other header's; the store is the keeper's own.     *)
(* (The module is written but SimApp's app.go has it commented out.)       *)
(***************************************************************************)
EXTENDS Integers

CONSTANTS
    RetentionPeriod,   \* params.go: 10000
    Bits,              \* width of a height (64 in the code)
    InitialHeights,    \* heights a chain may start at
    MaxHeight,         \* bound: the last block
    MaxExports         \* bound: exports of the chain

ASSUME KeeperAssumption ==
    /\ Bits \in Nat /\ MaxHeight \in Nat /\ MaxExports \in Nat
    /\ MaxHeight < 2^Bits
    /\ RetentionPeriod \in 1..(2^Bits - 1)
    /\ InitialHeights \subseteq Nat \ {0}

VARIABLES
    height,     \* height of the last block begun, one less than the first before
    initial,    \* height of the first block since genesis
    exports,    \* exports so far
    saved       \* the store: height -> header hash

vars == <<height, initial, exports, saved>>

\* A header's hash, which is no other header's.
HeaderHash(h) == -h

Init ==
    /\ initial \in InitialHeights
    /\ height = initial - 1
    /\ exports = 0
    /\ saved = [h \in {} |-> HeaderHash(h)]

\* The highest key of the store.
GetLatestSavedBlockHeight == CHOOSE h \in DOMAIN saved : \A k \in DOMAIN saved : k <= h

\* Faulty variant of the next definition: one header too few.
MinHeightToRetainOff == (GetLatestSavedBlockHeight - RetentionPeriod + 1) % 2^Bits

MinHeightToRetain == (GetLatestSavedBlockHeight - RetentionPeriod) % 2^Bits

\* What PruneHeaders leaves: it deletes in ascending order and stops at the first
\* height to retain.
PruneHeaders ==
    IF saved = [h \in {} |-> HeaderHash(h)] THEN {}
    ELSE {h \in DOMAIN saved : \E k \in DOMAIN saved : k <= h /\ k >= MinHeightToRetain}

SaveHeaderHash(kept, h) ==
    saved' = [k \in kept \cup {h} |-> IF k = h THEN HeaderHash(h) ELSE saved[k]]

\* Faulty variant of the next definition: save, then prune.
BeginBlockerSavesFirst ==
    LET min == (height + 1 - RetentionPeriod) % 2^Bits
    IN  /\ height < MaxHeight
        /\ height' = height + 1
        /\ saved' = [h \in {k \in DOMAIN saved \cup {height + 1} : k >= min} |-> HeaderHash(h)]
        /\ UNCHANGED <<initial, exports>>

\* BeginBlocker: prune, then save.
BeginBlocker ==
    /\ height < MaxHeight
    /\ height' = height + 1
    /\ SaveHeaderHash(PruneHeaders, height + 1)
    /\ UNCHANGED <<initial, exports>>

\* The chain is exported and started again: ExportGenesis writes no headers and
\* InitGenesis reads none, and the heights go on from the last block or, exported for
\* height zero, start again.
ExportAndInitGenesis ==
    /\ exports < MaxExports
    /\ exports' = exports + 1
    /\ height' \in {height, 0}
    /\ initial' = height' + 1
    /\ saved' = [h \in {} |-> HeaderHash(h)]

Next == BeginBlocker \/ ExportAndInitGenesis

Spec == Init /\ [][Next]_vars

-----------------------------------------------------------------------------
(* Properties.                                                             *)

\* The saved headers are the most recent ones without a hole, the current one
\* included, each with its own hash: pruning stops at the first header it keeps.
SavedIsSuffix ==
    /\ DOMAIN saved \subseteq initial..height
    /\ height >= initial => height \in DOMAIN saved
    /\ \A h \in initial..height :
         (\E k \in DOMAIN saved : k <= h) => h \in DOMAIN saved
    /\ \A h \in DOMAIN saved : saved[h] = HeaderHash(h)

\* The window is exact.  The store never grows beyond the last RetentionPeriod
\* headers and the two that pruning before saving leaves behind, and a header saved
\* from height RetentionPeriod on stays for all of that time.  (Before that height
\* the unsigned difference wraps and pruning deletes every header but the one it is
\* about to save.)
WindowExact ==
    /\ \A h \in DOMAIN saved : h + RetentionPeriod + 1 >= height
    /\ \A h \in initial..height :
         h >= RetentionPeriod /\ h + RetentionPeriod + 1 >= height => h \in DOMAIN saved
=============================================================================
