------------------------------- MODULE Indexer ------------------------------
(***************************************************************************)
(* The indexer (indexer/main.go): it follows Celestia's headers, finds the *)
(* EVM blocks posted at each height and keeps, in a bolt database, the map *)
(* from EVM block number to Celestia height that the evm-prover asks for.  *)
(*                                                                         *)
(* The main loop and the backfill goroutines that connectClient starts run *)
(* concurrently, and a backfill outlives the connection it was started     *)
(* for.  Each of them runs processHeight, whose database transactions      *)
(* interleave.  The process may be killed at any time and is restarted, or *)
(* is stopped by a signal: then the context of every call is cancelled and *)
(* main waits for the loop and the API server, not for the backfills.  A   *)
(* connection may break; a call of the node or the database, and the API   *)
(* server, may fail.                                                       *)
(***************************************************************************)
EXTENDS Integers, Sequences, FiniteSetsExt

CONSTANTS
    EvmBlocks,       \* EVM block numbers that may be posted
    BlobSets,        \* the sets of blobs a Celestia height may have; 0 is no EVM block
    MaxBackfill,     \* maxBackfill: how far back a backfill goes
    Bits,            \* width of a height (64 in the code)
    ApiBits,         \* width of the block number the API parses (16 in the code)
    MaxHeight,       \* bound: Celestia heights
    MaxDisconnects,  \* bound: broken connections
    MaxCrashes,      \* bound: restarts of the process
    MaxFailures,     \* bound: failures of node, database and API server
    MaxFaults        \* bound: all of these together

\* A blob of the namespace that does not decode to an EVM block.
Junk == 0

ASSUME IndexerAssumption ==
    /\ BlobSets \subseteq SUBSET (EvmBlocks \cup {Junk})
    /\ Bits \in Nat /\ MaxHeight \in Nat /\ MaxBackfill \in Nat
    /\ MaxHeight < 2^Bits - 1
    /\ MaxBackfill < 2^Bits

VARIABLES
    posted,          \* Celestia height -> the EVM blocks posted there
    db,              \* EVM block number -> Celestia height
    lastProcessed,   \* last_processed_height in the database, 0 if none
    lost,            \* EVM blocks whose mapping the database once refused
    proc,            \* "run", "stopping" after a signal, or "exited"
    api,             \* whether the API server runs
    conn,            \* the main loop: "down", "subscribing", "up", or "stopped"
    lastHeight,      \* what connectClient read before it subscribed
    headerChan,      \* headers not yet taken by the main loop
    tasks,           \* 0: the main loop; others: backfill goroutines
    disconnects, crashes, failures   \* what went wrong so far

faultVars == <<disconnects, crashes, failures>>
procVars == <<proc, api>>
vars == <<posted, db, lastProcessed, lost, procVars, conn, lastHeight, headerChan, tasks, faultVars>>

Backfills == 1..(MaxDisconnects + MaxCrashes + 1)
Idle == [phase |-> "idle", height |-> 0, latest |-> 0, blobs |-> {}]
Fetching(start, end) == [Idle EXCEPT !.phase = "fetch", !.height = start, !.latest = end]

\* Unsigned arithmetic.
U(n) == n % 2^Bits

Set(f, k, v) == [f EXCEPT ![k] = v]

Init ==
    /\ posted = <<>>
    /\ db = [b \in {} |-> 0]
    /\ lastProcessed = 0
    /\ lost = {}
    /\ proc = "run"
    /\ api = TRUE
    /\ conn = "down"
    /\ lastHeight = 0
    /\ headerChan = <<>>
    /\ tasks = [s \in {0} \cup Backfills |-> Idle]
    /\ disconnects = 0
    /\ crashes = 0
    /\ failures = 0

-----------------------------------------------------------------------------
(* The environment.                                                        *)

FaultAllowed == disconnects + crashes + failures < MaxFaults

\* Celestia commits a block; a subscriber is told.
CelestiaBlock(blocks) ==
    /\ Len(posted) < MaxHeight
    /\ posted' = Append(posted, blocks)
    /\ headerChan' = IF conn = "up" THEN Append(headerChan, Len(posted) + 1) ELSE headerChan
    /\ UNCHANGED <<db, lastProcessed, lost, procVars, conn, lastHeight, tasks, faultVars>>

\* The subscription ends: the main loop sees its channel closed.  What was not
\* delivered is lost; backfills go on.
Disconnect ==
    /\ conn = "up"
    /\ tasks[0] = Idle
    /\ disconnects < MaxDisconnects /\ FaultAllowed
    /\ disconnects' = disconnects + 1
    /\ conn' = "down"
    /\ headerChan' = <<>>
    /\ UNCHANGED <<posted, lost, procVars, db, lastProcessed, lastHeight, tasks, crashes, failures>>

\* The process dies, or was stopped, and is started again: main opens the database
\* as it is and starts both services.
Restart ==
    /\ crashes < MaxCrashes /\ FaultAllowed
    /\ crashes' = crashes + 1
    /\ proc' = "run"
    /\ api' = TRUE
    /\ conn' = "down"
    /\ lastHeight' = 0
    /\ headerChan' = <<>>
    /\ tasks' = [s \in DOMAIN tasks |-> Idle]
    /\ UNCHANGED <<posted, lost, db, lastProcessed, disconnects, failures>>

\* A call of the Celestia node or the database fails.
Failure ==
    /\ failures < MaxFailures /\ FaultAllowed
    /\ failures' = failures + 1
    /\ UNCHANGED <<disconnects, crashes>>

\* A call of the node fails by itself, or because its context is cancelled.
FailureOrCancelled == IF proc = "run" THEN Failure ELSE UNCHANGED faultVars

\* Blobs of a height that has no block cannot be fetched.
NoBlockOrFailure(height) ==
    IF height \in DOMAIN posted THEN FailureOrCancelled ELSE UNCHANGED faultVars

-----------------------------------------------------------------------------
(* connectClient.                                                          *)

ReadLastProcessed ==
    /\ conn = "down"
    /\ conn' = "subscribing"
    /\ lastHeight' = lastProcessed
    /\ UNCHANGED <<posted, lost, procVars, db, lastProcessed, headerChan, tasks, faultVars>>

\* Subscribe; with a last processed height, start a backfill.
Subscribe ==
    /\ conn = "subscribing"
    /\ proc = "run"
    /\ conn' = "up"
    /\ IF lastHeight > 0
       THEN LET s == Min({i \in Backfills : tasks[i] = Idle})
            IN  tasks' = Set(tasks, s, [Idle EXCEPT !.phase = "latest",
                                                   !.height = U(lastHeight + 1)])
       ELSE UNCHANGED tasks
    /\ UNCHANGED <<posted, lost, procVars, db, lastProcessed, lastHeight, headerChan, faultVars>>

\* The node refuses; the loop will try again.
SubscribeFails ==
    /\ conn = "subscribing"
    /\ FailureOrCancelled
    /\ conn' = "down"
    /\ UNCHANGED <<posted, lost, procVars, db, lastProcessed, lastHeight, headerChan, tasks>>

\* Faulty variant of the next definition: one height skipped.
BackfillRangeSkips(start, latest) == start + 1

\* The backfill goroutine asks for the latest header and limits its range; the
\* differences are unsigned.
BackfillRange(start, latest) ==
    IF U(latest - start) > MaxBackfill THEN U(latest - MaxBackfill) ELSE start

BackfillLatest(s) ==
    /\ tasks[s].phase = "latest"
    /\ proc = "run"
    /\ LET latest == Len(posted)
           start == BackfillRange(tasks[s].height, latest)
       IN  tasks' = Set(tasks, s, IF start <= latest THEN Fetching(start, latest) ELSE Idle)
    /\ UNCHANGED <<posted, lost, procVars, db, lastProcessed, conn, lastHeight, headerChan,
                   faultVars>>

BackfillLatestFails(s) ==
    /\ tasks[s].phase = "latest"
    /\ FailureOrCancelled
    /\ tasks' = Set(tasks, s, Idle)
    /\ UNCHANGED <<posted, lost, procVars, db, lastProcessed, conn, lastHeight, headerChan>>

-----------------------------------------------------------------------------
(* The main loop and processHeight.                                        *)

TakeHeader ==
    /\ conn = "up"
    /\ tasks[0] = Idle
    /\ headerChan # <<>>
    /\ headerChan' = Tail(headerChan)
    /\ tasks' = Set(tasks, 0, Fetching(Head(headerChan), Head(headerChan)))
    /\ UNCHANGED <<posted, lost, procVars, db, lastProcessed, conn, lastHeight, faultVars>>

\* A task is done with its height.
Advance(s) ==
    tasks' = Set(tasks, s,
               IF tasks[s].height < tasks[s].latest
               THEN Fetching(tasks[s].height + 1, tasks[s].latest)
               ELSE Idle)

\* decodeRollkitBlock, decodeEthBlockNumber.
Decoded(blobs) == blobs \ {Junk}

\* processHeight fetches the blobs of its height; those that do not decode to an
\* EVM block, or have no transaction, are skipped ...
GetAll(s) ==
    /\ tasks[s].phase = "fetch"
    /\ proc = "run"
    /\ tasks[s].height \in DOMAIN posted
    /\ tasks' = [tasks EXCEPT ![s].phase = "store", ![s].blobs = Decoded(posted[tasks[s].height])]
    /\ UNCHANGED <<posted, lost, procVars, db, lastProcessed, conn, lastHeight, headerChan,
                   faultVars>>

\* Faulty variant of the next definition: the end of the range for the height.
StoreMappingLatest(s, b) ==
    /\ tasks[s].phase = "store"
    /\ b \in tasks[s].blobs
    /\ db' = [k \in DOMAIN db \cup {b} |-> IF k = b THEN tasks[s].latest ELSE db[k]]
    /\ tasks' = [tasks EXCEPT ![s].blobs = @ \ {b}]
    /\ UNCHANGED <<posted, lost, procVars, lastProcessed, conn, lastHeight, headerChan,
                   faultVars>>

\* ... and stores a mapping for each EVM block, in a transaction of its own.
StoreMapping(s, b) ==
    /\ tasks[s].phase = "store"
    /\ b \in tasks[s].blobs
    /\ db' = [k \in DOMAIN db \cup {b} |-> IF k = b THEN tasks[s].height ELSE db[k]]
    /\ tasks' = [tasks EXCEPT ![s].blobs = @ \ {b}]
    /\ UNCHANGED <<posted, lost, procVars, lastProcessed, conn, lastHeight, headerChan,
                   faultVars>>

\* The database refuses: the block is passed over, and the height counts as
\* processed all the same.
StoreMappingFails(s, b) ==
    /\ tasks[s].phase = "store"
    /\ b \in tasks[s].blobs
    /\ Failure
    /\ lost' = lost \cup {b}
    /\ tasks' = [tasks EXCEPT ![s].blobs = @ \ {b}]
    /\ UNCHANGED <<posted, db, lastProcessed, procVars, conn, lastHeight, headerChan>>

\* Faulty variant of the next definition: the failed height counts as processed.
FetchFailsProcessed(s) ==
    /\ tasks[s].phase = "fetch"
    /\ NoBlockOrFailure(tasks[s].height)
    /\ lastProcessed' = tasks[s].height
    /\ Advance(s)
    /\ UNCHANGED <<posted, lost, procVars, db, conn, lastHeight, headerChan>>

\* Fetching fails, as it always does for a height without a block: processHeight
\* returns and the caller goes on with the next height.
FetchFails(s) ==
    /\ tasks[s].phase = "fetch"
    /\ NoBlockOrFailure(tasks[s].height)
    /\ Advance(s)
    /\ UNCHANGED <<posted, lost, procVars, db, lastProcessed, conn, lastHeight, headerChan>>

UpdateLastProcessedHeight(s) ==
    /\ tasks[s].phase = "store"
    /\ tasks[s].blobs = {}
    /\ lastProcessed' = tasks[s].height
    /\ Advance(s)
    /\ UNCHANGED <<posted, lost, procVars, db, conn, lastHeight, headerChan, faultVars>>

\* The database refuses: the height is left as it was.
UpdateLastProcessedFails(s) ==
    /\ tasks[s].phase = "store"
    /\ tasks[s].blobs = {}
    /\ Failure
    /\ Advance(s)
    /\ UNCHANGED <<posted, lost, procVars, db, lastProcessed, conn, lastHeight, headerChan>>

ProcessHeight(s) ==
    \/ GetAll(s)
    \/ FetchFails(s)
    \/ \E b \in EvmBlocks : StoreMapping(s, b) \/ StoreMappingFails(s, b)
    \/ UpdateLastProcessedHeight(s)
    \/ UpdateLastProcessedFails(s)

Backfill(s) == BackfillLatest(s) \/ BackfillLatestFails(s) \/ ProcessHeight(s)

Connect == ReadLastProcessed \/ Subscribe

-----------------------------------------------------------------------------
(* main and startAPI.                                                      *)

\* SIGINT or SIGTERM: the shutdown channel is closed, the context cancelled.
Signal ==
    /\ proc = "run"
    /\ proc' = "stopping"
    /\ UNCHANGED <<posted, lost, db, lastProcessed, api, conn, lastHeight, headerChan, tasks,
                   faultVars>>

\* Faulty variant of the next definition: a loop that waits to reconnect goes on.
LoopStopsConnected ==
    /\ proc = "stopping"
    /\ tasks[0] = Idle
    /\ conn = "up"
    /\ conn' = "stopped"
    /\ UNCHANGED <<posted, lost, procVars, db, lastProcessed, lastHeight, headerChan, tasks,
                   faultVars>>

\* The main loop sees the shutdown, waiting for a header or to reconnect; a header
\* or a new attempt may be chosen before it.
LoopStops ==
    /\ proc = "stopping"
    /\ tasks[0] = Idle
    /\ conn \in {"up", "down"}
    /\ conn' = "stopped"
    /\ UNCHANGED <<posted, lost, procVars, db, lastProcessed, lastHeight, headerChan, tasks,
                   faultVars>>

\* ListenAndServe returns: after the shutdown, or with an error, upon which the
\* rest of the process runs on.
ApiStops ==
    /\ api
    /\ api' = FALSE
    /\ IF proc = "run" THEN Failure ELSE UNCHANGED faultVars
    /\ UNCHANGED <<posted, lost, proc, db, lastProcessed, conn, lastHeight, headerChan, tasks>>

\* main returns; backfills end with the process, wherever they are.
Exit ==
    /\ proc = "stopping"
    /\ conn = "stopped" /\ ~ api
    /\ proc' = "exited"
    /\ tasks' = [s \in DOMAIN tasks |-> Idle]
    /\ UNCHANGED <<posted, lost, api, db, lastProcessed, conn, lastHeight, headerChan, faultVars>>

Next ==
    \/ \E blobs \in BlobSets : CelestiaBlock(blobs)
    \/ Signal \/ LoopStops \/ ApiStops \/ Exit
    \/ Disconnect
    \/ Restart
    \/ Connect
    \/ SubscribeFails
    \/ TakeHeader
    \/ ProcessHeight(0)
    \/ \E s \in Backfills : Backfill(s)

Spec == Init /\ [][Next]_vars

\* The process is scheduled: its loop and every goroutine make progress.  A select
\* with several ready cases chooses at random, so the shutdown is chosen in the end.
FairSpec ==
    /\ Spec
    /\ WF_vars(Connect)
    /\ WF_vars(TakeHeader)
    /\ WF_vars(SubscribeFails /\ proc = "stopping")
    /\ SF_vars(LoopStops)
    /\ WF_vars(ApiStops /\ proc = "stopping")
    /\ WF_vars(Exit)
    /\ WF_vars(ProcessHeight(0))
    /\ \A s \in Backfills : WF_vars(Backfill(s))

GetMapping(ethBlockNum) ==
    [isFound |-> ethBlockNum \in DOMAIN db,
     celestiaHeight |-> IF ethBlockNum \in DOMAIN db THEN db[ethBlockNum] ELSE 0]

\* GET /inclusion_height/{eth_block_number}: a number that does not fit the
\* width it is parsed with is a bad request.
InclusionHeight(b) ==
    IF ~ api THEN [status |-> "no answer"]
    ELSE IF b >= 2^ApiBits THEN [status |-> "bad request"]
    ELSE IF GetMapping(b).isFound
    THEN [status |-> "ok", celestia_height |-> GetMapping(b).celestiaHeight]
    ELSE [status |-> "not found"]

-----------------------------------------------------------------------------
(* Properties.                                                             *)

\* A Celestia height that the API answers is one where the block really is,
\* whichever goroutine wrote the mapping last and however often the block was
\* posted; a block that was posted nowhere is not found.
MappingSound ==
    \A b \in EvmBlocks :
        LET answer == InclusionHeight(b)
        IN  answer.status = "ok" =>
              /\ answer.celestia_height \in DOMAIN posted
              /\ b \in posted[answer.celestia_height]

\* The height that /status reports and that the next connection resumes from
\* has been indexed, also after a restart between the two transactions of
\* processHeight or while a backfill moves the height back; the one exception are
\* blocks whose mapping the database itself refused, which storeMapping's caller
\* only logs.
LastProcessedIndexed ==
    lastProcessed # 0 =>
        /\ lastProcessed \in DOMAIN posted
        /\ Decoded(posted[lastProcessed]) \subseteq DOMAIN db \cup lost

\* A broken connection alone costs no block: one posted after the last processed
\* height is eventually mapped, by the main loop or a backfill, as long as the
\* process is neither stopped nor restarted and no call fails.
MissedBlocksBackfilled ==
    \A h \in 1..MaxHeight, b \in EvmBlocks :
        (/\ 0 < lastProcessed /\ lastProcessed < h
         /\ h \in DOMAIN posted /\ b \in posted[h])
        ~> (b \in DOMAIN db \/ crashes > 0 \/ failures > 0 \/ proc # "run")

\* A signal stops the process: whatever the loop, the backfills and the API server
\* are doing, also while the node refuses connections or the server has failed
\* before, main returns.
ShutdownCompletes == proc = "stopping" ~> proc # "stopping"
=============================================================================
