---------------------------- MODULE ServicesProofs --------------------------
(***************************************************************************)
(* Proofs of the safety properties of the services beside the relayer:     *)
(* Indexer, for every set of EVM blocks and blobs, every width and every   *)
(* bound on faults, and EvmProver, for every number of retries, faults,    *)
(* blocks and Celestia heights and every width of a square.                *)
(*                                                                         *)
(* Indexer is extended.  EvmProver is an instance: what it sees of the     *)
(* blobs and of the indexer's answers, published and mapped, is its own.   *)
(***************************************************************************)
EXTENDS Indexer, TLAPS

CONSTANTS MAX_RETRIES, MaxServiceFaults, MaxEvmHeight, CelestiaHeights, OdsSizes
VARIABLES evmHeight, clientHeight, published, mapped, pc, latest_height, trusted_height, height,
          retries, inputs, response, faults

P == INSTANCE EvmProver WITH posted <- published, db <- mapped, MaxFaults <- MaxServiceFaults

-----------------------------------------------------------------------------
(* The indexer: the invariant.                                             *)

Tasks ==
    [phase : {"idle", "latest", "fetch", "store"}, height : Nat, latest : Nat,
     blobs : SUBSET EvmBlocks]

\* Every variable that the steps of a task depend on keeps its type.
IndexerTypeOK ==
    /\ posted \in Seq(SUBSET (EvmBlocks \cup {Junk}))
    /\ lastProcessed \in Nat /\ lastHeight \in Nat
    /\ headerChan \in Seq(Nat)
    /\ tasks \in [{0} \cup Backfills -> Tasks]

\* What processHeight has in hand between its transactions: the blocks of its
\* height that it still has to store, the others being stored or refused.  The
\* chain, the stored and the refused blocks are parameters.
TaskSound(t, chain, stored, refused) ==
    t.phase = "store" =>
        /\ t.height \in DOMAIN chain
        /\ t.blobs \subseteq Decoded(chain[t.height])
        /\ Decoded(chain[t.height]) \subseteq t.blobs \cup stored \cup refused

\* The database only maps a block to a height where it was posted.
DbSound ==
    \A b \in DOMAIN db : db[b] \in DOMAIN posted /\ b \in posted[db[b]]

\* The inductive invariant.
IndexerInv ==
    /\ IndexerTypeOK
    /\ \A s \in DOMAIN tasks : TaskSound(tasks[s], posted, DOMAIN db, lost)
    /\ DbSound
    /\ LastProcessedIndexed

\* What no step undoes: blocks stay on Celestia, mappings in the database.
Grows ==
    /\ DOMAIN posted \subseteq DOMAIN posted'
    /\ \A h \in DOMAIN posted : posted'[h] = posted[h]
    /\ DOMAIN db \subseteq DOMAIN db'
    /\ lost \subseteq lost'

-----------------------------------------------------------------------------
(* How the tasks change.                                                   *)

\* A task that is sound stays so when it is left alone.
LEMMA TaskStable ==
    ASSUME NEW t, NEW p, NEW q, NEW d, NEW e, NEW l, NEW m,
           TaskSound(t, p, d, l),
           DOMAIN p \subseteq DOMAIN q, \A h \in DOMAIN p : q[h] = p[h],
           d \subseteq e, l \subseteq m
    PROVE  TaskSound(t, q, e, m)
BY DEF TaskSound

\* A step keeps what every task has in hand if it writes at most one task, with a
\* record that is sound afterwards.
LEMMA OneTaskWritten ==
    ASSUME IndexerInv, Grows, NEW s, NEW t \in Tasks,
           tasks' = [tasks EXCEPT ![s] = t],
           TaskSound(t, posted', DOMAIN db', lost')
    PROVE  /\ tasks' \in [{0} \cup Backfills -> Tasks]
           /\ \A i \in DOMAIN tasks' : TaskSound(tasks'[i], posted', DOMAIN db', lost')
<1>1. tasks' \in [{0} \cup Backfills -> Tasks] /\ tasks \in [{0} \cup Backfills -> Tasks]
  BY DEF IndexerInv, IndexerTypeOK
<1>2. \A i \in DOMAIN tasks : tasks'[i] = IF i = s THEN t ELSE tasks[i]
  BY <1>1
<1>3. \A i \in DOMAIN tasks : TaskSound(tasks[i], posted', DOMAIN db', lost')
  BY TaskStable DEF IndexerInv, Grows
<1> QED BY <1>1, <1>2, <1>3

\* The heights that tasks compute are naturals: unsigned arithmetic.
LEMMA UnsignedType == \A n \in Int : U(n) \in Nat
<1> DEFINE m == 2^Bits
<1>1. m \in Int /\ m > 0
  BY IndexerAssumption
<1> HIDE DEF m
<1>2. \A n \in Int : n % m \in Nat
  BY <1>1
<1> QED BY <1>2 DEF U, m

\* The records of tasks that are idle or have something to fetch.
LEMMA TaskTypes ==
    ASSUME NEW start \in Nat, NEW end \in Nat
    PROVE  /\ Idle \in Tasks /\ Idle.phase # "store"
           /\ Fetching(start, end) \in Tasks /\ Fetching(start, end).phase # "store"
           /\ [Idle EXCEPT !.phase = "latest", !.height = start] \in Tasks
           /\ [Idle EXCEPT !.phase = "latest", !.height = start].phase # "store"
BY DEF Idle, Fetching, Tasks

-----------------------------------------------------------------------------
(* The invariant through the steps.                                        *)

\* The initial states have it.
LEMMA IndexerInit == Init => IndexerInv
<1> SUFFICES ASSUME Init PROVE IndexerInv
  OBVIOUS
<1>1. IndexerTypeOK
  <2>1. Idle \in Tasks
    BY TaskTypes
  <2> QED BY <2>1 DEF Init, IndexerTypeOK
<1>2. \A s \in DOMAIN tasks : TaskSound(tasks[s], posted, DOMAIN db, lost)
  BY DEF Init, TaskSound, Idle
<1>3. DbSound /\ LastProcessedIndexed
  BY DEF Init, DbSound, LastProcessedIndexed
<1> QED BY <1>1, <1>2, <1>3 DEF IndexerInv

\* A step that leaves Celestia and the database alone keeps it if it writes at most
\* one task and that one is not one that stores.
LEMMA QuietInv ==
    ASSUME IndexerInv, UNCHANGED <<posted, db, lost, lastProcessed>>,
           lastHeight' \in Nat, headerChan' \in Seq(Nat), NEW s, NEW t \in Tasks,
           tasks' = [tasks EXCEPT ![s] = t], t.phase # "store"
    PROVE  IndexerInv'
<1>1. Grows
  BY DEF Grows
<1>2. TaskSound(t, posted', DOMAIN db', lost')
  BY DEF TaskSound
<1>3. /\ tasks' \in [{0} \cup Backfills -> Tasks]
      /\ \A i \in DOMAIN tasks' : TaskSound(tasks'[i], posted', DOMAIN db', lost')
  BY <1>1, <1>2, OneTaskWritten
<1>4. IndexerTypeOK'
  BY <1>3 DEF IndexerInv, IndexerTypeOK
<1> QED BY <1>3, <1>4 DEF IndexerInv, DbSound, LastProcessedIndexed

\* The same for a step that writes no task, or stops them all.
LEMMA NoTaskInv ==
    ASSUME IndexerInv, UNCHANGED <<posted, db, lost, lastProcessed>>,
           lastHeight' \in Nat, headerChan' \in Seq(Nat),
           UNCHANGED tasks \/ tasks' = [s \in DOMAIN tasks |-> Idle]
    PROVE  IndexerInv'
<1>1. Idle \in Tasks
  BY TaskTypes
<1>2. IndexerTypeOK'
  BY <1>1 DEF IndexerInv, IndexerTypeOK
<1>3. \A s \in DOMAIN tasks' : TaskSound(tasks'[s], posted', DOMAIN db', lost')
  <2>1. CASE UNCHANGED tasks
    BY <2>1 DEF IndexerInv
  <2>2. CASE tasks' = [s \in DOMAIN tasks |-> Idle]
    BY <2>2 DEF TaskSound, Idle
  <2> QED BY <2>1, <2>2
<1> QED BY <1>2, <1>3 DEF IndexerInv, DbSound, LastProcessedIndexed

\* Celestia commits a block.
LEMMA CelestiaBlockInv ==
    ASSUME IndexerInv, NEW blobs \in BlobSets, CelestiaBlock(blobs)
    PROVE  IndexerInv'
<1>1. /\ posted' = Append(posted, blobs)
      /\ UNCHANGED <<db, lost, lastProcessed, lastHeight, tasks>>
      /\ headerChan' = headerChan \/ headerChan' = Append(headerChan, Len(posted) + 1)
  BY DEF CelestiaBlock
<1>2. blobs \in SUBSET (EvmBlocks \cup {Junk})
  BY IndexerAssumption
<1>3. /\ posted' \in Seq(SUBSET (EvmBlocks \cup {Junk}))
      /\ DOMAIN posted \subseteq DOMAIN posted'
      /\ \A h \in DOMAIN posted : posted'[h] = posted[h]
  BY <1>1, <1>2 DEF IndexerInv, IndexerTypeOK
<1>4. headerChan' \in Seq(Nat)
  <2>1. headerChan \in Seq(Nat) /\ Len(posted) + 1 \in Nat
    BY DEF IndexerInv, IndexerTypeOK
  <2>2. Append(headerChan, Len(posted) + 1) \in Seq(Nat)
    BY <2>1
  <2> QED BY <1>1, <2>1, <2>2
<1>5. \A i \in DOMAIN tasks : TaskSound(tasks[i], posted', DOMAIN db, lost)
  BY <1>3, TaskStable DEF IndexerInv
<1>6. DbSound' /\ LastProcessedIndexed'
  BY <1>1, <1>3 DEF IndexerInv, DbSound, LastProcessedIndexed
<1> QED BY <1>1, <1>3, <1>4, <1>5, <1>6 DEF IndexerInv, IndexerTypeOK

\* The blobs are fetched: they are all to be stored.
LEMMA GetAllInv ==
    ASSUME IndexerInv, NEW s \in DOMAIN tasks, GetAll(s)
    PROVE  IndexerInv'
<1> DEFINE blobs == Decoded(posted[tasks[s].height])
           t == [tasks[s] EXCEPT !.phase = "store", !.blobs = blobs]
<1>1. /\ tasks[s].height \in DOMAIN posted
      /\ tasks' = [tasks EXCEPT ![s] = t]
      /\ UNCHANGED <<posted, db, lost, lastProcessed, lastHeight, headerChan>>
  BY DEF GetAll
<1>2. tasks[s] \in Tasks /\ blobs \in SUBSET EvmBlocks
  BY <1>1 DEF IndexerInv, IndexerTypeOK, Decoded
<1> HIDE DEF blobs
<1>3. t \in Tasks /\ t.height = tasks[s].height /\ t.blobs = blobs
  BY <1>2 DEF Tasks
<1> HIDE DEF t
<1>4. TaskSound(t, posted', DOMAIN db', lost')
  BY <1>1, <1>3 DEF TaskSound, blobs
<1>5. Grows
  BY <1>1 DEF Grows
<1>6. /\ tasks' \in [{0} \cup Backfills -> Tasks]
      /\ \A i \in DOMAIN tasks' : TaskSound(tasks'[i], posted', DOMAIN db', lost')
  BY <1>1, <1>3, <1>4, <1>5, OneTaskWritten
<1> QED BY <1>1, <1>6 DEF IndexerInv, IndexerTypeOK, DbSound, LastProcessedIndexed

\* A block is taken from those in hand, into the database or the refused ones.
LEMMA StoreInv ==
    ASSUME IndexerInv, NEW s \in DOMAIN tasks, NEW b \in EvmBlocks,
           StoreMapping(s, b) \/ StoreMappingFails(s, b)
    PROVE  IndexerInv'
<1> DEFINE blobs == tasks[s].blobs \ {b}
           t == [tasks[s] EXCEPT !.blobs = blobs]
<1>1. /\ tasks[s].phase = "store" /\ b \in tasks[s].blobs
      /\ tasks' = [tasks EXCEPT ![s] = t]
      /\ UNCHANGED <<posted, lastProcessed, lastHeight, headerChan>>
  BY DEF StoreMapping, StoreMappingFails
<1>2. tasks[s] \in Tasks
  BY DEF IndexerInv, IndexerTypeOK
<1>3. blobs \in SUBSET EvmBlocks
  BY <1>2 DEF Tasks
<1>4. /\ tasks[s].height \in DOMAIN posted /\ b \in posted[tasks[s].height]
      /\ blobs \subseteq Decoded(posted[tasks[s].height])
      /\ Decoded(posted[tasks[s].height]) \subseteq blobs \cup {b} \cup DOMAIN db \cup lost
  BY <1>1 DEF IndexerInv, TaskSound, Decoded
<1> HIDE DEF blobs
<1>5. /\ t \in Tasks /\ t.phase = tasks[s].phase /\ t.height = tasks[s].height
      /\ t.blobs = blobs
  BY <1>2, <1>3 DEF Tasks
<1> HIDE DEF t
<1>6. /\ DOMAIN db \subseteq DOMAIN db' /\ lost \subseteq lost' /\ b \in DOMAIN db' \cup lost'
      /\ \A k \in DOMAIN db' : \/ k \in DOMAIN db /\ db'[k] = db[k]
                               \/ k = b /\ db'[k] = tasks[s].height
  BY DEF StoreMapping, StoreMappingFails
<1>7. TaskSound(t, posted', DOMAIN db', lost')
  BY <1>1, <1>4, <1>5, <1>6 DEF TaskSound
<1>8. Grows
  BY <1>1, <1>6 DEF Grows
<1>9. /\ tasks' \in [{0} \cup Backfills -> Tasks]
      /\ \A i \in DOMAIN tasks' : TaskSound(tasks'[i], posted', DOMAIN db', lost')
  BY <1>1, <1>5, <1>7, <1>8, OneTaskWritten
<1>10. DbSound'
  BY <1>1, <1>4, <1>6 DEF IndexerInv, DbSound
<1>11. LastProcessedIndexed'
  BY <1>1, <1>6 DEF IndexerInv, LastProcessedIndexed
<1> QED BY <1>1, <1>9, <1>10, <1>11 DEF IndexerInv, IndexerTypeOK

\* What Advance leaves in the task.
LEMMA AdvanceShape ==
    ASSUME IndexerInv, NEW s \in DOMAIN tasks, Advance(s)
    PROVE  \E t \in Tasks : tasks' = [tasks EXCEPT ![s] = t] /\ t.phase # "store"
<1>1. tasks[s].height + 1 \in Nat /\ tasks[s].latest \in Nat
  BY DEF IndexerInv, IndexerTypeOK, Tasks
<1>2. \/ tasks' = [tasks EXCEPT ![s] = Idle]
      \/ tasks' = [tasks EXCEPT ![s] = Fetching(tasks[s].height + 1, tasks[s].latest)]
  BY DEF Advance, Set
<1> QED BY <1>1, <1>2, TaskTypes, Zenon

\* The last transaction of processHeight: nothing is left in hand, so all blocks of
\* the height are stored or refused.
LEMMA UpdateLastProcessedInv ==
    ASSUME IndexerInv, NEW s \in DOMAIN tasks, UpdateLastProcessedHeight(s)
    PROVE  IndexerInv'
<1>1. /\ tasks[s].phase = "store" /\ tasks[s].blobs = {} /\ lastProcessed' = tasks[s].height
      /\ Advance(s) /\ UNCHANGED <<posted, db, lost, lastHeight, headerChan>>
  BY DEF UpdateLastProcessedHeight
<1>2. PICK t \in Tasks : tasks' = [tasks EXCEPT ![s] = t] /\ t.phase # "store"
  BY <1>1, AdvanceShape
<1>3. Grows /\ TaskSound(t, posted', DOMAIN db', lost')
  BY <1>1, <1>2 DEF Grows, TaskSound
<1>4. /\ tasks' \in [{0} \cup Backfills -> Tasks]
      /\ \A i \in DOMAIN tasks' : TaskSound(tasks'[i], posted', DOMAIN db', lost')
  BY <1>2, <1>3, OneTaskWritten
<1>5. LastProcessedIndexed'
  BY <1>1 DEF IndexerInv, TaskSound, LastProcessedIndexed
<1>6. lastProcessed' \in Nat
  BY <1>1 DEF IndexerInv, IndexerTypeOK, Tasks
<1> QED BY <1>1, <1>4, <1>5, <1>6 DEF IndexerInv, IndexerTypeOK, DbSound

\* All steps of a task.
LEMMA ProcessHeightInv ==
    ASSUME IndexerInv, NEW s \in DOMAIN tasks, ProcessHeight(s)
    PROVE  IndexerInv'
<1>1. CASE GetAll(s)
  BY <1>1, GetAllInv
<1>2. ASSUME NEW b \in EvmBlocks, StoreMapping(s, b) \/ StoreMappingFails(s, b)
      PROVE  IndexerInv'
  BY <1>2, StoreInv
<1>3. CASE UpdateLastProcessedHeight(s)
  BY <1>3, UpdateLastProcessedInv
<1>4. CASE FetchFails(s) \/ UpdateLastProcessedFails(s)
  <2>1. /\ Advance(s) /\ UNCHANGED <<posted, db, lost, lastProcessed>>
        /\ lastHeight' \in Nat /\ headerChan' \in Seq(Nat)
    BY <1>4 DEF FetchFails, UpdateLastProcessedFails, IndexerInv, IndexerTypeOK
  <2>2. PICK t \in Tasks : tasks' = [tasks EXCEPT ![s] = t] /\ t.phase # "store"
    BY <2>1, AdvanceShape
  <2> QED BY <2>1, <2>2, QuietInv
<1> QED BY <1>1, <1>2, <1>3, <1>4 DEF ProcessHeight

\* connectClient, up to the goroutine's first step, and the main loop.
LEMMA LoopInv ==
    ASSUME IndexerInv, ReadLastProcessed \/ Subscribe \/ SubscribeFails \/ TakeHeader
    PROVE  IndexerInv'
<1>1. CASE ReadLastProcessed \/ SubscribeFails
  BY <1>1, NoTaskInv DEF ReadLastProcessed, SubscribeFails, IndexerInv, IndexerTypeOK
<1>2. CASE Subscribe
  <2> DEFINE i == Min({k \in Backfills : tasks[k] = Idle})
             t == [Idle EXCEPT !.phase = "latest", !.height = U(lastHeight + 1)]
  <2>1. /\ UNCHANGED <<posted, db, lost, lastProcessed>>
        /\ lastHeight' \in Nat /\ headerChan' \in Seq(Nat)
        /\ UNCHANGED tasks \/ tasks' = [tasks EXCEPT ![i] = t]
    BY <1>2 DEF Subscribe, Set, IndexerInv, IndexerTypeOK
  <2>2. U(lastHeight + 1) \in Nat
    <3>1. lastHeight + 1 \in Int
      BY DEF IndexerInv, IndexerTypeOK
    <3> QED BY <3>1, UnsignedType, Zenon
  <2>3. t \in Tasks /\ t.phase # "store"
    BY <2>2, TaskTypes, Zenon
  <2> HIDE DEF i, t
  <2>4. CASE UNCHANGED tasks
    BY <2>1, <2>4, NoTaskInv
  <2>5. CASE tasks' = [tasks EXCEPT ![i] = t]
    BY <2>1, <2>3, <2>5, QuietInv
  <2> QED BY <2>1, <2>4, <2>5
<1>3. CASE TakeHeader
  <2> DEFINE t == Fetching(Head(headerChan), Head(headerChan))
  <2>1. /\ UNCHANGED <<posted, db, lost, lastProcessed, lastHeight>>
        /\ headerChan # <<>> /\ headerChan' = Tail(headerChan)
        /\ tasks' = [tasks EXCEPT ![0] = t]
    BY <1>3 DEF TakeHeader, Set
  <2>2. Head(headerChan) \in Nat /\ headerChan' \in Seq(Nat) /\ lastHeight' \in Nat
    BY <2>1 DEF IndexerInv, IndexerTypeOK
  <2>3. t \in Tasks /\ t.phase # "store"
    BY <2>2, TaskTypes, Zenon
  <2> HIDE DEF t
  <2> QED BY <2>1, <2>2, <2>3, QuietInv
<1> QED BY <1>1, <1>2, <1>3

\* A backfill limits its range.
LEMMA BackfillInv ==
    ASSUME IndexerInv, NEW s \in Backfills, Backfill(s)
    PROVE  IndexerInv'
<1>1. s \in DOMAIN tasks
  BY DEF IndexerInv, IndexerTypeOK
<1>2. CASE ProcessHeight(s)
  BY <1>1, <1>2, ProcessHeightInv
<1>3. CASE BackfillLatest(s) \/ BackfillLatestFails(s)
  <2> DEFINE latest == Len(posted)
             start == BackfillRange(tasks[s].height, latest)
  <2>1. /\ UNCHANGED <<posted, db, lost, lastProcessed>>
        /\ lastHeight' \in Nat /\ headerChan' \in Seq(Nat)
        /\ \/ tasks' = [tasks EXCEPT ![s] = Fetching(start, latest)]
           \/ tasks' = [tasks EXCEPT ![s] = Idle]
    BY <1>3 DEF BackfillLatest, BackfillLatestFails, Set, IndexerInv, IndexerTypeOK
  <2>2. tasks[s].height \in Nat /\ latest \in Nat
    BY <1>1 DEF IndexerInv, IndexerTypeOK, Tasks
  <2>3. start \in Nat
    <3>1. U(latest - MaxBackfill) \in Nat
      <4>1. latest - MaxBackfill \in Int
        BY <2>2, IndexerAssumption
      <4> QED BY <4>1, UnsignedType, Zenon
    <3>2. start = U(latest - MaxBackfill) \/ start = tasks[s].height
      BY DEF BackfillRange
    <3> HIDE DEF start
    <3> QED BY <2>2, <3>1, <3>2
  <2> HIDE DEF start, latest
  <2>4. PICK t \in Tasks : tasks' = [tasks EXCEPT ![s] = t] /\ t.phase # "store"
    BY <2>1, <2>2, <2>3, TaskTypes, Zenon
  <2> QED BY <2>1, <2>4, QuietInv
<1> QED BY <1>2, <1>3 DEF Backfill

\* Signals, failures of the connection or the process, and the end of it.
LEMMA ProcessInv ==
    ASSUME IndexerInv, Signal \/ LoopStops \/ ApiStops \/ Exit \/ Disconnect \/ Restart
    PROVE  IndexerInv'
<1>1. CASE Signal \/ LoopStops \/ ApiStops
  BY <1>1, NoTaskInv DEF Signal, LoopStops, ApiStops, IndexerInv, IndexerTypeOK
<1>2. CASE Exit
  BY <1>2, NoTaskInv DEF Exit, IndexerInv, IndexerTypeOK
<1>3. CASE Disconnect
  <2>1. headerChan' \in Seq(Nat)
    BY <1>3 DEF Disconnect
  <2> QED BY <1>3, <2>1, NoTaskInv DEF Disconnect, IndexerInv, IndexerTypeOK
<1>4. CASE Restart
  <2>1. headerChan' \in Seq(Nat) /\ lastHeight' \in Nat
    BY <1>4 DEF Restart
  <2> QED BY <1>4, <2>1, NoTaskInv DEF Restart
<1> QED BY <1>1, <1>2, <1>3, <1>4

-----------------------------------------------------------------------------
(* The indexer: the theorems.                                              *)

\* The invariant holds throughout.
THEOREM IndexerInvariance == Spec => []IndexerInv
<1>1. Init => IndexerInv
  BY IndexerInit
<1>2. IndexerInv /\ [Next]_vars => IndexerInv'
  <2> SUFFICES ASSUME IndexerInv, [Next]_vars PROVE IndexerInv'
    OBVIOUS
  <2>1. ASSUME NEW blobs \in BlobSets, CelestiaBlock(blobs) PROVE IndexerInv'
    BY <2>1, CelestiaBlockInv
  <2>2. CASE Signal \/ LoopStops \/ ApiStops \/ Exit \/ Disconnect \/ Restart
    BY <2>2, ProcessInv
  <2>3. CASE Connect \/ SubscribeFails \/ TakeHeader
    BY <2>3, LoopInv DEF Connect
  <2>4. CASE ProcessHeight(0)
    <3>1. 0 \in DOMAIN tasks
      BY DEF IndexerInv, IndexerTypeOK
    <3> QED BY <2>4, <3>1, ProcessHeightInv
  <2>5. ASSUME NEW s \in Backfills, Backfill(s) PROVE IndexerInv'
    BY <2>5, BackfillInv
  <2>6. CASE UNCHANGED vars
    BY <2>6, NoTaskInv DEF vars, IndexerInv, IndexerTypeOK
  <2> QED BY <2>1, <2>2, <2>3, <2>4, <2>5, <2>6 DEF Next
<1> QED BY <1>1, <1>2, PTL DEF Spec

\* The API never answers a height where the block is not, however the transactions
\* of the main loop and of any number of backfills interleave with restarts.
THEOREM MappingSoundness == Spec => []MappingSound
<1>1. IndexerInv => MappingSound
  BY DEF IndexerInv, DbSound, MappingSound, InclusionHeight, GetMapping
<1> QED BY <1>1, IndexerInvariance, PTL

\* The last processed height in the database has been indexed, apart from blocks
\* whose mapping the database refused.
THEOREM LastProcessedSoundness == Spec => []LastProcessedIndexed
<1>1. IndexerInv => LastProcessedIndexed
  BY DEF IndexerInv
<1> QED BY <1>1, IndexerInvariance, PTL

-----------------------------------------------------------------------------
(* The EVM prover: the invariant.                                          *)

BlockInputs == [block : Nat, inclusion_height : Nat]

\* Every variable that numbers and sequences depend on keeps its type.
ProverTypeOK ==
    /\ evmHeight \in Nat \ {0} /\ clientHeight \in Nat
    /\ latest_height \in Nat /\ trusted_height \in Nat /\ height \in Nat
    /\ inputs \in Seq(BlockInputs)
    /\ mapped \in [DOMAIN mapped -> Nat]

\* The indexer maps a block only to a height where its blob is.
IndexedWasPosted == \A b \in DOMAIN mapped : <<b, mapped[b]>> \in published

\* The inputs are those of the n blocks after the trusted height, in order, each
\* with a height where its blob is.
InputsCover(n) ==
    /\ Len(inputs) = n
    /\ \A i \in 1..n : /\ inputs[i].block = trusted_height + i
                       /\ <<trusted_height + i, inputs[i].inclusion_height>> \in published

\* What the loop over the heights has done so far.
LoopProgress ==
    /\ pc = "inclusion" => /\ trusted_height < height /\ height <= latest_height
                           /\ InputsCover(height - trusted_height - 1)
    /\ pc = "prove" => /\ trusted_height < latest_height
                       /\ InputsCover(latest_height - trusted_height)

\* The inductive invariant.  While a request runs there is no response, so the
\* locals a response was computed from are still those it is compared with.
ProverInv ==
    /\ ProverTypeOK
    /\ IndexedWasPosted
    /\ LoopProgress
    /\ pc # "idle" => response = P!Pending
    /\ P!ResponseCoversRange

-----------------------------------------------------------------------------
(* The EVM prover: the steps.                                              *)

\* The initial states have it.
LEMMA ProverInit == P!Init => ProverInv
BY DEF P!Init, ProverInv, ProverTypeOK, IndexedWasPosted, LoopProgress, P!ResponseCoversRange,
       P!Pending

\* A step that changes neither the request nor its response and only adds to what
\* is posted keeps the invariant, whatever the client's height and the roll-up do.
LEMMA EnvironmentInv ==
    ASSUME ProverInv, UNCHANGED <<pc, P!locals, response>>, published \subseteq published',
           ProverTypeOK', IndexedWasPosted'
    PROVE  ProverInv'
<1>1. LoopProgress'
  BY DEF ProverInv, LoopProgress, InputsCover, P!locals
<1>2. P!ResponseCoversRange'
  BY DEF ProverInv, P!ResponseCoversRange, P!locals
<1> QED BY <1>1, <1>2 DEF ProverInv

\* An answer that is no success keeps it too, whichever locals were written.
LEMMA ErrorInv ==
    ASSUME ProverInv, ProverTypeOK', IndexedWasPosted',
           NEW status \in {"unimplemented", "internal", "panic"},
           P!Respond(P!Error(status))
    PROVE  ProverInv'
BY DEF ProverInv, LoopProgress, P!ResponseCoversRange, P!Respond, P!Error

\* The height is found: the input of the next block of the range is appended.
LEMMA InclusionFoundInv ==
    ASSUME ProverInv, P!InclusionFound
    PROVE  ProverInv'
<1> DEFINE n == height - trusted_height - 1
           input == P!BlockProverInput(height)
<1>1. /\ pc = "inclusion" /\ height \in DOMAIN mapped
      /\ trusted_height < height /\ height <= latest_height /\ InputsCover(n)
  BY DEF P!InclusionFound, ProverInv, LoopProgress
<1>2. /\ height \in Nat /\ trusted_height \in Nat /\ latest_height \in Nat /\ n \in Nat
      /\ inputs \in Seq(BlockInputs)
  BY <1>1 DEF ProverInv, ProverTypeOK
<1>3. /\ input \in BlockInputs /\ input.block = height
      /\ <<height, input.inclusion_height>> \in published
  BY <1>1, <1>2 DEF P!BlockProverInput, BlockInputs, ProverInv, ProverTypeOK, IndexedWasPosted
<1>4. /\ inputs' = Append(inputs, input) /\ UNCHANGED <<P!env, latest_height>>
      /\ UNCHANGED <<trusted_height, response>>
  BY DEF P!InclusionFound
<1> HIDE DEF input
<1>5. /\ inputs' \in Seq(BlockInputs) /\ Len(inputs') = n + 1
      /\ \A i \in 1..n : inputs'[i] = inputs[i]
      /\ inputs'[n + 1] = input
  BY <1>1, <1>2, <1>3, <1>4 DEF InputsCover
<1>6. \A i \in 1..(n + 1) : /\ inputs'[i].block = trusted_height + i
                            /\ <<trusted_height + i, inputs'[i].inclusion_height>> \in published
  <2> TAKE i \in 1..(n + 1)
  <2>1. CASE i \in 1..n
    BY <1>1, <1>5, <2>1 DEF InputsCover
  <2>2. CASE i = n + 1
    <3>1. trusted_height + i = height /\ inputs'[i] = input
      BY <1>2, <1>5, <2>2
    <3> QED BY <1>3, <3>1
  <2> QED BY <1>2, <2>1, <2>2
<1>7. ProverTypeOK' /\ IndexedWasPosted'
  <2>1. height' \in Nat
    BY <1>2 DEF P!InclusionFound
  <2> QED BY <1>4, <1>5, <2>1 DEF ProverInv, ProverTypeOK, IndexedWasPosted, P!env
<1>8. LoopProgress'
  <2>1. CASE height < latest_height
    BY <1>1, <1>2, <1>4, <1>5, <1>6, <2>1 DEF P!InclusionFound, LoopProgress, InputsCover, P!env
  <2>2. CASE height >= latest_height
    <3>1. height = latest_height /\ pc' = "prove"
      BY <1>1, <1>2, <2>2 DEF P!InclusionFound
    <3> QED BY <1>1, <1>2, <1>4, <1>5, <1>6, <3>1 DEF LoopProgress, InputsCover, P!env
  <2> QED BY <1>2, <2>1, <2>2
<1>9. response' = P!Pending
  BY <1>1, <1>4 DEF ProverInv
<1> QED BY <1>7, <1>8, <1>9 DEF ProverInv, P!ResponseCoversRange,
       P!Pending

\* The proof is made: the aggregated public values describe the range.
LEMMA ProveInv ==
    ASSUME ProverInv, P!Prove
    PROVE  ProverInv'
<1> DEFINE n == latest_height - trusted_height
           outputs == [i \in DOMAIN inputs |-> P!BlevmOutput(inputs[i])]
<1>1. pc = "prove" /\ trusted_height < latest_height /\ InputsCover(n) /\ pc' = "idle"
  BY DEF P!Prove, P!Respond, ProverInv, LoopProgress
<1>2. /\ n \in Nat \ {0} /\ trusted_height \in Nat /\ latest_height \in Nat
      /\ DOMAIN inputs = 1..n
  BY <1>1 DEF ProverInv, ProverTypeOK, InputsCover
<1>3. /\ response' = P!ProveBlockRange(inputs)
      /\ UNCHANGED <<P!env, P!locals>>
  BY DEF P!Prove, P!Respond
<1>4. ProverTypeOK' /\ IndexedWasPosted' /\ LoopProgress'
  BY <1>1, <1>3 DEF ProverInv, ProverTypeOK, IndexedWasPosted, LoopProgress, P!env, P!locals
<1>5. P!ResponseCoversRange'
  <2>1. \/ response' = P!Error("panic")
        \/ response' = [status |-> "ok", public_values |-> P!BlevmAggOutput(outputs)]
    BY <1>3 DEF P!ProveBlockRange
  <2>2. CASE response' = P!Error("panic")
    BY <2>2 DEF P!ResponseCoversRange, P!Error
  <2>3. CASE response' = [status |-> "ok", public_values |-> P!BlevmAggOutput(outputs)]
    <3>1. /\ DOMAIN outputs = 1..n /\ Len(outputs) = n
          /\ \A i \in 1..n : /\ outputs[i].header_hash = trusted_height + i
                             /\ outputs[i].height = trusted_height + i
                             /\ <<trusted_height + i, outputs[i].celestia_header_hash>>
                                  \in published
      BY <1>1, <1>2 DEF P!BlevmOutput, InputsCover
    <3> HIDE DEF outputs
    <3> DEFINE v == P!BlevmAggOutput(outputs)
    <3>2. /\ v.oldest_header_hash = trusted_height + 1
          /\ v.newest_header_hash = latest_height
          /\ v.newest_height = latest_height
      <4>1. 1 \in 1..n /\ n \in 1..n /\ trusted_height + n = latest_height
        BY <1>2
      <4> QED BY <3>1, <4>1 DEF P!BlevmAggOutput
    <3>3. v.celestia_header_hashes = [i \in 1..n |-> outputs[i].celestia_header_hash]
      BY <3>1 DEF P!BlevmAggOutput
    <3>4. /\ Len(v.celestia_header_hashes) = n
          /\ DOMAIN v.celestia_header_hashes = 1..n
          /\ \A i \in 1..n : v.celestia_header_hashes[i] = outputs[i].celestia_header_hash
      BY <1>2, <3>3
    <3>5. response'.public_values = v
      BY <2>3
    <3> HIDE DEF v
    <3> QED BY <1>3, <3>1, <3>2, <3>4, <3>5 DEF P!ResponseCoversRange, P!env, P!locals
  <2> QED BY <2>1, <2>2, <2>3
<1> QED BY <1>1, <1>4, <1>5 DEF ProverInv

-----------------------------------------------------------------------------
(* The EVM prover: the theorems.                                           *)

\* The invariant holds throughout.
THEOREM ProverInvariance ==
    ASSUME P!ProverAssumption
    PROVE  P!Spec => []ProverInv
<1>1. P!Init => ProverInv
  BY ProverInit
<1>2. ProverInv /\ [P!Next]_P!vars => ProverInv'
  <2> SUFFICES ASSUME ProverInv, [P!Next]_P!vars PROVE ProverInv'
    OBVIOUS
  <2> USE DEF P!ProverAssumption
  <2>1. CASE P!EvmBlock
    <3>1. ProverTypeOK' /\ IndexedWasPosted' /\ published \subseteq published'
      BY <2>1 DEF ProverInv, ProverTypeOK, IndexedWasPosted, P!EvmBlock, P!locals
    <3> QED BY <2>1, <3>1, EnvironmentInv DEF P!EvmBlock
  <2>2. ASSUME NEW h \in 1..evmHeight, P!ClientUpdated(h)
        PROVE  ProverInv'
    <3>1. ProverTypeOK' /\ IndexedWasPosted' /\ published \subseteq published'
      BY <2>2 DEF ProverInv, ProverTypeOK, IndexedWasPosted, P!ClientUpdated, P!locals
    <3> QED BY <2>2, <3>1, EnvironmentInv DEF P!ClientUpdated
  <2>3. ASSUME NEW b \in 2..evmHeight, NEW c \in CelestiaHeights, P!Indexed(b, c)
        PROVE  ProverInv'
    <3>1. c \in Nat /\ published' = published \cup {<<b, c>>}
          /\ mapped' = [k \in DOMAIN mapped \cup {b} |-> IF k = b THEN c ELSE mapped[k]]
      BY <2>3 DEF P!Indexed
    <3>2. ProverTypeOK'
      BY <2>3, <3>1 DEF ProverInv, ProverTypeOK, P!Indexed, P!locals
    <3>3. IndexedWasPosted'
      BY <3>1 DEF ProverInv, IndexedWasPosted
    <3> QED BY <2>3, <3>1, <3>2, <3>3, EnvironmentInv DEF P!Indexed
  <2>4. CASE P!Request
    BY <2>4 DEF P!Request, ProverInv, ProverTypeOK, IndexedWasPosted, LoopProgress,
                P!ResponseCoversRange, P!Pending, P!env, P!locals
  <2>5. CASE P!GetLatestHeight
    BY <2>5 DEF P!GetLatestHeight, ProverInv, ProverTypeOK, IndexedWasPosted, LoopProgress,
                P!ResponseCoversRange, P!Pending, P!env
  <2>6. CASE P!GetTrustedHeight
    <3>1. ProverTypeOK' /\ IndexedWasPosted'
      <4>1. /\ \/ inputs' = inputs /\ height' = height
               \/ inputs' = <<>> /\ height' = clientHeight + 1
            /\ trusted_height' = clientHeight
        BY <2>6 DEF P!GetTrustedHeight
      <4>2. /\ inputs \in Seq(BlockInputs) /\ height \in Nat /\ clientHeight \in Nat
            /\ <<>> \in Seq(BlockInputs)
        BY DEF ProverInv, ProverTypeOK
      <4>3. height' \in Nat /\ trusted_height' \in Nat
        BY <4>1, <4>2
      <4>4. inputs' \in Seq(BlockInputs)
        BY <4>1, <4>2, Zenon
      <4> QED BY <2>6, <4>3, <4>4 DEF P!GetTrustedHeight, ProverInv, ProverTypeOK,
                                       IndexedWasPosted, P!env
    <3>2. CASE latest_height <= clientHeight
      BY <2>6, <3>1, <3>2, ErrorInv DEF P!GetTrustedHeight
    <3>3. CASE ~ (latest_height <= clientHeight)
      <4>1. LoopProgress'
        BY <2>6, <3>3 DEF P!GetTrustedHeight, ProverInv, ProverTypeOK, LoopProgress, InputsCover
      <4>2. response' = P!Pending
        BY <2>6, <3>3 DEF P!GetTrustedHeight, ProverInv
      <4> QED BY <3>1, <4>1, <4>2 DEF ProverInv, P!ResponseCoversRange, P!Pending
    <3> QED BY <3>2, <3>3
  <2>7. CASE P!InclusionFound
    BY <2>7, InclusionFoundInv
  <2>8. CASE P!InclusionNotFound
    <3>1. ProverTypeOK' /\ IndexedWasPosted'
      BY <2>8 DEF P!InclusionNotFound, ProverInv, ProverTypeOK, IndexedWasPosted, P!env
    <3>2. CASE retries < MAX_RETRIES
      BY <2>8, <3>1, <3>2 DEF P!InclusionNotFound, ProverInv, LoopProgress, InputsCover,
                              P!ResponseCoversRange, P!Pending, P!env
    <3>3. CASE ~ (retries < MAX_RETRIES)
      BY <2>8, <3>1, <3>3, ErrorInv DEF P!InclusionNotFound
    <3> QED BY <3>2, <3>3
  <2>9. CASE P!Prove
    BY <2>9, ProveInv
  <2>10. CASE P!ServiceFails
    <3>1. ProverTypeOK' /\ IndexedWasPosted'
      BY <2>10 DEF P!ServiceFails, ProverInv, ProverTypeOK, IndexedWasPosted, P!env, P!locals
    <3>2. PICK status \in {"internal", "panic"} : P!Respond(P!Error(status))
      BY <2>10 DEF P!ServiceFails
    <3> QED BY <3>1, <3>2, ErrorInv
  <2>11. CASE UNCHANGED P!vars
    <3>1. ProverTypeOK' /\ IndexedWasPosted' /\ published \subseteq published'
      BY <2>11 DEF ProverInv, ProverTypeOK, IndexedWasPosted, P!vars, P!env, P!locals
    <3> QED BY <2>11, <3>1, EnvironmentInv DEF P!vars, P!locals
  <2> QED BY <2>1, <2>2, <2>3, <2>4, <2>5, <2>6, <2>7, <2>8, <2>9, <2>10, <2>11
          DEF P!Next, P!Serve
<1> QED BY <1>1, <1>2, PTL DEF P!Spec

\* A successful response of prove_state_transition covers exactly the blocks between
\* the two heights the request read, for any number of blocks, retries and faults.
THEOREM RangeCovered ==
    ASSUME P!ProverAssumption
    PROVE  P!Spec => []P!ResponseCoversRange
<1>1. ProverInv => P!ResponseCoversRange
  BY DEF ProverInv
<1> QED BY <1>1, ProverInvariance, PTL

\* A quotient with a remainder.
LEMMA DivisionLemma ==
    ASSUME NEW n \in Nat \ {0}, NEW q \in Nat, NEW r \in 0..(n - 1)
    PROVE  (n * q + r) \div n = q
OBVIOUS

\* The arithmetic of get_stdin finds the blob's shares in a square of any width.
THEOREM SharesFound ==
    ASSUME P!ProverAssumption
    PROVE  P!Spec => []P!SharesOfBlob
<1>1. ASSUME NEW ods_size \in OdsSizes,
             NEW row \in 0..(ods_size - 1), NEW column \in 0..(ods_size - 1)
      PROVE  P!OdsIndex(2 * ods_size * row + column, 2 * ods_size) = ods_size * row + column
  <2> DEFINE eds_size == 2 * ods_size
             index == eds_size * row + column
  <2>1. /\ ods_size \in Nat /\ row \in Nat /\ column \in Nat
        /\ eds_size \in Nat \ {0} /\ column \in 0..(eds_size - 1)
    BY DEF P!ProverAssumption
  <2>2. index \div eds_size = row
    BY <2>1, DivisionLemma
  <2>3. eds_size \div 2 = ods_size
    BY <2>1
  <2>4. P!OdsIndex(index, eds_size) = index - row * ods_size
    BY <2>2, <2>3 DEF P!OdsIndex
  <2>5. index - row * ods_size = ods_size * row + column
    BY <2>1
  <2> QED BY <2>4, <2>5
<1>2. P!SharesOfBlob
  BY <1>1 DEF P!SharesOfBlob
<1> QED BY <1>2, PTL
=============================================================================
