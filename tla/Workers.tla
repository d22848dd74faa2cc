------------------------------ MODULE Workers ------------------------------
(***************************************************************************)
(* The keeper's periodic workers (packages/keeper/src/workers).  All have  *)
(* the loop of worker.ts and the client of TxClient, and find out what the *)
(* chain has for them to do, then call the contract item by item: feeds,   *)
(* markets, positions, vaults, or the one treasury.  They differ in where  *)
(* the list comes from - the chain itself, or the rows of the indexer,     *)
(* which come late and may be missing -, in what a call takes along from   *)
(* it, and in what a failure does to the rest of the tick.                 *)
(*                                                                         *)
(* Where the bridge keeper and the matcher have states of their own, see   *)
(* Bridge and Matching.                                                    *)
(***************************************************************************)
EXTENDS TxClient, FiniteSetsExt

CONSTANTS
    Kinds,        \* the workers of an instance
    NItems,       \* items a worker looks after
    MaxBacklog,   \* bound on the work that is waiting on the chain
    MaxExcuse,    \* bound on the mishaps that are counted
    BatchLimit,   \* calls of a tick of the yield simulator (maxBatchesPerTick)
    MayBreak,     \* items whose calls the contract may refuse for good
    MayDrop,      \* items that the indexer may have no row of
    Idle          \* model value

Runs == Jobs      \* executions of tick

Items == 1 .. NItems

Nothing == [i \in Items |-> 0]

ASSUME WorkersConstants ==
    /\ NItems \in Nat \ {0} /\ MaxBacklog \in Nat \ {0}
    /\ MaxExcuse \in Nat /\ BatchLimit \in Nat \ {0} /\ MayBreak \subseteq Items
    /\ MayDrop \subseteq Items
    /\ Calls = [Items -> 0 .. MaxBacklog] \ {Nothing}

ASSUME WorkersAreFinite ==
    /\ IsFiniteSet(Runs) /\ IsFiniteSet(Calls)
    /\ Idle \notin [phase : {"read", "hung", "work"}, left : [Items -> 0 .. MaxBacklog],
                   calls : Nat]

-----------------------------------------------------------------------------
(* The workers.  list: where a tick's work list comes from ("config": all  *)
(* items; "index": the rows of the indexer, a failure is an empty list;    *)
(* "strict": the chain or a gateway, a failure ends the tick; "each": the  *)
(* chain, before each call).                                               *)
(* bundle: one call for all items.  stops: a call that fails ends the tick.*)
(* adds: a call moves the amount that was read, else it serves what there  *)
(* is.  passes, takes: arguments sent and expected.  limit: calls a tick.  *)

Worker(list, bundle, stops, adds, passes, takes, limit) ==
    [list |-> list, bundle |-> bundle, stops |-> stops, adds |-> adds,
     understood |-> passes = takes, limit |-> limit]

\* The positions or holders the indexer lists; no answer is an empty list.
IndexerPositions == "index"
HolderRows == "index"

\* The holders that RWA_HOLDERS names, each asked about on the chain.
ConfiguredHolders == "strict"

\* Signed packages for all feeds from one gateway or the next, or an error.
SignedPackages == "strict"

\* The exchange's price of an asset, or a fixed one: there is always a price.
SpotPrices == "config"

\* The source that is fresh and agrees with the others, or an error.
RwaSample == "each"

\* Settings and epoch of a vault; a vault without either is passed over.
ScheduleOf == "each"

\* Every market of the configuration, due or not.
FundingUpdater ==
    Worker("config", FALSE, FALSE, FALSE, <<"market_id">>, <<"market_id">>, NItems)

\* Every position the indexer lists.
FundingSettler ==
    Worker(IndexerPositions, FALSE, FALSE, FALSE,
           <<"position_id">>, <<"position_id">>, NItems)

\* Positions the indexer lists, of users whose health says so.
LiquidationBot ==
    Worker(IndexerPositions, FALSE, FALSE, FALSE, <<"position_id">>,
           <<"keeper", "user", "position_id", "price_payload">>, NItems)

\* Vaults whose epoch is over.
VaultRoller == Worker(ScheduleOf, FALSE, FALSE, FALSE, << >>, << >>, NItems)

\* One payload with the packages of all feeds, or none when one is missing.
OraclePusher ==
    Worker(SignedPackages, TRUE, TRUE, FALSE, <<"payload">>, <<"payload">>, NItems)

PushPrice == <<"asset", "price", "package_timestamp">>

\* Every asset.
AdminOraclePusher ==
    Worker(SpotPrices, FALSE, FALSE, FALSE, PushPrice, PushPrice, NItems)

\* Feeds whose price moved or has not been pushed for long.
RwaNavPusher == Worker(RwaSample, FALSE, FALSE, FALSE, PushPrice, PushPrice, NItems)

\* What each holder should have received, less what the holder has received by
\* the source's account.
DripsTo(holders) ==
    Worker(holders, FALSE, TRUE, TRUE, <<"holders", "deltas", "epoch_id">>,
           <<"holders", "deltas", "epoch_id">>, BatchLimit)

YieldSimulator == DripsTo(HolderRows)
YieldSimulatorOfList == DripsTo(ConfiguredHolders)

\* Instance and code of every contract.
TtlExtender == Worker("config", FALSE, FALSE, FALSE, << >>, << >>, NItems)

\* The treasury's balance above the reserve.
SlpFeeSweeper ==
    Worker("strict", TRUE, TRUE, TRUE, <<"amount">>, <<"amount">>, 1)

\* What main starts, by configuration, next to the matcher and the bridge keeper.
EveryWorker ==
    {OraclePusher, AdminOraclePusher, FundingUpdater, LiquidationBot, VaultRoller,
     RwaNavPusher, YieldSimulator, YieldSimulatorOfList, TtlExtender, SlpFeeSweeper,
     FundingSettler}

ASSUME KindsAreWorkers == Kinds \subseteq EveryWorker

-----------------------------------------------------------------------------
VARIABLES
    worker,    \* which one this is
    broken,    \* the items that are broken
    backlog,   \* item -> work waiting for it; below 0, more was paid than owed
    index,     \* item -> the work its row at the indexer shows, if it has a row
    waiting,   \* the run the worker's loop waits for, or NoJob
    tick,      \* run -> its phase, the work it has left and its calls, or Idle
    calm,      \* requests are answered and the process runs, from now on
    excuse     \* history: item -> amount that mishaps may have paid twice

chain == <<broken, backlog, index>>
keeper == <<worker, waiting, tick>>
vars == <<keeper, chain, calm, excuse, txVars>>

TypeOK ==
    /\ TxTypeOK
    /\ worker \in Kinds /\ broken \subseteq Items /\ calm \in BOOLEAN
    /\ backlog \in [Items -> -MaxExcuse .. MaxBacklog]
    /\ index \in [Items -> 0 .. MaxBacklog]
    /\ excuse \in [Items -> 0 .. MaxExcuse]
    /\ waiting \in Runs \cup {NoJob}
    /\ tick \in [Runs -> {Idle} \cup
                  [phase : {"read", "hung", "work"}, left : Calls \cup {Nothing},
                   calls : Nat]]
    /\ \A k \in Runs : tick[k] # Idle => tick[k].calls < worker.limit

Init ==
    /\ TxInit
    /\ worker \in Kinds /\ broken \in SUBSET MayBreak
    /\ backlog = Nothing /\ excuse = Nothing
    /\ index = [i \in Items |-> IF worker.adds \/ i \in MayDrop THEN 0 ELSE 1]
    /\ waiting = NoJob /\ tick = [k \in Runs |-> Idle] /\ calm = FALSE

-----------------------------------------------------------------------------
(* What happens elsewhere *)

WorkArrives(i) ==
    /\ backlog[i] < MaxBacklog
    /\ backlog' = [backlog EXCEPT ![i] = @ + 1]
    /\ UNCHANGED <<keeper, broken, index, calm, excuse, txVars>>

Excused(lost) ==
    /\ \A i \in Items : excuse[i] + lost[i] <= MaxExcuse
    /\ excuse' = [i \in Items |-> excuse[i] + lost[i]]

\* Somebody else does the work, or a payment takes money that was to be moved.
ServedElsewhere(i) ==
    /\ ~calm /\ backlog[i] > 0
    /\ IF worker.adds
         THEN /\ backlog' = [backlog EXCEPT ![i] = @ - 1]
              /\ Excused([Nothing EXCEPT ![i] = 1])
         ELSE backlog' = [backlog EXCEPT ![i] = 0] /\ UNCHANGED excuse
    /\ UNCHANGED <<keeper, broken, index, calm, txVars>>

\* What the indexer shows once it has seen everything: the position; or what the
\* holder is short of by its row.
Row(i) == IF ~worker.adds THEN 1 ELSE IF backlog[i] > 0 THEN backlog[i] ELSE 0

SetRow(i, row) ==
    /\ worker.list = "index" /\ index[i] # row
    /\ index' = [index EXCEPT ![i] = row]
    /\ UNCHANGED <<keeper, broken, backlog, calm, excuse, txVars>>

\* The indexer applies what has happened, late or never.
IndexFollows(i) == SetRow(i, Row(i))

\* No row, or none among those that are answered: a position opened by a fill or
\* by an order, or liquidated in part; a holder behind 500 others.
IndexDrops(i) == i \in MayDrop /\ SetRow(i, 0)

TroubleEnds ==
    /\ ~calm /\ calm' = TRUE
    /\ UNCHANGED <<keeper, chain, excuse, txVars>>

-----------------------------------------------------------------------------
(* The loop and the tick *)

tickOnly == <<worker, chain, calm, excuse, txVars>>

\* Mutant: a tick starts although another one is under way.
StartTickAnyway(k) ==
    /\ tick[k] = Idle
    /\ waiting' = k
    /\ tick' = [tick EXCEPT ![k] = [phase |-> "read", left |-> Nothing, calls |-> 0]]
    /\ UNCHANGED tickOnly

\* A run's name means nothing: take any that is free.
StartTick(k) ==
    /\ waiting = NoJob /\ tick[k] = Idle
    /\ k = CHOOSE j \in Runs : tick[j] = Idle
    /\ waiting' = k
    /\ tick' = [tick EXCEPT ![k] = [phase |-> "read", left |-> Nothing, calls |-> 0]]
    /\ UNCHANGED tickOnly

\* The tick of run k is over; the loop may have given it up before.
Ended(k) ==
    /\ tick' = [tick EXCEPT ![k] = Idle]
    /\ waiting' = IF waiting = k THEN NoJob ELSE waiting

Due == {i \in Items : backlog[i] > 0}

\* The work list that a read finds; those that ask item by item take them all.
WorkList ==
    [i \in Items |-> IF worker.list \in {"config", "each"} THEN 1
                     ELSE IF worker.list = "index" THEN index[i]
                     ELSE IF i \in Due THEN backlog[i] ELSE 0]

Phase(k, p) == tick[k] # Idle /\ tick[k].phase = p

Start(k, work) ==
    /\ IF work = Nothing
         THEN Ended(k)
         ELSE /\ tick' = [tick EXCEPT ![k] = [phase |-> "work", left |-> work,
                                              calls |-> 0]]
              /\ UNCHANGED waiting
    /\ UNCHANGED tickOnly

ReadWork(k) == Phase(k, "read") /\ Start(k, WorkList)

\* A request fails.  Where users are asked one by one, that hides some items.
ReadFails(k) ==
    /\ ~calm /\ Phase(k, "read") /\ worker.list \in {"index", "strict"}
    /\ \E S \in SUBSET Items :
          /\ worker.list = "strict" => S = {}
          /\ Start(k, [i \in Items |-> IF i \in S THEN WorkList[i] ELSE 0])

\* A request of the read is never answered.
Hang(k) ==
    /\ ~calm /\ Phase(k, "read") /\ waiting = k
    /\ tick' = [tick EXCEPT ![k].phase = "hung"]
    /\ UNCHANGED <<waiting, tickOnly>>

\* Mutant: the loop goes on waiting for the tick that has timed out.
TimeoutIgnored == UNCHANGED vars

\* The loop gives up on a tick.  One that hangs is forgotten, any other goes
\* on: the work in its hands may be done by the next one too.
Timeout ==
    /\ waiting # NoJob
    /\ waiting' = NoJob
    /\ IF tick[waiting].phase = "hung"
         THEN tick' = [tick EXCEPT ![waiting] = Idle] /\ UNCHANGED excuse
         ELSE /\ ~calm
              /\ IF worker.adds
                   THEN Excused(IF tick[waiting].phase = "read"
                                  THEN [i \in Items |-> MaxBacklog]
                                  ELSE tick[waiting].left)
                   ELSE UNCHANGED excuse
              /\ UNCHANGED tick
    /\ UNCHANGED <<worker, chain, calm, txVars>>

-----------------------------------------------------------------------------
(* The calls *)

\* Holders come in the order of their rows' last change, others always in the same.
NextItems(k) ==
    LET ahead == {i \in Items : tick[k].left[i] > 0}
    IN  IF worker.list = "index" /\ worker.adds THEN ahead ELSE {Min(ahead)}

Ready(k) == Phase(k, "work") /\ ~Queued(k)

Without(k, c) == [i \in Items |-> IF c[i] > 0 THEN 0 ELSE tick[k].left[i]]

\* The tick is through with call c.
Done(k, c) ==
    IF Without(k, c) = Nothing \/ tick[k].calls + 1 >= worker.limit
      THEN Ended(k)
      ELSE /\ tick' = [tick EXCEPT ![k].left = Without(k, c),
                                   ![k].calls = @ + 1]
           /\ UNCHANGED waiting

\* The next call of the tick, when i is next.
CallOf(k, i) ==
    IF worker.bundle THEN tick[k].left ELSE [Nothing EXCEPT ![i] = tick[k].left[i]]

\* The item is asked about before its call: nothing to do, or no answer.
PassOver(k) ==
    /\ Ready(k) /\ worker.list = "each"
    /\ \E i \in NextItems(k) : (~calm \/ i \notin Due) /\ Done(k, CallOf(k, i))
    /\ UNCHANGED tickOnly

CallContract(k) ==
    /\ Ready(k)
    /\ \E i \in NextItems(k) :
          (worker.list = "each" => i \in Due) /\ Invoke(k, CallOf(k, i))
    /\ UNCHANGED <<keeper, chain, calm, excuse>>

\* The contract refuses: arguments it does not take, an item that is broken,
\* or nothing there to do.
Refused(c) ==
    \/ ~worker.understood
    \/ \E i \in Items : c[i] > 0 /\ (i \in broken \/ (~worker.adds /\ backlog[i] <= 0))

Attempt ==
    /\ LoadAccount \/ (Send /\ ~Refused(Holder.call))
    /\ UNCHANGED <<keeper, chain, calm, excuse>>

\* The transaction of the attempt that fails may have been applied, or may be.
MayHaveApplied == stage = "poll" /\ (found = "SUCCESS" \/ Holder \in inFlight)

Failed ==
    /\ ~calm \/ (stage = "poll" /\ ~MayHaveApplied)
    /\ IF worker.adds /\ MayHaveApplied THEN Excused(Holder.call) ELSE UNCHANGED excuse

TryAgain ==
    /\ Retry /\ Failed
    /\ UNCHANGED <<keeper, chain, calm>>

\* invoke throws.  Some ticks go on with the next item, others end.
CallThrows ==
    /\ \/ GiveUp /\ Failed
       \/ SimulationRefused /\ (~calm \/ Refused(Holder.call)) /\ UNCHANGED excuse
    /\ IF worker.stops THEN Ended(Holder.job) ELSE Done(Holder.job, Holder.call)
    /\ UNCHANGED <<worker, chain, calm>>

\* invoke returns, also for an answer that it cannot read.
CallReturns ==
    /\ \E garbled \in BOOLEAN : Succeed(garbled) /\ (garbled => ~calm)
    /\ IF worker.adds /\ Holder \in inFlight THEN Excused(Holder.call) ELSE UNCHANGED excuse
    /\ Done(Holder.job, Holder.call)
    /\ UNCHANGED <<worker, chain, calm>>

\* The bound on what is counted as paid beyond what was owed.  From the chain's own
\* numbers no payment comes near it.
Floored(b) == IF worker.list = "index" /\ b < -MaxExcuse THEN -MaxExcuse ELSE b

\* The transaction is included.
Serve(t) ==
    /\ \E ok \in BOOLEAN :
          /\ Include(t, ok)
          /\ ok = ~Refused(t.call) \/ (~ok /\ ~calm)
          /\ backlog' =
               [i \in Items |->
                  IF ~ok \/ t.call[i] = 0 THEN backlog[i]
                  ELSE IF worker.adds THEN Floored(backlog[i] - t.call[i]) ELSE 0]
    /\ UNCHANGED <<keeper, broken, index, calm, excuse>>

TooLate(t) ==
    /\ ~calm /\ Expire(t)
    /\ UNCHANGED <<keeper, chain, calm, excuse>>

\* The process stops and starts again.
Restart ==
    /\ ~calm /\ TxCrash
    /\ IF worker.adds
         THEN Excused([i \in Items |->
                         IF \E t \in inFlight : t.call[i] > 0 THEN MaxBacklog ELSE 0])
         ELSE UNCHANGED excuse
    /\ waiting' = NoJob /\ tick' = [k \in Runs |-> Idle]
    /\ UNCHANGED <<worker, chain, calm>>

-----------------------------------------------------------------------------
RunStep(k) == ReadWork(k) \/ PassOver(k) \/ CallContract(k)

ClientStep == Attempt \/ TryAgain \/ CallThrows \/ CallReturns

NetworkStep == \E t \in Tx : Serve(t)

Next ==
    \/ \E i \in Items : WorkArrives(i) \/ ServedElsewhere(i)
    \/ \E i \in Items : IndexFollows(i) \/ IndexDrops(i)
    \/ \E k \in Runs : StartTick(k) \/ RunStep(k) \/ ReadFails(k) \/ Hang(k)
    \/ ClientStep \/ NetworkStep
    \/ \E t \in Tx : TooLate(t)
    \/ Timeout \/ Restart \/ TroubleEnds

\* The loop's timers run.  Requests of the client end: a hung one would keep
\* the client from everybody.  Trouble ends at some time.
Fairness ==
    /\ WF_vars(\E k \in Runs : StartTick(k))
    /\ \A k \in Runs : WF_vars(RunStep(k))
    /\ WF_vars(Timeout)
    /\ WF_vars(ClientStep) /\ WF_vars(NetworkStep)
    /\ WF_vars(TroubleEnds)

Spec == Init /\ [][Next]_vars /\ Fairness

-----------------------------------------------------------------------------
(* Properties *)

\* Nothing is paid twice: the amount that a tick has read is moved once,
\* although chain and keeper go on between the read and the transaction, but for
\* what a lost answer, an abandoned tick, a restart or a payment in between
\* accounts for.
NothingPaidTwice ==
    worker.adds => \A i \in Items : backlog[i] + excuse[i] >= 0

\* What the worker moves it reads on the chain.
PaysByLedger == worker.adds /\ worker.list # "index"

\* It holds of the workers that do: the sweeper leaves the treasury its reserve,
\* and the yield simulator with a list of its own pays the holders of that list
\* what is due.
LedgerReadersPayOnce ==
    PaysByLedger => \A i \in Items : backlog[i] + excuse[i] >= 0

\* As many others are listed as a tick makes calls: they may be called first, each
\* time.
Crowded(i) ==
    ~worker.bundle /\ Cardinality({j \in Items \ {i} : WorkList[j] > 0}) >= worker.limit

\* Work that the contract accepts gets done once trouble is over: neither the
\* ticks that hung, failed or were given up before, nor a row that comes late, nor
\* an item that fails for good, keep the others waiting.  What may do so for ever:
\* a broken item, for a worker that stops there; to have no row at the indexer;
\* and the others on the list, for a worker that has a limit.
NothingStarves ==
    \A i \in Items, n \in 1 .. MaxBacklog :
        []<>(\/ ~calm \/ backlog[i] # n \/ i \in broken
             \/ worker.stops /\ broken # {}
             \/ worker.list = "index" /\ index[i] = 0
             \/ Crowded(i))
=============================================================================
