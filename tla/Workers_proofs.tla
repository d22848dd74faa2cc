--------------------------- MODULE Workers_proofs ---------------------------
(***************************************************************************)
(* A worker that moves amounts it has read on the chain moves each once,   *)
(* and once more only for the mishaps that are counted: for any items,     *)
(* amounts, runs of its tick and retries of its client.  No tick makes     *)
(* more calls than its worker is allowed, and the variables keep their     *)
(* types.                                                                  *)
(***************************************************************************)
EXTENDS Workers, Arithmetic, TLAPS

-----------------------------------------------------------------------------
(* The inductive invariant *)

Loads == [Items -> 0 .. MaxBacklog]

Working == [phase : {"read", "hung", "work"}, left : Loads, calls : Nat]

Types ==
    /\ txQueue \in Seq(Request) /\ inFlight \subseteq Tx
    /\ worker \in Kinds
    /\ backlog \in [Items -> Int] /\ \A i \in Items : backlog[i] <= MaxBacklog
    /\ excuse \in [Items -> Nat]
    /\ waiting \in Runs \cup {NoJob}
    /\ tick \in [Runs -> {Idle} \cup Working]
    /\ \A k \in Runs : Phase(k, "work") => tick[k].left # Nothing

\* The call takes each item whole from what run k has left, or not at all.
TakenFrom(k, c) == \A i \in Items : c[i] = 0 \/ c[i] = tick[k].left[i]

\* The runs stand where the client's queue says they do.
Linked ==
    /\ \A n \in DOMAIN txQueue :
          Phase(txQueue[n].job, "work") /\ TakenFrom(txQueue[n].job, txQueue[n].call)
    /\ \A n, m \in DOMAIN txQueue : txQueue[n].job = txQueue[m].job => n = m
    /\ \A t \in inFlight : t.job # NoJob =>
          txQueue # << >> /\ stage = "poll" /\ found = "NOT_FOUND" /\ t = Holder
    /\ txQueue = << >> => stage = "load"
    /\ waiting # NoJob => tick[waiting] # Idle
    /\ \A k \in Runs : Phase(k, "hung") => k = waiting

\* The transaction that run k waits for was applied, and k does not know.
Applied(k) == txQueue # << >> /\ stage = "poll" /\ found = "SUCCESS" /\ Holder.job = k

\* What run k may still move of item i.  A run that the loop gave up before it
\* read its list may read anything.
Owed(k, i) ==
    IF tick[k] = Idle THEN 0
    ELSE IF tick[k].phase = "work"
           THEN tick[k].left[i] - (IF Applied(k) THEN Holder.call[i] ELSE 0)
    ELSE IF k = waiting THEN 0 ELSE MaxBacklog

\* The parts of it that fall to the run the loop waits for, and to the others.
ByLoop(k, i) == IF k = waiting THEN Owed(k, i) ELSE 0
Beside(k, i) == IF k = waiting THEN 0 ELSE Owed(k, i)

InLoop(i) == IF waiting = NoJob THEN 0 ELSE Owed(waiting, i)
Adrift(i) == SumFunction([k \in Runs |-> Beside(k, i)])

\* What transactions that nobody waits for may move.
Stray(c, i) == IF [job |-> NoJob, call |-> c] \in inFlight THEN c[i] ELSE 0
Loose(i) == SumFunction([c \in Calls |-> Stray(c, i)])

\* What may move without the loop is excused already; what the loop may move
\* besides was there when it was read.
Covered ==
    \A i \in Items :
        /\ Adrift(i) + Loose(i) <= excuse[i]
        /\ InLoop(i) + Adrift(i) + Loose(i) <= backlog[i] + excuse[i]

\* Rows show amounts that there may be.
IndexTyped == index \in Loads

IInv == Types /\ IndexTyped /\ Linked /\ (PaysByLedger => Covered)

-----------------------------------------------------------------------------
(* Amounts and calls *)

\* Workers that move amounts read their list at once, and a failure ends the tick.
LEMMA Movers ==
    ASSUME NEW w \in Kinds, w.adds
    PROVE  w.list \in {"index", "strict"} /\ w.stops
BY KindsAreWorkers
DEF EveryWorker, OraclePusher, AdminOraclePusher, FundingUpdater, LiquidationBot,
    VaultRoller, RwaNavPusher, YieldSimulator, YieldSimulatorOfList, DripsTo,
    TtlExtender, SlpFeeSweeper, FundingSettler, Worker, HolderRows, ConfiguredHolders

LEMMA NothingTyped == Nothing \in Loads /\ Loads = [Items -> 0 .. MaxBacklog]
                      /\ MaxBacklog \in Nat \ {0} /\ Calls = Loads \ {Nothing}
BY WorkersConstants DEF Nothing, Loads

\* Something left means an item is left, and the first of them is one.
LEMMA SomeItem ==
    ASSUME NEW l \in Loads, l # Nothing
    PROVE  \E i \in Items : l[i] > 0
<1> SUFFICES ASSUME \A i \in Items : ~(l[i] > 0) PROVE FALSE
  OBVIOUS
<1>1. \A i \in Items : l[i] = 0
  BY NothingTyped
<1>2. l = [i \in Items |-> l[i]]
  BY NothingTyped
<1> QED
  BY <1>1, <1>2 DEF Nothing

\* Down to the bound nothing is cut off, and nothing at all for other lists.
LEMMA FlooredTyped ==
    ASSUME NEW b \in Int, b <= MaxBacklog
    PROVE  /\ Floored(b) \in Int /\ Floored(b) <= MaxBacklog
           /\ worker.list = "index" => Floored(b) >= -MaxExcuse
           /\ worker.list # "index" => Floored(b) = b
<1>1. MaxExcuse \in Nat /\ MaxBacklog \in Nat
  BY WorkersConstants
<1>2. CASE worker.list # "index"
  BY <1>2 DEF Floored
<1>3. CASE worker.list = "index"
  <2>1. Floored(b) = IF b < -MaxExcuse THEN -MaxExcuse ELSE b
    BY <1>3 DEF Floored
  <2>2. Floored(b) \in Int /\ Floored(b) <= MaxBacklog /\ Floored(b) >= -MaxExcuse
    BY <1>1, <2>1
  <2> QED
    BY <1>3, <2>2
<1> QED
  BY <1>2, <1>3

LEMMA SmallestNumber ==
    ASSUME NEW S \in SUBSET Nat, S # {}
    PROVE  Min(S) \in S
<1>1. \E m \in S : \A n \in S : <<n, m>> \notin OpToRel(<, Nat)
  BY NatLessThanWellFounded, WFMin, Zenon
<1>2. PICK m \in S : \A n \in S : ~(n < m)
  BY <1>1 DEF OpToRel
<1>3. \A n \in S : m <= n
  BY <1>2
<1> QED
  BY <1>3 DEF Min

LEMMA RunTyped ==
    ASSUME Types, NEW k \in Runs, NEW p, Phase(k, p)
    PROVE  /\ tick[k] \in Working /\ tick[k].left \in Loads
           /\ \A i \in Items : tick[k].left[i] \in Nat /\ tick[k].left[i] <= MaxBacklog
<1>1. tick[k] \in Working
  BY DEF Types, Phase
<1> QED
  BY <1>1, NothingTyped DEF Working

\* The next call is of the calls there are, and takes what is left.
LEMMA NextCall ==
    ASSUME Types, NEW k \in Runs, Phase(k, "work"), NEW i0 \in NextItems(k)
    PROVE  CallOf(k, i0) \in Calls /\ TakenFrom(k, CallOf(k, i0))
<1> DEFINE l == tick[k].left
<1>1. l \in Loads /\ l # Nothing /\ \A i \in Items : l[i] \in Nat /\ l[i] <= MaxBacklog
  BY RunTyped DEF Types
<1>2. CASE worker.bundle
  BY <1>1, <1>2, NothingTyped DEF CallOf, TakenFrom
<1>3. CASE ~worker.bundle
  <2>1. i0 \in Items /\ l[i0] > 0
    <3> DEFINE S == {i \in Items : l[i] > 0}
    <3>1. S # {}
      BY <1>1, SomeItem
    <3>2. S \subseteq Nat
      BY DEF Items
    <3>3. Min(S) \in S
      BY <3>1, <3>2, SmallestNumber
    <3>4. i0 \in S \/ i0 = Min(S)
      BY DEF NextItems
    <3> QED
      BY <3>3, <3>4
  <2>3. CallOf(k, i0) = [Nothing EXCEPT ![i0] = l[i0]]
    BY <1>3 DEF CallOf
  <2>4. \A i \in Items : CallOf(k, i0)[i] = IF i = i0 THEN l[i0] ELSE 0
    BY <2>1, <2>3 DEF Nothing
  <2>5. CallOf(k, i0) \in Loads
    BY <1>1, <2>1, <2>3, NothingTyped
  <2>6. CallOf(k, i0) # Nothing
    BY <1>1, <2>1, <2>4 DEF Nothing
  <2> QED
    BY <2>4, <2>5, <2>6, NothingTyped DEF TakenFrom
<1> QED
  BY <1>2, <1>3

LEMMA WithoutTyped ==
    ASSUME Types, NEW k \in Runs, Phase(k, "work"), NEW c
    PROVE  /\ Without(k, c) \in Loads
           /\ \A i \in Items : /\ c[i] > 0 => Without(k, c)[i] = 0
                               /\ ~(c[i] > 0) => Without(k, c)[i] = tick[k].left[i]
<1>1. tick[k].left \in Loads
  BY RunTyped
<1> QED
  BY <1>1, NothingTyped DEF Without

LEMMA WorkListTyped == ASSUME Types, IndexTyped PROVE WorkList \in Loads
<1>1. ASSUME NEW i \in Items PROVE i \in Due => backlog[i] \in 0 .. MaxBacklog
  BY DEF Types, Due
<1>2. ASSUME NEW i \in Items PROVE index[i] \in 0 .. MaxBacklog
  BY DEF IndexTyped, Loads
<1>3. MaxBacklog \in Nat \ {0}
  BY NothingTyped
<1> QED
  BY <1>1, <1>2, <1>3 DEF WorkList, Loads

-----------------------------------------------------------------------------
(* What becomes of a run in a step of its own *)

\* The step gives run k the state new; the loop keeps its run, lets go of k or
\* takes k.
Becomes(k, new) ==
    /\ tick' = [tick EXCEPT ![k] = new]
    /\ new \in {Idle} \cup Working
    /\ \/ waiting' = waiting
       \/ waiting = k /\ waiting' = NoJob
       \/ waiting = NoJob /\ waiting' = k
    /\ waiting' = k => new # Idle

LEMMA IdleIsNoWork == Idle \notin Working
BY WorkersAreFinite DEF Working, Loads

LEMMA EndedBecomes ==
    ASSUME Types, NEW k \in Runs, Ended(k)
    PROVE  Becomes(k, Idle)
BY TxConstants DEF Types, Ended, Becomes, Runs

LEMMA DoneBecomes ==
    ASSUME Types, NEW k \in Runs, Phase(k, "work"), NEW c, Done(k, c)
    PROVE  \E new : /\ Becomes(k, new)
                    /\ new # Idle => /\ new.phase = "work" /\ waiting' = waiting
                                     /\ new.left = Without(k, c) /\ new.left # Nothing
<1>1. tick[k] \in Working /\ Without(k, c) \in Loads
  BY RunTyped, WithoutTyped
<1>2. CASE Ended(k)
  BY <1>2, EndedBecomes
<1>3. CASE ~Ended(k)
  <2> DEFINE w == Without(k, c)
             new == [tick[k] EXCEPT !.left = w, !.calls = @ + 1]
  <2>1. tick' = [tick EXCEPT ![k].left = w, ![k].calls = @ + 1] /\ waiting' = waiting
        /\ w # Nothing
    BY <1>3 DEF Done
  <2>2. tick \in [Runs -> {Idle} \cup Working]
    BY DEF Types
  <2>3. tick' = [tick EXCEPT ![k] = new]
    BY <2>1, <2>2
  <2>4. tick[k].calls + 1 \in Nat
    BY <1>1 DEF Working
  <2>5. new \in Working /\ new.left = w /\ new.phase = "work"
    BY <1>1, <2>4 DEF Working, Phase
  <2>6. new # Idle
    BY <2>5, IdleIsNoWork
  <2> HIDE DEF new
  <2> QED
    BY <2>1, <2>3, <2>5, <2>6 DEF Becomes
<1> QED
  BY <1>2, <1>3

LEMMA StartBecomes ==
    ASSUME Types, NEW k \in Runs, NEW work \in Loads, Start(k, work)
    PROVE  \E new : /\ Becomes(k, new)
                    /\ new # Idle => /\ new.phase = "work" /\ waiting' = waiting
                                     /\ new.left = work /\ new.left # Nothing
<1>1. CASE work = Nothing
  BY <1>1, EndedBecomes DEF Start
<1>2. CASE work # Nothing
  <2> DEFINE new == [phase |-> "work", left |-> work, calls |-> 0]
  <2>1. new \in Working /\ new # Idle
    BY IdleIsNoWork DEF Working
  <2>2. new.phase = "work" /\ new.left = work
    OBVIOUS
  <2>3. tick' = [tick EXCEPT ![k] = new] /\ waiting' = waiting
    BY <1>2 DEF Start
  <2> HIDE DEF new
  <2> QED
    BY <1>2, <2>1, <2>2, <2>3 DEF Becomes
<1> QED
  BY <1>1, <1>2

\* A run that becomes new keeps the types and leaves the other runs alone.
LEMMA BecomesTyped ==
    ASSUME Types, NEW k \in Runs, NEW new, Becomes(k, new),
           new # Idle => (new.phase = "work" => new.left # Nothing)
    PROVE  /\ tick' \in [Runs -> {Idle} \cup Working]
           /\ tick'[k] = new /\ \A j \in Runs \ {k} : tick'[j] = tick[j]
           /\ waiting' \in Runs \cup {NoJob}
           /\ \A j \in Runs : Phase(j, "work")' => tick'[j].left # Nothing
<1>1. /\ tick \in [Runs -> {Idle} \cup Working] /\ waiting \in Runs \cup {NoJob}
      /\ \A j \in Runs : Phase(j, "work") => tick[j].left # Nothing
  BY DEF Types
<1>2. /\ tick' \in [Runs -> {Idle} \cup Working]
      /\ tick'[k] = new /\ \A j \in Runs \ {k} : tick'[j] = tick[j]
      /\ waiting' \in Runs \cup {NoJob}
  BY <1>1 DEF Becomes
<1> QED
  BY <1>1, <1>2 DEF Phase

\* The run that has the client is at work, and the client's call is of its work.
LEMMA HolderWorks ==
    ASSUME Types, Linked, txQueue # << >>
    PROVE  /\ Holder \in Request /\ Holder.job \in Runs /\ Holder.call \in Calls
           /\ Holder.job # NoJob /\ Holder = txQueue[1] /\ 1 \in DOMAIN txQueue
           /\ Phase(Holder.job, "work") /\ TakenFrom(Holder.job, Holder.call)
<1>1. txQueue \in Seq(Request) /\ txQueue # << >>
  BY DEF Types
<1>2. Holder \in Request /\ Holder = txQueue[1] /\ 1 \in DOMAIN txQueue
  BY <1>1 DEF Holder
<1> QED
  BY <1>2, TxConstants DEF Request, Runs, Linked

LEMMA QueueWorks ==
    ASSUME Types, Linked, NEW n \in DOMAIN txQueue
    PROVE  /\ txQueue[n].job \in Runs /\ txQueue[n].call \in Calls
           /\ Phase(txQueue[n].job, "work") /\ TakenFrom(txQueue[n].job, txQueue[n].call)
<1>1. txQueue[n] \in Request
  BY DEF Types
<1> QED
  BY <1>1 DEF Linked, Request, Runs

\* A run that is not at work, or is ready for its next call, has no request queued.
LEMMA NotQueued ==
    ASSUME Types, Linked, NEW k \in Runs, ~Phase(k, "work") \/ ~Queued(k)
    PROVE  \A n \in DOMAIN txQueue : txQueue[n].job # k
BY QueueWorks DEF Queued

\* What a run that has no request queued does leaves the queue as it is.
LEMMA OthersStay ==
    ASSUME Types, Linked, NEW k \in Runs, NEW new, Becomes(k, new),
           new # Idle => new.phase \in {"read", "hung", "work"},
           new # Idle => (new.phase = "work" => new.left # Nothing),
           new # Idle => (new.phase = "hung" => k = waiting /\ waiting' = k),
           \A n \in DOMAIN txQueue : txQueue[n].job # k,
           UNCHANGED <<worker, chain, excuse, txVars>>
    PROVE  Types' /\ Linked'
<1>1. /\ tick' \in [Runs -> {Idle} \cup Working]
      /\ tick'[k] = new /\ \A j \in Runs \ {k} : tick'[j] = tick[j]
      /\ waiting' \in Runs \cup {NoJob}
      /\ \A j \in Runs : Phase(j, "work")' => tick'[j].left # Nothing
  BY BecomesTyped
<1>2. UNCHANGED <<txQueue, inFlight, stage, found, backlog>>
  BY DEF txVars, chain
<1>3. Types'
  BY <1>1, <1>2 DEF Types
<1>4. ASSUME NEW n \in DOMAIN txQueue
      PROVE  /\ Phase(txQueue[n].job, "work")'
             /\ TakenFrom(txQueue[n].job, txQueue[n].call)'
  <2>1. txQueue[n].job \in Runs \ {k}
    BY QueueWorks
  <2>2. tick'[txQueue[n].job] = tick[txQueue[n].job] /\ txQueue' = txQueue
    BY <1>1, <1>2, <2>1
  <2> QED
    BY <2>2, QueueWorks DEF Phase, TakenFrom
<1>5. waiting' # NoJob => tick'[waiting'] # Idle
  BY <1>1 DEF Linked, Becomes, Types
<1>6. ASSUME NEW j \in Runs, Phase(j, "hung")' PROVE j = waiting'
  <2>1. CASE j = k
    BY <1>1, <1>6, <2>1 DEF Phase
  <2>2. CASE j # k
    <3>1. Phase(j, "hung")
      BY <1>1, <1>6, <2>2 DEF Phase
    <3>2. j = waiting /\ j # NoJob
      BY <3>1, TxConstants DEF Linked, Runs
    <3> QED
      BY <2>2, <3>2 DEF Becomes
  <2> QED
    BY <2>1, <2>2
<1>7. Linked'
  BY <1>2, <1>4, <1>5, <1>6 DEF Linked, Holder
<1> QED
  BY <1>3, <1>7

-----------------------------------------------------------------------------
(* Types and queue through the steps of client, network and process *)

LEMMA AbandonedLoose ==
    ASSUME Types
    PROVE  /\ Abandoned \subseteq Tx /\ \A t \in Abandoned : t.job = NoJob
           /\ \A c : [job |-> NoJob, call |-> c] \in Abandoned
                        <=> \E t \in inFlight : t.call = c
<1>1. \A t \in inFlight : /\ [t EXCEPT !.job = NoJob] = [job |-> NoJob, call |-> t.call]
                          /\ [t EXCEPT !.job = NoJob] \in Tx
  BY DEF Types, Tx
<1> QED
  BY <1>1 DEF Abandoned

\* While the client does not poll, nobody waits for what is in flight.
LEMMA AloneUnlessPolled ==
    ASSUME Types, Linked, stage # "poll" \/ txQueue = << >> \/ found # "NOT_FOUND"
    PROVE  \A t \in inFlight : t.job = NoJob
BY DEF Linked

LEMMA CallTyped ==
    ASSUME NEW c \in Calls
    PROVE  c \in Loads /\ \A i \in Items : c[i] \in Nat /\ c[i] <= MaxBacklog
BY NothingTyped

LEMMA ExcusedTyped ==
    ASSUME Types, NEW lost, \A i \in Items : lost[i] \in Nat, Excused(lost)
    PROVE  /\ excuse' \in [Items -> Nat]
           /\ \A i \in Items : excuse'[i] = excuse[i] + lost[i]
<1>1. \A i \in Items : excuse[i] + lost[i] \in Nat
  BY DEF Types
<1> QED
  BY <1>1 DEF Excused

\* What the end of an attempt adds to the excuses.
Mishap(i) == IF worker.adds /\ MayHaveApplied THEN Holder.call[i] ELSE 0

LEMMA FailedTyped ==
    ASSUME Types, Linked, txQueue # << >>, Failed
    PROVE  /\ excuse' \in [Items -> Nat]
           /\ \A i \in Items : excuse'[i] = excuse[i] + Mishap(i)
<1>1. \A i \in Items : Holder.call[i] \in Nat
  BY HolderWorks, CallTyped
<1>2. CASE worker.adds /\ MayHaveApplied
  <2>1. Excused(Holder.call)
    BY <1>2 DEF Failed
  <2> QED
    BY <1>1, <1>2, <2>1, ExcusedTyped DEF Mishap
<1>3. CASE ~(worker.adds /\ MayHaveApplied)
  <2>1. excuse' = excuse
    BY <1>3 DEF Failed
  <2> QED
    BY <1>3, <2>1 DEF Mishap, Types
<1> QED
  BY <1>2, <1>3

\* The first request leaves the queue, and the run that made it goes on.
LEMMA ReleaseKeeps ==
    ASSUME Types, Linked, txQueue # << >>, Release, NEW new, Becomes(Holder.job, new),
           new # Idle => new.phase = "work" /\ new.left # Nothing,
           UNCHANGED <<worker, chain>>, excuse' \in [Items -> Nat]
    PROVE  Types' /\ Linked'
<1> DEFINE k == Holder.job
<1>1. /\ k \in Runs /\ Holder = txQueue[1]
      /\ txQueue \in Seq(Request) /\ Len(txQueue) \in Nat \ {0}
  BY HolderWorks DEF Types
<1> HIDE DEF k
<1>2. /\ tick' \in [Runs -> {Idle} \cup Working]
      /\ tick'[k] = new /\ \A j \in Runs \ {k} : tick'[j] = tick[j]
      /\ waiting' \in Runs \cup {NoJob}
      /\ \A j \in Runs : Phase(j, "work")' => tick'[j].left # Nothing
  BY <1>1, BecomesTyped DEF k
<1>3. /\ txQueue' = Tail(txQueue) /\ DOMAIN txQueue' = 1 .. Len(txQueue) - 1
      /\ \A n \in 1 .. Len(txQueue) - 1 : txQueue'[n] = txQueue[n + 1]
      /\ txQueue' \in Seq(Request)
  BY <1>1 DEF Release
<1>4. \A n, m \in DOMAIN txQueue : txQueue[n].job = txQueue[m].job => n = m
  BY DEF Linked
<1>5. inFlight' \subseteq Tx /\ \A t \in inFlight' : t.job = NoJob
  BY AbandonedLoose DEF Release
<1>6. Types'
  BY <1>2, <1>3, <1>5 DEF Types, chain
<1>7. ASSUME NEW n \in DOMAIN txQueue'
      PROVE  /\ Phase(txQueue[n].job, "work")'
             /\ TakenFrom(txQueue[n].job, txQueue[n].call)'
  <2>1. n + 1 \in DOMAIN txQueue /\ n + 1 # 1 /\ txQueue'[n] = txQueue[n + 1]
        /\ 1 \in DOMAIN txQueue
    BY <1>1, <1>3
  <2>2. txQueue[n + 1].job \in Runs \ {k}
    BY <1>1, <1>4, <2>1, QueueWorks DEF k
  <2>3. Phase(txQueue[n + 1].job, "work")
        /\ TakenFrom(txQueue[n + 1].job, txQueue[n + 1].call)
    BY <2>1, QueueWorks
  <2> QED
    BY <1>2, <2>1, <2>2, <2>3 DEF Phase, TakenFrom
<1>8. \A n, m \in DOMAIN txQueue' : txQueue'[n].job = txQueue'[m].job => n = m
  <2>1. \A n \in 1 .. Len(txQueue) - 1 : n + 1 \in DOMAIN txQueue
    BY <1>1
  <2>2. \A n, m \in 1 .. Len(txQueue) - 1 : n + 1 = m + 1 => n = m
    OBVIOUS
  <2> QED
    BY <1>3, <1>4, <2>1, <2>2
<1>9. stage' = "load"
  BY DEF Release
<1>10. waiting' # NoJob => tick'[waiting'] # Idle
  BY <1>2 DEF Linked, Becomes, Types, k
<1>11. ASSUME NEW j \in Runs, Phase(j, "hung")' PROVE j = waiting'
  <2>1. j # k /\ Phase(j, "hung")
    BY <1>2, <1>11 DEF Phase
  <2>2. j = waiting /\ j # NoJob
    BY <2>1, TxConstants DEF Linked, Runs
  <2> QED
    BY <2>1, <2>2 DEF Becomes, k
<1>12. Linked'
  BY <1>5, <1>7, <1>8, <1>9, <1>10, <1>11 DEF Linked
<1> QED
  BY <1>6, <1>12

LEMMA ClientStepHasCall ==
    ASSUME ClientStep
    PROVE  txQueue # << >>
BY DEF ClientStep, Attempt, LoadAccount, Send, TryAgain, Retry, CallThrows, GiveUp,
       SimulationRefused, CallReturns, Succeed

\* The attempt goes on or starts again.
LEMMA AttemptKeeps ==
    ASSUME Types, Linked, Attempt \/ TryAgain
    PROVE  Types' /\ Linked'
<1>0. txQueue # << >>
  BY ClientStepHasCall DEF ClientStep
<1>1. UNCHANGED <<txQueue, worker, tick, waiting, backlog>>
  BY DEF Attempt, LoadAccount, Send, TryAgain, Retry, chain, keeper
<1>2. excuse' \in [Items -> Nat]
  BY <1>0, FailedTyped DEF Attempt, TryAgain, Types
<1>3. /\ inFlight' \subseteq Tx
      /\ \A t \in inFlight' : t.job # NoJob =>
            stage' = "poll" /\ found' = "NOT_FOUND" /\ t = Holder
  <2>1. CASE LoadAccount
    BY <2>1, AloneUnlessPolled DEF LoadAccount, Types
  <2>2. CASE Send
    <3>1. Holder \in Tx
      BY <1>0, HolderWorks DEF Tx, Request
    <3> QED
      BY <2>2, <3>1, AbandonedLoose DEF Send
  <2>3. CASE Retry
    BY <2>3, AbandonedLoose DEF Retry
  <2> QED
    BY <2>1, <2>2, <2>3 DEF Attempt, TryAgain
<1>4. Types'
  BY <1>1, <1>2, <1>3 DEF Types, Phase
<1>5. Linked'
  BY <1>0, <1>1, <1>3 DEF Linked, Phase, TakenFrom, Holder
<1> QED
  BY <1>4, <1>5

\* invoke throws or returns: its request leaves the queue, the run goes on without
\* the call, and what is still in flight is excused.
LEMMA CallOver ==
    ASSUME Types, Linked, CallThrows \/ CallReturns
    PROVE  /\ txQueue # << >> /\ Release /\ UNCHANGED <<worker, chain>>
           /\ excuse' \in [Items -> Nat]
           /\ \A i \in Items :
                 excuse'[i] >= excuse[i]
                               + (IF worker.adds /\ Holder \in inFlight
                                    THEN Holder.call[i] ELSE 0)
           /\ \E new : /\ Becomes(Holder.job, new)
                       /\ new # Idle => /\ new.phase = "work" /\ waiting' = waiting
                                        /\ new.left = Without(Holder.job, Holder.call)
                                        /\ new.left # Nothing
<1>1. txQueue # << >>
  BY ClientStepHasCall DEF ClientStep
<1>2. /\ Holder.job \in Runs /\ Phase(Holder.job, "work")
      /\ \A i \in Items : Holder.call[i] \in Nat /\ excuse[i] \in Nat
  BY <1>1, HolderWorks, CallTyped DEF Types
<1>3. Ended(Holder.job) \/ Done(Holder.job, Holder.call)
  BY DEF CallThrows, CallReturns
<1>4. \E new : /\ Becomes(Holder.job, new)
               /\ new # Idle => /\ new.phase = "work" /\ waiting' = waiting
                                /\ new.left = Without(Holder.job, Holder.call)
                                /\ new.left # Nothing
  BY <1>2, <1>3, EndedBecomes, DoneBecomes
<1>5. Release /\ UNCHANGED <<worker, chain>>
  BY DEF CallThrows, CallReturns, GiveUp, SimulationRefused, Succeed
<1>6. /\ excuse' \in [Items -> Nat]
      /\ \A i \in Items :
            excuse'[i] >= excuse[i]
                          + (IF worker.adds /\ Holder \in inFlight
                               THEN Holder.call[i] ELSE 0)
  <2>1. CASE Failed
    <3>1. Holder \in inFlight => MayHaveApplied
      BY <1>2, TxConstants DEF Linked, MayHaveApplied, Runs
    <3> QED
      BY <1>1, <1>2, <2>1, <3>1, FailedTyped DEF Mishap
  <2>2. CASE stage = "send" /\ UNCHANGED excuse
    <3>1. Holder \notin inFlight
      BY <1>2, <2>2, TxConstants DEF Linked, Runs
    <3> QED
      BY <1>2, <2>2, <3>1 DEF Types
  <2>3. CASE worker.adds /\ Holder \in inFlight /\ Excused(Holder.call)
    BY <1>2, <2>3, ExcusedTyped
  <2>4. CASE ~(worker.adds /\ Holder \in inFlight) /\ UNCHANGED excuse
    BY <1>2, <2>4 DEF Types
  <2> QED
    BY <2>1, <2>2, <2>3, <2>4 DEF CallThrows, CallReturns, SimulationRefused
<1> QED
  BY <1>1, <1>4, <1>5, <1>6

LEMMA CallOverKeeps ==
    ASSUME Types, Linked, CallThrows \/ CallReturns
    PROVE  Types' /\ Linked'
BY CallOver, ReleaseKeeps

LEMMA NetworkKeeps ==
    ASSUME Types, Linked, NEW t \in Tx, Serve(t) \/ TooLate(t)
    PROVE  Types' /\ Linked'
<1>1. UNCHANGED <<txQueue, stage, worker, tick, waiting, excuse>>
  BY DEF Serve, Include, TooLate, Expire, keeper
<1>2. \A u \in inFlight' : u \in inFlight /\ found' = found
  BY DEF Serve, Include, TooLate, Expire
<1>3. backlog' \in [Items -> Int] /\ \A i \in Items : backlog'[i] <= MaxBacklog
  <2>1. \A i \in Items : /\ t.call[i] \in Nat /\ backlog[i] \in Int
                         /\ backlog[i] <= MaxBacklog /\ MaxBacklog \in Nat
    BY CallTyped, NothingTyped DEF Tx, Types
  <2>2. \A i \in Items : /\ Floored(backlog[i] - t.call[i]) \in Int
                         /\ Floored(backlog[i] - t.call[i]) <= MaxBacklog
                         /\ 0 <= MaxBacklog
    <3>1. \A i \in Items : /\ backlog[i] - t.call[i] \in Int
                           /\ backlog[i] - t.call[i] <= MaxBacklog /\ 0 <= MaxBacklog
      BY <2>1
    <3> QED
      BY <3>1, FlooredTyped
  <2>3. CASE TooLate(t)
    BY <2>3 DEF TooLate, chain, Types
  <2>4. CASE Serve(t)
    <3>1. PICK ok \in BOOLEAN :
             backlog' = [i \in Items |->
                           IF ~ok \/ t.call[i] = 0 THEN backlog[i]
                           ELSE IF worker.adds THEN Floored(backlog[i] - t.call[i]) ELSE 0]
      BY <2>4 DEF Serve
    <3> QED
      BY <2>1, <2>2, <3>1
  <2> QED
    BY <2>3, <2>4
<1>4. Types'
  BY <1>1, <1>2, <1>3 DEF Types, Phase
<1>5. Linked'
  BY <1>1, <1>2 DEF Linked, Phase, TakenFrom, Holder
<1> QED
  BY <1>4, <1>5

\* What happens elsewhere adds or takes one, and excuses what it takes.
LEMMA ElsewhereKeeps ==
    ASSUME Types, Linked, NEW x \in Items, WorkArrives(x) \/ ServedElsewhere(x)
    PROVE  /\ Types' /\ Linked' /\ UNCHANGED <<worker, tick, waiting, txVars>>
           /\ worker.adds => \A i \in Items :
                 /\ excuse[i] <= excuse'[i]
                 /\ backlog[i] + excuse[i] <= backlog'[i] + excuse'[i]
<1>1. UNCHANGED <<worker, tick, waiting, txVars>>
  BY DEF WorkArrives, ServedElsewhere, keeper
<1>2. \A i \in Items : backlog[i] \in Int /\ backlog[i] <= MaxBacklog /\ excuse[i] \in Nat
  BY DEF Types
<1>3. MaxBacklog \in Nat
  BY NothingTyped
<1>4. /\ backlog' \in [Items -> Int] /\ \A i \in Items : backlog'[i] <= MaxBacklog
      /\ excuse' \in [Items -> Nat]
      /\ worker.adds => \A i \in Items :
            /\ excuse[i] <= excuse'[i]
            /\ backlog[i] + excuse[i] <= backlog'[i] + excuse'[i]
  <2>1. CASE WorkArrives(x)
    <3>1. backlog' = [backlog EXCEPT ![x] = backlog[x] + 1] /\ backlog[x] < MaxBacklog
          /\ excuse' = excuse
      BY <2>1 DEF WorkArrives
    <3> QED
      BY <1>2, <1>3, <3>1 DEF Types
  <2>2. CASE ServedElsewhere(x) /\ worker.adds
    <3> DEFINE one == [Nothing EXCEPT ![x] = 1]
    <3>1. \A i \in Items : one[i] = IF i = x THEN 1 ELSE 0
      BY DEF Nothing
    <3>2. Excused(one) /\ backlog' = [backlog EXCEPT ![x] = backlog[x] - 1]
      BY <2>2 DEF ServedElsewhere
    <3> HIDE DEF one
    <3>3. /\ excuse' \in [Items -> Nat]
          /\ \A i \in Items : excuse'[i] = excuse[i] + one[i]
      BY <3>1, <3>2, ExcusedTyped
    <3>4. \A i \in Items : backlog'[i] = IF i = x THEN backlog[i] - 1 ELSE backlog[i]
      BY <3>2 DEF Types
    <3>5. backlog' \in [Items -> Int]
      BY <1>2, <3>2 DEF Types
    <3>6. ASSUME NEW i \in Items
          PROVE  /\ backlog'[i] <= MaxBacklog /\ excuse[i] <= excuse'[i]
                 /\ backlog[i] + excuse[i] <= backlog'[i] + excuse'[i]
      <4>1. CASE i = x
        BY <1>2, <1>3, <3>1, <3>3, <3>4, <4>1
      <4>2. CASE i # x
        BY <1>2, <1>3, <3>1, <3>3, <3>4, <4>2
      <4> QED
        BY <4>1, <4>2
    <3> QED
      BY <3>3, <3>5, <3>6
  <2>3. CASE ServedElsewhere(x) /\ ~worker.adds
    <3>1. backlog' = [backlog EXCEPT ![x] = 0] /\ excuse' = excuse
      BY <2>3 DEF ServedElsewhere
    <3> QED
      BY <1>2, <1>3, <2>3, <3>1 DEF Types
  <2> QED
    BY <2>1, <2>2, <2>3
<1>5. UNCHANGED <<txQueue, inFlight, stage, found>>
  BY <1>1 DEF txVars
<1>6. Types' /\ Linked'
  BY <1>1, <1>4, <1>5 DEF Types, Linked, Phase, TakenFrom, Holder
<1> QED
  BY <1>1, <1>4, <1>6

\* The loop gives up its run, which is forgotten when it hangs.
LEMMA TimeoutKeeps ==
    ASSUME Types, Linked, Timeout
    PROVE  /\ Types' /\ Linked'
           /\ UNCHANGED <<worker, chain, txVars>> /\ waiting' = NoJob
           /\ waiting \in Runs /\ tick[waiting] # Idle
           /\ \A j \in Runs \ {waiting} : tick'[j] = tick[j]
           /\ \/ Phase(waiting, "hung") /\ tick'[waiting] = Idle /\ excuse' = excuse
              \/ /\ ~Phase(waiting, "hung") /\ tick' = tick
                 /\ worker.adds => \A i \in Items :
                       excuse'[i] = excuse[i] + (IF Phase(waiting, "read") THEN MaxBacklog
                                                 ELSE tick[waiting].left[i])
<1>1. /\ waiting \in Runs /\ waiting' = NoJob /\ tick[waiting] # Idle
      /\ UNCHANGED <<worker, chain, txVars>>
  BY DEF Timeout, Types, Linked
<1>2. tick \in [Runs -> {Idle} \cup Working]
  BY DEF Types
<1>3. UNCHANGED <<txQueue, inFlight, stage, found, backlog>>
  BY <1>1 DEF txVars, chain
<1>4. CASE Phase(waiting, "hung")
  <2>1. tick' = [tick EXCEPT ![waiting] = Idle] /\ excuse' = excuse
    BY <1>4 DEF Timeout, Phase
  <2>2. /\ tick'[waiting] = Idle /\ \A j \in Runs \ {waiting} : tick'[j] = tick[j]
        /\ tick' \in [Runs -> {Idle} \cup Working]
    BY <1>1, <1>2, <2>1
  <2>3. Types'
    BY <1>1, <1>3, <2>1, <2>2 DEF Types, Phase
  <2>4. ASSUME NEW n \in DOMAIN txQueue
        PROVE  /\ Phase(txQueue[n].job, "work")'
               /\ TakenFrom(txQueue[n].job, txQueue[n].call)'
    <3>1. Phase(txQueue[n].job, "work") /\ txQueue[n].job \in Runs
      BY QueueWorks
    <3>2. txQueue[n].job # waiting
      BY <1>4, <3>1 DEF Phase
    <3>3. tick'[txQueue[n].job] = tick[txQueue[n].job]
      BY <2>2, <3>1, <3>2
    <3> QED
      BY <1>3, <3>3, QueueWorks DEF Phase, TakenFrom
  <2>5. ASSUME NEW j \in Runs, Phase(j, "hung")' PROVE FALSE
    BY <2>2, <2>5 DEF Phase, Linked
  <2>6. Linked'
    BY <1>1, <1>3, <2>4, <2>5 DEF Linked, Holder
  <2> QED
    BY <1>1, <1>4, <2>1, <2>2, <2>3, <2>6
<1>5. CASE ~Phase(waiting, "hung")
  <2> DEFINE lost == IF Phase(waiting, "read") THEN [i \in Items |-> MaxBacklog]
                     ELSE tick[waiting].left
  <2>1. tick' = tick /\ (worker.adds => Excused(lost)) /\ (~worker.adds => excuse' = excuse)
    BY <1>1, <1>5 DEF Timeout, Phase
  <2>2. \A i \in Items : lost[i] \in Nat
    <3>1. tick[waiting].left \in Loads
      BY <1>1, <1>2 DEF Working
    <3> QED
      BY <3>1, NothingTyped
  <2> HIDE DEF lost
  <2>3. /\ excuse' \in [Items -> Nat]
        /\ worker.adds => \A i \in Items : excuse'[i] = excuse[i] + lost[i]
    BY <2>1, <2>2, ExcusedTyped DEF Types
  <2>4. Types'
    BY <1>1, <1>3, <2>1, <2>3 DEF Types, Phase
  <2>5. \A j \in Runs : ~Phase(j, "hung")
    BY <1>5 DEF Linked
  <2>6. Linked'
    BY <1>1, <1>3, <2>1, <2>5 DEF Linked, Phase, TakenFrom, Holder
  <2>7. worker.adds => \A i \in Items :
           excuse'[i] = excuse[i] + (IF Phase(waiting, "read") THEN MaxBacklog
                                     ELSE tick[waiting].left[i])
    BY <2>3 DEF lost
  <2> QED
    BY <1>1, <1>5, <2>1, <2>4, <2>6, <2>7
<1> QED
  BY <1>4, <1>5

LEMMA RestartKeeps ==
    ASSUME Types, Linked, Restart
    PROVE  /\ Types' /\ Linked'
           /\ waiting' = NoJob /\ tick' = [k \in Runs |-> Idle]
           /\ inFlight' = Abandoned /\ UNCHANGED <<worker, chain>>
           /\ worker.adds => \A i \in Items :
                 excuse'[i] = excuse[i] + (IF \E t \in inFlight : t.call[i] > 0
                                             THEN MaxBacklog ELSE 0)
<1> DEFINE lost == [i \in Items |->
                      IF \E t \in inFlight : t.call[i] > 0 THEN MaxBacklog ELSE 0]
<1>1. /\ waiting' = NoJob /\ tick' = [k \in Runs |-> Idle]
      /\ txQueue' = << >> /\ stage' = "load" /\ inFlight' = Abandoned
      /\ UNCHANGED <<worker, chain>>
  BY DEF Restart, TxCrash
<1>2. (worker.adds => Excused(lost)) /\ (~worker.adds => excuse' = excuse)
  BY DEF Restart
<1>3. \A i \in Items :
         /\ lost[i] \in Nat
         /\ lost[i] = IF \E t \in inFlight : t.call[i] > 0 THEN MaxBacklog ELSE 0
  BY NothingTyped
<1> HIDE DEF lost
<1>4. /\ excuse' \in [Items -> Nat]
      /\ worker.adds => \A i \in Items : excuse'[i] = excuse[i] + lost[i]
  BY <1>2, <1>3, ExcusedTyped DEF Types
<1>5. inFlight' \subseteq Tx /\ \A t \in inFlight' : t.job = NoJob
  BY <1>1, AbandonedLoose
<1>6. Types'
  BY <1>1, <1>4, <1>5 DEF Types, Phase, chain
<1>7. Linked'
  BY <1>1, <1>5 DEF Linked, Phase
<1> QED
  BY <1>1, <1>3, <1>4, <1>6, <1>7

-----------------------------------------------------------------------------
(* What the runs do by themselves *)

\* The steps of a run without a request in the queue: what it becomes, and what
\* it has left then.
LEMMA RunBecomes ==
    ASSUME Types, IndexTyped, Linked, NEW k \in Runs,
           StartTick(k) \/ ReadWork(k) \/ ReadFails(k) \/ Hang(k) \/ PassOver(k)
    PROVE  /\ \A n \in DOMAIN txQueue : txQueue[n].job # k
           /\ UNCHANGED <<worker, chain, excuse, txVars>>
           /\ \E new :
                 /\ Becomes(k, new)
                 /\ new # Idle =>
                      /\ new.phase \in {"read", "hung", "work"}
                      /\ new.phase = "work" => new.left # Nothing
                      /\ new.phase = "hung" => k = waiting /\ waiting' = k
                      /\ new.phase # "work" => waiting' = k
                      /\ new.phase = "work" /\ PaysByLedger =>
                           /\ Phase(k, "read") /\ waiting' = waiting
                           /\ \A i \in Items :
                                 new.left[i] <= IF i \in Due THEN backlog[i] ELSE 0
<1>1. CASE StartTick(k)
  <2> DEFINE new == [phase |-> "read", left |-> Nothing, calls |-> 0]
  <2>1. new \in Working /\ new # Idle
    BY NothingTyped, IdleIsNoWork DEF Working
  <2>2. new.phase = "read"
    OBVIOUS
  <2>3. tick' = [tick EXCEPT ![k] = new] /\ waiting = NoJob /\ waiting' = k
        /\ tick[k] = Idle /\ UNCHANGED tickOnly
    BY <1>1 DEF StartTick
  <2> HIDE DEF new
  <2>4. Becomes(k, new)
    BY <2>1, <2>3 DEF Becomes
  <2>5. ~Phase(k, "work")
    BY <2>3 DEF Phase
  <2> QED
    BY <2>2, <2>3, <2>4, <2>5, NotQueued DEF tickOnly
<1>2. CASE ReadWork(k) \/ ReadFails(k)
  <2>1. Phase(k, "read") /\ ~Phase(k, "work") /\ UNCHANGED tickOnly
    BY <1>2 DEF ReadWork, ReadFails, Start, Phase
  <2>2. PaysByLedger => worker.list = "strict"
    BY Movers DEF Types, PaysByLedger
  <2>3. \E work \in Loads :
           /\ Start(k, work)
           /\ PaysByLedger => \A i \in Items :
                 work[i] <= IF i \in Due THEN backlog[i] ELSE 0
    <3>1. WorkList \in Loads
      BY WorkListTyped
    <3>2. PaysByLedger => \A i \in Items :
             WorkList[i] <= IF i \in Due THEN backlog[i] ELSE 0
      BY <2>2 DEF WorkList, Types
    <3>3. CASE ReadWork(k)
      BY <3>1, <3>2, <3>3 DEF ReadWork
    <3>4. CASE ReadFails(k)
      <4>1. PICK S \in SUBSET Items :
               Start(k, [i \in Items |-> IF i \in S THEN WorkList[i] ELSE 0])
        BY <3>4 DEF ReadFails
      <4> DEFINE work == [i \in Items |-> IF i \in S THEN WorkList[i] ELSE 0]
      <4>2. work \in Loads
        BY <3>1, NothingTyped
      <4>3. ASSUME PaysByLedger, NEW i \in Items
            PROVE  work[i] <= IF i \in Due THEN backlog[i] ELSE 0
        <5>1. backlog[i] \in Int /\ (i \in Due => backlog[i] > 0)
          BY DEF Types, Due
        <5> QED
          BY <3>2, <4>3, <5>1
      <4> HIDE DEF work
      <4> QED
        BY <4>1, <4>2, <4>3 DEF work
    <3> QED
      BY <1>2, <3>3, <3>4
  <2>4. PICK work \in Loads :
           /\ Start(k, work)
           /\ PaysByLedger => \A i \in Items :
                 work[i] <= IF i \in Due THEN backlog[i] ELSE 0
    BY <2>3
  <2>5. PICK new : /\ Becomes(k, new)
                   /\ new # Idle => /\ new.phase = "work" /\ waiting' = waiting
                                    /\ new.left = work /\ new.left # Nothing
    BY <2>4, StartBecomes
  <2> QED
    BY <2>1, <2>4, <2>5, NotQueued DEF tickOnly
<1>3. CASE Hang(k)
  <2> DEFINE new == [tick[k] EXCEPT !.phase = "hung"]
  <2>1. /\ tick' = [tick EXCEPT ![k].phase = "hung"] /\ waiting = k /\ waiting' = k
        /\ Phase(k, "read") /\ UNCHANGED tickOnly
    BY <1>3 DEF Hang
  <2>2. tick[k] \in Working
    BY <2>1, RunTyped
  <2>3. new \in Working /\ new.phase = "hung" /\ tick' = [tick EXCEPT ![k] = new]
    BY <2>1, <2>2 DEF Working, Types
  <2> HIDE DEF new
  <2>4. new # Idle
    BY <2>3, IdleIsNoWork
  <2>5. Becomes(k, new) /\ ~Phase(k, "work")
    BY <2>1, <2>3, <2>4 DEF Becomes, Phase
  <2> QED
    BY <2>1, <2>3, <2>5, NotQueued DEF tickOnly
<1>4. CASE PassOver(k)
  <2>1. PICK i \in NextItems(k) : Done(k, CallOf(k, i))
    BY <1>4 DEF PassOver
  <2> DEFINE c == CallOf(k, i)
  <2>2. /\ Phase(k, "work") /\ ~Queued(k) /\ Done(k, c) /\ UNCHANGED tickOnly
        /\ worker.list = "each"
    BY <1>4, <2>1 DEF PassOver, Ready
  <2>6. ~PaysByLedger
    BY <2>2, Movers DEF Types, PaysByLedger
  <2> HIDE DEF c
  <2>3. PICK new : /\ Becomes(k, new)
                   /\ new # Idle => /\ new.phase = "work"
                                    /\ new.left = Without(k, c)
                                    /\ new.left # Nothing
    BY <2>2, DoneBecomes
  <2> QED
    BY <2>2, <2>3, <2>6, NotQueued DEF tickOnly
<1> QED
  BY <1>1, <1>2, <1>3, <1>4

LEMMA RunKeeps ==
    ASSUME Types, IndexTyped, Linked, NEW k \in Runs,
           StartTick(k) \/ ReadWork(k) \/ ReadFails(k) \/ Hang(k) \/ PassOver(k)
    PROVE  Types' /\ Linked'
BY RunBecomes, OthersStay

\* A request joins the queue behind the others.
LEMMA CallContractKeeps ==
    ASSUME Types, Linked, NEW k \in Runs, CallContract(k)
    PROVE  /\ Types' /\ Linked'
           /\ UNCHANGED <<worker, tick, waiting, backlog, excuse, stage, found, inFlight>>
           /\ \A j \in Runs : Applied(j)' <=> Applied(j)
           /\ txQueue # << >> => Holder' = Holder
<1>0. PICK i0 \in NextItems(k) : Invoke(k, CallOf(k, i0))
  BY DEF CallContract
<1> DEFINE r == [job |-> k, call |-> CallOf(k, i0)]
           n == Len(txQueue)
<1>1. Phase(k, "work") /\ ~Queued(k) /\ CallOf(k, i0) \in Calls
      /\ TakenFrom(k, CallOf(k, i0))
  BY <1>0, NextCall DEF CallContract, Ready
<1>2. /\ txQueue' = Append(txQueue, r) /\ txQueue \in Seq(Request) /\ r \in Request
      /\ UNCHANGED <<worker, tick, waiting, backlog, excuse, stage, found, inFlight>>
  BY <1>0, <1>1 DEF CallContract, Invoke, Types, Request, Runs, keeper, chain
<1>3. \A m \in DOMAIN txQueue : txQueue[m].job # k
  BY <1>1, NotQueued
<1>4. /\ DOMAIN txQueue = 1 .. n /\ DOMAIN txQueue' = 1 .. n + 1 /\ n \in Nat
      /\ \A m \in 1 .. n : txQueue'[m] = txQueue[m]
      /\ txQueue'[n + 1] = r /\ r.job = k /\ r.call = CallOf(k, i0)
      /\ txQueue' \in Seq(Request)
  BY <1>2
<1>5. txQueue # << >> => Holder' = Holder
  BY <1>2 DEF Holder
<1> HIDE DEF r, n
<1>6. Types'
  BY <1>2, <1>4 DEF Types, Phase
<1>7. ASSUME NEW m \in DOMAIN txQueue'
      PROVE  /\ Phase(txQueue[m].job, "work")'
             /\ TakenFrom(txQueue[m].job, txQueue[m].call)'
  <2>1. CASE m = n + 1
    BY <1>1, <1>2, <1>4, <2>1 DEF Phase, TakenFrom
  <2>2. CASE m \in 1 .. n
    <3>1. m \in DOMAIN txQueue /\ txQueue'[m] = txQueue[m]
      BY <1>4, <2>2
    <3> QED
      BY <1>2, <3>1, QueueWorks DEF Phase, TakenFrom
  <2> QED
    BY <1>4, <2>1, <2>2
<1>8. \A m, l \in DOMAIN txQueue' : txQueue'[m].job = txQueue'[l].job => m = l
  <2>1. \A m, l \in DOMAIN txQueue : txQueue[m].job = txQueue[l].job => m = l
    BY DEF Linked
  <2> QED
    BY <1>3, <1>4, <2>1
<1>9. txQueue' # << >>
  BY <1>4
<1>10. \A t \in inFlight' : t.job # NoJob =>
          stage' = "poll" /\ found' = "NOT_FOUND" /\ t = Holder'
  BY <1>2, <1>5 DEF Linked
<1>11. Linked'
  <2>1. waiting' # NoJob => tick'[waiting'] # Idle
    BY <1>2 DEF Linked
  <2>2. \A j \in Runs : Phase(j, "hung")' => j = waiting'
    BY <1>2 DEF Linked, Phase
  <2> QED
    BY <1>7, <1>8, <1>9, <1>10, <2>1, <2>2 DEF Linked
<1>12. \A j \in Runs : Applied(j)' <=> Applied(j)
  BY <1>2, <1>5, <1>9 DEF Applied, Linked
<1> QED
  BY <1>2, <1>5, <1>6, <1>11, <1>12

LEMMA UnchangedKeeps ==
    ASSUME Types, Linked, UNCHANGED <<keeper, backlog, excuse, txVars>>
    PROVE  Types' /\ Linked'
BY DEF Types, Linked, keeper, txVars, Phase, TakenFrom, Holder

\* What the indexer does changes its rows only.
Indexing(i) == IndexFollows(i) \/ IndexDrops(i)

LEMMA IndexAlone ==
    ASSUME NEW x \in Items, Indexing(x)
    PROVE  /\ UNCHANGED <<keeper, broken, backlog, calm, excuse, txVars>>
           /\ \E row \in {0, Row(x)} : index' = [index EXCEPT ![x] = row]
<1>1. \E row \in {0, Row(x)} : SetRow(x, row)
  BY DEF Indexing, IndexFollows, IndexDrops
<1> QED
  BY <1>1 DEF SetRow

LEMMA IndexTypedKept == ASSUME Types, IndexTyped, [Next]_vars PROVE IndexTyped'
<1>1. CASE index' = index
  BY <1>1 DEF IndexTyped
<1>2. ASSUME NEW x \in Items, Indexing(x) PROVE IndexTyped'
  <2>1. PICK row \in {0, Row(x)} : index' = [index EXCEPT ![x] = row]
    BY <1>2, IndexAlone
  <2>2. MaxBacklog \in Nat \ {0} /\ backlog[x] \in Int /\ backlog[x] <= MaxBacklog
    BY NothingTyped DEF Types
  <2>3. row \in 0 .. MaxBacklog
    BY <2>1, <2>2 DEF Row
  <2> QED
    BY <2>1, <2>3 DEF IndexTyped, Loads
<1>3. CASE \E i \in Items : WorkArrives(i) \/ ServedElsewhere(i)
  BY <1>1, <1>3 DEF WorkArrives, ServedElsewhere
<1>4. CASE \E k \in Runs : StartTick(k) \/ RunStep(k) \/ ReadFails(k) \/ Hang(k)
  BY <1>1, <1>4 DEF StartTick, RunStep, ReadWork, ReadFails, Start, Hang, PassOver,
                    CallContract, tickOnly, chain
<1>5. CASE ClientStep \/ NetworkStep \/ \E t \in Tx : TooLate(t)
  BY <1>1, <1>5 DEF ClientStep, Attempt, TryAgain, CallThrows, CallReturns, NetworkStep,
                    Serve, TooLate, chain
<1>6. CASE Timeout \/ Restart \/ TroubleEnds \/ UNCHANGED vars
  BY <1>1, <1>6 DEF Timeout, Restart, TroubleEnds, vars, chain
<1> QED
  BY <1>2, <1>3, <1>4, <1>5, <1>6 DEF Next, Indexing

LEMMA StandingKept ==
    ASSUME Types, IndexTyped, Linked, [Next]_vars
    PROVE  Types' /\ Linked'
<1>1. ASSUME NEW i \in Items, WorkArrives(i) \/ ServedElsewhere(i)
      PROVE  Types' /\ Linked'
  BY <1>1, ElsewhereKeeps
<1>2. ASSUME NEW k \in Runs, StartTick(k) \/ RunStep(k) \/ ReadFails(k) \/ Hang(k)
      PROVE  Types' /\ Linked'
  BY <1>2, RunKeeps, CallContractKeeps DEF RunStep
<1>3. ASSUME ClientStep PROVE Types' /\ Linked'
  BY <1>3, AttemptKeeps, CallOverKeeps DEF ClientStep
<1>4. ASSUME NEW t \in Tx, Serve(t) \/ TooLate(t) PROVE Types' /\ Linked'
  BY <1>4, NetworkKeeps
<1>5. ASSUME Timeout \/ Restart PROVE Types' /\ Linked'
  BY <1>5, TimeoutKeeps, RestartKeeps
<1>6. ASSUME TroubleEnds \/ UNCHANGED vars PROVE Types' /\ Linked'
  BY <1>6, UnchangedKeeps DEF TroubleEnds, vars, chain
<1>7. ASSUME NEW i \in Items, Indexing(i) PROVE Types' /\ Linked'
  BY <1>7, IndexAlone, UnchangedKeeps
<1> QED
  BY <1>1, <1>2, <1>3, <1>4, <1>5, <1>6, <1>7 DEF Next, NetworkStep, Indexing

-----------------------------------------------------------------------------
(* Sums of what may still move *)

LEMMA OwedTyped ==
    ASSUME Types, Linked, NEW k \in Runs, NEW i \in Items
    PROVE  Owed(k, i) \in Nat /\ ByLoop(k, i) \in Nat /\ Beside(k, i) \in Nat
<1>1. Owed(k, i) \in Nat
  <2>1. CASE Phase(k, "work")
    <3>1. tick[k] # Idle /\ tick[k].phase = "work" /\ tick[k].left[i] \in Nat
      BY <2>1, RunTyped DEF Phase
    <3>2. Applied(k) => Holder.call[i] = 0 \/ Holder.call[i] = tick[k].left[i]
      BY HolderWorks DEF Applied, TakenFrom
    <3> QED
      BY <3>1, <3>2 DEF Owed
  <2>2. CASE ~Phase(k, "work")
    BY <2>2, NothingTyped DEF Owed, Phase
  <2> QED
    BY <2>1, <2>2
<1> QED
  BY <1>1 DEF ByLoop, Beside

LEMMA SumsTyped ==
    ASSUME Types, Linked, NEW i \in Items
    PROVE  /\ Adrift(i) \in Nat /\ Loose(i) \in Nat /\ InLoop(i) \in Nat
           /\ [k \in Runs |-> Beside(k, i)] \in [Runs -> Nat]
           /\ [c \in Calls |-> Stray(c, i)] \in [Calls -> Nat]
<1>1. [k \in Runs |-> Beside(k, i)] \in [Runs -> Nat]
  BY OwedTyped
<1>2. [c \in Calls |-> Stray(c, i)] \in [Calls -> Nat]
  BY CallTyped DEF Stray
<1>3. InLoop(i) \in Nat
  BY OwedTyped DEF InLoop, Types
<1>4. \A S : \A f \in [S -> Nat] : f \in [S -> Int]
  OBVIOUS
<1> QED
  BY <1>1, <1>2, <1>3, <1>4, WorkersAreFinite, SumFunctionType DEF Adrift, Loose

Typed ==
    \A i \in Items :
       /\ Adrift(i) \in Nat /\ Loose(i) \in Nat /\ InLoop(i) \in Nat
       /\ \A k \in Runs : Owed(k, i) \in Nat /\ ByLoop(k, i) \in Nat /\ Beside(k, i) \in Nat

LEMMA TypedNow == Types /\ Linked => Typed
BY OwedTyped, SumsTyped DEF Typed

LEMMA TypedNext == Types' /\ Linked' => Typed'
BY TypedNow, PTL

\* The part of one run changes, those of the others stay.
LEMMA OneRun ==
    ASSUME Types, Linked, Types', Linked', NEW i \in Items, NEW k \in Runs,
           \A j \in Runs \ {k} : /\ Owed(j, i)' = Owed(j, i)
                                 /\ (j = waiting' <=> j = waiting)
    PROVE  /\ Adrift(i)' = Adrift(i) + (Beside(k, i)' - Beside(k, i))
           /\ InLoop(i)' = InLoop(i) + (ByLoop(k, i)' - ByLoop(k, i))
<1> DEFINE f == [j \in Runs |-> Beside(j, i)]
           g == [j \in Runs |-> Beside(j, i)']
<1>1. f \in [Runs -> Int] /\ g \in [Runs -> Int]
  <2>1. \A j \in Runs : Beside(j, i) \in Nat
    BY OwedTyped
  <2>2. \A j \in Runs : Beside(j, i)' \in Nat
    BY TypedNext DEF Typed
  <2> QED
    BY <2>1, <2>2
<1>2. \A j \in Runs \ {k} : g[j] = f[j]
  BY DEF Beside
<1>3. SumFunction(g) = SumFunction(f) + (g[k] - f[k])
  BY <1>1, <1>2, SumChange, WorkersAreFinite
<1>4. Adrift(i) = SumFunction(f) /\ Adrift(i)' = SumFunction(g)
  BY DEF Adrift
<1>5. InLoop(i)' = InLoop(i) + (ByLoop(k, i)' - ByLoop(k, i))
  <2>1. /\ ByLoop(k, i) \in Nat /\ ByLoop(k, i)' \in Nat
        /\ InLoop(i) \in Nat /\ InLoop(i)' \in Nat
    <3>1. ByLoop(k, i) \in Nat /\ InLoop(i) \in Nat
      BY OwedTyped, SumsTyped
    <3>2. ByLoop(k, i)' \in Nat /\ InLoop(i)' \in Nat
      BY TypedNext DEF Typed
    <3> QED
      BY <3>1, <3>2
  <2>2. waiting \in Runs \cup {NoJob} /\ waiting' \in Runs \cup {NoJob} /\ NoJob \notin Runs
    BY TxConstants DEF Types, Runs
  <2>3. CASE waiting \notin {k, NoJob}
    <3>1. waiting' = waiting
      BY <2>2, <2>3
    <3>2. InLoop(i)' = Owed(waiting, i)' /\ InLoop(i) = Owed(waiting, i)
      BY <2>2, <2>3, <3>1 DEF InLoop
    <3>3. Owed(waiting, i)' = Owed(waiting, i)
      BY <2>2, <2>3
    <3> QED
      BY <2>1, <2>3, <3>1, <3>2, <3>3 DEF ByLoop
  <2>4. CASE waiting \in {k, NoJob}
    <3>1. waiting' \in {k, NoJob}
      BY <2>2, <2>4
    <3>2. InLoop(i) = ByLoop(k, i) /\ InLoop(i)' = ByLoop(k, i)'
      BY <2>2, <2>4, <3>1 DEF InLoop, ByLoop
    <3> QED
      BY <2>1, <3>2
  <2> QED
    BY <2>3, <2>4
<1> QED
  BY <1>3, <1>4, <1>5

LEMMA NoRun ==
    ASSUME Types, Linked, Types', Linked', NEW i \in Items, waiting' = waiting,
           \A j \in Runs : Owed(j, i)' = Owed(j, i)
    PROVE  Adrift(i)' = Adrift(i) /\ InLoop(i)' = InLoop(i)
<1>1. Adrift(i)' = Adrift(i)
  <2>1. \A j \in Runs : Beside(j, i)' = Beside(j, i)
    BY DEF Beside
  <2>2. [j \in Runs |-> Beside(j, i)'] = [j \in Runs |-> Beside(j, i)]
    BY <2>1
  <2> QED
    BY <2>2 DEF Adrift
<1>2. InLoop(i)' = InLoop(i)
  BY DEF InLoop, Types
<1> QED
  BY <1>1, <1>2

\* At most one of the calls that may go astray changes.
LEMMA OneCall ==
    ASSUME Types, Linked, Types', Linked', NEW i \in Items, NEW c \in Calls,
           \A d \in Calls \ {c} : Stray(d, i)' = Stray(d, i)
    PROVE  Loose(i)' = Loose(i) + (Stray(c, i)' - Stray(c, i))
<1> DEFINE f == [d \in Calls |-> Stray(d, i)]
           g == [d \in Calls |-> Stray(d, i)']
<1>1. \A d \in Calls : Stray(d, i) \in Int /\ Stray(d, i)' \in Int
  BY CallTyped DEF Stray
<1>2. f \in [Calls -> Int] /\ g \in [Calls -> Int]
  BY <1>1
<1>3. SumFunction(g) = SumFunction(f) + (g[c] - f[c])
  BY <1>2, SumChange, WorkersAreFinite
<1>4. Loose(i) = SumFunction(f) /\ Loose(i)' = SumFunction(g)
  BY DEF Loose
<1> QED
  BY <1>3, <1>4

LEMMA SameCalls ==
    ASSUME NEW i \in Items, \A d \in Calls : Stray(d, i)' = Stray(d, i)
    PROVE  Loose(i)' = Loose(i)
<1>1. [d \in Calls |-> Stray(d, i)'] = [d \in Calls |-> Stray(d, i)]
  OBVIOUS
<1> QED
  BY <1>1 DEF Loose

LEMMA NoCalls ==
    ASSUME NEW i \in Items, inFlight' = {}
    PROVE  Loose(i)' = 0
<1> DEFINE g == [d \in Calls |-> Stray(d, i)']
<1>1. g \in [Calls -> Int] /\ \A d \in Calls : g[d] = 0
  BY DEF Stray
<1>2. SumFunction(g) = 0
  BY <1>1, SumZero, WorkersAreFinite
<1> QED
  BY <1>2 DEF Loose

\* What was in flight goes on alone: only what the client waited for is added.
LEMMA AbandonedSum ==
    ASSUME Types, Linked, Types', Linked', NEW i \in Items,
           \A c \in Calls : [job |-> NoJob, call |-> c] \in inFlight'
                              <=> [job |-> NoJob, call |-> c] \in Abandoned
    PROVE  /\ Loose(i)' <= Loose(i) + (IF txQueue # << >> /\ Holder \in inFlight
                                         THEN Holder.call[i] ELSE 0)
           /\ txQueue # << >> /\ Holder \in inFlight => Holder.call[i] \in Nat
<1>1. \A c \in Calls : [job |-> NoJob, call |-> c] \in inFlight'
                          <=> \E t \in inFlight : t.call = c
  BY AbandonedLoose
<1>2. \A t \in inFlight : t = [job |-> t.job, call |-> t.call]
  BY DEF Types, Tx
<1>3. Loose(i) \in Nat
  BY SumsTyped
<1>4. CASE txQueue # << >> /\ Holder \in inFlight
  <2>1. PICK h \in Calls : h = Holder.call /\ h[i] \in Nat
    BY <1>4, HolderWorks, CallTyped
  <2>2. \A t \in inFlight : t.job = NoJob \/ t.call = h
    BY <2>1 DEF Linked
  <2>3. ASSUME NEW c \in Calls \ {h} PROVE Stray(c, i)' = Stray(c, i)
    <3>1. [job |-> NoJob, call |-> c] \in inFlight' <=> [job |-> NoJob, call |-> c] \in inFlight
      BY <1>1, <1>2, <2>2
    <3> QED
      BY <3>1 DEF Stray
  <2>4. Loose(i)' = Loose(i) + (Stray(h, i)' - Stray(h, i))
    BY <2>1, <2>3, OneCall
  <2>5. Stray(h, i)' \in {0, h[i]} /\ Stray(h, i) \in {0, h[i]}
    BY DEF Stray
  <2>6. Loose(i)' <= Loose(i) + h[i]
    BY <1>3, <2>1, <2>4, <2>5
  <2> QED
    BY <1>4, <2>1, <2>6
<1>5. CASE ~(txQueue # << >> /\ Holder \in inFlight)
  <2>1. \A t \in inFlight : t.job = NoJob
    BY <1>5 DEF Linked
  <2>2. ASSUME NEW c \in Calls PROVE Stray(c, i)' = Stray(c, i)
    <3>1. [job |-> NoJob, call |-> c] \in inFlight' <=> [job |-> NoJob, call |-> c] \in inFlight
      BY <1>1, <1>2, <2>1
    <3> QED
      BY <3>1 DEF Stray
  <2>3. Loose(i)' = Loose(i)
    BY <2>2, SameCalls
  <2> QED
    BY <1>3, <1>5, <2>3
<1> QED
  BY <1>4, <1>5

-----------------------------------------------------------------------------
(* Each step stays covered *)

CoveredAt(i) ==
    /\ Adrift(i) + Loose(i) <= excuse[i]
    /\ InLoop(i) + Adrift(i) + Loose(i) <= backlog[i] + excuse[i]

LEMMA Amounts ==
    ASSUME Types, Linked, Types', Linked', NEW i \in Items
    PROVE  /\ Adrift(i) \in Nat /\ Loose(i) \in Nat /\ InLoop(i) \in Nat
           /\ Adrift(i)' \in Nat /\ Loose(i)' \in Nat /\ InLoop(i)' \in Nat
           /\ \A k \in Runs : /\ Beside(k, i) \in Nat /\ Beside(k, i)' \in Nat
                             /\ ByLoop(k, i) \in Nat /\ ByLoop(k, i)' \in Nat
                             /\ Owed(k, i) \in Nat /\ Owed(k, i)' \in Nat
           /\ backlog[i] \in Int /\ backlog'[i] \in Int
           /\ excuse[i] \in Nat /\ excuse'[i] \in Nat
           /\ MaxBacklog \in Nat /\ backlog[i] <= MaxBacklog
<1>1. Typed /\ Typed'
  BY TypedNow, TypedNext
<1> QED
  BY <1>1, NothingTyped DEF Typed, Types

\* A step whose additions are excused, or taken from what was there, stays covered.
LEMMA RunCovered ==
    ASSUME Types, Linked, Types', Linked', NEW i \in Items, CoveredAt(i), NEW k \in Runs,
           \A j \in Runs \ {k} : /\ Owed(j, i)' = Owed(j, i)
                                 /\ (j = waiting' <=> j = waiting),
           Beside(k, i)' + Loose(i)' + excuse[i] <= Beside(k, i) + Loose(i) + excuse'[i],
           Beside(k, i)' + ByLoop(k, i)' + Loose(i)' + backlog[i] + excuse[i]
             <= Beside(k, i) + ByLoop(k, i) + Loose(i) + backlog'[i] + excuse'[i]
    PROVE  CoveredAt(i)'
<1>1. /\ Adrift(i)' = Adrift(i) + (Beside(k, i)' - Beside(k, i))
      /\ InLoop(i)' = InLoop(i) + (ByLoop(k, i)' - ByLoop(k, i))
  BY OneRun
<1> QED
  BY <1>1, Amounts DEF CoveredAt

LEMMA NoRunCovered ==
    ASSUME Types, Linked, Types', Linked', NEW i \in Items, CoveredAt(i),
           waiting' = waiting, \A j \in Runs : Owed(j, i)' = Owed(j, i),
           Loose(i)' + excuse[i] <= Loose(i) + excuse'[i],
           Loose(i)' + backlog[i] + excuse[i] <= Loose(i) + backlog'[i] + excuse'[i]
    PROVE  CoveredAt(i)'
<1>1. Adrift(i)' = Adrift(i) /\ InLoop(i)' = InLoop(i)
  BY NoRun
<1> QED
  BY <1>1, Amounts DEF CoveredAt

\* A run whose state, transaction and loop are the same owes the same.
LEMMA OwesTheSame ==
    ASSUME NEW j, NEW i, tick'[j] = tick[j], j = waiting' <=> j = waiting,
           Applied(j)' <=> Applied(j), Applied(j) => Holder' = Holder
    PROVE  Owed(j, i)' = Owed(j, i)
BY DEF Owed

LEMMA SameClient ==
    ASSUME UNCHANGED txVars
    PROVE  /\ \A j : Applied(j)' <=> Applied(j)
           /\ Holder' = Holder /\ \A c, i : Stray(c, i)' = Stray(c, i)
BY DEF txVars, Applied, Holder, Stray

LEMMA ElsewhereCovered ==
    ASSUME Types, Linked, worker.adds, NEW x \in Items, WorkArrives(x) \/ ServedElsewhere(x),
           NEW i \in Items, CoveredAt(i)
    PROVE  CoveredAt(i)'
<1>1. /\ Types' /\ Linked' /\ UNCHANGED <<tick, waiting, txVars>>
      /\ excuse[i] <= excuse'[i] /\ backlog[i] + excuse[i] <= backlog'[i] + excuse'[i]
  BY ElsewhereKeeps
<1>2. \A j \in Runs : Owed(j, i)' = Owed(j, i)
  BY <1>1, SameClient, OwesTheSame
<1>3. Loose(i)' = Loose(i)
  BY <1>1, SameClient, SameCalls
<1>4. /\ Loose(i)' + excuse[i] <= Loose(i) + excuse'[i]
      /\ Loose(i)' + backlog[i] + excuse[i] <= Loose(i) + backlog'[i] + excuse'[i]
  BY <1>1, <1>3, Amounts
<1> QED
  BY <1>1, <1>2, <1>4, NoRunCovered

\* A run that starts, reads, hangs or passes an item over: what the loop's run
\* reads is there, and what another reads is less than it might have read.
LEMMA RunStepCovered ==
    ASSUME Types, IndexTyped, Linked, PaysByLedger, NEW k \in Runs,
           StartTick(k) \/ ReadWork(k) \/ ReadFails(k) \/ Hang(k) \/ PassOver(k),
           NEW i \in Items, CoveredAt(i)
    PROVE  CoveredAt(i)'
<1>1. Types' /\ Linked'
  BY RunKeeps
<1>2. /\ \A n \in DOMAIN txQueue : txQueue[n].job # k
      /\ UNCHANGED <<worker, chain, excuse, txVars>>
  BY RunBecomes
<1>3. PICK new :
         /\ Becomes(k, new)
         /\ new # Idle =>
              /\ new.phase \in {"read", "hung", "work"}
              /\ new.phase = "work" => new.left # Nothing
              /\ new.phase # "work" => waiting' = k
              /\ new.phase = "work" =>
                   /\ Phase(k, "read") /\ waiting' = waiting
                   /\ new.left[i] <= IF i \in Due THEN backlog[i] ELSE 0
  BY RunBecomes
<1>4. /\ tick'[k] = new /\ \A j \in Runs \ {k} : tick'[j] = tick[j]
      /\ \A j \in Runs \ {k} : j = waiting' <=> j = waiting
  <2>1. NoJob \notin Runs
    BY TxConstants DEF Runs
  <2>2. Becomes(k, new) /\ (new # Idle => (new.phase = "work" => new.left # Nothing))
    BY <1>3
  <2>3. tick'[k] = new /\ \A j \in Runs \ {k} : tick'[j] = tick[j]
    BY <2>2, BecomesTyped
  <2>4. \A j \in Runs \ {k} : j = waiting' <=> j = waiting
    BY <2>1, <2>2 DEF Becomes
  <2> QED
    BY <2>3, <2>4
<1>5. \A j \in Runs \ {k} : Owed(j, i)' = Owed(j, i)
  BY <1>2, <1>4, SameClient, OwesTheSame
<1>6. Loose(i)' = Loose(i) /\ backlog' = backlog /\ excuse' = excuse
  BY <1>2, SameClient, SameCalls DEF chain
<1>7. ~Applied(k) /\ ~Applied(k)'
  <2>1. ~Applied(k)
    BY <1>2, HolderWorks DEF Applied
  <2> QED
    BY <1>2, <2>1, SameClient
<1>8. CASE Owed(k, i)' = 0
  <2>1. Beside(k, i)' = 0 /\ ByLoop(k, i)' = 0
    BY <1>8 DEF Beside, ByLoop
  <2>2. /\ Beside(k, i)' + Loose(i)' + excuse[i] <= Beside(k, i) + Loose(i) + excuse'[i]
        /\ Beside(k, i)' + ByLoop(k, i)' + Loose(i)' + backlog[i] + excuse[i]
             <= Beside(k, i) + ByLoop(k, i) + Loose(i) + backlog'[i] + excuse'[i]
    BY <1>1, <1>6, <2>1, Amounts
  <2> QED
    BY <1>1, <1>4, <1>5, <2>2, RunCovered
<1>9. CASE Owed(k, i)' # 0
  <2>1. new # Idle /\ new.phase = "work"
    BY <1>3, <1>4, <1>9 DEF Owed
  <2>2. /\ Owed(k, i)' = new.left[i] /\ waiting' = waiting /\ Phase(k, "read")
        /\ new.left[i] <= IF i \in Due THEN backlog[i] ELSE 0
    <3>1. Owed(k, i)' = new.left[i] - 0
      BY <1>4, <1>7, <2>1 DEF Owed
    <3>2. tick'[k] \in Working
      BY <1>1, <1>4, <2>1 DEF Types
    <3>3. new.left[i] \in Nat
      BY <1>4, <3>2, NothingTyped DEF Working
    <3>4. /\ waiting' = waiting /\ Phase(k, "read")
          /\ new.left[i] <= IF i \in Due THEN backlog[i] ELSE 0
      BY <1>3, <2>1
    <3> QED
      BY <3>1, <3>3, <3>4
  <2>3. Owed(k, i) = IF k = waiting THEN 0 ELSE MaxBacklog
    BY <2>2 DEF Owed, Phase
  <2>4. CASE k = waiting
    <3>1. Beside(k, i)' = 0 /\ Beside(k, i) = 0 /\ ByLoop(k, i) = 0
          /\ ByLoop(k, i)' = new.left[i]
      BY <2>2, <2>3, <2>4 DEF Beside, ByLoop
    <3>2. /\ Adrift(i)' = Adrift(i) + (Beside(k, i)' - Beside(k, i))
          /\ InLoop(i)' = InLoop(i) + (ByLoop(k, i)' - ByLoop(k, i))
      BY <1>1, <1>4, <1>5, OneRun
    <3>3. InLoop(i) = 0
      BY <2>3, <2>4, TxConstants DEF InLoop, Runs
    <3>4. Adrift(i)' = Adrift(i) /\ InLoop(i)' = new.left[i]
      BY <1>1, <2>2, <3>1, <3>2, <3>3, Amounts
    <3>5. i \in Due => backlog[i] > 0
      BY DEF Due
    <3>6. new.left[i] \in Nat
      BY <1>1, <2>2, Amounts
    <3>7. new.left[i] + Adrift(i) + Loose(i) <= backlog[i] + excuse[i]
      BY <1>1, <2>2, <3>3, <3>6, Amounts DEF CoveredAt
    <3> QED
      BY <1>6, <3>4, <3>7 DEF CoveredAt
  <2>5. CASE k # waiting
    <3>1. Beside(k, i)' = new.left[i] /\ Beside(k, i) = MaxBacklog
          /\ ByLoop(k, i) = 0 /\ ByLoop(k, i)' = 0
      BY <2>2, <2>3, <2>5 DEF Beside, ByLoop
    <3>2. new.left[i] \in Nat /\ new.left[i] <= MaxBacklog
      BY <1>1, <2>2, Amounts
    <3>3. /\ Beside(k, i)' + Loose(i)' + excuse[i] <= Beside(k, i) + Loose(i) + excuse'[i]
          /\ Beside(k, i)' + ByLoop(k, i)' + Loose(i)' + backlog[i] + excuse[i]
               <= Beside(k, i) + ByLoop(k, i) + Loose(i) + backlog'[i] + excuse'[i]
      BY <1>1, <1>6, <3>1, <3>2, Amounts
    <3> QED
      BY <1>1, <1>4, <1>5, <3>3, RunCovered
  <2> QED
    BY <2>4, <2>5
<1> QED
  BY <1>8, <1>9

LEMMA CallContractCovered ==
    ASSUME Types, Linked, NEW k \in Runs, CallContract(k), NEW i \in Items, CoveredAt(i)
    PROVE  CoveredAt(i)'
<1>1. /\ Types' /\ Linked'
      /\ UNCHANGED <<tick, waiting, backlog, excuse, inFlight>>
      /\ \A j \in Runs : Applied(j)' <=> Applied(j)
      /\ txQueue # << >> => Holder' = Holder
  BY CallContractKeeps
<1>2. \A j \in Runs : Owed(j, i)' = Owed(j, i)
  BY <1>1, OwesTheSame DEF Applied
<1>3. Loose(i)' = Loose(i)
  BY <1>1, SameCalls DEF Stray
<1>4. /\ Loose(i)' + excuse[i] <= Loose(i) + excuse'[i]
      /\ Loose(i)' + backlog[i] + excuse[i] <= Loose(i) + backlog'[i] + excuse'[i]
  <2>1. backlog'[i] = backlog[i] /\ excuse'[i] = excuse[i]
    BY <1>1
  <2>2. Loose(i) \in Nat /\ backlog[i] \in Int /\ excuse[i] \in Nat
    BY <1>1, Amounts
  <2> QED
    BY <1>3, <2>1, <2>2
<1> QED
  BY <1>1, <1>2, <1>4, NoRunCovered

\* Nothing that the client waits for can be in flight unless the answer is open.
LEMMA HeldInFlight ==
    ASSUME Types, Linked, txQueue # << >>, Holder \in inFlight
    PROVE  stage = "poll" /\ found = "NOT_FOUND" /\ ~Applied(Holder.job)
BY HolderWorks DEF Linked, Applied

LEMMA AttemptCovered ==
    ASSUME Types, Linked, Attempt, NEW i \in Items, CoveredAt(i)
    PROVE  CoveredAt(i)'
<1>0. txQueue # << >>
  BY ClientStepHasCall DEF ClientStep
<1>1. Types' /\ Linked' /\ UNCHANGED <<txQueue, tick, waiting, backlog, excuse>>
  BY AttemptKeeps DEF Attempt, LoadAccount, Send, keeper, chain
<1>2. \A j : ~Applied(j) /\ ~Applied(j)'
  BY DEF Attempt, LoadAccount, Send, Applied
<1>3. \A j \in Runs : Owed(j, i)' = Owed(j, i)
  BY <1>1, <1>2, OwesTheSame
<1>4. Loose(i)' <= Loose(i)
  <2>1. CASE LoadAccount
    <3>1. Loose(i)' = Loose(i)
      BY <2>1, SameCalls DEF LoadAccount, Stray
    <3> QED
      BY <1>1, <3>1, Amounts
  <2>2. CASE Send
    <3>1. Holder.job # NoJob /\ Holder \notin inFlight
      BY <1>0, <2>2, HolderWorks, HeldInFlight DEF Send
    <3>2. \A c \in Calls : [job |-> NoJob, call |-> c] \in inFlight'
                             <=> [job |-> NoJob, call |-> c] \in Abandoned
      BY <2>2, <3>1 DEF Send
    <3>3. Loose(i)' <= Loose(i) + 0
      BY <1>1, <3>1, <3>2, AbandonedSum
    <3> QED
      BY <1>1, <3>3, Amounts
  <2> QED
    BY <2>1, <2>2 DEF Attempt
<1>5. /\ Loose(i)' + excuse[i] <= Loose(i) + excuse'[i]
      /\ Loose(i)' + backlog[i] + excuse[i] <= Loose(i) + backlog'[i] + excuse'[i]
  BY <1>1, <1>4, Amounts
<1> QED
  BY <1>1, <1>3, <1>5, NoRunCovered

\* The client starts over: what it sent may be applied still, or was.
LEMMA TryAgainCovered ==
    ASSUME Types, Linked, worker.adds, TryAgain, NEW i \in Items, CoveredAt(i)
    PROVE  CoveredAt(i)'
<1>0. txQueue # << >>
  BY ClientStepHasCall DEF ClientStep
<1>1. Types' /\ Linked' /\ UNCHANGED <<txQueue, tick, waiting, backlog>>
      /\ stage' = "load" /\ inFlight' = Abandoned
  BY AttemptKeeps DEF TryAgain, Retry, keeper, chain
<1>2. PICK k \in Runs : k = Holder.job /\ Phase(k, "work") /\ TakenFrom(k, Holder.call)
  BY <1>0, HolderWorks
<1>3. PICK h \in Calls : h = Holder.call /\ h[i] \in Nat
  BY <1>0, HolderWorks, CallTyped
<1>4. \A j : ~Applied(j)'
  BY <1>1 DEF Applied
<1>5. \A j \in Runs \ {k} : ~Applied(j)
  BY <1>2 DEF Applied
<1>6. ASSUME NEW j \in Runs \ {k}
      PROVE  Owed(j, i)' = Owed(j, i) /\ (j = waiting' <=> j = waiting)
  BY <1>1, <1>4, <1>5, OwesTheSame
<1>7. Owed(k, i)' = tick[k].left[i]
      /\ Owed(k, i) = tick[k].left[i] - (IF Applied(k) THEN h[i] ELSE 0)
  <2>1. tick[k] # Idle /\ tick[k].phase = "work" /\ tick[k].left[i] \in Nat
    BY <1>2, RunTyped DEF Phase
  <2>2. Owed(k, i)' = tick[k].left[i] - 0
    BY <1>1, <1>4, <2>1 DEF Owed
  <2> QED
    BY <1>3, <2>1, <2>2 DEF Owed
<1>8. /\ Loose(i)' <= Loose(i) + (IF Holder \in inFlight THEN h[i] ELSE 0)
      /\ Holder \in inFlight => ~Applied(k)
  BY <1>0, <1>1, <1>2, <1>3, AbandonedSum, HeldInFlight
<1>9. excuse'[i] = excuse[i] + (IF Applied(k) \/ Holder \in inFlight THEN h[i] ELSE 0)
  <2>1. excuse'[i] = excuse[i] + Mishap(i)
    BY <1>0, FailedTyped DEF TryAgain
  <2>2. MayHaveApplied <=> Applied(k) \/ Holder \in inFlight
    BY <1>0, <1>2, HeldInFlight DEF MayHaveApplied, Applied
  <2> QED
    BY <1>3, <2>1, <2>2 DEF Mishap
<1>10. /\ Beside(k, i)' + Loose(i)' + excuse[i] <= Beside(k, i) + Loose(i) + excuse'[i]
       /\ Beside(k, i)' + ByLoop(k, i)' + Loose(i)' + backlog[i] + excuse[i]
            <= Beside(k, i) + ByLoop(k, i) + Loose(i) + backlog'[i] + excuse'[i]
  <2>1. backlog'[i] = backlog[i] /\ tick[k].left[i] \in Nat
    BY <1>1, <1>2, RunTyped
  <2>2. CASE k = waiting
    <3>1. /\ Beside(k, i)' = 0 /\ Beside(k, i) = 0
          /\ ByLoop(k, i)' = Owed(k, i)' /\ ByLoop(k, i) = Owed(k, i)
      BY <1>1, <2>2 DEF Beside, ByLoop
    <3> QED
      BY <1>1, <1>3, <1>7, <1>8, <1>9, <2>1, <3>1, Amounts
  <2>3. CASE k # waiting
    <3>1. /\ Beside(k, i)' = Owed(k, i)' /\ Beside(k, i) = Owed(k, i)
          /\ ByLoop(k, i)' = 0 /\ ByLoop(k, i) = 0
      BY <1>1, <2>3 DEF Beside, ByLoop
    <3> QED
      BY <1>1, <1>3, <1>7, <1>8, <1>9, <2>1, <3>1, Amounts
  <2> QED
    BY <2>2, <2>3
<1> QED
  BY <1>1, <1>6, <1>10, RunCovered

\* invoke throws or returns.
LEMMA CallOverCovered ==
    ASSUME Types, Linked, worker.adds, CallThrows \/ CallReturns,
           NEW i \in Items, CoveredAt(i)
    PROVE  CoveredAt(i)'
<1>1. /\ Types' /\ Linked' /\ txQueue # << >> /\ Release /\ backlog' = backlog
      /\ excuse'[i] >= excuse[i] + (IF Holder \in inFlight THEN Holder.call[i] ELSE 0)
  BY CallOver, CallOverKeeps DEF chain
<1>2. PICK k \in Runs : k = Holder.job /\ Phase(k, "work") /\ TakenFrom(k, Holder.call)
  BY <1>1, HolderWorks
<1>3. PICK h \in Calls : h = Holder.call /\ h[i] \in Nat
  BY <1>1, HolderWorks, CallTyped
<1>4. PICK new : /\ Becomes(k, new)
                 /\ new # Idle => /\ new.phase = "work" /\ waiting' = waiting
                                  /\ new.left = Without(k, h) /\ new.left # Nothing
  BY <1>2, <1>3, CallOver
<1>5. /\ tick'[k] = new /\ \A j \in Runs \ {k} : tick'[j] = tick[j]
      /\ \A j \in Runs \ {k} : j = waiting' <=> j = waiting
  <2>1. NoJob \notin Runs
    BY TxConstants DEF Runs
  <2>2. tick'[k] = new /\ \A j \in Runs \ {k} : tick'[j] = tick[j]
    BY <1>4, BecomesTyped
  <2>3. \A j \in Runs \ {k} : j = waiting' <=> j = waiting
    BY <1>4, <2>1 DEF Becomes
  <2> QED
    BY <2>2, <2>3
<1>6. \A j : ~Applied(j)'
  BY <1>1 DEF Applied, Release
<1>7. \A j \in Runs \ {k} : ~Applied(j)
  BY <1>2 DEF Applied
<1>8. \A j \in Runs \ {k} : Owed(j, i)' = Owed(j, i)
  BY <1>5, <1>6, <1>7, OwesTheSame
<1>9. Owed(k, i)' <= Owed(k, i)
  <2>1. tick[k] # Idle /\ tick[k].phase = "work" /\ tick[k].left[i] \in Nat
    BY <1>2, RunTyped DEF Phase
  <2>2. Owed(k, i) = tick[k].left[i] - (IF Applied(k) THEN h[i] ELSE 0)
    BY <1>3, <2>1 DEF Owed
  <2>3. /\ h[i] > 0 => Without(k, h)[i] = 0
        /\ ~(h[i] > 0) => Without(k, h)[i] = tick[k].left[i]
    BY <1>2, WithoutTyped
  <2>4. CASE new = Idle
    <3>1. Owed(k, i)' = 0
      BY <1>5, <2>4 DEF Owed
    <3> QED
      BY <1>1, <3>1, Amounts
  <2>5. CASE new # Idle
    <3>1. Owed(k, i)' = Without(k, h)[i] - 0
      BY <1>4, <1>5, <1>6, <2>5 DEF Owed
    <3>2. h[i] = 0 \/ h[i] = tick[k].left[i]
      BY <1>2, <1>3 DEF TakenFrom
    <3> QED
      BY <1>3, <2>1, <2>2, <2>3, <3>1, <3>2
  <2> QED
    BY <2>4, <2>5
<1>10. Loose(i)' <= Loose(i) + (IF Holder \in inFlight THEN h[i] ELSE 0)
  BY <1>1, <1>3, AbandonedSum DEF Release
<1>11. Beside(k, i)' <= Beside(k, i) /\ Beside(k, i)' + ByLoop(k, i)' <= Beside(k, i) + ByLoop(k, i)
  <2>1. CASE k = waiting /\ waiting' = waiting
    BY <1>1, <1>9, <2>1, Amounts DEF Beside, ByLoop
  <2>2. CASE k # waiting /\ k # waiting'
    BY <1>1, <1>9, <2>2, Amounts DEF Beside, ByLoop
  <2>3. CASE k = waiting /\ waiting' # waiting
    <3>1. new = Idle /\ Owed(k, i)' = 0
      BY <1>4, <1>5, <2>3 DEF Owed
    <3> QED
      BY <1>1, <3>1, Amounts DEF Beside, ByLoop
  <2>4. CASE k # waiting /\ k = waiting'
    <3>1. new = Idle /\ Owed(k, i)' = 0
      BY <1>4, <1>5, <2>4 DEF Owed
    <3> QED
      BY <1>1, <3>1, Amounts DEF Beside, ByLoop
  <2> QED
    BY <2>1, <2>2, <2>3, <2>4
<1>12. /\ Beside(k, i)' + Loose(i)' + excuse[i] <= Beside(k, i) + Loose(i) + excuse'[i]
       /\ Beside(k, i)' + ByLoop(k, i)' + Loose(i)' + backlog[i] + excuse[i]
            <= Beside(k, i) + ByLoop(k, i) + Loose(i) + backlog'[i] + excuse'[i]
  <2> DEFINE e == IF Holder \in inFlight THEN h[i] ELSE 0
  <2>1. e \in Nat /\ Loose(i)' <= Loose(i) + e /\ excuse'[i] >= excuse[i] + e
    BY <1>1, <1>3, <1>10
  <2> HIDE DEF e
  <2>2. /\ Beside(k, i) \in Nat /\ Beside(k, i)' \in Nat
        /\ ByLoop(k, i) \in Nat /\ ByLoop(k, i)' \in Nat
        /\ Loose(i) \in Nat /\ Loose(i)' \in Nat
        /\ excuse[i] \in Nat /\ excuse'[i] \in Nat
        /\ backlog[i] \in Int /\ backlog'[i] = backlog[i]
    BY <1>1, Amounts
  <2>3. Beside(k, i)' + Loose(i)' + excuse[i] <= Beside(k, i) + Loose(i) + excuse'[i]
    BY <1>11, <2>1, <2>2
  <2>4. Beside(k, i)' + ByLoop(k, i)' + Loose(i)' + backlog[i] + excuse[i]
          <= Beside(k, i) + ByLoop(k, i) + Loose(i) + backlog'[i] + excuse'[i]
    BY <1>11, <2>1, <2>2
  <2> QED
    BY <2>3, <2>4
<1> QED
  BY <1>1, <1>5, <1>8, <1>12, RunCovered

\* A transaction is included: the amount that might move has moved.
LEMMA ServeCovered ==
    ASSUME Types, Linked, PaysByLedger, NEW t \in Tx, Serve(t), NEW i \in Items, CoveredAt(i)
    PROVE  CoveredAt(i)'
<1>1. /\ Types' /\ Linked' /\ t \in inFlight
      /\ UNCHANGED <<txQueue, stage, tick, waiting, excuse>>
      /\ inFlight' = {} /\ t.call \in Calls /\ t.call[i] \in Nat
  BY NetworkKeeps, CallTyped DEF Serve, Include, keeper, Tx
<1>2. Loose(i)' = 0 /\ txQueue' = txQueue
  BY <1>1, NoCalls
<1>3. Holder' = Holder
  BY <1>1 DEF Holder
<1>4. PICK ok \in BOOLEAN :
         /\ Include(t, ok)
         /\ backlog' = [x \in Items |->
                          IF ~ok \/ t.call[x] = 0 THEN backlog[x]
                          ELSE IF worker.adds THEN Floored(backlog[x] - t.call[x]) ELSE 0]
  BY DEF Serve
<1>5. backlog'[i] = IF ok THEN backlog[i] - t.call[i] ELSE backlog[i]
  <2>1. backlog[i] - t.call[i] \in Int /\ backlog[i] - t.call[i] <= MaxBacklog
        /\ backlog[i] - 0 = backlog[i]
    <3>1. backlog[i] \in Int /\ backlog[i] <= MaxBacklog
      BY DEF Types
    <3>2. t.call[i] \in Nat /\ MaxBacklog \in Nat
      BY <1>1, NothingTyped
    <3> QED
      BY <3>1, <3>2
  <2>2. Floored(backlog[i] - t.call[i]) = backlog[i] - t.call[i]
    BY <2>1, FlooredTyped DEF PaysByLedger
  <2> QED
    BY <1>4, <2>1, <2>2 DEF PaysByLedger
<1>6. CASE ok /\ t.job # NoJob
  <2>1. txQueue # << >> /\ stage = "poll" /\ found = "NOT_FOUND" /\ t = Holder
    BY <1>1, <1>6 DEF Linked
  <2>2. PICK k \in Runs : k = Holder.job /\ Phase(k, "work")
    BY <2>1, HolderWorks
  <2>3. found' = "SUCCESS"
    BY <1>4, <1>6, <2>1 DEF Include
  <2>4. \A j : ~Applied(j) /\ (Applied(j)' <=> j = k)
    BY <1>1, <1>3, <2>1, <2>2, <2>3 DEF Applied
  <2>5. \A j \in Runs \ {k} : /\ Owed(j, i)' = Owed(j, i)
                              /\ (j = waiting' <=> j = waiting)
    BY <1>1, <2>4, OwesTheSame
  <2>6. Owed(k, i)' = tick[k].left[i] - t.call[i] /\ Owed(k, i) = tick[k].left[i]
    <3>1. tick[k] # Idle /\ tick[k].phase = "work" /\ tick[k].left[i] \in Nat
      BY <2>2, RunTyped DEF Phase
    <3>2. Owed(k, i) = tick[k].left[i] - 0
      BY <2>4, <3>1 DEF Owed
    <3>3. Owed(k, i)' = tick[k].left[i] - t.call[i]
      BY <1>1, <1>3, <2>1, <2>4, <3>1 DEF Owed
    <3> QED
      BY <3>1, <3>2, <3>3
  <2>7. tick[k].left[i] \in Nat
    BY <2>2, RunTyped
  <2>8. backlog'[i] = backlog[i] - t.call[i] /\ excuse'[i] = excuse[i]
    BY <1>1, <1>5, <1>6
  <2>9. CASE k = waiting
    <3>1. /\ Beside(k, i)' = 0 /\ Beside(k, i) = 0
          /\ ByLoop(k, i)' = Owed(k, i)' /\ ByLoop(k, i) = Owed(k, i)
      BY <1>1, <2>9 DEF Beside, ByLoop
    <3>2. Beside(k, i)' + Loose(i)' + excuse[i] <= Beside(k, i) + Loose(i) + excuse'[i]
      BY <1>1, <1>2, <2>8, <3>1, Amounts
    <3>3. Beside(k, i)' + ByLoop(k, i)' + Loose(i)' + backlog[i] + excuse[i]
            <= Beside(k, i) + ByLoop(k, i) + Loose(i) + backlog'[i] + excuse'[i]
      BY <1>1, <1>2, <2>6, <2>7, <2>8, <3>1, Amounts
    <3> QED
      BY <1>1, <2>5, <3>2, <3>3, RunCovered
  <2>10. CASE k # waiting
    <3>1. /\ Beside(k, i)' = Owed(k, i)' /\ Beside(k, i) = Owed(k, i)
          /\ ByLoop(k, i)' = 0 /\ ByLoop(k, i) = 0
      BY <1>1, <2>10 DEF Beside, ByLoop
    <3>2. Beside(k, i)' + Loose(i)' + excuse[i] <= Beside(k, i) + Loose(i) + excuse'[i]
      BY <1>1, <1>2, <2>6, <2>7, <2>8, <3>1, Amounts
    <3>3. Beside(k, i)' + ByLoop(k, i)' + Loose(i)' + backlog[i] + excuse[i]
            <= Beside(k, i) + ByLoop(k, i) + Loose(i) + backlog'[i] + excuse'[i]
      BY <1>1, <1>2, <2>6, <2>7, <2>8, <3>1, Amounts
    <3> QED
      BY <1>1, <2>5, <3>2, <3>3, RunCovered
  <2> QED
    BY <2>9, <2>10
<1>7. CASE ~ok \/ t.job = NoJob
  <2>1. \A j \in Runs : Applied(j)' <=> Applied(j)
    <3>1. CASE txQueue # << >> /\ stage = "poll" /\ t = Holder
      <4>1. Holder.job # NoJob /\ found = "NOT_FOUND"
        BY <1>1, <3>1, HolderWorks, HeldInFlight
      <4>2. ~ok /\ found' = "FAILED"
        BY <1>4, <1>7, <3>1, <4>1 DEF Include
      <4> QED
        BY <4>1, <4>2 DEF Applied
    <3>2. CASE ~(txQueue # << >> /\ stage = "poll" /\ t = Holder)
      <4>1. found' = found
        BY <1>4, <3>2 DEF Include
      <4> QED
        BY <1>1, <1>3, <4>1 DEF Applied
    <3> QED
      BY <3>1, <3>2
  <2>2. \A j \in Runs : Owed(j, i)' = Owed(j, i)
    BY <1>1, <1>3, <2>1, OwesTheSame
  <2>3. t.job = NoJob => t.call[i] <= Loose(i)
    <3>1. t = [job |-> t.job, call |-> t.call]
      BY DEF Tx
    <3>2. t.job = NoJob => Stray(t.call, i) = t.call[i]
      BY <1>1, <3>1 DEF Stray
    <3> DEFINE f == [c \in Calls |-> Stray(c, i)]
    <3>3. f \in [Calls -> Nat] /\ f \in [Calls -> Int]
      BY SumsTyped
    <3>4. f[t.call] <= Loose(i)
      BY <1>1, <3>3, SumFunctionType, WorkersAreFinite DEF Loose
    <3> QED
      BY <1>1, <3>2, <3>4
  <2>4. Loose(i)' + backlog[i] + excuse[i] <= Loose(i) + backlog'[i] + excuse'[i]
    <3>1. CASE ~ok
      BY <1>1, <1>2, <1>5, <3>1, Amounts
    <3>2. CASE t.job = NoJob
      BY <1>1, <1>2, <1>5, <2>3, <3>2, Amounts
    <3> QED
      BY <1>7, <3>1, <3>2
  <2>5. Loose(i)' + excuse[i] <= Loose(i) + excuse'[i]
    BY <1>1, <1>2, Amounts
  <2> QED
    BY <1>1, <2>2, <2>4, <2>5, NoRunCovered
<1> QED
  BY <1>6, <1>7

LEMMA TooLateCovered ==
    ASSUME Types, Linked, NEW t \in Tx, TooLate(t), NEW i \in Items, CoveredAt(i)
    PROVE  CoveredAt(i)'
<1>1. /\ Types' /\ Linked' /\ inFlight' = inFlight \ {t}
      /\ UNCHANGED <<txQueue, stage, found, tick, waiting, backlog, excuse>>
  BY NetworkKeeps DEF TooLate, Expire, keeper, chain
<1>2. \A j \in Runs : Owed(j, i)' = Owed(j, i)
  BY <1>1, OwesTheSame DEF Applied, Holder
<1>3. PICK c \in Calls : c = t.call /\ c[i] \in Nat
  BY CallTyped DEF Tx
<1>4. ASSUME NEW d \in Calls \ {c} PROVE Stray(d, i)' = Stray(d, i)
  <2>1. [job |-> NoJob, call |-> d] # t
    BY <1>3
  <2> QED
    BY <1>1, <2>1 DEF Stray
<1>5. Stray(c, i)' <= Stray(c, i) /\ Stray(c, i) \in Nat /\ Stray(c, i)' \in Nat
  BY <1>1, <1>3 DEF Stray
<1>6. Loose(i)' <= Loose(i)
  <2>1. Loose(i)' = Loose(i) + (Stray(c, i)' - Stray(c, i))
    BY <1>1, <1>4, OneCall
  <2> QED
    BY <1>1, <1>5, <2>1, Amounts
<1>7. /\ Loose(i)' + excuse[i] <= Loose(i) + excuse'[i]
      /\ Loose(i)' + backlog[i] + excuse[i] <= Loose(i) + backlog'[i] + excuse'[i]
  BY <1>1, <1>6, Amounts
<1> QED
  BY <1>1, <1>2, <1>7, NoRunCovered

\* The run that the loop gives up may move what it has, or what it is to read.
LEMMA TimeoutCovered ==
    ASSUME Types, Linked, worker.adds, Timeout, NEW i \in Items, CoveredAt(i)
    PROVE  CoveredAt(i)'
<1>1. PICK k \in Runs : k = waiting
  BY TimeoutKeeps
<1>2. /\ Types' /\ Linked' /\ UNCHANGED <<chain, txVars>> /\ waiting' = NoJob
      /\ tick[k] # Idle /\ \A j \in Runs \ {k} : tick'[j] = tick[j]
      /\ \/ Phase(k, "hung") /\ tick'[k] = Idle /\ excuse' = excuse
         \/ /\ ~Phase(k, "hung") /\ tick' = tick
            /\ excuse'[i] = excuse[i] + (IF Phase(k, "read") THEN MaxBacklog
                                         ELSE tick[k].left[i])
  BY <1>1, TimeoutKeeps
<1>3. NoJob \notin Runs /\ tick[k] \in Working /\ backlog' = backlog
  BY <1>2, TxConstants DEF Runs, Types, chain
<1>4. \A j \in Runs \ {k} : /\ Owed(j, i)' = Owed(j, i)
                            /\ (j = waiting' <=> j = waiting)
  BY <1>1, <1>2, <1>3, SameClient, OwesTheSame
<1>5. Loose(i)' = Loose(i)
  BY <1>2, SameClient, SameCalls
<1>6. Beside(k, i) = 0 /\ ByLoop(k, i)' = 0 /\ Beside(k, i)' = Owed(k, i)'
  BY <1>1, <1>2, <1>3 DEF Beside, ByLoop
<1>7. excuse[i] + Owed(k, i)' <= excuse'[i]
  <2>1. CASE Phase(k, "hung")
    <3>1. tick'[k] = Idle /\ excuse'[i] = excuse[i]
      BY <1>2, <2>1
    <3> QED
      BY <1>2, <3>1, Amounts DEF Owed
  <2>2. CASE Phase(k, "read")
    <3>1. tick' = tick /\ excuse'[i] = excuse[i] + MaxBacklog
      BY <1>2, <2>2 DEF Phase
    <3>2. Owed(k, i)' = MaxBacklog
      BY <1>1, <1>2, <1>3, <2>2, <3>1 DEF Owed, Phase
    <3> QED
      BY <1>2, <3>1, <3>2, Amounts
  <2>3. CASE Phase(k, "work")
    <3>1. tick' = tick /\ excuse'[i] = excuse[i] + tick[k].left[i]
      BY <1>2, <2>3 DEF Phase
    <3>2. tick[k].left[i] \in Nat
      BY <2>3, RunTyped
    <3>3. Owed(k, i)' = tick[k].left[i] - (IF Applied(k) THEN Holder.call[i] ELSE 0)
      <4>1. (Applied(k)' <=> Applied(k)) /\ Holder' = Holder
        BY <1>2, SameClient
      <4> QED
        BY <1>2, <2>3, <3>1, <4>1 DEF Owed, Phase
    <3>4. Applied(k) => Holder.call[i] \in Nat
      BY HolderWorks, CallTyped DEF Applied
    <3> QED
      BY <1>2, <3>1, <3>2, <3>3, <3>4, Amounts
  <2>4. Phase(k, "hung") \/ Phase(k, "read") \/ Phase(k, "work")
    BY <1>2, <1>3 DEF Phase, Working
  <2> QED
    BY <2>1, <2>2, <2>3, <2>4
<1>8. /\ Beside(k, i)' + Loose(i)' + excuse[i] <= Beside(k, i) + Loose(i) + excuse'[i]
      /\ Beside(k, i)' + ByLoop(k, i)' + Loose(i)' + backlog[i] + excuse[i]
           <= Beside(k, i) + ByLoop(k, i) + Loose(i) + backlog'[i] + excuse'[i]
  BY <1>2, <1>3, <1>5, <1>6, <1>7, Amounts
<1> QED
  BY <1>2, <1>4, <1>8, RunCovered

\* The process forgets its runs; what it sent may be applied still.
LEMMA RestartCovered ==
    ASSUME Types, Linked, worker.adds, Restart, NEW i \in Items, CoveredAt(i)
    PROVE  CoveredAt(i)'
<1>1. /\ Types' /\ Linked' /\ waiting' = NoJob /\ tick' = [k \in Runs |-> Idle]
      /\ inFlight' = Abandoned /\ backlog' = backlog
      /\ excuse'[i] = excuse[i] + (IF \E t \in inFlight : t.call[i] > 0
                                     THEN MaxBacklog ELSE 0)
  BY RestartKeeps DEF chain
<1>2. InLoop(i)' = 0
  BY <1>1 DEF InLoop
<1>3. Adrift(i)' = 0
  <2> DEFINE g == [k \in Runs |-> Beside(k, i)']
  <2>1. g \in [Runs -> Int] /\ \A k \in Runs : g[k] = 0
    BY <1>1 DEF Beside, Owed
  <2>2. SumFunction(g) = 0
    BY <2>1, SumZero, WorkersAreFinite
  <2> QED
    BY <2>2 DEF Adrift
<1>4. Loose(i)' + excuse[i] <= Loose(i) + excuse'[i]
  <2>1. Loose(i)' <= Loose(i) + (IF txQueue # << >> /\ Holder \in inFlight
                                   THEN Holder.call[i] ELSE 0)
    BY <1>1, AbandonedSum
  <2>2. CASE txQueue # << >> /\ Holder \in inFlight
    <3>1. Holder.call[i] \in Nat /\ Holder.call[i] <= MaxBacklog
      BY <2>2, HolderWorks, CallTyped
    <3> DEFINE e == IF \E t \in inFlight : t.call[i] > 0 THEN MaxBacklog ELSE 0
    <3>2. Holder.call[i] <= e /\ e \in Nat
      BY <1>1, <2>2, <3>1, Amounts
    <3>3. excuse'[i] = excuse[i] + e /\ Loose(i)' <= Loose(i) + Holder.call[i]
      BY <1>1, <2>1, <2>2
    <3> HIDE DEF e
    <3>4. Loose(i) \in Nat /\ Loose(i)' \in Nat /\ excuse[i] \in Nat
      BY <1>1, Amounts
    <3> QED
      BY <3>1, <3>2, <3>3, <3>4
  <2>3. CASE ~(txQueue # << >> /\ Holder \in inFlight)
    <3>1. Loose(i)' <= Loose(i) + 0
      BY <2>1, <2>3
    <3> DEFINE e == IF \E t \in inFlight : t.call[i] > 0 THEN MaxBacklog ELSE 0
    <3>2. e \in Nat /\ excuse'[i] = excuse[i] + e
      BY <1>1, NothingTyped
    <3> HIDE DEF e
    <3>3. Loose(i) \in Nat /\ Loose(i)' \in Nat /\ excuse[i] \in Nat
      BY <1>1, Amounts
    <3> QED
      BY <3>1, <3>2, <3>3
  <2> QED
    BY <2>2, <2>3
<1> QED
  BY <1>1, <1>2, <1>3, <1>4, Amounts DEF CoveredAt

LEMMA UnchangedCovered ==
    ASSUME Types, Linked, UNCHANGED <<keeper, backlog, excuse, txVars>>,
           NEW i \in Items, CoveredAt(i)
    PROVE  CoveredAt(i)'
<1>1. /\ Types' /\ Linked' /\ UNCHANGED <<tick, waiting, backlog, excuse, txVars>>
  BY UnchangedKeeps DEF keeper
<1>2. \A j \in Runs : Owed(j, i)' = Owed(j, i)
  BY <1>1, SameClient, OwesTheSame
<1>3. Loose(i)' = Loose(i)
  BY <1>1, SameClient, SameCalls
<1>4. /\ Loose(i)' + excuse[i] <= Loose(i) + excuse'[i]
      /\ Loose(i)' + backlog[i] + excuse[i] <= Loose(i) + backlog'[i] + excuse'[i]
  BY <1>1, <1>3, Amounts
<1> QED
  BY <1>1, <1>2, <1>4, NoRunCovered

LEMMA CoveredKept ==
    ASSUME Types, IndexTyped, Linked, PaysByLedger, [Next]_vars, Covered
    PROVE  Covered'
<1> SUFFICES ASSUME NEW i \in Items PROVE CoveredAt(i)'
  BY DEF Covered, CoveredAt
<1>0. CoveredAt(i) /\ worker.adds
  BY DEF Covered, CoveredAt, PaysByLedger
<1>1. ASSUME NEW x \in Items, WorkArrives(x) \/ ServedElsewhere(x) PROVE CoveredAt(i)'
  BY <1>0, <1>1, ElsewhereCovered
<1>2. ASSUME NEW k \in Runs, StartTick(k) \/ RunStep(k) \/ ReadFails(k) \/ Hang(k)
      PROVE  CoveredAt(i)'
  BY <1>0, <1>2, RunStepCovered, CallContractCovered DEF RunStep
<1>3. ASSUME ClientStep PROVE CoveredAt(i)'
  BY <1>0, <1>3, AttemptCovered, TryAgainCovered, CallOverCovered DEF ClientStep
<1>4. ASSUME NEW t \in Tx, Serve(t) \/ TooLate(t) PROVE CoveredAt(i)'
  BY <1>0, <1>4, ServeCovered, TooLateCovered
<1>5. ASSUME Timeout \/ Restart PROVE CoveredAt(i)'
  BY <1>0, <1>5, TimeoutCovered, RestartCovered
<1>6. ASSUME TroubleEnds \/ UNCHANGED vars PROVE CoveredAt(i)'
  BY <1>0, <1>6, UnchangedCovered DEF TroubleEnds, vars, chain
<1>7. ASSUME NEW x \in Items, Indexing(x) PROVE CoveredAt(i)'
  BY <1>0, <1>7, IndexAlone, UnchangedCovered
<1> QED
  BY <1>1, <1>2, <1>3, <1>4, <1>5, <1>6, <1>7 DEF Next, NetworkStep, Indexing

-----------------------------------------------------------------------------
(* Theorems *)

LEMMA Initially == Init => IInv
<1> SUFFICES ASSUME Init PROVE IInv
  OBVIOUS
<1>1. /\ txQueue = << >> /\ inFlight = {} /\ stage = "load"
      /\ backlog = Nothing /\ excuse = Nothing /\ worker \in Kinds
      /\ waiting = NoJob /\ tick = [k \in Runs |-> Idle]
  BY DEF Init, TxInit
<1>2. Types
  BY <1>1, NothingTyped DEF Types, Phase, Nothing
<1>3. Linked
  BY <1>1 DEF Linked, Phase
<1>5. IndexTyped
  BY NothingTyped DEF Init, IndexTyped, Loads
<1>4. ASSUME NEW i \in Items PROVE CoveredAt(i)
  <2>1. InLoop(i) = 0 /\ backlog[i] = 0 /\ excuse[i] = 0
    BY <1>1 DEF InLoop, Nothing
  <2>2. Adrift(i) = 0
    <3> DEFINE f == [k \in Runs |-> Beside(k, i)]
    <3>1. f \in [Runs -> Int] /\ \A k \in Runs : f[k] = 0
      BY <1>1 DEF Beside, Owed
    <3>2. SumFunction(f) = 0
      BY <3>1, SumZero, WorkersAreFinite
    <3> QED
      BY <3>2 DEF Adrift
  <2>3. Loose(i) = 0
    <3> DEFINE f == [c \in Calls |-> Stray(c, i)]
    <3>1. f \in [Calls -> Int] /\ \A c \in Calls : f[c] = 0
      BY <1>1 DEF Stray
    <3>2. SumFunction(f) = 0
      BY <3>1, SumZero, WorkersAreFinite
    <3> QED
      BY <3>2 DEF Loose
  <2> QED
    BY <2>1, <2>2, <2>3 DEF CoveredAt
<1> QED
  BY <1>2, <1>3, <1>4, <1>5 DEF IInv, Covered, CoveredAt

LEMMA Inductive == IInv /\ [Next]_vars => IInv'
<1> SUFFICES ASSUME IInv, [Next]_vars PROVE IInv'
  OBVIOUS
<1>1. Types' /\ IndexTyped' /\ Linked'
  BY StandingKept, IndexTypedKept DEF IInv
<1>2. worker' = worker
  BY DEF IndexFollows, IndexDrops, SetRow, Next, vars, keeper, WorkArrives, ServedElsewhere, StartTick, RunStep, ReadWork,
         ReadFails, Start, Hang, PassOver, CallContract, tickOnly, ClientStep, Attempt,
         TryAgain, CallThrows, CallReturns, NetworkStep, Serve, TooLate, Timeout,
         Restart, TroubleEnds
<1>3. PaysByLedger => Covered'
  BY CoveredKept DEF IInv
<1> QED
  BY <1>1, <1>2, <1>3 DEF IInv, PaysByLedger

THEOREM Invariance == Spec => []IInv
BY Initially, Inductive, PTL DEF Spec

LEMMA NothingTwice == IInv => LedgerReadersPayOnce
<1> SUFFICES ASSUME IInv, PaysByLedger, NEW i \in Items
             PROVE  backlog[i] + excuse[i] >= 0
  BY DEF LedgerReadersPayOnce
<1>1. InLoop(i) + Adrift(i) + Loose(i) <= backlog[i] + excuse[i]
  BY DEF IInv, Covered
<1>2. /\ InLoop(i) \in Nat /\ Adrift(i) \in Nat /\ Loose(i) \in Nat
      /\ backlog[i] \in Int /\ excuse[i] \in Nat
  BY TypedNow DEF IInv, Typed, Types
<1> QED
  BY <1>1, <1>2

\* A worker that reads on the chain the amounts it moves moves none twice, but for
\* mishaps: whatever is read, lost, abandoned and included late, more was moved of
\* an item than was owed only by what mishaps of that item account for.  (The yield
\* simulator that goes by the indexer's rows is not such a worker.)
THEOREM MovedOnce == Spec => []LedgerReadersPayOnce
BY NothingTwice, Invariance, PTL

-----------------------------------------------------------------------------
(* The types *)

ClientTyped ==
    /\ stage \in {"load", "send", "poll"} /\ attempt \in 0 .. MaxRetries
    /\ loaded \in BOOLEAN /\ found \in {"NOT_FOUND", "SUCCESS", "FAILED"}

\* What is counted stays counted in its bounds, and only a worker that moves
\* amounts can move more than there is; by the indexer's rows, down to the bound.
Counted ==
    /\ broken \subseteq Items /\ calm \in BOOLEAN
    /\ \A i \in Items : excuse[i] <= MaxExcuse
    /\ ~worker.adds => \A i \in Items : backlog[i] >= 0
    /\ worker.list = "index" => \A i \in Items : backlog[i] >= -MaxExcuse

\* A tick ends with the last call it is allowed.
Limited == \A k \in Runs : tick[k] # Idle => tick[k].calls < worker.limit

LEMMA SomeCallAllowed == ASSUME NEW w \in Kinds PROVE w.limit \in Nat /\ 0 < w.limit
BY KindsAreWorkers, WorkersConstants
DEF EveryWorker, OraclePusher, AdminOraclePusher, FundingUpdater, LiquidationBot,
    VaultRoller, RwaNavPusher, YieldSimulator, YieldSimulatorOfList, DripsTo,
    TtlExtender, SlpFeeSweeper, FundingSettler, Worker

LEMMA ClientTypedKept == ASSUME ClientTyped, [Next]_vars PROVE ClientTyped'
<1>1. CASE UNCHANGED txVars
  BY <1>1 DEF ClientTyped, txVars
<1>2. CASE LoadAccount \/ Send \/ Release
  <2>1. attempt' = attempt \/ attempt' = 0
    BY <1>2 DEF LoadAccount, Send, Release
  <2>2. attempt' \in 0 .. MaxRetries
    BY <2>1, TxConstants DEF ClientTyped
  <2>3. stage' \in {"load", "send", "poll"} /\ loaded' \in BOOLEAN
    BY <1>2 DEF LoadAccount, Send, Release, ClientTyped
  <2>4. found' = found \/ found' = "NOT_FOUND"
    BY <1>2 DEF LoadAccount, Send, Release
  <2> QED
    BY <2>2, <2>3, <2>4 DEF ClientTyped
<1>3. CASE Retry
  <2>1. attempt < MaxRetries /\ attempt' = attempt + 1
    BY <1>3 DEF Retry
  <2>2. attempt' \in 0 .. MaxRetries
    BY <2>1, TxConstants DEF ClientTyped
  <2>3. stage' = "load" /\ loaded' = FALSE /\ found' = "NOT_FOUND"
    BY <1>3 DEF Retry
  <2> QED
    BY <2>2, <2>3 DEF ClientTyped
<1>4. CASE TxCrash
  <2>1. attempt' = 0 /\ 0 \in 0 .. MaxRetries
    BY <1>4, TxConstants DEF TxCrash
  <2>2. stage' = "load" /\ loaded' = FALSE /\ found' = "NOT_FOUND"
    BY <1>4 DEF TxCrash
  <2> QED
    BY <2>1, <2>2 DEF ClientTyped
<1>5. ASSUME NEW t \in Tx, (\E ok \in BOOLEAN : Include(t, ok)) \/ Expire(t)
      PROVE  ClientTyped'
  BY <1>5 DEF Include, Expire, ClientTyped
<1>6. ASSUME NEW j, NEW c, Invoke(j, c) PROVE ClientTyped'
  BY <1>6 DEF Invoke, ClientTyped
<1>7. CASE ClientStep
  BY <1>2, <1>3, <1>7
  DEF ClientStep, Attempt, TryAgain, CallThrows, CallReturns, GiveUp,
      SimulationRefused, Succeed
<1>8. ASSUME NEW i \in Items, WorkArrives(i) \/ ServedElsewhere(i) \/ Indexing(i)
      PROVE  ClientTyped'
  BY <1>1, <1>8, IndexAlone DEF WorkArrives, ServedElsewhere
<1>9. ASSUME NEW k \in Runs, StartTick(k) \/ RunStep(k) \/ ReadFails(k) \/ Hang(k)
      PROVE  ClientTyped'
  BY <1>1, <1>6, <1>9
  DEF StartTick, RunStep, ReadWork, ReadFails, Start, Hang, PassOver, CallContract, tickOnly
<1>10. ASSUME NEW t \in Tx, Serve(t) \/ TooLate(t) PROVE ClientTyped'
  BY <1>5, <1>10 DEF Serve, TooLate
<1>11. CASE Timeout \/ Restart \/ TroubleEnds \/ UNCHANGED vars
  BY <1>1, <1>4, <1>11 DEF Timeout, Restart, TroubleEnds, vars
<1> QED
  BY <1>7, <1>8, <1>9, <1>10, <1>11 DEF Next, NetworkStep, Indexing

LEMMA ExcusesBounded ==
    ASSUME Types, Counted, [Next]_vars
    PROVE  \A i \in Items : excuse'[i] <= MaxExcuse
<1>1. CASE excuse' = excuse
  BY <1>1 DEF Counted
<1>2. ASSUME NEW lost, Excused(lost) PROVE \A i \in Items : excuse'[i] <= MaxExcuse
  BY <1>2 DEF Excused
<1>3. CASE Failed
  BY <1>1, <1>2, <1>3 DEF Failed
<1>4. CASE ClientStep
  BY <1>1, <1>2, <1>3, <1>4 DEF ClientStep, Attempt, TryAgain, CallThrows, CallReturns
<1>5. ASSUME NEW i \in Items, WorkArrives(i) \/ ServedElsewhere(i) \/ Indexing(i)
      PROVE  \A n \in Items : excuse'[n] <= MaxExcuse
  BY <1>1, <1>2, <1>5, IndexAlone DEF WorkArrives, ServedElsewhere
<1>6. ASSUME NEW k \in Runs, StartTick(k) \/ RunStep(k) \/ ReadFails(k) \/ Hang(k)
      PROVE  excuse' = excuse
  BY <1>6
  DEF StartTick, RunStep, ReadWork, ReadFails, Start, Hang, PassOver, CallContract, tickOnly
<1>7. ASSUME NEW t \in Tx, Serve(t) \/ TooLate(t) PROVE excuse' = excuse
  BY <1>7 DEF Serve, TooLate
<1>8. CASE Timeout
  BY <1>1, <1>2, <1>8 DEF Timeout
<1>9. CASE Restart
  BY <1>1, <1>2, <1>9 DEF Restart
<1>10. CASE TroubleEnds \/ UNCHANGED vars
  BY <1>1, <1>10 DEF TroubleEnds, vars
<1> QED
  BY <1>1, <1>4, <1>5, <1>6, <1>7, <1>8, <1>9, <1>10 DEF Next, NetworkStep, Indexing

\* Only a worker that moves amounts makes the work less than nothing.
LEMMA OthersOweNothing ==
    ASSUME Types, Counted, [Next]_vars, ~worker.adds
    PROVE  \A i \in Items : backlog'[i] >= 0
<1>1. CASE backlog' = backlog
  BY <1>1 DEF Counted
<1>2. \A i \in Items : backlog[i] \in Int /\ backlog[i] >= 0
  BY DEF Types, Counted
<1>3. ASSUME NEW x \in Items, WorkArrives(x) \/ ServedElsewhere(x)
      PROVE  \A i \in Items : backlog'[i] >= 0
  <2>1. backlog' = [backlog EXCEPT ![x] = @ + 1] \/ backlog' = [backlog EXCEPT ![x] = 0]
    BY <1>3 DEF WorkArrives, ServedElsewhere
  <2> QED
    BY <1>2, <2>1 DEF Types
<1>4. ASSUME NEW t \in Tx, Serve(t) PROVE \A i \in Items : backlog'[i] >= 0
  <2>1. PICK ok \in BOOLEAN :
           backlog' = [i \in Items |->
                         IF ~ok \/ t.call[i] = 0 THEN backlog[i]
                         ELSE IF worker.adds THEN Floored(backlog[i] - t.call[i]) ELSE 0]
    BY <1>4 DEF Serve
  <2>2. \A i \in Items : backlog'[i] = backlog[i] \/ backlog'[i] = 0
    BY <2>1
  <2> QED
    BY <1>2, <2>2
<1>5. ASSUME NEW k \in Runs, StartTick(k) \/ RunStep(k) \/ ReadFails(k) \/ Hang(k)
      PROVE  backlog' = backlog
  BY <1>5
  DEF StartTick, RunStep, ReadWork, ReadFails, Start, Hang, PassOver, CallContract,
      tickOnly, chain
<1>6. ASSUME NEW t \in Tx, TooLate(t) PROVE backlog' = backlog
  BY <1>6 DEF TooLate, chain
<1>7. CASE ClientStep \/ Timeout \/ Restart \/ TroubleEnds \/ UNCHANGED vars
  BY <1>1, <1>7
  DEF ClientStep, Attempt, TryAgain, CallThrows, CallReturns, Timeout, Restart,
      TroubleEnds, vars, chain
<1>8. ASSUME NEW i \in Items, Indexing(i) PROVE backlog' = backlog
  BY <1>8, IndexAlone
<1> QED
  BY <1>1, <1>3, <1>4, <1>5, <1>6, <1>7, <1>8 DEF Next, NetworkStep, Indexing

\* By the indexer's rows no less than the bound is reached.
LEMMA RowsToTheBound ==
    ASSUME Types, Counted, [Next]_vars, worker.list = "index"
    PROVE  \A i \in Items : backlog'[i] >= -MaxExcuse
<1>1. CASE backlog' = backlog
  BY <1>1 DEF Counted
<1>2. \A i \in Items : backlog[i] \in Int /\ backlog[i] >= -MaxExcuse
                       /\ backlog[i] <= MaxBacklog /\ MaxExcuse \in Nat
  BY WorkersConstants DEF Types, Counted
<1>3. ASSUME NEW x \in Items, WorkArrives(x) \/ ServedElsewhere(x)
      PROVE  \A i \in Items : backlog'[i] >= -MaxExcuse
  <2>1. \/ backlog' = [backlog EXCEPT ![x] = @ + 1]
        \/ backlog[x] > 0 /\ backlog' = [backlog EXCEPT ![x] = @ - 1]
        \/ backlog' = [backlog EXCEPT ![x] = 0]
    BY <1>3 DEF WorkArrives, ServedElsewhere
  <2>2. ASSUME NEW i \in Items PROVE backlog'[i] >= -MaxExcuse
    <3>1. \/ backlog'[i] = backlog[i]
          \/ backlog'[i] = backlog[i] + 1
          \/ backlog[i] > 0 /\ backlog'[i] = backlog[i] - 1
          \/ backlog'[i] = 0
      BY <2>1 DEF Types
    <3> QED
      BY <1>2, <3>1
  <2> QED
    BY <2>2
<1>4. ASSUME NEW t \in Tx, Serve(t) PROVE \A i \in Items : backlog'[i] >= -MaxExcuse
  <2>1. PICK ok \in BOOLEAN :
           backlog' = [i \in Items |->
                         IF ~ok \/ t.call[i] = 0 THEN backlog[i]
                         ELSE IF worker.adds THEN Floored(backlog[i] - t.call[i]) ELSE 0]
    BY <1>4 DEF Serve
  <2>2. ASSUME NEW i \in Items PROVE Floored(backlog[i] - t.call[i]) >= -MaxExcuse
    <3>1. t.call[i] \in Nat /\ MaxBacklog \in Nat
      BY CallTyped, NothingTyped DEF Tx
    <3>2. backlog[i] - t.call[i] \in Int /\ backlog[i] - t.call[i] <= MaxBacklog
      BY <1>2, <3>1
    <3> QED
      BY <3>2, FlooredTyped
  <2>3. 0 >= -MaxExcuse
    BY WorkersConstants
  <2> QED
    BY <1>2, <2>1, <2>2, <2>3
<1>5. ASSUME NEW k \in Runs, StartTick(k) \/ RunStep(k) \/ ReadFails(k) \/ Hang(k)
      PROVE  backlog' = backlog
  BY <1>5
  DEF StartTick, RunStep, ReadWork, ReadFails, Start, Hang, PassOver, CallContract,
      tickOnly, chain
<1>6. ASSUME NEW t \in Tx, TooLate(t) PROVE backlog' = backlog
  BY <1>6 DEF TooLate, chain
<1>7. CASE ClientStep \/ Timeout \/ Restart \/ TroubleEnds \/ UNCHANGED vars
  BY <1>1, <1>7
  DEF ClientStep, Attempt, TryAgain, CallThrows, CallReturns, Timeout, Restart,
      TroubleEnds, vars, chain
<1>8. ASSUME NEW i \in Items, Indexing(i) PROVE backlog' = backlog
  BY <1>8, IndexAlone
<1> QED
  BY <1>1, <1>3, <1>4, <1>5, <1>6, <1>7, <1>8 DEF Next, NetworkStep, Indexing

LEMMA CountedKept == ASSUME Types, Counted, [Next]_vars PROVE Counted'
<1>1. UNCHANGED <<worker, broken>> /\ calm' \in {calm, TRUE}
  BY DEF IndexFollows, IndexDrops, SetRow, Next, vars, keeper, chain, WorkArrives, ServedElsewhere, StartTick, RunStep,
         ReadWork, ReadFails, Start, Hang, PassOver, CallContract, tickOnly, ClientStep,
         Attempt, TryAgain, CallThrows, CallReturns, NetworkStep, Serve, TooLate,
         Timeout, Restart, TroubleEnds
<1>2. \A i \in Items : excuse'[i] <= MaxExcuse
  BY ExcusesBounded
<1>3. ~worker.adds => \A i \in Items : backlog'[i] >= 0
  BY OthersOweNothing
<1>5. worker.list = "index" => \A i \in Items : backlog'[i] >= -MaxExcuse
  BY RowsToTheBound
<1>4. calm' \in BOOLEAN /\ broken' \subseteq Items
  BY <1>1 DEF Counted
<1> QED
  BY <1>1, <1>2, <1>3, <1>4, <1>5 DEF Counted

\* One run becomes idle, begins anew or has made one more call that is allowed.
LEMMA RunLimited ==
    ASSUME Types, Limited, NEW k \in Runs, worker' = worker, NEW new,
           tick' = [tick EXCEPT ![k] = new], new # Idle => new.calls < worker.limit
    PROVE  Limited'
<1>1. \A j \in Runs : tick'[j] = IF j = k THEN new ELSE tick[j]
  BY DEF Types
<1> QED
  BY <1>1 DEF Limited

LEMMA EndedLimited ==
    ASSUME Types, Limited, NEW k \in Runs, worker' = worker, Ended(k)
    PROVE  Limited'
BY RunLimited DEF Ended

LEMMA StartLimited ==
    ASSUME Types, Limited, NEW k \in Runs, NEW work, Start(k, work)
    PROVE  Limited'
<1>1. worker' = worker /\ 0 < worker.limit
  BY SomeCallAllowed DEF Start, tickOnly, Types
<1>2. CASE work = Nothing
  BY <1>1, <1>2, EndedLimited DEF Start
<1>3. CASE work # Nothing
  BY <1>1, <1>3, RunLimited DEF Start
<1> QED
  BY <1>2, <1>3

LEMMA DoneLimited ==
    ASSUME Types, Limited, NEW k \in Runs, Phase(k, "work"), NEW c,
           worker' = worker, Done(k, c)
    PROVE  Limited'
<1>1. CASE Ended(k)
  BY <1>1, EndedLimited
<1>2. CASE ~Ended(k)
  <2> DEFINE new == [tick[k] EXCEPT !.left = Without(k, c), !.calls = @ + 1]
  <2>1. /\ tick' = [tick EXCEPT ![k].left = Without(k, c), ![k].calls = @ + 1]
        /\ ~(tick[k].calls + 1 >= worker.limit)
    BY <1>2 DEF Done
  <2>2. tick' = [tick EXCEPT ![k] = new]
    BY <2>1 DEF Types
  <2>3. tick[k] \in Working /\ worker.limit \in Nat
    BY RunTyped, SomeCallAllowed DEF Types
  <2>4. new.calls = tick[k].calls + 1 /\ tick[k].calls \in Nat
    BY <2>3 DEF Working
  <2>5. new.calls < worker.limit
    BY <2>1, <2>3, <2>4
  <2> HIDE DEF new
  <2> QED
    BY <2>2, <2>5, RunLimited
<1> QED
  BY <1>1, <1>2

LEMMA LimitedKept == ASSUME Types, Linked, Limited, [Next]_vars PROVE Limited'
<1>1. CASE UNCHANGED <<tick, worker>>
  BY <1>1 DEF Limited
<1>2. ASSUME NEW k \in Runs, StartTick(k) PROVE Limited'
  <2>1. worker' = worker /\ 0 < worker.limit
    BY <1>2, SomeCallAllowed DEF StartTick, tickOnly, Types
  <2> QED
    BY <1>2, <2>1, RunLimited DEF StartTick
<1>3. ASSUME NEW k \in Runs, ReadWork(k) \/ ReadFails(k) PROVE Limited'
  BY <1>3, StartLimited DEF ReadWork, ReadFails
<1>4. ASSUME NEW k \in Runs, PassOver(k) PROVE Limited'
  BY <1>4, DoneLimited DEF PassOver, Ready, tickOnly
<1>5. ASSUME NEW k \in Runs, Hang(k) PROVE Limited'
  <2> DEFINE new == [tick[k] EXCEPT !.phase = "hung"]
  <2>1. tick' = [tick EXCEPT ![k].phase = "hung"] /\ worker' = worker /\ Phase(k, "read")
    BY <1>5 DEF Hang, tickOnly
  <2>2. tick[k] \in Working /\ tick[k].calls < worker.limit
    BY <2>1, RunTyped DEF Limited, Phase
  <2>3. tick' = [tick EXCEPT ![k] = new] /\ new.calls = tick[k].calls
    BY <2>1, <2>2 DEF Types, Working
  <2> HIDE DEF new
  <2> QED
    BY <2>1, <2>2, <2>3, RunLimited
<1>6. CASE CallThrows \/ CallReturns
  <2>1. txQueue # << >>
    BY <1>6, ClientStepHasCall DEF ClientStep
  <2>2. Holder.job \in Runs /\ Phase(Holder.job, "work")
    BY <2>1, HolderWorks
  <2>3. worker' = worker /\ (Ended(Holder.job) \/ Done(Holder.job, Holder.call))
    BY <1>6 DEF CallThrows, CallReturns
  <2> QED
    BY <2>2, <2>3, EndedLimited, DoneLimited
<1>7. CASE Attempt \/ TryAgain \/ TroubleEnds \/ UNCHANGED vars
  BY <1>1, <1>7 DEF Attempt, TryAgain, TroubleEnds, vars, keeper
<1>8. ASSUME NEW k \in Runs, CallContract(k) PROVE Limited'
  BY <1>1, <1>8 DEF CallContract, keeper
<1>9. ASSUME NEW i \in Items, WorkArrives(i) \/ ServedElsewhere(i) \/ Indexing(i)
      PROVE  Limited'
  BY <1>1, <1>9, IndexAlone DEF WorkArrives, ServedElsewhere, keeper
<1>10. ASSUME NEW t \in Tx, Serve(t) \/ TooLate(t) PROVE Limited'
  BY <1>1, <1>10 DEF Serve, TooLate, keeper
<1>11. CASE Timeout
  <2>1. waiting \in Runs /\ worker' = worker
        /\ (tick' = tick \/ tick' = [tick EXCEPT ![waiting] = Idle])
    BY <1>11 DEF Timeout, Types
  <2> QED
    BY <1>1, <2>1, RunLimited
<1>12. CASE Restart
  BY <1>12 DEF Restart, Limited
<1> QED
  BY <1>2, <1>3, <1>4, <1>5, <1>6, <1>7, <1>8, <1>9, <1>10, <1>11, <1>12
  DEF Next, RunStep, ClientStep, NetworkStep, Indexing

TypeInv == IInv /\ ClientTyped /\ Counted /\ Limited

LEMMA TypesInitially == Init => TypeInv
<1> SUFFICES ASSUME Init PROVE TypeInv
  OBVIOUS
<1>1. IInv
  BY Initially
<1>2. ClientTyped
  <2>1. 0 \in 0 .. MaxRetries
    BY TxConstants
  <2> QED
    BY <2>1 DEF Init, TxInit, ClientTyped
<1>3. Counted
  <2>1. broken \subseteq Items /\ calm \in BOOLEAN
    BY WorkersConstants DEF Init
  <2>2. \A i \in Items : excuse[i] = 0 /\ backlog[i] = 0
    BY DEF Init, Nothing
  <2>3. 0 <= MaxExcuse /\ 0 >= -MaxExcuse
    BY WorkersConstants
  <2> QED
    BY <2>1, <2>2, <2>3 DEF Counted
<1>4. Limited
  BY DEF Init, Limited
<1> QED
  BY <1>1, <1>2, <1>3, <1>4 DEF TypeInv

\* The variables of the loop, of the ticks and of the client keep their types: the
\* counted mishaps and the work stay in their bounds, below nothing only by what was
\* excused, and no tick makes more calls than its worker is allowed.
THEOREM TypeCorrect == Spec => []TypeOK
<1>1. TypeInv /\ [Next]_vars => TypeInv'
  BY Inductive, ClientTypedKept, CountedKept, LimitedKept DEF TypeInv, IInv
<1>2. TypeInv => TypeOK
  <2> SUFFICES ASSUME TypeInv PROVE TypeOK
    OBVIOUS
  <2>1. Types /\ ClientTyped /\ Counted /\ Limited
    BY DEF TypeInv, IInv
  <2>2. TxTypeOK
    BY <2>1 DEF TxTypeOK, Types, ClientTyped
  <2>3. excuse \in [Items -> 0 .. MaxExcuse]
    BY <2>1, WorkersConstants DEF Types, Counted
  <2>4. backlog \in [Items -> -MaxExcuse .. MaxBacklog]
    <3>1. ASSUME NEW i \in Items PROVE backlog[i] \in -MaxExcuse .. MaxBacklog
      <4>1. backlog[i] \in Int /\ backlog[i] <= MaxBacklog /\ excuse[i] \in Nat
            /\ excuse[i] <= MaxExcuse /\ MaxExcuse \in Nat /\ MaxBacklog \in Nat
        BY <2>1, WorkersConstants DEF Types, Counted
      <4>2. CASE ~worker.adds
        BY <2>1, <4>1, <4>2 DEF Counted
      <4>3. CASE PaysByLedger
        <5>1. backlog[i] + excuse[i] >= 0
          BY <4>3, NothingTwice DEF TypeInv, LedgerReadersPayOnce
        <5> QED
          BY <4>1, <5>1
      <4>4. CASE worker.list = "index"
        BY <2>1, <4>1, <4>4 DEF Counted
      <4> QED
        BY <4>2, <4>3, <4>4 DEF PaysByLedger
    <3> QED
      BY <2>1, <3>1 DEF Types
  <2>5. tick \in [Runs -> {Idle} \cup
                     [phase : {"read", "hung", "work"}, left : Calls \cup {Nothing},
                      calls : Nat]]
    <3>1. Loads = Calls \cup {Nothing}
      BY NothingTyped
    <3> QED
      BY <2>1, <3>1 DEF Types, Working
  <2> QED
    BY <2>1, <2>2, <2>3, <2>4, <2>5 DEF TypeOK, Types, Counted, Limited, TypeInv, IInv,
                                        IndexTyped, Loads
<1> QED
  BY TypesInitially, <1>1, <1>2, PTL DEF Spec
=============================================================================
