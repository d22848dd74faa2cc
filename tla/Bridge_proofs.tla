---------------------------- MODULE Bridge_proofs ---------------------------
(***************************************************************************)
(* The keeper credits a deposit once, and once more only for each mishap   *)
(* it had: for any deposits, recipients, runs of its tick and retries of   *)
(* its client.                                                             *)
(***************************************************************************)
EXTENDS Bridge, FiniteSetTheorems, TLAPS

-----------------------------------------------------------------------------
(* The inductive invariant *)

Waits(k, d) ==
    tick[k] # Idle /\ tick[k].phase = "process" /\ d \in tick[k].events

\* The transaction that run k waits for has credited d, and k does not know.
Applied(k, d) ==
    /\ txQueue # << >> /\ stage = "poll" /\ found = "SUCCESS"
    /\ Holder = [job |-> k, call |-> d]

\* A transaction that nobody waits for may still credit d.
Loose(d) == IF [job |-> NoJob, call |-> d] \in inFlight THEN 1 ELSE 0

\* The loop may still credit d, in the tick it waits for or in a later one.
Loop(d) ==
    IF (d \notin processed \/ (waiting # NoJob /\ Waits(waiting, d)))
       /\ ~Applied(waiting, d)
      THEN 1 ELSE 0

\* The runs the loop gave up that may still credit d.
Adrift(d) ==
    {k \in Runs : k # waiting /\ tick[k] # Idle /\ d \in tick[k].events /\ ~Applied(k, d)}

\* The runs stand where the client's queue says they do.
Linked ==
    /\ \A i \in DOMAIN txQueue :
          /\ Waits(txQueue[i].job, txQueue[i].call)
          /\ awaited[txQueue[i].job] = txQueue[i].call
    /\ \A i, j \in DOMAIN txQueue : txQueue[i].job = txQueue[j].job => i = j
    /\ \A t \in inFlight : t.job # NoJob =>
          txQueue # << >> /\ stage = "poll" /\ found = "NOT_FOUND" /\ t = Holder
    /\ txQueue = << >> => stage = "load"
    /\ waiting # NoJob => tick[waiting] # Idle
    /\ \A d \in messages : payload[d] \in Payloads

\* What credited d and what may still do so is covered by the mishaps.
Budget ==
    \A d \in Deposits :
        byKeeper[d] + Loose(d) + Loop(d) + Cardinality(Adrift(d)) <= 1 + excuses[d]

IInv == TypeOK /\ Linked /\ Budget

-----------------------------------------------------------------------------
(* Types *)

Working == [phase : {"fetch", "process"}, events : SUBSET Deposits]

LEMMA AbandonedTyped == ASSUME TypeOK PROVE Abandoned \subseteq Tx
<1> SUFFICES ASSUME NEW t \in inFlight PROVE [t EXCEPT !.job = NoJob] \in Tx
  BY DEF Abandoned
<1>1. t \in Tx
  BY DEF TypeOK, TxTypeOK
<1> QED
  BY <1>1 DEF Tx

LEMMA ReleaseTyped ==
    ASSUME TypeOK, Release, txQueue # << >>
    PROVE  TxTypeOK'
<1>1. txQueue \in Seq(Request) /\ Tail(txQueue) \in Seq(Request)
  BY DEF TypeOK, TxTypeOK
<1>2. inFlight' \subseteq Tx
  BY AbandonedTyped DEF Release
<1>3. attempt' \in 0 .. MaxRetries
  BY TxConstants DEF Release
<1>4. txQueue' \in Seq(Request)
  BY <1>1 DEF Release
<1> QED
  BY <1>2, <1>3, <1>4 DEF Release, TxTypeOK

LEMMA HolderTyped ==
    ASSUME TypeOK, txQueue # << >>
    PROVE  /\ Holder \in Request /\ Holder.job \in Runs /\ Holder.call \in Deposits
           /\ Holder.job # NoJob /\ Holder = txQueue[1] /\ 1 \in DOMAIN txQueue
<1>1. txQueue \in Seq(Request) /\ txQueue # << >>
  BY DEF TypeOK, TxTypeOK
<1>2. Holder \in Request /\ Holder = txQueue[1] /\ 1 \in DOMAIN txQueue
  BY <1>1 DEF Holder
<1> QED
  BY <1>2, BridgeConstants, TxConstants DEF Request, Runs

LEMMA DoneTyped ==
    ASSUME TypeOK, NEW k \in Runs, tick[k] \in Working, NEW d, Done(k, d)
    PROVE  /\ awaited' \in [Runs -> Deposits \cup {NoDeposit}]
           /\ tick' \in [Runs -> {Idle} \cup Working]
           /\ waiting' \in Runs \cup {NoJob} /\ dropped' \subseteq Deposits
<1>1. awaited' \in [Runs -> Deposits \cup {NoDeposit}]
  BY DEF TypeOK, Done
<1>2. tick \in [Runs -> {Idle} \cup Working] /\ waiting \in Runs \cup {NoJob}
      /\ old \subseteq Deposits /\ dropped \subseteq Deposits
  BY DEF TypeOK, Working
<1>3. CASE tick[k].events \ {d} = {}
  BY <1>1, <1>2, <1>3 DEF Done, Ended
<1>4. CASE tick[k].events \ {d} # {}
  <2>1. [tick[k] EXCEPT !.events = tick[k].events \ {d}] \in Working
    BY <1>4 DEF Working
  <2> QED
    BY <1>1, <1>2, <1>4, <2>1 DEF Done
<1> QED
  BY <1>1, <1>2, <1>3, <1>4

LEMMA ExcuseTyped ==
    ASSUME TypeOK, NEW S, Excuse(S)
    PROVE  /\ excuses' \in [Deposits -> Nat]
           /\ \A d \in Deposits : excuses'[d] = excuses[d] + IF d \in S THEN 1 ELSE 0
<1>1. \A d \in Deposits : excuses[d] \in Nat
  BY DEF TypeOK
<1>2. \A d \in Deposits : excuses[d] + (IF d \in S THEN 1 ELSE 0) \in Nat
  BY <1>1
<1> QED
  BY <1>2 DEF Excuse

LEMMA FailedTyped ==
    ASSUME TypeOK, Failed
    PROVE  excuses' \in [Deposits -> Nat]
BY ExcuseTyped DEF Failed

LEMMA ContractTyped ==
    ASSUME TypeOK, Linked, ContractStep
    PROVE  TypeOK'
<1> USE DEF TypeOK
<1>1. ASSUME NEW d \in Deposits, NEW p \in Payloads, DepositToStellar(d, p) PROVE TypeOK'
  BY <1>1 DEF DepositToStellar, offChain, keeper, txVars, TxTypeOK
<1>2. ASSUME NEW d \in Deposits, Execute(d) PROVE TypeOK'
  <2>1. payload[d] \in Payloads
    BY <1>2 DEF Execute, Linked
  <2> QED
    BY <1>2, <2>1 DEF Execute, offChain, keeper, txVars, TxTypeOK
<1>3. ASSUME NEW p \in Payloads, GuardExpires(p) PROVE TypeOK'
  BY <1>3 DEF GuardExpires, offChain, keeper, txVars, TxTypeOK
<1>4. ASSUME NEW d \in Deposits, Age(d) PROVE TypeOK'
  BY <1>4 DEF Age, offChain, keeper, txVars, TxTypeOK
<1> QED
  BY <1>1, <1>2, <1>3, <1>4 DEF ContractStep

LEMMA RunTyped ==
    ASSUME TypeOK, NEW k \in Runs, RunStep(k)
    PROVE  TypeOK'
<1>1. CASE StartTick(k)
  <2>1. [phase |-> "fetch", events |-> Deposits \ dropped] \in Working
    BY DEF Working
  <2>2. tick' \in [Runs -> {Idle} \cup Working]
    BY <1>1, <2>1 DEF StartTick, TypeOK, Working
  <2> QED
    BY <1>1, <2>2 DEF StartTick, TypeOK, Working, chain, txVars, TxTypeOK
<1>2. CASE Fetched(k)
  <2>1. PICK page \in SUBSET (executed \cap tick[k].events) :
           IF New(page) = {}
             THEN Ended(k)
             ELSE /\ tick' = [tick EXCEPT ![k] = [phase |-> "process", events |-> New(page)]]
                  /\ UNCHANGED waiting
    BY <1>2 DEF Fetched
  <2>2. [phase |-> "process", events |-> New(page)] \in Working
    BY DEF Working, New, TypeOK
  <2>3. tick' \in [Runs -> {Idle} \cup Working]
    BY <2>1, <2>2 DEF Ended, TypeOK, Working
  <2>4. waiting' \in Runs \cup {NoJob}
    BY <2>1 DEF Ended, TypeOK
  <2> QED
    BY <1>2, <2>3, <2>4 DEF Fetched, TypeOK, Working, chain, txVars, TxTypeOK
<1>3. ASSUME NEW d \in Deposits, Skip(k, d) PROVE TypeOK'
  <2>1. tick[k] \in Working
    BY <1>3 DEF Skip, Processing, TypeOK, Working
  <2>2. /\ awaited' \in [Runs -> Deposits \cup {NoDeposit}]
        /\ tick' \in [Runs -> {Idle} \cup Working]
        /\ waiting' \in Runs \cup {NoJob} /\ dropped' \subseteq Deposits
    BY <1>3, <2>1, DoneTyped DEF Skip
  <2> QED
    BY <1>3, <2>2 DEF Skip, TypeOK, Working, chain, txVars, TxTypeOK
<1>4. ASSUME NEW d \in Deposits, ProcessDeposit(k, d) PROVE TypeOK'
  <2>1. [job |-> k, call |-> d] \in Request
    BY BridgeConstants DEF Request, Runs
  <2>2. txQueue' \in Seq(Request)
    BY <1>4, <2>1 DEF ProcessDeposit, Invoke, TypeOK, TxTypeOK
  <2>3. awaited' \in [Runs -> Deposits \cup {NoDeposit}]
    BY <1>4 DEF ProcessDeposit, TypeOK
  <2> QED
    BY <1>4, <2>2, <2>3 DEF ProcessDeposit, Invoke, TypeOK, chain, TxTypeOK
<1> QED
  BY <1>1, <1>2, <1>3, <1>4 DEF RunStep

\* The run that waits for the client is at work.
LEMMA HolderWaits ==
    ASSUME TypeOK, Linked, txQueue # << >>
    PROVE  /\ Holder.job \in Runs /\ Holder.call \in Deposits
           /\ Waits(Holder.job, Holder.call) /\ awaited[Holder.job] = Holder.call
           /\ tick[Holder.job] \in Working
<1>1. /\ Holder.job \in Runs /\ Holder.call \in Deposits
      /\ Holder = txQueue[1] /\ 1 \in DOMAIN txQueue
  BY HolderTyped
<1>2. Waits(Holder.job, Holder.call) /\ awaited[Holder.job] = Holder.call
  BY <1>1 DEF Linked
<1>3. tick[Holder.job] \in Working
  BY <1>1, <1>2 DEF Waits, TypeOK, Working
<1> QED
  BY <1>1, <1>2, <1>3

LEMMA ClientTyped ==
    ASSUME TypeOK, Linked, ClientStep
    PROVE  TypeOK'
<1>0. txQueue # << >>
  BY DEF ClientStep, Attempt, LoadAccount, Send, TryAgain, Retry, NotCredited, GiveUp,
         SimulationRefused, MarkCredited, Succeed
<1>1. /\ Holder.job \in Runs /\ Holder.call \in Deposits /\ tick[Holder.job] \in Working
  BY <1>0, HolderWaits
<1>2. CASE Attempt
  <2>1. Abandoned \subseteq Tx /\ Holder \in Tx
    BY <1>0, AbandonedTyped, HolderTyped DEF Tx, Request
  <2>2. inFlight' \subseteq Tx
    BY <1>2, <2>1 DEF Attempt, LoadAccount, Send, TypeOK, TxTypeOK
  <2>3. TxTypeOK'
    BY <1>2, <2>2 DEF Attempt, LoadAccount, Send, TypeOK, TxTypeOK
  <2> QED
    BY <1>2, <2>3 DEF Attempt, TypeOK, chain, keeper
<1>3. CASE TryAgain
  <2>1. inFlight' \subseteq Tx
    BY <1>3, AbandonedTyped DEF TryAgain, Retry
  <2>2. attempt' \in 0 .. MaxRetries
    BY <1>3, TxConstants DEF TryAgain, Retry, TypeOK, TxTypeOK
  <2>3. TxTypeOK'
    BY <1>3, <2>1, <2>2 DEF TryAgain, Retry, TypeOK, TxTypeOK
  <2>4. excuses' \in [Deposits -> Nat]
    BY <1>3, FailedTyped DEF TryAgain
  <2> QED
    BY <1>3, <2>3, <2>4 DEF TryAgain, TypeOK, chain, keeper
<1>4. ASSUME Release, Done(Holder.job, Holder.call), UNCHANGED <<chain, byKeeper>>,
             processed' \subseteq Deposits, excuses' \in [Deposits -> Nat]
      PROVE  TypeOK'
  <2>1. TxTypeOK'
    BY <1>0, <1>4, ReleaseTyped
  <2>2. /\ awaited' \in [Runs -> Deposits \cup {NoDeposit}]
        /\ tick' \in [Runs -> {Idle} \cup Working]
        /\ waiting' \in Runs \cup {NoJob} /\ dropped' \subseteq Deposits
    BY <1>1, <1>4, DoneTyped
  <2> QED
    BY <1>4, <2>1, <2>2 DEF TypeOK, Working, chain
<1>5. CASE NotCredited
  <2>1. excuses' \in [Deposits -> Nat]
    BY <1>5, FailedTyped DEF NotCredited, TypeOK
  <2> QED
    BY <1>4, <1>5, <2>1 DEF NotCredited, GiveUp, SimulationRefused, TypeOK
<1>6. CASE MarkCredited
  BY <1>1, <1>4, <1>6 DEF MarkCredited, Succeed, TypeOK
<1> QED
  BY <1>2, <1>3, <1>5, <1>6 DEF ClientStep

LEMMA NetworkTyped ==
    ASSUME TypeOK, NetworkStep
    PROVE  TypeOK'
<1>1. ASSUME NEW t \in Tx, BridgeCollateralIn(t) PROVE TypeOK'
  <2>1. TxTypeOK'
    BY <1>1 DEF BridgeCollateralIn, Include, TypeOK, TxTypeOK
  <2>2. byKeeper' \in [Deposits -> Nat]
    <3>1. t.call \in Deposits /\ byKeeper \in [Deposits -> Nat]
      BY BridgeConstants DEF Tx, TypeOK
    <3>2. byKeeper[t.call] + 1 \in Nat
      BY <3>1
    <3>3. byKeeper' = byKeeper \/ byKeeper' = [byKeeper EXCEPT ![t.call] = @ + 1]
      BY <1>1 DEF BridgeCollateralIn
    <3> QED
      BY <3>1, <3>2, <3>3
  <2> QED
    BY <1>1, <2>1, <2>2 DEF BridgeCollateralIn, TypeOK, chain, keeper
<1>2. ASSUME NEW t \in Tx, TooLate(t) PROVE TypeOK'
  BY <1>2 DEF TooLate, Expire, TypeOK, TxTypeOK, chain, keeper
<1> QED
  BY <1>1, <1>2 DEF NetworkStep

LEMMA TimeoutTyped == ASSUME TypeOK, Timeout PROVE TypeOK'
<1>1. excuses' \in [Deposits -> Nat]
  BY ExcuseTyped DEF Timeout
<1> QED
  BY <1>1 DEF Timeout, TypeOK, chain, txVars, TxTypeOK

LEMMA RestartTyped == ASSUME TypeOK, Restart PROVE TypeOK'
<1>1. excuses' \in [Deposits -> Nat]
  BY ExcuseTyped DEF Restart
<1>2. TxTypeOK'
  <2>1. inFlight' \subseteq Tx
    BY AbandonedTyped DEF Restart, TxCrash
  <2>2. txQueue' \in Seq(Request) /\ attempt' \in 0 .. MaxRetries
    BY TxConstants DEF Restart, TxCrash
  <2> QED
    BY <2>1, <2>2 DEF Restart, TxCrash, TxTypeOK
<1> QED
  BY <1>1, <1>2 DEF Restart, TypeOK, chain

LEMMA TypeKept == TypeOK /\ Linked /\ [Next]_vars => TypeOK'
<1>1. ASSUME TypeOK, UNCHANGED vars PROVE TypeOK'
  BY <1>1 DEF TypeOK, vars, chain, keeper, txVars, TxTypeOK
<1> QED
  BY <1>1, ContractTyped, NetworkTyped, ClientTyped, RunTyped, TimeoutTyped,
     RestartTyped DEF Next

-----------------------------------------------------------------------------
(* The runs and the client's queue *)

LEMMA QueueTyped ==
    ASSUME TypeOK, Linked, NEW i \in DOMAIN txQueue
    PROVE  /\ txQueue[i].job \in Runs /\ txQueue[i].call \in Deposits
           /\ Waits(txQueue[i].job, txQueue[i].call)
           /\ awaited[txQueue[i].job] = txQueue[i].call
           /\ awaited[txQueue[i].job] # NoDeposit
<1>1. txQueue[i] \in Request
  BY DEF TypeOK, TxTypeOK
<1> QED
  BY <1>1, BridgeConstants DEF Linked, Request, Runs

\* An idle run, one that fetches, and one between two events has no request queued.
LEMMA NotQueued ==
    ASSUME TypeOK, Linked, NEW k \in Runs,
           tick[k] = Idle \/ tick[k].phase = "fetch" \/ awaited[k] = NoDeposit
    PROVE  \A i \in DOMAIN txQueue : txQueue[i].job # k
BY QueueTyped DEF Waits

\* What a run that has no request queued does leaves the others in the queue.
LEMMA OthersStayLinked ==
    ASSUME TypeOK, Linked, NEW k \in Runs, UNCHANGED <<chain, txVars>>,
           \A i \in DOMAIN txQueue : txQueue[i].job # k,
           \A j \in Runs \ {k} : tick'[j] = tick[j] /\ awaited'[j] = awaited[j],
           waiting' # NoJob => tick'[waiting'] # Idle
    PROVE  Linked'
<1>1. ASSUME NEW i \in DOMAIN txQueue
      PROVE  /\ Waits(txQueue[i].job, txQueue[i].call)'
             /\ awaited'[txQueue[i].job] = txQueue[i].call
  <2>1. txQueue[i].job \in Runs \ {k}
    BY QueueTyped
  <2>2. txQueue' = txQueue
    BY DEF txVars
  <2> QED
    BY <2>1, <2>2, QueueTyped DEF Waits
<1>2. \A d \in messages' : payload'[d] \in Payloads
  BY DEF Linked, chain
<1> QED
  BY <1>1, <1>2 DEF Linked, txVars, Holder

\* What Done changes of a run at work.
LEMMA DoneMoves ==
    ASSUME TypeOK, Linked, NEW k \in Runs, tick[k] \in Working, NEW c, Done(k, c)
    PROVE  /\ \A j \in Runs \ {k} : tick'[j] = tick[j] /\ awaited'[j] = awaited[j]
           /\ tick'[k] = Idle \/ (/\ tick'[k] \in Working /\ tick'[k].phase = tick[k].phase
                                  /\ tick'[k].events = tick[k].events \ {c})
           /\ waiting' = waiting \/ (waiting = k /\ waiting' = NoJob)
           /\ waiting' # NoJob => tick'[waiting'] # Idle
<1>1. tick \in [Runs -> {Idle} \cup Working] /\ awaited \in [Runs -> Deposits \cup {NoDeposit}]
      /\ waiting \in Runs \cup {NoJob} /\ (waiting # NoJob => tick[waiting] # Idle)
  BY DEF TypeOK, Working, Linked
<1>2. Idle \notin Working
  BY BridgeIsFinite DEF Working
<1>3. CASE tick[k].events \ {c} = {}
  BY <1>1, <1>3 DEF Done, Ended
<1>4. CASE tick[k].events \ {c} # {}
  <2>1. tick'[k] = [tick[k] EXCEPT !.events = tick[k].events \ {c}] /\ waiting' = waiting
    BY <1>1, <1>4 DEF Done
  <2>2. /\ tick'[k] \in Working /\ tick'[k].phase = tick[k].phase
        /\ tick'[k].events = tick[k].events \ {c}
    BY <2>1 DEF Working
  <2>3. \A j \in Runs \ {k} : tick'[j] = tick[j] /\ awaited'[j] = awaited[j]
    BY <1>1, <1>4 DEF Done
  <2> QED
    BY <1>1, <1>2, <2>1, <2>2, <2>3
<1> QED
  BY <1>3, <1>4

LEMMA ContractLinked == ASSUME TypeOK, Linked, ContractStep PROVE Linked'
<1>1. UNCHANGED <<tick, awaited, waiting, txVars>>
  BY DEF ContractStep, DepositToStellar, Execute, GuardExpires, Age, offChain, keeper
<1>2. \A d \in messages' : payload'[d] \in Payloads
  <2>1. ASSUME NEW d \in Deposits, NEW p \in Payloads, DepositToStellar(d, p)
        PROVE  \A e \in messages' : payload'[e] \in Payloads
    <3>1. /\ payload' = [payload EXCEPT ![d] = p] /\ messages' = messages \cup {d}
          /\ payload \in [Deposits -> Payloads \cup {NoPayload}]
          /\ messages \subseteq Deposits
      BY <2>1 DEF DepositToStellar, TypeOK
    <3> QED
      BY <3>1 DEF Linked
  <2>2. ASSUME NEW d \in Deposits, Execute(d) \/ Age(d)
        PROVE  messages' \subseteq messages /\ payload' = payload
    BY <2>2 DEF Execute, Age
  <2>3. ASSUME NEW p \in Payloads, GuardExpires(p)
        PROVE  messages' \subseteq messages /\ payload' = payload
    BY <2>3 DEF GuardExpires
  <2> QED
    BY <2>1, <2>2, <2>3 DEF Linked, ContractStep
<1> QED
  BY <1>1, <1>2 DEF Linked, Waits, txVars, Holder

LEMMA RunLinked == ASSUME TypeOK, Linked, NEW k \in Runs, RunStep(k) PROVE Linked'
<1>0. tick \in [Runs -> {Idle} \cup Working] /\ Idle \notin Working
      /\ waiting \in Runs \cup {NoJob} /\ (waiting # NoJob => tick[waiting] # Idle)
      /\ awaited \in [Runs -> Deposits \cup {NoDeposit}]
  BY BridgeIsFinite DEF TypeOK, Working, Linked
<1>1. CASE StartTick(k)
  <2>1. [phase |-> "fetch", events |-> Deposits \ dropped] \in Working
    BY DEF Working
  <2>2. /\ \A j \in Runs \ {k} : tick'[j] = tick[j] /\ awaited'[j] = awaited[j]
        /\ waiting' # NoJob => tick'[waiting'] # Idle
    BY <1>0, <1>1, <2>1 DEF StartTick
  <2>3. \A i \in DOMAIN txQueue : txQueue[i].job # k
    BY <1>1, NotQueued DEF StartTick
  <2>4. UNCHANGED <<chain, txVars>>
    BY <1>1 DEF StartTick
  <2> QED
    BY <2>2, <2>3, <2>4, OthersStayLinked
<1>2. CASE Fetched(k)
  <2>1. PICK page \in SUBSET (executed \cap tick[k].events) :
           IF New(page) = {}
             THEN Ended(k)
             ELSE /\ tick' = [tick EXCEPT ![k] = [phase |-> "process", events |-> New(page)]]
                  /\ UNCHANGED waiting
    BY <1>2 DEF Fetched
  <2>2. [phase |-> "process", events |-> New(page)] \in Working
    BY DEF Working, New, TypeOK
  <2>3. \A j \in Runs \ {k} : tick'[j] = tick[j] /\ awaited'[j] = awaited[j]
    BY <1>0, <1>2, <2>1 DEF Ended, Fetched
  <2>4. waiting' # NoJob => tick'[waiting'] # Idle
    BY <1>0, <2>1, <2>2 DEF Ended
  <2>5. \A i \in DOMAIN txQueue : txQueue[i].job # k
    BY <1>2, NotQueued DEF Fetched
  <2>6. UNCHANGED <<chain, txVars>>
    BY <1>2 DEF Fetched
  <2> QED
    BY <2>3, <2>4, <2>5, <2>6, OthersStayLinked
<1>3. ASSUME NEW d \in Deposits, Skip(k, d) PROVE Linked'
  <2>1. tick[k] \in Working /\ awaited[k] = NoDeposit
    BY <1>0, <1>3 DEF Skip, Processing
  <2>2. \A i \in DOMAIN txQueue : txQueue[i].job # k
    BY <2>1, NotQueued
  <2>3. Done(k, d) /\ UNCHANGED <<chain, txVars>>
    BY <1>3 DEF Skip
  <2>4. /\ \A j \in Runs \ {k} : tick'[j] = tick[j] /\ awaited'[j] = awaited[j]
        /\ waiting' # NoJob => tick'[waiting'] # Idle
    BY <2>1, <2>3, DoneMoves
  <2> QED
    BY <2>2, <2>3, <2>4, OthersStayLinked
<1>4. ASSUME NEW d \in Deposits, ProcessDeposit(k, d) PROVE Linked'
  <2> DEFINE r == [job |-> k, call |-> d]
             n == Len(txQueue)
  <2>1. /\ txQueue' = Append(txQueue, r) /\ txQueue \in Seq(Request) /\ r \in Request
        /\ UNCHANGED <<tick, waiting, stage, found, inFlight, payload, messages>>
        /\ awaited' = [awaited EXCEPT ![k] = d]
    BY <1>4, BridgeConstants
    DEF ProcessDeposit, Invoke, TypeOK, TxTypeOK, Request, Runs, chain
  <2>2. Waits(k, d) /\ awaited[k] = NoDeposit
    BY <1>4 DEF ProcessDeposit, Processing, Waits
  <2>3. \A i \in DOMAIN txQueue : txQueue[i].job # k
    BY <2>2, NotQueued
  <2>4. /\ DOMAIN txQueue = 1 .. n /\ DOMAIN txQueue' = 1 .. n + 1 /\ n \in Nat
        /\ \A i \in 1 .. n : txQueue'[i] = txQueue[i]
        /\ txQueue'[n + 1] = r
    BY <2>1
  <2>5. ASSUME NEW i \in DOMAIN txQueue'
        PROVE  /\ Waits(txQueue[i].job, txQueue[i].call)'
               /\ awaited'[txQueue'[i].job] = txQueue'[i].call
    <3>1. CASE i = n + 1
      BY <1>0, <2>1, <2>2, <2>4, <3>1 DEF Waits
    <3>2. CASE i \in 1 .. n
      <4>1. txQueue[i].job \in Runs \ {k} /\ txQueue'[i] = txQueue[i]
        BY <2>3, <2>4, <3>2, QueueTyped
      <4>2. Waits(txQueue[i].job, txQueue[i].call) /\ awaited[txQueue[i].job] = txQueue[i].call
        BY <2>4, <3>2, QueueTyped
      <4> QED
        BY <1>0, <2>1, <4>1, <4>2 DEF Waits
    <3> QED
      BY <2>4, <3>1, <3>2
  <2>6. \A i, j \in DOMAIN txQueue' : txQueue'[i].job = txQueue'[j].job => i = j
    <3>1. \A i, j \in DOMAIN txQueue : txQueue[i].job = txQueue[j].job => i = j
      BY DEF Linked
    <3> QED
      BY <2>3, <2>4, <3>1
  <2>7. txQueue' # << >>
    BY <2>4
  <2>8. txQueue # << >> => Holder' = Holder
    BY <2>1 DEF Holder
  <2>9. \A t \in inFlight' : t.job # NoJob =>
           stage' = "poll" /\ found' = "NOT_FOUND" /\ t = Holder'
    BY <2>1, <2>8 DEF Linked
  <2> QED
    BY <1>0, <2>1, <2>5, <2>6, <2>7, <2>9 DEF Linked
<1> QED
  BY <1>1, <1>2, <1>3, <1>4 DEF RunStep

LEMMA AbandonedLoose ==
    ASSUME TypeOK
    PROVE  /\ \A t \in Abandoned : t.job = NoJob
           /\ \A d : [job |-> NoJob, call |-> d] \in Abandoned
                        <=> \E t \in inFlight : t.call = d
<1>1. \A t \in inFlight : [t EXCEPT !.job = NoJob] = [job |-> NoJob, call |-> t.call]
  BY DEF TypeOK, TxTypeOK, Tx
<1> QED
  BY <1>1 DEF Abandoned

\* While the client does not poll, nobody waits for what is in flight.
LEMMA AloneUnlessPolled ==
    ASSUME TypeOK, Linked, stage # "poll" \/ txQueue = << >> \/ found # "NOT_FOUND"
    PROVE  \A t \in inFlight : t.job = NoJob
BY DEF Linked

\* The first request leaves the queue, and the run that made it goes on.
LEMMA ReleaseLinked ==
    ASSUME TypeOK, Linked, txQueue # << >>, Release, Done(Holder.job, Holder.call),
           UNCHANGED chain
    PROVE  Linked'
<1> DEFINE k == Holder.job
<1>1. /\ k \in Runs /\ tick[k] \in Working /\ Holder = txQueue[1]
      /\ txQueue \in Seq(Request) /\ Len(txQueue) \in Nat \ {0}
  BY HolderWaits, HolderTyped DEF TypeOK, TxTypeOK
<1>2. /\ \A j \in Runs \ {k} : tick'[j] = tick[j] /\ awaited'[j] = awaited[j]
      /\ waiting' # NoJob => tick'[waiting'] # Idle
  BY <1>1, DoneMoves
<1>3. /\ DOMAIN txQueue' = 1 .. Len(txQueue) - 1
      /\ \A i \in 1 .. Len(txQueue) - 1 : txQueue'[i] = txQueue[i + 1]
  BY <1>1 DEF Release
<1>4. \A i, j \in DOMAIN txQueue : txQueue[i].job = txQueue[j].job => i = j
  BY DEF Linked
<1> HIDE DEF k
<1>5. ASSUME NEW i \in DOMAIN txQueue'
      PROVE  /\ Waits(txQueue[i].job, txQueue[i].call)'
             /\ awaited'[txQueue'[i].job] = txQueue'[i].call
  <2>1. i + 1 \in DOMAIN txQueue /\ i + 1 # 1 /\ txQueue'[i] = txQueue[i + 1]
        /\ 1 \in DOMAIN txQueue
    BY <1>1, <1>3
  <2>2. txQueue[i + 1].job \in Runs \ {k}
    BY <1>1, <1>4, <2>1, QueueTyped DEF k
  <2>3. Waits(txQueue[i + 1].job, txQueue[i + 1].call)
        /\ awaited[txQueue[i + 1].job] = txQueue[i + 1].call
    BY <2>1, QueueTyped
  <2> QED
    BY <1>2, <2>1, <2>2, <2>3 DEF Waits
<1>6. \A i, j \in DOMAIN txQueue' : txQueue'[i].job = txQueue'[j].job => i = j
  <2>1. \A i \in 1 .. Len(txQueue) - 1 : i + 1 \in DOMAIN txQueue
    BY <1>1
  <2>2. \A i, j \in 1 .. Len(txQueue) - 1 : i + 1 = j + 1 => i = j
    OBVIOUS
  <2> QED
    BY <1>3, <1>4, <2>1, <2>2
<1>7. \A t \in inFlight' : t.job = NoJob
  BY AbandonedLoose DEF Release
<1>8. \A d \in messages' : payload'[d] \in Payloads
  BY DEF Linked, chain
<1>9. stage' = "load"
  BY DEF Release
<1> QED
  BY <1>2, <1>5, <1>6, <1>7, <1>8, <1>9 DEF Linked

LEMMA ClientLinked == ASSUME TypeOK, Linked, ClientStep PROVE Linked'
<1>0. txQueue # << >>
  BY DEF ClientStep, Attempt, LoadAccount, Send, TryAgain, Retry, NotCredited, GiveUp,
         SimulationRefused, MarkCredited, Succeed
<1>1. CASE Attempt \/ TryAgain
  <2>1. UNCHANGED <<txQueue, tick, awaited, waiting, payload, messages>>
    BY <1>1 DEF Attempt, LoadAccount, Send, TryAgain, Retry, chain, keeper
  <2>2. \A t \in inFlight' : t.job # NoJob =>
           stage' = "poll" /\ found' = "NOT_FOUND" /\ t = Holder
    BY <1>1, AbandonedLoose, AloneUnlessPolled
    DEF Attempt, LoadAccount, Send, TryAgain, Retry
  <2> QED
    BY <1>0, <2>1, <2>2 DEF Linked, Waits, Holder
<1>2. CASE NotCredited \/ MarkCredited
  BY <1>0, <1>2, ReleaseLinked
  DEF NotCredited, MarkCredited, GiveUp, SimulationRefused, Succeed, chain
<1> QED
  BY <1>1, <1>2 DEF ClientStep

LEMMA NetworkLinked == ASSUME TypeOK, Linked, NetworkStep PROVE Linked'
<1>1. UNCHANGED <<txQueue, stage, tick, awaited, waiting, payload, messages>>
  BY DEF NetworkStep, BridgeCollateralIn, Include, TooLate, Expire, chain, keeper
<1>2. \A t \in inFlight' : t \in inFlight /\ found' = found
  BY DEF NetworkStep, BridgeCollateralIn, Include, TooLate, Expire
<1> QED
  BY <1>1, <1>2 DEF Linked, Waits, Holder

LEMMA TimeoutLinked == ASSUME TypeOK, Linked, Timeout PROVE Linked'
BY DEF Timeout, Linked, Waits, txVars, chain, Holder

LEMMA RestartLinked == ASSUME TypeOK, Linked, Restart PROVE Linked'
<1>1. \A t \in inFlight' : t.job = NoJob
  BY AbandonedLoose DEF Restart, TxCrash
<1>2. txQueue' = << >> /\ stage' = "load" /\ waiting' = NoJob
      /\ UNCHANGED <<payload, messages>>
  BY DEF Restart, TxCrash, chain
<1> QED
  BY <1>1, <1>2 DEF Linked

LEMMA LinkedKept == TypeOK /\ Linked /\ [Next]_vars => Linked'
<1>1. ASSUME Linked, UNCHANGED vars PROVE Linked'
  BY <1>1 DEF Linked, vars, chain, keeper, txVars, Waits, Holder
<1> QED
  BY <1>1, ContractLinked, NetworkLinked, ClientLinked, RunLinked, TimeoutLinked,
     RestartLinked DEF Next

-----------------------------------------------------------------------------
(* The budget *)

LEMMA AdriftFinite ==
    ASSUME NEW d
    PROVE  /\ IsFiniteSet(Adrift(d)) /\ Cardinality(Adrift(d)) \in Nat
           /\ IsFiniteSet(Adrift(d)') /\ Cardinality(Adrift(d)') \in Nat
<1>1. Adrift(d) \subseteq Runs /\ Adrift(d)' \subseteq Runs
  BY DEF Adrift
<1> QED
  BY <1>1, BridgeIsFinite, FS_Subset, FS_CardinalityType

LEMMA NoneMore ==
    ASSUME NEW d, Adrift(d)' \subseteq Adrift(d)
    PROVE  Cardinality(Adrift(d)') <= Cardinality(Adrift(d))
BY AdriftFinite, FS_Subset

LEMMA OneMore ==
    ASSUME NEW d, NEW k, Adrift(d)' \subseteq Adrift(d) \cup {k}
    PROVE  Cardinality(Adrift(d)') <= Cardinality(Adrift(d)) + 1
<1>1. /\ IsFiniteSet(Adrift(d) \cup {k})
      /\ Cardinality(Adrift(d) \cup {k}) <= Cardinality(Adrift(d)) + 1
      /\ Cardinality(Adrift(d) \cup {k}) \in Nat
  <2> DEFINE A == Adrift(d)
  <2>1. IsFiniteSet(A) /\ Cardinality(A) \in Nat
    BY AdriftFinite
  <2> HIDE DEF A
  <2>2. IsFiniteSet(A \cup {k})
        /\ Cardinality(A \cup {k}) = IF k \in A THEN Cardinality(A) ELSE Cardinality(A) + 1
    BY <2>1, FS_AddElement
  <2>3. Cardinality(A \cup {k}) <= Cardinality(A) + 1 /\ Cardinality(A \cup {k}) \in Nat
    BY <2>1, <2>2
  <2> QED
    BY <2>2, <2>3 DEF A
<1>2. Cardinality(Adrift(d)') <= Cardinality(Adrift(d) \cup {k})
  BY <1>1, FS_Subset
<1> QED
  BY <1>1, <1>2, AdriftFinite

LEMMA OneLess ==
    ASSUME NEW d, NEW k, k \in Adrift(d), Adrift(d)' \subseteq Adrift(d) \ {k}
    PROVE  Cardinality(Adrift(d)') + 1 <= Cardinality(Adrift(d))
<1>1. /\ IsFiniteSet(Adrift(d) \ {k})
      /\ Cardinality(Adrift(d) \ {k}) = Cardinality(Adrift(d)) - 1
  BY AdriftFinite, FS_RemoveElement
<1>2. Cardinality(Adrift(d)') <= Cardinality(Adrift(d) \ {k})
  BY <1>1, FS_Subset
<1> QED
  BY <1>1, <1>2, AdriftFinite

Total(d) == byKeeper[d] + Loose(d) + Loop(d) + Cardinality(Adrift(d))

LEMMA Parts ==
    ASSUME TypeOK, NEW d \in Deposits
    PROVE  /\ byKeeper[d] \in Nat /\ excuses[d] \in Nat
           /\ Loose(d) \in {0, 1} /\ Loop(d) \in {0, 1}
           /\ Loose(d)' \in {0, 1} /\ Loop(d)' \in {0, 1}
           /\ Cardinality(Adrift(d)) \in Nat /\ Cardinality(Adrift(d)') \in Nat
BY AdriftFinite DEF TypeOK, Loose, Loop

\* A deposit whose parts do not grow stays within its budget.
LEMMA NothingGrows ==
    ASSUME IInv, NEW d \in Deposits, byKeeper'[d] = byKeeper[d], excuses'[d] = excuses[d],
           Loose(d)' <= Loose(d), Loop(d)' <= Loop(d), Adrift(d)' \subseteq Adrift(d)
    PROVE  Total(d)' <= 1 + excuses'[d]
<1>1. Cardinality(Adrift(d)') <= Cardinality(Adrift(d))
  BY NoneMore
<1>2. Total(d) <= 1 + excuses[d]
  BY DEF IInv, Budget, Total
<1> QED
  BY <1>1, <1>2, Parts DEF IInv, Total

\* The transaction of a request is applied only to the deposit of the first one.
LEMMA AppliedFirst ==
    ASSUME TypeOK, Linked, NEW k, NEW d, Applied(k, d)
    PROVE  k \in Runs /\ k = Holder.job /\ d = Holder.call /\ Waits(k, d)
BY HolderWaits DEF Applied

LEMMA AppliedRun ==
    ASSUME TypeOK, Linked, NEW d
    PROVE  ~Applied(NoJob, d)
BY AppliedFirst, TxConstants DEF Runs

\* Steps that do not touch the keeper and its client.
LEMMA ElsewhereKeeps ==
    ASSUME IInv, UNCHANGED <<tick, waiting, processed, byKeeper, excuses, txVars>>
    PROVE  Budget'
<1> SUFFICES ASSUME NEW d \in Deposits PROVE Total(d)' <= 1 + excuses'[d]
  BY DEF Budget, Total
<1>1. UNCHANGED <<txQueue, stage, found, inFlight>>
  BY DEF txVars
<1>2. Loose(d)' = Loose(d) /\ Loop(d)' = Loop(d) /\ Adrift(d)' = Adrift(d)
  BY <1>1 DEF Loose, Loop, Adrift, Applied, Waits, Holder
<1> QED
  BY <1>2, NothingGrows, Parts DEF IInv

\* Run k is done with deposit c: no part of any budget grows, except that the
\* loop may take c up again, or the run may be adrift, if its transaction had been
\* applied.
LEMMA DoneShrinks ==
    ASSUME TypeOK, Linked, NEW k \in Runs, tick[k] \in Working, NEW c \in Deposits,
           Waits(k, c), Done(k, c), processed \subseteq processed',
           NEW d \in Deposits,
           \A j \in Runs \cup {NoJob} :
              (j # k \/ d # c) => (Applied(j, d)' <=> Applied(j, d))
    PROVE  /\ Adrift(d)' \subseteq Adrift(d)
           /\ Loop(d)' <= Loop(d) \/ (d = c /\ k = waiting /\ Applied(k, c) /\ c \notin processed')
           /\ d = c => k \notin Adrift(d)'
           /\ d = c /\ k = waiting /\ c \in processed' => Loop(d)' = 0
<1>1. /\ \A j \in Runs \ {k} : tick'[j] = tick[j]
      /\ tick'[k] = Idle \/ (/\ tick'[k] \in Working /\ tick'[k].phase = tick[k].phase
                             /\ tick'[k].events = tick[k].events \ {c})
      /\ waiting' = waiting \/ (waiting = k /\ waiting' = NoJob)
      /\ waiting' # NoJob => tick'[waiting'] # Idle
  BY DoneMoves
<1>2. waiting \in Runs \cup {NoJob} /\ NoJob \notin Runs /\ tick[k] # Idle
  BY TxConstants DEF TypeOK, Runs, Waits
<1>3. Waits(k, d)' => Waits(k, d) /\ d # c
  BY <1>1 DEF Waits
<1>4. \A j \in Runs \ {k} : Waits(j, d)' <=> Waits(j, d)
  BY <1>1 DEF Waits
<1>5. ASSUME NEW j \in Adrift(d)' PROVE j \in Adrift(d) /\ (d = c => j # k)
  <2>1. CASE j = k
    <3>1. d \in tick[k].events /\ d # c /\ ~Applied(k, d)
      BY <1>1, <1>5, <2>1 DEF Adrift
    <3>2. k # waiting
      BY <1>1, <1>5, <2>1 DEF Adrift, Done, Ended
    <3> QED
      BY <1>2, <2>1, <3>1, <3>2 DEF Adrift
  <2>2. CASE j # k
    <3>1. j \in Runs \ {k}
      BY <1>5, <2>2 DEF Adrift
    <3>2. Applied(j, d)' <=> Applied(j, d)
      BY <3>1
    <3> QED
      BY <1>1, <1>2, <1>5, <3>1, <3>2 DEF Adrift
  <2> QED
    BY <2>1, <2>2
<1>6. CASE k # waiting
  <2>1. waiting' = waiting /\ (waiting # NoJob => (Waits(waiting, d)' <=> Waits(waiting, d)))
    BY <1>1, <1>2, <1>4, <1>6
  <2>2. Applied(waiting, d)' <=> Applied(waiting, d)
    BY <1>2, <1>6, <2>1
  <2>3. Loop(d)' <= Loop(d)
    BY <2>1, <2>2 DEF Loop
  <2> QED
    BY <1>5, <1>6, <2>3
<1>7. CASE k = waiting
  <2>1. waiting' # NoJob => waiting' = k /\ (Waits(waiting, d)' => Waits(k, d) /\ d # c)
    <3>1. waiting' = k => (Waits(waiting, d)' <=> Waits(k, d)')
      BY DEF Waits
    <3> QED
      BY <1>1, <1>3, <1>7, <3>1
  <2>2. waiting' # k => tick[k].events \subseteq {c}
    BY <1>2, <1>7 DEF Done
  <2>3. CASE d = c
    <3>1. Loop(d)' = 1 => c \notin processed'
      BY <2>1, <2>3 DEF Loop
    <3>2. ~Applied(k, c) => Loop(d) = 1
      BY <1>2, <1>7, <2>3 DEF Loop
    <3>3. Loop(d)' \in {0, 1} /\ Loop(d) \in {0, 1}
      BY DEF Loop
    <3> QED
      BY <1>5, <1>7, <2>3, <3>1, <3>2, <3>3
  <2>4. CASE d # c
    <3>1. Applied(k, d) => Waits(k, d)
      BY AppliedFirst
    <3>2. waiting' # k => ~Applied(k, d)
      BY <2>2, <2>4, <3>1 DEF Waits
    <3>3. waiting' = k => (Applied(waiting, d)' <=> Applied(k, d))
      <4>1. waiting' = k => (Applied(waiting, d)' <=> Applied(k, d)')
        BY DEF Applied
      <4> QED
        BY <2>4, <4>1
    <3>4. Loop(d)' = 1 => Loop(d) = 1
      BY <1>2, <1>7, <2>1, <3>2, <3>3 DEF Loop
    <3>5. Loop(d)' \in {0, 1} /\ Loop(d) \in {0, 1}
      BY DEF Loop
    <3> QED
      BY <1>5, <2>4, <3>4, <3>5
  <2> QED
    BY <2>3, <2>4
<1> QED
  BY <1>6, <1>7

LEMMA RunKeeps ==
    ASSUME IInv, NEW k \in Runs, RunStep(k)
    PROVE  Budget'
<1> SUFFICES ASSUME NEW d \in Deposits PROVE Total(d)' <= 1 + excuses'[d]
  BY DEF Budget, Total
<1>0. /\ TypeOK /\ Linked /\ NoJob \notin Runs /\ Idle \notin Working
      /\ tick \in [Runs -> {Idle} \cup Working] /\ waiting \in Runs \cup {NoJob}
  BY BridgeIsFinite, TxConstants DEF IInv, TypeOK, Runs, Working
<1>1. CASE StartTick(k)
  <2>1. /\ UNCHANGED <<processed, byKeeper, excuses, inFlight, txQueue, stage, found>>
        /\ waiting = NoJob /\ tick[k] = Idle /\ waiting' = k
        /\ tick' = [tick EXCEPT ![k] = [phase |-> "fetch", events |-> Deposits \ dropped]]
    BY <1>1 DEF StartTick, txVars
  <2>2. \A j : Applied(j, d)' <=> Applied(j, d)
    BY <2>1 DEF Applied, Holder
  <2>3. ~Applied(NoJob, d)
    BY <1>0, AppliedRun
  <2>4. Loop(d)' <= Loop(d)
    <3>1. ~Waits(waiting, d)'
      BY <1>0, <2>1 DEF Waits
    <3>2. d \notin processed => Loop(d) = 1
      BY <2>1, <2>3 DEF Loop
    <3>3. d \in processed => Loop(d)' = 0
      BY <2>1, <3>1 DEF Loop
    <3> QED
      BY <3>2, <3>3 DEF Loop
  <2>5. Adrift(d)' \subseteq Adrift(d)
    BY <1>0, <2>1, <2>2 DEF Adrift
  <2>6. Loose(d)' <= Loose(d)
    BY <2>1 DEF Loose
  <2> QED
    BY <2>1, <2>4, <2>5, <2>6, NothingGrows
<1>2. CASE Fetched(k)
  <2>1. PICK page \in SUBSET (executed \cap tick[k].events) :
           IF New(page) = {}
             THEN Ended(k)
             ELSE /\ tick' = [tick EXCEPT ![k] = [phase |-> "process", events |-> New(page)]]
                  /\ UNCHANGED waiting
    BY <1>2 DEF Fetched
  <2>2. /\ UNCHANGED <<processed, byKeeper, excuses, inFlight, txQueue, stage, found>>
        /\ tick[k] # Idle /\ tick[k].phase = "fetch"
    BY <1>2 DEF Fetched, txVars
  <2>3. \A j : Applied(j, d)' <=> Applied(j, d)
    BY <2>2 DEF Applied, Holder
  <2>4. ~Applied(NoJob, d) /\ ~Applied(k, d)
    BY <1>0, <2>2, AppliedRun, AppliedFirst DEF Waits
  <2>5. \A j \in Runs \ {k} : tick'[j] = tick[j]
    BY <1>0, <2>1 DEF Ended
  <2>6. \/ /\ tick'[k] = Idle
           /\ waiting' = IF waiting = k THEN NoJob ELSE waiting
        \/ /\ waiting' = waiting
           /\ tick'[k].events \subseteq tick[k].events \ processed
    BY <1>0, <2>1 DEF Ended, New
  <2>7. Adrift(d)' \subseteq Adrift(d)
    BY <1>0, <2>2, <2>3, <2>5, <2>6 DEF Adrift
  <2>8. Loop(d)' <= Loop(d)
    <3>1. CASE waiting # k
      <4>1. waiting' = waiting /\ (waiting # NoJob => (Waits(waiting, d)' <=> Waits(waiting, d)))
        BY <1>0, <2>5, <2>6, <3>1 DEF Waits
      <4> QED
        BY <2>2, <2>3, <4>1 DEF Loop, Applied, Holder
    <3>2. CASE waiting = k
      <4>1. d \notin processed => Loop(d) = 1
        BY <2>4, <3>2 DEF Loop
      <4>2. d \in processed => Loop(d)' = 0
        <5>1. waiting' = NoJob \/ (waiting' = k /\ (d \in processed => d \notin tick'[k].events))
          BY <2>6, <3>2
        <5> QED
          BY <2>2, <5>1 DEF Loop, Waits
      <4> QED
        BY <4>1, <4>2 DEF Loop
    <3> QED
      BY <3>1, <3>2
  <2>9. Loose(d)' <= Loose(d)
    BY <2>2 DEF Loose
  <2> QED
    BY <2>2, <2>7, <2>8, <2>9, NothingGrows
<1>3. ASSUME NEW c \in Deposits, Skip(k, c) PROVE Total(d)' <= 1 + excuses'[d]
  <2>1. /\ Done(k, c) /\ processed' = processed \cup {c} /\ Waits(k, c)
        /\ UNCHANGED <<byKeeper, excuses, inFlight, txQueue, stage, found>>
    BY <1>3 DEF Skip, Processing, Waits, txVars
  <2>2. tick[k] \in Working
    BY <1>0, <2>1 DEF Waits
  <2>3. \A j : Applied(j, d)' <=> Applied(j, d)
    BY <2>1 DEF Applied, Holder
  <2>4. c \in processed' /\ processed \subseteq processed'
    BY <2>1
  <2>5. Adrift(d)' \subseteq Adrift(d) /\ Loop(d)' <= Loop(d)
    BY <1>0, <2>1, <2>2, <2>3, <2>4, DoneShrinks
  <2>6. Loose(d)' <= Loose(d)
    BY <2>1 DEF Loose
  <2> QED
    BY <2>1, <2>5, <2>6, NothingGrows
<1>4. ASSUME NEW c \in Deposits, ProcessDeposit(k, c) PROVE Total(d)' <= 1 + excuses'[d]
  <2>1. /\ UNCHANGED <<byKeeper, excuses, inFlight, stage, found, processed, waiting, tick>>
        /\ txQueue' = Append(txQueue, [job |-> k, call |-> c]) /\ txQueue \in Seq(Request)
    BY <1>0, <1>4 DEF ProcessDeposit, Invoke, TypeOK, TxTypeOK
  <2>2. \A j : Applied(j, d)' <=> Applied(j, d)
    <3>1. CASE txQueue = << >>
      <4>1. stage = "load"
        BY <1>0, <3>1 DEF Linked
      <4> QED
        BY <2>1, <4>1 DEF Applied
    <3>2. CASE txQueue # << >>
      <4>1. txQueue' # << >> /\ Holder' = Holder
        BY <2>1, <3>2 DEF Holder
      <4> QED
        BY <2>1, <3>2, <4>1 DEF Applied
    <3> QED
      BY <3>1, <3>2
  <2>3. Adrift(d)' \subseteq Adrift(d)
    BY <2>1, <2>2 DEF Adrift
  <2>4. Loop(d)' <= Loop(d)
    <3>1. Applied(waiting, d)' <=> Applied(waiting, d)
      BY <2>1, <2>2 DEF Applied
    <3> QED
      BY <2>1, <3>1 DEF Loop, Waits
  <2>5. Loose(d)' <= Loose(d)
    BY <2>1 DEF Loose
  <2> QED
    BY <2>1, <2>3, <2>4, <2>5, NothingGrows
<1> QED
  BY <1>1, <1>2, <1>3, <1>4 DEF RunStep

\* What is in flight when the first call is given up or tried again: only its own
\* transaction is let loose.
LEMMA LetLoose ==
    ASSUME TypeOK, Linked, NEW d, inFlight' = Abandoned
    PROVE  /\ Loose(d)' <= Loose(d)
                 \/ (/\ txQueue # << >> /\ stage = "poll" /\ found = "NOT_FOUND"
                     /\ Holder \in inFlight /\ d = Holder.call /\ Loose(d)' <= Loose(d) + 1)
<1>1. CASE \E t \in inFlight : t.call = d /\ t.job # NoJob
  <2>1. PICK t \in inFlight : t.call = d /\ t.job # NoJob
    BY <1>1
  <2>2. txQueue # << >> /\ stage = "poll" /\ found = "NOT_FOUND" /\ t = Holder
    BY <2>1 DEF Linked
  <2>3. Loose(d)' <= Loose(d) + 1
    BY DEF Loose
  <2> QED
    BY <2>1, <2>2, <2>3
<1>2. CASE ~\E t \in inFlight : t.call = d /\ t.job # NoJob
  <2>1. \A t \in inFlight : t.call = d => t = [job |-> NoJob, call |-> d]
    BY <1>2 DEF TypeOK, TxTypeOK, Tx
  <2>2. [job |-> NoJob, call |-> d] \in inFlight' => [job |-> NoJob, call |-> d] \in inFlight
    BY <2>1, AbandonedLoose
  <2> QED
    BY <2>2 DEF Loose
<1> QED
  BY <1>1, <1>2

\* A run whose transaction is in flight may still credit its deposit.
LEMMA FlightCounts ==
    ASSUME TypeOK, Linked, txQueue # << >>, Holder \in inFlight
    PROVE  /\ Holder.job = waiting => Loop(Holder.call) = 1
           /\ Holder.job # waiting => Holder.job \in Adrift(Holder.call)
<1>1. /\ Holder.job \in Runs /\ Waits(Holder.job, Holder.call) /\ Holder.job # NoJob
  BY HolderWaits, HolderTyped
<1>2. ~Applied(Holder.job, Holder.call)
  BY <1>1 DEF Linked, Applied
<1> QED
  BY <1>1, <1>2 DEF Loop, Adrift, Waits

LEMMA AttemptKeeps ==
    ASSUME IInv, Attempt
    PROVE  Budget'
<1> SUFFICES ASSUME NEW d \in Deposits PROVE Total(d)' <= 1 + excuses'[d]
  BY DEF Budget, Total
<1>0. TypeOK /\ Linked
  BY DEF IInv
<1>1. /\ UNCHANGED <<txQueue, processed, waiting, tick, byKeeper, excuses>>
      /\ stage # "poll" /\ txQueue # << >>
      /\ stage' # "poll" \/ found' = "NOT_FOUND"
  BY DEF Attempt, LoadAccount, Send, keeper
<1>2. \A j : ~Applied(j, d) /\ ~Applied(j, d)'
  BY <1>1 DEF Applied
<1>3. Adrift(d)' \subseteq Adrift(d)
  BY <1>1, <1>2 DEF Adrift
<1>4. Loop(d)' <= Loop(d)
  <2>1. ~Applied(waiting, d) /\ ~Applied(waiting, d)'
    BY <1>1 DEF Applied
  <2> QED
    BY <1>1, <2>1 DEF Loop, Waits
<1>5. Loose(d)' <= Loose(d)
  <2>1. CASE LoadAccount
    BY <2>1 DEF LoadAccount, Loose
  <2>2. CASE Send
    <3>1. \A t \in inFlight : t.job = NoJob
      BY <1>0, <1>1, AloneUnlessPolled
    <3>2. \A t \in inFlight : t.call = d => t = [job |-> NoJob, call |-> d]
      BY <1>0, <3>1 DEF TypeOK, TxTypeOK, Tx
    <3>3. [job |-> NoJob, call |-> d] # Holder
      BY <1>0, <1>1, HolderTyped
    <3>4. [job |-> NoJob, call |-> d] \in inFlight' => [job |-> NoJob, call |-> d] \in inFlight
      BY <1>0, <2>2, <3>2, <3>3, AbandonedLoose DEF Send
    <3> QED
      BY <3>4 DEF Loose
  <2> QED
    BY <2>1, <2>2 DEF Attempt
<1> QED
  BY <1>1, <1>3, <1>4, <1>5, NothingGrows

\* What the parts grow by is what the mishaps grow by.
LEMMA Balance ==
    ASSUME TypeOK, NEW d \in Deposits, byKeeper'[d] = byKeeper[d],
           Total(d) <= 1 + excuses[d], NEW g \in {0, 1}, excuses'[d] = excuses[d] + g,
           Loose(d)' + Loop(d)' + Cardinality(Adrift(d)')
             <= Loose(d) + Loop(d) + Cardinality(Adrift(d)) + g
    PROVE  Total(d)' <= 1 + excuses'[d]
<1> DEFINE a == Loose(d)
           b == Loop(d)
           c == Cardinality(Adrift(d))
           p == Loose(d)'
           q == Loop(d)'
           r == Cardinality(Adrift(d)')
<1>1. /\ byKeeper[d] \in Nat /\ excuses[d] \in Nat /\ a \in Nat /\ b \in Nat /\ c \in Nat
      /\ p \in Nat /\ q \in Nat /\ r \in Nat
  BY Parts
<1>2. byKeeper[d] + a + b + c <= 1 + excuses[d]
  BY DEF Total
<1>3. p + q + r <= a + b + c + g
  OBVIOUS
<1> HIDE DEF a, b, c, p, q, r
<1>4. byKeeper[d] + p + q + r <= 1 + (excuses[d] + g)
  BY <1>1, <1>2, <1>3
<1> QED
  BY <1>4 DEF Total, p, q, r

LEMMA TryAgainKeeps ==
    ASSUME IInv, TryAgain
    PROVE  Budget'
<1> SUFFICES ASSUME NEW d \in Deposits PROVE Total(d)' <= 1 + excuses'[d]
  BY DEF Budget, Total
<1>0. TypeOK /\ Linked /\ Total(d) <= 1 + excuses[d] /\ waiting \in Runs \cup {NoJob}
  BY DEF IInv, Budget, Total, TypeOK
<1> DEFINE c == Holder.call
<1>1. /\ UNCHANGED <<txQueue, processed, waiting, tick, byKeeper>>
      /\ txQueue # << >> /\ stage' = "load" /\ inFlight' = Abandoned
  BY DEF TryAgain, Retry, keeper
<1>2. excuses'[d] = excuses[d] + IF d = c /\ MayHaveApplied THEN 1 ELSE 0
  BY <1>0, ExcuseTyped DEF TryAgain, Failed
<1>3. \A j : ~Applied(j, d)'
  BY <1>1 DEF Applied
<1>4. ASSUME \A j : ~Applied(j, d)
      PROVE  Loop(d)' = Loop(d) /\ Adrift(d)' \subseteq Adrift(d)
  <2>1. ~Applied(waiting, d)' /\ ~Applied(waiting, d)
    BY <1>1, <1>4 DEF Applied
  <2> QED
    BY <1>1, <1>3, <1>4, <2>1 DEF Loop, Adrift, Waits
<1>5. CASE Loose(d)' <= Loose(d) /\ \A j : ~Applied(j, d)
  <2>1. Cardinality(Adrift(d)') <= Cardinality(Adrift(d)) /\ Loop(d)' = Loop(d)
    BY <1>4, <1>5, NoneMore
  <2> QED
    BY <1>0, <1>1, <1>2, <1>5, <2>1, Parts, Balance
<1>6. CASE /\ Holder \in inFlight /\ d = c /\ stage = "poll" /\ found = "NOT_FOUND"
           /\ Loose(d)' <= Loose(d) + 1
  <2>1. MayHaveApplied /\ \A j : ~Applied(j, d)
    BY <1>6 DEF MayHaveApplied, Applied
  <2>2. Cardinality(Adrift(d)') <= Cardinality(Adrift(d)) /\ Loop(d)' = Loop(d)
    BY <1>4, <2>1, NoneMore
  <2> QED
    BY <1>0, <1>1, <1>2, <1>6, <2>1, <2>2, Parts, Balance
<1>7. CASE Loose(d)' <= Loose(d) /\ \E j : Applied(j, d)
  <2>1. PICK j : Applied(j, d)
    BY <1>7
  <2>2. d = c /\ MayHaveApplied /\ j \in Runs
    BY <1>0, <2>1, AppliedFirst DEF Applied, MayHaveApplied
  <2>3. \A i : Applied(i, d) => i = j
    BY <1>0, <2>1, AppliedFirst
  <2>4. CASE j = waiting
    <3>1. Adrift(d)' \subseteq Adrift(d)
      BY <1>1, <2>3, <2>4 DEF Adrift
    <3>2. Cardinality(Adrift(d)') <= Cardinality(Adrift(d))
      BY <3>1, NoneMore
    <3>3. Loop(d)' <= Loop(d) + 1
      BY DEF Loop
    <3> QED
      BY <1>0, <1>1, <1>2, <1>7, <2>2, <3>2, <3>3, Parts, Balance
  <2>5. CASE j # waiting
    <3>1. Adrift(d)' \subseteq Adrift(d) \cup {j}
      BY <1>1, <2>3 DEF Adrift
    <3>2. Cardinality(Adrift(d)') <= Cardinality(Adrift(d)) + 1
      BY <3>1, OneMore
    <3>3. Loop(d)' <= Loop(d)
      <4>1. ~Applied(waiting, d) /\ ~Applied(waiting, d)'
        BY <1>1, <2>3, <2>5 DEF Applied
      <4> QED
        BY <1>1, <4>1 DEF Loop, Waits
    <3> QED
      BY <1>0, <1>1, <1>2, <1>7, <2>2, <3>2, <3>3, Parts, Balance
  <2> QED
    BY <2>4, <2>5
<1>8. \/ Loose(d)' <= Loose(d)
      \/ (/\ txQueue # << >> /\ stage = "poll" /\ found = "NOT_FOUND"
          /\ Holder \in inFlight /\ d = Holder.call /\ Loose(d)' <= Loose(d) + 1)
  BY <1>0, <1>1, LetLoose
<1> QED
  BY <1>5, <1>6, <1>7, <1>8

\* The first call returns or throws, and its run is done with the deposit.
LEMMA ReleaseKeeps ==
    ASSUME IInv, txQueue # << >>, Release, Done(Holder.job, Holder.call),
           UNCHANGED byKeeper, TypeOK', processed \subseteq processed',
           \/ Failed /\ processed' = processed
           \/ stage # "poll" /\ UNCHANGED <<excuses, processed>>
           \/ Holder.call \in processed' /\ UNCHANGED excuses
    PROVE  Budget'
<1> SUFFICES ASSUME NEW d \in Deposits PROVE Total(d)' <= 1 + excuses'[d]
  BY DEF Budget, Total
<1> DEFINE c == Holder.call
           k == Holder.job
<1>0. TypeOK /\ Linked /\ Total(d) <= 1 + excuses[d] /\ waiting \in Runs \cup {NoJob}
  BY DEF IInv, Budget, Total, TypeOK
<1>1. /\ k \in Runs /\ c \in Deposits /\ Waits(k, c) /\ tick[k] \in Working
  BY <1>0, HolderWaits
<1>2. stage' = "load" /\ inFlight' = Abandoned
  BY DEF Release
<1>3. \A j : ~Applied(j, d)'
  BY <1>2 DEF Applied
<1>4. \A j : Applied(j, d) => j = k /\ d = c
  BY <1>0, AppliedFirst
<1>5. /\ Adrift(d)' \subseteq Adrift(d)
      /\ Loop(d)' <= Loop(d) \/ (d = c /\ k = waiting /\ Applied(k, c) /\ c \notin processed')
      /\ d = c => k \notin Adrift(d)'
      /\ d = c /\ k = waiting /\ c \in processed' => Loop(d)' = 0
  <2>1. \A j \in Runs \cup {NoJob} :
           (j # k \/ d # c) => (Applied(j, d)' <=> Applied(j, d))
    BY <1>3, <1>4
  <2> HIDE DEF c, k
  <2> QED
    BY <1>0, <1>1, <2>1, DoneShrinks DEF c, k
<1> HIDE DEF c, k
<1>6. Cardinality(Adrift(d)') <= Cardinality(Adrift(d))
  BY <1>5, NoneMore
<1>7. CASE d # c
  <2>1. Loose(d)' <= Loose(d)
    BY <1>0, <1>2, <1>7, LetLoose DEF c
  <2>2. excuses'[d] = excuses[d]
    <3>1. CASE Failed
      <4>1. d \notin (IF MayHaveApplied THEN {Holder.call} ELSE {})
        BY <1>7 DEF c
      <4>2. excuses'[d] = excuses[d] + 0 /\ excuses[d] \in Nat
        BY <1>0, <3>1, <4>1, ExcuseTyped, Parts DEF Failed
      <4> QED
        BY <4>2
    <3> QED
      BY <3>1
  <2>3. Loop(d)' <= Loop(d)
    BY <1>5, <1>7
  <2> QED
    BY <1>0, <1>6, <2>1, <2>2, <2>3, Parts, Balance
<1>8. CASE d = c /\ Failed
  <2>1. excuses'[d] = excuses[d] + IF MayHaveApplied THEN 1 ELSE 0
    BY <1>0, <1>8, ExcuseTyped DEF Failed, c
  <2>2. CASE Applied(k, c)
    <3>1. found # "NOT_FOUND" /\ MayHaveApplied
      BY <2>2 DEF Applied, MayHaveApplied
    <3>2. Loose(d)' <= Loose(d)
      BY <1>0, <1>2, <3>1, LetLoose
    <3>3. Loop(d)' <= Loop(d) + 1
      BY DEF Loop
    <3> QED
      BY <1>0, <1>6, <2>1, <3>1, <3>2, <3>3, Parts, Balance
  <2>3. CASE ~Applied(k, c)
    <3>1. Loop(d)' <= Loop(d)
      BY <1>5, <2>3
    <3>2. Loose(d)' <= Loose(d) \/ (MayHaveApplied /\ Loose(d)' <= Loose(d) + 1)
      BY <1>0, <1>2, LetLoose DEF MayHaveApplied
    <3> QED
      BY <1>0, <1>6, <2>1, <3>1, <3>2, Parts, Balance
  <2> QED
    BY <2>2, <2>3
<1>9. CASE d = c /\ stage # "poll" /\ UNCHANGED excuses
  <2>1. Loop(d)' <= Loop(d)
    BY <1>5, <1>9 DEF Applied
  <2>2. Loose(d)' <= Loose(d)
    BY <1>0, <1>2, <1>9, LetLoose
  <2> QED
    BY <1>0, <1>6, <1>9, <2>1, <2>2, Parts, Balance
<1>10. CASE d = c /\ c \in processed' /\ UNCHANGED excuses
  <2>1. Loop(d)' <= Loop(d)
    BY <1>5, <1>10
  <2>2. CASE Loose(d)' <= Loose(d)
    BY <1>0, <1>6, <1>10, <2>1, <2>2, Parts, Balance
  <2>3. CASE Holder \in inFlight /\ Loose(d)' <= Loose(d) + 1
    <3>1. CASE k = waiting
      <4>1. Loop(d) = 1 /\ Loop(d)' = 0
        BY <1>0, <1>5, <1>10, <2>3, <3>1, FlightCounts DEF c, k
      <4> QED
        BY <1>0, <1>6, <1>10, <2>3, <4>1, Parts, Balance
    <3>2. CASE k # waiting
      <4>1. k \in Adrift(d) /\ Adrift(d)' \subseteq Adrift(d) \ {k}
        BY <1>0, <1>5, <1>10, <2>3, <3>2, FlightCounts DEF c, k
      <4>2. Cardinality(Adrift(d)') + 1 <= Cardinality(Adrift(d))
        BY <4>1, OneLess
      <4> QED
        BY <1>0, <1>10, <2>1, <2>3, <4>2, Parts, Balance
    <3> QED
      BY <3>1, <3>2
  <2> QED
    BY <1>0, <1>2, <2>2, <2>3, LetLoose
<1> QED
  BY <1>7, <1>8, <1>9, <1>10 DEF c

LEMMA ClientKeeps ==
    ASSUME IInv, ClientStep, TypeOK'
    PROVE  Budget'
<1>1. CASE NotCredited
  <2>1. /\ txQueue # << >> /\ Release /\ Done(Holder.job, Holder.call)
        /\ UNCHANGED <<processed, byKeeper>>
    BY <1>1 DEF NotCredited, GiveUp, SimulationRefused
  <2>2. Failed \/ (stage # "poll" /\ UNCHANGED excuses)
    BY <1>1 DEF NotCredited, GiveUp, SimulationRefused
  <2> QED
    BY <2>1, <2>2, ReleaseKeeps
<1>2. CASE MarkCredited
  BY <1>2, ReleaseKeeps DEF MarkCredited, Succeed
<1> QED
  BY <1>1, <1>2, AttemptKeeps, TryAgainKeeps DEF ClientStep

\* A transaction is included, and nothing else is in flight after it.
LEMMA InclusionKeeps ==
    ASSUME IInv, NEW t \in Tx, BridgeCollateralIn(t)
    PROVE  Budget'
<1> SUFFICES ASSUME NEW d \in Deposits PROVE Total(d)' <= 1 + excuses'[d]
  BY DEF Budget, Total
<1>0. /\ TypeOK /\ Linked /\ Total(d) <= 1 + excuses[d] /\ waiting \in Runs \cup {NoJob}
      /\ byKeeper \in [Deposits -> Nat] /\ t.call \in Deposits
  BY BridgeConstants DEF IInv, Budget, Total, TypeOK, Tx
<1>1. /\ UNCHANGED <<txQueue, stage, processed, waiting, tick, excuses>>
      /\ t \in inFlight /\ inFlight' = {}
  BY DEF BridgeCollateralIn, Include, keeper
<1>2. Loose(d)' = 0
  BY <1>1 DEF Loose
<1>3. PICK ok \in BOOLEAN :
         /\ Include(t, ok)
         /\ byKeeper' = IF ok THEN [byKeeper EXCEPT ![t.call] = @ + 1] ELSE byKeeper
  BY DEF BridgeCollateralIn
<1> DEFINE paid == IF ok /\ d = t.call THEN 1 ELSE 0
<1>4. byKeeper'[d] = byKeeper[d] + paid
  BY <1>0, <1>3
\* Either nobody waits for the transaction, or the run that does learns of it.
<1>5. CASE t.job = NoJob
  <2>1. \A j : Applied(j, d)' <=> Applied(j, d)
    <3>1. txQueue # << >> => t # Holder
      BY <1>0, <1>5, HolderTyped
    <3>2. found' = found
      BY <1>3, <3>1 DEF Include
    <3> QED
      BY <1>1, <3>2 DEF Applied, Holder
  <2>2. Adrift(d)' \subseteq Adrift(d)
    BY <1>1, <2>1 DEF Adrift
  <2>3. Loop(d)' = Loop(d)
    <3>1. Applied(waiting, d)' <=> Applied(waiting, d)
      BY <1>1, <2>1 DEF Applied
    <3> QED
      BY <1>1, <3>1 DEF Loop, Waits
  <2>4. Cardinality(Adrift(d)') <= Cardinality(Adrift(d))
    BY <2>2, NoneMore
  <2>5. paid <= Loose(d)
    <3>1. d = t.call => t = [job |-> NoJob, call |-> d]
      BY <1>5 DEF Tx
    <3> QED
      BY <1>1, <3>1 DEF Loose
  <2>6. paid \in Nat
    OBVIOUS
  <2> HIDE DEF paid
  <2>7. paid + Loop(d)' + Cardinality(Adrift(d)')
          <= Loose(d) + Loop(d) + Cardinality(Adrift(d))
    BY <1>0, <2>3, <2>4, <2>5, <2>6, Parts
  <2> QED
    BY <1>0, <1>1, <1>2, <1>4, <2>6, <2>7, Parts DEF Total
<1>6. CASE t.job # NoJob
  <2>1. txQueue # << >> /\ stage = "poll" /\ found = "NOT_FOUND" /\ t = Holder
    BY <1>0, <1>1, <1>6 DEF Linked
  <2>2. found' = IF ok THEN "SUCCESS" ELSE "FAILED"
    BY <1>3, <2>1 DEF Include
  <2>3. \A j : ~Applied(j, d)
    BY <2>1 DEF Applied
  <2>4. Adrift(d)' \subseteq Adrift(d)
    BY <1>1, <2>3 DEF Adrift
  <2>5. Loop(d)' <= Loop(d)
    <3>1. ~Applied(waiting, d)
      BY <2>1 DEF Applied
    <3> QED
      BY <1>1, <3>1 DEF Loop, Waits
  <2>6. Cardinality(Adrift(d)') <= Cardinality(Adrift(d))
    BY <2>4, NoneMore
  <2>7. CASE paid = 0
    <3> HIDE DEF paid
    <3>1. Loop(d)' + Cardinality(Adrift(d)')
            <= Loose(d) + Loop(d) + Cardinality(Adrift(d))
      BY <1>0, <2>5, <2>6, Parts
    <3> QED
      BY <1>0, <1>1, <1>2, <1>4, <2>7, <3>1, Parts DEF Total
  <2>8. CASE ok /\ d = t.call
    <3>1. /\ t.job = waiting => Loop(d) = 1
          /\ t.job # waiting => t.job \in Adrift(d)
      BY <1>0, <1>1, <2>1, <2>8, FlightCounts
    <3>2. Applied(t.job, d)'
      <4>1. t = [job |-> t.job, call |-> d]
        BY <2>8 DEF Tx
      <4>2. Holder' = t /\ txQueue' # << >> /\ stage' = "poll" /\ found' = "SUCCESS"
        BY <1>1, <2>1, <2>2, <2>8 DEF Holder
      <4> QED
        BY <4>1, <4>2 DEF Applied
    <3>3. byKeeper'[d] = byKeeper[d] + 1
      BY <1>4, <2>8
    <3>4. CASE t.job = waiting
      <4>1. Loop(d) = 1
        BY <3>1, <3>4
      <4>2. Applied(waiting, d)'
        <5>1. waiting' = t.job
          BY <1>1, <3>4
        <5> QED
          BY <3>2, <5>1
      <4>3. Loop(d)' = 0
        BY <4>2 DEF Loop
      <4>4. 1 + Loop(d)' + Cardinality(Adrift(d)')
              <= Loose(d) + Loop(d) + Cardinality(Adrift(d))
        BY <1>0, <2>6, <4>1, <4>3, Parts
      <4> QED
        BY <1>0, <1>1, <1>2, <3>3, <4>4, Parts DEF Total
    <3>5. CASE t.job # waiting
      <4>1. t.job \in Adrift(d)
        BY <3>1, <3>5
      <4>2. t.job \notin Adrift(d)'
        BY <3>2 DEF Adrift
      <4>3. Adrift(d)' \subseteq Adrift(d) \ {t.job}
        BY <2>4, <4>2
      <4>4. Cardinality(Adrift(d)') + 1 <= Cardinality(Adrift(d))
        BY <4>1, <4>3, OneLess
      <4>5. 1 + Loop(d)' + Cardinality(Adrift(d)')
              <= Loose(d) + Loop(d) + Cardinality(Adrift(d))
        BY <1>0, <2>5, <4>4, Parts
      <4> QED
        BY <1>0, <1>1, <1>2, <3>3, <4>5, Parts DEF Total
    <3> QED
      BY <3>4, <3>5
  <2> QED
    BY <2>7, <2>8
<1> QED
  BY <1>5, <1>6

LEMMA ExpiryKeeps ==
    ASSUME IInv, NEW t \in Tx, TooLate(t)
    PROVE  Budget'
<1> SUFFICES ASSUME NEW d \in Deposits PROVE Total(d)' <= 1 + excuses'[d]
  BY DEF Budget, Total
<1>1. /\ UNCHANGED <<txQueue, stage, found, processed, waiting, tick, byKeeper, excuses>>
      /\ inFlight' \subseteq inFlight
  BY DEF TooLate, Expire, keeper
<1>2. Loop(d)' <= Loop(d) /\ Adrift(d)' \subseteq Adrift(d)
  <2>1. Loop(d)' = Loop(d) /\ Adrift(d)' = Adrift(d)
    BY <1>1 DEF Loop, Adrift, Applied, Waits, Holder
  <2> QED
    BY <2>1, Parts DEF IInv
<1>3. Loose(d)' <= Loose(d)
  BY <1>1 DEF Loose
<1> QED
  BY <1>1, <1>2, <1>3, NothingGrows

\* The loop leaves a run to itself: what that run may still credit is excused.
LEMMA TimeoutKeeps ==
    ASSUME IInv, Timeout
    PROVE  Budget'
<1> SUFFICES ASSUME NEW d \in Deposits PROVE Total(d)' <= 1 + excuses'[d]
  BY DEF Budget, Total
<1> DEFINE k == waiting
           g == IF d \in tick[k].events THEN 1 ELSE 0
<1>0. /\ TypeOK /\ Linked /\ Total(d) <= 1 + excuses[d]
      /\ k \in Runs /\ NoJob \notin Runs /\ tick[k] # Idle
  BY TxConstants DEF IInv, Budget, Total, TypeOK, Linked, Timeout, Runs
<1>1. /\ UNCHANGED <<txQueue, stage, found, inFlight, processed, tick, byKeeper>>
      /\ waiting' = NoJob
  BY DEF Timeout, txVars
<1>2. excuses'[d] = excuses[d] + g /\ g \in {0, 1}
  BY <1>0, ExcuseTyped DEF Timeout
<1>3. \A j : Applied(j, d)' <=> Applied(j, d)
  BY <1>1 DEF Applied, Holder
<1>4. ~Applied(NoJob, d)
  BY <1>0, AppliedRun
<1>5. Loop(d)' = IF d \notin processed THEN 1 ELSE 0
  <2>1. ~Applied(waiting, d)'
    BY <1>1, <1>3, <1>4 DEF Applied
  <2> QED
    BY <1>1, <2>1 DEF Loop
<1>6. Applied(k, d) => d \in tick[k].events
  BY <1>0, AppliedFirst DEF Waits
<1>7. Loose(d)' = Loose(d)
  BY <1>1 DEF Loose
<1>8. CASE d \notin tick[k].events \/ Applied(k, d) \/ d \in processed
  <2>1. CASE d \notin tick[k].events \/ Applied(k, d)
    <3>1. Adrift(d)' \subseteq Adrift(d)
      BY <1>0, <1>1, <1>3, <2>1 DEF Adrift
    <3>2. Cardinality(Adrift(d)') <= Cardinality(Adrift(d))
      BY <3>1, NoneMore
    <3>3. Loop(d)' <= Loop(d) + g
      BY <1>5, <1>6, <2>1 DEF Loop
    <3> HIDE DEF g, k
    <3>4. Loose(d)' + Loop(d)' + Cardinality(Adrift(d)')
            <= Loose(d) + Loop(d) + Cardinality(Adrift(d)) + g
      BY <1>0, <1>2, <1>7, <3>2, <3>3, Parts
    <3> QED
      BY <1>0, <1>1, <1>2, <3>4, Balance
  <2>2. CASE d \in tick[k].events /\ ~Applied(k, d) /\ d \in processed
    <3>1. Adrift(d)' \subseteq Adrift(d) \cup {k}
      BY <1>1, <1>3 DEF Adrift
    <3>2. Cardinality(Adrift(d)') <= Cardinality(Adrift(d)) + 1
      BY <3>1, OneMore
    <3>3. Loop(d)' <= Loop(d) /\ g = 1
      BY <1>5, <2>2 DEF Loop
    <3> HIDE DEF g, k
    <3>4. Loose(d)' + Loop(d)' + Cardinality(Adrift(d)')
            <= Loose(d) + Loop(d) + Cardinality(Adrift(d)) + g
      BY <1>0, <1>2, <1>7, <3>2, <3>3, Parts
    <3> QED
      BY <1>0, <1>1, <1>2, <3>4, Balance
  <2> QED
    BY <1>8, <2>1, <2>2
<1>9. CASE d \in tick[k].events /\ ~Applied(k, d) /\ d \notin processed
  <2>1. Adrift(d)' \subseteq Adrift(d) \cup {k}
    BY <1>1, <1>3 DEF Adrift
  <2>2. Cardinality(Adrift(d)') <= Cardinality(Adrift(d)) + 1
    BY <2>1, OneMore
  <2>3. Loop(d)' <= Loop(d) /\ g = 1
    BY <1>5, <1>9 DEF Loop
  <2> HIDE DEF g, k
  <2>4. Loose(d)' + Loop(d)' + Cardinality(Adrift(d)')
          <= Loose(d) + Loop(d) + Cardinality(Adrift(d)) + g
    BY <1>0, <1>2, <1>7, <2>2, <2>3, Parts
  <2> QED
    BY <1>0, <1>1, <1>2, <2>4, Balance
<1> QED
  BY <1>8, <1>9

\* After a restart the loop may credit everything again.
LEMMA RestartKeeps ==
    ASSUME IInv, Restart
    PROVE  Budget'
<1> SUFFICES ASSUME NEW d \in Deposits PROVE Total(d)' <= 1 + excuses'[d]
  BY DEF Budget, Total
<1> DEFINE flies == \E t \in inFlight : t.call = d
           g == IF byKeeper[d] > 0 \/ flies THEN 1 ELSE 0
<1>0. TypeOK /\ Linked /\ Total(d) <= 1 + excuses[d]
  BY DEF IInv, Budget, Total
<1>1. /\ inFlight' = Abandoned /\ txQueue' = << >> /\ UNCHANGED byKeeper
      /\ tick' = [k \in Runs |-> Idle]
  BY DEF Restart, TxCrash
<1>2. excuses'[d] = excuses[d] + g
  <2>1. d \in {e \in Deposits : byKeeper[e] > 0 \/ \E t \in inFlight : t.call = e}
           <=> byKeeper[d] > 0 \/ flies
    OBVIOUS
  <2> QED
    BY <1>0, <2>1, ExcuseTyped DEF Restart
<1>3. Loose(d)' = IF flies THEN 1 ELSE 0
  BY <1>0, <1>1, AbandonedLoose DEF Loose
<1>4. Cardinality(Adrift(d)') = 0
  <2>1. Adrift(d)' = {}
    BY <1>1 DEF Adrift
  <2> QED
    BY <2>1, FS_EmptySet
<1>5. Loop(d)' <= 1 /\ Loop(d)' \in {0, 1}
  BY DEF Loop
<1>6. flies => 1 <= Loose(d) + Loop(d) + Cardinality(Adrift(d))
  <2> SUFFICES ASSUME NEW t \in inFlight, t.call = d
               PROVE  1 <= Loose(d) + Loop(d) + Cardinality(Adrift(d))
    OBVIOUS
  <2>1. CASE t.job = NoJob
    <3>1. t = [job |-> NoJob, call |-> d]
      BY <1>0, <2>1 DEF TypeOK, TxTypeOK, Tx
    <3>2. Loose(d) = 1
      BY <3>1 DEF Loose
    <3> QED
      BY <1>0, <3>2, Parts
  <2>2. CASE t.job # NoJob
    <3>1. txQueue # << >> /\ t = Holder
      BY <1>0, <2>2 DEF Linked
    <3>2. Loop(d) = 1 \/ Holder.job \in Adrift(d)
      BY <1>0, <3>1, FlightCounts
    <3>3. Holder.job \in Adrift(d) => Cardinality(Adrift(d)) # 0
      BY AdriftFinite, FS_EmptySet
    <3> QED
      BY <1>0, <3>2, <3>3, Parts
  <2> QED
    BY <2>1, <2>2
<1>7. byKeeper[d] + Loose(d) + Loop(d) + Cardinality(Adrift(d)) <= 1 + excuses[d]
  BY <1>0 DEF Total
<1>8. byKeeper[d] + Loose(d)' + Loop(d)' <= 1 + (excuses[d] + g)
  <2> HIDE DEF flies
  <2>1. CASE flies
    BY <1>0, <1>3, <1>5, <1>6, <1>7, <2>1, Parts
  <2>2. CASE ~flies
    BY <1>0, <1>3, <1>5, <1>7, <2>2, Parts
  <2> QED
    BY <2>1, <2>2
<1> HIDE DEF g, flies
<1>9. byKeeper'[d] = byKeeper[d] /\ byKeeper[d] \in Nat /\ Loose(d)' \in Nat
  BY <1>0, <1>1, Parts
<1> QED
  BY <1>2, <1>4, <1>5, <1>8, <1>9 DEF Total

-----------------------------------------------------------------------------
(* The theorems *)

LEMMA Initially == Init => IInv
<1> SUFFICES ASSUME Init PROVE IInv
  OBVIOUS
<1> USE DEF Init, TxInit
<1>1. TypeOK
  <2>1. txQueue \in Seq(Request) /\ attempt \in 0 .. MaxRetries
    BY TxConstants
  <2>2. TxTypeOK
    BY <2>1 DEF TxTypeOK
  <2> QED
    BY <2>2 DEF TypeOK
<1>2. Linked
  BY DEF Linked
<1>3. Budget
  <2> SUFFICES ASSUME NEW d \in Deposits PROVE Total(d) <= 1 + excuses[d]
    BY DEF Budget, Total
  <2>1. Adrift(d) = {} /\ Loose(d) = 0 /\ Loop(d) \in {0, 1} /\ byKeeper[d] = 0
        /\ excuses[d] = 0
    BY DEF Adrift, Loose, Loop
  <2>2. Cardinality(Adrift(d)) = 0
    BY <2>1, FS_EmptySet
  <2> QED
    BY <2>1, <2>2 DEF Total
<1> QED
  BY <1>1, <1>2, <1>3 DEF IInv

LEMMA Invariance == IInv /\ [Next]_vars => IInv'
<1> SUFFICES ASSUME IInv, [Next]_vars PROVE IInv'
  OBVIOUS
<1>1. TypeOK' /\ Linked'
  BY TypeKept, LinkedKept DEF IInv
<1>2. CASE ContractStep
  <2>1. UNCHANGED <<tick, waiting, processed, byKeeper, excuses, txVars>>
    BY <1>2 DEF ContractStep, DepositToStellar, Execute, GuardExpires, Age, offChain,
                keeper
  <2> QED
    BY <1>1, <2>1, ElsewhereKeeps DEF IInv
<1>3. CASE UNCHANGED vars
  <2>1. UNCHANGED <<tick, waiting, processed, byKeeper, excuses, txVars>>
    BY <1>3 DEF vars, keeper
  <2> QED
    BY <1>1, <2>1, ElsewhereKeeps DEF IInv
<1>4. CASE NetworkStep
  BY <1>1, <1>4, InclusionKeeps, ExpiryKeeps DEF NetworkStep, IInv
<1>5. CASE ClientStep
  BY <1>1, <1>5, ClientKeeps DEF IInv
<1>6. ASSUME NEW k \in Runs, RunStep(k) PROVE IInv'
  BY <1>1, <1>6, RunKeeps DEF IInv
<1>7. CASE Timeout \/ Restart
  BY <1>1, <1>7, TimeoutKeeps, RestartKeeps DEF IInv
<1> QED
  BY <1>2, <1>3, <1>4, <1>5, <1>6, <1>7 DEF Next

\* The variables of the bridge, the keeper and its client keep their types: what is
\* counted never becomes negative and a run is about deposits that exist.
THEOREM TypeCorrect == Spec => []TypeOK
<1>1. IInv => TypeOK
  BY DEF IInv
<1> QED
  BY <1>1, Initially, Invariance, PTL DEF Spec

\* The keeper credits a deposit once, and once more only for an answer it lost, a
\* tick it gave up or a restart, with any number of runs, deposits and retries.
THEOREM SecondCreditsAreMishaps == Spec => []CreditsNeedAnExcuse
<1>1. IInv => CreditsNeedAnExcuse
  <2> SUFFICES ASSUME IInv, NEW d \in Deposits PROVE byKeeper[d] <= 1 + excuses[d]
    BY DEF CreditsNeedAnExcuse
  <2>1. Total(d) <= 1 + excuses[d]
    BY DEF IInv, Budget, Total
  <2> QED
    BY <2>1, Parts DEF IInv, Total
<1> QED
  BY <1>1, Initially, Invariance, PTL DEF Spec
=============================================================================
