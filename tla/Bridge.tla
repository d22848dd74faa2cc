------------------------------- MODULE Bridge -------------------------------
(***************************************************************************)
(* Deposits from an EVM chain.  StellaXBridgeEVM takes the money and sends *)
(* a message, the relayers bring it to the Stellar bridge, whose execute   *)
(* credits the user's vault balance, and the bridge keeper credits every   *)
(* executed deposit it finds in the index of the relay network (the GMP    *)
(* API), through the client of TxClient.                                   *)
(*                                                                         *)
(* A deposit stands for its message, which has an id of its own.  Equal    *)
(* amounts for equal recipients make equal payloads.                       *)
(***************************************************************************)
EXTENDS TxClient, FiniteSets

CONSTANTS
    Deposits,     \* deposits that may be made
    Recipients,   \* strings of 56 characters that users name as recipients
    Accounts,     \* those that are G-addresses
    Contracts,    \* those that are C-addresses; the others are no addresses
    Amounts,      \* amounts, with the 6 decimals of the EVM token
    FeeBps, BPS,
    Precision,    \* units of the Stellar token in one of the EVM token
    PageSize,     \* events a query of the GMP API returns
    MaxExcuses,   \* bound on the mishaps counted per deposit
    NoDeposit, NoPayload, Idle     \* model values

Runs == Jobs      \* executions of the keeper's tick

ASSUME BridgeConstants ==
    /\ Calls = Deposits /\ NoDeposit \notin Deposits
    /\ Amounts \subseteq Nat \ {0}
    /\ FeeBps \in Nat /\ BPS \in Nat \ {0} /\ FeeBps <= BPS
    /\ Precision \in Nat \ {0} /\ PageSize \in Nat \ {0} /\ MaxExcuses \in Nat
    /\ Accounts \cap Contracts = {} /\ Accounts \cup Contracts \subseteq Recipients

\* The keeper's loop has few runs at a time, and an idle run is not one at work.
ASSUME BridgeIsFinite ==
    /\ IsFiniteSet(Runs)
    /\ Idle \notin [phase : {"fetch", "process"}, events : SUBSET Deposits]

VARIABLES
    payload,     \* deposit -> its payload, or NoPayload before it is made
    messages,    \* deposits made whose message nobody has consumed
    executed,    \* deposits whose message the Stellar bridge has executed
    guard,       \* payloads in its replay guard, which is temporary storage
    byKeeper,    \* deposit -> times bridge_collateral_in credited it
    processed,   \* deposits the keeper does not touch again
    old,         \* executed deposits older than the overlap of two scans
    dropped,     \* deposits from before the keeper's fromTimestamp
    waiting,     \* the run the worker's loop waits for, or NoJob
    tick,        \* run -> its phase and the deposits it is about, or Idle
    awaited,     \* run -> the deposit its invoke is about, or NoDeposit
    excuses      \* history: deposit -> reasons to credit it once more

chain == <<payload, messages, executed, guard, old>>
keeper == <<processed, dropped, waiting, tick, awaited>>
vars == <<chain, keeper, byKeeper, excuses, txVars>>

Payloads == [recipient : Recipients, amount : Amounts]

Amount(d) == payload[d].amount

Credited == Accounts \cup Contracts

Fee(d) == (Amount(d) * FeeBps) \div BPS

\* What the two ways to the vault credit, in units of the Stellar token.
CreditByExecute(d) ==
    IF d \in executed THEN (Amount(d) - Fee(d)) * Precision ELSE 0

CreditByKeeper(d) == byKeeper[d] * Amount(d) * Precision

TypeOK ==
    /\ TxTypeOK
    /\ payload \in [Deposits -> Payloads \cup {NoPayload}]
    /\ messages \subseteq Deposits /\ executed \subseteq Deposits
    /\ guard \subseteq Payloads
    /\ byKeeper \in [Deposits -> Nat] /\ excuses \in [Deposits -> Nat]
    /\ processed \subseteq Deposits
    /\ old \subseteq executed /\ dropped \subseteq Deposits
    /\ waiting \in Runs \cup {NoJob}
    /\ tick \in [Runs -> {Idle} \cup [phase : {"fetch", "process"},
                                      events : SUBSET Deposits]]
    /\ awaited \in [Runs -> Deposits \cup {NoDeposit}]

Init ==
    /\ TxInit
    /\ payload = [d \in Deposits |-> NoPayload]
    /\ messages = {} /\ executed = {} /\ guard = {} /\ old = {}
    /\ byKeeper = [d \in Deposits |-> 0] /\ excuses = [d \in Deposits |-> 0]
    /\ processed = {} /\ dropped = {} /\ waiting = NoJob
    /\ tick = [k \in Runs |-> Idle] /\ awaited = [k \in Runs |-> NoDeposit]

-----------------------------------------------------------------------------
(* The contracts and the network between them *)

offChain == <<keeper, byKeeper, excuses, txVars>>

\* The EVM contract counts the characters of the recipient, and no more.
\* Deposits are numbered as they are made.
DepositToStellar(d, p) ==
    /\ payload[d] = NoPayload
    /\ d = CHOOSE e \in Deposits : payload[e] = NoPayload
    /\ payload' = [payload EXCEPT ![d] = p]
    /\ messages' = messages \cup {d}
    /\ UNCHANGED <<executed, guard, old, offChain>>

\* A relayer brings a message to the bridge.  When the guard knows its payload
\* or the recipient is no address, execute reverts and the message stays.
Execute(d) ==
    /\ d \in messages /\ payload[d] \notin guard
    /\ payload[d].recipient \in Credited
    /\ messages' = messages \ {d}
    /\ executed' = executed \cup {d}
    /\ guard' = guard \cup {payload[d]}
    /\ UNCHANGED <<payload, old, offChain>>

\* Mutant: the guard is kept in persistent storage.
GuardForever(p) == p \in guard /\ UNCHANGED vars

\* An entry of the guard reaches the end of its time to live.
GuardExpires(p) ==
    /\ p \in guard
    /\ guard' = guard \ {p}
    /\ UNCHANGED <<payload, messages, executed, old, offChain>>

Age(d) ==
    /\ d \in executed \ old
    /\ old' = old \cup {d}
    /\ UNCHANGED <<payload, messages, executed, guard, offChain>>

-----------------------------------------------------------------------------
(* The keeper *)

\* Mishaps after which a deposit may be credited once more.
Excuse(S) ==
    /\ \A d \in S : excuses[d] < MaxExcuses
    /\ excuses' = [d \in Deposits |-> excuses[d] + IF d \in S THEN 1 ELSE 0]

\* The id of a run means nothing: any idle one serves.
StartTick(k) ==
    /\ waiting = NoJob /\ tick[k] = Idle
    /\ k = CHOOSE j \in Runs : tick[j] = Idle
    /\ waiting' = k
    /\ tick' = [tick EXCEPT ![k] = [phase |-> "fetch",
                                    events |-> Deposits \ dropped]]
    /\ UNCHANGED <<processed, dropped, awaited, chain, byKeeper, excuses, txVars>>

\* The tick of run k is over; the loop may have given it up before.
Ended(k) ==
    /\ tick' = [tick EXCEPT ![k] = Idle]
    /\ waiting' = IF waiting = k THEN NoJob ELSE waiting

New(page) == page \ processed

\* The index answers with some of the executed deposits since the time the
\* run asked for.  A failure counts as an empty answer.
Fetched(k) ==
    /\ tick[k] # Idle /\ tick[k].phase = "fetch"
    /\ \E page \in SUBSET (executed \cap tick[k].events) :
          /\ Cardinality(page) <= PageSize
          /\ IF New(page) = {}
               THEN Ended(k)
               ELSE /\ tick' = [tick EXCEPT ![k] = [phase |-> "process",
                                                    events |-> New(page)]]
                    /\ UNCHANGED waiting
    /\ UNCHANGED <<processed, dropped, awaited, chain, byKeeper, excuses, txVars>>

\* Run k is done with d.  After the last event of a tick the scan window moves
\* on, whatever became of the events.
Done(k, d) ==
    LET rest == tick[k].events \ {d}
    IN  /\ awaited' = [awaited EXCEPT ![k] = NoDeposit]
        /\ IF rest = {}
             THEN Ended(k) /\ dropped' = old
             ELSE /\ tick' = [tick EXCEPT ![k].events = rest]
                  /\ UNCHANGED <<waiting, dropped>>

Processing(k, d) ==
    /\ tick[k] # Idle /\ tick[k].phase = "process" /\ d \in tick[k].events
    /\ awaited[k] = NoDeposit

\* An event whose recipient is not a G-address is not credited.
Skip(k, d) ==
    /\ Processing(k, d) /\ payload[d].recipient \notin Accounts
    /\ processed' = processed \cup {d}
    /\ Done(k, d)
    /\ UNCHANGED <<chain, byKeeper, excuses, txVars>>

ProcessDeposit(k, d) ==
    /\ Processing(k, d) /\ payload[d].recipient \in Accounts
    /\ Invoke(k, d)
    /\ awaited' = [awaited EXCEPT ![k] = d]
    /\ UNCHANGED <<processed, dropped, waiting, tick, chain, byKeeper, excuses>>

-----------------------------------------------------------------------------
(* The client at work for the keeper *)

Attempt ==
    /\ LoadAccount \/ Send
    /\ UNCHANGED <<chain, keeper, byKeeper, excuses>>

\* The transaction of the attempt that fails may have credited the deposit, or
\* may do so later.
MayHaveApplied == stage = "poll" /\ (found = "SUCCESS" \/ Holder \in inFlight)

Failed ==
    Excuse(IF MayHaveApplied THEN {Holder.call} ELSE {})

TryAgain ==
    /\ Retry /\ Failed
    /\ UNCHANGED <<chain, keeper, byKeeper>>

\* invoke throws: the deposit is left for the next tick.
NotCredited ==
    /\ \/ GiveUp /\ Failed
       \/ SimulationRefused /\ UNCHANGED excuses
    /\ Done(Holder.job, Holder.call)
    /\ UNCHANGED <<processed, chain, byKeeper>>

\* Mutant: a credited deposit is not remembered.
CreditedUnmarked ==
    /\ \E garbled \in BOOLEAN : Succeed(garbled)
    /\ Done(Holder.job, Holder.call)
    /\ UNCHANGED <<processed, chain, byKeeper, excuses>>

\* invoke returns.
MarkCredited ==
    /\ \E garbled \in BOOLEAN : Succeed(garbled)
    /\ processed' = processed \cup {Holder.call}
    /\ Done(Holder.job, Holder.call)
    /\ UNCHANGED <<chain, byKeeper, excuses>>

\* bridge_collateral_in credits whatever it is told to, or fails.
BridgeCollateralIn(t) ==
    /\ \E ok \in BOOLEAN :
          /\ Include(t, ok)
          /\ byKeeper' = IF ok THEN [byKeeper EXCEPT ![t.call] = @ + 1]
                               ELSE byKeeper
    /\ UNCHANGED <<chain, keeper, excuses>>

TooLate(t) ==
    /\ Expire(t)
    /\ UNCHANGED <<chain, keeper, byKeeper, excuses>>

\* The loop gives up on a tick, which goes on: its events may be credited by
\* it and by the next one.
Timeout ==
    /\ waiting # NoJob
    /\ Excuse(tick[waiting].events)
    /\ waiting' = NoJob
    /\ UNCHANGED <<processed, dropped, tick, awaited, chain, byKeeper, txVars>>

\* The keeper's process stops and starts again, with an empty memory and a
\* scan that looks back a day.
Restart ==
    /\ TxCrash
    /\ Excuse({d \in Deposits : byKeeper[d] > 0 \/ \E t \in inFlight : t.call = d})
    /\ processed' = {} /\ dropped' = {} /\ waiting' = NoJob
    /\ tick' = [k \in Runs |-> Idle] /\ awaited' = [k \in Runs |-> NoDeposit]
    /\ UNCHANGED <<chain, byKeeper>>

RunStep(k) ==
    \/ StartTick(k) \/ Fetched(k)
    \/ \E d \in Deposits : Skip(k, d) \/ ProcessDeposit(k, d)

ClientStep == Attempt \/ TryAgain \/ NotCredited \/ MarkCredited

NetworkStep == \E t \in Tx : BridgeCollateralIn(t) \/ TooLate(t)

ContractStep ==
    \/ \E d \in Deposits : Execute(d) \/ Age(d)
    \/ \E p \in Payloads : GuardExpires(p) \/ \E d \in Deposits : DepositToStellar(d, p)

Next ==
    \/ ContractStep \/ NetworkStep \/ ClientStep
    \/ \E k \in Runs : RunStep(k)
    \/ Timeout \/ Restart

\* Relayers try a message again and again, and temporary storage expires.
\* Nothing is assumed of the keeper: a request of its client may hang forever.
Fairness ==
    /\ \A d \in Deposits : SF_vars(Execute(d))
    /\ \A p \in Payloads : WF_vars(GuardExpires(p))

Spec == Init /\ [][Next]_vars /\ Fairness

-----------------------------------------------------------------------------
(* Properties *)

\* The keeper credits a deposit once, and once more for each time that an
\* answer was lost, a tick was given up or the process restarted: neither the
\* overlap of its scans, nor two ticks, nor the retries of its client credit it
\* again by themselves.
CreditsNeedAnExcuse == \A d \in Deposits : byKeeper[d] <= 1 + excuses[d]

\* Every deposit for a Stellar address is credited on Stellar in the end, also
\* those with equal payloads, whatever the keeper does: the replay guard delays
\* the second one until its entry expires.
EveryDepositArrives ==
    \A d \in Deposits :
        (d \in messages /\ payload[d].recipient \in Credited)
            ~> (d \in executed)
=============================================================================
