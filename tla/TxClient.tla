------------------------------ MODULE TxClient ------------------------------
(***************************************************************************)
(* The keeper's way to the chain (packages/keeper/src/stellar.ts): invoke  *)
(* lets one call at a time load the account's sequence number, simulate,   *)
(* sign, send and poll, and starts over when an attempt fails.  The        *)
(* network is the environment: requests and answers get lost, and a        *)
(* transaction that was sent may be included after its sender stopped      *)
(* asking for it.                                                          *)
(*                                                                         *)
(* Sequence numbers are abstracted to what they decide.  Every transaction *)
(* in flight carries the account's next number, so the inclusion of one    *)
(* kills the others and outdates what was loaded before.                   *)
(***************************************************************************)
EXTENDS Naturals, Sequences

CONSTANTS
    Jobs,        \* the threads of control that call invoke
    Calls,       \* contract calls (contract, method and arguments)
    NoJob,       \* model value: the sender of a transaction nobody polls
    MaxRetries

ASSUME TxConstants == NoJob \notin Jobs /\ MaxRetries \in Nat

VARIABLES
    txQueue,   \* the calls waiting for the client; the first one has it
    stage,     \* where the first one is: "load", "send" or "poll"
    attempt,   \* its failed attempts
    loaded,    \* whether the sequence number it loaded is still the account's
    found,     \* what the network knows of the transaction it sent
    inFlight   \* transactions that may still be included

txVars == <<txQueue, stage, attempt, loaded, found, inFlight>>

Request == [job : Jobs, call : Calls]
Tx == [job : Jobs \cup {NoJob}, call : Calls]

TxTypeOK ==
    /\ txQueue \in Seq(Request)
    /\ stage \in {"load", "send", "poll"}
    /\ attempt \in 0 .. MaxRetries
    /\ loaded \in BOOLEAN
    /\ found \in {"NOT_FOUND", "SUCCESS", "FAILED"}
    /\ inFlight \subseteq Tx

TxInit ==
    /\ txQueue = << >>
    /\ stage = "load" /\ attempt = 0 /\ loaded = FALSE /\ found = "NOT_FOUND"
    /\ inFlight = {}

Holder == Head(txQueue)

Queued(j) == \E i \in DOMAIN txQueue : txQueue[i].job = j

\* The call joins the queue behind the one that has the client.
Invoke(j, c) ==
    /\ ~Queued(j)
    /\ txQueue' = Append(txQueue, [job |-> j, call |-> c])
    /\ UNCHANGED <<stage, attempt, loaded, found, inFlight>>

\* The transactions of a call that is given up or tried again go on alone.
Abandoned == {[t EXCEPT !.job = NoJob] : t \in inFlight}

\* invoke returns or throws, and the next call in the queue gets the client.
Release ==
    /\ txQueue' = Tail(txQueue)
    /\ stage' = "load" /\ attempt' = 0 /\ loaded' = FALSE
    /\ found' = "NOT_FOUND"
    /\ inFlight' = Abandoned

LoadAccount ==
    /\ txQueue # << >> /\ stage = "load"
    /\ stage' = "send" /\ loaded' = TRUE
    /\ UNCHANGED <<txQueue, attempt, found, inFlight>>

\* sendTransaction accepts the transaction.  It can be included only if its
\* sequence number is still the next one.
Send ==
    /\ txQueue # << >> /\ stage = "send"
    /\ stage' = "poll" /\ found' = "NOT_FOUND"
    /\ inFlight' = Abandoned \cup IF loaded THEN {Holder} ELSE {}
    /\ UNCHANGED <<txQueue, attempt, loaded>>

\* Any step of an attempt throws: a request that fails, a transaction refused,
\* failed or not found in time.  What was sent stays sent.
Retry ==
    /\ txQueue # << >> /\ attempt < MaxRetries
    /\ stage' = "load" /\ attempt' = attempt + 1 /\ loaded' = FALSE
    /\ found' = "NOT_FOUND"
    /\ inFlight' = Abandoned
    /\ UNCHANGED txQueue

\* The last attempt throws.
GiveUp ==
    /\ txQueue # << >> /\ attempt = MaxRetries
    /\ Release

\* The simulation ends in an error of the contract: no attempt is left.
SimulationRefused ==
    /\ txQueue # << >> /\ stage = "send"
    /\ Release

\* A poll sees the transaction succeed, or its answer cannot be parsed, which
\* is taken for a success of whatever was sent.
Succeed(garbled) ==
    /\ txQueue # << >> /\ stage = "poll"
    /\ found = "SUCCESS" \/ garbled
    /\ Release

-----------------------------------------------------------------------------
(* The network *)

\* A transaction is included, and succeeds or fails.  It uses up the sequence
\* number of all the others.
Include(t, ok) ==
    /\ t \in inFlight
    /\ inFlight' = {}
    /\ loaded' = FALSE
    /\ found' = IF txQueue # << >> /\ stage = "poll" /\ t = Holder
                  THEN IF ok THEN "SUCCESS" ELSE "FAILED"
                  ELSE found
    /\ UNCHANGED <<txQueue, stage, attempt>>

\* The time bounds of a transaction pass.
Expire(t) ==
    /\ t \in inFlight
    /\ inFlight' = inFlight \ {t}
    /\ UNCHANGED <<txQueue, stage, attempt, loaded, found>>

\* The process stops: the queue is gone, what was sent is not.
TxCrash ==
    /\ txQueue' = << >>
    /\ stage' = "load" /\ attempt' = 0 /\ loaded' = FALSE
    /\ found' = "NOT_FOUND"
    /\ inFlight' = Abandoned
=============================================================================
