------------------------------ MODULE WalletTx ------------------------------
(***************************************************************************)
(* The web client's way to the chain (packages/frontend): useTx runs one   *)
(* flow of contract calls under a toast, and FreighterExecutor.invoke      *)
(* simulates each call, has the wallet sign it, sends it and polls for it. *)
(* The wallet's user and the network are the environment: either may fail  *)
(* a step, an accepted transaction may be included after its sender gave   *)
(* up, and a poll whose answer cannot be read counts as a success.         *)
(***************************************************************************)
EXTENDS Naturals

CONSTANTS Flows, Calls, NoCall

ASSUME WalletConstants == NoCall \notin Calls

VARIABLES
    calling,   \* the contract call each flow is waiting for
    step,      \* how far invoke has come with it
    result,    \* what the network knows of its transaction
    live,      \* transactions that were accepted and may still be included
    toast      \* the phase the flow's toast shows

txVars == <<calling, step, result, live, toast>>

Tx == [flow : Flows, call : Calls]

TxTypeOK ==
    /\ calling \in [Flows -> Calls \cup {NoCall}]
    /\ step \in [Flows -> {"idle", "sign", "poll"}]
    /\ result \in [Flows -> {"NOT_FOUND", "SUCCESS", "FAILED"}]
    /\ live \subseteq Tx
    /\ toast \in [Flows -> {"none", "pending", "success", "failed"}]

TxInit ==
    /\ calling = [f \in Flows |-> NoCall]
    /\ step = [f \in Flows |-> "idle"]
    /\ result = [f \in Flows |-> "NOT_FOUND"]
    /\ live = {}
    /\ toast = [f \in Flows |-> "none"]

Mine(f) == [flow |-> f, call |-> calling[f]]

\* invoke loads the account, then simulates and assembles the transaction.
Invoke(f, c) ==
    /\ calling' = [calling EXCEPT ![f] = c]
    /\ step' = [step EXCEPT ![f] = "sign"]
    /\ result' = [result EXCEPT ![f] = "NOT_FOUND"]

\* Signed once, the same transaction is sent until the node takes it.
Send(f) ==
    /\ step[f] = "sign"
    /\ step' = [step EXCEPT ![f] = "poll"]
    /\ live' = live \cup {Mine(f)}
    /\ UNCHANGED <<calling, result, toast>>

\* The simulation, the user or the node refuses; or the answer to the sending
\* is lost, and the transaction may be included all the same.
RefusedOrLost(f, lost) ==
    /\ step[f] = "sign"
    /\ live' = live \cup IF lost THEN {Mine(f)} ELSE {}

\* invoke throws: it was refused, or it failed on the chain.
Throws(f) ==
    \/ \E lost \in BOOLEAN : RefusedOrLost(f, lost)
    \/ step[f] = "poll" /\ result[f] = "FAILED" /\ UNCHANGED live

\* invoke returns SUCCESS with the call's return value.
ReturnsValue(f) == step[f] = "poll" /\ result[f] = "SUCCESS" /\ UNCHANGED live

\* A poll throws, for a garbled answer or a failed request: SUCCESS, no value.
ReturnsBlindly(f) == step[f] = "poll" /\ UNCHANGED live

\* The deadline passes: PENDING, no value.
TimesOut(f) == step[f] = "poll" /\ UNCHANGED live

\* run pushes a toast, and updates it when the flow is over.  A flow that timed
\* out keeps its pending toast.
StartRun(f) == toast' = [toast EXCEPT ![f] = "pending"]

EndRun(f, phase) ==
    /\ toast' = [toast EXCEPT ![f] = phase]
    /\ calling' = [calling EXCEPT ![f] = NoCall]
    /\ step' = [step EXCEPT ![f] = "idle"]
    /\ result' = [result EXCEPT ![f] = "NOT_FOUND"]

\* The network includes a transaction.
Include(t, ok) ==
    /\ t \in live
    /\ live' = live \ {t}
    /\ result' = IF step[t.flow] = "poll" /\ t = Mine(t.flow)
                   THEN [result EXCEPT ![t.flow] = IF ok THEN "SUCCESS" ELSE "FAILED"]
                   ELSE result
    /\ UNCHANGED <<calling, step, toast>>

\* Its time bounds pass.
Expire(t) ==
    /\ t \in live
    /\ live' = live \ {t}
    /\ UNCHANGED <<calling, step, result, toast>>
=============================================================================
