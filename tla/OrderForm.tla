----------------------------- MODULE OrderForm -----------------------------
(***************************************************************************)
(* The order form of the trade page (frontend/src/pages/trade/OrderForm    *)
(* .tsx) and what its submissions leave on the chain.  A submission is one *)
(* flow of calls: a market order opens a position, and for a real-world    *)
(* asset tries again without the price update when the first call throws;  *)
(* a limit order reads the account's nonce, signs, and is placed; a stop   *)
(* is one pending order, a bracket is three of them and a link.  The form  *)
(* is enabled again whenever a run ends, also while another one goes on.   *)
(***************************************************************************)
EXTENDS WalletTx, Interface, Sequences, FiniteSets

\* The calls the form makes.
ASSUME OrderFormCalls ==
    {"open", "openWithUpdate", "place", "stop", "entry", "tp", "sl", "link"} \subseteq Calls

VARIABLES
    dialog,    \* showConfirm
    pending,   \* of the form's useTx
    mode,      \* of each submission, "none" before it is made
    stage,     \* "new", "nonce" while a limit order is prepared, "run", "over"
    nonce,     \* the nonce in its signed order
    added,     \* submissions whose position was added to the session store
    opened,    \* positions each submission opened
    placed,    \* submissions whose limit order the CLOB holds
    nextNonce, \* the account's nonce there
    orders,    \* pending orders of the perp engine
    linked     \* submissions whose bracket it holds

formVars == <<dialog, pending, mode, stage, nonce, added>>
effectVars == <<opened, placed, nextNonce, orders, linked>>
orderVars == <<txVars, formVars, effectVars>>

Modes == {"market", "rwa", "limit", "stop", "tp_sl"}
BracketCalls == <<"entry", "tp", "sl", "link">>

FirstCall(m) ==
    CASE m = "market" -> "open" [] m = "rwa" -> "openWithUpdate"
      [] m = "limit" -> "place" [] m = "stop" -> "stop" [] m = "tp_sl" -> "entry"

OrderTypeOK ==
    /\ TxTypeOK
    /\ dialog \in BOOLEAN /\ pending \in BOOLEAN
    /\ mode \in [Flows -> Modes \cup {"none"}]
    /\ stage \in [Flows -> {"new", "nonce", "run", "over"}]
    /\ nonce \in [Flows -> 0 .. Cardinality(Flows) + 1]
    /\ added \subseteq Flows /\ placed \subseteq Flows /\ linked \subseteq Flows
    /\ opened \in [Flows -> 0 .. 2]
    /\ nextNonce \in 0 .. Cardinality(Flows) + 1
    /\ orders \subseteq Tx

OrderInit ==
    /\ TxInit
    /\ dialog = FALSE /\ pending = FALSE
    /\ mode = [f \in Flows |-> "none"]
    /\ stage = [f \in Flows |-> "new"]
    /\ nonce = [f \in Flows |-> 0]
    /\ added = {}
    /\ opened = [f \in Flows |-> 0]
    /\ placed = {} /\ nextNonce \in {0, 1} /\ orders = {} /\ linked = {}

-----------------------------------------------------------------------------
(* The form *)

\* The button is disabled while a run is pending.
ShowConfirm ==
    /\ ~pending /\ ~dialog
    /\ dialog' = TRUE
    /\ UNCHANGED <<txVars, pending, mode, stage, nonce, added, effectVars>>

CancelDialog ==
    /\ dialog
    /\ dialog' = FALSE
    /\ UNCHANGED <<txVars, pending, mode, stage, nonce, added, effectVars>>

Run(f, m) ==
    /\ StartRun(f) /\ Invoke(f, FirstCall(m)) /\ UNCHANGED live
    /\ pending' = TRUE
    /\ stage' = [stage EXCEPT ![f] = "run"]

\* executeSubmit.  A limit order prepares itself before it runs.
Confirm(f, m) ==
    /\ dialog /\ stage[f] = "new"
    /\ dialog' = FALSE
    /\ mode' = [mode EXCEPT ![f] = m]
    /\ IF m = "limit"
         THEN /\ stage' = [stage EXCEPT ![f] = "nonce"]
              /\ UNCHANGED <<txVars, pending>>
         ELSE Run(f, m)
    /\ UNCHANGED <<nonce, added, effectVars>>

\* getNonce; an answer that does not come is taken for 0.
GetNonce(f) ==
    /\ stage[f] = "nonce"
    /\ \E n \in {nextNonce, 0} : nonce' = [nonce EXCEPT ![f] = n]
    /\ Run(f, "limit")
    /\ UNCHANGED <<dialog, mode, added, effectVars>>

Running(f) == stage[f] = "run"

Finish(f, phase) ==
    /\ Running(f) /\ EndRun(f, phase)
    /\ stage' = [stage EXCEPT ![f] = "over"]
    /\ pending' = FALSE

NextOf(c) == BracketCalls[CHOOSE i \in 2 .. 4 : BracketCalls[i - 1] = c]
MidBracket(f) == calling[f] \in {"entry", "tp", "sl"}
Opens(f) == calling[f] \in {"open", "openWithUpdate"}

\* The call returns its value: a position id, or an order id that the bracket's
\* next call needs.
Proceed(f) ==
    /\ Running(f) /\ ReturnsValue(f)
    /\ IF MidBracket(f)
         THEN /\ Invoke(f, NextOf(calling[f]))
              /\ UNCHANGED <<toast, stage, pending, added>>
         ELSE /\ Finish(f, "success")
              /\ added' = IF Opens(f) THEN added \cup {f} ELSE added
    /\ UNCHANGED <<dialog, mode, nonce, effectVars>>

\* Mutant: the missing return value of a bracket's order is not noticed.
EndWithoutValueInBracket(f) ==
    /\ Running(f)
    /\ ReturnsBlindly(f)
    /\ IF MidBracket(f)
         THEN Invoke(f, NextOf(calling[f])) /\ UNCHANGED <<toast, stage, pending>>
         ELSE Finish(f, "success")
    /\ UNCHANGED <<dialog, mode, nonce, added, effectVars>>

\* Mutant: a position is recorded although its id did not come back.
EndWithoutValueRecorded(f) ==
    /\ ReturnsBlindly(f) /\ Finish(f, "success")
    /\ added' = IF Opens(f) THEN added \cup {f} ELSE added
    /\ UNCHANGED <<dialog, mode, nonce, effectVars>>

\* The call returns without a value.  Reading the order's id throws in the
\* middle of a bracket; nothing is recorded for a position.
EndWithoutValue(f) ==
    /\ \/ /\ ReturnsBlindly(f)
          /\ Finish(f, IF MidBracket(f) THEN "failed" ELSE "success")
       \/ /\ TimesOut(f)
          /\ Finish(f, IF MidBracket(f) THEN "failed" ELSE "pending")
    /\ UNCHANGED <<dialog, mode, nonce, added, effectVars>>

\* Mutant: any call is made once more when it throws.
ThrowAndRepeat(f) ==
    /\ Running(f) /\ Throws(f)
    /\ \/ Invoke(f, calling[f]) /\ UNCHANGED <<toast, stage, pending>>
       \/ Finish(f, "failed")
    /\ UNCHANGED <<dialog, mode, nonce, added, effectVars>>

\* The call throws.  For a real-world asset the position is opened without the
\* price update then, except after the errors that name a business rule.
Throw(f) ==
    /\ Running(f) /\ Throws(f)
    /\ \/ /\ calling[f] = "openWithUpdate"
          /\ Invoke(f, "open")
          /\ UNCHANGED <<toast, stage, pending>>
       \/ Finish(f, "failed")
    /\ UNCHANGED <<dialog, mode, nonce, added, effectVars>>

\* The user signs, and the node takes the transaction.
SignAndSend(f) ==
    /\ Running(f) /\ Send(f)
    /\ UNCHANGED <<formVars, effectVars>>

-----------------------------------------------------------------------------
(* The contracts *)

OrdersOf(f) == {[flow |-> f, call |-> c] : c \in {"entry", "tp", "sl"}}

\* Mutant: place_order takes any nonce.
LegalNonce(t) == t.call = "link" => OrdersOf(t.flow) \subseteq orders

OpenWithUpdate ==
    CHOOSE c \in Sends("perp") : c.method = "open_position_with_update"

\* Whether the call can succeed at all.  The feeds of the price update are sent
\* in a form the contract does not take, so that one never does.
Legal(t) ==
    CASE t.call = "place" -> nonce[t.flow] = nextNonce
      [] t.call = "link" -> OrdersOf(t.flow) \subseteq orders
      [] t.call = "openWithUpdate" -> Understood("perp", OpenWithUpdate)
      [] OTHER -> TRUE

Executed(t) ==
    LET f == t.flow
    IN  /\ Legal(t) /\ Include(t, TRUE)
        /\ opened' = IF t.call \in {"open", "openWithUpdate"}
                       THEN [opened EXCEPT ![f] = @ + 1] ELSE opened
        /\ IF t.call = "place"
             THEN placed' = placed \cup {f} /\ nextNonce' = nextNonce + 1
             ELSE UNCHANGED <<placed, nextNonce>>
        /\ orders' = IF t.call \in {"stop", "entry", "tp", "sl"}
                       THEN orders \cup {t} ELSE orders
        /\ linked' = IF t.call = "link" THEN linked \cup {f} ELSE linked
        /\ UNCHANGED formVars

NotExecuted(t) ==
    /\ Include(t, FALSE) \/ Expire(t)
    /\ UNCHANGED <<formVars, effectVars>>

-----------------------------------------------------------------------------
FlowStep(f) ==
    GetNonce(f) \/ SignAndSend(f) \/ Proceed(f) \/ EndWithoutValue(f) \/ Throw(f)

OrderNext ==
    \/ ShowConfirm \/ CancelDialog
    \/ \E f \in Flows : (\E m \in Modes : Confirm(f, m)) \/ FlowStep(f)
    \/ \E t \in Tx : Executed(t) \/ NotExecuted(t)

\* Requests are answered or fail, polling has a deadline, and the user answers
\* the wallet.
OrderFairness == \A f \in Flows : WF_orderVars(FlowStep(f))

OrderSpec == OrderInit /\ [][OrderNext]_orderVars /\ OrderFairness

-----------------------------------------------------------------------------
(* Properties *)

\* A submission opens one position at most, whatever answers are lost: a signed
\* transaction is sent again, never a new one; and the second call made for a
\* real-world asset follows a first one that cannot have got through.
OpensOnce == \A f \in Flows : opened[f] <= 1

\* Two limit orders signed for one nonce, as a second submission may be while
\* the first is being prepared, are never both placed.
NoncesAreUsedOnce ==
    \A f, g \in placed : f # g => nonce[f] # nonce[g]

\* A bracket that gets signed links three orders that exist, although every one
\* of them comes from a transaction whose answer may be lost.
BracketsAreWhole ==
    \A f \in Flows : calling[f] = "link" \/ f \in linked => OrdersOf(f) \subseteq orders

\* The session store never shows a position that was not opened.
SessionIsTrue == \A f \in added : opened[f] > 0
=============================================================================
