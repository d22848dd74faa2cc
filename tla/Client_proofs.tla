--------------------------- MODULE Client_proofs ---------------------------
(***************************************************************************)
(* Theorems about the programs that call the contracts: the order form,    *)
(* the other forms and the values their pages show, the view of the        *)
(* positions, and the deployer.  The three modules of the web client share *)
(* the variables of WalletTx; every theorem is about the specification of  *)
(* one of them, under the assumptions of its own module.                   *)
(*                                                                         *)
(* The order form: for any number of submissions, with answers lost, late  *)
(* and unreadable, a submission opens one position at most, no nonce is    *)
(* used twice, a bracket links orders that exist, and the session store    *)
(* shows positions that were opened.                                       *)
(*                                                                         *)
(* The other forms: what is moved is what was entered, as near as the way  *)
(* the form counts allows, and a page does not go back to an old value     *)
(* unless its query answers a failure with a zero.  The positions: what    *)
(* the blotter shows took place, whatever PnL it is shown with.            *)
(* The deployer: contracts on record know the contracts on record.         *)
(* Last, the variables of each of them keep their types.                   *)
(***************************************************************************)
EXTENDS OrderForm, Positions, Console, Deploy, Arithmetic, SequenceTheorems

-----------------------------------------------------------------------------
(* The inductive invariant of the order form *)

OrderTyped ==
    /\ calling \in [Flows -> Calls \cup {NoCall}]
    /\ step \in [Flows -> {"idle", "sign", "poll"}]
    /\ result \in [Flows -> {"NOT_FOUND", "SUCCESS", "FAILED"}]
    /\ stage \in [Flows -> {"new", "nonce", "run", "over"}]
    /\ nonce \in [Flows -> Nat] /\ nextNonce \in Nat
    /\ opened \in [Flows -> Nat]
    /\ placed \subseteq Flows

TxOf(f, c) == [flow |-> f, call |-> c]

\* A flow that has not begun to run has left nothing on the chain.
Unborn(f) == stage[f] \in {"new", "nonce"}

NothingBefore(f) == Unborn(f) => f \notin placed /\ \A t \in live : t.flow # f

\* The flow may still send the call that opens its position.
MayOpen(f) ==
    \/ Unborn(f) \/ calling[f] = "openWithUpdate"
    \/ calling[f] = "open" /\ step[f] = "sign"

\* One position is what the flow may send, what it has sent, or what it has.
Opening(f) ==
    /\ opened[f] <= 1
    /\ MayOpen(f) \/ TxOf(f, "open") \in live => opened[f] = 0
    /\ MayOpen(f) => TxOf(f, "open") \notin live

\* A success that the network reports has had its effect.
Answered(f) ==
    result[f] = "SUCCESS" =>
        /\ calling[f] # "openWithUpdate"
        /\ calling[f] = "open" => opened[f] > 0
        /\ calling[f] \in {"entry", "tp", "sl"} => TxOf(f, calling[f]) \in orders

\* A bracket goes on to its next call when the order before exists.
Bracketed(f) ==
    /\ calling[f] \in {"tp", "sl", "link"} => TxOf(f, "entry") \in orders
    /\ calling[f] \in {"sl", "link"} => TxOf(f, "tp") \in orders
    /\ calling[f] = "link" => TxOf(f, "sl") \in orders
    /\ f \in linked => OrdersOf(f) \subseteq orders

FlowInv(f) ==
    /\ NothingBefore(f) /\ Opening(f) /\ Answered(f) /\ Bracketed(f)
    /\ f \in added => opened[f] > 0

\* The contract's nonce has left behind those it took, each of which was new.
Nonces ==
    /\ \A f \in placed : nonce[f] < nextNonce
    /\ NoncesAreUsedOnce

OrderInv == OrderTyped /\ Nonces /\ added \subseteq Flows /\ \A f \in Flows : FlowInv(f)

-----------------------------------------------------------------------------
(* The tables *)

LEMMA MethodsOf ==
    ASSUME NEW M, NEW args, NEW c \in Sigs(M, args)
    PROVE  c.method \in M /\ c.args = args
BY DEF Sigs

\* The perp engine never understands the call with the price update: its feeds
\* are encoded as bytes.
LEMMA UpdateIsRefused == ~Understood("perp", OpenWithUpdate)
<1> DEFINE name == "open_position_with_update"
           args == <<"user", "market", "size", "bool", "leverage", "bps", "payload",
                     "bytes", "feeds as bytes">>
           wanted == [method |-> name, args |-> args]
<1>1. Sends("perp") = Common \cup (PerpReads \cup PerpTrades \cup PerpBook \cup PerpOrders
                                   \cup PerpPlans \cup PerpAdmin)
  BY DEF Sends
<1>2. wanted \in Sends("perp")
  <2>1. wanted \in PerpTrades
    BY DEF PerpTrades, Sigs
  <2> QED
    BY <1>1, <2>1
<1>3. OpenWithUpdate \in Sends("perp") /\ OpenWithUpdate.method = name
  <2>1. wanted.method = name
    OBVIOUS
  <2> QED
    BY <1>2, <2>1 DEF OpenWithUpdate
<1>4. ASSUME NEW c \in Common \cup PerpReads \cup PerpBook PROVE c.method # name
  BY <1>4, MethodsOf DEF Common, PerpReads, PerpBook
<1>5. ASSUME NEW c \in PerpOrders PROVE c.method # name
  BY <1>5, MethodsOf DEF PerpOrders
<1>6. ASSUME NEW c \in PerpPlans \cup PerpAdmin PROVE c.method # name
  BY <1>6, MethodsOf DEF PerpPlans, PerpAdmin
<1>7. ASSUME NEW c \in PerpTrades, c.method = name PROVE c.args = args
  BY <1>7, MethodsOf DEF PerpTrades
<1>8. OpenWithUpdate \in PerpTrades
  BY <1>1, <1>3, <1>4, <1>5, <1>6
<1>9. OpenWithUpdate.args = args
  BY <1>3, <1>7, <1>8
<1>10. 9 \in DOMAIN args /\ args[9] = "feeds as bytes"
  OBVIOUS
<1> QED
  BY <1>9, <1>10 DEF Understood

LEMMA NextInBracket ==
    NextOf("entry") = "tp" /\ NextOf("tp") = "sl" /\ NextOf("sl") = "link"
<1>1. BracketCalls[1] = "entry" /\ BracketCalls[2] = "tp" /\ BracketCalls[3] = "sl"
      /\ BracketCalls[4] = "link"
  BY DEF BracketCalls
<1>2. (CHOOSE i \in 2 .. 4 : BracketCalls[i - 1] = "entry") = 2
  BY <1>1
<1>3. (CHOOSE i \in 2 .. 4 : BracketCalls[i - 1] = "tp") = 3
  BY <1>1
<1>4. (CHOOSE i \in 2 .. 4 : BracketCalls[i - 1] = "sl") = 4
  BY <1>1
<1> QED
  BY <1>1, <1>2, <1>3, <1>4 DEF NextOf

-----------------------------------------------------------------------------
(* What the form does *)

\* A step of flow g that leaves the chain alone, seen from another flow.
LEMMA OthersKeep ==
    ASSUME OrderInv, NEW g \in Flows, NEW f \in Flows \ {g},
           calling'[f] = calling[f], step'[f] = step[f], result'[f] = result[f],
           stage'[f] = stage[f], live' \subseteq live \cup {Mine(g)},
           added' \subseteq added \cup {g}, UNCHANGED effectVars
    PROVE  FlowInv(f)'
<1>1. FlowInv(f) /\ UNCHANGED <<opened, placed, nextNonce, orders, linked>>
  BY DEF OrderInv, effectVars
<1>2. Mine(g).flow = g /\ Mine(g) # TxOf(f, "open")
  BY DEF Mine, TxOf
<1>3. \A t \in live' : t.flow = f => t \in live
  BY <1>2
<1>4. TxOf(f, "open") \in live' => TxOf(f, "open") \in live
  BY <1>2
<1>5. Unborn(f)' <=> Unborn(f)
  BY DEF Unborn
<1>6. MayOpen(f)' <=> MayOpen(f)
  BY <1>5 DEF MayOpen
<1>7. NothingBefore(f)'
  BY <1>1, <1>3, <1>5 DEF FlowInv, NothingBefore
<1>8. Opening(f)'
  BY <1>1, <1>4, <1>6 DEF FlowInv, Opening, TxOf
<1>9. Answered(f)' /\ Bracketed(f)'
  BY <1>1 DEF FlowInv, Answered, Bracketed, TxOf, OrdersOf
<1> QED
  BY <1>1, <1>7, <1>8, <1>9 DEF FlowInv

\* A step of flow g that leaves the chain alone keeps the invariant when it
\* keeps that of g.
LEMMA FormStepKeeps ==
    ASSUME OrderInv, NEW g \in Flows, UNCHANGED effectVars, OrderTyped',
           \A f \in Flows \ {g} : /\ calling'[f] = calling[f] /\ step'[f] = step[f]
                                  /\ result'[f] = result[f] /\ stage'[f] = stage[f],
           \A f \in placed : nonce'[f] = nonce[f],
           live' \subseteq live \cup {Mine(g)}, added' \subseteq added \cup {g},
           FlowInv(g)'
    PROVE  OrderInv'
<1>1. ASSUME NEW f \in Flows PROVE FlowInv(f)'
  BY <1>1, OthersKeep
<1>2. Nonces'
  BY DEF OrderInv, Nonces, NoncesAreUsedOnce, effectVars
<1>3. added' \subseteq Flows
  BY DEF OrderInv
<1> QED
  BY <1>1, <1>2, <1>3 DEF OrderInv

\* What Invoke and EndRun do to the variables of a call.
LEMMA InvokeDoes ==
    ASSUME OrderTyped, NEW g \in Flows, NEW c \in Calls \cup {NoCall}, NEW s \in {"idle", "sign"},
           calling' = [calling EXCEPT ![g] = c], step' = [step EXCEPT ![g] = s],
           result' = [result EXCEPT ![g] = "NOT_FOUND"]
    PROVE  /\ calling' \in [Flows -> Calls \cup {NoCall}]
           /\ step' \in [Flows -> {"idle", "sign", "poll"}]
           /\ result' \in [Flows -> {"NOT_FOUND", "SUCCESS", "FAILED"}]
           /\ calling'[g] = c /\ step'[g] = s /\ result'[g] = "NOT_FOUND"
           /\ \A f \in Flows \ {g} : /\ calling'[f] = calling[f] /\ step'[f] = step[f]
                                     /\ result'[f] = result[f]
BY DEF OrderTyped

\* A flow makes its first call.
LEMMA BeginKeeps ==
    ASSUME OrderInv, NEW g \in Flows, Unborn(g),
           NEW c \in {"open", "openWithUpdate", "place", "stop", "entry"},
           Invoke(g, c), stage' = [stage EXCEPT ![g] = "run"],
           nonce' \in [Flows -> Nat], \A f \in Flows \ {g} : nonce'[f] = nonce[f],
           UNCHANGED <<live, added, effectVars>>
    PROVE  OrderInv'
<1>0. OrderTyped /\ FlowInv(g) /\ c \in Calls
  BY OrderFormCalls DEF OrderInv
<1>1. /\ calling' \in [Flows -> Calls \cup {NoCall}]
      /\ step' \in [Flows -> {"idle", "sign", "poll"}]
      /\ result' \in [Flows -> {"NOT_FOUND", "SUCCESS", "FAILED"}]
      /\ calling'[g] = c /\ step'[g] = "sign" /\ result'[g] = "NOT_FOUND"
      /\ \A f \in Flows \ {g} : /\ calling'[f] = calling[f] /\ step'[f] = step[f]
                                /\ result'[f] = result[f]
  BY <1>0, InvokeDoes DEF Invoke
<1>2. /\ stage' \in [Flows -> {"new", "nonce", "run", "over"}] /\ stage'[g] = "run"
      /\ \A f \in Flows \ {g} : stage'[f] = stage[f]
  BY <1>0 DEF OrderTyped
<1>3. OrderTyped'
  BY <1>0, <1>1, <1>2 DEF OrderTyped, effectVars
<1>4. \A f \in placed : nonce'[f] = nonce[f]
  BY <1>0 DEF OrderTyped, FlowInv, NothingBefore
<1>5. opened[g] <= 1 /\ opened[g] = 0 /\ TxOf(g, "open") \notin live
  BY <1>0 DEF FlowInv, Opening, MayOpen
<1>6. NothingBefore(g)' /\ Answered(g)'
  BY <1>1, <1>2 DEF NothingBefore, Unborn, Answered
<1>7. Opening(g)'
  BY <1>5 DEF Opening, effectVars, TxOf
<1>8. Bracketed(g)'
  BY <1>0, <1>1 DEF FlowInv, Bracketed, effectVars, OrdersOf
<1>9. FlowInv(g)'
  BY <1>0, <1>6, <1>7, <1>8 DEF FlowInv, effectVars
<1> QED
  BY <1>1, <1>2, <1>3, <1>4, <1>9, FormStepKeeps

\* What a call that is given up may leave on its way.
Left(g) == live' = live \/ (step[g] = "sign" /\ live' = live \cup {Mine(g)})

LEMMA LeftOpening ==
    ASSUME OrderInv, NEW g \in Flows, Left(g), TxOf(g, "open") \in live'
    PROVE  opened[g] = 0
<1>1. FlowInv(g)
  BY DEF OrderInv
<1>2. CASE TxOf(g, "open") \in live
  BY <1>1, <1>2 DEF FlowInv, Opening
<1>3. CASE TxOf(g, "open") \notin live
  <2>1. step[g] = "sign" /\ Mine(g) = TxOf(g, "open")
    BY <1>3 DEF Left
  <2>2. calling[g] = "open"
    BY <2>1 DEF Mine, TxOf
  <2> QED
    BY <1>1, <2>1, <2>2 DEF FlowInv, Opening, MayOpen
<1> QED
  BY <1>2, <1>3

\* A flow ends.
LEMMA FinishKeeps ==
    ASSUME OrderInv, NEW g \in Flows, NEW phase, Finish(g, phase), Left(g),
           added' = added \/ (added' = added \cup {g} /\ opened[g] > 0),
           UNCHANGED <<nonce, effectVars>>
    PROVE  OrderInv'
<1>0. OrderTyped /\ FlowInv(g) /\ stage[g] = "run" /\ UNCHANGED opened
  BY DEF OrderInv, Finish, Running, effectVars
<1>1. /\ calling' \in [Flows -> Calls \cup {NoCall}]
      /\ step' \in [Flows -> {"idle", "sign", "poll"}]
      /\ result' \in [Flows -> {"NOT_FOUND", "SUCCESS", "FAILED"}]
      /\ calling'[g] = NoCall /\ step'[g] = "idle" /\ result'[g] = "NOT_FOUND"
      /\ \A f \in Flows \ {g} : /\ calling'[f] = calling[f] /\ step'[f] = step[f]
                                /\ result'[f] = result[f]
  BY <1>0, InvokeDoes DEF Finish, EndRun
<1>2. /\ stage' \in [Flows -> {"new", "nonce", "run", "over"}] /\ stage'[g] = "over"
      /\ \A f \in Flows \ {g} : stage'[f] = stage[f]
  BY <1>0 DEF OrderTyped, Finish
<1>3. OrderTyped'
  BY <1>0, <1>1, <1>2 DEF OrderTyped, effectVars
<1>4. NoCall \notin {"open", "openWithUpdate", "tp", "sl", "link"}
  BY WalletConstants, OrderFormCalls
<1>5. ~MayOpen(g)'
  BY <1>1, <1>2, <1>4 DEF MayOpen, Unborn
<1>6. Opening(g)'
  <2>1. TxOf(g, "open")' \in live' => opened'[g] = 0
    BY <1>0, LeftOpening DEF TxOf
  <2> QED
    BY <1>0, <1>5, <2>1 DEF FlowInv, Opening
<1>7. NothingBefore(g)' /\ Answered(g)'
  BY <1>1, <1>2 DEF NothingBefore, Unborn, Answered
<1>8. Bracketed(g)'
  BY <1>0, <1>1, <1>4 DEF FlowInv, Bracketed, effectVars, OrdersOf
<1>9. FlowInv(g)'
  BY <1>0, <1>6, <1>7, <1>8 DEF FlowInv
<1>10. live' \subseteq live \cup {Mine(g)} /\ added' \subseteq added \cup {g}
  BY DEF Left
<1> QED
  BY <1>1, <1>2, <1>3, <1>9, <1>10, FormStepKeeps

\* A flow makes its next call: the one of the bracket, or the one without the
\* price update.
LEMMA GoOnKeeps ==
    ASSUME OrderInv, NEW g \in Flows, Running(g), NEW c \in {"tp", "sl", "link", "open"},
           Invoke(g, c), Left(g), UNCHANGED <<stage, nonce, added, effectVars>>,
           c = "open" => calling[g] = "openWithUpdate",
           c \in {"tp", "sl", "link"} => TxOf(g, "entry") \in orders,
           c \in {"sl", "link"} => TxOf(g, "tp") \in orders,
           c = "link" => TxOf(g, "sl") \in orders
    PROVE  OrderInv'
<1>0. OrderTyped /\ FlowInv(g) /\ stage[g] = "run" /\ c \in Calls /\ UNCHANGED opened
  BY OrderFormCalls DEF OrderInv, Running, effectVars
<1>1. /\ calling' \in [Flows -> Calls \cup {NoCall}]
      /\ step' \in [Flows -> {"idle", "sign", "poll"}]
      /\ result' \in [Flows -> {"NOT_FOUND", "SUCCESS", "FAILED"}]
      /\ calling'[g] = c /\ step'[g] = "sign" /\ result'[g] = "NOT_FOUND"
      /\ \A f \in Flows \ {g} : /\ calling'[f] = calling[f] /\ step'[f] = step[f]
                                /\ result'[f] = result[f]
  BY <1>0, InvokeDoes DEF Invoke
<1>2. OrderTyped'
  BY <1>0, <1>1 DEF OrderTyped, effectVars
<1>3. Opening(g)'
  <2>1. CASE c = "open"
    <3>1. opened[g] = 0 /\ TxOf(g, "open") \notin live
      BY <1>0, <2>1 DEF FlowInv, Opening, MayOpen
    <3>2. Mine(g) # TxOf(g, "open")
      BY <2>1 DEF Mine, TxOf
    <3>3. TxOf(g, "open") \notin live'
      BY <3>1, <3>2 DEF Left
    <3> QED
      BY <1>0, <3>1, <3>3 DEF Opening, TxOf
  <2>2. CASE c # "open"
    <3>1. ~MayOpen(g)'
      BY <1>0, <1>1, <2>2 DEF MayOpen, Unborn
    <3>2. TxOf(g, "open")' \in live' => opened'[g] = 0
      BY <1>0, LeftOpening DEF TxOf
    <3> QED
      BY <1>0, <3>1, <3>2 DEF FlowInv, Opening
  <2> QED
    BY <2>1, <2>2
<1>4. NothingBefore(g)' /\ Answered(g)'
  BY <1>0, <1>1 DEF NothingBefore, Unborn, Answered
<1>5. Bracketed(g)'
  BY <1>0, <1>1 DEF FlowInv, Bracketed, effectVars, OrdersOf, TxOf
<1>6. FlowInv(g)'
  BY <1>0, <1>3, <1>4, <1>5 DEF FlowInv
<1>7. live' \subseteq live \cup {Mine(g)}
  BY DEF Left
<1> QED
  BY <1>1, <1>2, <1>6, <1>7, FormStepKeeps

\* The transaction is sent.
LEMMA SendKeeps ==
    ASSUME OrderInv, NEW g \in Flows, SignAndSend(g)
    PROVE  OrderInv'
<1>0. OrderTyped /\ FlowInv(g) /\ stage[g] = "run" /\ step[g] = "sign"
  BY DEF OrderInv, SignAndSend, Running, Send
<1>1. /\ UNCHANGED <<calling, result, stage, nonce, added, effectVars, opened>>
      /\ live' = live \cup {Mine(g)}
  BY DEF SignAndSend, Send, formVars, effectVars
<1>2. /\ step' \in [Flows -> {"idle", "sign", "poll"}] /\ step'[g] = "poll"
      /\ \A f \in Flows \ {g} : step'[f] = step[f]
  BY <1>0 DEF SignAndSend, Send, OrderTyped
<1>3. OrderTyped'
  BY <1>0, <1>1, <1>2 DEF OrderTyped, effectVars
<1>4. NothingBefore(g)'
  BY <1>0, <1>1 DEF NothingBefore, Unborn
<1>5. Opening(g)'
  <2>1. CASE MayOpen(g)'
    <3>1. calling[g] = "openWithUpdate"
      BY <1>0, <1>1, <1>2, <2>1 DEF MayOpen, Unborn
    <3>2. opened[g] = 0 /\ TxOf(g, "open") \notin live /\ Mine(g) # TxOf(g, "open")
      BY <1>0, <3>1 DEF FlowInv, Opening, MayOpen, Mine, TxOf
    <3> QED
      BY <1>1, <3>2 DEF Opening, TxOf
  <2>2. CASE ~MayOpen(g)'
    <3>1. TxOf(g, "open")' \in live' => opened'[g] = 0
      BY <1>0, <1>1, LeftOpening DEF TxOf, Left
    <3> QED
      BY <1>0, <1>1, <2>2, <3>1 DEF FlowInv, Opening
  <2> QED
    BY <2>1, <2>2
<1>6. Answered(g)' /\ Bracketed(g)'
  BY <1>0, <1>1 DEF FlowInv, Answered, Bracketed, effectVars, OrdersOf, TxOf
<1>7. FlowInv(g)'
  BY <1>0, <1>1, <1>4, <1>5, <1>6 DEF FlowInv
<1> QED
  BY <1>1, <1>2, <1>3, <1>7, FormStepKeeps

LEMMA ConfirmKeeps ==
    ASSUME OrderInv, NEW g \in Flows, NEW m \in Modes, Confirm(g, m)
    PROVE  OrderInv'
<1>0. OrderTyped /\ FlowInv(g) /\ stage[g] = "new" /\ UNCHANGED <<nonce, added, effectVars>>
  BY DEF OrderInv, Confirm
<1>1. CASE m = "limit"
  <2>1. UNCHANGED txVars /\ stage' = [stage EXCEPT ![g] = "nonce"]
    BY <1>1 DEF Confirm
  <2>2. UNCHANGED <<calling, step, result, live, opened, placed, nextNonce, orders, linked>>
    BY <1>0, <2>1 DEF txVars, effectVars
  <2>3. /\ stage' \in [Flows -> {"new", "nonce", "run", "over"}] /\ stage'[g] = "nonce"
        /\ \A f \in Flows \ {g} : stage'[f] = stage[f]
    BY <1>0, <2>1 DEF OrderTyped
  <2>4. OrderTyped'
    BY <1>0, <2>2, <2>3 DEF OrderTyped
  <2>5. Unborn(g) /\ Unborn(g)'
    BY <1>0, <2>3 DEF Unborn
  <2>6. NothingBefore(g)' /\ Opening(g)'
    BY <1>0, <2>2, <2>5 DEF FlowInv, NothingBefore, Opening, MayOpen, TxOf
  <2>7. Answered(g)' /\ Bracketed(g)'
    BY <1>0, <2>2 DEF FlowInv, Answered, Bracketed, TxOf, OrdersOf
  <2>8. FlowInv(g)'
    BY <1>0, <2>2, <2>6, <2>7 DEF FlowInv
  <2> QED
    BY <1>0, <2>2, <2>3, <2>4, <2>8, FormStepKeeps
<1>2. CASE m # "limit"
  <2>1. /\ Unborn(g) /\ FirstCall(m) \in {"open", "openWithUpdate", "stop", "entry"}
        /\ Invoke(g, FirstCall(m)) /\ UNCHANGED live /\ stage' = [stage EXCEPT ![g] = "run"]
    BY <1>0, <1>2 DEF Confirm, Run, Unborn, FirstCall, Modes
  <2>2. nonce' \in [Flows -> Nat] /\ \A f \in Flows \ {g} : nonce'[f] = nonce[f]
    BY <1>0 DEF OrderTyped
  <2> QED
    BY <1>0, <2>1, <2>2, BeginKeeps
<1> QED
  BY <1>1, <1>2

LEMMA GetNonceKeeps ==
    ASSUME OrderInv, NEW g \in Flows, GetNonce(g)
    PROVE  OrderInv'
<1>0. OrderTyped
  BY DEF OrderInv
<1>1. /\ Unborn(g) /\ FirstCall("limit") = "place"
      /\ Invoke(g, FirstCall("limit")) /\ stage' = [stage EXCEPT ![g] = "run"]
      /\ UNCHANGED <<live, added, effectVars>>
  BY DEF GetNonce, Run, Unborn, FirstCall
<1>2. nonce' \in [Flows -> Nat] /\ \A f \in Flows \ {g} : nonce'[f] = nonce[f]
  BY <1>0 DEF GetNonce, OrderTyped
<1> QED
  BY <1>1, <1>2, BeginKeeps

LEMMA ProceedKeeps ==
    ASSUME OrderInv, NEW g \in Flows, Proceed(g)
    PROVE  OrderInv'
<1>0. /\ FlowInv(g) /\ Running(g) /\ result[g] = "SUCCESS" /\ Left(g)
      /\ UNCHANGED <<nonce, effectVars>>
  BY DEF OrderInv, Proceed, ReturnsValue, Left
<1>1. CASE MidBracket(g)
  <2> DEFINE c == NextOf(calling[g])
  <2>1. Invoke(g, c) /\ UNCHANGED <<stage, added>>
    BY <1>1 DEF Proceed
  <2>2. TxOf(g, calling[g]) \in orders
    BY <1>0, <1>1 DEF FlowInv, Answered, MidBracket
  <2>3. CASE calling[g] = "entry"
    <3>1. c = "tp" /\ TxOf(g, "entry") \in orders
      BY <2>2, <2>3, NextInBracket
    <3> QED
      BY <1>0, <2>1, <3>1, GoOnKeeps
  <2>4. CASE calling[g] = "tp"
    <3>1. c = "sl" /\ TxOf(g, "entry") \in orders /\ TxOf(g, "tp") \in orders
      BY <1>0, <2>2, <2>4, NextInBracket DEF FlowInv, Bracketed
    <3> QED
      BY <1>0, <2>1, <3>1, GoOnKeeps
  <2>5. CASE calling[g] = "sl"
    <3>1. /\ c = "link" /\ TxOf(g, "entry") \in orders /\ TxOf(g, "tp") \in orders
          /\ TxOf(g, "sl") \in orders
      BY <1>0, <2>2, <2>5, NextInBracket DEF FlowInv, Bracketed
    <3> QED
      BY <1>0, <2>1, <3>1, GoOnKeeps
  <2> QED
    BY <1>1, <2>3, <2>4, <2>5 DEF MidBracket
<1>2. CASE ~MidBracket(g)
  <2>1. /\ Finish(g, "success")
        /\ added' = IF Opens(g) THEN added \cup {g} ELSE added
    BY <1>2 DEF Proceed
  <2>2. Opens(g) => opened[g] > 0
    BY <1>0 DEF FlowInv, Answered, Opens
  <2> QED
    BY <1>0, <2>1, <2>2, FinishKeeps
<1> QED
  BY <1>1, <1>2

LEMMA EndWithoutValueKeeps ==
    ASSUME OrderInv, NEW g \in Flows, EndWithoutValue(g)
    PROVE  OrderInv'
<1>1. PICK phase \in {"failed", "success", "pending"} : Finish(g, phase)
  BY DEF EndWithoutValue
<1>2. Left(g) /\ UNCHANGED <<nonce, added, effectVars>>
  BY DEF EndWithoutValue, ReturnsBlindly, TimesOut, Left
<1> QED
  BY <1>1, <1>2, FinishKeeps

LEMMA ThrowKeeps ==
    ASSUME OrderInv, NEW g \in Flows, Throw(g)
    PROVE  OrderInv'
<1>1. Running(g) /\ Left(g) /\ UNCHANGED <<nonce, added, effectVars>>
  BY DEF Throw, Throws, RefusedOrLost, Left
<1>2. CASE Finish(g, "failed")
  BY <1>1, <1>2, FinishKeeps
<1>3. CASE ~Finish(g, "failed")
  <2>1. calling[g] = "openWithUpdate" /\ Invoke(g, "open") /\ UNCHANGED stage
    BY <1>3 DEF Throw
  <2> QED
    BY <1>1, <2>1, GoOnKeeps
<1> QED
  BY <1>2, <1>3

-----------------------------------------------------------------------------
(* What the chain does *)

\* Less alive, and a report that is no success.
LEMMA NotExecutedKeeps ==
    ASSUME OrderInv, NEW t \in Tx, NotExecuted(t)
    PROVE  OrderInv'
<1>0. OrderTyped /\ Nonces /\ added \subseteq Flows /\ t.flow \in Flows
  BY DEF OrderInv, Tx
<1>1. /\ UNCHANGED <<calling, step, stage, nonce, added, opened, placed, nextNonce, orders,
                     linked>>
      /\ live' \subseteq live
      /\ result' = result \/ result' = [result EXCEPT ![t.flow] = "FAILED"]
  BY DEF NotExecuted, Include, Expire, formVars, effectVars
<1>2. /\ result' \in [Flows -> {"NOT_FOUND", "SUCCESS", "FAILED"}]
      /\ \A f \in Flows : result'[f] = "SUCCESS" => result[f] = "SUCCESS"
  BY <1>0, <1>1 DEF OrderTyped
<1>3. ASSUME NEW f \in Flows PROVE FlowInv(f)'
  <2>1. FlowInv(f)
    BY DEF OrderInv
  <2>2. NothingBefore(f)'
    BY <1>1, <2>1 DEF FlowInv, NothingBefore, Unborn
  <2>3. Opening(f)'
    BY <1>1, <2>1 DEF FlowInv, Opening, MayOpen, Unborn, TxOf
  <2>4. Answered(f)'
    BY <1>1, <1>2, <2>1 DEF FlowInv, Answered, TxOf
  <2>5. Bracketed(f)'
    BY <1>1, <2>1 DEF FlowInv, Bracketed, TxOf, OrdersOf
  <2> QED
    BY <1>1, <2>1, <2>2, <2>3, <2>4, <2>5 DEF FlowInv
<1>4. OrderTyped'
  BY <1>0, <1>1, <1>2 DEF OrderTyped
<1>5. Nonces'
  BY <1>0, <1>1 DEF Nonces, NoncesAreUsedOnce
<1> QED
  BY <1>0, <1>1, <1>3, <1>4, <1>5 DEF OrderInv

\* The effects of a transaction that is executed, one by one.
LEMMA ExecutedEffects ==
    ASSUME OrderInv, NEW t \in Tx, Executed(t)
    PROVE  /\ t.flow \in Flows /\ t = TxOf(t.flow, t.call) /\ t \in live /\ Legal(t)
           /\ t.call # "openWithUpdate" /\ live' = live \ {t}
           /\ UNCHANGED <<calling, step, stage, nonce, added>>
           /\ result' = IF step[t.flow] = "poll" /\ t = Mine(t.flow)
                          THEN [result EXCEPT ![t.flow] = "SUCCESS"] ELSE result
           /\ opened' = IF t.call = "open"
                          THEN [opened EXCEPT ![t.flow] = @ + 1] ELSE opened
           /\ IF t.call = "place" THEN placed' = placed \cup {t.flow} /\ nextNonce' = nextNonce + 1
                                  ELSE UNCHANGED <<placed, nextNonce>>
           /\ orders \subseteq orders'
           /\ t.call \in {"entry", "tp", "sl"} => t \in orders'
           /\ linked' = IF t.call = "link" THEN linked \cup {t.flow} ELSE linked
<1>1. t.flow \in Flows /\ t = TxOf(t.flow, t.call)
  BY DEF Tx, TxOf
<1>2. Legal(t)
  BY DEF Executed
<1>3. t.call # "openWithUpdate"
  BY <1>2, UpdateIsRefused DEF Legal
<1>4. /\ t \in live /\ live' = live \ {t} /\ UNCHANGED <<calling, step>>
      /\ result' = IF step[t.flow] = "poll" /\ t = Mine(t.flow)
                     THEN [result EXCEPT ![t.flow] = "SUCCESS"] ELSE result
  BY DEF Executed, Include
<1>5. UNCHANGED <<stage, nonce, added>>
  BY DEF Executed, formVars
<1>6. opened' = IF t.call = "open" THEN [opened EXCEPT ![t.flow] = @ + 1] ELSE opened
  BY <1>3 DEF Executed
<1>7. /\ IF t.call = "place" THEN placed' = placed \cup {t.flow} /\ nextNonce' = nextNonce + 1
                             ELSE UNCHANGED <<placed, nextNonce>>
      /\ orders \subseteq orders'
      /\ t.call \in {"entry", "tp", "sl"} => t \in orders'
      /\ linked' = IF t.call = "link" THEN linked \cup {t.flow} ELSE linked
  BY DEF Executed
<1> QED
  BY <1>1, <1>2, <1>3, <1>4, <1>5, <1>6, <1>7

LEMMA ExecutedKeeps ==
    ASSUME OrderInv, NEW t \in Tx, Executed(t)
    PROVE  OrderInv'
<1> DEFINE g == t.flow
           c == t.call
<1>0. OrderTyped /\ Nonces /\ added \subseteq Flows /\ FlowInv(g) /\ g \in Flows
  BY ExecutedEffects DEF OrderInv
<1>1. /\ t = TxOf(g, c) /\ t \in live /\ Legal(t) /\ c # "openWithUpdate"
      /\ live' = live \ {t} /\ UNCHANGED <<calling, step, stage, nonce, added>>
      /\ orders \subseteq orders'
      /\ c \in {"entry", "tp", "sl"} => t \in orders'
  BY ExecutedEffects
<1>2. result' = IF step[g] = "poll" /\ t = Mine(g)
                  THEN [result EXCEPT ![g] = "SUCCESS"] ELSE result
  BY ExecutedEffects
<1>3. opened' = IF c = "open" THEN [opened EXCEPT ![g] = @ + 1] ELSE opened
  BY ExecutedEffects
<1>4. IF c = "place" THEN placed' = placed \cup {g} /\ nextNonce' = nextNonce + 1
                     ELSE UNCHANGED <<placed, nextNonce>>
  BY ExecutedEffects
<1>5. linked' = IF c = "link" THEN linked \cup {g} ELSE linked
  BY ExecutedEffects
<1>6. ~Unborn(g)
  BY <1>0, <1>1 DEF FlowInv, NothingBefore
<1>7. c = "open" => opened[g] = 0 /\ ~MayOpen(g)
  BY <1>0, <1>1 DEF FlowInv, Opening
<1> HIDE DEF g, c
<1>8. /\ opened' \in [Flows -> Nat]
      /\ \A f \in Flows \ {g} : opened'[f] = opened[f]
      /\ opened'[g] = IF c = "open" THEN 1 ELSE opened[g]
  <2>1. opened \in [Flows -> Nat]
    BY <1>0 DEF OrderTyped
  <2> QED
    BY <1>0, <1>3, <1>7, <2>1
<1>9. /\ result' \in [Flows -> {"NOT_FOUND", "SUCCESS", "FAILED"}]
      /\ \A f \in Flows \ {g} : result'[f] = result[f]
      /\ result'[g] = "SUCCESS" => result[g] = "SUCCESS" \/ calling[g] = c
  <2>1. result \in [Flows -> {"NOT_FOUND", "SUCCESS", "FAILED"}]
    BY <1>0 DEF OrderTyped
  <2>2. t = Mine(g) => calling[g] = c
    BY <1>1 DEF Mine, TxOf
  <2> QED
    BY <1>0, <1>2, <2>1, <2>2
<1>10. /\ placed' \subseteq Flows /\ nextNonce' \in Nat /\ nextNonce' >= nextNonce
       /\ placed' \subseteq placed \cup {g}
  BY <1>0, <1>4 DEF OrderTyped
<1>11. OrderTyped'
  BY <1>0, <1>1, <1>8, <1>9, <1>10 DEF OrderTyped
<1>12. Nonces'
  <2>1. c = "place" => nonce[g] = nextNonce
    BY <1>1 DEF Legal, TxOf, g, c
  <2>2. \A f \in placed : nonce[f] \in Nat /\ nonce[f] < nextNonce /\ nextNonce \in Nat
    BY <1>0 DEF OrderTyped, Nonces
  <2>3. CASE c = "place"
    <3>1. placed' = placed \cup {g} /\ nextNonce' = nextNonce + 1 /\ nonce' = nonce
          /\ nonce[g] = nextNonce /\ nextNonce \in Nat
      BY <1>0, <1>1, <1>4, <2>1, <2>3 DEF OrderTyped
    <3>2. \A f \in placed' : nonce'[f] < nextNonce'
      BY <2>2, <3>1
    <3>3. \A f, h \in placed' : f # h => nonce'[f] # nonce'[h]
      BY <1>0, <2>2, <3>1 DEF Nonces, NoncesAreUsedOnce
    <3> QED
      BY <3>2, <3>3 DEF Nonces, NoncesAreUsedOnce
  <2>4. CASE c # "place"
    BY <1>0, <1>1, <1>4, <2>4 DEF Nonces, NoncesAreUsedOnce
  <2> QED
    BY <2>3, <2>4
<1>13. ASSUME NEW f \in Flows PROVE FlowInv(f)'
  <2>1. FlowInv(f)
    BY DEF OrderInv
  <2>2. (Unborn(f)' <=> Unborn(f)) /\ (MayOpen(f)' <=> MayOpen(f))
    BY <1>1 DEF Unborn, MayOpen
  <2>3. NothingBefore(f)'
    BY <1>1, <1>6, <1>10, <2>1, <2>2 DEF FlowInv, NothingBefore
  <2>4. Opening(f)'
    <3>1. CASE f = g /\ c = "open"
      <4>1. t = TxOf(f, "open") /\ opened'[f] = 1 /\ ~MayOpen(f)
        BY <1>1, <1>7, <1>8, <3>1 DEF g, c
      <4> QED
        BY <1>1, <2>2, <4>1 DEF Opening, TxOf
    <3>2. CASE ~(f = g /\ c = "open")
      <4>1. opened'[f] = opened[f]
        BY <1>8, <3>2
      <4> QED
        BY <1>1, <2>1, <2>2, <4>1 DEF FlowInv, Opening, TxOf
    <3> QED
      BY <3>1, <3>2
  <2>5. opened[f] > 0 => opened'[f] > 0
    BY <1>8
  <2>6. Answered(f)'
    <3>1. CASE result[f] = "SUCCESS"
      <4>1. /\ calling[f] # "openWithUpdate"
            /\ calling[f] = "open" => opened[f] > 0
            /\ calling[f] \in {"entry", "tp", "sl"} => TxOf(f, calling[f]) \in orders
        BY <2>1, <3>1 DEF FlowInv, Answered
      <4>2. calling' = calling /\ orders \subseteq orders'
        BY <1>1
      <4>3. calling'[f] \in {"entry", "tp", "sl"} => TxOf(f, calling'[f]) \in orders'
        BY <4>1, <4>2
      <4> QED
        BY <2>5, <4>1, <4>2, <4>3 DEF Answered, TxOf
    <3>2. CASE result[f] # "SUCCESS" /\ result'[f] = "SUCCESS"
      <4>1. f = g /\ calling[f] = c
        BY <1>9, <3>2
      <4>2. TxOf(f, calling[f]) = t
        BY <1>1, <4>1
      <4>3. c = "open" => opened'[f] > 0
        BY <1>8, <4>1
      <4>4. calling' = calling
        BY <1>1
      <4>5. calling'[f] \in {"entry", "tp", "sl"} => TxOf(f, calling'[f]) \in orders'
        BY <1>1, <4>1, <4>2, <4>4
      <4>6. calling'[f] # "openWithUpdate" /\ (calling'[f] = "open" => opened'[f] > 0)
        BY <1>1, <4>1, <4>3, <4>4
      <4> QED
        BY <4>5, <4>6 DEF Answered, TxOf
    <3> QED
      BY <3>1, <3>2 DEF Answered
  <2>7. Bracketed(f)'
    <3>1. f \in linked' => f \in linked \/ OrdersOf(f) \subseteq orders
      <4>1. c = "link" => OrdersOf(g) \subseteq orders
        BY <1>1 DEF Legal, g, c
      <4> QED
        BY <1>5, <4>1
    <3>2. calling' = calling /\ orders \subseteq orders'
      BY <1>1
    <3>3. Bracketed(f)
      BY <2>1 DEF FlowInv
    <3>4. f \in linked' => OrdersOf(f) \subseteq orders'
      BY <3>1, <3>2, <3>3 DEF Bracketed
    <3> HIDE DEF c
    <3> QED
      BY <3>2, <3>3, <3>4 DEF Bracketed, TxOf, OrdersOf
  <2> QED
    BY <1>1, <2>1, <2>3, <2>4, <2>5, <2>6, <2>7 DEF FlowInv
<1> QED
  BY <1>0, <1>1, <1>11, <1>12, <1>13 DEF OrderInv

-----------------------------------------------------------------------------
(* The theorems about the order form *)

\* Nothing but the dialog moves, or nothing at all.
LEMMA IdleKeeps ==
    ASSUME OrderInv, UNCHANGED <<txVars, mode, stage, nonce, added, effectVars>>
    PROVE  OrderInv'
<1>1. UNCHANGED <<calling, step, result, live, stage, nonce, added, opened, placed,
                  nextNonce, orders, linked>>
  BY DEF txVars, effectVars
<1>2. OrderTyped' /\ Nonces' /\ added' \subseteq Flows
  BY <1>1 DEF OrderInv, OrderTyped, Nonces, NoncesAreUsedOnce
<1>3. ASSUME NEW f \in Flows PROVE FlowInv(f)'
  <2>1. FlowInv(f)
    BY DEF OrderInv
  <2> QED
    BY <1>1, <2>1 DEF FlowInv, NothingBefore, Opening, MayOpen, Unborn, Answered, Bracketed,
                      TxOf, OrdersOf
<1> QED
  BY <1>2, <1>3 DEF OrderInv

LEMMA OrderInitially == OrderInit => OrderInv
<1> SUFFICES ASSUME OrderInit PROVE OrderInv
  OBVIOUS
<1>1. NoCall \notin {"open", "openWithUpdate", "entry", "tp", "sl", "link"}
  BY WalletConstants, OrderFormCalls
<1>2. OrderTyped
  BY DEF OrderInit, TxInit, OrderTyped
<1>3. Nonces /\ added \subseteq Flows
  BY DEF OrderInit, Nonces, NoncesAreUsedOnce
<1>4. ASSUME NEW f \in Flows PROVE FlowInv(f)
  BY <1>1 DEF OrderInit, TxInit, FlowInv, NothingBefore, Opening, Answered, Bracketed
<1> QED
  BY <1>2, <1>3, <1>4 DEF OrderInv

LEMMA OrderInvariance == OrderInv /\ [OrderNext]_orderVars => OrderInv'
<1> SUFFICES ASSUME OrderInv, [OrderNext]_orderVars PROVE OrderInv'
  OBVIOUS
<1>1. CASE ShowConfirm \/ CancelDialog \/ UNCHANGED orderVars
  BY <1>1, IdleKeeps DEF ShowConfirm, CancelDialog, orderVars, formVars
<1>2. ASSUME NEW f \in Flows, NEW m \in Modes, Confirm(f, m) PROVE OrderInv'
  BY <1>2, ConfirmKeeps
<1>3. ASSUME NEW f \in Flows, FlowStep(f) PROVE OrderInv'
  BY <1>3, GetNonceKeeps, SendKeeps, ProceedKeeps, EndWithoutValueKeeps, ThrowKeeps
     DEF FlowStep
<1>4. ASSUME NEW t \in Tx, Executed(t) \/ NotExecuted(t) PROVE OrderInv'
  BY <1>4, ExecutedKeeps, NotExecutedKeeps
<1> QED
  BY <1>1, <1>2, <1>3, <1>4 DEF OrderNext

LEMMA OrderAlways == OrderSpec => []OrderInv
BY OrderInitially, OrderInvariance, PTL DEF OrderSpec

\* A submission opens one position at most: the transaction it signed is resent
\* and never made anew, and the second call for a real-world asset comes after
\* one that the contract cannot have taken.
THEOREM OnePositionEach == OrderSpec => []OpensOnce
<1>1. OrderInv => OpensOnce
  BY DEF OrderInv, FlowInv, Opening, OpensOnce
<1> QED
  BY <1>1, OrderAlways, PTL

\* No two limit orders are placed with one nonce, whatever nonces were read while
\* others were on their way.
THEOREM NoncesDiffer == OrderSpec => []NoncesAreUsedOnce
<1>1. OrderInv => NoncesAreUsedOnce
  BY DEF OrderInv, Nonces
<1> QED
  BY <1>1, OrderAlways, PTL

\* A bracket is linked, or about to be, only when its three orders exist.
THEOREM BracketsLinkOrders == OrderSpec => []BracketsAreWhole
<1>1. OrderInv => BracketsAreWhole
  <2> SUFFICES ASSUME OrderInv, NEW f \in Flows, calling[f] = "link" \/ f \in linked
               PROVE  OrdersOf(f) \subseteq orders
    BY DEF BracketsAreWhole
  <2> QED
    BY DEF OrderInv, FlowInv, Bracketed, OrdersOf, TxOf
<1> QED
  BY <1>1, OrderAlways, PTL

\* What the session store shows was opened.
THEOREM SessionShowsPositions == OrderSpec => []SessionIsTrue
<1>1. OrderInv => SessionIsTrue
  BY DEF OrderInv, FlowInv, SessionIsTrue
<1> QED
  BY <1>1, OrderAlways, PTL

-----------------------------------------------------------------------------
(* The other forms: the inductive invariant                                *)
(*                                                                         *)
(* The amount asked for and the price it was quoted stay what they were at *)
(* the submission, and what the contract moves is what becomes of them at  *)
(* the price of its execution.                                             *)

ConsoleTyped ==
    /\ calling \in [Flows -> Calls \cup {NoCall}]
    /\ step \in [Flows -> {"idle", "sign", "poll"}]
    /\ toast \in [Flows -> {"none", "pending", "success", "failed"}]
    /\ {quoted, paid} \subseteq Navs

\* The amount is one the form's field takes.
Entered ==
    /\ asked \in Nat
    /\ facts.parses = "none" => asked = 0
    /\ facts.parses = "native" => asked % Unit = 0

\* Nothing is on its way before the form is submitted.
Unsubmitted == toast[Op] = "none" => step[Op] = "idle" /\ live = {} /\ ledger = "before"

AmountInv ==
    /\ Way \in Ways /\ ConsoleTyped /\ Entered /\ Unsubmitted
    /\ ledger = "after" => moved = Moves(asked, paid)

\* A value that is shown came from the node, which had it from the ledger; once
\* it is the new one, no fetch that is still under way has read the old one.
ViewInv ==
    /\ ledger \in {"before", "after"} /\ replica \in {"before", "after"}
    /\ replica = "after" => ledger = "after"
    /\ fetch = "after" => replica = "after"
    /\ ~facts.instant /\ facts.zero = "none" /\ shown = "after"
          => replica = "after" /\ fetch # "before"

-----------------------------------------------------------------------------
(* What a form moves *)

LEMMA OpIsAFlow == Op \in Flows /\ TheCall \in Calls
BY ConsoleConstants DEF Op, TheCall

LEMMA ConsoleNumbers ==
    /\ Unit \in Nat \ {0} /\ Grain \in Nat \ {0} /\ One \in Nat \ {0}
    /\ Navs \subseteq Nat \ {0} /\ One \in Navs
BY ConsoleConstants

\* What is left of an amount when the smaller digits are cut off.
LEMMA CutOff ==
    ASSUME NEW x \in Nat
    PROVE  /\ x \div Unit \in Nat
           /\ (x \div Unit) * Unit <= x /\ x - (x \div Unit) * Unit < Unit
           /\ x % Unit = 0 => (x \div Unit) * Unit = x
<1>1. Unit \in Nat \ {0}
  BY ConsoleNumbers
<1>2. x = Unit * (x \div Unit) + (x % Unit) /\ x % Unit \in 0 .. Unit - 1
  BY <1>1
<1>3. x \div Unit \in Nat /\ Unit * (x \div Unit) = (x \div Unit) * Unit
  BY <1>1
<1>4. Unit * (x \div Unit) \in Nat
  BY <1>1, <1>3
<1> QED
  BY <1>1, <1>2, <1>3, <1>4

\* An amount is rounded by half of what it is rounded to, at most.
LEMMA RoundedByHalf ==
    ASSUME NEW x \in Nat, NEW g \in Nat \ {0}
    PROVE  /\ (2 * x + g) \div (2 * g) \in Nat /\ Rounded(x, g) \in Nat
           /\ 2 * (Rounded(x, g) - x) <= g /\ 2 * (x - Rounded(x, g)) <= g
<1>1. 2 * x + g \in Nat /\ 2 * g \in Nat \ {0}
  OBVIOUS
<1>2. PICK q \in Nat : q = (2 * x + g) \div (2 * g)
  BY <1>1, DivNat
<1>3. (2 * g) * q <= 2 * x + g /\ 2 * x + g < (2 * g) * q + 2 * g
  BY <1>1, <1>2, DivMod
<1>4. PICK y \in Nat : y = q * g
  BY TimesNat
<1>5. (2 * g) * q = 2 * y
  BY <1>4
<1>6. Rounded(x, g) = y
  BY <1>2, <1>4 DEF Rounded
<1> QED
  BY <1>2, <1>3, <1>5, <1>6

\* The forms that send what was parsed.
LEMMA ExactMoves ==
    ASSUME Way \in Exact, Entered, NEW nav
    PROVE  /\ Moves(asked, nav) \in Nat /\ Moves(asked, nav) <= asked
           /\ asked - Moves(asked, nav) < Unit
<1>1. asked \in Nat /\ Unit \in Nat \ {0}
  BY ConsoleNumbers DEF Entered
<1>2. Parsed(asked) = asked
  BY DEF Exact, Way, Parsed
<1>3. CASE facts.takes = "native"
  <2>1. facts.sends = "native"
    BY <1>3 DEF Exact, Way
  <2>2. Moves(asked, nav) = (asked \div Unit) * Unit
    BY <1>2, <1>3, <2>1 DEF Moves, Sent
  <2>3. PICK q \in Nat : q = asked \div Unit
    BY <1>1, CutOff
  <2>4. q * Unit \in Nat /\ q * Unit <= asked /\ asked - q * Unit < Unit
    BY <1>1, <2>3, CutOff, TimesNat
  <2> QED
    BY <2>2, <2>3, <2>4
<1>4. CASE facts.takes = "none"
  <2>1. facts.parses = "none" /\ Moves(asked, nav) = 0
    BY <1>4 DEF Exact, Way, Moves
  <2>2. asked = 0
    BY <2>1 DEF Entered
  <2> QED
    BY <1>1, <2>1, <2>2
<1>5. CASE facts.takes \notin {"native", "none"}
  <2>1. facts.sends = "internal"
    BY <1>5 DEF Exact, Way
  <2>2. Moves(asked, nav) = asked
    BY <1>2, <1>5, <2>1 DEF Moves, Sent
  <2> QED
    BY <1>1, <2>2
<1> QED
  BY <1>3, <1>4, <1>5

\* The forms that round.
LEMMA RoundingMoves ==
    ASSUME Way \in Rounding, Entered, NEW nav
    PROVE  /\ Moves(asked, nav) \in Nat
           /\ 2 * (Moves(asked, nav) - asked) <= Kept
           /\ 2 * (asked - Moves(asked, nav)) <= Kept
<1>1. asked \in Nat /\ Unit \in Nat \ {0} /\ Grain \in Nat \ {0}
  BY ConsoleNumbers DEF Entered
<1>2. facts.parses = "rounded" /\ Parsed(asked) = Rounded(asked, Kept)
  BY DEF Rounding, Way, Parsed
<1>3. Kept \in Nat \ {0}
  BY <1>1 DEF Kept
<1>4. PICK g \in Nat \ {0} : g = Kept
  BY <1>3
<1>5. PICK y \in Nat : y = Rounded(asked, g) /\ 2 * (y - asked) <= g /\ 2 * (asked - y) <= g
  BY <1>1, RoundedByHalf
<1>6. Moves(asked, nav) = y
  <2>1. CASE facts.sends = "native"
    <3>1. g = Unit /\ facts.takes = "native"
      BY <1>4, <2>1 DEF Kept, Rounding, Way
    <3>2. PICK q \in Nat : q = (2 * asked + g) \div (2 * g)
      BY <1>1, RoundedByHalf
    <3>3. y = q * Unit
      BY <1>5, <3>1, <3>2 DEF Rounded
    <3>4. y % Unit = 0
      <4>1. y = Unit * (y \div Unit) + (y % Unit) /\ y % Unit \in 0 .. Unit - 1
            /\ y \div Unit \in Int
        BY <1>1
      <4>2. PICK d \in Int : d = q - (y \div Unit)
        BY <4>1
      <4>3. y % Unit = d * Unit
        <5>1. PICK e \in Int : e = y \div Unit
          BY <4>1
        <5>2. d = q - e
          BY <4>2, <5>1
        <5>3. y % Unit \in Int /\ Unit * e \in Int /\ y = Unit * e + (y % Unit)
          BY <1>1, <4>1, <5>1, TimesInt
        <5>4. y % Unit = y - Unit * e
          BY <5>3
        <5> QED
          BY <1>1, <3>3, <5>1, <5>2, <5>4
      <4>4. d = 0
        BY <1>1, <4>1, <4>2, <4>3
      <4> QED
        BY <1>1, <4>3, <4>4
    <3>5. Moves(asked, nav) = (y \div Unit) * Unit
      BY <1>2, <1>4, <1>5, <2>1, <3>1 DEF Moves, Sent
    <3> QED
      BY <3>4, <3>5, CutOff
  <2>2. CASE facts.sends # "native"
    <3>1. facts.sends = "internal" /\ facts.takes = "internal"
      BY <2>2 DEF Rounding, Way
    <3> QED
      BY <1>2, <1>4, <1>5, <3>1 DEF Moves, Sent
  <2> QED
    BY <2>1, <2>2
<1> QED
  BY <1>4, <1>5, <1>6

\* Shares bought at one price and paid at another, cut off three times: to shares,
\* to dollars, to native units.
LEMMA PricedMoves ==
    ASSUME Way \in Priced, Entered, quoted \in Nat \ {0}, NEW nav \in Nat \ {0}
    PROVE  /\ Moves(asked, nav) \in Nat
           /\ Moves(asked, nav) * quoted <= asked * nav
           /\ (asked * nav - Moves(asked, nav) * quoted) * One
                 < quoted * ((Unit + 1) * One + nav)
<1>1. asked \in Nat /\ Unit \in Nat \ {0} /\ One \in Nat \ {0}
  BY ConsoleNumbers DEF Entered
<1>2. asked * One \in Nat
  BY <1>1, TimesNat
<1>3. PICK s \in Nat : s = (asked * One) \div quoted
  BY <1>2, DivNat
<1>4. s * nav \in Nat
  BY <1>3, TimesNat
<1>5. PICK v \in Nat : v = (s * nav) \div One
  BY <1>1, <1>4, DivNat
<1>6. PICK m \in Nat : m = (v \div Unit) * Unit
  <2>1. v \div Unit \in Nat
    BY <1>1, <1>5, CutOff
  <2> QED
    BY <1>1, <2>1, TimesNat
<1>7. m <= v /\ v < m + Unit
  BY <1>1, <1>5, <1>6, CutOff
<1>8. quoted * s <= asked * One /\ asked * One < quoted * s + quoted
  BY <1>2, <1>3, DivMod
<1>9. One * v <= s * nav /\ s * nav < One * v + One
  BY <1>1, <1>4, <1>5, DivMod
<1>10. Moves(asked, nav) = m
  <2>1. facts.sends = "shares" /\ facts.takes = "shares" /\ facts.parses = "internal"
    BY DEF Priced, Way
  <2>2. Sent(asked) = s
    BY <1>3, <2>1 DEF Sent, Parsed
  <2> QED
    BY <1>5, <1>6, <2>1, <2>2 DEF Moves
<1>11. m * quoted <= asked * nav
  <2>1. One * m <= s * nav
    <3>1. One * m <= One * v
      BY <1>1, <1>7
    <3> QED
      BY <1>1, <1>4, <1>9, <3>1
  <2>2. (One * m) * quoted <= (s * nav) * quoted
    BY <1>1, <1>4, <2>1
  <2>3. (quoted * s) * nav <= (asked * One) * nav
    BY <1>2, <1>8
  <2>4. (s * nav) * quoted = (quoted * s) * nav
    OBVIOUS
  <2>5. (One * m) * quoted <= (asked * One) * nav
    BY <1>1, <2>2, <2>3, <2>4
  <2>6. One * (m * quoted) <= One * (asked * nav)
    BY <1>1, <2>5
  <2>7. m * quoted \in Nat /\ asked * nav \in Nat
    BY <1>1, TimesNat
  <2> QED
    BY <1>1, <2>6, <2>7
<1>12. (asked * nav - m * quoted) * One < quoted * (Unit * One + nav)
  <2>1. (asked * One) * nav < (quoted * s + quoted) * nav
    BY <1>1, <1>8
  <2>2. s * nav < One * (m + Unit)
    <3>1. One * v + One <= One * (m + Unit)
      <4>1. v + 1 <= m + Unit
        BY <1>1, <1>7
      <4>2. One * (v + 1) <= One * (m + Unit)
        BY <1>1, <4>1
      <4> QED
        BY <1>1, <4>2
    <3> QED
      BY <1>1, <1>4, <1>9, <3>1
  <2>3. quoted * (s * nav) < quoted * (One * (m + Unit))
    BY <1>1, <1>4, <2>2
  <2>4. (quoted * s + quoted) * nav = quoted * (s * nav) + quoted * nav
    BY <1>1
  <2>5. (asked * One) * nav < quoted * (One * (m + Unit)) + quoted * nav
    BY <1>1, <2>1, <2>3, <2>4
  <2>6. quoted * (One * (m + Unit)) = (m * quoted) * One + quoted * (Unit * One)
    BY <1>1
  <2>7. (asked * One) * nav = (asked * nav) * One
    BY <1>1
  <2>8. (asked * nav - m * quoted) * One = (asked * nav) * One - (m * quoted) * One
    BY <1>1
  <2>9. quoted * (Unit * One + nav) = quoted * (Unit * One) + quoted * nav
    BY <1>1
  <2>10. /\ (asked * nav) * One \in Int /\ (m * quoted) * One \in Int
         /\ quoted * (Unit * One) \in Int /\ quoted * nav \in Int
    BY <1>1
  <2> QED
    BY <2>5, <2>6, <2>7, <2>8, <2>9, <2>10
<1>13. quoted * (Unit * One + nav) <= quoted * ((Unit + 1) * One + nav)
  <2>1. Unit * One + nav <= (Unit + 1) * One + nav
    BY <1>1
  <2> QED
    BY <1>1, <2>1
<1>14. /\ (asked * nav - m * quoted) * One \in Int /\ quoted * (Unit * One + nav) \in Int
       /\ quoted * ((Unit + 1) * One + nav) \in Int
  BY <1>1
<1>15. (asked * nav - m * quoted) * One < quoted * ((Unit + 1) * One + nav)
  BY <1>12, <1>13, <1>14
<1> QED
  BY <1>10, <1>11, <1>15

\* The forms that send another unit.
LEMMA MistakenMoves ==
    ASSUME Way \in Mistaken, Entered, NEW nav
    PROVE  Moves(asked, nav) \in Nat /\ Moves(asked, nav) * Unit <= asked
<1>1. asked \in Nat /\ Unit \in Nat \ {0}
  BY ConsoleNumbers DEF Entered
<1>2. facts.sends = "native" /\ Sent(asked) = asked \div Unit
  BY DEF Mistaken, Way, Sent, Parsed
<1>3. PICK q \in Nat : q = asked \div Unit /\ q * Unit <= asked
  BY <1>1, CutOff
<1>4. Moves(asked, nav) = 0 \/ Moves(asked, nav) = q
  BY <1>2, <1>3 DEF Mistaken, Way, Moves
<1> QED
  BY <1>1, <1>3, <1>4

\* The ledger, the amounts and the facts stand still.
LEMMA AmountStays ==
    ASSUME AmountInv, UNCHANGED <<facts, amountVars, ledger>>, ConsoleTyped',
           Unsubmitted'
    PROVE  AmountInv'
<1>1. UNCHANGED <<asked, quoted, paid, moved>>
  BY DEF amountVars
<1>2. (Way \in Ways)' /\ Entered'
  BY <1>1 DEF AmountInv, Way, Entered
<1>3. ledger' = "after" => moved' = Moves(asked, paid)'
  BY <1>1 DEF AmountInv, Moves, Sent, Parsed, Kept
<1> QED
  BY <1>2, <1>3 DEF AmountInv

\* A run that ends leaves its toast, and moves nothing.
LEMMA EndRunKeeps ==
    ASSUME AmountInv, NEW phase \in {"success", "pending", "failed"}, EndRun(Op, phase),
           UNCHANGED <<facts, amountVars, ledger>>
    PROVE  AmountInv'
<1>1. ConsoleTyped /\ Op \in Flows
  BY OpIsAFlow DEF AmountInv
<1>2. ConsoleTyped' /\ toast'[Op] = phase
  BY <1>1 DEF ConsoleTyped, EndRun, amountVars
<1>3. Unsubmitted'
  BY <1>2 DEF Unsubmitted
<1> QED
  BY <1>2, <1>3, AmountStays

LEMMA SubmitKeeps == ASSUME AmountInv, Submit PROVE AmountInv'
<1>1. ConsoleTyped /\ Unsubmitted /\ Op \in Flows /\ TheCall \in Calls
  BY OpIsAFlow DEF AmountInv
<1>2. /\ UNCHANGED <<facts, paid, moved, ledger, live>> /\ ledger = "before"
      /\ toast' = [toast EXCEPT ![Op] = "pending"]
      /\ calling' = [calling EXCEPT ![Op] = TheCall]
      /\ step' = [step EXCEPT ![Op] = "sign"]
      /\ quoted' \in Navs \cup {quoted}
  BY <1>1 DEF Submit, StartRun, Invoke, Unsubmitted
<1>3. ConsoleTyped' /\ toast'[Op] = "pending"
  BY <1>1, <1>2 DEF ConsoleTyped
<1>4. Entered'
  <2>1. MaxAsked \in Nat
    BY ConsoleConstants
  <2> QED
    BY <1>2, <2>1 DEF Submit, Entered
<1>5. (Way \in Ways)'
  BY <1>2 DEF AmountInv, Way
<1> QED
  BY <1>2, <1>3, <1>4, <1>5 DEF AmountInv, Unsubmitted

LEMMA ExecutedMoves == ASSUME AmountInv, NEW t \in Tx, FormExecuted(t) PROVE AmountInv'
<1>1. /\ t \in live /\ moved' = Moves(asked, paid')
      /\ UNCHANGED <<facts, asked, quoted, calling, step, toast>>
      /\ paid' \in Navs \cup {paid}
  BY DEF FormExecuted, Include
<1>2. toast'[Op] # "none"
  BY <1>1 DEF AmountInv, Unsubmitted
<1>3. moved' = Moves(asked, paid)'
  BY <1>1 DEF Moves, Sent, Parsed, Kept
<1>4. (Way \in Ways)' /\ ConsoleTyped' /\ Entered'
  BY <1>1 DEF AmountInv, Way, ConsoleTyped, Entered
<1> QED
  BY <1>2, <1>3, <1>4 DEF AmountInv, Unsubmitted

LEMMA AmountInitially == ASSUME ConsoleInit PROVE AmountInv
<1>1. PICK f \in Forms : \E k, zero : facts = Facts(f, k, zero)
  BY DEF ConsoleInit
<1>2. facts.takes = Takes(f) /\ facts.sends = f.sends /\ facts.parses = f.parses
  BY <1>1 DEF Facts
<1>3. Way \in Ways
  BY <1>1, <1>2, FormsCount DEF Way
<1>4. ConsoleTyped /\ Unsubmitted
  BY OpIsAFlow, ConsoleNumbers DEF ConsoleInit, TxInit, ConsoleTyped, Unsubmitted
<1>5. Entered /\ ledger = "before"
  BY ConsoleNumbers DEF ConsoleInit, Entered
<1> QED
  BY <1>3, <1>4, <1>5 DEF AmountInv

LEMMA AmountInvariance == AmountInv /\ [ConsoleNext]_consoleVars => AmountInv'
<1> SUFFICES ASSUME AmountInv, [ConsoleNext]_consoleVars PROVE AmountInv'
  OBVIOUS
<1>1. CASE Submit
  BY <1>1, SubmitKeeps
<1>2. CASE FormSends
  <2>1. /\ step[Op] = "sign" /\ step' = [step EXCEPT ![Op] = "poll"]
        /\ UNCHANGED <<calling, toast, facts, amountVars, ledger>>
    BY <1>2 DEF FormSends, Send
  <2>2. ConsoleTyped'
    BY <2>1 DEF AmountInv, ConsoleTyped, amountVars
  <2>3. Unsubmitted'
    BY <2>1 DEF AmountInv, Unsubmitted
  <2> QED
    BY <2>1, <2>2, <2>3, AmountStays
<1>3. CASE RunSucceeds \/ RunTimesOut \/ RunFails
  BY <1>3, EndRunKeeps DEF RunSucceeds, RunTimesOut, RunFails
<1>4. CASE RunReturns \/ Sweep \/ Poll \/ Read \/ Answer \/ FetchFails
           \/ (\E v \in {"before", "after"} : LateAnswer(v)) \/ Replicate
           \/ UNCHANGED consoleVars
  <2>1. UNCHANGED <<txVars, facts, amountVars, ledger>>
    BY <1>4 DEF RunReturns, Sweep, Poll, Read, Answer, FetchFails, LateAnswer, Replicate,
                consoleVars
  <2>2. ConsoleTyped' /\ Unsubmitted'
    BY <2>1 DEF AmountInv, ConsoleTyped, Unsubmitted, txVars, amountVars
  <2> QED
    BY <2>1, <2>2, AmountStays
<1>5. ASSUME NEW t \in Tx, FormExecuted(t) PROVE AmountInv'
  BY <1>5, ExecutedMoves
<1>6. ASSUME NEW t \in Tx, FormNotExecuted(t) PROVE AmountInv'
  <2>1. /\ t \in live /\ live' = live \ {t}
        /\ UNCHANGED <<calling, step, toast, facts, amountVars, ledger>>
    BY <1>6 DEF FormNotExecuted, Include, Expire
  <2>2. ConsoleTyped' /\ Unsubmitted'
    BY <2>1 DEF AmountInv, ConsoleTyped, Unsubmitted, amountVars
  <2> QED
    BY <2>1, <2>2, AmountStays
<1> QED
  BY <1>1, <1>2, <1>3, <1>4, <1>5, <1>6 DEF ConsoleNext, RunStep

\* For every token unit, rounding, price and amount, and for each of the ways in
\* which the forms count: what the contract moves is the amount entered up to what
\* that way cuts off or rounds; for a withdrawal from the pool, times what the price
\* has become since it was quoted; and for the two forms that send another unit, a
\* part of it at most.  Also when the answer was lost and the call is executed
\* after the form has given up.
THEOREM AmountsArrive == ConsoleSpec => []MovesWhatWasEntered
<1>1. AmountInv => MovesWhatWasEntered
  <2> SUFFICES ASSUME AmountInv, ledger = "after"
               PROVE  /\ Way \in Exact => moved <= asked /\ asked - moved < Unit
                      /\ Way \in Rounding => /\ 2 * (moved - asked) <= Kept
                                             /\ 2 * (asked - moved) <= Kept
                      /\ Way \in Priced =>
                            /\ moved * quoted <= asked * paid
                            /\ (asked * paid - moved * quoted) * One
                                  < quoted * ((Unit + 1) * One + paid)
                      /\ Way \in Mistaken => moved * Unit <= asked
    BY DEF MovesWhatWasEntered
  <2>1. Entered /\ moved = Moves(asked, paid) /\ {quoted, paid} \subseteq Navs
    BY DEF AmountInv, ConsoleTyped
  <2>2. quoted \in Nat \ {0} /\ paid \in Nat \ {0}
    BY <2>1, ConsoleNumbers
  <2>3. ASSUME Way \in Exact PROVE moved <= asked /\ asked - moved < Unit
    BY <2>1, <2>3, ExactMoves
  <2>4. ASSUME Way \in Rounding
        PROVE  2 * (moved - asked) <= Kept /\ 2 * (asked - moved) <= Kept
    BY <2>1, <2>4, RoundingMoves
  <2>5. ASSUME Way \in Priced
        PROVE  /\ moved * quoted <= asked * paid
               /\ (asked * paid - moved * quoted) * One < quoted * ((Unit + 1) * One + paid)
    BY <2>1, <2>2, <2>5, PricedMoves
  <2>6. ASSUME Way \in Mistaken PROVE moved * Unit <= asked
    BY <2>1, <2>6, MistakenMoves
  <2> QED
    BY <2>3, <2>4, <2>5, <2>6
<1>2. ConsoleInit => AmountInv
  BY AmountInitially
<1> QED
  BY <1>1, <1>2, AmountInvariance, PTL DEF ConsoleSpec

-----------------------------------------------------------------------------
(* What a page shows *)

LEMMA ViewInitially == ConsoleInit => ViewInv
BY DEF ConsoleInit, ViewInv

LEMMA ViewInvariance == ViewInv /\ [ConsoleNext]_consoleVars => ViewInv'
<1> SUFFICES ASSUME ViewInv, [ConsoleNext]_consoleVars PROVE ViewInv'
  OBVIOUS
<1>1. CASE UNCHANGED <<facts, ledger, replica, shown, fetch>>
  BY <1>1 DEF ViewInv
<1>2. CASE RunSucceeds \/ Sweep
  <2>1. UNCHANGED <<facts, ledger, replica, shown>> /\ (fetch' = fetch \/ fetch' = "asked")
    BY <1>2 DEF RunSucceeds, Sweep, Refetch
  <2> QED
    BY <2>1 DEF ViewInv
<1>3. CASE RunReturns
  BY <1>3 DEF RunReturns, ViewInv
<1>4. CASE Poll \/ Read
  BY <1>4 DEF Poll, Read, ViewInv
<1>5. CASE Answer
  BY <1>5 DEF Answer, Settle, ViewInv
<1>6. CASE FetchFails
  BY <1>6 DEF FetchFails, Settle, ViewInv
<1>7. ASSUME NEW t \in Tx, FormExecuted(t) PROVE ViewInv'
  BY <1>7 DEF FormExecuted, ViewInv, cacheVars
<1>8. CASE Replicate
  BY <1>8 DEF Replicate, ViewInv, cacheVars
<1>9. CASE Submit \/ FormSends \/ RunTimesOut \/ RunFails
           \/ (\E v \in {"before", "after"} : LateAnswer(v))
           \/ (\E t \in Tx : FormNotExecuted(t)) \/ UNCHANGED consoleVars
  BY <1>1, <1>9 DEF Submit, FormSends, RunTimesOut, RunFails, LateAnswer, FormNotExecuted,
                    cacheVars, consoleVars
<1> QED
  BY <1>2, <1>3, <1>4, <1>5, <1>6, <1>7, <1>8, <1>9 DEF ConsoleNext, RunStep

\* A page does not go back from the new value to the old one, if a fetch that fails
\* leaves it alone and the form does not write to it: the fetches that could have
\* read the old one are over, or were cancelled, before the new one came to be shown.
THEOREM PagesGoForward == ConsoleSpec => NeverGoesBack
<1>1. ViewInv /\ [ConsoleNext]_consoleVars
        => [~facts.instant /\ facts.zero = "none" /\ shown = "after"
              => shown' = "after"]_consoleVars
  <2> SUFFICES ASSUME ViewInv, ConsoleNext, ~facts.instant, facts.zero = "none",
                      shown = "after"
               PROVE  shown' = "after"
    OBVIOUS
  <2>1. CASE Answer
    BY <2>1 DEF Answer, ViewInv
  <2>2. CASE RunReturns
    BY <2>2 DEF RunReturns
  <2>3. CASE ~Answer /\ ~RunReturns
    BY <2>3 DEF ConsoleNext, RunStep, Submit, FormSends, RunSucceeds, RunTimesOut, RunFails,
                Sweep, Poll, Read, FetchFails, LateAnswer, FormExecuted, FormNotExecuted,
                Replicate, cacheVars
  <2> QED
    BY <2>1, <2>2, <2>3
<1> QED
  BY <1>1, ViewInitially, ViewInvariance, PTL DEF ConsoleSpec, NeverGoesBack

-----------------------------------------------------------------------------
(* The view of the positions: the inductive invariant                      *)
(*                                                                         *)
(* A trade the blotter shows is scanned from the log or was recorded by a  *)
(* tab; a record stays true since the log only grows, and it goes from tab *)
(* to tab through the storage, which is therefore part of the invariant.   *)

Openings == {"posopen", "clobfill", "exorder"}

LogRow == [tag : Openings \cup {"posclose", "liq"}, position : Calls, pnl : Int, tx : Nat]

Happened(trade, p) ==
    /\ trade.kind = "user" => Events("posclose", p, DOMAIN log) # {}
    /\ trade.kind = "liquidation" => Events("liq", p, DOMAIN log) # {}

TrueStore(s) == \A p \in Positions : Happened(s.trades[p], p)

PositionsTyped ==
    /\ log \in Seq(LogRow)
    /\ session \in [Tabs -> Store] /\ storage \in Store

RecordsInv ==
    /\ PositionsTyped
    /\ TrueStore(storage) /\ \A t \in Tabs : TrueStore(session[t])

-----------------------------------------------------------------------------
(* What the blotter shows *)

LEMMA DecodesToInt == ASSUME NEW n \in Int PROVE Decode(n) \in Int
<1>1. Word \in Nat \ {0}
  BY PositionsConstants
<1>2. n \div Word \in Int /\ n % Word \in Int
  BY <1>1
<1>3. \A h \in Int : h * Word \in Int
  BY <1>1
<1> QED
  BY <1>1, <1>2, <1>3 DEF Decode

LEMMA EmptyIsTrue == EmptyStore \in Store /\ TrueStore(EmptyStore)
<1>1. NoTrade \in TradeRow /\ NoTrade.kind = "none"
  BY DEF NoTrade, Trade, TradeRow
<1>2. EmptyStore \in Store
  BY <1>1 DEF EmptyStore, Store
<1>3. \A p \in Positions : EmptyStore.trades[p] = NoTrade
  BY DEF EmptyStore
<1> QED
  BY <1>1, <1>2, <1>3 DEF TrueStore, Happened

\* A trade that happened has happened when the log has grown.
LEMMA HappenedStays ==
    ASSUME log \in Seq(LogRow), NEW e \in LogRow, log' = Append(log, e),
           NEW trade, NEW p, Happened(trade, p)
    PROVE  Happened(trade, p)'
<1>1. log' \in Seq(LogRow) /\ DOMAIN log \subseteq DOMAIN log'
      /\ \A l \in DOMAIN log : log'[l] = log[l]
  <2>1. /\ Len(log') = Len(log) + 1 /\ \A l \in 1 .. Len(log) : log'[l] = log[l]
        /\ log' \in Seq(LogRow)
    BY AppendProperties
  <2>2. DOMAIN log = 1 .. Len(log) /\ DOMAIN log' = 1 .. Len(log') /\ Len(log) \in Nat
    BY <2>1, LenProperties
  <2> QED
    BY <2>1, <2>2
<1>2. \A k : Events(k, p, DOMAIN log) \subseteq Events(k, p, DOMAIN log)'
  BY <1>1 DEF Events
<1>3. trade.kind = "user" => Events("posclose", p, DOMAIN log)' # {}
  BY <1>2 DEF Happened
<1>4. trade.kind = "liquidation" => Events("liq", p, DOMAIN log)' # {}
  BY <1>2 DEF Happened
<1> QED
  BY <1>3, <1>4 DEF Happened

LEMMA TxIsNumbered ==
    ASSUME RecordsInv
    PROVE  NewTx \in Nat /\ (log # << >> => log[Len(log)].tx \in Nat)
<1>1. log \in Seq(LogRow) /\ Len(log) \in Nat
  BY LenProperties DEF RecordsInv, PositionsTyped
<1>2. log # << >> => Len(log) \in 1 .. Len(log)
  BY <1>1, EmptySeq
<1>3. log # << >> => log[Len(log)] \in LogRow
  BY <1>1, <1>2, ElementOfSeq
<1> QED
  BY <1>1, <1>3 DEF NewTx, LogRow

LEMMA LogGrows ==
    ASSUME RecordsInv, NEW k \in Openings \cup {"posclose", "liq"}, NEW p \in Calls,
           NEW n \in Int, NEW x \in Nat, Publish(Event(k, p, n, x)),
           UNCHANGED <<session, storage>>
    PROVE  RecordsInv'
<1>1. /\ log \in Seq(LogRow) /\ Event(k, p, n, x) \in LogRow
      /\ log' = Append(log, Event(k, p, n, x))
  BY DEF RecordsInv, PositionsTyped, LogRow, Event, Publish
<1>2. log' \in Seq(LogRow)
  BY <1>1, AppendProperties
<1>3. PICK e : e = Event(k, p, n, x)
  OBVIOUS
<1>4. ASSUME NEW s, TrueStore(s) PROVE TrueStore(s)'
  BY <1>1, <1>3, <1>4, HappenedStays DEF TrueStore
<1>5. PositionsTyped'
  BY <1>2 DEF RecordsInv, PositionsTyped
<1>6. TrueStore(storage)'
  BY <1>4 DEF RecordsInv, TrueStore
<1>7. ASSUME NEW t \in Tabs PROVE TrueStore(session[t])'
  BY <1>4 DEF RecordsInv, TrueStore
<1> QED
  BY <1>5, <1>6, <1>7 DEF RecordsInv

LEMMA RecordsStay ==
    ASSUME RecordsInv, UNCHANGED <<log, session, storage>>
    PROVE  RecordsInv'
BY DEF RecordsInv, PositionsTyped, TrueStore, Happened, Events

\* A tab writes a store whose trades happened.
LEMMA SetStoreKeeps ==
    ASSUME RecordsInv, UNCHANGED log, NEW t \in Tabs, NEW s \in Store, TrueStore(s),
           SetStore(t, s)
    PROVE  RecordsInv'
<1>1. session \in [Tabs -> Store] /\ session' = [session EXCEPT ![t] = s] /\ storage' = s
  BY DEF RecordsInv, PositionsTyped, SetStore
<1>2. PositionsTyped'
  BY <1>1 DEF RecordsInv, PositionsTyped
<1>3. \A r : TrueStore(r) => TrueStore(r)'
  BY DEF TrueStore, Happened, Events
<1>4. TrueStore(storage)'
  BY <1>1, <1>3 DEF TrueStore
<1>5. ASSUME NEW u \in Tabs PROVE TrueStore(session[u])'
  BY <1>1, <1>3 DEF RecordsInv, TrueStore
<1> QED
  BY <1>2, <1>4, <1>5 DEF RecordsInv

\* A store with another set of positions.
LEMMA SamePast ==
    ASSUME NEW s \in Store, TrueStore(s), NEW P \in SUBSET Positions
    PROVE  [s EXCEPT !.positions = P] \in Store /\ TrueStore([s EXCEPT !.positions = P])
BY DEF Store, TrueStore

LEMMA ReloadKeeps == ASSUME RecordsInv, NEW t \in Tabs, Reload(t) PROVE RecordsInv'
<1>1. session' = [session EXCEPT ![t] = storage] /\ UNCHANGED <<log, storage>>
  BY DEF Reload, eventVars
<1>2. SetStore(t, storage)
  BY <1>1 DEF SetStore
<1> QED
  BY <1>1, <1>2, SetStoreKeeps DEF RecordsInv, PositionsTyped

LEMMA AddPositionKeeps ==
    ASSUME RecordsInv, NEW t \in Tabs, NEW p \in Positions, AddPosition(t, p)
    PROVE  RecordsInv'
<1>1. session[t] \in Store /\ TrueStore(session[t]) /\ UNCHANGED log
  BY DEF RecordsInv, PositionsTyped, AddPosition, eventVars
<1>2. session[t].positions \cup {p} \in SUBSET Positions
  BY <1>1 DEF Store
<1>3. SetStore(t, [session[t] EXCEPT !.positions = session[t].positions \cup {p}])
  BY DEF AddPosition
<1> QED
  BY <1>1, <1>2, <1>3, SamePast, SetStoreKeeps

LEMMA CloseReturnsKeeps ==
    ASSUME RecordsInv, NEW t \in Tabs, CloseReturns(t)
    PROVE  RecordsInv'
<1>1. session[t] \in Store /\ TrueStore(session[t]) /\ UNCHANGED log
  BY DEF RecordsInv, PositionsTyped, CloseReturns, eventVars
<1>2. session[t].positions \ {calling[t]} \in SUBSET Positions
  BY <1>1 DEF Store
<1>3. SetStore(t, [session[t] EXCEPT !.positions = session[t].positions \ {calling[t]}])
  BY DEF CloseReturns, Without
<1> QED
  BY <1>1, <1>2, <1>3, SamePast, SetStoreKeeps

\* The event of the close is in the log.
LEMMA CloseParsedKeeps ==
    ASSUME RecordsInv, NEW t \in Tabs, NEW p \in Positions, CloseParsed(t, p)
    PROVE  RecordsInv'
<1>1. /\ session[t] \in Store /\ TrueStore(session[t]) /\ log \in Seq(LogRow)
      /\ UNCHANGED log
  BY DEF RecordsInv, PositionsTyped, CloseParsed, eventVars
<1>2. CASE UNCHANGED <<session, storage>>
  BY <1>1, <1>2, RecordsStay
<1>3. ASSUME NEW l \in Events("posclose", p, DOMAIN log),
             SetStore(t, WithTrade(session[t], p, Trade("user", Decode(log[l].pnl))))
      PROVE  RecordsInv'
  <2>1. PICK s : s = session[t]
    OBVIOUS
  <2>2. PICK r : r = Trade("user", Decode(log[l].pnl))
    OBVIOUS
  <2>3. PICK w : w = WithTrade(s, p, r)
    OBVIOUS
  <2>4. l \in DOMAIN log /\ log[l] \in LogRow
    BY <1>1, ElementOfSeq, LenProperties DEF Events
  <2>5. r \in TradeRow
    BY <2>2, <2>4, DecodesToInt DEF LogRow, Trade, TradeRow
  <2>6. Happened(r, p)
    BY <1>3, <2>2 DEF Happened, Trade
  <2>7. s \in Store /\ TrueStore(s)
    BY <1>1, <2>1
  <2>8. w \in Store /\ \A q \in Positions : w.trades[q] = IF q = p THEN r ELSE s.trades[q]
    BY <2>3, <2>5, <2>7 DEF WithTrade, Store
  <2>9. TrueStore(w)
    BY <2>6, <2>7, <2>8 DEF TrueStore
  <2>10. SetStore(t, w)
    BY <1>3, <2>1, <2>2, <2>3
  <2> QED
    BY <1>1, <2>8, <2>9, <2>10, SetStoreKeeps
<1> QED
  BY <1>2, <1>3 DEF CloseParsed

\* Every liquidation it records has its event in the log.
LEMMA NoticeLiquidationsKeeps ==
    ASSUME RecordsInv, NEW t \in Tabs, NoticeLiquidations(t)
    PROVE  RecordsInv'
<1>1. /\ session[t] \in Store /\ TrueStore(session[t]) /\ UNCHANGED log
  BY DEF RecordsInv, PositionsTyped, NoticeLiquidations, eventVars
<1>2. PICK gone : gone = {log[l].position : l \in News(t)}
  OBVIOUS
<1>3. PICK w : w = [positions |-> session[t].positions \ gone,
                    trades |-> [p \in Positions |->
                                  IF p \in gone THEN Trade("liquidation", 0)
                                  ELSE session[t].trades[p]]]
  OBVIOUS
<1>4. SetStore(t, w)
  BY <1>2, <1>3 DEF NoticeLiquidations
<1>5. Trade("liquidation", 0) \in TradeRow /\ Trade("liquidation", 0).kind = "liquidation"
  BY DEF Trade, TradeRow
<1>6. w \in Store
  BY <1>1, <1>3, <1>5 DEF Store
<1>7. ASSUME NEW p \in Positions PROVE Happened(w.trades[p], p)
  <2>1. CASE p \in gone
    <3>1. PICK l \in News(t) : log[l].position = p
      BY <1>2, <2>1
    <3>2. l \in DOMAIN log /\ log[l].tag = "liq"
      BY DEF News, Unhandled, Recent
    <3>3. Events("liq", p, DOMAIN log) # {}
      BY <3>1, <3>2 DEF Events
    <3>4. w.trades[p].kind = "liquidation"
      BY <1>3, <1>5, <2>1
    <3> QED
      BY <3>3, <3>4 DEF Happened
  <2>2. CASE p \notin gone
    BY <1>1, <1>3, <2>2 DEF TrueStore
  <2> QED
    BY <2>1, <2>2
<1> QED
  BY <1>1, <1>4, <1>6, <1>7, SetStoreKeeps DEF TrueStore

LEMMA RecordsInitially == PositionsInit => RecordsInv
<1> SUFFICES ASSUME PositionsInit PROVE RecordsInv
  OBVIOUS
<1>1. log = << >> /\ storage = EmptyStore /\ session = [t \in Tabs |-> EmptyStore]
  BY DEF PositionsInit
<1> QED
  BY <1>1, EmptyIsTrue DEF RecordsInv, PositionsTyped

LEMMA RecordsInvariance == RecordsInv /\ [PositionsNext]_positionsVars => RecordsInv'
<1> SUFFICES ASSUME RecordsInv, [PositionsNext]_positionsVars PROVE RecordsInv'
  OBVIOUS
<1>0. Positions \subseteq Calls /\ Pnls \subseteq Int
  BY PositionsConstants
<1>1. ASSUME NEW p \in Positions, NEW k \in Openings, OpenPosition(p, k) PROVE RecordsInv'
  BY <1>0, <1>1, TxIsNumbered, LogGrows DEF OpenPosition, tabVars
<1>2. ASSUME NEW p \in Positions, NEW all \in BOOLEAN, Liquidate(p, all) PROVE RecordsInv'
  <2>1. UNCHANGED <<session, storage>>
    BY <1>2 DEF Liquidate, tabVars
  <2>2. CASE Publish(Event("liq", p, 0, NewTx))
    <3>1. PICK x \in Nat : x = NewTx
      BY TxIsNumbered
    <3>2. Publish(Event("liq", p, 0, x)) /\ p \in Calls
      BY <1>0, <2>2, <3>1
    <3> QED
      BY <2>1, <3>2, LogGrows
  <2>3. CASE log # << >> /\ Publish(Event("liq", p, 0, log[Len(log)].tx))
    <3>1. PICK x \in Nat : x = log[Len(log)].tx
      BY <2>3, TxIsNumbered
    <3>2. Publish(Event("liq", p, 0, x)) /\ p \in Calls
      BY <1>0, <2>3, <3>1
    <3> QED
      BY <2>1, <3>2, LogGrows
  <2> QED
    BY <1>2, <2>2, <2>3 DEF Liquidate
<1>3. ASSUME NEW x \in Tx, NEW n \in Pnls, ClosePosition(x, n) PROVE RecordsInv'
  <2>1. x.call \in Calls /\ n \in Int
    BY <1>0 DEF Tx
  <2> QED
    BY <1>3, <2>1, TxIsNumbered, LogGrows DEF ClosePosition, tabVars
<1>4. ASSUME NEW x \in Tx, CloseFails(x) PROVE RecordsInv'
  BY <1>4, RecordsStay DEF CloseFails, tabVars, eventVars
<1>5. CASE IndexNext \/ UNCHANGED positionsVars
  BY <1>5, RecordsStay DEF IndexNext, tabVars, eventVars, positionsVars
<1>6. ASSUME NEW t \in Tabs, TabStep(t) PROVE RecordsInv'
  <2>1. CASE \E p \in Positions : AddPosition(t, p)
    BY <2>1, AddPositionKeeps
  <2>2. CASE \E p \in Positions : CloseParsed(t, p)
    BY <2>2, CloseParsedKeeps
  <2>3. CASE CloseReturns(t)
    BY <2>3, CloseReturnsKeeps
  <2>4. CASE NoticeLiquidations(t)
    BY <2>4, NoticeLiquidationsKeeps
  <2>5. CASE Reload(t)
    BY <2>5, ReloadKeeps
  <2>6. CASE \/ \E p \in Positions : StartClose(t, p)
             \/ \E g \in BOOLEAN : Fetch(t, g)
             \/ \E a \in answers[t] : Deliver(t, a)
             \/ \E a \in Accounts \cup {NoAccount} : SwitchAccount(t, a)
             \/ RowsFail(t) \/ SendClose(t) \/ CloseEnds(t) \/ ChooseTable(t)
    BY <2>6, RecordsStay DEF StartClose, Fetch, Deliver, SwitchAccount, RowsFail, SendClose,
                             CloseEnds, ChooseTable, tabVars, eventVars
  <2> QED
    BY <1>6, <2>1, <2>2, <2>3, <2>4, <2>5, <2>6 DEF TabStep
<1> QED
  BY <1>1, <1>2, <1>3, <1>4, <1>5, <1>6 DEF PositionsNext, Openings

\* What a scan finds is in the log.
LEMMA ScannedHappened ==
    ASSUME NEW t, NEW p
    PROVE  Happened(ScannedTrade(t, p), p)
<1>1. PICK closes : closes = IF p \in Known(t) THEN Events("posclose", p, DOMAIN log) ELSE {}
  OBVIOUS
<1>2. PICK liqs : liqs = IF Owner[p] = account[t] THEN Events("liq", p, DOMAIN log) ELSE {}
  OBVIOUS
<1>3. PICK l : l = CHOOSE c \in closes : TRUE
  OBVIOUS
<1>4. ScannedTrade(t, p) = IF account[t] = NoAccount THEN NoTrade
                           ELSE IF closes # {} THEN Trade("user", Decode(log[l].pnl))
                           ELSE IF liqs # {} THEN Trade("liquidation", 0) ELSE NoTrade
  BY <1>1, <1>2, <1>3 DEF ScannedTrade
<1>5. closes # {} => l \in closes
  BY <1>3
<1>6. CASE account[t] # NoAccount /\ closes # {}
  <2>1. ScannedTrade(t, p) = Trade("user", Decode(log[l].pnl))
    BY <1>4, <1>6
  <2>2. l \in Events("posclose", p, DOMAIN log)
    BY <1>1, <1>5, <1>6
  <2> QED
    BY <2>1, <2>2 DEF Happened, Trade
<1>7. CASE account[t] # NoAccount /\ closes = {} /\ liqs # {}
  <2>1. ScannedTrade(t, p) = Trade("liquidation", 0)
    BY <1>4, <1>7
  <2>2. Events("liq", p, DOMAIN log) # {}
    BY <1>2, <1>7
  <2> QED
    BY <2>1, <2>2 DEF Happened, Trade
<1>8. CASE account[t] = NoAccount \/ (closes = {} /\ liqs = {})
  BY <1>4, <1>8 DEF Happened, NoTrade, Trade
<1> QED
  BY <1>6, <1>7, <1>8

\* For any number of tabs, positions and events: a close that is shown was made, and
\* a liquidation that is shown took place, although tabs write over each other's
\* storage and a run may report a success that was none.  Nothing is said of the
\* PnL a close is shown with.
THEOREM BlotterTellsTheTruth == PositionsSpec => []HistoryIsTrue
<1>1. RecordsInv => HistoryIsTrue
  <2> SUFFICES ASSUME RecordsInv, NEW t \in Tabs, NEW p \in Positions
               PROVE  Happened(History(t)[p], p)
    BY DEF HistoryIsTrue, Happened
  <2>1. Happened(session[t].trades[p], p)
    BY DEF RecordsInv, TrueStore
  <2>2. History(t)[p] = ScannedTrade(t, p) \/ History(t)[p] = session[t].trades[p]
    BY DEF History
  <2> QED
    BY <2>1, <2>2, ScannedHappened
<1> QED
  BY <1>1, RecordsInitially, RecordsInvariance, PTL DEF PositionsSpec

-----------------------------------------------------------------------------
(* The deployer: the inductive invariant                                   *)
(*                                                                         *)
(* What an instance was told was true of the record when it was told, and  *)
(* a record only ever gains contracts that none of the recorded ones was   *)
(* told of, because a contract is given the addresses of earlier ones and  *)
(* the placeholders are filled when all of them are recorded.  The record  *)
(* on disk is the one in memory whenever an instance is told anew.         *)

Checkpoint == [ids : [Targets -> Nat], wired : BOOLEAN, readable : BOOLEAN]

Roles == {"oracle", "risk", "treasury", "insurance", "perp", "vault", "funding", "token", "owner"}

\* What an instance may hold.
Memory ==
    {Blank} \cup UNION {[roles -> (Targets \cup {"admin"}) \X Nat] : roles \in SUBSET Roles}

\* Every contract named in the fields has its place in the record.
Named(fields, r) ==
    \A role \in DOMAIN fields :
        fields[role] = "admin" \/ (fields[role] \in Targets /\ r.ids[fields[role]] # 0)

Told(c, r, x) ==
    \/ x = Blank
    \/ \E fields \in {Built(c), Wired(c)} : x = Knows(fields, r) /\ Named(fields, r)

\* The record r holds of the instances n.
Holds(n, r) ==
    /\ r \in Checkpoint
    /\ \A c \in Targets :
          /\ r.ids[c] <= Len(n[c])
          /\ r.ids[c] # 0 => Told(c, r, n[c][r.ids[c]])

\* The token knows nothing but its owner, whoever deployed it.
Network(n) ==
    /\ n \in [Targets -> Seq(Memory)]
    /\ \A i \in 1 .. Len(n["usdc"]) : n["usdc"][i] = [owner |-> Admin]

Upto(k, r) == \A i \in 1 .. k : r.ids[Order[i]] # 0

\* Where the script is, and what it has recorded by then.
StageInv ==
    /\ at \in {"deploy", "save", "init"} => place \in 1 .. 10 /\ Upto(place - 1, mem)
    /\ at \in {"save", "init"} => mem.ids[Order[place]] # 0
    /\ at = "init" => Order[place] \in Initialised
    /\ at = "wire" => place \in 1 .. Len(Wiring) /\ Upto(10, mem)
    /\ at \in {"deploy", "init", "wire"} => disk.ids = mem.ids

CheckpointInv ==
    /\ Network(net) /\ Holds(net, mem) /\ Holds(net, disk)
    /\ mem.readable /\ (disk.readable \/ disk = None)
    /\ StageInv

-----------------------------------------------------------------------------
(* The deployer's tables *)

LEMMA OrderIs ==
    /\ Len(Order) = 10
    /\ Order[1] = "usdc" /\ Order[2] = "governor" /\ Order[3] = "oracle"
    /\ Order[4] = "treasury" /\ Order[5] = "vault" /\ Order[6] = "funding"
    /\ Order[7] = "risk" /\ Order[8] = "perp" /\ Order[9] = "structured"
    /\ Order[10] = "bridge"
BY DEF Order

LEMMA TargetsAre ==
    /\ Targets = {"usdc", "governor", "oracle", "treasury", "vault", "funding", "risk",
                  "perp", "structured", "bridge"}
    /\ \A i \in 1 .. 10 : Order[i] \in Targets
    /\ \A c \in Targets : \E i \in 1 .. 10 : c = Order[i]
<1>1. DOMAIN Order = 1 .. 10
  BY DEF Order
<1>2. Targets = {Order[i] : i \in 1 .. 10}
  BY <1>1 DEF Targets, Range
<1> QED
  BY <1>2, OrderIs

\* A contract is built with the addresses of earlier ones.
LEMMA BuiltOfEarlier ==
    ASSUME NEW k \in 1 .. 10, NEW role \in DOMAIN Built(Order[k])
    PROVE  \/ Built(Order[k])[role] = "admin"
           \/ \E i \in 1 .. k - 1 : Built(Order[k])[role] = Order[i]
<1>1. CASE Order[k] \notin {"vault", "funding", "risk", "perp", "bridge"}
  BY <1>1 DEF Built
<1>2. CASE k = 5
  BY <1>2, OrderIs DEF Built
<1>3. CASE k = 6
  BY <1>3, OrderIs DEF Built
<1>4. CASE k = 7
  BY <1>4, OrderIs DEF Built
<1>5. CASE k = 8
  BY <1>5, OrderIs DEF Built
<1>6. CASE k = 10
  BY <1>6, OrderIs DEF Built
<1>7. k \in {1, 2, 3, 4, 9} => Order[k] \notin {"vault", "funding", "risk", "perp", "bridge"}
  BY OrderIs
<1> QED
  BY <1>1, <1>2, <1>3, <1>4, <1>5, <1>6, <1>7

LEMMA WiredOfTargets ==
    ASSUME NEW c \in {"vault", "funding", "risk"}, NEW role \in DOMAIN Wired(c)
    PROVE  Wired(c)[role] \in Targets \cup {"admin"}
<1>1. CASE c = "vault"
  BY <1>1, TargetsAre DEF Wired, Built
<1>2. CASE c = "funding"
  BY <1>2, TargetsAre DEF Wired, Built
<1>3. CASE c = "risk"
  BY <1>3, TargetsAre DEF Wired, Built
<1> QED
  BY <1>1, <1>2, <1>3

LEMMA FieldsAreRoles ==
    ASSUME NEW c \in Targets
    PROVE  DOMAIN Built(c) \subseteq Roles /\ DOMAIN Wired(c) \subseteq Roles
<1>1. DOMAIN Built(c) \subseteq Roles
  BY DEF Built, Roles
<1>2. DOMAIN Wired(c) = DOMAIN Built(c)
  BY DEF Wired
<1> QED
  BY <1>1, <1>2

\* The calls that put addresses in the places of placeholders, and the others.
Rewires == {Call(c, "rewire", "admin") : c \in {"vault", "funding", "risk"}}
OtherCalls ==
    {Call(c, op, who) : c \in {"vault", "treasury", "perp", "bridge"},
                        op \in {"grant", "register", "trust"}, who \in {"perp", "risk", "admin"}}
WiringCall == Rewires \cup OtherCalls

LEMMA CallsAre ==
    ASSUME NEW call \in WiringCall, call.op = "rewire"
    PROVE  call.to \in {"vault", "funding", "risk"}
BY DEF WiringCall, Rewires, OtherCalls, Call

LEMMA WiringIs == Wiring \in Seq(WiringCall) /\ Len(Wiring) \in Nat \ {0}
<1> DEFINE first == <<Call("vault", "rewire", "admin"), Call("funding", "rewire", "admin"),
                      Call("risk", "rewire", "admin")>>
           markets == [i \in 1 .. Markets |-> Call("perp", "register", "admin")]
           last == IF Axelar THEN <<Call("bridge", "trust", "admin")>> ELSE << >>
<1>1. first \in Seq(WiringCall) /\ Len(first) = 3
  <2>1. /\ Call("vault", "rewire", "admin") \in WiringCall
        /\ Call("funding", "rewire", "admin") \in WiringCall
        /\ Call("risk", "rewire", "admin") \in WiringCall
    BY DEF WiringCall, Rewires
  <2> QED
    BY <2>1
<1>2. Grants \in Seq(WiringCall)
  <2>1. /\ Call("vault", "grant", "perp") \in WiringCall
        /\ Call("vault", "grant", "risk") \in WiringCall
        /\ Call("treasury", "grant", "perp") \in WiringCall
        /\ Call("treasury", "grant", "risk") \in WiringCall
    BY DEF WiringCall, OtherCalls
  <2> QED
    BY <2>1 DEF Grants
<1>3. Call("perp", "register", "admin") \in WiringCall /\ Markets \in Nat
  BY DeployConstants DEF WiringCall, OtherCalls
<1>4. markets \in Seq(WiringCall)
  BY <1>3
<1>5. last \in Seq(WiringCall)
  <2>1. Call("bridge", "trust", "admin") \in WiringCall
    BY DEF WiringCall, OtherCalls
  <2> QED
    BY <2>1
<1>6. Wiring = ((first \o Grants) \o markets) \o last
  BY DEF Wiring
<1> HIDE DEF first, markets, last
<1>7. first \o Grants \in Seq(WiringCall) /\ Len(first \o Grants) = 3 + Len(Grants)
  <2>1. Len(first \o Grants) = Len(first) + Len(Grants)
    BY <1>1, <1>2, ConcatProperties
  <2>2. first \o Grants \in Seq(WiringCall)
    BY <1>1, <1>2, ConcatProperties
  <2> QED
    BY <1>1, <2>1, <2>2
<1>8. /\ (first \o Grants) \o markets \in Seq(WiringCall)
      /\ Len((first \o Grants) \o markets) = 3 + Len(Grants) + Len(markets)
  <2>1. Len((first \o Grants) \o markets) = Len(first \o Grants) + Len(markets)
    BY <1>4, <1>7, ConcatProperties
  <2>2. (first \o Grants) \o markets \in Seq(WiringCall)
    BY <1>4, <1>7, ConcatProperties
  <2> QED
    BY <1>7, <2>1, <2>2
<1>9. /\ Wiring \in Seq(WiringCall)
      /\ Len(Wiring) = 3 + Len(Grants) + Len(markets) + Len(last)
  <2>1. Len(Wiring) = Len((first \o Grants) \o markets) + Len(last)
    BY <1>5, <1>6, <1>8, ConcatProperties
  <2>2. Wiring \in Seq(WiringCall)
    BY <1>5, <1>6, <1>8, ConcatProperties
  <2> QED
    BY <1>8, <2>1, <2>2
<1>10. Len(Grants) \in Nat /\ Len(markets) \in Nat /\ Len(last) \in Nat
  BY <1>2, <1>4, <1>5, LenProperties
<1> QED
  BY <1>9, <1>10

-----------------------------------------------------------------------------
(* What the instances were told *)

LEMMA NotAdmin == "admin" \notin Targets
BY TargetsAre

LEMMA IdTyped ==
    ASSUME NEW r \in Checkpoint, NEW c \in Targets \cup {"admin"}
    PROVE  Id(r, c) \in (Targets \cup {"admin"}) \X Nat
BY DEF Id, Admin, Checkpoint

\* What a contract is told is something it may hold.
LEMMA KnowsTyped ==
    ASSUME NEW r \in Checkpoint, NEW c \in Targets, NEW fields \in {Built(c), Wired(c)},
           Named(fields, r)
    PROVE  Knows(fields, r) \in Memory
<1>1. DOMAIN fields \in SUBSET Roles
  BY FieldsAreRoles
<1>2. \A role \in DOMAIN fields : Id(r, fields[role]) \in (Targets \cup {"admin"}) \X Nat
  BY IdTyped DEF Named
<1>3. Knows(fields, r) \in [DOMAIN fields -> (Targets \cup {"admin"}) \X Nat]
  BY <1>2 DEF Knows
<1> QED
  BY <1>1, <1>3 DEF Memory

\* The names in the fields mean the same in a record that has them too.
LEMMA ToldStays ==
    ASSUME NEW r, NEW s, NEW c, NEW x, Told(c, r, x),
           \A d \in Targets : r.ids[d] # 0 => s.ids[d] = r.ids[d]
    PROVE  Told(c, s, x)
<1>1. CASE x = Blank
  BY <1>1 DEF Told
<1>2. ASSUME NEW fields \in {Built(c), Wired(c)}, x = Knows(fields, r), Named(fields, r)
      PROVE  Told(c, s, x)
  <2>1. Named(fields, s)
    BY <1>2 DEF Named
  <2>2. \A role \in DOMAIN fields : Id(s, fields[role]) = Id(r, fields[role])
    BY <1>2, NotAdmin DEF Named, Id
  <2>3. x = Knows(fields, s)
    BY <1>2, <2>2 DEF Knows
  <2> QED
    BY <2>1, <2>3 DEF Told
<1> QED
  BY <1>1, <1>2 DEF Told

\* A contract whose turn it is can be told of the ones before.
LEMMA BuiltIsNamed ==
    ASSUME NEW r, NEW k \in 1 .. 10, Upto(k - 1, r)
    PROVE  Named(Built(Order[k]), r)
BY BuiltOfEarlier, TargetsAre DEF Named, Upto

LEMMA AllRecorded == ASSUME NEW r, Upto(10, r) PROVE \A c \in Targets : r.ids[c] # 0
BY TargetsAre DEF Upto

-----------------------------------------------------------------------------
(* The steps of the script *)

\* The network and both records as they are.
LEMMA SameNetwork ==
    ASSUME CheckpointInv, UNCHANGED net, Holds(net, mem'), Holds(net, disk'), mem'.readable,
           disk'.readable \/ disk' = None, StageInv'
    PROVE  CheckpointInv'
BY DEF CheckpointInv

\* None holds of every network: it records nothing.
LEMMA NoneHolds ==
    ASSUME NEW n, Network(n)
    PROVE  Holds(n, None) /\ Holds(n, Fresh) /\ Fresh.readable /\ Fresh.ids = None.ids
<1>1. None \in Checkpoint /\ Fresh \in Checkpoint /\ Fresh.readable /\ Fresh.ids = None.ids
      /\ \A c \in Targets : None.ids[c] = 0
  BY DEF None, Fresh, Checkpoint
<1>2. \A c \in Targets : Len(n[c]) \in Nat
  BY LenProperties DEF Network
<1> QED
  BY <1>1, <1>2 DEF Holds

LEMMA StartKeeps == ASSUME CheckpointInv, Start PROVE CheckpointInv'
<1>1. mem' = Loaded(disk) /\ at' = "deploy" /\ place' = 1 /\ UNCHANGED <<net, disk>>
  BY DEF Start
<1>2. Holds(net, mem') /\ mem'.readable /\ mem'.ids = disk.ids
  BY <1>1, NoneHolds DEF CheckpointInv, Loaded
<1>3. StageInv'
  BY <1>1, <1>2 DEF StageInv, Upto
<1> QED
  BY <1>1, <1>2, <1>3, SameNetwork DEF CheckpointInv

\* The script goes on from a contract that is recorded.
LEMMA GoOnKeepsStage ==
    ASSUME place \in 1 .. 10, Upto(place, mem'), GoOn, disk'.ids = mem'.ids
    PROVE  StageInv'
<1>1. CASE place < 10
  <2>1. at' = "deploy" /\ place' = place + 1
    BY <1>1, OrderIs DEF GoOn
  <2>2. place' \in 1 .. 10 /\ place' - 1 = place
    BY <1>1, <2>1
  <2> QED
    BY <2>1, <2>2 DEF StageInv
<1>2. CASE place = 10
  <2>1. at' \in {"finish", "wire"} /\ place' = 1
    BY <1>2, OrderIs DEF GoOn
  <2>2. 1 \in 1 .. Len(Wiring)
    BY WiringIs
  <2> QED
    BY <1>2, <2>1, <2>2 DEF StageInv
<1> QED
  BY <1>1, <1>2

LEMMA CachedKeeps == ASSUME CheckpointInv, Cached PROVE CheckpointInv'
<1>1. /\ place \in 1 .. 10 /\ Upto(place - 1, mem) /\ mem.ids[Order[place]] # 0
      /\ disk.ids = mem.ids /\ GoOn /\ UNCHANGED <<net, disk, mem>>
  BY DEF CheckpointInv, StageInv, Cached
<1>2. Upto(place, mem')
  BY <1>1 DEF Upto
<1>3. StageInv'
  BY <1>1, <1>2, GoOnKeepsStage
<1> QED
  BY <1>1, <1>3, SameNetwork DEF CheckpointInv

\* A record keeps holding when a contract gets one more instance.
LEMMA AppendHolds ==
    ASSUME NEW n, Network(n), NEW r, Holds(n, r), NEW c \in Targets, NEW x \in Memory
    PROVE  Holds([n EXCEPT ![c] = Append(n[c], x)], r)
<1> DEFINE m == [n EXCEPT ![c] = Append(n[c], x)]
<1>1. n \in [Targets -> Seq(Memory)] /\ r \in Checkpoint
  BY DEF Network, Holds
<1>2. n[c] \in Seq(Memory)
  BY <1>1
<1>3. /\ Len(Append(n[c], x)) = Len(n[c]) + 1 /\ Len(n[c]) \in Nat
      /\ \A i \in 1 .. Len(n[c]) : Append(n[c], x)[i] = n[c][i]
  BY <1>2, AppendProperties, LenProperties
<1>4. ASSUME NEW d \in Targets PROVE /\ r.ids[d] <= Len(m[d])
                                     /\ r.ids[d] # 0 => m[d][r.ids[d]] = n[d][r.ids[d]]
  <2>1. r.ids[d] \in Nat /\ r.ids[d] <= Len(n[d])
    BY <1>1 DEF Holds, Checkpoint
  <2>2. CASE d = c
    <3>1. m[d] = Append(n[c], x)
      BY <1>1, <2>2
    <3> HIDE DEF m
    <3> QED
      BY <1>3, <2>1, <2>2, <3>1
  <2>3. CASE d # c
    <3>1. m[d] = n[d]
      BY <1>1, <2>3
    <3> QED
      BY <2>1, <3>1
  <2> QED
    BY <2>2, <2>3
<1> HIDE DEF m
<1>5. Holds(m, r)
  BY <1>1, <1>4 DEF Holds
<1> QED
  BY <1>5 DEF m

LEMMA AppendNetwork ==
    ASSUME NEW n, Network(n), NEW c \in Targets, NEW x \in Memory,
           c = "usdc" => x = [owner |-> Admin]
    PROVE  Network([n EXCEPT ![c] = Append(n[c], x)])
<1> DEFINE m == [n EXCEPT ![c] = Append(n[c], x)]
<1>1. n \in [Targets -> Seq(Memory)] /\ n[c] \in Seq(Memory)
  BY DEF Network
<1>2. /\ Append(n[c], x) \in Seq(Memory) /\ Len(n[c]) \in Nat
      /\ Len(Append(n[c], x)) = Len(n[c]) + 1
      /\ \A i \in 1 .. Len(n[c]) : Append(n[c], x)[i] = n[c][i]
      /\ Append(n[c], x)[Len(n[c]) + 1] = x
  BY <1>1, AppendProperties, LenProperties
<1>3. m \in [Targets -> Seq(Memory)] /\ m[c] = Append(n[c], x)
      /\ \A d \in Targets \ {c} : m[d] = n[d]
  BY <1>1, <1>2
<1> HIDE DEF m
<1>4. ASSUME NEW i \in 1 .. Len(m["usdc"]) PROVE m["usdc"][i] = [owner |-> Admin]
  <2>1. CASE c = "usdc"
    <3>1. i \in 1 .. Len(n[c]) \/ i = Len(n[c]) + 1
      BY <1>2, <1>3, <2>1
    <3>2. \A j \in 1 .. Len(n[c]) : n[c][j] = [owner |-> Admin]
      BY <2>1 DEF Network
    <3> QED
      BY <1>2, <1>3, <2>1, <3>1, <3>2
  <2>2. CASE c # "usdc"
    <3>1. m["usdc"] = n["usdc"]
      BY <1>3, <2>2, TargetsAre
    <3> QED
      BY <3>1 DEF Network
  <2> QED
    BY <2>1, <2>2
<1>5. Network(m)
  BY <1>3, <1>4 DEF Network
<1> QED
  BY <1>5 DEF m

\* A contract that was not recorded is, and nothing recorded was told of it.
LEMMA RecordedToo ==
    ASSUME NEW n, NEW r, Holds(n, r), NEW c \in Targets, r.ids[c] = 0, NEW i \in Nat,
           i <= Len(n[c]), Told(c, r, n[c][i])
    PROVE  Holds(n, [r EXCEPT !.ids[c] = i])
<1> DEFINE s == [r EXCEPT !.ids[c] = i]
<1>1. r \in Checkpoint
  BY DEF Holds
<1>2. s \in Checkpoint /\ s.ids[c] = i /\ \A d \in Targets \ {c} : s.ids[d] = r.ids[d]
  BY <1>1 DEF Checkpoint
<1> HIDE DEF s
<1>3. \A d \in Targets : r.ids[d] # 0 => s.ids[d] = r.ids[d]
  BY <1>2
<1>4. ASSUME NEW d \in Targets PROVE /\ s.ids[d] <= Len(n[d])
                                     /\ s.ids[d] # 0 => Told(d, s, n[d][s.ids[d]])
  <2>1. CASE d = c
    BY <1>2, <1>3, <2>1, ToldStays
  <2>2. CASE d # c
    <3>1. s.ids[d] = r.ids[d] /\ r.ids[d] <= Len(n[d])
      BY <1>2, <2>2 DEF Holds
    <3>2. r.ids[d] # 0 => Told(d, s, n[d][r.ids[d]])
      BY <1>3, ToldStays DEF Holds
    <3> QED
      BY <3>1, <3>2
  <2> QED
    BY <2>1, <2>2
<1>5. Holds(n, s)
  BY <1>2, <1>4 DEF Holds
<1> QED
  BY <1>5 DEF s

LEMMA TokenKnows == ASSUME NEW r PROVE Knows(Built("usdc"), r) = [owner |-> Admin]
<1>1. Built("usdc") = [owner |-> "admin"]
  BY DEF Built
<1>2. Id(r, "admin") = Admin
  BY DEF Id
<1> QED
  BY <1>1, <1>2 DEF Knows

\* What a new instance of the contract whose turn it is holds.
LEMMA NewInstance ==
    ASSUME NEW r \in Checkpoint, NEW k \in 1 .. 10, Upto(k - 1, r), NEW x,
           x = IF Order[k] \in Initialised \cup {"bridge", "structured"}
                 THEN Blank ELSE Knows(Built(Order[k]), r)
    PROVE  /\ x \in Memory /\ Told(Order[k], r, x)
           /\ Order[k] = "usdc" => x = [owner |-> Admin]
<1>1. Order[k] \in Targets /\ Named(Built(Order[k]), r)
  BY BuiltIsNamed, TargetsAre
<1>2. Knows(Built(Order[k]), r) \in Memory
  BY <1>1, KnowsTyped
<1>3. Blank \in Memory
  BY DEF Memory
<1>4. x \in Memory /\ Told(Order[k], r, x)
  BY <1>1, <1>2, <1>3 DEF Told
<1>5. Order[k] = "usdc" => x = Knows(Built(Order[k]), r)
  BY DEF Initialised
<1> QED
  BY <1>4, <1>5, TokenKnows

LEMMA DeployContractKeeps == ASSUME CheckpointInv, DeployContract PROVE CheckpointInv'
<1>1. /\ at = "deploy" /\ place \in 1 .. 10 /\ Upto(place - 1, mem)
      /\ Network(net) /\ Holds(net, mem) /\ Holds(net, disk) /\ mem \in Checkpoint
  BY DEF CheckpointInv, StageInv, DeployContract, Holds
<1>2. PICK c : c = Order[place]
  OBVIOUS
<1>3. PICK new : new = IF c \in Initialised \cup {"bridge", "structured"}
                         THEN Blank ELSE Knows(Built(c), mem)
  OBVIOUS
<1>4. PICK k : k = Instance(c)
  OBVIOUS
<1>5. /\ mem.ids[c] = 0 /\ mem' = [mem EXCEPT !.ids[c] = k]
      /\ net' = [net EXCEPT ![c] = IF k > Len(net[c]) THEN Append(net[c], new) ELSE net[c]]
      /\ at' = "save" /\ UNCHANGED <<disk, place>>
  BY <1>2, <1>3, <1>4 DEF DeployContract
<1>6. c \in Targets
  BY <1>1, <1>2, TargetsAre
<1>7. new \in Memory /\ Told(c, mem, new) /\ (c = "usdc" => new = [owner |-> Admin])
  BY <1>1, <1>2, <1>3, NewInstance
<1>8. net \in [Targets -> Seq(Memory)] /\ net[c] \in Seq(Memory) /\ Len(net[c]) \in Nat
  BY <1>1, <1>6, LenProperties DEF Network
<1>9. k \in Nat \ {0} /\ (k > Len(net[c]) => k = Len(net[c]) + 1)
      /\ (k <= Len(net[c]) => c = "usdc" /\ k = 1)
  BY <1>4, <1>8 DEF Instance
<1>10. /\ Network(net') /\ Holds(net', mem) /\ Holds(net', disk)
       /\ k <= Len(net'[c]) /\ Told(c, mem, net'[c][k])
  <2>1. CASE k > Len(net[c])
    <3>1. net' = [net EXCEPT ![c] = Append(net[c], new)]
      BY <1>5, <2>1
    <3>2. Network(net') /\ Holds(net', mem) /\ Holds(net', disk)
      BY <1>1, <1>6, <1>7, <3>1, AppendHolds, AppendNetwork
    <3>3. net'[c] = Append(net[c], new)
      BY <1>6, <1>8, <3>1
    <3>4. Len(net'[c]) = k /\ net'[c][k] = new
      BY <1>7, <1>8, <1>9, <2>1, <3>3, AppendProperties
    <3> QED
      BY <1>7, <1>9, <3>2, <3>4
  <2>2. CASE k <= Len(net[c])
    <3>1. net' = net /\ c = "usdc" /\ k = 1
      BY <1>5, <1>6, <1>8, <1>9, <2>2
    <3>2. net[c][k] = [owner |-> Admin]
      BY <1>1, <1>8, <2>2, <3>1 DEF Network
    <3>3. Named(Built("usdc"), mem)
      BY OrderIs, BuiltIsNamed DEF Upto
    <3>4. Told(c, mem, net[c][k])
      BY <3>1, <3>2, <3>3, TokenKnows DEF Told
    <3> QED
      BY <1>1, <2>2, <3>1, <3>4
  <2> QED
    BY <1>8, <1>9, <2>1, <2>2
<1>11. Holds(net', mem')
  BY <1>5, <1>6, <1>9, <1>10, RecordedToo
<1>12. mem'.readable /\ mem'.ids = [mem.ids EXCEPT ![c] = k]
  BY <1>1, <1>5 DEF CheckpointInv, Checkpoint
<1>13. mem.ids \in [Targets -> Nat]
  BY <1>1 DEF Checkpoint
<1>14. Upto(place - 1, mem') /\ mem'.ids[c] # 0
  <2>1. mem'.ids[c] = k /\ \A d \in Targets \ {c} : mem'.ids[d] = mem.ids[d]
    BY <1>6, <1>12, <1>13
  <2>2. \A i \in 1 .. place - 1 : Order[i] \in Targets
    BY <1>1, TargetsAre
  <2> QED
    BY <1>1, <1>9, <2>1, <2>2 DEF Upto
<1>15. StageInv'
  BY <1>1, <1>2, <1>5, <1>14 DEF StageInv
<1> QED
  BY <1>5, <1>10, <1>11, <1>12, <1>15 DEF CheckpointInv

LEMMA SaveKeeps == ASSUME CheckpointInv, Save PROVE CheckpointInv'
<1>1. /\ at = "save" /\ place \in 1 .. 10 /\ Upto(place - 1, mem) /\ mem.ids[Order[place]] # 0
      /\ Holds(net, mem) /\ mem.readable /\ disk' = mem /\ UNCHANGED <<net, mem>>
  BY DEF CheckpointInv, StageInv, Save
<1>2. Upto(place, mem')
  BY <1>1 DEF Upto
<1>3. StageInv'
  <2>1. CASE GoOn
    BY <1>1, <1>2, <2>1, GoOnKeepsStage
  <2>2. CASE ~GoOn
    <3>1. at' = "init" /\ place' = place /\ Order[place] \in Initialised
      BY <2>2 DEF Save
    <3> QED
      BY <1>1, <3>1 DEF StageInv
  <2> QED
    BY <2>1, <2>2
<1> QED
  BY <1>1, <1>3, SameNetwork

\* An instance is told anew: what the records hold of the others stays.
LEMMA RetoldHolds ==
    ASSUME NEW n, Network(n), NEW c \in Targets \ {"usdc"}, NEW x \in Memory,
           NEW i \in 1 .. Len(n[c])
    PROVE  /\ Network([n EXCEPT ![c][i] = x])
           /\ \A r : Holds(n, r) /\ (r.ids[c] = i => Told(c, r, x))
                        => Holds([n EXCEPT ![c][i] = x], r)
<1> DEFINE m == [n EXCEPT ![c][i] = x]
<1>1. n \in [Targets -> Seq(Memory)] /\ n[c] \in Seq(Memory)
  BY DEF Network
<1>2. PICK s : s = [n[c] EXCEPT ![i] = x]
  OBVIOUS
<1>3. s \in Seq(Memory) /\ Len(s) = Len(n[c]) /\ s[i] = x
      /\ \A j \in 1 .. Len(n[c]) : j # i => s[j] = n[c][j]
  BY <1>1, <1>2, ExceptSeq, LenProperties
<1>4. m = [n EXCEPT ![c] = s]
  BY <1>1, <1>2
<1>5. m \in [Targets -> Seq(Memory)] /\ m[c] = s /\ \A d \in Targets \ {c} : m[d] = n[d]
  BY <1>1, <1>3, <1>4
<1> HIDE DEF m
<1>6. m["usdc"] = n["usdc"]
  BY <1>5, TargetsAre
<1>7. Network(m)
  BY <1>5, <1>6 DEF Network
<1>8. ASSUME NEW r, Holds(n, r), r.ids[c] = i => Told(c, r, x) PROVE Holds(m, r)
  <2>1. ASSUME NEW d \in Targets PROVE /\ r.ids[d] <= Len(m[d])
                                       /\ r.ids[d] # 0 => Told(d, r, m[d][r.ids[d]])
    <3>1. r.ids[d] \in Nat /\ r.ids[d] <= Len(n[d])
          /\ (r.ids[d] # 0 => Told(d, r, n[d][r.ids[d]]))
      BY <1>8 DEF Holds, Checkpoint
    <3>2. CASE d # c
      BY <1>5, <3>1, <3>2
    <3>3. CASE d = c /\ r.ids[d] = i
      BY <1>3, <1>5, <1>8, <3>1, <3>3
    <3>4. CASE d = c /\ r.ids[d] # i
      <4>1. Len(n[c]) \in Nat /\ (r.ids[d] # 0 => r.ids[d] \in 1 .. Len(n[c]))
        BY <1>1, <3>1, <3>4, LenProperties
      <4>2. r.ids[d] # 0 => s[r.ids[d]] = n[d][r.ids[d]]
        BY <1>3, <3>4, <4>1
      <4> QED
        BY <1>3, <1>5, <3>1, <3>4, <4>2
    <3> QED
      BY <3>2, <3>3, <3>4
  <2> QED
    BY <1>8, <2>1 DEF Holds
<1> QED
  BY <1>7, <1>8 DEF m

\* A contract learns the addresses of the record, when the disk has it too.
LEMMA TellKeeps ==
    ASSUME CheckpointInv, disk.ids = mem.ids, NEW c \in Targets \ {"usdc"}, mem.ids[c] # 0,
           NEW fields \in {Built(c), Wired(c)}, Named(fields, mem)
    PROVE  LET told == [net EXCEPT ![c][mem.ids[c]] = Knows(fields, mem)]
           IN  Network(told) /\ Holds(told, mem) /\ Holds(told, disk)
<1>1. Network(net) /\ Holds(net, mem) /\ Holds(net, disk) /\ mem \in Checkpoint
  BY DEF CheckpointInv, Holds
<1>2. mem.ids[c] \in 1 .. Len(net[c])
  <2>1. mem.ids[c] \in Nat /\ mem.ids[c] <= Len(net[c]) /\ Len(net[c]) \in Nat
    BY <1>1, LenProperties DEF Holds, Checkpoint, Network
  <2> QED
    BY <2>1
<1>3. PICK x : x = Knows(fields, mem)
  OBVIOUS
<1>4. x \in Memory /\ Told(c, mem, x)
  BY <1>1, <1>3, KnowsTyped DEF Told
<1>5. Told(c, disk, x)
  BY <1>4, ToldStays
<1> QED
  BY <1>1, <1>2, <1>3, <1>4, <1>5, RetoldHolds

LEMMA InitialiseKeeps == ASSUME CheckpointInv, Initialise PROVE CheckpointInv'
<1>1. /\ at = "init" /\ place \in 1 .. 10 /\ Upto(place - 1, mem) /\ mem.ids[Order[place]] # 0
      /\ Order[place] \in Initialised /\ disk.ids = mem.ids
      /\ GoOn /\ UNCHANGED <<disk, mem>>
  BY DEF CheckpointInv, StageInv, Initialise
<1>2. PICK c : c = Order[place]
  OBVIOUS
<1>3. c \in Targets \ {"usdc"}
  BY <1>1, <1>2, TargetsAre DEF Initialised
<1>4. Named(Built(c), mem)
  BY <1>1, <1>2, BuiltIsNamed
<1>5. net' = [net EXCEPT ![c][mem.ids[c]] = Knows(Built(c), mem)]
  BY <1>2 DEF Initialise
<1>6. Network(net') /\ Holds(net', mem) /\ Holds(net', disk)
  BY <1>1, <1>2, <1>3, <1>4, <1>5, TellKeeps
<1>7. Upto(place, mem')
  BY <1>1 DEF Upto
<1>8. StageInv'
  BY <1>1, <1>7, GoOnKeepsStage
<1> QED
  BY <1>1, <1>6, <1>8 DEF CheckpointInv

LEMMA WireKeeps == ASSUME CheckpointInv, Wire PROVE CheckpointInv'
<1>1. /\ at = "wire" /\ place \in 1 .. Len(Wiring) /\ Upto(10, mem) /\ disk.ids = mem.ids
      /\ UNCHANGED <<disk, mem>>
  BY DEF CheckpointInv, StageInv, Wire
<1>2. PICK call : call = Wiring[place]
  OBVIOUS
<1>3. call \in WiringCall
  BY <1>1, <1>2, WiringIs, ElementOfSeq
<1>4. Network(net') /\ Holds(net', mem) /\ Holds(net', disk)
  <2>1. CASE call.op = "rewire"
    <3>1. PICK c \in {"vault", "funding", "risk"} : call.to = c
      BY <1>3, <2>1, CallsAre
    <3>2. c \in Targets \ {"usdc"} /\ Id(mem, c) = <<c, mem.ids[c]>>
      BY TargetsAre DEF Id
    <3>3. net' = [net EXCEPT ![c][mem.ids[c]] = Knows(Wired(c), mem)]
      BY <1>2, <2>1, <3>1, <3>2 DEF Wire, Effect
    <3>4. Named(Wired(c), mem)
      BY <1>1, AllRecorded, WiredOfTargets DEF Named
    <3> QED
      BY <1>1, <3>2, <3>3, <3>4, AllRecorded, TellKeeps
  <2>2. CASE call.op # "rewire"
    <3>1. net' = net
      BY <1>2, <2>2 DEF Wire, Effect
    <3> QED
      BY <3>1 DEF CheckpointInv
  <2> QED
    BY <2>1, <2>2
<1>5. StageInv'
  <2>1. CASE place < Len(Wiring)
    <3>1. at' = "wire" /\ place' = place + 1
      BY <1>1, <2>1 DEF Wire
    <3>2. place' \in 1 .. Len(Wiring)
      BY <1>1, <2>1, <3>1, WiringIs
    <3> QED
      BY <1>1, <3>1, <3>2 DEF StageInv
  <2>2. CASE ~(place < Len(Wiring))
    <3>1. at' = "mark"
      BY <2>2 DEF Wire
    <3> QED
      BY <3>1 DEF StageInv
  <2> QED
    BY <2>1, <2>2
<1> QED
  BY <1>1, <1>4, <1>5 DEF CheckpointInv

\* The record on disk becomes the one in memory.
LEMMA WriteKeeps ==
    ASSUME CheckpointInv, UNCHANGED net, mem' \in {mem, [mem EXCEPT !.wired = TRUE]},
           disk' = mem', at' \in {"finish", "done"}
    PROVE  CheckpointInv'
<1>1. Holds(net, mem) /\ mem \in Checkpoint /\ mem.readable
  BY DEF CheckpointInv, Holds
<1>2. mem' \in Checkpoint /\ mem'.ids = mem.ids /\ mem'.readable
  BY <1>1 DEF Checkpoint
<1>3. \A c, x : Told(c, mem, x) => Told(c, mem', x)
  BY <1>2, ToldStays
<1>4. Holds(net, mem')
  BY <1>1, <1>2, <1>3 DEF Holds
<1>5. StageInv'
  BY DEF StageInv
<1> QED
  BY <1>2, <1>4, <1>5, SameNetwork

\* The script is off, and the file is cut short at worst.
LEMMA StopKeeps ==
    ASSUME CheckpointInv, UNCHANGED <<net, mem>>, disk' = disk \/ disk' = None, at' = "off"
    PROVE  CheckpointInv'
<1>1. StageInv'
  BY DEF StageInv
<1>2. Holds(net, disk') /\ (disk'.readable \/ disk' = None)
  BY NoneHolds DEF CheckpointInv
<1> QED
  BY <1>1, <1>2, SameNetwork DEF CheckpointInv

LEMMA CheckpointInitially == DeployInit => CheckpointInv
<1> SUFFICES ASSUME DeployInit PROVE CheckpointInv
  OBVIOUS
<1>1. net = [c \in Targets |-> << >>] /\ disk = None /\ mem = Fresh /\ at = "off"
  BY DEF DeployInit
<1>2. << >> \in Seq(Memory) /\ Len(<< >>) = 0
  BY EmptySeq
<1>3. net["usdc"] = << >>
  BY <1>1, TargetsAre
<1>4. Network(net)
  BY <1>1, <1>2, <1>3 DEF Network
<1>5. Holds(net, mem) /\ Holds(net, disk) /\ mem.readable
  BY <1>1, <1>4, NoneHolds
<1>6. StageInv
  BY <1>1 DEF StageInv
<1> QED
  BY <1>1, <1>4, <1>5, <1>6 DEF CheckpointInv

LEMMA CheckpointInvariance == CheckpointInv /\ [DeployNext]_deployVars => CheckpointInv'
<1> SUFFICES ASSUME CheckpointInv, [DeployNext]_deployVars PROVE CheckpointInv'
  OBVIOUS
<1>1. CASE Start
  BY <1>1, StartKeeps
<1>2. CASE Cached \/ DeployContract \/ Save \/ Initialise \/ Wire
  BY <1>2, CachedKeeps, DeployContractKeeps, SaveKeeps, InitialiseKeeps, WireKeeps
<1>3. CASE Refused \/ Crash
  <2>1. UNCHANGED <<net, mem>> /\ (disk' = disk \/ disk' = None) /\ at' = "off"
    BY <1>3 DEF Refused, Crash
  <2> QED
    BY <2>1, StopKeeps
<1>4. CASE Mark \/ WriteFiles
  <2>1. /\ UNCHANGED net /\ mem' \in {mem, [mem EXCEPT !.wired = TRUE]} /\ disk' = mem'
        /\ at' \in {"finish", "done"}
    BY <1>4 DEF Mark, WriteFiles
  <2> QED
    BY <2>1, WriteKeeps
<1>5. CASE UNCHANGED deployVars
  <2>1. UNCHANGED <<net, disk, mem, at, place>>
    BY <1>5 DEF deployVars
  <2>2. StageInv'
    BY <2>1 DEF CheckpointInv, StageInv
  <2> QED
    BY <2>1, <2>2, SameNetwork DEF CheckpointInv
<1> QED
  BY <1>1, <1>2, <1>3, <1>4, <1>5 DEF DeployNext, ScriptStep

\* However often the script stops, in the middle of writing its checkpoint too,
\* and is run again, and whatever it deploys twice: no contract of the record
\* holds the address of an instance that the record has not.
THEOREM RecordedContractsMatch == DeploySpec => []KnowTheRecorded
<1>1. CheckpointInv => KnowTheRecorded
  <2> SUFFICES ASSUME CheckpointInv, NEW r \in {mem, disk}, NEW c \in Targets, Recorded(r, c)
               PROVE  Range(At(Id(r, c))) \subseteq {Admin} \cup {Id(r, d) : d \in Targets}
    BY DEF KnowTheRecorded
  <2>1. Id(r, c) = <<c, r.ids[c]>>
    BY NotAdmin DEF Id
  <2>2. PICK x : x = At(Id(r, c))
    OBVIOUS
  <2>3. x = net[c][r.ids[c]] /\ x # Blank /\ r.ids[c] # 0
    BY <2>1, <2>2 DEF At, Recorded
  <2>4. Told(c, r, x)
    BY <2>3 DEF CheckpointInv, Holds
  <2>5. PICK fields : x = Knows(fields, r) /\ Named(fields, r)
    BY <2>3, <2>4 DEF Told
  <2>6. \A role \in DOMAIN fields :
            Id(r, fields[role]) \in {Admin} \cup {Id(r, d) : d \in Targets}
    <3>1. Id(r, "admin") = Admin
      BY DEF Id
    <3> QED
      BY <2>5, <3>1 DEF Named
  <2>7. DOMAIN x = DOMAIN fields /\ \A role \in DOMAIN fields : x[role] = Id(r, fields[role])
    BY <2>5 DEF Knows
  <2> QED
    BY <2>2, <2>6, <2>7 DEF Range
<1> QED
  BY <1>1, CheckpointInitially, CheckpointInvariance, PTL DEF DeploySpec

-----------------------------------------------------------------------------
(* The types of the variables                                              *)
(*                                                                         *)
(* A run that waits does so for a call its program makes, and so do the    *)
(* transactions it left.  The nonce of the CLOB is bounded by the limit    *)
(* orders placed, since no submission places two.                          *)

\* What is called, and what is alive, is one of the calls S.
TxAbout(S) ==
    /\ TxTypeOK /\ live \subseteq [flow : Flows, call : S]
    /\ \A f \in Flows : step[f] # "idle" => calling[f] \in S

LEMMA TxInitTyped == ASSUME NEW S \in SUBSET Calls, TxInit PROVE TxAbout(S)
BY DEF TxInit, TxAbout, TxTypeOK

LEMMA TxStays == ASSUME NEW S \in SUBSET Calls, TxAbout(S), UNCHANGED txVars PROVE TxAbout(S)'
BY DEF TxAbout, TxTypeOK, txVars

\* What a call leaves alive, when it is sent or given up.
LEMMA LeftTyped ==
    ASSUME NEW S \in SUBSET Calls, TxAbout(S), NEW f \in Flows, Left(f)
    PROVE  live' \subseteq [flow : Flows, call : S] /\ live' \subseteq Tx
<1>1. step[f] = "sign" => Mine(f) \in [flow : Flows, call : S]
  BY DEF TxAbout, Mine
<1>2. live' \subseteq [flow : Flows, call : S]
  BY <1>1 DEF TxAbout, Left
<1>3. [flow : Flows, call : S] \subseteq Tx
  BY DEF Tx
<1> QED
  BY <1>2, <1>3

\* A run makes a call, or ends.
LEMMA RunTyped ==
    ASSUME NEW S \in SUBSET Calls, TxAbout(S), NEW f \in Flows,
           NEW c \in Calls \cup {NoCall}, NEW s \in {"idle", "sign"}, s = "sign" => c \in S,
           calling' = [calling EXCEPT ![f] = c], step' = [step EXCEPT ![f] = s],
           result' = [result EXCEPT ![f] = "NOT_FOUND"], Left(f),
           toast' \in [Flows -> {"none", "pending", "success", "failed"}]
    PROVE  TxAbout(S)'
<1>1. live' \subseteq [flow : Flows, call : S] /\ live' \subseteq Tx
  BY LeftTyped
<1>2. /\ calling' \in [Flows -> Calls \cup {NoCall}]
      /\ step' \in [Flows -> {"idle", "sign", "poll"}]
      /\ result' \in [Flows -> {"NOT_FOUND", "SUCCESS", "FAILED"}]
  BY DEF TxAbout, TxTypeOK
<1>3. \A g \in Flows : step'[g] # "idle" => calling'[g] \in S
  <2> SUFFICES ASSUME NEW g \in Flows, step'[g] # "idle" PROVE calling'[g] \in S
    OBVIOUS
  <2>1. CASE g = f
    BY <2>1 DEF TxAbout, TxTypeOK
  <2>2. CASE g # f
    BY <2>2 DEF TxAbout, TxTypeOK
  <2> QED
    BY <2>1, <2>2
<1> QED
  BY <1>1, <1>2, <1>3 DEF TxAbout, TxTypeOK

\* A run that makes a call, its toast kept or begun.
LEMMA InvokeTyped ==
    ASSUME NEW S \in SUBSET Calls, TxAbout(S), NEW f \in Flows, NEW c \in S, Invoke(f, c),
           Left(f), StartRun(f) \/ UNCHANGED toast
    PROVE  TxAbout(S)'
<1>1. toast' \in [Flows -> {"none", "pending", "success", "failed"}]
  BY DEF StartRun, TxAbout, TxTypeOK
<1> QED
  BY <1>1, RunTyped DEF Invoke

LEMMA EndRunTyped ==
    ASSUME NEW S \in SUBSET Calls, TxAbout(S), NEW f \in Flows,
           NEW phase \in {"none", "pending", "success", "failed"}, EndRun(f, phase), Left(f)
    PROVE  TxAbout(S)'
<1>1. toast' \in [Flows -> {"none", "pending", "success", "failed"}]
  BY DEF EndRun, TxAbout, TxTypeOK
<1> QED
  BY <1>1, RunTyped DEF EndRun

LEMMA SendTyped ==
    ASSUME NEW S \in SUBSET Calls, TxAbout(S), NEW f \in Flows, Send(f)
    PROVE  TxAbout(S)'
<1>1. Left(f) /\ UNCHANGED <<calling, result, toast>> /\ step[f] = "sign"
      /\ step' = [step EXCEPT ![f] = "poll"]
  BY DEF Send, Left
<1>2. live' \subseteq [flow : Flows, call : S] /\ live' \subseteq Tx
  BY <1>1, LeftTyped
<1>3. step' \in [Flows -> {"idle", "sign", "poll"}]
      /\ \A g \in Flows : step'[g] # "idle" => step[g] # "idle"
  BY <1>1 DEF TxAbout, TxTypeOK
<1> QED
  BY <1>1, <1>2, <1>3 DEF TxAbout, TxTypeOK

LEMMA NetworkTyped ==
    ASSUME NEW S \in SUBSET Calls, TxAbout(S), NEW t, Include(t, TRUE) \/ Include(t, FALSE) \/ Expire(t)
    PROVE  TxAbout(S)'
<1>1. UNCHANGED <<calling, step, toast>> /\ live' \subseteq live
  BY DEF Include, Expire
<1>2. result' \in [Flows -> {"NOT_FOUND", "SUCCESS", "FAILED"}]
  BY DEF Include, Expire, TxAbout, TxTypeOK
<1> QED
  BY <1>1, <1>2 DEF TxAbout, TxTypeOK

\* An answer that comes or fails to, and a call that is refused.
LEMMA EndsLeave ==
    ASSUME NEW f, Throws(f) \/ ReturnsValue(f) \/ ReturnsBlindly(f) \/ TimesOut(f)
    PROVE  Left(f)
BY DEF Throws, RefusedOrLost, ReturnsValue, ReturnsBlindly, TimesOut, Left

\* The order form.
OrderTypeInv ==
    /\ OrderInv /\ OrderTypeOK /\ TxAbout(Calls)
    /\ nextNonce <= Cardinality(placed) + 1

LEMMA CallsOfTheForm ==
    /\ \A m \in Modes : FirstCall(m) \in Calls
    /\ \A c \in {"entry", "tp", "sl"} : NextOf(c) \in Calls
<1>1. ASSUME NEW m \in Modes PROVE FirstCall(m) \in Calls
  BY OrderFormCalls DEF Modes, FirstCall
<1>2. ASSUME NEW c \in {"entry", "tp", "sl"} PROVE NextOf(c) \in Calls
  BY NextInBracket, OrderFormCalls
<1> QED
  BY <1>1, <1>2

LEMMA FormCallsTyped ==
    ASSUME OrderTypeInv, NEW f \in Flows,
           (\E m \in Modes : Confirm(f, m)) \/ FlowStep(f)
    PROVE  TxAbout(Calls)'
<1> DEFINE phases == {"none", "pending", "success", "failed"}
<1>1. TxAbout(Calls) /\ Calls \in SUBSET Calls
  BY DEF OrderTypeInv
<1>2. ASSUME NEW c \in Calls, Invoke(f, c), Left(f), StartRun(f) \/ UNCHANGED toast
      PROVE  TxAbout(Calls)'
  BY <1>1, <1>2, InvokeTyped
<1>3. ASSUME NEW phase \in phases, Finish(f, phase), Left(f)
      PROVE  TxAbout(Calls)'
  BY <1>1, <1>3, EndRunTyped DEF Finish
<1>4. ASSUME NEW m \in Modes, Run(f, m) PROVE TxAbout(Calls)'
  <2>1. Left(f) /\ StartRun(f) /\ Invoke(f, FirstCall(m))
    BY <1>4 DEF Run, Left
  <2> QED
    BY <1>2, <2>1, CallsOfTheForm
<1>5. ASSUME NEW m \in Modes, Confirm(f, m) PROVE TxAbout(Calls)'
  BY <1>1, <1>4, <1>5, TxStays DEF Confirm
<1>6. CASE GetNonce(f)
  BY <1>4, <1>6 DEF GetNonce, Modes
<1>7. CASE SignAndSend(f)
  BY <1>1, <1>7, SendTyped DEF SignAndSend
<1>8. CASE Proceed(f)
  <2>1. Left(f)
    BY <1>8, EndsLeave DEF Proceed
  <2>2. CASE MidBracket(f)
    <3>1. Invoke(f, NextOf(calling[f])) /\ UNCHANGED toast /\ NextOf(calling[f]) \in Calls
      BY <1>8, <2>2, CallsOfTheForm DEF Proceed, MidBracket
    <3> QED
      BY <1>2, <2>1, <3>1
  <2>3. CASE ~MidBracket(f)
    BY <1>3, <1>8, <2>1, <2>3 DEF Proceed
  <2> QED
    BY <2>2, <2>3
<1>9. CASE EndWithoutValue(f)
  <2>1. Left(f) /\ \E phase \in phases : Finish(f, phase)
    BY <1>9, EndsLeave DEF EndWithoutValue
  <2> QED
    BY <1>3, <2>1
<1>10. CASE Throw(f)
  <2>1. Left(f) /\ "open" \in Calls
    BY <1>10, EndsLeave, OrderFormCalls DEF Throw
  <2> QED
    BY <1>2, <1>3, <1>10, <2>1 DEF Throw
<1> QED
  BY <1>5, <1>6, <1>7, <1>8, <1>9, <1>10 DEF FlowStep

\* What the form remembers of its submissions.
LEMMA FormTyped ==
    ASSUME IsFiniteSet(Flows), OrderTypeInv, NEW f \in Flows,
           (\E m \in Modes : Confirm(f, m)) \/ FlowStep(f)
    PROVE  /\ dialog' \in BOOLEAN /\ pending' \in BOOLEAN
           /\ mode' \in [Flows -> Modes \cup {"none"}]
           /\ nonce' \in [Flows -> 0 .. Cardinality(Flows) + 1]
           /\ UNCHANGED effectVars
<1>1. /\ dialog \in BOOLEAN /\ pending \in BOOLEAN
      /\ mode \in [Flows -> Modes \cup {"none"}]
      /\ nonce \in [Flows -> 0 .. Cardinality(Flows) + 1]
      /\ nextNonce \in 0 .. Cardinality(Flows) + 1
  BY DEF OrderTypeInv, OrderTypeOK
<1>2. Cardinality(Flows) \in Nat
  BY FS_CardinalityType
<1>3. ASSUME NEW m \in Modes, Confirm(f, m)
      PROVE  /\ dialog' = FALSE /\ pending' \in {pending, TRUE}
             /\ mode' = [mode EXCEPT ![f] = m] /\ UNCHANGED <<nonce, effectVars>>
  BY <1>3 DEF Confirm, Run, txVars
<1>4. ASSUME GetNonce(f)
      PROVE  /\ pending' = TRUE /\ UNCHANGED <<dialog, mode, effectVars>>
             /\ \E n \in {nextNonce, 0} : nonce' = [nonce EXCEPT ![f] = n]
  BY <1>4 DEF GetNonce, Run
<1>5. ASSUME SignAndSend(f) \/ Proceed(f) \/ EndWithoutValue(f) \/ Throw(f)
      PROVE  pending' \in {pending, FALSE} /\ UNCHANGED <<dialog, mode, nonce, effectVars>>
  BY <1>5 DEF SignAndSend, Proceed, EndWithoutValue, Throw, Finish, formVars
<1>6. CASE \E m \in Modes : Confirm(f, m)
  BY <1>1, <1>3, <1>6
<1>7. CASE GetNonce(f)
  BY <1>1, <1>2, <1>4, <1>7
<1>8. CASE SignAndSend(f) \/ Proceed(f) \/ EndWithoutValue(f) \/ Throw(f)
  BY <1>1, <1>5, <1>8
<1> QED
  BY <1>6, <1>7, <1>8 DEF FlowStep

\* What is on the chain.
LEMMA EffectsTyped ==
    ASSUME IsFiniteSet(Flows), OrderTypeInv, OrderInv', NEW t \in Tx, Executed(t)
    PROVE  /\ opened' \in [Flows -> 0 .. 2] /\ placed' \subseteq Flows /\ linked' \subseteq Flows
           /\ orders' \subseteq Tx
           /\ nextNonce' \in 0 .. Cardinality(Flows) + 1
           /\ nextNonce' <= Cardinality(placed)' + 1
<1>1. /\ OrderInv /\ OrderTypeOK /\ nextNonce <= Cardinality(placed) + 1
      /\ t.flow \in Flows
  BY DEF OrderTypeInv, Tx
<1>2. opened' \in [Flows -> 0 .. 2] /\ placed' \subseteq Flows /\ nextNonce' \in Nat
  <2>1. opened' \in [Flows -> Nat] /\ \A f \in Flows : opened'[f] <= 1
    BY DEF OrderInv, OrderTyped, FlowInv, Opening
  <2>2. placed' \subseteq Flows /\ nextNonce' \in Nat
    BY DEF OrderInv, OrderTyped
  <2> QED
    BY <2>1, <2>2
<1>3. linked' \subseteq Flows /\ orders' \subseteq Tx
  BY <1>1 DEF Executed, OrderTypeOK
<1>4. IsFiniteSet(placed) /\ Cardinality(placed) \in Nat /\ Cardinality(Flows) \in Nat
  BY <1>1, FS_Subset, FS_CardinalityType DEF OrderTypeOK
<1>5. nextNonce' <= Cardinality(placed') + 1
  <2>1. CASE t.call = "place"
    <3>1. nonce[t.flow] = nextNonce /\ placed' = placed \cup {t.flow}
          /\ nextNonce' = nextNonce + 1 /\ nextNonce \in Nat
      BY <1>1, <2>1, ExecutedEffects DEF Legal, OrderInv, OrderTyped
    <3>2. t.flow \notin placed
      BY <1>1, <3>1 DEF OrderInv, Nonces
    <3>3. Cardinality(placed') = Cardinality(placed) + 1
      BY <1>4, <3>1, <3>2, FS_AddElement
    <3> QED
      BY <1>1, <1>4, <3>1, <3>3
  <2>2. CASE t.call # "place"
    BY <1>1, <2>2, ExecutedEffects
  <2> QED
    BY <2>1, <2>2
<1>6. Cardinality(placed') <= Cardinality(Flows) /\ Cardinality(placed') \in Nat
  BY <1>2, FS_Subset, FS_CardinalityType
<1> QED
  BY <1>2, <1>3, <1>4, <1>5, <1>6

\* For every finite number of submissions the variables of the order form have
\* their types: no submission makes a call the form does not know, nor are there
\* more nonces than submissions.
THEOREM OrderTypeCorrect ==
    ASSUME IsFiniteSet(Flows)
    PROVE  OrderSpec => []OrderTypeOK
<1>1. OrderInit => OrderTypeInv
  <2> SUFFICES ASSUME OrderInit PROVE OrderTypeInv
    OBVIOUS
  <2>1. TxAbout(Calls) /\ OrderInv
    BY OrderInitially, TxInitTyped DEF OrderInit
  <2>2. Cardinality(Flows) \in Nat /\ Cardinality(placed) = 0
    BY FS_CardinalityType, FS_EmptySet DEF OrderInit
  <2>3. OrderTypeOK
    <3>1. /\ TxTypeOK /\ dialog \in BOOLEAN /\ pending \in BOOLEAN
          /\ mode \in [Flows -> Modes \cup {"none"}]
          /\ added \subseteq Flows /\ placed \subseteq Flows /\ linked \subseteq Flows
          /\ orders \subseteq Tx
          /\ stage \in [Flows -> {"new", "nonce", "run", "over"}]
      BY <2>1 DEF OrderInit, TxAbout
    <3>2. /\ nonce \in [Flows -> 0 .. Cardinality(Flows) + 1]
          /\ opened \in [Flows -> 0 .. 2]
          /\ nextNonce \in 0 .. Cardinality(Flows) + 1
      BY <2>2 DEF OrderInit
    <3> QED
      BY <3>1, <3>2 DEF OrderTypeOK
  <2>4. nextNonce <= Cardinality(placed) + 1
    BY <2>2 DEF OrderInit
  <2> QED
    BY <2>1, <2>3, <2>4 DEF OrderTypeInv
<1>2. OrderTypeInv /\ [OrderNext]_orderVars => OrderTypeInv'
  <2> SUFFICES ASSUME OrderTypeInv, [OrderNext]_orderVars PROVE OrderTypeInv'
    OBVIOUS
  <2>1. OrderInv' /\ OrderTypeOK /\ TxAbout(Calls) /\ nextNonce <= Cardinality(placed) + 1
    BY OrderInvariance DEF OrderTypeInv
  <2>2. /\ stage' \in [Flows -> {"new", "nonce", "run", "over"}] /\ added' \subseteq Flows
    BY <2>1 DEF OrderInv, OrderTyped
  <2>3. ASSUME NEW f \in Flows, (\E m \in Modes : Confirm(f, m)) \/ FlowStep(f)
        PROVE  OrderTypeInv'
    <3>1. TxAbout(Calls)' /\ TxTypeOK'
      BY <2>3, FormCallsTyped DEF TxAbout
    <3>2. /\ dialog' \in BOOLEAN /\ pending' \in BOOLEAN
          /\ mode' \in [Flows -> Modes \cup {"none"}]
          /\ nonce' \in [Flows -> 0 .. Cardinality(Flows) + 1]
          /\ UNCHANGED <<opened, placed, nextNonce, orders, linked>>
      BY <2>3, FormTyped DEF effectVars
    <3>3. OrderTypeOK'
      BY <2>1, <2>2, <3>1, <3>2 DEF OrderTypeOK
    <3> QED
      BY <2>1, <3>1, <3>2, <3>3 DEF OrderTypeInv
  <2>4. ASSUME NEW t \in Tx, Executed(t) \/ NotExecuted(t)
        PROVE  OrderTypeInv'
    <3>1. TxAbout(Calls)' /\ TxTypeOK'
      BY <2>1, <2>4, NetworkTyped DEF Executed, NotExecuted, TxAbout
    <3>2. UNCHANGED <<dialog, pending, mode, nonce>>
      BY <2>4 DEF Executed, NotExecuted, formVars
    <3>3. /\ opened' \in [Flows -> 0 .. 2] /\ placed' \subseteq Flows /\ linked' \subseteq Flows
          /\ orders' \subseteq Tx /\ nextNonce' \in 0 .. Cardinality(Flows) + 1
          /\ nextNonce' <= Cardinality(placed)' + 1
      <4>1. CASE Executed(t)
        BY <2>1, <4>1, EffectsTyped
      <4>2. CASE NotExecuted(t)
        BY <2>1, <4>2 DEF NotExecuted, effectVars, OrderTypeOK
      <4> QED
        BY <2>4, <4>1, <4>2
    <3>4. OrderTypeOK'
      BY <2>1, <2>2, <3>1, <3>2, <3>3 DEF OrderTypeOK
    <3> QED
      BY <2>1, <3>1, <3>3, <3>4 DEF OrderTypeInv
  <2>5. CASE ShowConfirm \/ CancelDialog \/ UNCHANGED orderVars
    <3>1. /\ UNCHANGED <<txVars, pending, mode, stage, nonce, added, effectVars>>
          /\ dialog' \in {dialog, TRUE, FALSE}
      BY <2>5 DEF ShowConfirm, CancelDialog, orderVars, formVars
    <3>2. TxAbout(Calls)' /\ TxTypeOK'
      BY <2>1, <3>1, TxStays DEF TxAbout
    <3>3. OrderTypeOK' /\ UNCHANGED <<nextNonce, placed>>
      BY <2>1, <3>1, <3>2 DEF OrderTypeOK, effectVars
    <3> QED
      BY <2>1, <3>2, <3>3 DEF OrderTypeInv
  <2> QED
    BY <2>3, <2>4, <2>5 DEF OrderNext
<1>3. OrderTypeInv => OrderTypeOK
  BY DEF OrderTypeInv
<1> QED
  BY <1>1, <1>2, <1>3, PTL DEF OrderSpec

\* The other forms.
ConsoleTypeInv ==
    /\ ConsoleTypeOK /\ TxAbout(Calls)
    /\ facts.zero \in {"none", "before", "after", "wrong"}

LEMMA MovesTyped ==
    ASSUME asked \in Nat, quoted \in Nat \ {0}, NEW nav \in Nat \ {0}
    PROVE  Moves(asked, nav) \in Nat
<1>1. Unit \in Nat \ {0} /\ Grain \in Nat \ {0} /\ One \in Nat \ {0}
  BY ConsoleNumbers
<1>2. Parsed(asked) \in Nat
  <2>1. Kept \in Nat \ {0}
    BY <1>1 DEF Kept
  <2> QED
    BY <2>1, RoundedByHalf DEF Parsed
<1>3. Sent(asked) \in Nat
  <2>1. Parsed(asked) \div Unit \in Nat
    BY <1>1, <1>2, DivNat
  <2>2. (Parsed(asked) * One) \div quoted \in Nat
    BY <1>1, <1>2, TimesNat, DivNat
  <2> QED
    BY <1>2, <2>1, <2>2 DEF Sent
<1>4. PICK n \in Nat : n = Sent(asked)
  BY <1>3
<1>5. n * Unit \in Nat /\ n * nav \in Nat
  BY <1>1, TimesNat
<1>6. PICK v \in Nat : v = (n * nav) \div One
  BY <1>1, <1>5, DivNat
<1>7. (v \div Unit) * Unit \in Nat
  <2>1. v \div Unit \in Nat
    BY <1>1, DivNat
  <2> QED
    BY <1>1, <2>1, TimesNat
<1> QED
  BY <1>4, <1>5, <1>6, <1>7 DEF Moves

\* For every set of forms the variables have their types.
THEOREM ConsoleTypeCorrect == ConsoleSpec => []ConsoleTypeOK
<1>1. ConsoleInit => ConsoleTypeInv
  <2> SUFFICES ASSUME ConsoleInit PROVE ConsoleTypeInv
    OBVIOUS
  <2>1. TxAbout(Calls)
    BY TxInitTyped DEF ConsoleInit
  <2>2. facts.zero \in {"none", "before", "after", "wrong"}
    BY DEF ConsoleInit, Facts, InsteadOfFailing
  <2> QED
    BY <2>1, <2>2, ConsoleConstants DEF ConsoleInit, ConsoleTypeInv, ConsoleTypeOK, TxAbout
<1>2. ConsoleTypeInv /\ [ConsoleNext]_consoleVars => ConsoleTypeInv'
  <2> SUFFICES ASSUME ConsoleTypeInv, [ConsoleNext]_consoleVars PROVE ConsoleTypeInv'
    OBVIOUS
  <2> DEFINE Values == /\ {ledger, replica} \cup late \subseteq {"before", "after"}
                       /\ shown \in {"none", "before", "after", "wrong"}
                       /\ fetch \in {"none", "asked", "before", "after"}
                       /\ awaited \in {"no", "yes", "over"} /\ sweeps \in 0 .. Sweeps
             Zeros == facts.zero \in {"none", "before", "after", "wrong"}
             Amounts == asked \in 0 .. MaxAsked /\ moved \in Nat /\ {quoted, paid} \subseteq Navs
  <2>0. TxAbout(Calls) /\ Values /\ Zeros /\ Amounts /\ Op \in Flows /\ TheCall \in Calls
    BY OpIsAFlow DEF ConsoleTypeInv, ConsoleTypeOK
  <2>1. TxAbout(Calls)'
    <3>1. CASE Submit
      BY <2>0, <3>1, InvokeTyped DEF Submit, Left
    <3>2. CASE FormSends
      BY <2>0, <3>2, SendTyped DEF FormSends
    <3>3. CASE RunSucceeds \/ RunTimesOut \/ RunFails
      BY <2>0, <3>3, EndsLeave, EndRunTyped DEF RunSucceeds, RunTimesOut, RunFails
    <3>4. ASSUME NEW t \in Tx, FormExecuted(t) \/ FormNotExecuted(t) PROVE TxAbout(Calls)'
      BY <2>0, <3>4, NetworkTyped DEF FormExecuted, FormNotExecuted
    <3>5. CASE UNCHANGED txVars
      BY <2>0, <3>5, TxStays
    <3>6. ASSUME NEW v, LateAnswer(v) PROVE UNCHANGED txVars
      BY <3>6 DEF LateAnswer
    <3>7. RunReturns \/ Sweep \/ Poll \/ Read \/ Answer \/ FetchFails \/ Replicate
            \/ UNCHANGED consoleVars => UNCHANGED txVars
      BY DEF RunReturns, Sweep, Poll, Read, Answer, FetchFails, Replicate, consoleVars
    <3> QED
      BY <3>1, <3>2, <3>3, <3>4, <3>5, <3>6, <3>7 DEF ConsoleNext, RunStep
  <2>2. Amounts'
    <3>0. MaxAsked \in Nat /\ Navs \subseteq Nat \ {0}
      BY ConsoleConstants
    <3>1. CASE Submit
      <4>1. asked' \in 0 .. MaxAsked
        BY <3>0, <3>1 DEF Submit
      <4>2. quoted' \in Navs
        BY <2>0, <3>1 DEF Submit
      <4> QED
        BY <2>0, <3>1, <4>1, <4>2 DEF Submit
    <3>2. ASSUME NEW t \in Tx, FormExecuted(t) PROVE Amounts'
      <4>1. paid' \in Navs /\ moved' = Moves(asked, paid') /\ UNCHANGED <<asked, quoted>>
        BY <2>0, <3>2 DEF FormExecuted
      <4>2. moved' \in Nat
        <5>1. PICK nav \in Nat \ {0} : nav = paid'
          BY <3>0, <4>1
        <5>2. asked \in 0 .. MaxAsked /\ quoted \in Navs
          BY <2>0
        <5>3. asked \in Nat
          BY <3>0, <5>2
        <5>4. quoted \in Nat \ {0}
          BY <3>0, <5>2
        <5> QED
          BY <4>1, <5>1, <5>3, <5>4, MovesTyped
      <4> QED
        BY <2>0, <4>1, <4>2
    <3>3. ASSUME NEW t \in Tx, FormNotExecuted(t) PROVE UNCHANGED amountVars
      BY <3>3 DEF FormNotExecuted
    <3>4. ASSUME NEW v, LateAnswer(v) PROVE UNCHANGED amountVars
      BY <3>4 DEF LateAnswer
    <3>5. RunStep \/ Sweep \/ Poll \/ Read \/ Answer \/ FetchFails \/ Replicate
            \/ UNCHANGED consoleVars => UNCHANGED amountVars
      BY DEF RunStep, FormSends, RunSucceeds, RunReturns, RunTimesOut, RunFails, Sweep,
             Poll, Read, Answer, FetchFails, Replicate, consoleVars
    <3>6. UNCHANGED amountVars => Amounts'
      BY <2>0 DEF amountVars
    <3> QED
      BY <3>1, <3>2, <3>3, <3>4, <3>5, <3>6 DEF ConsoleNext
  <2>3. Values'
    <3>0. Sweeps \in 0 .. Sweeps /\ 0 \in 0 .. Sweeps
      BY ConsoleConstants
    <3>1. ASSUME Refetch
          PROVE  /\ fetch' \in {"none", "asked", "before", "after"}
                 /\ late' \subseteq {"before", "after"}
      BY <2>0, <3>1 DEF Refetch
    <3>2. CASE Submit \/ FormSends \/ RunFails \/ UNCHANGED consoleVars
      BY <2>0, <3>2 DEF Submit, FormSends, RunFails, consoleVars, cacheVars
    <3>3. CASE RunSucceeds
      BY <2>0, <3>1, <3>3 DEF RunSucceeds
    <3>4. CASE RunReturns \/ RunTimesOut
      BY <2>0, <3>0, <3>4 DEF RunReturns, RunTimesOut
    <3>5. CASE Sweep
      <4>1. sweeps' \in 0 .. Sweeps
        BY <2>0, <3>5, ConsoleConstants DEF Sweep
      <4> QED
        BY <2>0, <3>1, <3>5, <4>1 DEF Sweep
    <3>6. CASE Poll \/ Read \/ Answer \/ FetchFails
      BY <2>0, <3>6 DEF Poll, Read, Answer, FetchFails, Settle
    <3>7. ASSUME NEW v, LateAnswer(v) PROVE Values'
      BY <2>0, <3>7 DEF LateAnswer
    <3>8. ASSUME NEW t \in Tx, FormExecuted(t) \/ FormNotExecuted(t) PROVE Values'
      BY <2>0, <3>8 DEF FormExecuted, FormNotExecuted, cacheVars
    <3>9. CASE Replicate
      BY <2>0, <3>9 DEF Replicate, cacheVars
    <3> QED
      BY <3>2, <3>3, <3>4, <3>5, <3>6, <3>7, <3>8, <3>9 DEF ConsoleNext, RunStep
  <2>4. UNCHANGED facts
    BY DEF ConsoleNext, RunStep, Submit, FormSends, RunSucceeds, RunReturns, RunTimesOut,
           RunFails, Sweep, Poll, Read, Answer, FetchFails, LateAnswer, FormExecuted,
           FormNotExecuted, Replicate, consoleVars
  <2> QED
    BY <2>0, <2>1, <2>2, <2>3, <2>4 DEF ConsoleTypeInv, ConsoleTypeOK, TxAbout
<1>3. ConsoleTypeInv => ConsoleTypeOK
  BY DEF ConsoleTypeInv
<1> QED
  BY <1>1, <1>2, <1>3, PTL DEF ConsoleSpec

\* The deployer.
Places == {"off", "deploy", "save", "init", "wire", "mark", "finish", "done"}

DeployTypeInv == CheckpointInv /\ at \in Places /\ crashes \in 0 .. MaxCrashes

LEMMA GoOnTyped == ASSUME GoOn PROVE at' \in Places
BY DEF GoOn, Places

\* Wherever the script stops, its record and the network speak of the ten
\* contracts, and there are no more stops than allowed.
THEOREM DeployTypeCorrect == DeploySpec => []DeployTypeOK
<1>1. DeployInit => DeployTypeInv
  BY CheckpointInitially, DeployConstants DEF DeployInit, DeployTypeInv, Places
<1>2. DeployTypeInv /\ [DeployNext]_deployVars => DeployTypeInv'
  <2> SUFFICES ASSUME DeployTypeInv, [DeployNext]_deployVars PROVE DeployTypeInv'
    OBVIOUS
  <2>1. CheckpointInv' /\ at \in Places /\ crashes \in 0 .. MaxCrashes
    BY CheckpointInvariance DEF DeployTypeInv
  <2>2. at' \in Places /\ crashes' \in 0 .. MaxCrashes
    <3>1. CASE Cached \/ Save \/ Initialise
      BY <2>1, <3>1, GoOnTyped DEF Cached, Save, Initialise, Places
    <3>2. CASE Start \/ DeployContract \/ Wire \/ Refused \/ Mark \/ WriteFiles
      BY <2>1, <3>2 DEF Start, DeployContract, Wire, Refused, Mark, WriteFiles, Places
    <3>3. CASE Crash
      BY <2>1, <3>3, DeployConstants DEF Crash, Places
    <3>4. CASE UNCHANGED deployVars
      BY <2>1, <3>4 DEF deployVars
    <3> QED
      BY <3>1, <3>2, <3>3, <3>4 DEF DeployNext, ScriptStep
  <2> QED
    BY <2>1, <2>2 DEF DeployTypeInv
<1>3. DeployTypeInv => DeployTypeOK
  BY DEF DeployTypeInv, DeployTypeOK, CheckpointInv, Network, Holds, Checkpoint, Places
<1> QED
  BY <1>1, <1>2, <1>3, PTL DEF DeploySpec

\* The view of the positions.
PositionsTypeInv == RecordsInv /\ PositionsTypeOK /\ TxAbout(Positions)

LEMMA PositionsAreCalled == Positions \in SUBSET Calls /\ Tabs \subseteq Flows
BY PositionsConstants

\* The log grows by an event.
LEMMA PublishTyped ==
    ASSUME PositionsTypeInv, NEW e, Publish(e)
    PROVE  /\ Len(log') <= MaxLedgers /\ indexed \in 0 .. Len(log')
<1>1. log \in Seq(LogRow) /\ Len(log) <= MaxLedgers /\ indexed \in 0 .. Len(log)
  BY DEF PositionsTypeInv, PositionsTypeOK, RecordsInv, PositionsTyped
<1>2. Len(log) \in Nat /\ DOMAIN log = 1 .. Len(log)
  BY <1>1, LenProperties
<1>3. /\ Len(log') = Len(log) + 1 /\ DOMAIN log' = 1 .. Len(log')
  BY <1>1, <1>2 DEF Publish
<1> QED
  BY <1>1, <1>2, <1>3, PositionsConstants DEF Publish

\* What a tab shows and waits for.
TabTyped ==
    /\ remembered \subseteq Positions
    /\ account \in [Tabs -> Accounts \cup {NoAccount}]
    /\ rows \in [Tabs -> {Offline} \cup SUBSET Positions]
    /\ answers \in [Tabs -> SUBSET RowsAnswer]
    /\ parsing \in [Tabs -> SUBSET Positions]
    /\ processed \in [Tabs -> SUBSET Nat]

\* A step of the chain, the index or the network.
LEMMA WorldTyped ==
    ASSUME PositionsTypeInv, RecordsInv', UNCHANGED tabVars,
           UNCHANGED txVars \/ \E x \in Tx : Include(x, TRUE) \/ Include(x, FALSE) \/ Expire(x),
           held' \in [Positions -> {"none", "open", "closed"}],
           \/ UNCHANGED <<log, indexed>>
           \/ UNCHANGED indexed /\ \E e : Publish(e)
           \/ UNCHANGED log /\ indexed' \in 0 .. Len(log)
    PROVE  PositionsTypeInv'
<1>1. TxAbout(Positions)' /\ TxTypeOK'
  BY PositionsAreCalled, TxStays, NetworkTyped DEF PositionsTypeInv, TxAbout
<1>2. Len(log') <= MaxLedgers /\ indexed' \in 0 .. Len(log')
  BY PublishTyped DEF PositionsTypeInv, PositionsTypeOK
<1>3. session' \in [Tabs -> Store] /\ storage' \in Store
  BY DEF RecordsInv, PositionsTyped
<1>4. TabTyped'
  BY DEF PositionsTypeInv, PositionsTypeOK, TabTyped, tabVars
<1> QED
  BY <1>1, <1>2, <1>3, <1>4 DEF PositionsTypeInv, PositionsTypeOK, TabTyped

\* A step of a tab.
LEMMA TabStepTyped ==
    ASSUME PositionsTypeInv, RecordsInv', TabTyped', UNCHANGED <<eventVars, indexed>>,
           TxAbout(Positions)'
    PROVE  PositionsTypeInv'
<1>1. TxTypeOK' /\ UNCHANGED <<log, held, indexed>>
  BY DEF TxAbout, eventVars
<1>2. session' \in [Tabs -> Store] /\ storage' \in Store
  BY DEF RecordsInv, PositionsTyped
<1> QED
  BY <1>1, <1>2 DEF PositionsTypeInv, PositionsTypeOK, TabTyped

LEMMA TabKeepsTypes ==
    ASSUME PositionsTypeInv, RecordsInv', NEW t \in Tabs, TabStep(t)
    PROVE  PositionsTypeInv'
<1>0. /\ TabTyped /\ TxAbout(Positions) /\ log \in Seq(LogRow)
      /\ t \in Flows /\ Positions \in SUBSET Calls
  BY PositionsAreCalled DEF PositionsTypeInv, PositionsTypeOK, TabTyped, RecordsInv, PositionsTyped
<1>1. ASSUME NEW p \in Positions, AddPosition(t, p) PROVE PositionsTypeInv'
  <2>1. TabTyped' /\ UNCHANGED <<eventVars, indexed, txVars>>
    BY <1>0, <1>1 DEF AddPosition, TabTyped
  <2> QED
    BY <1>0, <2>1, TxStays, TabStepTyped
<1>2. ASSUME NEW p \in Positions, StartClose(t, p) PROVE PositionsTypeInv'
  <2>1. TabTyped' /\ UNCHANGED <<eventVars, indexed>>
    BY <1>0, <1>2 DEF StartClose, TabTyped, tabVars
  <2>2. TxAbout(Positions)'
    BY <1>0, <1>2, InvokeTyped DEF StartClose, Left
  <2> QED
    BY <1>0, <2>1, <2>2, TabStepTyped
<1>3. ASSUME NEW p \in Positions, CloseParsed(t, p) PROVE PositionsTypeInv'
  <2>1. TabTyped' /\ UNCHANGED <<eventVars, indexed, txVars>>
    BY <1>0, <1>3 DEF CloseParsed, TabTyped
  <2> QED
    BY <1>0, <2>1, TxStays, TabStepTyped
<1>4. ASSUME NEW g \in BOOLEAN, Fetch(t, g) PROVE PositionsTypeInv'
  <2>1. [rows |-> ListOpenPositions(account[t]), guarded |-> g] \in RowsAnswer
    BY DEF RowsAnswer, ListOpenPositions
  <2>2. TabTyped' /\ UNCHANGED <<eventVars, indexed, txVars>>
    BY <1>0, <1>4, <2>1 DEF Fetch, TabTyped
  <2> QED
    BY <1>0, <2>2, TxStays, TabStepTyped
<1>5. ASSUME NEW a \in answers[t], Deliver(t, a) PROVE PositionsTypeInv'
  <2>1. a.rows \in SUBSET Positions
    BY <1>0 DEF TabTyped, RowsAnswer
  <2>2. TabTyped' /\ UNCHANGED <<eventVars, indexed, txVars>>
    BY <1>0, <1>5, <2>1 DEF Deliver, TabTyped
  <2> QED
    BY <1>0, <2>2, TxStays, TabStepTyped
<1>6. ASSUME NEW a \in Accounts \cup {NoAccount}, SwitchAccount(t, a) PROVE PositionsTypeInv'
  <2>1. TabTyped' /\ UNCHANGED <<eventVars, indexed, txVars>>
    BY <1>0, <1>6 DEF SwitchAccount, TabTyped
  <2> QED
    BY <1>0, <2>1, TxStays, TabStepTyped
<1>7. CASE RowsFail(t)
  <2>1. TabTyped' /\ UNCHANGED <<eventVars, indexed, txVars>>
    BY <1>0, <1>7 DEF RowsFail, TabTyped
  <2> QED
    BY <1>0, <2>1, TxStays, TabStepTyped
<1>8. CASE SendClose(t)
  <2>1. TabTyped' /\ UNCHANGED <<eventVars, indexed>>
    BY <1>0, <1>8 DEF SendClose, TabTyped, tabVars
  <2>2. TxAbout(Positions)'
    BY <1>0, <1>8, SendTyped DEF SendClose
  <2> QED
    BY <1>0, <2>1, <2>2, TabStepTyped
<1>9. CASE CloseReturns(t)
  <2>1. step[t] = "poll"
    BY <1>9 DEF CloseReturns, ReturnsValue, ReturnsBlindly
  <2>2. calling[t] \in Positions
    BY <1>0, <2>1 DEF TxAbout
  <2>3. TabTyped' /\ UNCHANGED <<eventVars, indexed>>
    BY <1>0, <1>9, <2>2 DEF CloseReturns, TabTyped
  <2>4. TxAbout(Positions)'
    BY <1>0, <1>9, EndsLeave, EndRunTyped DEF CloseReturns
  <2> QED
    BY <1>0, <2>3, <2>4, TabStepTyped
<1>10. CASE CloseEnds(t)
  <2>1. TabTyped' /\ UNCHANGED <<eventVars, indexed>>
    BY <1>0, <1>10 DEF CloseEnds, TabTyped, tabVars
  <2>2. TxAbout(Positions)'
    BY <1>0, <1>10, EndsLeave, EndRunTyped DEF CloseEnds
  <2> QED
    BY <1>0, <2>1, <2>2, TabStepTyped
<1>11. CASE NoticeLiquidations(t)
  <2>1. News(t) \subseteq DOMAIN log
    BY DEF News, Unhandled, Recent
  <2>2. PICK txs : txs = {log[l].tx : l \in News(t)}
    OBVIOUS
  <2>3. txs \in SUBSET Nat
    <3>1. \A l \in DOMAIN log : log[l] \in LogRow
      BY <1>0, ElementOfSeq, LenProperties
    <3> QED
      BY <2>1, <2>2, <3>1 DEF LogRow
  <2>4. /\ processed' = [processed EXCEPT ![t] = processed[t] \cup txs]
        /\ UNCHANGED <<eventVars, indexed, txVars, remembered, account, rows, answers,
                       parsing>>
    BY <1>11, <2>2 DEF NoticeLiquidations
  <2>5. TabTyped'
    BY <1>0, <2>3, <2>4 DEF TabTyped
  <2> QED
    BY <1>0, <2>4, <2>5, TxStays, TabStepTyped
<1>12. CASE Reload(t)
  <2>1. TabTyped' /\ UNCHANGED <<eventVars, indexed>>
    BY <1>0, <1>12 DEF Reload, TabTyped
  <2>2. TxAbout(Positions)'
    BY <1>0, <1>12, EndRunTyped DEF Reload, Left
  <2> QED
    BY <1>0, <2>1, <2>2, TabStepTyped
<1>13. CASE ChooseTable(t)
  <2>1. TabTyped' /\ UNCHANGED <<eventVars, indexed, txVars>>
    BY <1>0, <1>13 DEF ChooseTable, TabTyped
  <2> QED
    BY <1>0, <2>1, TxStays, TabStepTyped
<1> QED
  BY <1>1, <1>2, <1>3, <1>4, <1>5, <1>6, <1>7, <1>8, <1>9, <1>10, <1>11, <1>12, <1>13
  DEF TabStep

\* A tab only closes, parses and shows positions that exist, after any reloads,
\* changes of account and answers.
THEOREM PositionsTypeCorrect == PositionsSpec => []PositionsTypeOK
<1>1. PositionsInit => PositionsTypeInv
  <2> SUFFICES ASSUME PositionsInit PROVE PositionsTypeInv
    OBVIOUS
  <2>1. RecordsInv /\ TxAbout(Positions) /\ TxTypeOK
    BY RecordsInitially, TxInitTyped, PositionsAreCalled DEF PositionsInit, TxAbout
  <2>2. Len(log) <= MaxLedgers /\ indexed \in 0 .. Len(log)
    BY PositionsConstants DEF PositionsInit
  <2>3. session \in [Tabs -> Store] /\ storage \in Store
    BY <2>1 DEF RecordsInv, PositionsTyped
  <2> QED
    BY <2>1, <2>2, <2>3 DEF PositionsInit, PositionsTypeInv, PositionsTypeOK
<1>2. PositionsTypeInv /\ [PositionsNext]_positionsVars => PositionsTypeInv'
  <2> SUFFICES ASSUME PositionsTypeInv, [PositionsNext]_positionsVars PROVE PositionsTypeInv'
    OBVIOUS
  <2>1. /\ RecordsInv' /\ held \in [Positions -> {"none", "open", "closed"}]
        /\ indexed \in 0 .. Len(log) /\ log \in Seq(LogRow)
    BY RecordsInvariance DEF PositionsTypeInv, PositionsTypeOK, RecordsInv, PositionsTyped
  <2>2. ASSUME NEW p \in Positions, NEW k \in Openings, OpenPosition(p, k)
        PROVE  PositionsTypeInv'
    <3>1. held' \in [Positions -> {"none", "open", "closed"}]
      BY <2>1, <2>2 DEF OpenPosition
    <3> QED
      BY <2>1, <2>2, <3>1, WorldTyped DEF OpenPosition
  <2>3. ASSUME NEW p \in Positions, NEW all \in BOOLEAN, Liquidate(p, all) PROVE PositionsTypeInv'
    <3>1. held' \in [Positions -> {"none", "open", "closed"}]
      BY <2>1, <2>3 DEF Liquidate
    <3> QED
      BY <2>1, <2>3, <3>1, WorldTyped DEF Liquidate
  <2>4. ASSUME NEW x \in Tx, NEW n \in Pnls, ClosePosition(x, n) PROVE PositionsTypeInv'
    <3>1. held' \in [Positions -> {"none", "open", "closed"}]
      BY <2>1, <2>4 DEF ClosePosition
    <3> QED
      BY <2>1, <2>4, <3>1, WorldTyped DEF ClosePosition
  <2>5. ASSUME NEW x \in Tx, CloseFails(x) PROVE PositionsTypeInv'
    <3>1. UNCHANGED <<log, held>>
      BY <2>5 DEF CloseFails, eventVars
    <3> QED
      BY <2>1, <2>5, <3>1, WorldTyped DEF CloseFails
  <2>6. CASE IndexNext
    <3>1. UNCHANGED <<log, held, txVars, tabVars>>
      BY <2>6 DEF IndexNext, eventVars
    <3>2. indexed' \in 0 .. Len(log)
      BY <2>1, <2>6, LenProperties DEF IndexNext
    <3> QED
      BY <2>1, <3>1, <3>2, WorldTyped
  <2>7. ASSUME NEW t \in Tabs, TabStep(t) PROVE PositionsTypeInv'
    BY <2>1, <2>7, TabKeepsTypes
  <2>8. CASE UNCHANGED positionsVars
    BY <2>1, <2>8, WorldTyped DEF positionsVars, eventVars
  <2> QED
    BY <2>2, <2>3, <2>4, <2>5, <2>6, <2>7, <2>8 DEF PositionsNext, Openings
<1>3. PositionsTypeInv => PositionsTypeOK
  BY DEF PositionsTypeInv
<1> QED
  BY <1>1, <1>2, <1>3, PTL DEF PositionsSpec
=============================================================================
