--------------------------- MODULE Matching_proofs --------------------------
(***************************************************************************)
(* The index never loses an event and shows the book of the contract, and  *)
(* no pair of orders is settled twice: for any orders, page and look-back  *)
(* sizes, retention, number of cut-short ticks and runs of the matcher.    *)
(***************************************************************************)
EXTENDS Matching, Arithmetic, TLAPS

Event ==
    [tag : {"ordplace"}, order : Orders, size : Nat]
      \cup [tag : {"ordcancel"}, order : Orders]
      \cup [tag : {"settled"}, buy : Orders, sell : Orders, size : Nat]

Table == [Orders -> OrderRow]

\* What the steps of the indexer and of the chain rely on.
Types ==
    /\ log \in Seq(Event) /\ Len(log) <= MaxLedgers
    /\ clob \in Table /\ orders \in Table
    /\ applied \in [Ledgers -> Nat] /\ faults \in Nat
    /\ sent \subseteq Pair

\* A settlement leaves one of its orders filled, and a filled order stays so.
SettlementsFill ==
    \A l \in DOMAIN log :
        log[l].tag = "settled" =>
            clob[log[l].buy].status = "filled" \/ clob[log[l].sell].status = "filled"

\* Where the watcher stands: behind the first ledger are those that were applied
\* or given up, also within a tick.
Standing ==
    /\ cursor \in 0 .. Len(log) + 1 /\ scan \in 0 .. Len(log) + 1
    /\ scan # 0 =>
         /\ cursor <= scan
         /\ lastSeen = scan \/ (lastSeen = scan - 1 /\ lastSeen <= Len(log))
         /\ \A l \in 1 .. scan - 1 : applied[l] > 0 \/ l \in skipped
    /\ NothingSkipped

\* The ledger up to which the table is known.
Point ==
    IF scan # 0 THEN scan - 1 ELSE IF cursor = 0 THEN 0 ELSE cursor - 1

\* Row a is row b, or b after events that were applied once more.
Below(a, b) ==
    /\ a.status # "none" /\ a.left <= b.left
    /\ a.status = "open" => b.status = "open"

\* h tells the contract's orders after each ledger.
Tells(h) ==
    /\ \A l \in 0 .. Len(log) : h[l] \in Table
    /\ h[0] = [o \in Orders |-> NoRow] /\ h[Len(log)] = clob
    /\ \A l \in 1 .. Len(log) : h[l] = AfterOrders(h[l - 1], log[l])
    /\ \A m, n \in 0 .. Len(log) : \A o \in Orders :
          m <= n /\ h[m][o].status # "none" => Below(h[n][o], h[m][o])
    /\ \A o \in Orders : clob[o].status = "none" => clob[o] = NoRow

\* The table stands for that of the contract after ledger n: orders placed by
\* then may show less than the contract has, orders never placed do not show.
Stands(rows, h, n) ==
    \A o \in Orders :
        /\ h[n][o].status # "none" => Below(rows[o], h[n][o])
        /\ clob[o].status = "none" => rows[o] = NoRow

\* While nothing was given up the table stands for the contract's where the
\* watcher stands, and is the contract's while no tick was cut short.
Following ==
    \E h : /\ Tells(h)
           /\ skipped = {} =>
                /\ Stands(orders, h, Point)
                /\ faults = 0 => orders = h[Point]

IInv == Types /\ SettlementsFill /\ Standing /\ Following

-----------------------------------------------------------------------------
(* Lists of ledgers *)

\* What holds of the first number of a range and passes on to the next holds of
\* the last.
LEMMA Onward ==
    ASSUME NEW a \in Nat, NEW b \in Nat, a <= b, NEW S, a \in S,
           \A l \in a .. b - 1 : l \in S => l + 1 \in S
    PROVE  b \in S
<1> DEFINE N == {n \in Nat : a + n <= b => a + n \in S}
<1>1. 0 \in N
  OBVIOUS
<1>2. ASSUME NEW n \in N PROVE n + 1 \in N
  <2>1. CASE a + (n + 1) <= b
    <3>1. a + n \in S /\ a + n \in a .. b - 1
      BY <1>2, <2>1
    <3>2. (a + n) + 1 \in S
      BY <3>1
    <3>3. (a + n) + 1 = a + (n + 1)
      OBVIOUS
    <3> QED
      BY <3>2, <3>3
  <2> QED
    BY <2>1
<1> HIDE DEF N
<1>3. N \in SUBSET Nat
  BY DEF N
<1>4. N = Nat
  BY <1>1, <1>2, <1>3, AllNumbers
<1>5. b - a \in N
  BY <1>4
<1> QED
  BY <1>5 DEF N

\* The recursion of OrdersAfter.
Unfolds(f, first, last) ==
    f = [l \in first - 1 .. last |->
           IF l = first - 1 THEN orders ELSE AfterOrders(f[l - 1], log[l])]

LEMMA ReplayDefined ==
    ASSUME NEW first \in Nat, NEW last \in Nat, first - 1 <= last, 0 < first
    PROVE  \E f : Unfolds(f, first, last) /\ OrdersAfter(first, last) = f[last]
<1> DEFINE S == {n \in Nat : \E f : Unfolds(f, first, n)}
<1>1. first - 1 \in S
  <2>1. Unfolds([l \in first - 1 .. first - 1 |-> orders], first, first - 1)
    BY DEF Unfolds
  <2> QED
    BY <2>1
<1>2. ASSUME NEW n \in first - 1 .. last - 1, n \in S PROVE n + 1 \in S
  <2>1. PICK f : Unfolds(f, first, n)
    BY <1>2
  <2> DEFINE g == [l \in first - 1 .. n + 1 |->
                     IF l = n + 1 THEN AfterOrders(f[n], log[n + 1]) ELSE f[l]]
  <2>2. ASSUME NEW l \in first - 1 .. n + 1
        PROVE  g[l] = IF l = first - 1 THEN orders ELSE AfterOrders(g[l - 1], log[l])
    <3>1. CASE l = n + 1
      <4>1. g[n] = f[n] /\ g[n + 1] = AfterOrders(f[n], log[n + 1])
        OBVIOUS
      <4>2. l - 1 = n /\ l # first - 1
        BY <3>1
      <4> QED
        BY <3>1, <4>1, <4>2
    <3>2. CASE l # n + 1 /\ l = first - 1
      BY <2>1, <3>2 DEF Unfolds
    <3>3. CASE l # n + 1 /\ l # first - 1
      <4>1. f[l] = AfterOrders(f[l - 1], log[l])
        BY <2>1, <3>3 DEF Unfolds
      <4>2. g[l] = f[l] /\ g[l - 1] = f[l - 1]
        BY <3>3
      <4> HIDE DEF g
      <4> QED
        BY <3>3, <4>1, <4>2
    <3> QED
      BY <3>1, <3>2, <3>3
  <2>3. g = [l \in first - 1 .. n + 1 |-> g[l]]
    OBVIOUS
  <2> HIDE DEF g
  <2>4. Unfolds(g, first, n + 1)
    BY <2>2, <2>3 DEF Unfolds
  <2> QED
    BY <2>4
<1>3. last \in S
  <2> HIDE DEF S
  <2> QED
    BY <1>1, <1>2, Onward
<1> DEFINE f == CHOOSE f : f = [l \in first - 1 .. last |->
                  IF l = first - 1 THEN orders ELSE AfterOrders(f[l - 1], log[l])]
<1>4. Unfolds(f, first, last)
  BY <1>3 DEF Unfolds
<1>5. OrdersAfter(first, last) = f[last]
  BY DEF OrdersAfter
<1> QED
  BY <1>4, <1>5

-----------------------------------------------------------------------------
(* One event *)

LEMMA FilledRow ==
    ASSUME NEW r \in OrderRow, NEW n \in Nat
    PROVE  /\ Filled(r, n) \in OrderRow
           /\ r.status = "none" <=> Filled(r, n).status = "none"
           /\ r.status = "none" => Filled(r, n) = r
           /\ r.status # "none" => Below(Filled(r, n), r)
           /\ r.status = "open" /\ n >= r.left => Filled(r, n).status = "filled"
BY DEF Filled, OrderRow, Below

LEMMA FilledBelow ==
    ASSUME NEW a \in OrderRow, NEW b \in OrderRow, NEW n \in Nat, Below(a, b),
           b.status # "none"
    PROVE  Below(Filled(a, n), Filled(b, n))
BY DEF Filled, OrderRow, Below

LEMMA BelowPassesOn ==
    ASSUME NEW a \in OrderRow, NEW b \in OrderRow, NEW c \in OrderRow,
           Below(a, b), Below(b, c)
    PROVE  Below(a, c)
BY DEF OrderRow, Below

\* What an event does to the row r of order o.
NextRow(r, e, o) ==
    IF e.tag = "settled" /\ o \in {e.buy, e.sell} THEN Filled(r, e.size)
    ELSE IF e.tag = "ordplace" /\ o = e.order THEN [status |-> "open", left |-> e.size]
    ELSE IF e.tag = "ordcancel" /\ o = e.order /\ r.status # "none"
      THEN [status |-> "cancelled", left |-> r.left]
    ELSE r

LEMMA RowAfter ==
    ASSUME NEW rows \in Table, NEW e \in Event, NEW o \in Orders
    PROVE  AfterOrders(rows, e)[o] = NextRow(rows[o], e, o)
<1>1. rows[o] = [status |-> rows[o].status, left |-> rows[o].left]
  BY DEF Table, OrderRow
<1>2. CASE e.tag = "settled"
  BY <1>2 DEF AfterOrders, NextRow
<1>3. CASE e.tag = "ordplace"
  BY <1>3 DEF AfterOrders, NextRow, PlacedOrCancelled, Table
<1>4. CASE e.tag = "ordcancel"
  <2>1. AfterOrders(rows, e) =
          [rows EXCEPT ![e.order].status = IF @ = "none" THEN @ ELSE "cancelled"]
    BY <1>4 DEF AfterOrders, PlacedOrCancelled
  <2>2. CASE o = e.order
    <3>1. AfterOrders(rows, e)[o] =
            [rows[o] EXCEPT !.status = IF @ = "none" THEN @ ELSE "cancelled"]
      BY <2>1, <2>2 DEF Table
    <3> QED
      BY <1>1, <1>4, <2>2, <3>1 DEF NextRow
  <2>3. CASE o # e.order
    BY <1>4, <2>1, <2>3 DEF NextRow, Table
  <2> QED
    BY <2>2, <2>3
<1> QED
  BY <1>2, <1>3, <1>4 DEF Event

LEMMA TableAfter ==
    ASSUME NEW rows \in Table, NEW e \in Event
    PROVE  AfterOrders(rows, e) \in Table
<1>1. ASSUME NEW o \in Orders PROVE AfterOrders(rows, e)[o] \in OrderRow
  <2>1. rows[o] \in OrderRow
    BY DEF Table
  <2>2. e.tag # "ordcancel" => e.size \in Nat
    BY DEF Event
  <2>3. e.tag = "settled" => Filled(rows[o], e.size) \in OrderRow
    BY <2>1, <2>2, FilledRow
  <2>4. [status |-> "cancelled", left |-> rows[o].left] \in OrderRow
    BY <2>1 DEF OrderRow
  <2>5. e.tag = "ordplace" => [status |-> "open", left |-> e.size] \in OrderRow
    BY <2>2 DEF OrderRow
  <2> QED
    <3>1. AfterOrders(rows, e)[o] = NextRow(rows[o], e, o)
      BY RowAfter
    <3> QED
      BY <2>1, <2>3, <2>4, <2>5, <3>1 DEF NextRow
<1>2. AfterOrders(rows, e) = [o \in Orders |-> AfterOrders(rows, e)[o]]
  BY DEF AfterOrders, PlacedOrCancelled, Table, Event
<1> QED
  BY <1>1, <1>2 DEF Table

\* An order that shows at a ledger shows after each later one.
LEMMA ShowsLater ==
    ASSUME NEW h, Tells(h), NEW m \in 0 .. Len(log), NEW n \in 0 .. Len(log), m <= n,
           NEW o \in Orders, h[m][o].status # "none"
    PROVE  h[n][o].status # "none" /\ Below(h[n][o], h[m][o])
BY DEF Tells, Below

\* A table that stands for one ledger stands for those before.
LEMMA StandsBefore ==
    ASSUME NEW h, Tells(h), NEW rows \in Table,
           NEW m \in 0 .. Len(log), NEW n \in 0 .. Len(log), m <= n, Stands(rows, h, n)
    PROVE  Stands(rows, h, m)
<1> SUFFICES ASSUME NEW o \in Orders, h[m][o].status # "none"
             PROVE  Below(rows[o], h[m][o])
  BY DEF Stands
<1>1. h[n][o].status # "none" /\ Below(h[n][o], h[m][o])
  BY ShowsLater
<1>2. Below(rows[o], h[n][o])
  BY <1>1 DEF Stands
<1>3. h[m] \in Table /\ h[n] \in Table
  BY DEF Tells
<1>4. h[m][o] \in OrderRow /\ h[n][o] \in OrderRow /\ rows[o] \in OrderRow
  BY <1>3 DEF Table
<1> QED
  BY <1>1, <1>2, <1>4, BelowPassesOn

\* The event of the next ledger, applied to a table that stands for one ledger,
\* makes it stand for the next.
LEMMA StandsAfter ==
    ASSUME NEW h, Tells(h), NEW rows \in Table, log \in Seq(Event),
           NEW n \in 0 .. Len(log) - 1, Stands(rows, h, n)
    PROVE  Stands(AfterOrders(rows, log[n + 1]), h, n + 1)
<1> DEFINE e == log[n + 1]
<1>1. e \in Event /\ n + 1 \in 1 .. Len(log) /\ n \in 0 .. Len(log)
      /\ n + 1 \in 0 .. Len(log) /\ Len(log) \in 0 .. Len(log) /\ (n + 1) - 1 = n
  OBVIOUS
<1>2. h[n] \in Table /\ h[n + 1] = AfterOrders(h[n], e)
  BY <1>1 DEF Tells
<1> HIDE DEF e
<1> SUFFICES ASSUME NEW o \in Orders
             PROVE  /\ h[n + 1][o].status # "none" =>
                         Below(AfterOrders(rows, e)[o], h[n + 1][o])
                    /\ clob[o].status = "none" => AfterOrders(rows, e)[o] = NoRow
  BY DEF Stands, e
<1>3. rows[o] \in OrderRow /\ h[n][o] \in OrderRow
  BY <1>2 DEF Table
<1>4. h[n][o].status # "none" => Below(rows[o], h[n][o])
  BY DEF Stands
<1>5. clob[o].status = "none" => rows[o] = NoRow
  BY DEF Stands
<1>6. h[n + 1][o].status # "none" => clob[o].status # "none"
  <2>1. h[Len(log)] = clob /\ n + 1 <= Len(log)
    BY <1>1 DEF Tells
  <2> QED
    BY <1>1, <2>1, ShowsLater
<1> DEFINE a == AfterOrders(rows, e)[o]
           b == h[n + 1][o]
<1>0. a = NextRow(rows[o], e, o) /\ b = NextRow(h[n][o], e, o)
  BY <1>1, <1>2, RowAfter
<1>7. CASE e.tag = "settled" /\ o \in {e.buy, e.sell}
  <2>1. e.size \in Nat
    BY <1>1, <1>7 DEF Event
  <2>2. AfterOrders(rows, e)[o] = Filled(rows[o], e.size)
    BY <1>0, <1>7 DEF NextRow
  <2>3. h[n + 1][o] = Filled(h[n][o], e.size)
    BY <1>0, <1>7 DEF NextRow
  <2>4. h[n + 1][o].status # "none" => h[n][o].status # "none"
    BY <1>3, <2>1, <2>3, FilledRow
  <2>5. h[n + 1][o].status # "none" => Below(AfterOrders(rows, e)[o], h[n + 1][o])
    BY <1>3, <1>4, <2>1, <2>2, <2>3, <2>4, FilledBelow
  <2>6. rows[o] = NoRow => AfterOrders(rows, e)[o] = NoRow
    BY <2>2 DEF Filled, NoRow
  <2> QED
    BY <1>5, <2>5, <2>6
<1>8. CASE e.tag = "ordplace" /\ o = e.order
  <2>1. e.size \in Nat
    BY <1>1, <1>8 DEF Event
  <2>2. /\ AfterOrders(rows, e)[o] = [status |-> "open", left |-> e.size]
        /\ h[n + 1][o] = [status |-> "open", left |-> e.size]
    BY <1>0, <1>8 DEF NextRow
  <2> QED
    BY <1>6, <2>1, <2>2 DEF Below
<1>9. CASE e.tag = "ordcancel" /\ o = e.order
  <2>1. /\ AfterOrders(rows, e)[o] = IF rows[o].status # "none"
             THEN [status |-> "cancelled", left |-> rows[o].left] ELSE rows[o]
        /\ h[n + 1][o] = IF h[n][o].status # "none"
             THEN [status |-> "cancelled", left |-> h[n][o].left] ELSE h[n][o]
    BY <1>0, <1>9 DEF NextRow
  <2> QED
    BY <1>3, <1>4, <1>5, <2>1 DEF Below, NoRow
<1>10. CASE /\ ~(e.tag = "settled" /\ o \in {e.buy, e.sell})
            /\ ~(e.tag = "ordplace" /\ o = e.order)
            /\ ~(e.tag = "ordcancel" /\ o = e.order)
  <2>1. AfterOrders(rows, e)[o] = rows[o] /\ h[n + 1][o] = h[n][o]
    BY <1>0, <1>10 DEF NextRow
  <2> QED
    BY <1>4, <1>5, <2>1
<1> QED
  BY <1>7, <1>8, <1>9, <1>10

-----------------------------------------------------------------------------
(* Several events *)

LEMMA ReplayTable ==
    ASSUME log \in Seq(Event), orders \in Table, NEW first \in Nat, NEW last \in Nat,
           0 < first, first - 1 <= last, last <= Len(log)
    PROVE  OrdersAfter(first, last) \in Table
<1>1. PICK f : Unfolds(f, first, last) /\ OrdersAfter(first, last) = f[last]
  BY ReplayDefined
<1> DEFINE S == {l \in first - 1 .. last : f[l] \in Table}
<1>2. first - 1 \in S
  BY <1>1 DEF Unfolds
<1>3. ASSUME NEW l \in first - 1 .. last - 1, l \in S PROVE l + 1 \in S
  <2>1. f[l + 1] = AfterOrders(f[l], log[l + 1])
    BY <1>1 DEF Unfolds
  <2>2. log[l + 1] \in Event
    OBVIOUS
  <2> QED
    BY <1>3, <2>1, <2>2, TableAfter
<1>4. last \in S
  <2> HIDE DEF S
  <2> QED
    BY <1>2, <1>3, Onward
<1> QED
  BY <1>1, <1>4

LEMMA ReplayStands ==
    ASSUME log \in Seq(Event), orders \in Table, NEW h, Tells(h),
           NEW first \in Nat, NEW last \in Nat,
           0 < first, first - 1 <= last, last <= Len(log), Stands(orders, h, first - 1)
    PROVE  Stands(OrdersAfter(first, last), h, last)
<1>1. PICK f : Unfolds(f, first, last) /\ OrdersAfter(first, last) = f[last]
  BY ReplayDefined
<1> DEFINE S == {l \in first - 1 .. last : f[l] \in Table /\ Stands(f[l], h, l)}
<1>2. first - 1 \in S
  BY <1>1 DEF Unfolds
<1>3. ASSUME NEW l \in first - 1 .. last - 1, l \in S PROVE l + 1 \in S
  <2>1. f[l + 1] = AfterOrders(f[l], log[l + 1])
    BY <1>1 DEF Unfolds
  <2>2. log[l + 1] \in Event /\ l \in 0 .. Len(log) - 1
    OBVIOUS
  <2>3. f[l + 1] \in Table
    BY <1>3, <2>1, <2>2, TableAfter
  <2>4. Stands(f[l + 1], h, l + 1)
    BY <1>3, <2>1, <2>2, StandsAfter
  <2> QED
    BY <2>3, <2>4
<1>4. last \in S
  <2> HIDE DEF S
  <2> QED
    BY <1>2, <1>3, Onward
<1> QED
  BY <1>1, <1>4

\* From the contract's table the events lead to the contract's table.
LEMMA ReplayExact ==
    ASSUME log \in Seq(Event), NEW h, Tells(h), NEW first \in Nat, NEW last \in Nat,
           0 < first, first - 1 <= last, last <= Len(log), orders = h[first - 1]
    PROVE  OrdersAfter(first, last) = h[last]
<1>1. PICK f : Unfolds(f, first, last) /\ OrdersAfter(first, last) = f[last]
  BY ReplayDefined
<1> DEFINE S == {l \in first - 1 .. last : f[l] = h[l]}
<1>2. first - 1 \in S
  BY <1>1 DEF Unfolds
<1>3. ASSUME NEW l \in first - 1 .. last - 1, l \in S PROVE l + 1 \in S
  <2>1. f[l + 1] = AfterOrders(f[l], log[l + 1])
    BY <1>1 DEF Unfolds
  <2>2. h[l + 1] = AfterOrders(h[l], log[l + 1])
    <3>1. l + 1 \in 1 .. Len(log) /\ (l + 1) - 1 = l
      OBVIOUS
    <3> QED
      BY <3>1 DEF Tells
  <2> QED
    BY <1>3, <2>1, <2>2
<1>4. last \in S
  <2> HIDE DEF S
  <2> QED
    BY <1>2, <1>3, Onward
<1> QED
  BY <1>1, <1>4

-----------------------------------------------------------------------------
(* The contract publishes an event *)

\* A step of the contract: nothing filled is revived, nothing grows, and the
\* event tells what happened.
Tell(e) ==
    /\ e \in Event /\ Publish(e)
    /\ clob' = AfterOrders(clob, e)
    /\ \A o \in Orders :
          /\ clob[o].status # "none" => Below(clob'[o], clob[o])
          /\ clob[o].status = "filled" => clob'[o].status = "filled"
          /\ clob'[o].status = "none" => clob'[o] = NoRow
    /\ e.tag = "settled" =>
          clob'[e.buy].status = "filled" \/ clob'[e.sell].status = "filled"

LEMMA LogGrows ==
    ASSUME Types, NEW e, Tell(e)
    PROVE  /\ log' \in Seq(Event) /\ Len(log') = Len(log) + 1 /\ Len(log') <= MaxLedgers
           /\ \A l \in 1 .. Len(log) : log'[l] = log[l]
           /\ log'[Len(log) + 1] = e
<1>1. log' = Append(log, e) /\ Len(log) < MaxLedgers /\ e \in Event /\ log \in Seq(Event)
  BY DEF Types, Tell, Publish
<1>2. MaxLedgers \in Nat
  BY IndexerConstants
<1> QED
  BY <1>1, <1>2

LEMMA StoryGoesOn ==
    ASSUME Types, NEW h, Tells(h), NEW e, Tell(e)
    PROVE  \E g : Tells(g)' /\ \A l \in 0 .. Len(log) : g[l] = h[l]
<1> DEFINE n == Len(log)
<1> PICK g : g = [l \in 0 .. n + 1 |-> IF l = n + 1 THEN clob' ELSE h[l]]
  OBVIOUS
<1>0. n \in Nat /\ log \in Seq(Event) /\ clob \in Table /\ e \in Event
      /\ clob' = AfterOrders(clob, e)
  BY DEF Types, Tell
<1>1. Len(log') = n + 1 /\ (\A l \in 1 .. n : log'[l] = log[l]) /\ log'[n + 1] = e
  BY LogGrows
<1>2. \A l \in 0 .. n : g[l] = h[l]
  BY <1>0
<1>3. g[n + 1] = clob'
  BY <1>0
<1>4. /\ \A l \in 0 .. n : h[l] \in Table
      /\ h[0] = [o \in Orders |-> NoRow] /\ h[n] = clob
      /\ \A l \in 1 .. n : h[l] = AfterOrders(h[l - 1], log[l])
      /\ \A m, k \in 0 .. n : \A o \in Orders :
            m <= k /\ h[m][o].status # "none" => Below(h[k][o], h[m][o])
  BY DEF Tells
<1>5. clob' \in Table
  BY <1>0, TableAfter
<1>6. \A l \in 0 .. n + 1 : g[l] \in Table
  BY <1>0, <1>2, <1>3, <1>4, <1>5
<1>7. \A l \in 1 .. n + 1 : g[l] = AfterOrders(g[l - 1], log'[l])
  <2> SUFFICES ASSUME NEW l \in 1 .. n + 1 PROVE g[l] = AfterOrders(g[l - 1], log'[l])
    OBVIOUS
  <2>1. CASE l = n + 1
    <3>1. l - 1 = n /\ n \in 0 .. n
      BY <1>0, <2>1
    <3> QED
      BY <1>0, <1>1, <1>2, <1>3, <1>4, <2>1, <3>1
  <2>2. CASE l \in 1 .. n
    <3>1. l - 1 \in 0 .. n /\ l \in 0 .. n
      BY <1>0, <2>2
    <3> QED
      BY <1>1, <1>2, <1>4, <2>2, <3>1
  <2> QED
    BY <1>0, <2>1, <2>2
<1>8. ASSUME NEW m \in 0 .. n + 1, NEW k \in 0 .. n + 1, NEW o \in Orders,
             m <= k, g[m][o].status # "none"
      PROVE  Below(g[k][o], g[m][o])
  <2>1. CASE k \in 0 .. n
    <3>1. m \in 0 .. n
      BY <1>0, <1>8, <2>1
    <3> QED
      BY <1>2, <1>4, <1>8, <2>1, <3>1
  <2>2. CASE k = n + 1 /\ m = n + 1
    <3>1. clob'[o] \in OrderRow
      BY <1>5 DEF Table
    <3> QED
      BY <1>3, <1>8, <2>2, <3>1 DEF Below, OrderRow
  <2>3. CASE k = n + 1 /\ m \in 0 .. n
    <3>1. h[m][o].status # "none" /\ g[m] = h[m] /\ h[m] \in Table
      BY <1>2, <1>4, <1>8, <2>3
    <3>2. n \in 0 .. n /\ m <= n
      BY <1>0, <2>3
    <3>3. Below(clob[o], h[m][o])
      BY <1>4, <2>3, <3>1, <3>2
    <3>4. Below(clob'[o], clob[o])
      BY <3>3 DEF Tell, Below
    <3>5. clob'[o] \in OrderRow /\ clob[o] \in OrderRow /\ h[m][o] \in OrderRow
      BY <1>0, <1>5, <3>1 DEF Table
    <3> QED
      BY <1>3, <2>3, <3>1, <3>3, <3>4, <3>5, BelowPassesOn
  <2> QED
    BY <1>0, <2>1, <2>2, <2>3
<1>9. \A o \in Orders : clob'[o].status = "none" => clob'[o] = NoRow
  BY DEF Tell
<1>10. g[0] = [o \in Orders |-> NoRow]
  BY <1>0, <1>2, <1>4
<1>11. Tells(g)'
  BY <1>1, <1>3, <1>6, <1>7, <1>8, <1>9, <1>10 DEF Tells
<1> QED
  BY <1>2, <1>11

LEMMA PointInRange ==
    ASSUME Types, Standing
    PROVE  Point \in 0 .. Len(log)
BY DEF Types, Standing, Point

LEMMA TellingKeeps ==
    ASSUME IInv, NEW e, Tell(e), UNCHANGED indexVars, sent' \subseteq Pair
    PROVE  IInv'
<1>0. Types /\ SettlementsFill /\ Standing /\ Following
  BY DEF IInv
<1>1. /\ log' \in Seq(Event) /\ Len(log') = Len(log) + 1 /\ Len(log') <= MaxLedgers
      /\ \A l \in 1 .. Len(log) : log'[l] = log[l]
      /\ log'[Len(log) + 1] = e
  BY <1>0, LogGrows
<1>2. log \in Seq(Event) /\ Len(log) \in Nat /\ clob \in Table /\ e \in Event
  BY <1>0 DEF Types, Tell
<1>3. Types'
  <2>1. clob' \in Table
    BY <1>2, TableAfter DEF Tell
  <2> QED
    BY <1>0, <1>1, <2>1 DEF Types, indexVars
<1>4. SettlementsFill'
  <2> SUFFICES ASSUME NEW l \in 1 .. Len(log) + 1, log'[l].tag = "settled"
               PROVE  \/ clob'[log'[l].buy].status = "filled"
                      \/ clob'[log'[l].sell].status = "filled"
    BY <1>1 DEF SettlementsFill
  <2>1. CASE l = Len(log) + 1
    BY <1>1, <2>1 DEF Tell
  <2>2. CASE l \in 1 .. Len(log)
    <3>1. log'[l] = log[l] /\ log[l] \in Event /\ l \in DOMAIN log
      BY <1>1, <1>2, <2>2
    <3>2. log[l].buy \in Orders /\ log[l].sell \in Orders
      BY <3>1 DEF Event
    <3>3. clob[log[l].buy].status = "filled" \/ clob[log[l].sell].status = "filled"
      BY <1>0, <3>1 DEF SettlementsFill
    <3> QED
      BY <3>1, <3>2, <3>3 DEF Tell
  <2> QED
    BY <1>2, <2>1, <2>2
<1>5. Standing'
  BY <1>0, <1>1, <1>2 DEF Standing, NothingSkipped, indexVars
<1>6. Following'
  <2>1. PICK h : /\ Tells(h)
                 /\ skipped = {} => /\ Stands(orders, h, Point)
                                    /\ faults = 0 => orders = h[Point]
    BY <1>0 DEF Following
  <2>2. PICK g : Tells(g)' /\ \A l \in 0 .. Len(log) : g[l] = h[l]
    BY <1>0, <2>1, StoryGoesOn
  <2>3. Point' = Point /\ Point \in 0 .. Len(log)
    BY <1>0, PointInRange DEF Point, indexVars
  <2>4. g[Point] = h[Point]
    BY <2>2, <2>3
  <2>5. ASSUME skipped = {} PROVE Stands(orders, g, Point)'
    <3>1. \A o \in Orders : clob'[o].status = "none" => clob[o].status = "none"
      BY DEF Tell, Below
    <3>2. Stands(orders, h, Point)
      BY <2>1, <2>5
    <3> QED
      BY <2>3, <2>4, <3>1, <3>2 DEF Stands, indexVars
  <2> QED
    BY <2>1, <2>2, <2>3, <2>4, <2>5 DEF Following, indexVars
<1> QED
  BY <1>3, <1>4, <1>5, <1>6 DEF IInv

LEMMA PlacingTells ==
    ASSUME IInv, NEW o \in Orders, PlaceOrder(o)
    PROVE  Tell([tag |-> "ordplace", order |-> o, size |-> Book[o].size])
<1> DEFINE e == [tag |-> "ordplace", order |-> o, size |-> Book[o].size]
<1>1. Book[o].size \in Nat /\ clob \in Table
  BY MatchingConstants DEF IInv, Types
<1>2. e \in Event /\ Publish(e)
  BY <1>1 DEF Event, PlaceOrder
<1>3. clob' = AfterOrders(clob, e)
  BY DEF PlaceOrder, AfterOrders, PlacedOrCancelled
<1>4. clob[o].status = "none"
  BY DEF PlaceOrder, NoRow
<1>5. clob'[o].status = "open" /\ \A p \in Orders \ {o} : clob'[p] = clob[p]
  BY <1>1 DEF PlaceOrder, Table
<1>6. \A p \in Orders : clob[p].status = "none" => clob[p] = NoRow
  BY DEF IInv, Following, Tells
<1>7. \A p \in Orders : clob[p].left \in Nat
  BY <1>1 DEF Table, OrderRow
<1>8. ASSUME NEW p \in Orders
      PROVE  /\ clob[p].status # "none" => Below(clob'[p], clob[p])
             /\ clob[p].status = "filled" => clob'[p].status = "filled"
             /\ clob'[p].status = "none" => clob'[p] = NoRow
  BY <1>4, <1>5, <1>6, <1>7 DEF Below
<1>9. e.tag # "settled"
  OBVIOUS
<1> HIDE DEF e
<1>10. Tell(e)
  BY <1>2, <1>3, <1>8, <1>9 DEF Tell
<1> QED
  BY <1>10 DEF e

LEMMA CancellingTells ==
    ASSUME IInv, NEW o \in Orders, CancelOrder(o)
    PROVE  Tell([tag |-> "ordcancel", order |-> o])
<1> DEFINE e == [tag |-> "ordcancel", order |-> o]
<1>1. clob \in Table
  BY DEF IInv, Types
<1>2. e \in Event /\ Publish(e)
  BY DEF Event, CancelOrder
<1>3. clob[o].status = "open" /\ clob' = [clob EXCEPT ![o].status = "cancelled"]
  BY DEF CancelOrder
<1>4. clob' = AfterOrders(clob, e)
  <2>1. AfterOrders(clob, e) =
          [clob EXCEPT ![o].status = IF @ = "none" THEN @ ELSE "cancelled"]
    BY DEF AfterOrders, PlacedOrCancelled
  <2> QED
    BY <1>1, <1>3, <2>1 DEF Table
<1>5. /\ clob'[o].status = "cancelled" /\ clob'[o].left = clob[o].left
      /\ \A p \in Orders \ {o} : clob'[p] = clob[p]
  BY <1>1, <1>3 DEF Table, OrderRow
<1>6. \A p \in Orders : clob[p].status = "none" => clob[p] = NoRow
  BY DEF IInv, Following, Tells
<1>7. \A p \in Orders : clob[p].left \in Nat
  BY <1>1 DEF Table, OrderRow
<1>8. ASSUME NEW p \in Orders
      PROVE  /\ clob[p].status # "none" => Below(clob'[p], clob[p])
             /\ clob[p].status = "filled" => clob'[p].status = "filled"
             /\ clob'[p].status = "none" => clob'[p] = NoRow
  BY <1>3, <1>5, <1>6, <1>7 DEF Below
<1>9. e.tag # "settled"
  OBVIOUS
<1> HIDE DEF e
<1>10. Tell(e)
  BY <1>2, <1>4, <1>8, <1>9 DEF Tell
<1> QED
  BY <1>10 DEF e

\* The smaller of two open orders is filled.
LEMMA SettlingTells ==
    ASSUME IInv, NEW p \in Pair, Settle(p)
    PROVE  Tell([tag |-> "settled", buy |-> p.buy, sell |-> p.sell, size |-> FillSize(p)])
<1> DEFINE e == [tag |-> "settled", buy |-> p.buy, sell |-> p.sell, size |-> FillSize(p)]
<1>1. clob \in Table /\ p.buy \in Orders /\ p.sell \in Orders
  BY DEF IInv, Types, Pair
<1>2. clob[p.buy] \in OrderRow /\ clob[p.sell] \in OrderRow
  BY <1>1 DEF Table
<1>3. clob[p.buy].status = "open" /\ clob[p.sell].status = "open"
  BY DEF Settle, CanSettle, Live
<1>4. clob[p.buy].left \in Nat /\ clob[p.sell].left \in Nat
  BY <1>2 DEF OrderRow
<1>5. /\ FillSize(p) \in Nat
      /\ FillSize(p) >= clob[p.buy].left \/ FillSize(p) >= clob[p.sell].left
  BY <1>4 DEF FillSize
<1>6. e \in Event /\ Publish(e)
  BY <1>1, <1>5 DEF Event, Settle
<1>7. clob' = AfterOrders(clob, e)
  BY DEF AfterOrders, Settle
<1>8. \A o \in Orders : clob'[o] =
         IF o \in {p.buy, p.sell} THEN Filled(clob[o], FillSize(p)) ELSE clob[o]
  BY DEF Settle
<1>9. \A o \in Orders : clob[o].status = "none" => clob[o] = NoRow
  BY DEF IInv, Following, Tells
<1>10. ASSUME NEW o \in Orders
       PROVE  /\ clob[o].status # "none" => Below(clob'[o], clob[o])
              /\ clob[o].status = "filled" => clob'[o].status = "filled"
              /\ clob'[o].status = "none" => clob'[o] = NoRow
  <2>1. CASE o \in {p.buy, p.sell}
    <3>1. clob[o].status = "open" /\ clob[o] \in OrderRow
      BY <1>2, <1>3, <2>1
    <3>2. clob'[o] = Filled(clob[o], FillSize(p))
      BY <1>8, <2>1
    <3>3. Below(clob'[o], clob[o])
      BY <1>5, <3>1, <3>2, FilledRow
    <3> QED
      BY <3>1, <3>3 DEF Below
  <2>2. CASE o \notin {p.buy, p.sell}
    <3>1. clob'[o] = clob[o] /\ clob[o].left \in Nat
      BY <1>1, <1>8, <2>2 DEF Table, OrderRow
    <3> QED
      BY <1>9, <3>1 DEF Below
  <2> QED
    BY <2>1, <2>2
<1>11. clob'[p.buy].status = "filled" \/ clob'[p.sell].status = "filled"
  BY <1>1, <1>2, <1>3, <1>5, <1>8, FilledRow
<1>12. e.buy = p.buy /\ e.sell = p.sell
  OBVIOUS
<1> HIDE DEF e
<1>13. Tell(e)
  BY <1>6, <1>7, <1>10, <1>11, <1>12 DEF Tell
<1> QED
  BY <1>13 DEF e

-----------------------------------------------------------------------------
(* The watcher scans *)

\* The steps of the indexer leave the chain and the matcher alone.
Watching == UNCHANGED <<log, clob, sent>>

LEMMA ChainStands ==
    ASSUME SettlementsFill, Watching
    PROVE  SettlementsFill'
BY DEF SettlementsFill, Watching

LEMMA FollowingKept ==
    ASSUME NEW h, Tells(h), Watching,
           skipped' = {} => Stands(orders', h, Point'),
           skipped' = {} /\ faults' = 0 => orders' = h[Point']
    PROVE  Following'
<1>1. Tells(h)'
  BY DEF Tells, Watching
<1>2. skipped' = {} => Stands(orders, h, Point)'
  BY DEF Stands, Watching
<1> QED
  BY <1>1, <1>2 DEF Following

\* What a page does to the tables.
LEMMA PersistKeeps ==
    ASSUME Types, NEW first \in Nat, NEW last \in Nat,
           0 < first, first - 1 <= last, last <= Len(log), Persist(first, last)
    PROVE  /\ orders' \in Table
           /\ applied' \in [Ledgers -> Nat]
           /\ \A l \in Ledgers : applied[l] > 0 => applied'[l] > 0
           /\ \A l \in first .. last : applied'[l] > 0
<1>1. log \in Seq(Event) /\ orders \in Table /\ applied \in [Ledgers -> Nat]
      /\ Len(log) <= MaxLedgers /\ Len(log) \in Nat /\ MaxLedgers \in Nat
  BY IndexerConstants DEF Types
<1>2. orders' \in Table
  BY <1>1, ReplayTable DEF Persist
<1>3. applied' = [l \in Ledgers |->
                    IF l \in first .. last /\ applied[l] < 2 THEN applied[l] + 1
                    ELSE applied[l]]
  BY DEF Persist
<1>4. \A l \in Ledgers : applied[l] \in Nat
  BY <1>1
<1>5. \A l \in first .. last : l \in Ledgers
  BY <1>1 DEF Ledgers
<1> QED
  BY <1>2, <1>3, <1>4, <1>5

\* The story, and what the table is after a page.
LEMMA PageFollows ==
    ASSUME Types, NEW h, Tells(h), NEW first \in Nat, NEW last \in Nat,
           0 < first, first - 1 <= last, last <= Len(log), Persist(first, last),
           Stands(orders, h, first - 1)
    PROVE  Stands(orders', h, last)
BY ReplayStands DEF Types, Persist

LEMMA PageIsExact ==
    ASSUME Types, NEW h, Tells(h), NEW first \in Nat, NEW last \in Nat,
           0 < first, first - 1 <= last, last <= Len(log), Persist(first, last),
           orders = h[first - 1]
    PROVE  orders' = h[last]
BY ReplayExact DEF Types, Persist

LEMMA StartKeeps ==
    ASSUME IInv, StartTick, Watching
    PROVE  IInv'
<1>0. Types /\ SettlementsFill /\ Standing /\ Following
  BY DEF IInv
<1> DEFINE n == Len(log)
           start == IF cursor >= MinStart THEN cursor ELSE MinStart
<1>1. /\ n \in Nat /\ n > 0 /\ n <= MaxLedgers /\ MaxLedgers \in Nat /\ Lookback \in Nat
      /\ cursor \in 0 .. n + 1
  BY <1>0, IndexerConstants DEF Types, Standing, StartTick, Latest
<1>2. MinStart \in 1 .. n
  BY <1>1 DEF MinStart, Latest
<1>3. start \in 1 .. n + 1 /\ cursor <= start
  BY <1>1, <1>2
<1>4. /\ scan' = start /\ lastSeen' = start
      /\ cursor' = IF cursor = 0 THEN 0 ELSE start
      /\ skipped' = skipped \cup {l \in 1 .. start - 1 : l >= cursor}
      /\ scan = 0
      /\ UNCHANGED <<log, positions, orders, applied, faults>>
  BY DEF StartTick, SkipTo
<1> HIDE DEF start
<1>5. Types'
  BY <1>0, <1>4 DEF Types, Watching
<1>6. \A l \in 1 .. start - 1 : applied[l] > 0 \/ l \in skipped'
  <2> SUFFICES ASSUME NEW l \in 1 .. start - 1 PROVE applied[l] > 0 \/ l \in skipped'
    OBVIOUS
  <2>1. CASE l >= cursor
    BY <1>4, <2>1
  <2>2. CASE ~(l >= cursor)
    <3>1. l \in 1 .. cursor - 1
      BY <1>1, <1>3, <2>2
    <3>2. applied[l] > 0 \/ l \in skipped
      BY <1>0, <3>1 DEF Standing, NothingSkipped
    <3> QED
      BY <1>4, <3>2
  <2> QED
    BY <2>1, <2>2
<1>7. Standing'
  <2>1. cursor' \in 0 .. n + 1 /\ cursor' <= start
    BY <1>3, <1>4
  <2>2. NothingSkipped'
    BY <1>3, <1>4, <1>6 DEF NothingSkipped
  <2> QED
    BY <1>3, <1>4, <1>6, <2>1, <2>2 DEF Standing
<1>8. PICK h : /\ Tells(h)
               /\ skipped = {} => /\ Stands(orders, h, Point)
                                  /\ faults = 0 => orders = h[Point]
  BY <1>0 DEF Following
<1>9. ASSUME skipped' = {} PROVE Point' = Point
  <2>1. ~(1 <= start - 1 /\ start - 1 >= cursor)
    <3> SUFFICES ASSUME 1 <= start - 1, start - 1 >= cursor PROVE FALSE
      OBVIOUS
    <3>1. start - 1 \in skipped'
      BY <1>3, <1>4
    <3> QED
      BY <1>9, <3>1
  <2>2. start = 1 \/ start = cursor
    BY <1>1, <1>3, <2>1
  <2>3. start # 0
    BY <1>3
  <2>4. Point' = start - 1
    BY <1>4, <2>3 DEF Point
  <2>5. Point = IF cursor = 0 THEN 0 ELSE cursor - 1
    BY <1>4 DEF Point
  <2>6. cursor \in {0, 1} \/ start = cursor
    BY <1>1, <1>3, <2>2
  <2> QED
    BY <1>3, <2>2, <2>4, <2>5, <2>6
<1>10. skipped' = {} => skipped = {}
  BY <1>4
<1>11. Following'
  BY <1>4, <1>8, <1>9, <1>10, FollowingKept
<1> QED
  BY <1>0, <1>5, <1>7, <1>11, ChainStands DEF IInv

LEMMA RangeErrorKeeps ==
    ASSUME IInv, RangeError, Watching
    PROVE  IInv'
<1>0. Types /\ SettlementsFill /\ Standing /\ Following
  BY DEF IInv
<1> DEFINE n == Len(log)
<1>1. /\ n \in Nat /\ n <= MaxLedgers /\ MaxLedgers \in Nat /\ Retention \in Nat
      /\ cursor \in 0 .. n + 1 /\ scan \in 0 .. n + 1 /\ cursor <= scan
  BY <1>0, IndexerConstants DEF Types, Standing, RangeError
<1>2. Oldest \in 1 .. n + 1
  BY <1>1 DEF Oldest, Latest
<1>3. /\ cursor' = Oldest /\ scan' = 0
      /\ skipped' = skipped \cup {l \in 1 .. Oldest - 1 : l >= cursor}
      /\ scan # 0
      /\ UNCHANGED <<log, positions, orders, applied>>
  BY DEF RangeError, SkipTo
<1>4. Types'
  BY <1>0, <1>3 DEF Types, Watching, RangeError, Fault
<1>5. \A l \in 1 .. Oldest - 1 : applied[l] > 0 \/ l \in skipped'
  <2> SUFFICES ASSUME NEW l \in 1 .. Oldest - 1 PROVE applied[l] > 0 \/ l \in skipped'
    OBVIOUS
  <2>1. CASE l >= cursor
    BY <1>3, <2>1
  <2>2. CASE ~(l >= cursor)
    <3>1. l \in 1 .. cursor - 1
      BY <1>1, <1>2, <2>2
    <3>2. applied[l] > 0 \/ l \in skipped
      BY <1>0, <3>1 DEF Standing, NothingSkipped
    <3> QED
      BY <1>3, <3>2
  <2> QED
    BY <2>1, <2>2
<1>6. Standing'
  <2>1. NothingSkipped'
    BY <1>3, <1>5 DEF NothingSkipped
  <2> QED
    BY <1>1, <1>2, <1>3, <2>1 DEF Standing
<1>7. PICK h : /\ Tells(h)
               /\ skipped = {} => /\ Stands(orders, h, Point)
                                  /\ faults = 0 => orders = h[Point]
  BY <1>0 DEF Following
<1>8. faults' # 0
  BY <1>0 DEF Types, RangeError, Fault
<1>9. ASSUME skipped' = {} PROVE Stands(orders', h, Point')
  <2>1. Oldest - 1 \notin skipped'
    BY <1>9
  <2>2. Oldest - 1 < cursor \/ Oldest = 1
    BY <1>1, <1>2, <1>3, <2>1
  <2>3. Point = scan - 1 /\ Point' = Oldest - 1
    BY <1>2, <1>3 DEF Point
  <2>4. Point \in 0 .. n /\ Point' \in 0 .. n /\ Point' <= Point
    BY <1>1, <1>2, <1>3, <2>2, <2>3
  <2>5. Stands(orders, h, Point) /\ orders \in Table
    BY <1>0, <1>3, <1>7, <1>9 DEF Types
  <2> QED
    BY <1>3, <1>7, <2>4, <2>5, StandsBefore
<1>10. Following'
  BY <1>7, <1>8, <1>9, FollowingKept
<1> QED
  BY <1>0, <1>4, <1>6, <1>10, ChainStands DEF IInv

\* A page that does not end the tick.
LEMMA FullPageKeeps ==
    ASSUME IInv, FullPage, Watching
    PROVE  IInv'
<1>0. Types /\ SettlementsFill /\ Standing /\ Following
  BY DEF IInv
<1> DEFINE n == Len(log)
           last == scan + PageLimit - 1
<1>1. /\ n \in Nat /\ n <= MaxLedgers /\ MaxLedgers \in Nat /\ PageLimit \in Nat \ {0}
      /\ cursor \in 0 .. n + 1 /\ scan \in 1 .. n + 1 /\ cursor <= scan
  BY <1>0, IndexerConstants DEF Types, Standing, FullPage, InRange
<1>2. /\ Persist(scan, last) /\ last <= n
      /\ scan' = last + 1 /\ lastSeen' = last
      /\ UNCHANGED <<log, cursor, skipped, faults>>
  BY DEF FullPage, Latest
<1>3. last \in scan .. n /\ last \in Nat
  BY <1>1, <1>2
<1> HIDE DEF last
<1>4. /\ orders' \in Table
      /\ applied' \in [Ledgers -> Nat]
      /\ \A l \in Ledgers : applied[l] > 0 => applied'[l] > 0
      /\ \A l \in scan .. last : applied'[l] > 0
  BY <1>0, <1>1, <1>2, <1>3, PersistKeeps
<1>5. Types'
  BY <1>0, <1>2, <1>4 DEF Types, Watching
<1>6. \A l \in 1 .. last : applied'[l] > 0 \/ l \in skipped
  <2> SUFFICES ASSUME NEW l \in 1 .. last PROVE applied'[l] > 0 \/ l \in skipped
    OBVIOUS
  <2>1. CASE l < scan
    <3>1. l \in 1 .. scan - 1 /\ l \in Ledgers
      BY <1>1, <1>3, <2>1 DEF Ledgers
    <3>2. applied[l] > 0 \/ l \in skipped
      BY <1>0, <1>1, <3>1 DEF Standing
    <3> QED
      BY <1>4, <3>1, <3>2
  <2>2. CASE ~(l < scan)
    <3>1. l \in scan .. last
      BY <1>1, <1>3, <2>2
    <3> QED
      BY <1>4, <3>1
  <2> QED
    BY <2>1, <2>2
<1>7. Standing'
  <2>1. NothingSkipped'
    <3>1. \A l \in 1 .. cursor - 1 : l \in 1 .. last
      BY <1>1, <1>3
    <3> QED
      BY <1>2, <1>6, <3>1 DEF NothingSkipped
  <2>2. scan' - 1 = last /\ cursor <= scan' /\ scan' \in 0 .. n + 1
    BY <1>1, <1>2, <1>3
  <2> QED
    BY <1>1, <1>2, <1>3, <1>6, <2>1, <2>2 DEF Standing
<1>8. PICK h : /\ Tells(h)
               /\ skipped = {} => /\ Stands(orders, h, Point)
                                  /\ faults = 0 => orders = h[Point]
  BY <1>0 DEF Following
<1>9. Point = scan - 1 /\ Point' = last
  BY <1>1, <1>2, <1>3 DEF Point
<1>10. skipped' = {} => Stands(orders', h, Point')
  BY <1>0, <1>1, <1>2, <1>3, <1>8, <1>9, PageFollows
<1>11. skipped' = {} /\ faults' = 0 => orders' = h[Point']
  BY <1>0, <1>1, <1>2, <1>3, <1>8, <1>9, PageIsExact
<1>12. Following'
  BY <1>8, <1>10, <1>11, FollowingKept
<1> QED
  BY <1>0, <1>5, <1>7, <1>12, ChainStands DEF IInv

LEMMA LastPageKeeps ==
    ASSUME IInv, LastPage, Watching
    PROVE  IInv'
<1>0. Types /\ SettlementsFill /\ Standing /\ Following
  BY DEF IInv
<1> DEFINE n == Len(log)
<1>1. /\ n \in Nat /\ n <= MaxLedgers /\ MaxLedgers \in Nat
      /\ cursor \in 0 .. n + 1 /\ scan \in 1 .. n + 1 /\ cursor <= scan
      /\ lastSeen = scan \/ (lastSeen = scan - 1 /\ lastSeen <= n)
  BY <1>0, IndexerConstants DEF Types, Standing, LastPage, InRange
<1>2. /\ Persist(scan, n)
      /\ cursor' = Larger(lastSeen, n) + 1
      /\ scan' = 0 /\ lastSeen' = 0
      /\ UNCHANGED <<log, skipped, faults>>
  BY DEF LastPage, Latest
<1>3. lastSeen <= n /\ lastSeen \in Nat
  <2>1. lastSeen = scan => scan \in Oldest .. n
    BY DEF LastPage, InRange, Latest
  <2> QED
    BY <1>1, <2>1
<1>4. cursor' = n + 1
  BY <1>1, <1>2, <1>3 DEF Larger
<1>5. /\ orders' \in Table
      /\ applied' \in [Ledgers -> Nat]
      /\ \A l \in Ledgers : applied[l] > 0 => applied'[l] > 0
      /\ \A l \in scan .. n : applied'[l] > 0
  BY <1>0, <1>1, <1>2, PersistKeeps
<1>6. Types'
  BY <1>0, <1>2, <1>5 DEF Types, Watching
<1>7. \A l \in 1 .. n : applied'[l] > 0 \/ l \in skipped
  <2> SUFFICES ASSUME NEW l \in 1 .. n PROVE applied'[l] > 0 \/ l \in skipped
    OBVIOUS
  <2>1. CASE l < scan
    <3>1. l \in 1 .. scan - 1 /\ l \in Ledgers
      BY <1>1, <2>1 DEF Ledgers
    <3>2. applied[l] > 0 \/ l \in skipped
      BY <1>0, <1>1, <3>1 DEF Standing
    <3> QED
      BY <1>5, <3>1, <3>2
  <2>2. CASE ~(l < scan)
    <3>1. l \in scan .. n
      BY <1>1, <2>2
    <3> QED
      BY <1>5, <3>1
  <2> QED
    BY <2>1, <2>2
<1>8. Standing'
  <2>1. NothingSkipped'
    BY <1>1, <1>2, <1>4, <1>7 DEF NothingSkipped
  <2> QED
    BY <1>1, <1>2, <1>4, <2>1 DEF Standing
<1>9. PICK h : /\ Tells(h)
               /\ skipped = {} => /\ Stands(orders, h, Point)
                                  /\ faults = 0 => orders = h[Point]
  BY <1>0 DEF Following
<1>10. Point = scan - 1 /\ Point' = n
  BY <1>1, <1>2, <1>4 DEF Point
<1>11. skipped' = {} => Stands(orders', h, Point')
  BY <1>0, <1>1, <1>2, <1>9, <1>10, PageFollows
<1>12. skipped' = {} /\ faults' = 0 => orders' = h[Point']
  BY <1>0, <1>1, <1>2, <1>9, <1>10, PageIsExact
<1>13. Following'
  BY <1>9, <1>11, <1>12, FollowingKept
<1> QED
  BY <1>0, <1>6, <1>8, <1>13, ChainStands DEF IInv

\* A tick that is cut short leaves the cursor where it was.
LEMMA FailingKeeps ==
    ASSUME IInv, RequestFails, Watching
    PROVE  IInv'
<1>0. Types /\ SettlementsFill /\ Standing /\ Following
  BY DEF IInv
<1>1. /\ Len(log) \in Nat /\ cursor \in 0 .. Len(log) + 1
      /\ scan \in 1 .. Len(log) + 1 /\ cursor <= scan
  BY <1>0 DEF Types, Standing, RequestFails
<1>2. /\ scan' = 0 /\ faults' = faults + 1 /\ faults \in Nat
      /\ UNCHANGED <<log, cursor, positions, orders, applied, skipped>>
  BY <1>0 DEF RequestFails, Fault, Types
<1>3. Types'
  BY <1>0, <1>2 DEF Types, Watching
<1>4. Standing'
  BY <1>0, <1>1, <1>2 DEF Standing, NothingSkipped
<1>5. PICK h : /\ Tells(h)
               /\ skipped = {} => /\ Stands(orders, h, Point)
                                  /\ faults = 0 => orders = h[Point]
  BY <1>0 DEF Following
<1>6. Point \in 0 .. Len(log) /\ Point' \in 0 .. Len(log) /\ Point' <= Point
  BY <1>1, <1>2 DEF Point
<1>7. ASSUME skipped' = {} PROVE Stands(orders', h, Point')
  <2>1. Stands(orders, h, Point) /\ orders \in Table
    BY <1>0, <1>2, <1>5, <1>7 DEF Types
  <2> QED
    BY <1>2, <1>5, <1>6, <2>1, StandsBefore
<1>8. Following'
  BY <1>2, <1>5, <1>7, FollowingKept
<1> QED
  BY <1>0, <1>3, <1>4, <1>8, ChainStands DEF IInv

LEMMA CrashKeeps ==
    ASSUME IInv, IndexerCrash, Watching
    PROVE  IInv'
<1>0. Types /\ SettlementsFill /\ Standing /\ Following
  BY DEF IInv
<1> DEFINE n == Len(log)
<1>1. /\ n \in Nat /\ n <= MaxLedgers /\ MaxLedgers \in Nat
      /\ cursor \in 0 .. n + 1 /\ scan \in 1 .. n + 1 /\ cursor <= scan
  BY <1>0, IndexerConstants DEF Types, Standing, IndexerCrash
<1>2. /\ scan' = 0 /\ faults' = faults + 1 /\ faults \in Nat
      /\ UNCHANGED <<log, cursor, skipped>>
  BY <1>0 DEF IndexerCrash, Fault, Types
<1>3. PICK last \in scan .. n : Persist(scan, last)
  BY <1>1 DEF IndexerCrash, Latest
<1>4. last \in Nat /\ last <= n /\ scan <= last
  BY <1>1, <1>3
<1>5. /\ orders' \in Table
      /\ applied' \in [Ledgers -> Nat]
      /\ \A l \in Ledgers : applied[l] > 0 => applied'[l] > 0
  BY <1>0, <1>1, <1>3, <1>4, PersistKeeps
<1>6. Types'
  BY <1>0, <1>2, <1>5 DEF Types, Watching
<1>7. Standing'
  <2>1. ASSUME NEW l \in 1 .. cursor - 1 PROVE applied'[l] > 0 \/ l \in skipped
    <3>1. l \in Ledgers
      BY <1>1 DEF Ledgers
    <3>2. applied[l] > 0 \/ l \in skipped
      BY <1>0 DEF Standing, NothingSkipped
    <3> QED
      BY <1>5, <3>1, <3>2
  <2>2. NothingSkipped'
    BY <1>2, <2>1 DEF NothingSkipped
  <2> QED
    BY <1>1, <1>2, <2>2 DEF Standing
<1>8. PICK h : /\ Tells(h)
               /\ skipped = {} => /\ Stands(orders, h, Point)
                                  /\ faults = 0 => orders = h[Point]
  BY <1>0 DEF Following
<1>9. Point = scan - 1 /\ Point' \in 0 .. n /\ Point' <= last
  BY <1>1, <1>2, <1>4 DEF Point
<1>10. ASSUME skipped' = {} PROVE Stands(orders', h, Point')
  <2>1. Stands(orders, h, scan - 1)
    BY <1>2, <1>8, <1>9, <1>10
  <2>2. Stands(orders', h, last)
    BY <1>0, <1>1, <1>3, <1>4, <1>8, <2>1, PageFollows
  <2>3. last \in 0 .. n
    BY <1>1, <1>4
  <2> QED
    BY <1>5, <1>8, <1>9, <2>2, <2>3, StandsBefore
<1>11. Following'
  BY <1>2, <1>8, <1>10, FollowingKept
<1> QED
  BY <1>0, <1>6, <1>7, <1>11, ChainStands DEF IInv

-----------------------------------------------------------------------------
(* The theorems *)

LEMMA Initially == Init => IInv
<1> SUFFICES ASSUME Init PROVE IInv
  OBVIOUS
<1> USE DEF Init, IndexInit
<1> DEFINE blank == [o \in Orders |-> NoRow]
<1>1. log = << >> /\ Len(log) = 0 /\ MaxLedgers \in Nat
  BY IndexerConstants
<1>2. blank \in Table
  BY DEF Table, NoRow, OrderRow
<1>3. Types
  BY <1>1, <1>2 DEF Types
<1>4. SettlementsFill
  BY <1>1 DEF SettlementsFill
<1>5. Standing
  BY <1>1 DEF Standing, NothingSkipped
<1>6. Following
  <2>1. Tells([l \in {0} |-> blank])
    <3>1. \A l \in 0 .. Len(log) : l = 0
      BY <1>1
    <3> QED
      BY <1>1, <1>2, <3>1 DEF Tells, NoRow
  <2>2. Stands(orders, [l \in {0} |-> blank], Point)
    BY DEF Stands, Point, NoRow
  <2>3. orders = [l \in {0} |-> blank][Point]
    BY DEF Point
  <2> QED
    BY <2>1, <2>2, <2>3 DEF Following
<1> QED
  BY <1>3, <1>4, <1>5, <1>6 DEF IInv

LEMMA QuietKeeps ==
    ASSUME IInv, UNCHANGED <<log, clob, indexVars>>, sent' \subseteq Pair
    PROVE  IInv'
<1>1. Types' /\ SettlementsFill' /\ Standing'
  BY DEF IInv, Types, SettlementsFill, Standing, NothingSkipped, indexVars
<1>2. Following'
  <2>1. PICK h : /\ Tells(h)
                 /\ skipped = {} => /\ Stands(orders, h, Point)
                                    /\ faults = 0 => orders = h[Point]
    BY DEF IInv, Following
  <2>2. Tells(h)'
    BY <2>1 DEF Tells
  <2>3. Point' = Point /\ UNCHANGED <<orders, skipped, faults>>
    BY DEF Point, indexVars
  <2>4. skipped = {} => Stands(orders, h, Point)'
    BY <2>1, <2>3 DEF Stands
  <2> QED
    BY <2>1, <2>2, <2>3, <2>4 DEF Following
<1> QED
  BY <1>1, <1>2 DEF IInv

LEMMA Invariance == IInv /\ [Next]_vars => IInv'
<1> SUFFICES ASSUME IInv, [Next]_vars PROVE IInv'
  OBVIOUS
<1>0. sent \subseteq Pair
  BY DEF IInv, Types
<1>1. ASSUME NEW o \in Orders, PlaceOrder(o) PROVE IInv'
  BY <1>0, <1>1, PlacingTells, TellingKeeps DEF PlaceOrder
<1>2. ASSUME NEW o \in Orders, CancelOrder(o) PROVE IInv'
  BY <1>0, <1>2, CancellingTells, TellingKeeps DEF CancelOrder
<1>3. ASSUME NEW o \in Orders, OrderExpires(o) PROVE IInv'
  BY <1>0, <1>3, QuietKeeps DEF OrderExpires
<1>4. ASSUME IndexerStep, UNCHANGED <<chainVars, todo, sent>> PROVE IInv'
  <2>1. Watching
    BY <1>4 DEF Watching, chainVars, IndexerStep, PollStep, StartTick, RangeError,
                FullPage, LastPage, RequestFails, IndexerCrash
  <2> QED
    BY <1>4, <2>1, StartKeeps, RangeErrorKeeps, FullPageKeeps, LastPageKeeps,
       FailingKeeps, CrashKeeps DEF IndexerStep, PollStep
<1>5. ASSUME NEW r \in Runs, MatcherTick(r) \/ NextPair(r) PROVE IInv'
  BY <1>0, <1>5, QuietKeeps DEF MatcherTick, NextPair, chainVars
<1>6. ASSUME NEW r \in Runs, NEW p \in Pair, Submit(r, p) PROVE IInv'
  BY <1>0, <1>6, QuietKeeps DEF Submit, chainVars
<1>7. ASSUME MatcherRestart PROVE IInv'
  BY <1>0, <1>7, QuietKeeps DEF MatcherRestart, chainVars
<1>8. ASSUME NEW p \in Pair, Settled(p) PROVE IInv'
  BY <1>0, <1>8, SettlingTells, TellingKeeps DEF Settled
<1>9. ASSUME NEW p \in Pair, NotSettled(p) PROVE IInv'
  BY <1>0, <1>9, QuietKeeps DEF NotSettled, chainVars
<1>10. ASSUME UNCHANGED vars PROVE IInv'
  BY <1>0, <1>10, QuietKeeps DEF vars, chainVars
<1> QED
  BY <1>1, <1>2, <1>3, <1>4, <1>5, <1>6, <1>7, <1>8, <1>9, <1>10 DEF Next

LEMMA Always == Spec => []IInv
BY Initially, Invariance, PTL DEF Spec

\* Whatever fails and wherever the process stops, every ledger behind the stored
\* cursor was applied to the store, or given up when the watcher's window or the
\* node's range left it behind.
THEOREM NoEventIsLost == Spec => []NothingSkipped
<1>1. IInv => NothingSkipped
  BY DEF IInv, Standing
<1> QED
  BY <1>1, Always, PTL

\* When the index has caught up without giving ledgers up, it shows each order as
\* the contract has it if no tick was cut short, and in any case shows no order
\* open that is gone, and none with more left than it has.
THEOREM IndexShowsTheBook == Spec => []BookFollowsChain
<1>1. IInv => BookFollowsChain
  <2> SUFFICES ASSUME IInv, CaughtUp, skipped = {}, NEW o \in Orders
               PROVE  /\ faults = 0 => orders[o] = clob[o]
                      /\ orders[o].left <= clob[o].left
                      /\ orders[o].status = "open" => clob[o].status = "open"
    BY DEF BookFollowsChain
  <2>1. PICK h : Tells(h) /\ Stands(orders, h, Point) /\ (faults = 0 => orders = h[Point])
    BY DEF IInv, Following
  <2>2. Point = Len(log)
    BY DEF IInv, Types, Point, CaughtUp, Latest
  <2>3. h[Point] = clob
    BY <2>1, <2>2 DEF Tells
  <2>4. clob[o].status # "none" => Below(orders[o], clob[o])
    BY <2>1, <2>3 DEF Stands
  <2>5. clob[o].status = "none" => orders[o] = NoRow /\ clob[o] = NoRow
    BY <2>1 DEF Stands, Tells
  <2> QED
    BY <2>1, <2>3, <2>4, <2>5 DEF Below, NoRow
<1> QED
  BY <1>1, Always, PTL

\* No pair of orders is settled twice, however often its settlement is sent: the
\* first one filled one of the two, and an order that is filled is not open again.
\* The step that would settle the pair again needs both of them open.
THEOREM NoPairSettlesTwice == Spec => []SettledOnce
<1>1. Init => SettledOnce
  BY DEF Init, IndexInit, SettledOnce
<1>2. IInv /\ SettledOnce /\ [Next]_vars => SettledOnce'
  <2> SUFFICES ASSUME IInv, SettledOnce, [Next]_vars PROVE SettledOnce'
    OBVIOUS
  <2>1. CASE log' = log
    BY <2>1 DEF SettledOnce
  <2>2. ASSUME NEW e, Tell(e),
               e.tag = "settled" => clob[e.buy].status = "open" /\ clob[e.sell].status = "open"
        PROVE  SettledOnce'
    <3>1. /\ log' \in Seq(Event) /\ Len(log') = Len(log) + 1
          /\ \A l \in 1 .. Len(log) : log'[l] = log[l]
          /\ log'[Len(log) + 1] = e
      BY <2>2, LogGrows DEF IInv
    <3>2. log \in Seq(Event) /\ Len(log) \in Nat /\ DOMAIN log = 1 .. Len(log)
          /\ DOMAIN log' = 1 .. Len(log) + 1
      BY <3>1 DEF IInv, Types
    <3>3. ASSUME NEW l \in 1 .. Len(log), log[l].tag = "settled", e.tag = "settled"
          PROVE  log[l].buy # e.buy \/ log[l].sell # e.sell
      <4>1. clob[log[l].buy].status = "filled" \/ clob[log[l].sell].status = "filled"
        BY <3>2, <3>3 DEF IInv, SettlementsFill
      <4> QED
        BY <2>2, <3>3, <4>1
    <3>4. ASSUME NEW l \in DOMAIN log', NEW m \in DOMAIN log', l < m,
                 log'[l].tag = "settled", log'[m].tag = "settled"
          PROVE  log'[l].buy # log'[m].buy \/ log'[l].sell # log'[m].sell
      <4>1. l \in 1 .. Len(log)
        BY <3>2, <3>4
      <4>2. CASE m = Len(log) + 1
        BY <3>1, <3>3, <3>4, <4>1, <4>2
      <4>3. CASE m \in 1 .. Len(log)
        <5>1. log'[l] = log[l] /\ log'[m] = log[m] /\ l \in DOMAIN log /\ m \in DOMAIN log
          BY <3>1, <3>2, <4>1, <4>3
        <5> QED
          BY <3>4, <5>1 DEF SettledOnce
      <4> QED
        BY <3>2, <3>4, <4>2, <4>3
    <3> QED
      BY <3>4 DEF SettledOnce
  <2>3. ASSUME NEW o \in Orders, PlaceOrder(o) PROVE SettledOnce'
    BY <2>2, <2>3, PlacingTells
  <2>4. ASSUME NEW o \in Orders, CancelOrder(o) PROVE SettledOnce'
    BY <2>2, <2>4, CancellingTells
  <2>5. ASSUME NEW p \in Pair, Settled(p) PROVE SettledOnce'
    <3>1. Settle(p) /\ clob[p.buy].status = "open" /\ clob[p.sell].status = "open"
      BY <2>5 DEF Settled, Settle, CanSettle, Live
    <3> QED
      BY <2>2, <3>1, SettlingTells
  <2>6. ASSUME NEW o \in Orders, OrderExpires(o) PROVE log' = log
    BY <2>6 DEF OrderExpires
  <2>7. ASSUME IndexerStep PROVE log' = log
    BY <2>7 DEF IndexerStep, PollStep, StartTick, RangeError, FullPage, LastPage,
                RequestFails, IndexerCrash
  <2>8. ASSUME NEW r \in Runs, MatcherTick(r) \/ NextPair(r) PROVE log' = log
    BY <2>8 DEF MatcherTick, NextPair
  <2>9. ASSUME NEW r \in Runs, NEW p \in Pair, Submit(r, p) PROVE log' = log
    BY <2>9 DEF Submit
  <2>10. MatcherRestart \/ UNCHANGED vars => log' = log
    BY DEF MatcherRestart, vars
  <2>11. ASSUME NEW p \in Pair, NotSettled(p) PROVE log' = log
    BY <2>11 DEF NotSettled
  <2> QED
    BY <2>1, <2>3, <2>4, <2>5, <2>6, <2>7, <2>8, <2>9, <2>10, <2>11 DEF Next
<1> QED
  BY <1>1, <1>2, Always, PTL DEF Spec
=============================================================================
