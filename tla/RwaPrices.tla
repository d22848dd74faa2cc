----------------------------- MODULE RwaPrices -----------------------------
(***************************************************************************)
(* The price of a real-world asset.  The keeper asks several sources,      *)
(* keeps the quotes that are fresh and agree, and pushes one price to the  *)
(* oracle (packages/keeper/src/rwa-nav.ts and sources/rwa-prices.ts).  The *)
(* web client takes the first source that has a price                      *)
(* (packages/frontend/src/pyth.ts and hooks/useRwaPrice.ts).               *)
(*                                                                         *)
(* Time counts in steps that stand for the code's milliseconds, prices in  *)
(* cents, and 0 stands for a number that was not found or was no price.    *)
(***************************************************************************)
EXTENDS Integers, Sequences, SequencesExt, FiniteSetsExt

MaxQuoteAge == 360     \* of a quote when it is fetched, 6 hours
MaxAge == 5            \* of a quote when it is selected, 5 minutes
ClockSkew == 1         \* ahead of the keeper's clock, 1 minute
MaxDeviation == 100    \* from the median, in basis points
StaleAfter == 10       \* 10 minutes, in the web client
PerSecond == 3         \* steps a second
MillisFrom == 1000     \* larger numbers are taken for milliseconds

Quote(price, ts) == [price |-> price, ts |-> ts]

IsValidQuote(q, now) ==
    q.price > 0 /\ q.ts > now - MaxQuoteAge /\ q.ts <= now + ClockSkew

\* Fetchers return the quote they found, if it is valid; they never throw.
Quoted(price, ts, now) ==
    IF price > 0 /\ IsValidQuote(Quote(price, ts), now) THEN <<Quote(price, ts)>> ELSE <<>>

OrNow(ts, now) == IF ts = 0 THEN now ELSE ts

-----------------------------------------------------------------------------
(* What a source answers: Down, or the price and time it gives *)

Down == [up |-> FALSE]
Answer(price, ts) == [up |-> TRUE, price |-> price, ts |-> ts]

FetchCoinGecko(answer, now) ==
    IF answer = Down THEN <<>>
    ELSE Quoted(answer.price, OrNow(answer.ts * PerSecond, now), now)

FetchCoinMarketCap(answer, key, now) ==
    IF ~key \/ answer = Down THEN <<>>
    ELSE Quoted(answer.price, OrNow(answer.ts, now), now)

\* The issuers answer any JSON: numbers, texts, which may hold a number or a
\* date, and objects with named fields in an order.
Number(n) == [kind |-> "number", n |-> n]
Text(n, date) == [kind |-> "text", n |-> n, date |-> date]
Object(fields) == [kind |-> "object", fields |-> fields]

NavPriceKeys == <<"nav", "price">>
NavTsKeys == <<"ts", "asOf">>

FirstFound(found) ==
    LET hits == SelectSeq(found, LAMBDA n : n > 0) IN IF hits = <<>> THEN 0 ELSE Head(hits)

\* The fields of these names, then all fields: where a value is looked for.
Places(v, keys) ==
    FlattenSeq([i \in DOMAIN keys |->
        SelectSeq(v.fields, LAMBDA f : f[1] = keys[i])]) \o v.fields

RECURSIVE PickNumber(_)
PickNumber(v) ==
    IF v.kind # "object" THEN v.n
    ELSE LET at == Places(v, NavPriceKeys)
         IN  FirstFound([i \in DOMAIN at |-> PickNumber(at[i][2])])

RECURSIVE PickTs(_)
PickTs(v) ==
    CASE v.kind = "text" -> v.date
      [] v.kind = "number" -> IF v.n > MillisFrom THEN v.n ELSE v.n * PerSecond
      [] OTHER -> LET at == Places(v, NavTsKeys)
                  IN  FirstFound([i \in DOMAIN at |-> PickTs(at[i][2])])

FetchOndoNav(body, now) ==
    IF body = Down THEN <<>> ELSE Quoted(PickNumber(body), OrNow(PickTs(body), now), now)

\* A page that is no JSON is one text.
FetchFranklinNav(body, now) == FetchOndoNav(body, now)

-----------------------------------------------------------------------------
(* One price from the quotes *)

\* In half cents: twice the middle price, or the sum of the two in the middle.
Median2(prices) ==
    LET sorted == SortSeq(prices, <)
        m == Len(sorted) \div 2
    IN  IF Len(sorted) % 2 = 0 THEN sorted[m] + sorted[m + 1] ELSE 2 * sorted[m + 1]

Prices(quotes) == [i \in DOMAIN quotes |-> quotes[i].price]

FreshQuotes(quotes, now) ==
    SelectSeq(quotes, LAMBDA q : q.ts >= now - MaxAge /\ q.price > 0)

Near(price, candidate2) ==
    Max({2 * price - candidate2, candidate2 - 2 * price}) * 10000
        <= candidate2 * MaxDeviation

\* The quotes that count: the fresh ones near their median; a lone one counts.
Survivors(quotes, now) ==
    LET fresh == FreshQuotes(quotes, now)
    IN  IF Len(fresh) <= 1 THEN fresh
        ELSE SelectSeq(fresh, LAMBDA q : Near(q.price, Median2(Prices(fresh))))

\* Without them the price is a fixed one, of now.
Sample(quotes, static, now) ==
    LET s == Survivors(quotes, now)
    IN  IF s = <<>>
            THEN [price2 |-> 2 * static, ts |-> now, source |-> "static"]
            ELSE [price2 |-> Median2(Prices(s)), source |-> "live",
                  ts |-> Max({s[i].ts : i \in DOMAIN s})]

-----------------------------------------------------------------------------
(* In the web client: what each source has, and the first that has something *)

\* A source without a feed for the asset, an answer or a price has nothing.
FetchPythRwaData(feed, answer) ==
    IF ~feed \/ answer = Down THEN <<>>
    ELSE <<[price |-> answer.price, ts |-> answer.ts, vaa |-> TRUE]>>

\* Where Lazer gives no time it is the time of the answer.
ParseLazerBody(answer, now) ==
    IF answer.price = 0 THEN <<>>
    ELSE <<[price |-> answer.price, ts |-> OrNow(answer.ts, now), vaa |-> FALSE]>>

FetchPythLazerData(feed, token, answer, now) ==
    IF ~feed \/ ~token \/ answer = Down THEN <<>> ELSE ParseLazerBody(answer, now)

OraclePrice(answer) ==
    IF answer = Down \/ answer.price = 0 THEN <<>>
    ELSE <<[price |-> answer.price, ts |-> answer.ts, vaa |-> FALSE]>>

\* The ticker does not say how old it is.
NoAge == -1
TickerPrice(answer) ==
    IF answer = Down THEN <<>> ELSE <<[price |-> answer.price, ts |-> NoAge, vaa |-> FALSE]>>

IsStale(d, now) == d.ts # NoAge /\ now - d.ts > StaleAfter

UseRwaPrice(pyth, lazer, oracle, ticker) == pyth \o lazer \o oracle \o ticker

\* The form opens no position on a stale price, unless it can bring the signed
\* update along.
OracleBlocked(sources, now) ==
    sources # <<>> /\ IsStale(Head(sources), now) /\ ~Head(sources).vaa

-----------------------------------------------------------------------------
(* Checked for all quotes of up to four sources, old and new *)

Now == 1500
SomeQuotes == {Quote(p, Now - age) : p \in {100, 101, 110}, age \in {0, 6}}
SomeLists == UNION {[1 .. n -> SomeQuotes] : n \in 0 .. 4}

\* The price is one the sources gave or lies between two of them, and none that
\* counts is further off than the tolerance.
ASSUME LivePriceIsBetweenSources ==
    \A quotes \in SomeLists :
        LET s == Sample(quotes, 50, Now)
            counted == Survivors(quotes, Now)
        IN  s.source = "live" =>
                /\ \E i, j \in DOMAIN counted :
                       2 * counted[i].price <= s.price2 /\ s.price2 <= 2 * counted[j].price
                /\ \A i \in DOMAIN counted : Now - counted[i].ts <= MaxAge

\* One source that is far off, among three fresh ones or more, moves nothing.
ASSUME OutlierMovesNothing ==
    \A quotes \in [1 .. 3 -> {Quote(100, Now), Quote(101, Now)}], at \in 1 .. 4 :
        Sample(InsertAt(quotes, at, Quote(110, Now)), 50, Now).price2 \in 200 .. 202

\* Two sources that disagree are as good as none: the fixed price is used while
\* both answer.
ASSUME TwoThatDisagreeAreDropped ==
    Sample(<<Quote(100, Now), Quote(110, Now)>>, 50, Now).source = "static"

\* An issuer's answer is found by its name wherever it is, and a text with a
\* number counts.  Without a time, the price is read as the time, and the quote
\* is dropped as too old.
ASSUME NavIsFoundByName ==
    LET nav == <<"nav", Number(112)>>
        id == <<"id", Number(7)>>
        asOf == <<"asOf", Text(0, Now)>>
    IN  /\ \A body \in {Object(<<id, nav, asOf>>), Object(<<asOf, id, nav>>),
                        Object(<<id, <<"data", Object(<<nav, asOf>>)>>, asOf>>)} :
               PickTs(body) = Now
        /\ FetchOndoNav(Object(<<id, nav, asOf>>), Now) = <<Quote(112, Now)>>
        /\ FetchOndoNav(Object(<<<<"price", Text(112, 0)>>, asOf>>), Now)
               = <<Quote(112, Now)>>
        /\ FetchOndoNav(Object(<<nav>>), Now) = <<>>
        /\ FetchFranklinNav(Text(0, 0), Now) = <<>>
        /\ FetchOndoNav(Down, Now) = <<>>

\* The keeper's live sources agree on what is no quote at all.
ASSUME NoQuoteWithoutAPrice ==
    \A ts \in {0, 1, Now} :
        /\ FetchCoinGecko(Answer(0, ts), Now) = <<>>
        /\ FetchCoinMarketCap(Answer(0, ts), TRUE, Now) = <<>>
        /\ FetchCoinMarketCap(Answer(100, ts), FALSE, Now) = <<>>

\* A form is blocked only by a price that is old, and never when the price comes
\* with a signed update or from the ticker; but a stale price of an earlier
\* source hides a fresh one of a later source.
ASSUME BlockedOnlyWhenStale ==
    LET answers == {Down, Answer(0, 1), Answer(100, Now), Answer(101, Now - 11)}
    IN  \A p, l, o, t \in answers, feed \in BOOLEAN :
            LET sources == UseRwaPrice(FetchPythRwaData(feed, p),
                               FetchPythLazerData(feed, TRUE, l, Now), OraclePrice(o),
                               TickerPrice(t))
            IN  OracleBlocked(sources, Now) =>
                    /\ ~(feed /\ p # Down)
                    /\ \E a \in {l, o} : a # Down /\ Now - a.ts > StaleAfter

ASSUME StaleHidesFresh ==
    OracleBlocked(UseRwaPrice(<<>>, FetchPythLazerData(TRUE, TRUE, Answer(101, 1), Now),
                              OraclePrice(Answer(100, Now)), <<>>), Now)
=============================================================================
