------------------------------- MODULE Charts -------------------------------
(***************************************************************************)
(* What the price chart shows: candles, from the indexer's recorded prices *)
(* (packages/indexer/src/api.ts and db.ts) or from a public source         *)
(* (packages/frontend/src/hooks/useBinanceOHLC.ts), and the indicators     *)
(* over them (packages/frontend/src/charting/indicators.ts).               *)
(*                                                                         *)
(* Numbers are integers: an average over n values is given as their sum,   *)
(* and what is divided again and again as a numerator over the power that  *)
(* its comment names.                                                      *)
(***************************************************************************)
EXTENDS Integers, Sequences, SequencesExt, FiniteSetsExt

Row(time, price) == [time |-> time, price |-> price]

Candle(time, o, h, l, c) == [time |-> time, open |-> o, high |-> h, low |-> l, close |-> c]

Flat(time, price) == Candle(time, price, price, price, price)

Times(candles) == [i \in DOMAIN candles |-> candles[i].time]

LastOf(s, limit) == SubSeq(s, Max({1, Len(s) - limit + 1}), Len(s))

-----------------------------------------------------------------------------
(* The indexer's candles *)

\* The newest rows of a feed, newest first: by time, then in the order recorded.
ListOraclePrices(rows, limit) == Reverse(LastOf(rows, limit))

Bucket(time, interval) == (time \div interval) * interval

\* A row joins the candle of its bucket or begins it.
Joined(candle, row) ==
    [candle EXCEPT !.high = Max({@, row.price}), !.low = Min({@, row.price}),
                   !.close = row.price]

InBucket(rows, interval, t) == SelectSeq(rows, LAMBDA r : Bucket(r.time, interval) = t)

Drawn(rows, t) == FoldLeft(Joined, Flat(t, rows[1].price), rows)

\* Buckets without rows, between the first and the last that have some, repeat
\* the last close before them.
ToCandles(newestFirst, interval, limit) ==
    LET rows == Reverse(newestFirst)
        from == Bucket(rows[1].time, interval)
        count == (Bucket(rows[Len(rows)].time, interval) - from) \div interval + 1
        time(i) == from + (i - 1) * interval
        candle[i \in 1 .. count] ==
            LET here == InBucket(rows, interval, time(i))
            IN  IF here = <<>> THEN Flat(time(i), candle[i - 1].close)
                               ELSE Drawn(here, time(i))
    IN  IF rows = <<>> THEN <<>> ELSE LastOf(candle, limit)

\* The change over the hourly candles fetched, over the first one's open.
RwaTickerChange(candles) ==
    <<candles[Len(candles)].close - candles[1].open, candles[1].open>>

-----------------------------------------------------------------------------
(* Candles of public sources *)

\* The first candle of each time stays.
FirstOfEach(candles) ==
    LET first(i) == \A j \in 1 .. i - 1 : candles[j].time # candles[i].time
        kept == SelectSeq([i \in DOMAIN candles |-> i], first)
    IN  [i \in DOMAIN kept |-> candles[kept[i]]]

ByTime(candles) == SortSeq(candles, LAMBDA a, b : a.time < b.time)

\* Where a column is short its close stands in; a candle without close is left out.
PythCandle(time, o, h, l, c) ==
    LET or(x) == IF x = 0 THEN c ELSE x IN Candle(time, or(o), or(h), or(l), c)

FetchPythBenchmarkOHLC(candles, limit) ==
    LastOf(ByTime(FirstOfEach(SelectSeq(candles, LAMBDA c : c.close > 0))), limit)

FetchCoinGeckoOHLC(candles) == FirstOfEach(ByTime(candles))

-----------------------------------------------------------------------------
(* Indicators: functions from the index of a candle to a number *)

Closes(candles) == [i \in DOMAIN candles |-> candles[i].close]

Total(f, from, to) == FoldLeft(LAMBDA a, b : a + b, 0, SubSeq(f, from, to))

\* Times the period.
Sma(c, period) == [i \in period .. Len(c) |-> Total(c, i - period + 1, i)]

\* Over (period + 1) to the power of i - 1.
EmaValues(c, period) ==
    LET e[i \in 1 .. Len(c)] ==
            IF i = 1 THEN c[1]
            ELSE 2 * c[i] * (period + 1) ^ (i - 2) + (period - 1) * e[i - 1]
    IN  e

Ema(c, period) == [i \in period .. Len(c) |-> EmaValues(c, period)[i]]

\* The variance, times the square of the period; the bands lie around the mean
\* at a multiple of its root.
Variance(c, period) ==
    [i \in period .. Len(c) |->
        period * FoldLeft(LAMBDA a, x : a + x * x, 0, SubSeq(c, i - period + 1, i))
            - Sma(c, period)[i] ^ 2]

Gain(c, i) == Max({0, c[i] - c[i - 1]})
Loss(c, i) == Max({0, c[i - 1] - c[i]})

\* Sums of gains and of losses, over equal powers of the period.  The change of
\* the first candle shown is in the first average and is added to it once more.
Smoothed(change(_, _), c, period) ==
    LET first == FoldLeft(LAMBDA a, i : a + change(c, i), 0,
                          [i \in 1 .. period |-> i + 1])
        avg[i \in period .. Len(c)] ==
            IF i = period THEN first
            ELSE avg[i - 1] * (period - 1) + change(c, i) * period ^ (i - period)
    IN  avg

\* Gain and loss: the index is 100 times the gain over both, or 100 without losses.
Rsi(c, period) ==
    [i \in period + 1 .. Len(c) |->
        [gain |-> Smoothed(Gain, c, period)[i], loss |-> Smoothed(Loss, c, period)[i]]]

\* Candles of the line and of the histogram: from the first that the slow average,
\* and then the signal over the line, is defined for.
MacdFrom(slow) == slow
HistogramFrom(slow, signal) == slow + signal - 1

\* Over all volume so far; the typical price times 3 where there is none.
Vwap(candles, volume) ==
    LET typical3(i) == candles[i].high + candles[i].low + candles[i].close
        sum[i \in 0 .. Len(candles)] ==
            IF i = 0 THEN <<0, 0>>
            ELSE <<sum[i - 1][1] + typical3(i) * volume[i], sum[i - 1][2] + volume[i]>>
    IN  [i \in DOMAIN candles |->
            IF sum[i][2] > 0 THEN sum[i] ELSE <<typical3(i), 1>>]

-----------------------------------------------------------------------------
(* Checked over all short histories *)

Ascending(s) == \A i \in 1 .. Len(s) - 1 : s[i] < s[i + 1]
LowestOf(s) == Min(Range(s))
HighestOf(s) == Max(Range(s))

RowLists == UNION {{[i \in 1 .. n |-> Row(t[i], p[i])] :
                       t \in {f \in [1 .. n -> 0 .. 4] : \A i \in 1 .. n - 1 : f[i] <= f[i + 1]},
                       p \in [1 .. n -> {1, 3}]} : n \in 1 .. 4}

\* The last price at or before the end of a candle.
PriceAt(rows, time) ==
    LET i == Max({j \in DOMAIN rows : rows[j].time <= time}) IN rows[i].price

\* The candles follow each other without a gap up to the last price recorded, each
\* closes on the last price known by its end, holds every price of its time, and
\* is no longer than asked.
ASSUME CandlesTellTheHistory ==
    \A rows \in RowLists, interval \in {1, 2}, limit \in {2, 9} :
        LET candles == ToCandles(ListOraclePrices(rows, 9), interval, limit)
        IN  /\ Len(candles) <= limit
            /\ candles[Len(candles)].time = Bucket(rows[Len(rows)].time, interval)
            /\ \A i \in 2 .. Len(candles) :
                   candles[i].time = candles[i - 1].time + interval
            /\ \A i \in DOMAIN candles :
                   LET c == candles[i]
                   IN  /\ c.close = PriceAt(rows, c.time + interval - 1)
                       /\ {c.open, c.close} \subseteq c.low .. c.high
                       /\ \A r \in Range(rows) :
                              Bucket(r.time, interval) = c.time => r.price \in c.low .. c.high

\* The recorded prices are cut before they are drawn: the first candle may lack
\* the prices of its time that were cut.
ASSUME FirstCandleMayBeCut ==
    \E rows \in RowLists :
        ToCandles(ListOraclePrices(rows, 2), 2, 9)[1].open # ToCandles(Reverse(rows), 2, 9)[1].open

\* What the chart is given ascends strictly, whatever the source repeats or
\* misorders, and holds one candle of every time there is, the newest ones.
ASSUME ChartsAscend ==
    \A ts \in UNION {[1 .. n -> 1 .. 3] : n \in 0 .. 4}, gap \in 0 .. 3 :
        LET candles == [i \in DOMAIN ts |-> PythCandle(ts[i], 0, 2, 0, IF i = gap THEN 0 ELSE 1)]
            pyth == Times(FetchPythBenchmarkOHLC(candles, 2))
            gecko == Times(FetchCoinGeckoOHLC(candles))
        IN  /\ Ascending(pyth) /\ Ascending(gecko)
            /\ Range(gecko) = Range(ts)
            /\ \A t \in {ts[i] : i \in DOMAIN ts \ {gap}} :
                   t \in Range(pyth) \/ \A u \in Range(pyth) : t < u

CloseLists == [1 .. 5 -> 1 .. 3]

\* Averages lie between the lowest and the highest close they are over, and a
\* flat market has no variance.
ASSUME AveragesLieBetween ==
    \A c \in CloseLists, period \in 2 .. 3 :
        /\ \A i \in period .. 5 :
               LET window == SubSeq(c, i - period + 1, i)
               IN  /\ Sma(c, period)[i] >= period * LowestOf(window)
                   /\ Sma(c, period)[i] <= period * HighestOf(window)
                   /\ Variance(c, period)[i] >= 0
                   /\ (Variance(c, period)[i] = 0) = (LowestOf(window) = HighestOf(window))
        /\ \A i \in DOMAIN Ema(c, period) :
               LET unit == (period + 1) ^ (i - 1)
               IN  /\ Ema(c, period)[i] >= unit * LowestOf(SubSeq(c, 1, i))
                   /\ Ema(c, period)[i] <= unit * HighestOf(SubSeq(c, 1, i))

\* The strength index is that of the gains and losses so far: 100 when nothing
\* ever fell (also when nothing moved), 0 when nothing ever rose.
ASSUME StrengthFollowsTheMoves ==
    \A c \in CloseLists, period \in 2 .. 3, i \in 4 .. 5 :
        LET r == Rsi(c, period)[i]
        IN  /\ (r.loss = 0) = (\A j \in 2 .. i : c[j] >= c[j - 1])
            /\ (r.gain = 0) = (\A j \in 2 .. i : c[j] <= c[j - 1])

\* The line and the histogram begin where their averages do.
ASSUME HistogramIsOnTheLine ==
    \A slow \in 1 .. 3, signal \in 1 .. 3 :
        /\ HistogramFrom(slow, signal) >= MacdFrom(slow)
        /\ HistogramFrom(slow, signal) - MacdFrom(slow) + 1 = signal

\* The volume-weighted price lies between the lowest low and the highest high, also
\* before any volume.
ASSUME VwapLiesBetween ==
    \A c \in [1 .. 3 -> {<<1, 1, 1>>, <<2, 4, 3>>, <<1, 5, 5>>}], volume \in [1 .. 3 -> 0 .. 2] :
        LET candles == [i \in 1 .. 3 |-> Candle(i, c[i][1], c[i][2], c[i][1], c[i][3])]
            v == Vwap(candles, volume)
        IN  \A i \in 1 .. 3 :
                /\ v[i][1] >= 3 * v[i][2] * LowestOf([j \in 1 .. i |-> candles[j].low])
                /\ v[i][1] <= 3 * v[i][2] * HighestOf([j \in 1 .. i |-> candles[j].high])
=============================================================================
