------------------------------- MODULE Health -------------------------------
(***************************************************************************)
(* What the operators are told.  The keeper's /health reports on its       *)
(* workers (packages/keeper/src/worker.ts and health.ts); the indexer's    *)
(* /health/feeds reports on the prices it has recorded, and the web client *)
(* shows it as a coloured dot (packages/indexer/src/api.ts,                *)
(* packages/frontend/src/ui/FeedHealthDot.tsx).                            *)
(***************************************************************************)
EXTENDS Integers, Sequences, SequencesExt, FiniteSets

StalenessLimit == 2    \* oracleStalenessMs, in ticks
Freshness == 2         \* feedFreshnessMs
RunsToReport == 3      \* runs a worker gets before its failures are reported

Never == -1

\* A tick ends well, fails, or overruns twice its interval; the n-th starts at n.
Outcomes == {"ok", "fails", "overruns"}

\* What a worker keeps of its ticks.
Status(ticks) ==
    FoldLeft(LAMBDA s, outcome :
                 [runs |-> s.runs + 1,
                  errors |-> IF outcome = "ok" THEN s.errors ELSE s.errors + 1,
                  failing |-> outcome # "ok",
                  lastOk |-> IF outcome = "ok" THEN s.runs + 1 ELSE s.lastOk],
             [runs |-> 0, errors |-> 0, failing |-> FALSE, lastOk |-> Never], ticks)

\* A worker is reported for its failures only while it has never succeeded.
Failing(s) ==
    s.errors > 0 /\ s.failing /\ s.lastOk = Never /\ s.runs >= RunsToReport

OracleStale(s, now) ==
    IF s.lastOk = Never THEN s.runs > 0 ELSE now - s.lastOk > StalenessLimit

\* The issues of a report: the balance of the account, the worker that pushes
\* prices, and the failing ones.  A balance that cannot be read is no issue.
BuildReport(workers, oracle, balance, minimum, now) ==
    (IF balance # Never /\ balance < minimum THEN {"balance"} ELSE {}) \cup
    (IF oracle \in DOMAIN workers /\ OracleStale(workers[oracle], now)
         THEN {"stale"} ELSE {}) \cup
    {w \in DOMAIN workers : Failing(workers[w])}

-----------------------------------------------------------------------------
\* The latest package of a feed, or Never; one from the future is not fresh.
FeedFresh(stamp, now) == stamp # Never /\ now - stamp \in 0 .. Freshness - 1

FeedsHealth(stamps, now) ==
    [ok |-> \A f \in DOMAIN stamps : FeedFresh(stamps[f], now),
     stale |-> {f \in DOMAIN stamps : ~FeedFresh(stamps[f], now)}]

DotColor(reachable, health) ==
    IF ~reachable THEN "red" ELSE IF health.ok THEN "green" ELSE "amber"

-----------------------------------------------------------------------------
Histories == UNION {[1 .. n -> Outcomes] : n \in 0 .. 5}

ReportOf(ticks) ==
    BuildReport([w \in {"pusher"} |-> Status(ticks)], "pusher", Never, 1, Len(ticks))
OtherReportOf(ticks) ==
    BuildReport([w \in {"other"} |-> Status(ticks)], "pusher", Never, 1, Len(ticks))

\* The worker that pushes prices is reported whenever its last success is too long
\* ago or has never been; any other worker is reported until its first success and
\* never after it, however long it fails.
ASSUME FailuresAreReported ==
    \A ticks \in Histories :
        LET good == {i \in DOMAIN ticks : ticks[i] = "ok"}
        IN  /\ "stale" \in ReportOf(ticks) <=>
                   /\ ticks # <<>>
                   /\ \A i \in good : Len(ticks) - i > StalenessLimit
            /\ OtherReportOf(ticks) =
                   IF good = {} /\ Len(ticks) >= RunsToReport THEN {"other"} ELSE {}

\* The dot is green only when every feed is fresh; before any price is recorded it
\* is amber, and without feeds green.
ASSUME DotTellsFreshness ==
    \A stamps \in [{1, 2} -> -1 .. 4], reachable \in BOOLEAN :
        LET dot == DotColor(reachable, FeedsHealth(stamps, 3))
        IN  /\ dot = "green" <=> reachable /\ \A f \in {1, 2} : stamps[f] \in {2, 3}
            /\ reachable /\ (\A f \in {1, 2} : stamps[f] = Never) => dot = "amber"
=============================================================================
