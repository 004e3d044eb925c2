--------------------------- MODULE HistoricalRun ---------------------------
(***************************************************************************)
(* The historical replay (historical_runner.py, full_job.py): every        *)
(* boundary of the range is evaluated once for each score threshold, each  *)
(* threshold with a history of its own; an admitted signal is simulated    *)
(* over the minutes that follow, and the run is judged by the walk-forward *)
(* evaluation.                                                             *)
(***************************************************************************)
EXTENDS ReplayStore, TradeSimulator, WalkForward

CONSTANTS
    Setups,              \* the terms an admitted signal can have
    Scores,              \* the setup scores a boundary can have
    RunRanges,           \* the start and the end of a run
    RunLookback,         \* candles a market view holds: 200 in the code
    ReplayCooldown       \* SignalPolicy.cooldown, in minutes

ASSUME RunAssumption ==
    /\ \A t \in Setups : ValidTerms(t) /\ t.entry_low > 0
    /\ \A r \in RunRanges : r[1] \in Nat /\ r[2] \in Nat
    /\ RunLookback \in Limits /\ ReplayCooldown \in Nat \ {0}
    /\ \A h \in Histories : \A i \in DOMAIN h : h[i] # NoCandle => ValidCandle(h[i])

VARIABLES
    runStage,     \* "idle", "replay", "evaluate", "reported" or "raised"
    range,        \* the run's start and end
    upcoming,     \* the boundaries still to evaluate
    paths,        \* per threshold: trades and history of its path
    report        \* what the evaluation found, << >> before

runVars == <<runStage, range, upcoming, paths, report>>
replayVars == <<storeVars, runVars>>

NewPath == [fixed |-> <<>>, managed |-> <<>>, last_signal_at |-> -1, managed_active_until |-> -1]

ReplayInit ==
    /\ StoreInit
    /\ runStage = "idle"
    /\ range = <<0, 0>> /\ upcoming = {}
    /\ paths = [threshold \in Thresholds |-> NewPath]
    /\ report = <<>>

----------------------------------------------------------------------------
(* _simulate: both tracks over the stream of minutes. *)

\* The minutes iter_candles yields before a gap.
StreamEnd(from, end) == Min({i \in from..end : i = end \/ history[i] = NoCandle})

\* A gap raises when the candle behind it is reached, or when there is none at
\* all; candles that merely end do not.
StreamBroken(from, end) ==
    /\ StreamEnd(from, end) < end
    /\ \/ StreamEnd(from, end) = from
       \/ \E i \in StreamEnd(from, end)..(end - 1) : history[i] # NoCandle

Replayed(t, created, variant, end) ==
    LET replay[i \in (created - 1)..(StreamEnd(created, end) - 1)] ==
            IF i < created THEN NewReplay(t, created)
            ELSE Advance(t, created, variant, replay[i - 1], i, history[i])
    IN  replay[StreamEnd(created, end) - 1]

Simulated(t, created, end) ==
    LET fixed == Replayed(t, created, "FIXED", end)
        managed == Replayed(t, created, "MANAGED", end)
        unavailable == Max({fixed.next_open, managed.next_open, created + 1})
        now == OpenOf(IF StreamBroken(created, end) THEN unavailable ELSE end)
    IN  [fixed |-> Finish(fixed, now), managed |-> Finish(managed, now)]

----------------------------------------------------------------------------
(* One boundary. *)

\* Mutation: the end of a trade is not waited for.
NeverActive(path, c) == FALSE

ManagedActive(path, c) == path.managed_active_until # -1 /\ OpenOf(c) < path.managed_active_until

\* SignalEngine.evaluate, as far as it depends on the history: the analysis and
\* the risk at c are the same for every threshold.
Admitted(path, threshold, score, blocked, c) ==
    /\ score >= threshold
    /\ ~blocked
    /\ ~ManagedActive(path, c)
    /\ path.last_signal_at # -1 => c - path.last_signal_at >= ReplayCooldown

Kept(trade, t, c, score) ==
    [outcome |-> trade.outcome, terminal_at |-> trade.terminal_at, entry |-> trade.entry,
     exit |-> trade.exit, net |-> trade.net,
     id |-> c, created_at |-> OpenOf(c), score |-> score, terms |-> t]

PathAfter(path, threshold, score, blocked, t, c) ==
    IF ~Admitted(path, threshold, score, blocked, c) THEN path
    ELSE LET trades == Simulated(t, c, range[2])
         IN  [fixed                |-> Append(path.fixed, Kept(trades.fixed, t, c, score)),
              managed              |-> Append(path.managed, Kept(trades.managed, t, c, score)),
              last_signal_at       |-> c,
              managed_active_until |-> trades.managed.terminal_at]

\* market_view: the series of every interval, or no view.
HasView(c) == \A k \in Resampled : ClosedAt(k, c) # {}

Viewed(c) ==
    [q \in DOMAIN seriesCache |->
        IF q[2] = RunLookback /\ ClosedAt(q[1], c) # {}
        THEN SeriesAt(seriesCache, q[1], c, q[2]) ELSE seriesCache[q]]

AllAccepted(trades) ==
    \A n \in DOMAIN trades : TradeAccepted(trades[n].created_at \div 2, trades[n])

\* The boundaries are taken in order.
NextBoundary == Min(upcoming)

BeginRun ==
    /\ Imported /\ runStage = "idle" /\ seriesCache = EmptyCache
    /\ \E r \in RunRanges :
          /\ 0 <= r[1] /\ r[1] < r[2] /\ r[2] <= CoverageStop
          /\ range' = r
          /\ upcoming' = CandidateTimes(r[1], r[2])
    /\ runStage' = "replay"
    /\ UNCHANGED <<storeVars, paths, report>>

\* A boundary before the longest interval has closed once is rejected for all.
WarmUp ==
    /\ runStage = "replay" /\ upcoming # {}
    /\ ~HasView(NextBoundary)
    /\ upcoming' = upcoming \ {NextBoundary}
    /\ seriesCache' = Viewed(NextBoundary)
    /\ UNCHANGED <<history, rows, native, answer, runStage, range, paths, report>>

EvaluateBoundary ==
    /\ runStage = "replay" /\ upcoming # {}
    /\ HasView(NextBoundary)
    /\ \E t \in Setups, score \in Scores, blocked \in BOOLEAN :
          paths' = [threshold \in Thresholds |->
                      PathAfter(paths[threshold], threshold, score, blocked, t, NextBoundary)]
    /\ runStage' = IF \A threshold \in Thresholds : /\ AllAccepted(paths'[threshold].fixed)
                                                    /\ AllAccepted(paths'[threshold].managed)
                   THEN "replay" ELSE "raised"
    /\ upcoming' = upcoming \ {NextBoundary}
    /\ seriesCache' = Viewed(NextBoundary)
    /\ UNCHANGED <<history, rows, native, answer, range, report>>

\* The run is generated at the end of its range.
EvaluateRun ==
    /\ runStage = "replay" /\ upcoming = {}
    /\ LET fixed == [threshold \in Thresholds |-> paths[threshold].fixed]
           managed == [threshold \in Thresholds |-> paths[threshold].managed]
       IN  IF ComparisonValid(fixed, managed, OpenOf(range[1]), OpenOf(range[2]), OpenOf(range[2]))
           THEN /\ report' = [fixed |-> Evaluation(fixed), managed |-> Evaluation(managed),
                              pairs |-> CompletedPairs(fixed, managed)]
                /\ runStage' = "reported"
           ELSE runStage' = "raised" /\ UNCHANGED report
    /\ UNCHANGED <<storeVars, range, upcoming, paths>>

\* The store is a file of the run's own, but its reader may ask it anything first.
ReplayNext ==
    \/ runStage = "idle" /\ StoreNext /\ UNCHANGED runVars
    \/ BeginRun \/ WarmUp \/ EvaluateBoundary \/ EvaluateRun

ReplaySpec == ReplayInit /\ [][ReplayNext]_replayVars

----------------------------------------------------------------------------
(* Properties. *)

\* The live replay of the minutes the backtest streams.
LiveOutcome(t, created, variant, end) ==
    LET live[i \in (created - 1)..(StreamEnd(created, end) - 1)] ==
            IF i < created THEN NewLive(t)
            ELSE LiveMinute(t, created, variant, live[i - 1], i, history[i])
    IN  live[StreamEnd(created, end) - 1]

\* The backtest measures the rules that run: every simulated track ends as the live
\* rules end it over the same minutes, applied to each track for itself (the live
\* engine stops replaying a FIXED track when MANAGED closes), with the same result (a
\* live result is in halves of the position), or is unresolved where the live
\* track would still wait.
BacktestIsLive ==
    \A threshold \in Thresholds, variant \in {"FIXED", "MANAGED"} :
        LET trades == IF variant = "FIXED" THEN paths[threshold].fixed ELSE paths[threshold].managed
        IN  \A n \in DOMAIN trades :
                LET trade == trades[n]
                    live == LiveOutcome(trade.terms, trade.id, variant, range[2])
                IN  IF trade.outcome = "UNRESOLVED" THEN live.state \in {"PENDING", "ACTIVE"}
                    ELSE /\ trade.outcome = live.state
                         /\ Resolved(trade) => /\ live.result_r = WholePosition * trade.net
                                               /\ trade.terminal_at = CloseOf(live.at)

\* A run over stored history is evaluated: no trade it produces is one that the
\* records or the walk-forward evaluation refuse, whatever gaps the history has
\* and however the thresholds' paths diverge.
RunIsEvaluated == runStage # "raised"

\* The sensitivity row of the primary threshold, counted through the windows,
\* is the out-of-sample sample itself; and a pair is compared for every signal
\* of it whose two tracks are resolved.
PrimaryRowIsTheSample ==
    report # <<>> =>
        /\ report.managed.sensitivity[PrimaryThreshold] = report.managed.selected
        /\ report.pairs = ToSet(Ids(report.managed.selected)) \cap ToSet(Ids(report.fixed.selected))
=============================================================================
