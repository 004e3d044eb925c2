---------------------------- MODULE ReplayStore ----------------------------
(***************************************************************************)
(* The replay store (backtesting/replay.py): one-minute candles and what   *)
(* is resampled from them, native monthly candles, and series_at, which    *)
(* answers "the last closed candles at this instant" from a cache it       *)
(* extends.  A candle is known by the minute it opens at; an interval is   *)
(* as many minutes long as IntervalMinutes says, with its buckets aligned. *)
(***************************************************************************)
EXTENDS Integers, Sequences, FiniteSets, SequencesExt

CONSTANTS
    IntervalMinutes,   \* the resampled intervals, "15m" and "1M" among them
    Histories,         \* what the loader can hand over: a candle or NoCandle per minute
    NativeRanges,      \* the first and the end month of a native monthly archive
    Limits             \* how many candles a caller asks for

NoCandle == [open |-> -1, high |-> -1, low |-> -1, close |-> -1]

Resampled == DOMAIN IntervalMinutes
ReplayMinutes == DOMAIN (CHOOSE h \in Histories : TRUE)

ASSUME ReplayAssumption ==
    /\ {"15m", "1M"} \subseteq Resampled
    /\ \A k \in Resampled : IntervalMinutes[k] \in Nat \ {0}
    /\ \A h \in Histories : \E n \in DOMAIN h : n \in Nat /\ DOMAIN h = 0..n
    /\ \A h, g \in Histories : DOMAIN h = DOMAIN g
    /\ Limits \subseteq Nat \ {0}

VARIABLES
    history,       \* the one-minute candles, << >> before the import
    rows,          \* per resampled interval, the candles stored
    native,        \* native monthly candles have been imported
    seriesCache,   \* per interval and limit, the last series answered
    answer         \* the last question and its answer, of the candles there now

storeVars == <<history, rows, native, seriesCache, answer>>

NoAnswer == [interval |-> "15m", asOf |-> 0, limit |-> 0, series |-> <<>>]

EmptyCache == [k \in Resampled \X Limits |-> <<>>]

StoreInit ==
    /\ history = <<>>
    /\ rows = [k \in Resampled |-> {}]
    /\ native = FALSE
    /\ seriesCache = EmptyCache
    /\ answer = NoAnswer

Imported == history # <<>>
CoverageStop == Cardinality(ReplayMinutes)

----------------------------------------------------------------------------
(* Resampling, one candle at a time. *)

BucketOpen(i, k) == (i \div IntervalMinutes[k]) * IntervalMinutes[k]

NoBucket == [open |-> -1, first |-> -1, last |-> -1, count |-> 0, stored |-> {}]

\* Mutation: the first and the last minute are enough.
SpansItsInterval(b, k) ==
    b.first = b.open /\ b.last = b.open + IntervalMinutes[k] - 1

CompleteBucket(b, k) ==
    /\ b.first = b.open /\ b.last = b.open + IntervalMinutes[k] - 1
    /\ b.count = IntervalMinutes[k]

StoredWith(b, k) ==
    IF CompleteBucket(b, k) THEN b.stored \cup {b.open} ELSE b.stored

Consume(b, i, k) ==
    IF b.open = BucketOpen(i, k)
    THEN [b EXCEPT !.last = i, !.count = @ + 1]
    ELSE [open |-> BucketOpen(i, k), first |-> i, last |-> i, count |-> 1,
          stored |-> StoredWith(b, k)]

Present(h) == {i \in DOMAIN h : h[i] # NoCandle}

ResampledFrom(h, k) ==
    LET bucket[i \in -1..(CoverageStop - 1)] ==
            IF i < 0 THEN NoBucket
            ELSE IF i \in Present(h) THEN Consume(bucket[i - 1], i, k) ELSE bucket[i - 1]
    IN  StoredWith(bucket[CoverageStop - 1], k)

\* import_manifest, in one transaction.
ImportMarket ==
    /\ ~Imported
    /\ \E h \in Histories :
          /\ Present(h) # {}
          /\ history' = h
          /\ rows' = [k \in Resampled |-> ResampledFrom(h, k)]
    /\ UNCHANGED <<native, seriesCache, answer>>

\* Mutation: the series cached before the import live on.
ImportKeepingCache ==
    /\ Imported /\ ~native
    /\ \E m \in NativeRanges :
          LET months == {o \in m[1]..(m[2] - 1) : o % IntervalMinutes["1M"] = 0}
          IN  /\ m[1] <= 0 /\ m[2] > 0
              /\ rows' = [rows EXCEPT !["1M"] = {o \in @ : o < m[1] \/ o >= m[2]} \cup months]
    /\ native' = TRUE
    /\ answer' = NoAnswer
    /\ UNCHANGED <<history, seriesCache>>

\* import_native_monthly_manifest: the months of its range take the place of the
\* resampled ones; they must begin before the minutes do and reach them.
ImportNativeMonthly ==
    /\ Imported /\ ~native
    /\ \E m \in NativeRanges :
          LET months == {o \in m[1]..(m[2] - 1) : o % IntervalMinutes["1M"] = 0}
          IN  /\ m[1] <= 0 /\ m[2] > 0
              /\ rows' = [rows EXCEPT !["1M"] = {o \in @ : o < m[1] \/ o >= m[2]} \cup months]
    /\ native' = TRUE
    /\ seriesCache' = EmptyCache /\ answer' = NoAnswer
    /\ UNCHANGED history

----------------------------------------------------------------------------
(* series_at. *)

ClosedAt(k, asOf) == {o \in rows[k] : o + IntervalMinutes[k] <= asOf}

\* The stored candles, newest first, as far as each meets the next.
Uncached(k, asOf, limit) ==
    LET latest == Max(ClosedAt(k, asOf))
        back(j) == latest - j * IntervalMinutes[k]
        length == Max({n \in 1..limit : \A j \in 0..(n - 1) : back(j) \in ClosedAt(k, asOf)})
    IN  [j \in 1..length |-> back(length - j)]

\* The cached series ends just before the latest candle.
ExtendsCached(k, latest, cached) == latest = Last(cached) + IntervalMinutes[k]

SeriesAt(cache, k, asOf, limit) ==
    LET latest == Max(ClosedAt(k, asOf))
        cached == cache[<<k, limit>>]
    IN  CASE cached # <<>> /\ latest = Last(cached) -> cached
          [] cached # <<>> /\ ExtendsCached(k, latest, cached) ->
               LET longer == Append(cached, latest)
               IN  IF Len(longer) > limit THEN Tail(longer) ELSE longer
          [] OTHER -> Uncached(k, asOf, limit)

\* Any caller, at any instant: nothing makes callers ask forward in time.
QuerySeries(k, asOf, limit) ==
    /\ Imported /\ ClosedAt(k, asOf) # {}
    /\ LET series == SeriesAt(seriesCache, k, asOf, limit)
       IN  /\ seriesCache' = [seriesCache EXCEPT ![<<k, limit>>] = series]
           /\ answer' = [interval |-> k, asOf |-> asOf, limit |-> limit, series |-> series]
    /\ UNCHANGED <<history, rows, native>>

StoreNext ==
    \/ ImportMarket \/ ImportNativeMonthly
    \/ \E k \in Resampled, asOf \in 1..CoverageStop, limit \in Limits : QuerySeries(k, asOf, limit)

StoreSpec == StoreInit /\ [][StoreNext]_storeVars

\* candidate_times: the boundaries at which a quarter of an hour closes.
CandidateTimes(start, end) ==
    {c \in start..(end - 1) : c - IntervalMinutes["15m"] \in rows["15m"]}

----------------------------------------------------------------------------
(* Properties. *)

\* The cache is invisible: whatever was asked before, in whatever order, and
\* whatever was imported in between, a series is the longest gapless one of
\* candles closed by then.
CacheIsInvisible ==
    answer # NoAnswer =>
        answer.series =
            Uncached(answer.interval, answer.asOf, answer.limit)

\* A resampled candle stands for all of its minutes, and none is left out that
\* could be had.
ResampledFromWholeIntervals ==
    \A k \in Resampled :
        Imported /\ (k = "1M" => ~native) =>
            rows[k] = {o \in ReplayMinutes :
                         /\ o % IntervalMinutes[k] = 0
                         /\ o..(o + IntervalMinutes[k] - 1) \subseteq Present(history)}
=============================================================================
