--------------------------- MODULE TradeSimulator ---------------------------
(***************************************************************************)
(* The backtest's own replay of one signal (backtesting/simulator.py): a   *)
(* second implementation of what lifecycle/engine.py and management/       *)
(* engine.py do live.  Minutes are numbered; an instant is counted in half *)
(* minutes, so that the close of minute i lies between i and i + 1.        *)
(***************************************************************************)
EXTENDS TradeRules, Sequences

CONSTANTS
    SimulatedExpiry    \* SignalPolicy.expiry, in minutes

ASSUME ExpiryAssumption == SimulatedExpiry \in Nat \ {0}

NoPrice == -1000000
NoTrade == [outcome |-> "OPEN"]

OpenOf(i) == 2 * i
CloseOf(i) == 2 * i + 1

\* A signal of the backtest is created at a boundary, which is a whole minute.
NewReplay(t, created) ==
    [entry |-> NoPrice, activated_at |-> -1, current_stop |-> t.original_stop,
     next_open |-> created, trade |-> NoTrade]

\* _result_r, as the net result: the risk it is divided by is fixed and positive.
NetResult(t, entry, exit) ==
    (IF t.side = "LONG" THEN exit - entry ELSE entry - exit) - t.cost

RiskOf(t, entry) ==
    (IF t.side = "LONG" THEN entry - t.original_stop ELSE t.original_stop - entry) + t.cost

SimTrade(outcome, terminal, entry, exit, net) ==
    [outcome |-> outcome, terminal_at |-> terminal, entry |-> entry, exit |-> exit, net |-> net]

----------------------------------------------------------------------------
(* advance, for one completed minute i with the candle c. *)

ExpiresInside(created, i) == i >= created + SimulatedExpiry

EntryTouched(t, c) == c.low <= t.entry_high /\ c.high >= t.entry_low

SimStopTouched(t, stop, c) == (t.side = "LONG" /\ c.low <= stop) \/ (t.side # "LONG" /\ c.high >= stop)

SimTargetTouched(t, c) == (t.side = "LONG" /\ c.high >= t.target) \/ (t.side # "LONG" /\ c.low <= t.target)

ExitAtStop(t, stop, c, activation) ==
    IF activation \/ (t.side = "LONG" /\ stop <= c.open) \/ (t.side # "LONG" /\ stop >= c.open)
    THEN stop ELSE c.open

Stopped(t, s, i, c, activation) ==
    LET exit == ExitAtStop(t, s.current_stop, c, activation)
        net == NetResult(t, s.entry, exit)
    IN  SimTrade(IF s.current_stop # t.original_stop /\ net = 0 THEN "BREAK_EVEN" ELSE "LOSS",
                 CloseOf(i), s.entry, exit, net)

\* Mutation: the stop is raised on the candle that opened the trade, too.
ProtectsAtOnce(t, variant, s, c, activation) ==
    /\ variant = "MANAGED"
    /\ s.current_stop = t.original_stop
    /\ 2 * NetResult(t, s.entry, c.close) >= 3 * RiskOf(t, s.entry)

RaisesStop(t, variant, s, c, activation) ==
    /\ variant = "MANAGED" /\ ~activation
    /\ s.current_stop = t.original_stop
    /\ 2 * NetResult(t, s.entry, c.close) >= 3 * RiskOf(t, s.entry)

\* The second half of advance: an open trade meets the candle.
AdvanceOpen(t, variant, s, i, c) ==
    LET activation == s.activated_at = i
    IN  IF SimStopTouched(t, s.current_stop, c)
        THEN [s EXCEPT !.trade = Stopped(t, s, i, c, activation)]
        ELSE IF SimTargetTouched(t, c) /\ ~activation
        THEN [s EXCEPT !.trade = SimTrade("WIN", CloseOf(i), s.entry, t.target,
                                          NetResult(t, s.entry, t.target))]
        ELSE IF RaisesStop(t, variant, s, c, activation)
        THEN [s EXCEPT !.current_stop =
                 IF t.side = "LONG" THEN s.entry + t.cost ELSE s.entry - t.cost]
        ELSE s

Advance(t, created, variant, before, i, c) ==
    LET s == [before EXCEPT !.next_open = i + 1]
    IN  IF before.trade # NoTrade THEN before
        ELSE IF s.entry # NoPrice THEN AdvanceOpen(t, variant, s, i, c)
        ELSE IF ExpiresInside(created, i)
        THEN [s EXCEPT !.trade = SimTrade("NO_FILL", OpenOf(created + SimulatedExpiry),
                                          NoPrice, NoPrice, 0)]
        ELSE IF EntryTouched(t, c)
        THEN AdvanceOpen(t, variant,
                [s EXCEPT !.entry = IF t.side = "LONG" THEN t.entry_high ELSE t.entry_low,
                          !.activated_at = i], i, c)
        ELSE s

Finish(s, now) ==
    IF s.trade # NoTrade THEN s.trade ELSE SimTrade("UNRESOLVED", now, s.entry, NoPrice, 0)

\* BacktestTrade.__post_init__: anything else raises.  That the result is what the
\* prices and costs give is left out: it repeats NetResult.
TradeAccepted(created, trade) ==
    /\ trade.terminal_at > OpenOf(created)
    /\ CASE trade.outcome = "WIN"        -> trade.net > 0
         [] trade.outcome = "LOSS"       -> trade.net < 0
         [] trade.outcome = "BREAK_EVEN" -> trade.net = 0
         [] trade.outcome = "NO_FILL"    -> trade.entry = NoPrice
         [] OTHER -> TRUE
----------------------------------------------------------------------------
(* What the backtest stands for. *)

NewLive(t) ==
    [state |-> "PENDING", result_r |-> 0, at |-> -1,
     row |-> [current_stop |-> t.original_stop, remaining_fraction |-> WholePosition,
              realized_r |-> 0]]

\* The two updates of a live state: a track closes, or stays open behind a stop.
LiveClosed(live, result, result_r, i) ==
    [live EXCEPT !.state = result, !.result_r = result_r, !.at = i]

LiveHeld(live, stop) == [live EXCEPT !.state = "ACTIVE", !.row.current_stop = stop]

\* The live rules on a track that is open for this candle: the exits of
\* lifecycle/engine.py, then the stop of management/engine.py.
LiveOpen(t, variant, live, i, c, activation) ==
    IF Exits(t, live.row, c, activation)
    THEN LET closing == ExitClosing(t, ConservativeEntry(t), live.row, c, activation)
         IN  LiveClosed(live, closing.result, closing.result_r, i)
    ELSE LiveHeld(live, IF variant = "MANAGED"
                           /\ Protects(t, ConservativeEntry(t), live.row, c, activation)
                        THEN BreakEvenStop(t, ConservativeEntry(t)) ELSE live.row.current_stop)

\* What the live engine does to one track on one minute, by the rules of TradeRules.
LiveMinute(t, created, variant, live, i, c) ==
    LET waits == live.state = "PENDING"
    IN  IF waits /\ i >= created + SimulatedExpiry THEN [live EXCEPT !.state = "NO_FILL"]
        ELSE IF waits /\ TouchesEntry(t, c) THEN LiveOpen(t, variant, live, i, c, TRUE)
        ELSE IF live.state = "ACTIVE" THEN LiveOpen(t, variant, live, i, c, FALSE)
        ELSE live
=============================================================================
