--------------------------- MODULE HistoryProofs ---------------------------
(***************************************************************************)
(* A run over stored history, for every history, with whatever gaps, and   *)
(* every length of interval, signal, threshold and expiry:                 *)
(*   - a candle is stored exactly for the intervals all of whose minutes   *)
(*     are there, and the cache is invisible to whoever asks;              *)
(*   - the simulator and the live rules, minute by minute and then to the  *)
(*     end of the stream, make the same of a signal;                       *)
(*   - so a backtest measures the rules that are live, and its evaluation  *)
(*     takes every trade, and counts in the windows of the folds exactly   *)
(*     the trades of their tests;                                          *)
(*   - a risk decision of the timeline is the one of its time, the import  *)
(*     takes it, and no boundary in a risk window is open, but for a rate  *)
(*     decision that another report of its story obscures;                 *)
(*   - the loader accepts what the archive builder declares, and what is   *)
(*     published divides every month into candles and declared minutes, or *)
(*     is one native candle for every month.                               *)
(* What a recursive function of the model computes is proved without       *)
(* induction: the least number at which the claim fails would contradict   *)
(* its predecessor (LeastNumber).                                          *)
(***************************************************************************)
EXTENDS HistoricalRun, RiskTimeline, ArchiveBuild, TradeRulesProofs, FiniteSetTheorems,
        NaturalsInduction, WellFoundedInduction


----------------------------------------------------------------------------
(* One minute of one track: the simulator and the live rules. *)

Outcome == {"WIN", "LOSS", "BREAK_EVEN", "NO_FILL"}

\* A signal a backtest can hold: its prices are positive, so no entry is the mark
\* of a missing one.
SimulatedTerms(t) == ValidTerms(t) /\ t.entry_low > 0

LiveState == [state : {"PENDING", "ACTIVE"} \cup Outcome, result_r : Int, at : Int,
              row : [current_stop : Int, remaining_fraction : Int, realized_r : Int]]

SimShape(s) ==
    /\ s = [entry |-> s.entry, activated_at |-> s.activated_at,
            current_stop |-> s.current_stop, next_open |-> s.next_open, trade |-> s.trade]
    /\ {s.entry, s.activated_at, s.current_stop, s.next_open} \subseteq Int

\* The simulator's state s and the live state describe the same track: both wait,
\* both hold the position behind the same stop, or both ended alike.
Alike(t, s, live) ==
    /\ SimShape(s) /\ live \in LiveState
    /\ live.row = [current_stop |-> s.current_stop, remaining_fraction |-> WholePosition,
                   realized_r |-> 0]
    /\ s.current_stop \in {t.original_stop, BreakEvenStop(t, ConservativeEntry(t))}
    /\ \/ /\ s.trade = NoTrade /\ s.entry = NoPrice /\ s.current_stop = t.original_stop
          /\ live.state = "PENDING"
       \/ /\ s.trade = NoTrade /\ s.entry = ConservativeEntry(t) /\ s.activated_at < s.next_open
          /\ live.state = "ACTIVE"
       \/ /\ s.trade # NoTrade /\ s.trade.outcome = live.state /\ live.state \in Outcome
          /\ live.state # "NO_FILL" => /\ live.result_r = WholePosition * s.trade.net
                                       /\ s.trade.terminal_at = CloseOf(live.at)

\* What the simulator has decided is a record the evaluation takes.
Recorded(created, s) == s.trade = NoTrade \/ TradeAccepted(created, s.trade)

\* Before the first minute both wait for the entry.
LEMMA StartsAlike ==
    ASSUME NEW t, SimulatedTerms(t), NEW created \in Nat
    PROVE  Alike(t, NewReplay(t, created), NewLive(t)) /\ Recorded(created, NewReplay(t, created))
BY DEF SimulatedTerms, ValidTerms, Alike, SimShape, LiveState, NewReplay, NewLive, NoPrice,
       NoTrade, Recorded, WholePosition, Outcome

\* The entry price is one the mark of a missing entry cannot be taken for.
LEMMA EntryIsAPrice ==
    ASSUME NEW t, SimulatedTerms(t)
    PROVE  ConservativeEntry(t) \in Int /\ ConservativeEntry(t) # NoPrice
BY DEF SimulatedTerms, ValidTerms, ConservativeEntry, NoPrice

\* The two implementations of the fills, of R and of the stop.
LEMMA SameArithmetic ==
    ASSUME NEW t, SimulatedTerms(t), NEW c, ValidCandle(c), NEW stop \in Int,
           NEW activation \in BOOLEAN, NEW price \in Int
    PROVE  LET fill == ConservativeEntry(t) IN
           /\ SimStopTouched(t, stop, c) <=> TouchesStop(t, stop, c)
           /\ SimTargetTouched(t, c) <=> TouchesTarget(t, c)
           /\ EntryTouched(t, c) <=> TouchesEntry(t, c)
           /\ ExitAtStop(t, stop, c, activation) = StopFill(t, stop, c, activation)
           /\ NetResult(t, fill, price) = Net(t, fill, price)
           /\ RiskOf(t, fill) = TotalRisk(t, fill)
<1>1. /\ t.side = "LONG" \/ t.side = "SHORT"
      /\ {t.entry_low, t.entry_high, t.original_stop, t.target, t.cost} \subseteq Int
      /\ {c.open, c.high, c.low, c.close} \subseteq Int
  BY DEF SimulatedTerms, ValidTerms, ValidCandle
<1>2. CASE t.side = "LONG"
  BY <1>1, <1>2 DEF SimStopTouched, TouchesStop, SimTargetTouched, TouchesTarget, EntryTouched,
     TouchesEntry, ExitAtStop, StopFill, NetResult, Net, Directional, RiskOf, TotalRisk,
     ConservativeEntry, Long
<1>3. CASE t.side = "SHORT"
  BY <1>1, <1>3 DEF SimStopTouched, TouchesStop, SimTargetTouched, TouchesTarget, EntryTouched,
     TouchesEntry, ExitAtStop, StopFill, NetResult, Net, Directional, RiskOf, TotalRisk,
     ConservativeEntry, Long
<1> QED BY <1>1, <1>2, <1>3

\* A stop costs: behind the original stop the trade loses, behind the raised one
\* it nets nothing at best.
LEMMA StopsNeverGain ==
    ASSUME NEW t, SimulatedTerms(t), NEW c, ValidCandle(c), NEW activation \in BOOLEAN,
           NEW stop \in {t.original_stop, BreakEvenStop(t, ConservativeEntry(t))}
    PROVE  LET net == Net(t, ConservativeEntry(t), StopFill(t, stop, c, activation)) IN
           /\ net \in Int /\ net <= 0
           /\ stop = t.original_stop => net < 0
<1> DEFINE entry == ConservativeEntry(t)
           fill == StopFill(t, stop, c, activation)
           risk == TotalRisk(t, entry)
<1>1. ValidTerms(t) /\ t.original_stop \in Int
  BY DEF SimulatedTerms, ValidTerms
<1>2. stop \in Int
  BY <1>1, RulesAreIntegers
<1>3. fill \in Int /\ Net(t, entry, fill) <= Net(t, entry, stop)
  BY <1>1, <1>2, GapsCost
<1>4. Net(t, entry, fill) \in Int /\ Net(t, entry, stop) \in Int /\ risk \in Int /\ risk > 0
  BY <1>1, <1>2, <1>3, RulesAreIntegers, RiskIsPositive
<1>5. stop = t.original_stop => Net(t, entry, stop) = -risk
  BY <1>1, StopCostsOneR
<1>6. stop = BreakEvenStop(t, entry) => Net(t, entry, stop) = 0
  BY <1>1, BreakEvenIsCostFree
<1> HIDE DEF entry, fill, risk
<1>7. Net(t, entry, fill) <= 0 /\ (stop = t.original_stop => Net(t, entry, fill) < 0)
  BY <1>3, <1>4, <1>5, <1>6 DEF entry
<1> QED BY <1>4, <1>7 DEF entry, fill

\* What the two updates of a live state change, and what they leave.
LEMMA LiveCloses ==
    ASSUME NEW live \in LiveState, NEW x \in Outcome, NEW y \in Int, NEW i \in Int
    PROVE  LET after == LiveClosed(live, x, y, i) IN
           /\ after \in LiveState /\ after.row = live.row
           /\ after.state = x /\ after.result_r = y /\ after.at = i
BY DEF LiveState, LiveClosed

\* A live track that goes on is ACTIVE behind the new stop.
LEMMA LiveHolds ==
    ASSUME NEW live \in LiveState, NEW p \in Int
    PROVE  LET after == LiveHeld(live, p) IN
           /\ after \in LiveState /\ after.state = "ACTIVE"
           /\ after.row = [current_stop |-> p, remaining_fraction |-> live.row.remaining_fraction,
                           realized_r |-> live.row.realized_r]
BY DEF LiveState, LiveHeld

\* An open track meets a candle: the same exit at the same result, or the same stop.
LEMMA OpenTrackAlike ==
    ASSUME NEW t, SimulatedTerms(t), NEW c, ValidCandle(c), NEW created \in Nat, NEW i \in Nat,
           i >= created, NEW variant, NEW s, SimShape(s), NEW live \in LiveState,
           s.trade = NoTrade, s.entry = ConservativeEntry(t), s.next_open = i + 1,
           s.activated_at <= i,
           live.row = [current_stop |-> s.current_stop, remaining_fraction |-> WholePosition,
                       realized_r |-> 0],
           s.current_stop \in {t.original_stop, BreakEvenStop(t, ConservativeEntry(t))}
    PROVE  /\ Alike(t, AdvanceOpen(t, variant, s, i, c),
                    LiveOpen(t, variant, live, i, c, s.activated_at = i))
           /\ Recorded(created, AdvanceOpen(t, variant, s, i, c))
<1> DEFINE entry == ConservativeEntry(t)
           activation == s.activated_at = i
           stop == s.current_stop
           fill == StopFill(t, stop, c, activation)
           breakEven == BreakEvenStop(t, entry)
           sim == AdvanceOpen(t, variant, s, i, c)
           after == LiveOpen(t, variant, live, i, c, activation)
<1>1. /\ ValidTerms(t) /\ entry \in Int /\ entry # NoPrice /\ breakEven \in Int
      /\ t.original_stop \in Int /\ t.target \in Int /\ stop \in Int /\ c.close \in Int
      /\ breakEven # t.original_stop
  BY EntryIsAPrice, RulesAreIntegers, BreakEvenIsCostFree
     DEF SimulatedTerms, ValidTerms, ValidCandle, SimShape
<1>2. CloseOf(i) \in Int /\ CloseOf(i) > OpenOf(created)
  BY DEF CloseOf, OpenOf
<1>3. CASE SimStopTouched(t, stop, c)
  <2> DEFINE net == Net(t, entry, fill)
             result == IF stop # t.original_stop /\ net = 0 THEN "BREAK_EVEN" ELSE "LOSS"
             trade == [outcome |-> result, terminal_at |-> CloseOf(i), entry |-> entry,
                       exit |-> fill, net |-> net]
  <2>1. net \in Int /\ net <= 0 /\ (stop = t.original_stop => net < 0)
    BY StopsNeverGain
  <2>2. /\ fill = ExitAtStop(t, stop, c, activation) /\ NetResult(t, entry, fill) = net
        /\ TouchesStop(t, stop, c)
    <3>1. fill \in Int
      BY <1>1, GapsCost
    <3>2. activation \in BOOLEAN
      OBVIOUS
    <3> HIDE DEF activation
    <3>3. fill = ExitAtStop(t, stop, c, activation) /\ TouchesStop(t, stop, c)
      BY <1>1, <1>3, <3>2, SameArithmetic
    <3>4. NetResult(t, entry, fill) = net
      BY <1>1, <3>1, <3>2, SameArithmetic
    <3> QED BY <3>3, <3>4
  <2>3. sim = [s EXCEPT !.trade = trade]
    BY <1>3, <2>2 DEF AdvanceOpen, Stopped, SimTrade
  <2>4. /\ live.row.current_stop = stop /\ live.row.realized_r = 0
        /\ live.row.remaining_fraction = WholePosition
    OBVIOUS
  <2> HIDE DEF net, fill, entry
  <2>5. Exits(t, live.row, c, activation)
    BY <2>2, <2>4 DEF Exits
  <2>6. TrackResult(t, entry, live.row, fill) = WholePosition * net
    BY <2>1, <2>4 DEF TrackResult, WholePosition, net
  <2>7. ExitClosing(t, entry, live.row, c, activation)
          = [result |-> result, result_r |-> WholePosition * net,
             close_event |-> IF result = "BREAK_EVEN" THEN "BREAK_EVEN" ELSE "STOP_LOSS_HIT"]
    <3>1. ExitClosing(t, entry, live.row, c, activation) = ClosingAt(t, entry, live.row, fill, FALSE)
      BY <2>2, <2>4 DEF ExitClosing, fill
    <3>2. WholePosition * net \in Int /\ (WholePosition * net = 0 <=> net = 0)
          /\ ~(WholePosition * net > 0)
      BY <2>1 DEF WholePosition
    <3>3. CASE result = "BREAK_EVEN"
      BY <2>4, <2>6, <3>1, <3>2, <3>3 DEF ClosingAt
    <3>4. CASE result # "BREAK_EVEN"
      BY <2>1, <2>4, <2>6, <3>1, <3>2, <3>4 DEF ClosingAt
    <3> QED BY <3>3, <3>4
  <2>8. after = LiveClosed(live, result, WholePosition * net, i)
    BY <2>5, <2>7 DEF LiveOpen, entry
  <2>9. trade # NoTrade /\ sim.trade = trade
    <3>1. trade.outcome # NoTrade.outcome
      BY DEF NoTrade
    <3> QED BY <2>3, <3>1 DEF SimShape
  <2>10. Alike(t, sim, after)
    <3>1. SimShape(sim) /\ sim.current_stop = stop
      BY <2>3, <2>9 DEF SimShape
    <3> HIDE DEF after
    <3>2. WholePosition * net \in Int
      BY <2>1 DEF WholePosition
    <3>5. result \in Outcome /\ result # "NO_FILL"
      BY DEF Outcome
    <3> HIDE DEF result
    <3>3. after \in LiveState /\ after.row = live.row
      BY <2>8, <3>2, <3>5, LiveCloses
    <3>4. after.state = result /\ after.result_r = WholePosition * net /\ after.at = i
      BY <2>8, <3>2, <3>5, LiveCloses
    <3>6. /\ sim.trade.outcome = result /\ sim.trade.net = net
          /\ sim.trade.terminal_at = CloseOf(i)
      BY <2>9
    <3> HIDE DEF sim, after, trade, breakEven
    <3> QED BY <2>9, <3>1, <3>3, <3>4, <3>5, <3>6 DEF Alike, breakEven, entry
  <2>11. TradeAccepted(created, trade)
    BY <1>2, <2>1 DEF TradeAccepted
  <2> QED BY <2>9, <2>10, <2>11 DEF Recorded, entry
<1>4. CASE ~SimStopTouched(t, stop, c) /\ SimTargetTouched(t, c) /\ ~activation
  <2> DEFINE net == Net(t, entry, t.target)
             trade == [outcome |-> "WIN", terminal_at |-> CloseOf(i), entry |-> entry,
                       exit |-> t.target, net |-> net]
  <2>1. net \in Int /\ net > 0
    <3>1. net >= 2 * TotalRisk(t, entry) /\ TotalRisk(t, entry) \in Int /\ TotalRisk(t, entry) > 0
      BY <1>1, RiskIsPositive, RulesAreIntegers DEF ValidTerms
    <3>2. net \in Int
      BY <1>1, RulesAreIntegers
    <3> HIDE DEF net, entry
    <3> QED BY <3>1, <3>2
  <2>2. ~TouchesStop(t, stop, c) /\ TouchesTarget(t, c) /\ NetResult(t, entry, t.target) = net
    BY <1>1, <1>4, SameArithmetic
  <2>3. sim = [s EXCEPT !.trade = trade]
    BY <1>4, <2>2 DEF AdvanceOpen, SimTrade
  <2>4. /\ live.row.current_stop = stop /\ live.row.realized_r = 0
        /\ live.row.remaining_fraction = WholePosition
    OBVIOUS
  <2> HIDE DEF net, entry
  <2>5. Exits(t, live.row, c, activation)
    BY <1>4, <2>2 DEF Exits
  <2>6. TrackResult(t, entry, live.row, t.target) = WholePosition * net
    BY <2>1, <2>4 DEF TrackResult, WholePosition, net
  <2>7. ExitClosing(t, entry, live.row, c, activation)
          = [result |-> "WIN", result_r |-> WholePosition * net, close_event |-> "TP1_HIT"]
    BY <2>2, <2>4, <2>6 DEF ExitClosing, ClosingAt
  <2>8. after = LiveClosed(live, "WIN", WholePosition * net, i)
    BY <2>5, <2>7 DEF LiveOpen, entry
  <2>9. trade # NoTrade /\ sim.trade = trade
    <3>1. trade.outcome # NoTrade.outcome
      BY DEF NoTrade
    <3> QED BY <2>3, <3>1 DEF SimShape
  <2>10. Alike(t, sim, after)
    <3>1. SimShape(sim) /\ sim.current_stop = stop
      BY <2>3, <2>9 DEF SimShape
    <3> HIDE DEF after
    <3>2. WholePosition * net \in Int
      BY <2>1 DEF WholePosition
    <3>3. after \in LiveState /\ after.row = live.row
      BY <2>8, <3>2, LiveCloses DEF Outcome
    <3>4. after.state = "WIN" /\ after.result_r = WholePosition * net /\ after.at = i
      BY <2>8, <3>2, LiveCloses DEF Outcome
    <3>5. /\ sim.trade.outcome = "WIN" /\ sim.trade.net = net
          /\ sim.trade.terminal_at = CloseOf(i)
      BY <2>9
    <3> HIDE DEF sim, after, trade, breakEven
    <3> QED BY <2>9, <3>1, <3>3, <3>4, <3>5 DEF Alike, Outcome, breakEven, entry
  <2>11. TradeAccepted(created, trade)
    BY <1>2, <2>1 DEF TradeAccepted
  <2> QED BY <2>9, <2>10, <2>11 DEF Recorded, entry
<1>5. CASE ~SimStopTouched(t, stop, c) /\ ~(SimTargetTouched(t, c) /\ ~activation)
  <2>1. ~TouchesStop(t, stop, c) /\ (TouchesTarget(t, c) => activation)
    BY <1>1, <1>5, SameArithmetic
  <2>2. ~Exits(t, live.row, c, activation)
    BY <2>1 DEF Exits
  <2>3. RaisesStop(t, variant, s, c, activation)
           <=> variant = "MANAGED" /\ Protects(t, entry, live.row, c, activation)
    <3>1. NetResult(t, entry, c.close) = Net(t, entry, c.close)
          /\ RiskOf(t, entry) = TotalRisk(t, entry)
      BY <1>1, SameArithmetic
    <3> QED BY <3>1 DEF RaisesStop, Protects, Reached, BreakEvenTrigger
  <2> DEFINE raised == IF RaisesStop(t, variant, s, c, activation) THEN breakEven ELSE stop
  <2>4. sim = [s EXCEPT !.current_stop = raised]
    <3>1. breakEven = IF t.side = "LONG" THEN s.entry + t.cost ELSE s.entry - t.cost
      BY DEF BreakEvenStop, Long
    <3>2. s = [s EXCEPT !.current_stop = stop]
      BY DEF SimShape
    <3> HIDE DEF breakEven
    <3> QED BY <1>5, <3>1, <3>2 DEF AdvanceOpen
  <2>5. after = LiveHeld(live, raised)
    BY <2>2, <2>3 DEF LiveOpen
  <2>6. raised \in Int /\ raised \in {t.original_stop, breakEven}
    BY <1>1
  <2> HIDE DEF raised
  <2>7. /\ SimShape(sim) /\ sim.current_stop = raised /\ sim.trade = NoTrade
        /\ sim.entry = entry /\ sim.activated_at < sim.next_open
    BY <2>4, <2>6, <1>1 DEF SimShape
  <2>8. /\ after \in LiveState /\ after.state = "ACTIVE"
        /\ after.row = [current_stop |-> raised, remaining_fraction |-> WholePosition,
                        realized_r |-> 0]
    <3> HIDE DEF after
    <3> QED BY <2>5, <2>6, LiveHolds
  <2> QED BY <2>6, <2>7, <2>8 DEF Alike, Recorded
<1> QED BY <1>3, <1>4, <1>5

\* The activation candle is the one that opened the trade.
LEMMA ActivationCandle ==
    ASSUME NEW t, NEW variant, NEW live, NEW i, NEW c, NEW x, NEW y
    PROVE  /\ x = y => LiveOpen(t, variant, live, i, c, x = y)
                         = LiveOpen(t, variant, live, i, c, TRUE)
           /\ x # y => LiveOpen(t, variant, live, i, c, x = y)
                         = LiveOpen(t, variant, live, i, c, FALSE)
<1>1. CASE x = y
  BY <1>1 DEF LiveOpen, Exits, ExitClosing, StopFill, Protects
<1>2. CASE x # y
  BY <1>2 DEF LiveOpen, Exits, ExitClosing, StopFill, Protects
<1> QED BY <1>1, <1>2

\* An expired signal ends both as NO_FILL, at its expiry.
LEMMA ExpiresAlike ==
    ASSUME NEW t, SimulatedTerms(t), NEW created \in Nat, NEW variant, NEW i \in Nat,
           i >= created + SimulatedExpiry, NEW c, NEW s, NEW live, Alike(t, s, live),
           s.trade = NoTrade, s.entry = NoPrice
    PROVE  /\ Alike(t, Advance(t, created, variant, s, i, c),
                    LiveMinute(t, created, variant, live, i, c))
           /\ Recorded(created, Advance(t, created, variant, s, i, c))
<1> DEFINE sim == Advance(t, created, variant, s, i, c)
           after == LiveMinute(t, created, variant, live, i, c)
           trade == [outcome |-> "NO_FILL", terminal_at |-> OpenOf(created + SimulatedExpiry),
                     entry |-> NoPrice, exit |-> NoPrice, net |-> 0]
<1>1. /\ SimShape(s) /\ live \in LiveState /\ live.state = "PENDING"
      /\ s.current_stop \in {t.original_stop, BreakEvenStop(t, ConservativeEntry(t))}
      /\ live.row = [current_stop |-> s.current_stop, remaining_fraction |-> WholePosition,
                     realized_r |-> 0]
  BY EntryIsAPrice DEF Alike, Outcome
<1> DEFINE started == [s EXCEPT !.next_open = i + 1]
<1>0. started.entry = NoPrice
  BY <1>1 DEF SimShape
<1>2. sim = [started EXCEPT !.trade = trade]
  BY <1>0, <1>1 DEF Advance, ExpiresInside, SimTrade
<1>3. after = [live EXCEPT !.state = "NO_FILL"]
  BY <1>1 DEF LiveMinute
<1>4. trade # NoTrade
  <2>1. trade.outcome # NoTrade.outcome
    BY DEF NoTrade
  <2> QED BY <2>1
<1>5. SimShape(sim) /\ sim.trade = trade /\ sim.current_stop = s.current_stop
  <2>1. SimShape(started) /\ started.current_stop = s.current_stop
    BY <1>1 DEF SimShape
  <2> HIDE DEF started, sim, trade
  <2> QED BY <1>2, <2>1 DEF SimShape
<1>6. after \in LiveState /\ after.state = "NO_FILL" /\ after.row = live.row
  BY <1>1, <1>3 DEF LiveState, Outcome
<1>7. TradeAccepted(created, trade)
  BY ExpiryAssumption DEF TradeAccepted, OpenOf
<1>8. sim.trade.outcome = "NO_FILL"
  BY <1>5
<1> HIDE DEF trade
<1>9. Alike(t, sim, after) /\ Recorded(created, sim)
  <2> HIDE DEF sim, after
  <2> QED BY <1>1, <1>4, <1>5, <1>6, <1>7, <1>8 DEF Alike, Recorded, Outcome
<1> QED BY <1>9

\* The backtest measures the engine that runs: from any state both agree on, one
\* minute of the simulator and one minute of the live rules lead to states they
\* agree on, whatever the candle; a track that has ended stays as it is.
THEOREM MinutesAlike ==
    ASSUME NEW t, SimulatedTerms(t), NEW created \in Nat, NEW variant, NEW i \in Nat,
           NEW c, ValidCandle(c), NEW s, NEW live, Alike(t, s, live),
           i >= created, i >= s.next_open, Recorded(created, s)
    PROVE  /\ Alike(t, Advance(t, created, variant, s, i, c),
                    LiveMinute(t, created, variant, live, i, c))
           /\ Recorded(created, Advance(t, created, variant, s, i, c))
<1> DEFINE sim == Advance(t, created, variant, s, i, c)
           after == LiveMinute(t, created, variant, live, i, c)
           entry == ConservativeEntry(t)
           started == [s EXCEPT !.next_open = i + 1]
           filled == [started EXCEPT !.entry = entry, !.activated_at = i]
<1>1. /\ SimShape(s) /\ live \in LiveState
      /\ s.current_stop \in {t.original_stop, BreakEvenStop(t, entry)}
      /\ live.row = [current_stop |-> s.current_stop, remaining_fraction |-> WholePosition,
                     realized_r |-> 0]
  BY DEF Alike
<1>2. entry \in Int /\ entry # NoPrice /\ created + SimulatedExpiry \in Nat
  BY EntryIsAPrice, ExpiryAssumption
<1>3. EntryTouched(t, c) <=> TouchesEntry(t, c)
  BY SameArithmetic, <1>2
<1>4. /\ SimShape(started) /\ started.trade = s.trade /\ started.entry = s.entry
      /\ started.activated_at = s.activated_at /\ started.current_stop = s.current_stop
      /\ started.next_open = i + 1
  BY <1>1 DEF SimShape
<1>5. /\ SimShape(filled) /\ filled.trade = s.trade /\ filled.entry = entry
      /\ filled.activated_at = i /\ filled.current_stop = s.current_stop
      /\ filled.next_open = i + 1
  <2> HIDE DEF started, entry
  <2> DEFINE entered == [started EXCEPT !.entry = entry]
  <2>1. entered = [entry |-> entry, activated_at |-> started.activated_at,
                   current_stop |-> started.current_stop, next_open |-> started.next_open,
                   trade |-> started.trade]
    BY <1>4 DEF SimShape
  <2>2. filled = [entry |-> entry, activated_at |-> i, current_stop |-> started.current_stop,
                  next_open |-> started.next_open, trade |-> started.trade]
    <3>1. filled = [entered EXCEPT !.activated_at = i]
      BY Zenon
    <3> HIDE DEF entered, filled
    <3> QED BY <2>1, <3>1
  <2> HIDE DEF filled
  <2> QED BY <1>2, <1>4, <2>2 DEF SimShape
<1>6. CASE s.trade # NoTrade
  <2>1. sim = s
    BY <1>6 DEF Advance
  <2>2. live.state # "PENDING" /\ live.state # "ACTIVE"
    BY <1>6 DEF Alike, Outcome
  <2>3. after = live
    BY <2>2 DEF LiveMinute
  <2> QED BY <2>1, <2>3
<1>7. CASE s.trade = NoTrade /\ s.entry # NoPrice
  <2>1. live.state = "ACTIVE" /\ s.entry = entry /\ s.activated_at < s.next_open
    BY <1>7 DEF Alike
  <2>2. sim = AdvanceOpen(t, variant, started, i, c)
    BY <1>7, <1>4 DEF Advance
  <2>3. after = LiveOpen(t, variant, live, i, c, FALSE)
    BY <2>1 DEF LiveMinute
  <2>4. started.activated_at <= i /\ ~(started.activated_at = i)
    BY <1>1, <1>4, <2>1 DEF SimShape
  <2>5. after = LiveOpen(t, variant, live, i, c, started.activated_at = i)
    <3> HIDE DEF started, after
    <3> QED BY <2>3, <2>4, ActivationCandle
  <2> HIDE DEF started
  <2>6. /\ Alike(t, AdvanceOpen(t, variant, started, i, c),
                 LiveOpen(t, variant, live, i, c, started.activated_at = i))
        /\ Recorded(created, AdvanceOpen(t, variant, started, i, c))
    BY <1>1, <1>4, <1>7, <2>1, <2>4, OpenTrackAlike
  <2> QED BY <2>2, <2>5, <2>6
<1>8. CASE s.trade = NoTrade /\ s.entry = NoPrice
  <2>1. live.state = "PENDING"
    BY <1>2, <1>8 DEF Alike
  <2>2. CASE i >= created + SimulatedExpiry
    BY <1>8, <2>2, ExpiresAlike
  <2>3. CASE i < created + SimulatedExpiry /\ TouchesEntry(t, c)
    <3>1. entry = IF t.side = "LONG" THEN t.entry_high ELSE t.entry_low
      BY DEF ConservativeEntry, Long
    <3>2. sim = AdvanceOpen(t, variant, filled, i, c)
      BY <1>2, <1>3, <1>4, <1>8, <2>3, <3>1 DEF Advance, ExpiresInside
    <3>3. after = LiveOpen(t, variant, live, i, c, TRUE)
      <4>1. ~(i >= created + SimulatedExpiry)
        BY <1>2, <2>3
      <4> QED BY <2>1, <2>3, <4>1 DEF LiveMinute
    <3>4. after = LiveOpen(t, variant, live, i, c, filled.activated_at = i)
      <4> HIDE DEF filled, after
      <4> QED BY <1>5, <3>3, ActivationCandle
    <3> HIDE DEF filled
    <3>5. /\ Alike(t, AdvanceOpen(t, variant, filled, i, c),
                   LiveOpen(t, variant, live, i, c, filled.activated_at = i))
          /\ Recorded(created, AdvanceOpen(t, variant, filled, i, c))
      BY <1>1, <1>5, <1>8, OpenTrackAlike
    <3> QED BY <3>2, <3>4, <3>5
  <2>4. CASE i < created + SimulatedExpiry /\ ~TouchesEntry(t, c)
    <3>1. sim = started
      BY <1>2, <1>3, <1>4, <1>8, <2>4 DEF Advance, ExpiresInside
    <3>2. after = live
      <4>1. ~(i >= created + SimulatedExpiry)
        BY <1>2, <2>4
      <4> QED BY <2>1, <2>4, <4>1 DEF LiveMinute
    <3>3. s.current_stop = t.original_stop
      BY <1>2, <1>8 DEF Alike
    <3>4. Alike(t, started, live) /\ Recorded(created, started)
      <4> HIDE DEF started
      <4> QED BY <1>1, <1>4, <1>8, <2>1, <3>3 DEF Alike, Recorded
    <3> QED BY <3>1, <3>2, <3>4
  <2> QED BY <1>2, <2>2, <2>3, <2>4
<1> QED BY <1>6, <1>7, <1>8

----------------------------------------------------------------------------
(* Numbers: least and greatest elements, multiples, division. *)

\* A set of numbers has a least one.
LEMMA LeastNumber ==
    ASSUME NEW T \in SUBSET Nat, T # {}
    PROVE  \E m \in T : \A k \in T : m <= k
<1>1. IsWellFoundedOn(OpToRel(<, Nat), Nat)
  BY NatLessThanWellFounded
<1>2. PICK m \in T : \A k \in T : <<k, m>> \notin OpToRel(<, Nat)
  BY <1>1, WFMin, Zenon
<1>3. ASSUME NEW k \in T PROVE m <= k
  <2>1. <<k, m>> \notin OpToRel(<, Nat)
    BY <1>2
  <2>2. m \in Nat /\ k \in Nat
    OBVIOUS
  <2>3. ~(k < m)
    BY <2>1, <2>2 DEF OpToRel
  <2> QED BY <2>2, <2>3
<1> QED BY <1>3

\* Min and Max of a set of integers that has them.
LEMMA LeastIsMin ==
    ASSUME NEW T \in SUBSET Int, NEW m \in T, \A k \in T : m <= k
    PROVE  Min(T) = m
<1> DEFINE least == CHOOSE x \in T : \A y \in T : x =< y
<1>1. least \in T /\ \A k \in T : least <= k
  OBVIOUS
<1> HIDE DEF least
<1>2. least = m
  BY <1>1
<1> QED BY <1>2, Zenon DEF Min, least

\* The same for the greatest.
LEMMA GreatestIsMax ==
    ASSUME NEW T \in SUBSET Int, NEW m \in T, \A k \in T : k <= m
    PROVE  Max(T) = m
<1> DEFINE greatest == CHOOSE x \in T : \A y \in T : x >= y
<1>1. greatest \in T /\ \A k \in T : k <= greatest
  OBVIOUS
<1> HIDE DEF greatest
<1>2. greatest = m
  BY <1>1
<1> QED BY <1>2, Zenon DEF Max, greatest

\* A set of integers below some bound has a greatest one.
LEMMA MaxOfBounded ==
    ASSUME NEW T \in SUBSET Int, T # {}, NEW b \in Int, \A k \in T : k <= b
    PROVE  Max(T) \in T /\ \A k \in T : k <= Max(T)
<1> DEFINE D == {n \in Nat : b - n \in T}
<1>1. D # {}
  <2>1. PICK k \in T : TRUE
    OBVIOUS
  <2>2. b - k \in Nat /\ b - (b - k) = k
    BY <2>1
  <2>3. b - k \in D
    BY <2>2, <2>1
  <2> QED BY <2>3
<1>2. PICK n \in D : \A m \in D : n <= m
  BY <1>1, LeastNumber
<1>3. n \in Nat /\ b - n \in T
  BY <1>2
<1>4. ASSUME NEW k \in T PROVE k <= b - n
  <2>1. b - k \in Nat /\ b - (b - k) = k
    OBVIOUS
  <2>2. b - k \in D
    BY <2>1
  <2>3. n <= b - k
    BY <1>2, <2>2
  <2> QED BY <1>3, <2>3
<1>5. Max(T) = b - n
  BY <1>3, <1>4, GreatestIsMax
<1> QED BY <1>3, <1>4, <1>5

\* A set of natural numbers has a Min.
LEMMA MinOfNumbers ==
    ASSUME NEW T \in SUBSET Nat, T # {}
    PROVE  Min(T) \in T /\ \A k \in T : Min(T) <= k
<1>1. PICK m \in T : \A k \in T : m <= k
  BY LeastNumber
<1>2. Min(T) = m
  BY <1>1, LeastIsMin
<1> QED BY <1>1, <1>2

\* Two different multiples of an interval are an interval apart.
LEMMA MultiplesApart ==
    ASSUME NEW I \in Nat, I > 0, NEW a \in Int, NEW b \in Int, a < b
    PROVE  a * I + I <= b * I
OBVIOUS

\* Division by a positive number, in the form the provers can use.
LEMMA Division ==
    ASSUME NEW I \in Nat, I > 0, NEW i \in Nat
    PROVE  /\ i \div I \in Nat /\ i % I \in Nat /\ i % I < I
           /\ i = (i \div I) * I + (i % I)
<1>1. i = (i \div I) * I + (i % I)
  OBVIOUS
<1>2. i \div I \in Nat /\ i % I \in Nat /\ i % I < I
  OBVIOUS
<1> QED BY <1>1, <1>2

\* A minute and the bucket it falls into.
LEMMA BucketFacts ==
    ASSUME NEW I \in Nat, I > 0, NEW i \in Nat
    PROVE  LET o == (i \div I) * I IN
           /\ o \in Nat /\ o % I = 0 /\ o <= i /\ i < o + I
           /\ \A p \in Nat : p % I = 0 /\ p <= i => p <= o
           /\ \A p \in Nat : p % I = 0 /\ p > o => p >= o + I
<1> DEFINE q == i \div I
           o == q * I
<1>1. q \in Nat /\ o \in Nat /\ o <= i /\ i < o + I
  OBVIOUS
<1>4. o % I = 0
  <2> HIDE DEF q
  <2>1. 0 \in Int /\ 0 >= 0 /\ 0 < I /\ o = q * I + 0
    BY <1>1
  <2> DEFINE a == o \div I
             b == o % I
  <2>2. a \in Nat /\ b \in Nat /\ b < I /\ o = a * I + b
    BY <1>1, Division
  <2> HIDE DEF a, b
  <2>3. ~(a < q) /\ ~(q < a)
    BY <2>2, <1>1, MultiplesApart
  <2>4. a = q
    BY <2>2, <2>3, <1>1
  <2>5. b = 0
    BY <2>2, <2>4, <1>1
  <2> QED BY <2>5 DEF b
<1>5. ASSUME NEW p \in Nat, p % I = 0 PROVE (p <= i => p <= o) /\ (p > o => p >= o + I)
  <2> DEFINE a == p \div I
  <2>1. a \in Nat /\ p = a * I + (p % I)
    BY Division
  <2> HIDE DEF a, q
  <2>2. p = a * I
    BY <2>1, <1>5
  <2>3. CASE a <= q
    <3>1. CASE a = q
      BY <3>1, <2>2, <1>1
    <3>2. CASE a < q
      BY <3>2, <2>1, <2>2, <1>1, MultiplesApart
    <3> QED BY <3>1, <3>2, <2>3, <2>1, <1>1
  <2>4. CASE a > q
    <3>1. q * I + I <= a * I
      BY <2>1, <2>4, <1>1, MultiplesApart
    <3> HIDE DEF o
    <3>2. o + I <= p
      BY <3>1, <2>2 DEF o
    <3> QED BY <3>2, <1>1
  <2> QED BY <2>3, <2>4, <2>1, <1>1
<1> HIDE DEF o
<1>6. /\ o \in Nat /\ o % I = 0 /\ o <= i /\ i < o + I
      /\ \A p \in Nat : p % I = 0 /\ p <= i => p <= o
      /\ \A p \in Nat : p % I = 0 /\ p > o => p >= o + I
  BY <1>1, <1>4, <1>5
<1> QED BY <1>6 DEF o

\* A multiple is its quotient times the divisor.
LEMMA Multiple ==
    ASSUME NEW I \in Nat, I > 0, NEW p \in Nat, p % I = 0
    PROVE  (p \div I) * I = p
<1>1. p = (p \div I) * I + (p % I)
  BY Division
<1>2. (p \div I) \in Nat
  BY Division
<1> DEFINE q == p \div I
           r == p % I
<1>3. p = q * I + r /\ r = 0 /\ q \in Nat
  BY <1>1, <1>2
<1> HIDE DEF q, r
<1>4. q * I = p
  BY <1>3
<1> QED BY <1>4 DEF q

\* The next bucket begins where this one ends, or later.
LEMMA NextMultiple ==
    ASSUME NEW I \in Nat, I > 0, NEW o \in Nat, o % I = 0, NEW p \in Nat, p % I = 0, o < p
    PROVE  o + I <= p
<1>1. (o \div I) * I = o
  BY Multiple
<1>2. \A q \in Nat : q % I = 0 /\ q > (o \div I) * I => q >= (o \div I) * I + I
  BY BucketFacts
<1> DEFINE x == (o \div I) * I
<1>3. \A q \in Nat : q % I = 0 /\ q > x => q >= x + I
  BY <1>2
<1> HIDE DEF x
<1>4. x = o
  BY <1>1 DEF x
<1> QED BY <1>3, <1>4

----------------------------------------------------------------------------
(* Resampling: what the scan of the minutes leaves in the store. *)

\* The minutes of a history are numbered from 0 to the one before its end.
LEMMA HistoryMinutes ==
    ASSUME NEW h \in Histories
    PROVE  /\ CoverageStop \in Nat /\ CoverageStop > 0
           /\ DOMAIN h = 0..(CoverageStop - 1) /\ ReplayMinutes = 0..(CoverageStop - 1)
           /\ h # <<>>
<1>1. PICK n \in Nat : DOMAIN h = 0..n
  BY ReplayAssumption
<1>2. ReplayMinutes = DOMAIN h
  <2> DEFINE g == CHOOSE e \in Histories : TRUE
  <2>1. g \in Histories
    OBVIOUS
  <2>2. DOMAIN g = DOMAIN h
    BY <2>1, ReplayAssumption
  <2> QED BY <2>2 DEF ReplayMinutes
<1>3. Cardinality(0..n) = n + 1
  BY <1>1, FS_Interval
<1>4. CoverageStop = n + 1
  BY <1>1, <1>2, <1>3 DEF CoverageStop
<1>5. h # <<>>
  <2>1. 0 \in DOMAIN h
    BY <1>1
  <2>2. DOMAIN <<>> = {}
    OBVIOUS
  <2> QED BY <2>1, <2>2
<1> QED BY <1>1, <1>2, <1>4, <1>5

\* The equation of the buckets up to minute n.
IsBuckets(f, h, k, n) ==
    f = [i \in -1..n |->
            IF i < 0 THEN NoBucket
            ELSE IF i \in Present(h) THEN Consume(f[i - 1], i, k) ELSE f[i - 1]]

\* The scan of the first n minutes is defined, whatever they hold.
LEMMA BucketsExist ==
    ASSUME NEW h, NEW k, NEW n \in Nat
    PROVE  \E f : IsBuckets(f, h, k, n - 1)
<1> DEFINE T == {m \in Nat : ~\E f : IsBuckets(f, h, k, m - 1)}
<1> SUFFICES ASSUME n \in T PROVE FALSE
  OBVIOUS
<1>1. PICK m \in T : \A j \in T : m <= j
  BY LeastNumber
<1>2. CASE m = 0
  <2> DEFINE f == [i \in -1..-1 |-> NoBucket]
  <2>1. f = [i \in -1..-1 |->
            IF i < 0 THEN NoBucket
            ELSE IF i \in Present(h) THEN Consume(f[i - 1], i, k) ELSE f[i - 1]]
    OBVIOUS
  <2>2. IsBuckets(f, h, k, m - 1)
    BY <1>2, <2>1 DEF IsBuckets
  <2> QED BY <2>2
<1>3. CASE m # 0
  <2>1. m \in Nat /\ m - 1 \in Nat /\ m - 1 \notin T
    BY <1>1, <1>3
  <2>2. PICK f : IsBuckets(f, h, k, (m - 1) - 1)
    BY <2>1
  <2> DEFINE step(x, i) == IF i \in Present(h) THEN Consume(x, i, k) ELSE x
             g == [i \in -1..(m - 1) |-> IF i < 0 THEN NoBucket ELSE step(f[i - 1], i)]
  <2>3. f = [i \in -1..(m - 2) |-> IF i < 0 THEN NoBucket ELSE step(f[i - 1], i)]
    BY <2>1, <2>2 DEF IsBuckets
  <2> HIDE DEF step
  <2>4. \A i \in 0..(m - 1) : g[i - 1] = f[i - 1]
    BY <2>1, <2>3
  <2>5. g = [i \in -1..(m - 1) |-> IF i < 0 THEN NoBucket ELSE step(g[i - 1], i)]
    <3> DEFINE e == g
    <3>1. \A i \in 0..(m - 1) : e[i - 1] = f[i - 1]
      BY <2>4
    <3> HIDE DEF e
    <3>2. g = [i \in -1..(m - 1) |-> IF i < 0 THEN NoBucket ELSE step(e[i - 1], i)]
      BY <3>1, <2>1
    <3> QED BY <3>2 DEF e
  <2> HIDE DEF g
  <2>6. IsBuckets(g, h, k, m - 1)
    BY <2>5, Zenon DEF IsBuckets, step
  <2> QED BY <2>1, <2>6
<1> QED BY <1>2, <1>3

\* What is resampled is the last of such buckets, stored.
LEMMA ResampledIs ==
    ASSUME NEW h \in Histories, NEW k
    PROVE  \E f : IsBuckets(f, h, k, CoverageStop - 1)
                  /\ ResampledFrom(h, k) = StoredWith(f[CoverageStop - 1], k)
<1> DEFINE f == CHOOSE g : IsBuckets(g, h, k, CoverageStop - 1)
<1>1. ResampledFrom(h, k) = StoredWith(f[CoverageStop - 1], k)
  BY Zenon DEF ResampledFrom, IsBuckets
<1>2. \E g : IsBuckets(g, h, k, CoverageStop - 1)
  BY HistoryMinutes, BucketsExist
<1>3. IsBuckets(f, h, k, CoverageStop - 1)
  BY <1>2, Zenon
<1> QED BY <1>1, <1>3

\* An interval of which every minute is there.
Whole(h, k, o) ==
    o % IntervalMinutes[k] = 0 /\ o..(o + IntervalMinutes[k] - 1) \subseteq Present(h)

BucketShape(b) ==
    /\ b = [open |-> b.open, first |-> b.first, last |-> b.last, count |-> b.count,
            stored |-> b.stored]
    /\ {b.open, b.first, b.last, b.count} \subseteq Int

\* A bucket knows its first and last minute and how many there were: as many as
\* between the two exactly when none is missing between them.
Counted(b, h, k, i) ==
    /\ b.open \in Nat /\ b.open % IntervalMinutes[k] = 0
    /\ b.open <= b.first /\ b.first <= b.last /\ b.last <= i
    /\ b.last < b.open + IntervalMinutes[k]
    /\ {b.first, b.last} \subseteq Present(h)
    /\ \A m \in Present(h) : b.open <= m /\ m <= i => b.first <= m /\ m <= b.last
    /\ b.count <= b.last - b.first + 1
    /\ b.count = b.last - b.first + 1 <=> b.first..b.last \subseteq Present(h)

\* The bucket after minute i: what was stored before it, and its own count.
BucketAfter(b, h, k, i) ==
    /\ BucketShape(b)
    /\ b.stored = {o \in Nat : o < b.open /\ Whole(h, k, o)}
    /\ \/ b.open = -1 /\ b.count = 0 /\ \A m \in Present(h) : m > i
       \/ Counted(b, h, k, i)

\* Once its minutes are past, a bucket is stored exactly when it is whole.
LEMMA StoredWhenWhole ==
    ASSUME NEW h \in Histories, NEW k \in Resampled, NEW i \in Int, NEW b,
           BucketAfter(b, h, k, i),
           b.open # -1 => \A m \in Present(h) : m < b.open + IntervalMinutes[k] => m <= i
    PROVE  StoredWith(b, k) = {o \in Nat : o <= b.open /\ Whole(h, k, o)}
<1> DEFINE I == IntervalMinutes[k]
<1>0. I \in Nat /\ I > 0 /\ Present(h) \subseteq Nat
  BY ReplayAssumption, HistoryMinutes DEF Present
<1>1. BucketShape(b) /\ b.stored = {o \in Nat : o < b.open /\ Whole(h, k, o)}
  BY DEF BucketAfter
<1>2. CASE b.open = -1 /\ b.count = 0
  <2>1. ~CompleteBucket(b, k)
    BY <1>0, <1>2 DEF CompleteBucket
  <2>2. StoredWith(b, k) = b.stored
    BY <2>1 DEF StoredWith
  <2> QED BY <1>1, <1>2, <2>2
<1>3. CASE Counted(b, h, k, i)
  <2>1. /\ b.open \in Nat /\ b.open % I = 0 /\ b.open <= b.first /\ b.first <= b.last /\ b.last <= i
        /\ b.last < b.open + I /\ {b.first, b.last} \subseteq Present(h)
        /\ {b.first, b.last, b.count} \subseteq Int
        /\ \A m \in Present(h) : b.open <= m /\ m <= i => b.first <= m /\ m <= b.last
        /\ b.count = b.last - b.first + 1 <=> b.first..b.last \subseteq Present(h)
    BY <1>1, <1>3 DEF Counted, BucketShape
  <2>2. CompleteBucket(b, k) <=> Whole(h, k, b.open)
    <3>1. ASSUME CompleteBucket(b, k) PROVE Whole(h, k, b.open)
      <4>1. b.first = b.open /\ b.last = b.open + I - 1 /\ b.count = I
        BY <3>1 DEF CompleteBucket
      <4>2. b.first..b.last \subseteq Present(h)
        BY <1>0, <2>1, <4>1
      <4> QED BY <2>1, <4>1, <4>2 DEF Whole
    <3>2. ASSUME Whole(h, k, b.open) PROVE CompleteBucket(b, k)
      <4>1. b.open..(b.open + I - 1) \subseteq Present(h)
        BY <3>2 DEF Whole
      <4>2. b.open \in Present(h) /\ b.open + I - 1 \in Present(h)
        <5>1. b.open \in b.open..(b.open + I - 1) /\ b.open + I - 1 \in b.open..(b.open + I - 1)
          BY <1>0, <2>1
        <5> QED BY <4>1, <5>1
      <4>3. b.open + I - 1 <= i
        <5> DEFINE m == b.open + I - 1
        <5>1. m \in Present(h) /\ m < b.open + I /\ b.open # -1
          BY <1>0, <2>1, <4>2
        <5> HIDE DEF m
        <5>2. m <= i
          BY <5>1
        <5> QED BY <5>2 DEF m
      <4>4. b.first = b.open /\ b.last = b.open + I - 1
        <5> DEFINE m == b.open + I - 1
        <5>1. m \in Present(h) /\ b.open <= m /\ m <= i /\ m \in Int
          BY <1>0, <2>1, <4>2, <4>3
        <5>2. b.open <= b.open /\ b.open <= i
          BY <2>1
        <5>3. b.first <= b.open
          BY <2>1, <4>2, <5>2
        <5> HIDE DEF m
        <5>4. m <= b.last
          BY <2>1, <5>1
        <5>5. b.open + I - 1 <= b.last
          BY <5>4 DEF m
        <5>6. {b.first, b.last, b.open, I} \subseteq Int /\ b.open <= b.first /\ b.last < b.open + I
          BY <1>0, <2>1
        <5> HIDE DEF I
        <5> QED BY <5>3, <5>5, <5>6
      <4>5. b.count = I
        BY <1>0, <2>1, <4>1, <4>4
      <4> QED BY <4>4, <4>5 DEF CompleteBucket
    <3> QED BY <3>1, <3>2
  <2>3. CASE CompleteBucket(b, k)
    <3>1. StoredWith(b, k) = b.stored \cup {b.open}
      BY <2>3 DEF StoredWith
    <3> QED BY <1>1, <2>1, <2>2, <2>3, <3>1
  <2>4. CASE ~CompleteBucket(b, k)
    <3>1. StoredWith(b, k) = b.stored
      BY <2>4 DEF StoredWith
    <3> QED BY <1>1, <2>1, <2>2, <2>4, <3>1
  <2> QED BY <2>3, <2>4
<1> QED BY <1>2, <1>3 DEF BucketAfter

\* A minute that is not there leaves the bucket as it is.
LEMMA AbsentMinute ==
    ASSUME NEW h \in Histories, NEW k \in Resampled, NEW i \in Nat, i \notin Present(h), NEW b,
           BucketAfter(b, h, k, i - 1)
    PROVE  BucketAfter(b, h, k, i)
<1>0. Present(h) \subseteq Nat
  BY HistoryMinutes DEF Present
<1>1. \A m \in Present(h) : m <= i <=> m <= i - 1
  BY <1>0
<1>2. BucketShape(b)
  BY DEF BucketAfter
<1>3. CASE Counted(b, h, k, i - 1)
  <2>1. Counted(b, h, k, i)
    BY <1>1, <1>2, <1>3 DEF Counted, BucketShape
  <2> QED BY <2>1 DEF BucketAfter
<1>4. CASE b.open = -1 /\ b.count = 0 /\ \A m \in Present(h) : m > i - 1
  BY <1>0, <1>1, <1>4 DEF BucketAfter
<1> QED BY <1>3, <1>4 DEF BucketAfter

\* A minute joins the bucket it falls into, or begins the next one.
LEMMA PresentMinute ==
    ASSUME NEW h \in Histories, NEW k \in Resampled, NEW i \in Nat, i \in Present(h), NEW b,
           BucketAfter(b, h, k, i - 1)
    PROVE  BucketAfter(Consume(b, i, k), h, k, i)
<1> DEFINE I == IntervalMinutes[k]
           o == BucketOpen(i, k)
           new == Consume(b, i, k)
<1>0. I \in Nat /\ I > 0 /\ Present(h) \subseteq Nat
  BY ReplayAssumption, HistoryMinutes DEF Present
<1>1. /\ o \in Nat /\ o % I = 0 /\ o <= i /\ i < o + I
      /\ \A p \in Nat : p % I = 0 /\ p <= i => p <= o
      /\ \A p \in Nat : p % I = 0 /\ p > o => p >= o + I
  BY <1>0, BucketFacts DEF BucketOpen
<1>2. BucketShape(b) /\ b.stored = {p \in Nat : p < b.open /\ Whole(h, k, p)}
  BY DEF BucketAfter
<1> HIDE DEF o
<1>3. CASE b.open = o
  <2>1. new = [b EXCEPT !.last = i, !.count = @ + 1]
    BY <1>3 DEF Consume, o
  <2>2. /\ BucketShape(new) /\ new.open = b.open /\ new.first = b.first /\ new.last = i
        /\ new.count = b.count + 1 /\ new.stored = b.stored
    <3> DEFINE moved == [b EXCEPT !.last = i]
    <3>1. moved = [open |-> b.open, first |-> b.first, last |-> i, count |-> b.count,
                   stored |-> b.stored]
      BY <1>2 DEF BucketShape
    <3>2. new = [moved EXCEPT !.count = b.count + 1]
      BY <2>1
    <3> HIDE DEF new, moved
    <3>3. new = [open |-> b.open, first |-> b.first, last |-> i, count |-> b.count + 1,
                 stored |-> b.stored]
      BY <3>1, <3>2
    <3> QED BY <3>3, <1>2 DEF BucketShape
  <2>3. Counted(b, h, k, i - 1)
    BY <1>1, <1>3 DEF BucketAfter
  <2>4. /\ b.open <= b.first /\ b.first <= b.last /\ b.last <= i - 1
        /\ {b.first, b.last} \subseteq Present(h)
        /\ {b.first, b.last, b.count} \subseteq Int
        /\ \A m \in Present(h) : b.open <= m /\ m <= i - 1 => b.first <= m /\ m <= b.last
        /\ b.count <= b.last - b.first + 1
        /\ b.count = b.last - b.first + 1 <=> b.first..b.last \subseteq Present(h)
    BY <1>2, <2>3 DEF Counted, BucketShape
  <2>5. b.count + 1 = i - b.first + 1 <=> b.first..i \subseteq Present(h)
    <3>1. CASE i = b.last + 1
      <4>1. b.first..i = (b.first..b.last) \cup {i}
        BY <2>4, <3>1
      <4> QED BY <2>4, <3>1, <4>1
    <3>2. CASE i # b.last + 1
      <4>0. b.last \in Int /\ b.last + 1 \in Int /\ b.last + 1 <= i - 1 /\ b.open <= b.last + 1
        BY <2>4, <3>2, <1>2 DEF BucketShape
      <4>1. b.last + 1 \notin Present(h)
        BY <4>0, <2>4
      <4>2. b.last + 1 \in b.first..i
        BY <2>4, <3>2
      <4> QED BY <2>4, <3>2, <4>1, <4>2
    <3> QED BY <3>1, <3>2
  <2>6. \A m \in Present(h) : b.open <= m /\ m <= i => b.first <= m /\ m <= i
    BY <1>0, <2>4
  <2> HIDE DEF new
  <2>7. Counted(new, h, k, i)
    BY <1>0, <1>1, <1>3, <2>2, <2>4, <2>5, <2>6 DEF Counted
  <2>8. new.stored = {p \in Nat : p < new.open /\ Whole(h, k, p)}
    BY <1>2, <2>2
  <2>9. BucketAfter(new, h, k, i)
    BY <2>2, <2>7, <2>8, Zenon DEF BucketAfter
  <2> QED BY <2>9 DEF new
<1>4. CASE b.open # o
  <2>1. new = [open |-> o, first |-> i, last |-> i, count |-> 1, stored |-> StoredWith(b, k)]
    BY <1>4 DEF Consume, o
  <2>0. ASSUME Counted(b, h, k, i - 1)
        PROVE  /\ b.open \in Nat /\ b.last \in Int /\ b.last < b.open + I /\ b.last <= i - 1
               /\ b.open < o /\ b.open + I <= o /\ b.open % I = 0
               /\ \A m \in Present(h) : b.open <= m /\ m <= i - 1 => m <= b.last
    <3>1. /\ b.open \in Nat /\ b.open % I = 0 /\ b.open <= b.last /\ b.last < b.open + I
          /\ b.last <= i - 1 /\ b.last \in Int
          /\ \A m \in Present(h) : b.open <= m /\ m <= i - 1 => m <= b.last
      BY <1>2, <2>0 DEF Counted, BucketShape
    <3>2. b.open < o
      <4>1. b.open <= i
        BY <3>1
      <4>2. b.open <= o
        BY <1>1, <3>1, <4>1
      <4> QED BY <1>1, <1>4, <3>1, <4>2
    <3>3. b.open + I <= o
      BY <1>0, <1>1, <3>1, <3>2, NextMultiple
    <3> QED BY <3>1, <3>2, <3>3
  <2>12. \/ b.open = -1 /\ \A m \in Present(h) : m > i - 1
         \/ Counted(b, h, k, i - 1)
    BY DEF BucketAfter
  <2>2. b.open # -1 => \A m \in Present(h) : m < b.open + I => m <= i - 1
    <3> SUFFICES ASSUME b.open # -1, NEW m \in Present(h), m < b.open + I PROVE m <= i - 1
      OBVIOUS
    <3>1. b.open \in Nat /\ b.open + I <= o
      BY <2>0, <2>12
    <3> QED BY <1>0, <1>1, <3>1
  <2>3. StoredWith(b, k) = {p \in Nat : p <= b.open /\ Whole(h, k, p)}
    <3>1. i - 1 \in Int
      OBVIOUS
    <3> QED BY <2>2, <3>1, StoredWhenWhole
  <2>4. ASSUME NEW p \in Nat, Whole(h, k, p) PROVE p <= b.open <=> p < o
    <3>1. p \in Present(h) /\ p % I = 0
      BY <2>4, <1>0 DEF Whole
    <3>3. CASE b.open = -1 /\ \A m \in Present(h) : m > i - 1
      BY <1>0, <1>1, <3>1, <3>3
    <3>4. CASE Counted(b, h, k, i - 1)
      <4>1. /\ b.open \in Nat /\ b.last \in Int /\ b.last < b.open + I /\ b.last <= i - 1
            /\ b.open < o /\ b.open % I = 0
            /\ \A m \in Present(h) : b.open <= m /\ m <= i - 1 => m <= b.last
        BY <2>0, <3>4
      <4>2. ASSUME p < o, p > b.open PROVE FALSE
        <5>1. p <= i - 1
          BY <1>1, <4>2
        <5>2. p <= b.last
          BY <3>1, <4>1, <4>2, <5>1
        <5>3. b.open + I <= p
          BY <1>0, <3>1, <4>1, <4>2, NextMultiple
        <5> QED BY <1>0, <4>1, <5>2, <5>3
      <4> QED BY <4>1, <4>2, <1>1
    <3> QED BY <3>3, <3>4, <2>12
  <2>5. StoredWith(b, k) = {p \in Nat : p < o /\ Whole(h, k, p)}
    BY <2>3, <2>4
  <2> DEFINE kept == StoredWith(b, k)
  <2> HIDE DEF new, kept
  <2>6. /\ BucketShape(new) /\ new.open = o /\ new.first = i /\ new.last = i /\ new.count = 1
        /\ new.stored = kept
    BY <1>1, <2>1 DEF BucketShape, kept
  <2>7. \A m \in Present(h) : o <= m /\ m <= i => i <= m /\ m <= i
    <3> SUFFICES ASSUME NEW m \in Present(h), o <= m, m <= i, m # i PROVE FALSE
      BY <1>0
    <3>0. m \in Nat /\ m <= i - 1
      BY <1>0
    <3>1. CASE b.open = -1 /\ \A j \in Present(h) : j > i - 1
      BY <3>0, <3>1
    <3>2. CASE Counted(b, h, k, i - 1)
      <4>1. /\ b.open \in Nat /\ b.last \in Int /\ b.last < b.open + I
            /\ b.open + I <= o /\ b.open < o
            /\ \A j \in Present(h) : b.open <= j /\ j <= i - 1 => j <= b.last
        BY <2>0, <3>2
      <4>2. b.open <= m
        BY <1>1, <3>0, <4>1
      <4>3. m <= b.last
        BY <3>0, <4>1, <4>2
      <4> QED BY <1>0, <1>1, <3>0, <4>1, <4>3
    <3> QED BY <3>1, <3>2, <2>12
  <2>8. i..i \subseteq Present(h)
    OBVIOUS
  <2>9. Counted(new, h, k, i)
    BY <1>0, <1>1, <2>6, <2>7, <2>8 DEF Counted
  <2>10. new.stored = {p \in Nat : p < new.open /\ Whole(h, k, p)}
    BY <2>5, <2>6 DEF kept
  <2>11. BucketAfter(new, h, k, i)
    BY <2>6, <2>9, <2>10, Zenon DEF BucketAfter
  <2> QED BY <2>11 DEF new
<1> QED BY <1>3, <1>4

\* What is resampled from a history: the intervals of which no minute is missing.
LEMMA ResampledWhole ==
    ASSUME NEW h \in Histories, NEW k \in Resampled
    PROVE  ResampledFrom(h, k) = {o \in Nat : Whole(h, k, o)}
<1> DEFINE N == CoverageStop
<1>0. /\ N \in Nat /\ N > 0 /\ DOMAIN h = 0..(N - 1) /\ Present(h) \subseteq 0..(N - 1)
      /\ IntervalMinutes[k] \in Nat /\ IntervalMinutes[k] > 0
  BY HistoryMinutes, ReplayAssumption DEF Present
<1>1. PICK f : IsBuckets(f, h, k, N - 1) /\ ResampledFrom(h, k) = StoredWith(f[N - 1], k)
  BY ResampledIs
<1>2. \A i \in -1..(N - 1) :
         f[i] = IF i < 0 THEN NoBucket
                ELSE IF i \in Present(h) THEN Consume(f[i - 1], i, k) ELSE f[i - 1]
  BY <1>1 DEF IsBuckets
<1> HIDE DEF N
<1> DEFINE T == {n \in Nat : n - 1 <= N - 1 /\ ~BucketAfter(f[n - 1], h, k, n - 1)}
<1>3. ASSUME T # {} PROVE FALSE
  <2>1. PICK n \in T : \A m \in T : n <= m
    BY <1>3, LeastNumber
  <2>2. n \in Nat /\ n - 1 \in -1..(N - 1) /\ ~BucketAfter(f[n - 1], h, k, n - 1)
    BY <1>0, <2>1
  <2>3. CASE n = 0
    <3>1. f[n - 1] = NoBucket
      BY <1>0, <1>2, <2>3
    <3>2. BucketAfter(NoBucket, h, k, -1)
      <4>1. BucketShape(NoBucket) /\ NoBucket.open = -1 /\ NoBucket.count = 0
            /\ NoBucket.stored = {}
        BY DEF NoBucket, BucketShape
      <4>2. \A m \in Present(h) : m > -1
        BY <1>0
      <4>3. {o \in Nat : o < -1 /\ Whole(h, k, o)} = {}
        OBVIOUS
      <4> QED BY <4>1, <4>2, <4>3 DEF BucketAfter
    <3> QED BY <2>2, <2>3, <3>1, <3>2
  <2>4. CASE n # 0
    <3> DEFINE i == n - 1
    <3>1. i \in Nat /\ i \in -1..(N - 1) /\ n - 1 \in Nat /\ n - 1 \notin T /\ n = i + 1
      BY <2>1, <2>2, <2>4
    <3>2. BucketAfter(f[i - 1], h, k, i - 1)
      <4>1. i \in Nat /\ i \notin T /\ i - 1 <= N - 1
        BY <1>0, <3>1
      <4> HIDE DEF i
      <4> QED BY <4>1, Zenon
    <3> HIDE DEF i
    <3>3. f[i] = IF i \in Present(h) THEN Consume(f[i - 1], i, k) ELSE f[i - 1]
      BY <1>2, <3>1
    <3>4. BucketAfter(f[i], h, k, i)
      BY <3>1, <3>2, <3>3, AbsentMinute, PresentMinute
    <3> QED BY <2>2, <3>4 DEF i
  <2> QED BY <2>3, <2>4
<1>4. BucketAfter(f[N - 1], h, k, N - 1)
  <2>1. N \in Nat /\ N - 1 <= N - 1 /\ N \notin T
    <3>1. T = {}
      BY <1>3
    <3> HIDE DEF T
    <3> QED BY <1>0, <3>1
  <2> QED BY <2>1, Zenon
<1> DEFINE b == f[N - 1]
<1>5. BucketAfter(b, h, k, N - 1) /\ N - 1 \in Int
  BY <1>0, <1>4
<1> HIDE DEF b
<1>6. StoredWith(b, k) = {o \in Nat : o <= b.open /\ Whole(h, k, o)}
  <2>1. \A m \in Present(h) : m <= N - 1
    BY <1>0
  <2> QED BY <1>5, <2>1, StoredWhenWhole
<1>7. ASSUME NEW o \in Nat, Whole(h, k, o) PROVE o <= b.open
  <2>1. o \in Present(h) /\ o <= N - 1 /\ o % IntervalMinutes[k] = 0
    <3>1. o \in o..(o + IntervalMinutes[k] - 1)
      BY <1>0
    <3>2. o \in Present(h) /\ o % IntervalMinutes[k] = 0
      BY <1>7, <3>1 DEF Whole
    <3> QED BY <1>0, <3>2
  <2>2. Counted(b, h, k, N - 1) /\ BucketShape(b)
    <3>1. ~(\A m \in Present(h) : m > N - 1)
      BY <1>0, <2>1
    <3> QED BY <1>5, <3>1 DEF BucketAfter
  <2>3. /\ b.open \in Nat /\ b.open % IntervalMinutes[k] = 0 /\ b.last \in Int
        /\ b.last < b.open + IntervalMinutes[k]
        /\ \A m \in Present(h) : b.open <= m /\ m <= N - 1 => m <= b.last
    BY <2>2 DEF Counted, BucketShape
  <2>4. ASSUME b.open < o PROVE FALSE
    <3>1. b.open + IntervalMinutes[k] <= o
      BY <1>0, <2>1, <2>3, <2>4, NextMultiple
    <3>2. o <= b.last
      BY <2>1, <2>3, <2>4
    <3> QED BY <1>0, <2>3, <3>1, <3>2
  <2> QED BY <2>3, <2>4
<1>8. StoredWith(b, k) = {o \in Nat : Whole(h, k, o)}
  BY <1>6, <1>7
<1> QED BY <1>1, <1>8 DEF b

\* No interval outside the minutes of the history is whole.
LEMMA WholeInHistory ==
    ASSUME NEW h \in Histories, NEW k \in Resampled
    PROVE  {o \in Nat : Whole(h, k, o)} = {o \in ReplayMinutes : Whole(h, k, o)}
<1>1. IntervalMinutes[k] \in Nat /\ IntervalMinutes[k] > 0
      /\ ReplayMinutes \subseteq Nat /\ Present(h) \subseteq ReplayMinutes
  BY HistoryMinutes, ReplayAssumption DEF Present
<1>2. ASSUME NEW o \in Nat, Whole(h, k, o) PROVE o \in ReplayMinutes
  <2>1. o \in o..(o + IntervalMinutes[k] - 1)
    BY <1>1
  <2> QED BY <1>1, <1>2, <2>1 DEF Whole
<1> QED BY <1>1, <1>2

----------------------------------------------------------------------------
(* series_at: the longest gapless series, and the cache. *)

\* The start of the candle j intervals of length I before the one at l.
Back(l, j, I) == l - j * I

\* The lengths a gapless series of stored candles R that ends at l can have.
Gapless(R, I, l, limit) == {n \in 1..limit : \A j \in 0..(n - 1) : Back(l, j, I) \in R}

\* The longest of these series.
Ending(R, I, l, limit) ==
    LET length == Max(Gapless(R, I, l, limit))
    IN  [j \in 1..length |-> Back(l, length - j, I)]

\* Steps back from a candle, counted from the candle after it.
LEMMA BackFacts ==
    ASSUME NEW I \in Nat, NEW l \in Int, NEW j \in Int
    PROVE  /\ Back(l, 0, I) = l /\ Back(l, j, I) \in Int
           /\ Back(l + I, j, I) = Back(l, j - 1, I)
<1>1. l - 0 * I = l /\ l - j * I \in Int
  OBVIOUS
<1>2. (j - 1) * I = j * I - I
  OBVIOUS
<1> DEFINE x == j * I
           y == (j - 1) * I
<1>3. x \in Int /\ y = x - I
  BY <1>2
<1>4. l + I - x = l - y
  <2> HIDE DEF x, y
  <2> QED BY <1>3
<1> QED BY <1>1, <1>4 DEF Back

\* The length of the longest gapless series that ends at a stored candle.
LEMMA GaplessLength ==
    ASSUME NEW R \in SUBSET Int, NEW I \in Nat, NEW l \in R, NEW limit \in Nat \ {0}
    PROVE  LET G == Gapless(R, I, l, limit) IN
           /\ Max(G) \in G /\ Max(G) \in 1..limit
           /\ \A n \in G : n <= Max(G)
<1> DEFINE G == Gapless(R, I, l, limit)
<1>1. 1 \in G
  <2>1. \A j \in 0..(1 - 1) : Back(l, j, I) \in R
    <3>1. Back(l, 0, I) = l
      BY BackFacts
    <3>2. \A j \in 0..(1 - 1) : j = 0
      OBVIOUS
    <3> QED BY <3>1, <3>2
  <2> QED BY <2>1 DEF Gapless
<1>2. G \subseteq 1..limit /\ G \in SUBSET Int /\ \A n \in G : n <= limit
  BY DEF Gapless
<1> HIDE DEF G
<1>3. Max(G) \in G /\ \A n \in G : n <= Max(G)
  BY <1>1, <1>2, MaxOfBounded
<1> QED BY <1>2, <1>3 DEF G

\* The longest series ends at its last candle.
LEMMA EndingEnds ==
    ASSUME NEW R \in SUBSET Int, NEW I \in Nat, NEW l \in R, NEW limit \in Nat \ {0}
    PROVE  LET s == Ending(R, I, l, limit) IN
           /\ s \in Seq(Int) /\ Len(s) = Max(Gapless(R, I, l, limit))
           /\ s # <<>> /\ Last(s) = l
<1> DEFINE length == Max(Gapless(R, I, l, limit))
           s == [j \in 1..length |-> Back(l, length - j, I)]
<1>1. length \in 1..limit
  BY GaplessLength
<1> HIDE DEF length
<1>2. \A j \in 1..length : Back(l, length - j, I) \in Int
  <2> TAKE j \in 1..length
  <2> DEFINE e == length - j
  <2>1. e \in Int
    BY <1>1
  <2> HIDE DEF e
  <2>2. Back(l, e, I) \in Int
    BY <2>1, BackFacts
  <2> QED BY <2>2 DEF e
<1>3. s \in Seq(Int) /\ Len(s) = length
  BY <1>1, <1>2
<1>4. s[length] = l
  <2>1. s[length] = Back(l, length - length, I) /\ length - length = 0
    BY <1>1
  <2> QED BY <2>1, BackFacts
<1>5. s # <<>>
  BY <1>1, <1>3
<1>6. Ending(R, I, l, limit) = s
  BY Zenon DEF Ending, length
<1> HIDE DEF s
<1>7. Last(s) = l
  BY <1>3, <1>4 DEF Last
<1> QED BY <1>3, <1>5, <1>6, <1>7 DEF length

\* One more candle, as far as there is room for it.
LEMMA EndingExtends ==
    ASSUME NEW R \in SUBSET Int, NEW I \in Nat, NEW l \in R, l + I \in R,
           NEW limit \in Nat \ {0}
    PROVE  LET longer == Append(Ending(R, I, l, limit), l + I) IN
           Ending(R, I, l + I, limit) = IF Len(longer) > limit THEN Tail(longer) ELSE longer
<1> DEFINE G == Gapless(R, I, l, limit)
           H == Gapless(R, I, l + I, limit)
           m == Max(G)
           n == Max(H)
           s == Ending(R, I, l, limit)
           longer == Append(s, l + I)
           new == Ending(R, I, l + I, limit)
<1>1. m \in G /\ m \in 1..limit /\ \A j \in G : j <= m
  BY GaplessLength
<1>2. n \in H /\ n \in 1..limit /\ \A j \in H : j <= n
  BY GaplessLength
<1>3. s = [j \in 1..m |-> Back(l, m - j, I)] /\ s \in Seq(Int) /\ Len(s) = m
  BY EndingEnds, Zenon DEF Ending
<1>4. new = [j \in 1..n |-> Back(l + I, n - j, I)] /\ new \in Seq(Int) /\ Len(new) = n
  BY EndingEnds, Zenon DEF Ending
<1>5. \A j \in 0..(m - 1) : Back(l, j, I) \in R
  BY <1>1 DEF Gapless
<1>6. \A j \in 0..(n - 1) : Back(l + I, j, I) \in R
  BY <1>2 DEF Gapless
<1>7. ASSUME NEW i \in 1..limit, \A j \in 0..(i - 1) : Back(l, j, I) \in R PROVE i <= m
  BY <1>1, <1>7 DEF Gapless
<1>8. ASSUME NEW i \in 1..limit, \A j \in 0..(i - 1) : Back(l + I, j, I) \in R PROVE i <= n
  BY <1>2, <1>8 DEF Gapless
<1> HIDE DEF m, n, G, H
<1>9. m + 1 <= limit => m + 1 <= n
  <2> SUFFICES ASSUME m + 1 <= limit PROVE m + 1 <= n
    BY <1>1, <1>2
  <2> DEFINE i == m + 1
  <2>1. i \in 1..limit /\ i = m + 1
    BY <1>1
  <2> HIDE DEF i
  <2>2. ASSUME NEW j \in 0..(i - 1) PROVE Back(l + I, j, I) \in R
    <3>1. CASE j = 0
      BY <3>1, BackFacts
    <3>2. CASE j # 0
      <4>1. j - 1 \in 0..(m - 1) /\ j \in Int
        BY <1>1, <2>1, <3>2
      <4>2. Back(l + I, j, I) = Back(l, j - 1, I)
        BY <4>1, BackFacts
      <4> QED BY <1>5, <4>1, <4>2
    <3> QED BY <3>1, <3>2
  <2>3. i <= n
    BY <1>8, <2>1, <2>2
  <2> QED BY <2>1, <2>3
<1>10. m = limit => n = limit
  <2> SUFFICES ASSUME m = limit PROVE n = limit
    OBVIOUS
  <2>1. ASSUME NEW j \in 0..(limit - 1) PROVE Back(l + I, j, I) \in R
    <3>1. CASE j = 0
      BY <3>1, BackFacts
    <3>2. CASE j # 0
      <4>1. j - 1 \in 0..(m - 1) /\ j \in Int
        BY <1>1, <3>2
      <4>2. Back(l + I, j, I) = Back(l, j - 1, I)
        BY <4>1, BackFacts
      <4> QED BY <1>5, <4>1, <4>2
    <3> QED BY <3>1, <3>2
  <2>2. limit \in 1..limit
    OBVIOUS
  <2>3. limit <= n
    BY <1>8, <2>1, <2>2
  <2> QED BY <1>2, <2>3
<1>11. n <= m + 1
  <2> SUFFICES ASSUME n > m + 1 PROVE FALSE
    BY <1>1, <1>2
  <2>1. n - 1 \in 1..limit
    BY <1>1, <1>2
  <2>2. ASSUME NEW j \in 0..(n - 1 - 1) PROVE Back(l, j, I) \in R
    <3>1. j + 1 \in 0..(n - 1) /\ j + 1 \in Int /\ (j + 1) - 1 = j
      BY <1>2
    <3>2. Back(l + I, j + 1, I) = Back(l, (j + 1) - 1, I)
      BY <3>1, BackFacts
    <3> QED BY <1>6, <3>1, <3>2
  <2>3. n - 1 <= m
    BY <1>7, <2>1, <2>2
  <2> QED BY <1>1, <1>2, <2>3
<1>12. /\ longer \in Seq(Int) /\ Len(longer) = m + 1
       /\ \A j \in 1..m : longer[j] = Back(l, m - j, I)
       /\ longer[m + 1] = l + I
  <2> HIDE DEF s
  <2>1. l + I \in Int
    OBVIOUS
  <2> QED BY <1>1, <1>3, <2>1
<1>13. \A j \in 1..n : new[j] = Back(l, n - j - 1, I)
  <2> TAKE j \in 1..n
  <2> DEFINE e == n - j
  <2>1. new[j] = Back(l + I, e, I) /\ e \in Int
    BY <1>2, <1>4
  <2> HIDE DEF e
  <2>2. new[j] = Back(l, e - 1, I)
    BY <2>1, BackFacts
  <2> QED BY <2>2 DEF e
<1>14. l + I = Back(l, -1, I)
  <2>1. Back(l + I, 0, I) = l + I /\ Back(l + I, 0, I) = Back(l, 0 - 1, I)
    <3>1. l + I \in Int /\ l \in Int /\ 0 \in Int
      OBVIOUS
    <3> QED BY <3>1, BackFacts
  <2>2. 0 - 1 = -1
    OBVIOUS
  <2> QED BY <2>1, <2>2
<1> HIDE DEF s, new, longer
<1>15. CASE m + 1 <= limit
  <2>1. n = m + 1
    BY <1>1, <1>2, <1>9, <1>11, <1>15
  <2>2. \A j \in 1..n : new[j] = longer[j]
    <3> TAKE j \in 1..n
    <3>1. CASE j <= m
      <4>1. n - j - 1 = m - j /\ j \in 1..m
        BY <1>1, <2>1, <3>1
      <4> QED BY <1>12, <1>13, <4>1
    <3>2. CASE j = m + 1
      <4>1. n - j - 1 = -1
        BY <1>1, <2>1, <3>2
      <4> QED BY <1>12, <1>13, <1>14, <3>2, <4>1
    <3> QED BY <1>1, <2>1, <3>1, <3>2
  <2>3. new = longer
    BY <1>1, <1>4, <1>12, <2>1, <2>2
  <2>4. ~(Len(longer) > limit)
    BY <1>1, <1>12, <1>15
  <2> QED BY <2>3, <2>4 DEF new, longer, s
<1>16. CASE m = limit
  <2>1. n = m
    BY <1>10, <1>16
  <2> DEFINE tail == Tail(longer)
  <2>2. tail \in Seq(Int) /\ Len(tail) = m /\ \A j \in 1..m : tail[j] = longer[j + 1]
    BY <1>1, <1>12
  <2> HIDE DEF tail
  <2>3. \A j \in 1..n : new[j] = tail[j]
    <3> TAKE j \in 1..n
    <3>1. CASE j < m
      <4>1. n - j - 1 = m - (j + 1) /\ j + 1 \in 1..m
        BY <1>1, <2>1, <3>1
      <4> QED BY <1>12, <1>13, <2>1, <2>2, <4>1
    <3>2. CASE j = m
      <4>1. n - j - 1 = -1
        BY <1>1, <2>1, <3>2
      <4> QED BY <1>12, <1>13, <1>14, <2>1, <2>2, <3>2, <4>1
    <3> QED BY <1>1, <2>1, <3>1, <3>2
  <2>4. new = tail
    BY <1>1, <1>4, <2>1, <2>2, <2>3
  <2>5. Len(longer) > limit
    BY <1>1, <1>12, <1>16
  <2> QED BY <2>4, <2>5 DEF new, longer, s, tail
<1> QED BY <1>1, <1>15, <1>16

\* A cached series is the longest one that ends at some stored candle.
Cached(series, k, limit) ==
    \E l \in rows[k] : series = Ending(rows[k], IntervalMinutes[k], l, limit)

StoreInv ==
    /\ DOMAIN rows = Resampled /\ \A k \in Resampled : rows[k] \in SUBSET Int
    /\ DOMAIN seriesCache = Resampled \X Limits
    /\ ~Imported => seriesCache = EmptyCache /\ answer = NoAnswer /\ ~native
    /\ Imported => history \in Histories
    /\ \A k \in Resampled : Imported /\ (k = "1M" => ~native) =>
          rows[k] = {o \in Nat : Whole(history, k, o)}
    /\ \A k \in Resampled, n \in Limits :
          seriesCache[<<k, n>>] # <<>> => Cached(seriesCache[<<k, n>>], k, n)
    /\ CacheIsInvisible

\* A question that has an answer, without the cache: the longest series that
\* ends at the last candle closed by then.
LEMMA UncachedIs ==
    ASSUME NEW k \in Resampled, rows[k] \in SUBSET Int, NEW asOf \in Int,
           ClosedAt(k, asOf) # {}, NEW limit \in Limits
    PROVE  LET l == Max(ClosedAt(k, asOf)) IN
           l \in rows[k] /\ Uncached(k, asOf, limit) = Ending(rows[k], IntervalMinutes[k], l, limit)
<1> DEFINE I == IntervalMinutes[k]
           R == rows[k]
           C == ClosedAt(k, asOf)
           l == Max(C)
           G == {n \in 1..limit : \A j \in 0..(n - 1) : l - j * I \in C}
<1>1. I \in Nat /\ I > 0 /\ limit \in Nat \ {0}
  BY ReplayAssumption
<1>2. C \in SUBSET Int /\ C = {o \in R : o + I <= asOf}
  BY DEF ClosedAt
<1>3. \A o \in C : o <= asOf
  BY <1>1, <1>2
<1> HIDE DEF C
<1>4. l \in C
  BY <1>2, <1>3, MaxOfBounded DEF C
<1> HIDE DEF l
<1>5. l \in R /\ l + I <= asOf /\ l \in Int
  BY <1>2, <1>4
<1>6. ASSUME NEW j \in Nat PROVE l - j * I \in C <=> l - j * I \in R
  <2> DEFINE x == j * I
  <2>1. x \in Nat
    BY <1>1
  <2> HIDE DEF x
  <2>2. l - x \in C <=> l - x \in R
    BY <1>1, <1>2, <1>5, <2>1
  <2> QED BY <2>2 DEF x
<1>7. G = Gapless(R, I, l, limit)
  <2>1. \A n \in 1..limit : (\A j \in 0..(n - 1) : l - j * I \in C)
                            <=> (\A j \in 0..(n - 1) : l - j * I \in R)
    <3> TAKE n \in 1..limit
    <3>1. \A j \in 0..(n - 1) : j \in Nat
      OBVIOUS
    <3> QED BY <1>6, <3>1
  <2>2. Gapless(R, I, l, limit) = {n \in 1..limit : \A j \in 0..(n - 1) : l - j * I \in R}
    BY Zenon DEF Gapless, Back
  <2> HIDE DEF R, I
  <2> QED BY <2>1, <2>2
<1> DEFINE length == Max(G)
<1>8. Uncached(k, asOf, limit) = [j \in 1..length |-> l - (length - j) * I]
  BY Zenon DEF Uncached, l, C
<1>9. Ending(R, I, l, limit) = [j \in 1..length |-> l - (length - j) * I]
  <2> HIDE DEF G
  <2> QED BY <1>7, Zenon DEF Ending, Back
<1>10. Uncached(k, asOf, limit) = Ending(R, I, l, limit)
  BY <1>8, <1>9, Zenon
<1> QED BY <1>5, <1>10 DEF l, C

\* With a true cache or with none, the answer is the same.
LEMMA SeriesIsUncached ==
    ASSUME NEW k \in Resampled, NEW limit \in Limits, NEW asOf \in Int,
           rows[k] \in SUBSET Int, ClosedAt(k, asOf) # {},
           LET cached == seriesCache[<<k, limit>>] IN
               cached # <<>> => Cached(cached, k, limit)
    PROVE  /\ SeriesAt(seriesCache, k, asOf, limit) = Uncached(k, asOf, limit)
           /\ Cached(Uncached(k, asOf, limit), k, limit)
<1> DEFINE I == IntervalMinutes[k]
           R == rows[k]
           cached == seriesCache[<<k, limit>>]
           latest == Max(ClosedAt(k, asOf))
           longer == Append(cached, latest)
           series == Ending(R, I, latest, limit)
<1>0. I \in Nat /\ I > 0 /\ limit \in Nat \ {0}
  BY ReplayAssumption
<1>1. latest \in R /\ Uncached(k, asOf, limit) = series
  BY UncachedIs
<1>2. SeriesAt(seriesCache, k, asOf, limit)
        = CASE cached # <<>> /\ latest = Last(cached) -> cached
            [] cached # <<>> /\ latest = Last(cached) + I ->
                 IF Len(longer) > limit THEN Tail(longer) ELSE longer
            [] OTHER -> Uncached(k, asOf, limit)
  BY Zenon DEF SeriesAt, ExtendsCached
<1> HIDE DEF cached, latest, R, I
<1>3. Cached(Uncached(k, asOf, limit), k, limit)
  BY <1>1, Zenon DEF Cached, R, I
<1>4. CASE cached # <<>>
  <2>1. PICK l \in R : cached = Ending(R, I, l, limit)
    BY <1>4, Zenon DEF Cached, cached, R, I
  <2>2. R \in SUBSET Int
    BY DEF R
  <2>3. Last(cached) = l
    BY <1>0, <2>1, <2>2, EndingEnds
  <2>4. CASE latest = l
    <3>0. latest # l + I
      BY <1>0, <2>2, <2>4
    <3>1. SeriesAt(seriesCache, k, asOf, limit) = cached
      BY <1>2, <1>4, <2>3, <2>4, <3>0, Zenon
    <3> QED BY <1>1, <1>3, <2>1, <2>4, <3>1
  <2>5. CASE latest = l + I
    <3>1. series = IF Len(longer) > limit THEN Tail(longer) ELSE longer
      BY <1>0, <1>1, <2>1, <2>2, <2>5, EndingExtends
    <3>2. latest # l
      BY <1>0, <2>2, <2>5
    <3> HIDE DEF series, longer
    <3>3. SeriesAt(seriesCache, k, asOf, limit)
            = IF Len(longer) > limit THEN Tail(longer) ELSE longer
      BY <1>2, <1>4, <2>3, <2>5, <3>2, Zenon
    <3> QED BY <1>1, <1>3, <3>1, <3>3, Zenon
  <2>6. CASE latest # l /\ latest # l + I
    <3>1. SeriesAt(seriesCache, k, asOf, limit) = Uncached(k, asOf, limit)
      BY <1>2, <2>3, <2>6
    <3> QED BY <1>3, <3>1
  <2> QED BY <2>4, <2>5, <2>6
<1>5. CASE cached = <<>>
  <2>1. SeriesAt(seriesCache, k, asOf, limit) = Uncached(k, asOf, limit)
    BY <1>2, <1>5
  <2> QED BY <1>3, <2>1
<1> QED BY <1>4, <1>5

\* The empty store.
LEMMA StoreInitInv == StoreInit => StoreInv
<1> SUFFICES ASSUME StoreInit PROVE StoreInv
  OBVIOUS
<1> USE DEF StoreInit
<1>1. ~Imported
  BY DEF Imported
<1>2. DOMAIN rows = Resampled /\ \A k \in Resampled : rows[k] \in SUBSET Int
  OBVIOUS
<1>3. DOMAIN seriesCache = Resampled \X Limits
      /\ \A k \in Resampled, n \in Limits : seriesCache[<<k, n>>] = <<>>
  BY DEF EmptyCache
<1>4. CacheIsInvisible
  BY DEF CacheIsInvisible
<1> QED BY <1>1, <1>2, <1>3, <1>4 DEF StoreInv

----------------------------------------------------------------------------
(* The steps of the store. *)

\* import_manifest stores the whole intervals of its history and nothing else.
LEMMA ImportMarketStep ==
    ASSUME StoreInv, ImportMarket
    PROVE  StoreInv'
<1>1. PICK h \in Histories : /\ history' = h
                             /\ rows' = [k \in Resampled |-> ResampledFrom(h, k)]
  BY DEF ImportMarket
<1>2. /\ ~Imported /\ native' = native /\ seriesCache' = seriesCache /\ answer' = answer
      /\ seriesCache = EmptyCache /\ answer = NoAnswer /\ ~native
      /\ DOMAIN seriesCache = Resampled \X Limits
  BY DEF ImportMarket, StoreInv
<1>3. \A k \in Resampled : rows'[k] = {o \in Nat : Whole(h, k, o)}
  BY <1>1, ResampledWhole
<1>4. DOMAIN rows' = Resampled /\ \A k \in Resampled : rows'[k] \in SUBSET Int
  <2>1. DOMAIN rows' = Resampled
    BY <1>1
  <2>2. ASSUME NEW k \in Resampled PROVE rows'[k] \in SUBSET Int
    <3>1. rows'[k] = {o \in Nat : Whole(h, k, o)}
      BY <1>3
    <3> QED BY <3>1
  <2> QED BY <2>1, <2>2
<1>5. Imported' /\ history' \in Histories
  BY <1>1, HistoryMinutes DEF Imported
<1>6. \A k \in Resampled, n \in Limits : seriesCache'[<<k, n>>] = <<>>
  BY <1>2 DEF EmptyCache
<1>7. CacheIsInvisible'
  BY <1>2 DEF CacheIsInvisible
<1>8. \A k \in Resampled : rows'[k] = {o \in Nat : Whole(history', k, o)}
  BY <1>1, <1>3
<1> QED BY <1>2, <1>4, <1>5, <1>6, <1>7, <1>8 DEF StoreInv

\* import_native_monthly_manifest drops the cache with the rows it replaces.
LEMMA ImportNativeStep ==
    ASSUME StoreInv, ImportNativeMonthly
    PROVE  StoreInv'
<1>1. PICK m \in NativeRanges :
        rows' = [rows EXCEPT !["1M"] =
                    {o \in @ : o < m[1] \/ o >= m[2]}
                    \cup {o \in m[1]..(m[2] - 1) : o % IntervalMinutes["1M"] = 0}]
  BY Zenon DEF ImportNativeMonthly
<1>2. /\ Imported /\ native' = TRUE /\ seriesCache' = EmptyCache /\ answer' = NoAnswer
      /\ history' = history
  BY DEF ImportNativeMonthly
<1>3. /\ DOMAIN rows = Resampled /\ \A k \in Resampled : rows[k] \in SUBSET Int
      /\ history \in Histories /\ "1M" \in Resampled
      /\ \A k \in Resampled : k # "1M" => rows[k] = {o \in Nat : Whole(history, k, o)}
  BY <1>2, ReplayAssumption DEF StoreInv
<1>4. DOMAIN rows' = Resampled /\ \A k \in Resampled : rows'[k] \in SUBSET Int
  <2>1. DOMAIN rows' = Resampled
    BY <1>1, <1>3
  <2>2. ASSUME NEW k \in Resampled PROVE rows'[k] \in SUBSET Int
    <3>1. CASE k = "1M"
      <4>1. rows'[k] = {o \in rows[k] : o < m[1] \/ o >= m[2]}
                       \cup {o \in m[1]..(m[2] - 1) : o % IntervalMinutes["1M"] = 0}
        BY <1>1, <1>3, <3>1
      <4>2. {o \in m[1]..(m[2] - 1) : o % IntervalMinutes["1M"] = 0} \subseteq Int
        OBVIOUS
      <4>3. rows[k] \subseteq Int
        BY <1>3
      <4> QED BY <4>1, <4>2, <4>3
    <3>2. CASE k # "1M"
      BY <1>1, <1>3, <3>2
    <3> QED BY <3>1, <3>2
  <2> QED BY <2>1, <2>2
<1>5. Imported'
  BY <1>2 DEF Imported
<1>6. DOMAIN seriesCache' = Resampled \X Limits
      /\ \A k \in Resampled, n \in Limits : seriesCache'[<<k, n>>] = <<>>
  BY <1>2 DEF EmptyCache
<1>7. CacheIsInvisible'
  BY <1>2 DEF CacheIsInvisible
<1>8. \A k \in Resampled : k # "1M" => rows'[k] = {o \in Nat : Whole(history', k, o)}
  BY <1>1, <1>2, <1>3
<1> QED BY <1>2, <1>3, <1>4, <1>5, <1>6, <1>7, <1>8 DEF StoreInv

\* A step that leaves the candles alone and replaces cached series by what the
\* store would answer.
LEMMA AnswersKeepStore ==
    ASSUME StoreInv, Imported, UNCHANGED <<history, rows, native>>,
           DOMAIN seriesCache' = Resampled \X Limits,
           \A k \in Resampled, n \in Limits :
               \/ seriesCache'[<<k, n>>] = seriesCache[<<k, n>>]
               \/ Cached(seriesCache'[<<k, n>>], k, n),
           CacheIsInvisible'
    PROVE  StoreInv'
<1>1. \A k \in Resampled, n \in Limits :
          seriesCache'[<<k, n>>] # <<>> => Cached(seriesCache'[<<k, n>>], k, n)
  BY DEF StoreInv
<1>2. \A k \in Resampled, n \in Limits :
          (seriesCache[<<k, n>>] # <<>> => Cached(seriesCache[<<k, n>>], k, n))'
  BY <1>1 DEF Cached
<1>3. Imported'
  BY DEF Imported
<1> QED BY <1>2, <1>3 DEF StoreInv

\* series_at: one question to the store, from the cache or not.
LEMMA QueryStep ==
    ASSUME StoreInv, NEW k \in Resampled, NEW asOf \in Int, NEW limit \in Limits,
           QuerySeries(k, asOf, limit)
    PROVE  StoreInv'
<1> DEFINE series == SeriesAt(seriesCache, k, asOf, limit)
<1>1. /\ Imported /\ ClosedAt(k, asOf) # {} /\ history' = history /\ rows' = rows
      /\ native' = native
      /\ seriesCache' = [seriesCache EXCEPT ![<<k, limit>>] = series]
      /\ answer' = [interval |-> k, asOf |-> asOf, limit |-> limit, series |-> series]
  BY DEF QuerySeries
<1>2. /\ rows[k] \in SUBSET Int /\ DOMAIN seriesCache = Resampled \X Limits
      /\ seriesCache[<<k, limit>>] # <<>> => Cached(seriesCache[<<k, limit>>], k, limit)
  BY DEF StoreInv
<1>3. series = Uncached(k, asOf, limit) /\ Cached(series, k, limit)
  <2> HIDE DEF series
  <2>1. series = Uncached(k, asOf, limit) /\ Cached(Uncached(k, asOf, limit), k, limit)
    BY <1>1, <1>2, SeriesIsUncached DEF series
  <2> QED BY <2>1, Zenon
<1> HIDE DEF series
<1>4. CacheIsInvisible'
  <2>1. Uncached(k, asOf, limit)' = Uncached(k, asOf, limit)
    BY <1>1 DEF Uncached, ClosedAt
  <2>2. answer'.interval = k /\ answer'.asOf = asOf /\ answer'.limit = limit
        /\ answer'.series = series
    BY <1>1
  <2> DEFINE u(e) == Uncached(e.interval, e.asOf, e.limit)
  <2>3. u(answer)' = Uncached(k, asOf, limit)
    BY <1>1, <2>2 DEF Uncached, ClosedAt
  <2> QED BY <1>3, <2>2, <2>3 DEF CacheIsInvisible
<1>5. \A j \in Resampled, n \in Limits :
          \/ seriesCache'[<<j, n>>] = seriesCache[<<j, n>>]
          \/ Cached(seriesCache'[<<j, n>>], j, n)
  <2> TAKE j \in Resampled, n \in Limits
  <2>1. CASE <<j, n>> = <<k, limit>>
    <3>1. seriesCache'[<<j, n>>] = series /\ j = k /\ n = limit
      BY <1>1, <1>2, <2>1
    <3> QED BY <1>3, <3>1, Zenon
  <2>2. CASE <<j, n>> # <<k, limit>>
    BY <1>1, <1>2, <2>2
  <2> QED BY <2>1, <2>2
<1>6. DOMAIN seriesCache' = Resampled \X Limits
  BY <1>1, <1>2
<1> QED BY <1>1, <1>4, <1>5, <1>6, AnswersKeepStore

\* Every operation of the store.
LEMMA StoreStep ==
    ASSUME StoreInv, StoreNext
    PROVE  StoreInv'
<1>1. CASE ImportMarket
  BY <1>1, ImportMarketStep
<1>2. CASE ImportNativeMonthly
  BY <1>2, ImportNativeStep
<1>3. CASE \E k \in Resampled, asOf \in 1..CoverageStop, limit \in Limits :
              QuerySeries(k, asOf, limit)
  <2>1. PICK k \in Resampled, asOf \in 1..CoverageStop, limit \in Limits :
              QuerySeries(k, asOf, limit)
    BY <1>3
  <2>2. asOf \in Int
    OBVIOUS
  <2> QED BY <2>1, <2>2, QueryStep
<1> QED BY <1>1, <1>2, <1>3 DEF StoreNext

----------------------------------------------------------------------------
(* A whole track: both replays to the end of the stream. *)

\* The equations of a simulated and of a live replay of the stored minutes up to n.
IsReplay(f, t, created, variant, n) ==
    f = [i \in (created - 1)..n |->
            IF i < created THEN NewReplay(t, created)
            ELSE Advance(t, created, variant, f[i - 1], i, history[i])]

IsLive(f, t, created, variant, n) ==
    f = [i \in (created - 1)..n |->
            IF i < created THEN NewLive(t)
            ELSE LiveMinute(t, created, variant, f[i - 1], i, history[i])]

\* The simulator's replay of n minutes is defined.
LEMMA ReplayExists ==
    ASSUME NEW t, NEW created \in Nat, NEW variant, NEW n \in Nat
    PROVE  \E f : IsReplay(f, t, created, variant, created + n - 1)
<1> DEFINE T == {m \in Nat : ~\E f : IsReplay(f, t, created, variant, created + m - 1)}
<1> SUFFICES ASSUME n \in T PROVE FALSE
  OBVIOUS
<1>1. PICK m \in T : \A j \in T : m <= j
  BY LeastNumber
<1>2. CASE m = 0
  <2> DEFINE f == [i \in (created - 1)..(created - 1) |-> NewReplay(t, created)]
  <2>1. f = [i \in (created - 1)..(created - 1) |->
            IF i < created THEN NewReplay(t, created)
            ELSE Advance(t, created, variant, f[i - 1], i, history[i])]
    OBVIOUS
  <2>2. IsReplay(f, t, created, variant, created + m - 1)
    BY <1>2, <2>1 DEF IsReplay
  <2> QED BY <2>2
<1>3. CASE m # 0
  <2> DEFINE e == created + m - 1
             step(x, i) == Advance(t, created, variant, x, i, history[i])
  <2>0. e \in Int /\ e >= created /\ created + (m - 1) - 1 = e - 1
    BY <1>1, <1>3
  <2>1. m - 1 \in Nat /\ m - 1 \notin T
    BY <1>1, <1>3
  <2>2. PICK f : IsReplay(f, t, created, variant, created + (m - 1) - 1)
    BY <2>1, Zenon
  <2> DEFINE g == [i \in (created - 1)..e |->
                      IF i < created THEN NewReplay(t, created) ELSE step(f[i - 1], i)]
  <2>3. f = [i \in (created - 1)..(e - 1) |->
                IF i < created THEN NewReplay(t, created) ELSE step(f[i - 1], i)]
    BY <2>0, <2>2 DEF IsReplay
  <2> HIDE DEF step, e
  <2>4. \A i \in created..e : g[i - 1] = f[i - 1]
    BY <2>0, <2>3
  <2>5. g = [i \in (created - 1)..e |->
                IF i < created THEN NewReplay(t, created) ELSE step(g[i - 1], i)]
    <3> DEFINE x == g
    <3>1. \A i \in created..e : x[i - 1] = f[i - 1]
      BY <2>4
    <3> HIDE DEF x
    <3>2. g = [i \in (created - 1)..e |->
                IF i < created THEN NewReplay(t, created) ELSE step(x[i - 1], i)]
      BY <3>1, <2>0
    <3> QED BY <3>2 DEF x
  <2> HIDE DEF g
  <2>6. IsReplay(g, t, created, variant, e)
    BY <2>5, Zenon DEF IsReplay, step
  <2> QED BY <1>1, <2>6, Zenon DEF e
<1> QED BY <1>2, <1>3

\* And so is the live one.
LEMMA LiveExists ==
    ASSUME NEW t, NEW created \in Nat, NEW variant, NEW n \in Nat
    PROVE  \E f : IsLive(f, t, created, variant, created + n - 1)
<1> DEFINE T == {m \in Nat : ~\E f : IsLive(f, t, created, variant, created + m - 1)}
<1> SUFFICES ASSUME n \in T PROVE FALSE
  OBVIOUS
<1>1. PICK m \in T : \A j \in T : m <= j
  BY LeastNumber
<1>2. CASE m = 0
  <2> DEFINE f == [i \in (created - 1)..(created - 1) |-> NewLive(t)]
  <2>1. f = [i \in (created - 1)..(created - 1) |->
            IF i < created THEN NewLive(t)
            ELSE LiveMinute(t, created, variant, f[i - 1], i, history[i])]
    OBVIOUS
  <2>2. IsLive(f, t, created, variant, created + m - 1)
    BY <1>2, <2>1 DEF IsLive
  <2> QED BY <2>2
<1>3. CASE m # 0
  <2> DEFINE e == created + m - 1
             step(x, i) == LiveMinute(t, created, variant, x, i, history[i])
  <2>0. e \in Int /\ e >= created /\ created + (m - 1) - 1 = e - 1
    BY <1>1, <1>3
  <2>1. m - 1 \in Nat /\ m - 1 \notin T
    BY <1>1, <1>3
  <2>2. PICK f : IsLive(f, t, created, variant, created + (m - 1) - 1)
    BY <2>1, Zenon
  <2> DEFINE g == [i \in (created - 1)..e |->
                      IF i < created THEN NewLive(t) ELSE step(f[i - 1], i)]
  <2>3. f = [i \in (created - 1)..(e - 1) |->
                IF i < created THEN NewLive(t) ELSE step(f[i - 1], i)]
    BY <2>0, <2>2 DEF IsLive
  <2> HIDE DEF step, e
  <2>4. \A i \in created..e : g[i - 1] = f[i - 1]
    BY <2>0, <2>3
  <2>5. g = [i \in (created - 1)..e |->
                IF i < created THEN NewLive(t) ELSE step(g[i - 1], i)]
    <3> DEFINE x == g
    <3>1. \A i \in created..e : x[i - 1] = f[i - 1]
      BY <2>4
    <3> HIDE DEF x
    <3>2. g = [i \in (created - 1)..e |->
                IF i < created THEN NewLive(t) ELSE step(x[i - 1], i)]
      BY <3>1, <2>0
    <3> QED BY <3>2 DEF x
  <2> HIDE DEF g
  <2>6. IsLive(g, t, created, variant, e)
    BY <2>5, Zenon DEF IsLive, step
  <2> QED BY <1>1, <2>6, Zenon DEF e
<1> QED BY <1>2, <1>3

\* The simulated replay, up to the last minute e of the stream.
LEMMA ReplayedIs ==
    ASSUME NEW t, NEW created \in Nat, NEW variant, NEW end, NEW e \in Int, e >= created - 1,
           StreamEnd(created, end) - 1 = e
    PROVE  \E f : IsReplay(f, t, created, variant, e) /\ Replayed(t, created, variant, end) = f[e]
<1> DEFINE f == CHOOSE x : IsReplay(x, t, created, variant, e)
<1>1. PICK n \in Nat : created + n - 1 = e
  <2>1. e + 1 - created \in Nat /\ created + (e + 1 - created) - 1 = e
    OBVIOUS
  <2> QED BY <2>1
<1>2. \E x : IsReplay(x, t, created, variant, e)
  BY <1>1, ReplayExists
<1>3. IsReplay(f, t, created, variant, e)
  BY <1>2, Zenon
<1>4. Replayed(t, created, variant, end) = f[e]
  BY Zenon DEF Replayed, IsReplay
<1> HIDE DEF f
<1> QED BY <1>3, <1>4, Zenon

\* The live replay, up to the last minute e of the stream.
LEMMA LiveOutcomeIs ==
    ASSUME NEW t, NEW created \in Nat, NEW variant, NEW end, NEW e \in Int, e >= created - 1,
           StreamEnd(created, end) - 1 = e
    PROVE  \E f : IsLive(f, t, created, variant, e) /\ LiveOutcome(t, created, variant, end) = f[e]
<1> DEFINE f == CHOOSE x : IsLive(x, t, created, variant, e)
<1>1. PICK n \in Nat : created + n - 1 = e
  <2>1. e + 1 - created \in Nat /\ created + (e + 1 - created) - 1 = e
    OBVIOUS
  <2> QED BY <2>1
<1>2. \E x : IsLive(x, t, created, variant, e)
  BY <1>1, LiveExists
<1>3. IsLive(f, t, created, variant, e)
  BY <1>2, Zenon
<1>4. LiveOutcome(t, created, variant, end) = f[e]
  BY Zenon DEF LiveOutcome, IsLive
<1> HIDE DEF f
<1> QED BY <1>3, <1>4, Zenon

\* When a simulated track was decided, and how far it was replayed.
Decided(created, s, i) ==
    /\ s.next_open <= i + 1 /\ s.next_open >= created
    /\ s.trade # NoTrade => s.trade.terminal_at \in Int /\ s.trade.terminal_at <= 2 * (i + 1)

\* One minute of an open track: what it decides ends in that minute.
LEMMA OpenDecides ==
    ASSUME NEW t, NEW variant, NEW s, SimShape(s), s.trade = NoTrade, NEW i \in Nat,
           NEW c, NEW created \in Nat, created <= i, s.next_open = i + 1
    PROVE  Decided(created, AdvanceOpen(t, variant, s, i, c), i)
<1> DEFINE after == AdvanceOpen(t, variant, s, i, c)
           activation == s.activated_at = i
           lost == Stopped(t, s, i, c, activation)
           won == SimTrade("WIN", CloseOf(i), s.entry, t.target, NetResult(t, s.entry, t.target))
           raised == IF t.side = "LONG" THEN s.entry + t.cost ELSE s.entry - t.cost
<1>0. CloseOf(i) \in Int /\ CloseOf(i) <= 2 * (i + 1)
  BY DEF CloseOf
<1>1. lost.terminal_at = CloseOf(i) /\ won.terminal_at = CloseOf(i)
  BY DEF Stopped, SimTrade
<1>2. \/ after = [s EXCEPT !.trade = lost]
      \/ after = [s EXCEPT !.trade = won]
      \/ after = [s EXCEPT !.current_stop = raised]
      \/ after = s
  BY Zenon DEF AdvanceOpen
<1>3. s = [entry |-> s.entry, activated_at |-> s.activated_at,
           current_stop |-> s.current_stop, next_open |-> s.next_open, trade |-> s.trade]
  BY DEF SimShape
<1> HIDE DEF after, lost, won, raised
<1>4. after.next_open = i + 1 /\ after.trade \in {lost, won, NoTrade}
  BY <1>2, <1>3
<1>5. Decided(created, after, i)
  BY <1>0, <1>1, <1>4 DEF Decided
<1> QED BY <1>5 DEF after

\* One minute of any track: what it decides ends in that minute, the expiry included.
LEMMA AdvanceDecides ==
    ASSUME NEW t, SimulatedTerms(t), NEW variant, NEW s, SimShape(s), NEW i \in Nat, NEW c,
           NEW created \in Nat, created <= i, Decided(created, s, i - 1)
    PROVE  Decided(created, Advance(t, created, variant, s, i, c), i)
<1> DEFINE after == Advance(t, created, variant, s, i, c)
           started == [s EXCEPT !.next_open = i + 1]
           entry == IF t.side = "LONG" THEN t.entry_high ELSE t.entry_low
           filled == [started EXCEPT !.entry = entry, !.activated_at = i]
           none == SimTrade("NO_FILL", OpenOf(created + SimulatedExpiry), NoPrice, NoPrice, 0)
<1>1. SimShape(started) /\ started.trade = s.trade /\ started.next_open = i + 1
      /\ started.entry = s.entry
  BY DEF SimShape
<1>2. entry \in Int
  BY DEF SimulatedTerms, ValidTerms
<1> HIDE DEF entry, started
<1>3. SimShape(filled) /\ filled.trade = started.trade /\ filled.next_open = i + 1
  <2> DEFINE x == [started EXCEPT !.entry = entry]
  <2>1. x = [entry |-> entry, activated_at |-> started.activated_at,
             current_stop |-> started.current_stop, next_open |-> started.next_open,
             trade |-> started.trade]
    BY <1>1 DEF SimShape
  <2>2. filled = [x EXCEPT !.activated_at = i]
    BY Zenon
  <2> HIDE DEF x, filled
  <2>3. filled = [entry |-> entry, activated_at |-> i,
                  current_stop |-> started.current_stop, next_open |-> started.next_open,
                  trade |-> started.trade]
    BY <2>1, <2>2
  <2> QED BY <1>1, <1>2, <2>3 DEF SimShape
<1>4. CASE s.trade # NoTrade
  <2>1. after = s
    BY <1>4, Zenon DEF Advance
  <2>2. s.next_open <= i + 1
    BY DEF Decided, SimShape
  <2>3. s.trade.terminal_at \in Int /\ s.trade.terminal_at <= 2 * (i + 1) /\ s.next_open >= created
    BY <1>4 DEF Decided
  <2> HIDE DEF after
  <2>4. Decided(created, after, i)
    BY <2>1, <2>2, <2>3 DEF Decided
  <2> QED BY <2>4 DEF after
<1>5. CASE s.trade = NoTrade
  <2>1. \/ after = AdvanceOpen(t, variant, started, i, c)
        \/ ExpiresInside(created, i) /\ after = [started EXCEPT !.trade = none]
        \/ after = AdvanceOpen(t, variant, filled, i, c)
        \/ after = started
    BY <1>5, Zenon DEF Advance, started, entry
  <2> HIDE DEF after, filled
  <2>2. CASE after = AdvanceOpen(t, variant, started, i, c)
    <3>1. Decided(created, after, i)
      BY <1>1, <1>5, <2>2, OpenDecides
    <3> QED BY <3>1 DEF after
  <2>3. CASE after = AdvanceOpen(t, variant, filled, i, c)
    <3>1. Decided(created, after, i)
      BY <1>1, <1>3, <1>5, <2>3, OpenDecides
    <3> QED BY <3>1 DEF after
  <2>4. CASE after = started
    <3>1. Decided(created, after, i)
      BY <1>1, <1>5, <2>4 DEF Decided
    <3> QED BY <3>1 DEF after
  <2>5. CASE ExpiresInside(created, i) /\ after = [started EXCEPT !.trade = none]
    <3>1. none.terminal_at = 2 * (created + SimulatedExpiry)
      BY DEF SimTrade, OpenOf
    <3>2. none.terminal_at \in Int /\ none.terminal_at <= 2 * (i + 1)
      BY <2>5, <3>1, ExpiryAssumption DEF ExpiresInside
    <3> HIDE DEF none
    <3>3. after.trade = none /\ after.next_open = i + 1
      BY <1>1, <2>5 DEF SimShape
    <3>4. Decided(created, after, i)
      BY <3>2, <3>3 DEF Decided
    <3> QED BY <3>4 DEF after
  <2> QED BY <2>1, <2>2, <2>3, <2>4, <2>5
<1> QED BY <1>4, <1>5

\* Minute by minute, the simulated and the live replay of the same candles agree.
LEMMA ReplaysAlike ==
    ASSUME NEW t, SimulatedTerms(t), NEW created \in Nat, NEW variant, NEW e \in Int,
           e >= created - 1, \A i \in created..e : ValidCandle(history[i]),
           NEW f, IsReplay(f, t, created, variant, e), NEW g, IsLive(g, t, created, variant, e)
    PROVE  Alike(t, f[e], g[e]) /\ Recorded(created, f[e]) /\ Decided(created, f[e], e)
<1>0. PICK n \in Nat : created + n - 1 = e
  <2>1. e + 1 - created \in Nat /\ created + (e + 1 - created) - 1 = e
    OBVIOUS
  <2> QED BY <2>1
<1> DEFINE Agree(i) == Alike(t, f[i], g[i]) /\ Recorded(created, f[i]) /\ Decided(created, f[i], i)
           T == {m \in Nat : m <= n /\ ~Agree(created + m - 1)}
<1>1. /\ \A i \in (created - 1)..e :
            f[i] = IF i < created THEN NewReplay(t, created)
                   ELSE Advance(t, created, variant, f[i - 1], i, history[i])
      /\ \A i \in (created - 1)..e :
            g[i] = IF i < created THEN NewLive(t)
                   ELSE LiveMinute(t, created, variant, g[i - 1], i, history[i])
  BY DEF IsReplay, IsLive
<1>2. ASSUME T # {} PROVE FALSE
  <2>1. PICK m \in T : \A j \in T : m <= j
    BY <1>2, LeastNumber
  <2>2. m \in Nat /\ m <= n /\ ~Agree(created + m - 1)
    BY <2>1, Zenon
  <2> DEFINE i == created + m - 1
  <2>3. i \in Int /\ i \in (created - 1)..e /\ ~Agree(i)
    BY <1>0, <2>2
  <2>4. CASE m = 0
    <3>1. i = created - 1 /\ i < created
      BY <2>4
    <3> HIDE DEF i
    <3>2. f[i] = NewReplay(t, created) /\ g[i] = NewLive(t)
      BY <1>1, <2>3, <3>1
    <3>3. Decided(created, NewReplay(t, created), i)
      BY <3>1 DEF Decided, NewReplay
    <3> QED BY <2>3, <3>2, <3>3, StartsAlike
  <2>5. CASE m # 0
    <3>1. i \in Nat /\ i >= created /\ m - 1 \in Nat /\ m - 1 \notin T /\ m - 1 <= n
          /\ created + (m - 1) - 1 = i - 1
      BY <2>1, <2>2, <2>5
    <3>2. Agree(created + (m - 1) - 1)
      BY <3>1, Zenon
    <3> HIDE DEF i
    <3>3. Alike(t, f[i - 1], g[i - 1]) /\ Recorded(created, f[i - 1])
          /\ Decided(created, f[i - 1], i - 1)
      BY <3>1, <3>2, Zenon
    <3>4. f[i] = Advance(t, created, variant, f[i - 1], i, history[i])
          /\ g[i] = LiveMinute(t, created, variant, g[i - 1], i, history[i])
          /\ ValidCandle(history[i])
      BY <1>1, <2>3, <3>1
    <3>5. SimShape(f[i - 1]) /\ i >= f[i - 1].next_open
      <4>1. SimShape(f[i - 1])
        BY <3>3 DEF Alike
      <4>2. f[i - 1].next_open \in Int /\ f[i - 1].next_open <= (i - 1) + 1
        BY <3>3, <4>1 DEF SimShape, Decided
      <4> QED BY <3>1, <4>1, <4>2
    <3>6. Alike(t, f[i], g[i]) /\ Recorded(created, f[i])
      BY <3>1, <3>3, <3>4, <3>5, MinutesAlike
    <3>7. Decided(created, f[i], i)
      BY <3>1, <3>3, <3>4, <3>5, AdvanceDecides
    <3> QED BY <2>3, <3>6, <3>7
  <2> QED BY <2>4, <2>5
<1>3. n \in Nat /\ n <= n /\ n \notin T
  <2>1. T = {}
    BY <1>2
  <2> HIDE DEF T
  <2> QED BY <2>1
<1>4. Agree(created + n - 1)
  BY <1>3, Zenon
<1> QED BY <1>0, <1>4

\* The stream of minutes ends within the range, before the first gap.
LEMMA StreamEnds ==
    ASSUME history \in Histories, NEW from \in Nat, NEW end \in Nat, from <= end,
           end <= CoverageStop
    PROVE  /\ StreamEnd(from, end) \in from..end
           /\ \A i \in from..(StreamEnd(from, end) - 1) : ValidCandle(history[i])
<1> DEFINE T == {i \in from..end : i = end \/ history[i] = NoCandle}
           m == Min(T)
<1>1. T \in SUBSET Nat /\ T # {}
  OBVIOUS
<1>2. m \in T /\ \A k \in T : m <= k
  <2> HIDE DEF T
  <2> QED BY <1>1, MinOfNumbers
<1>3. m \in from..end
  BY <1>2
<1>4. ASSUME NEW i \in from..(m - 1) PROVE ValidCandle(history[i])
  <2>1. i \in from..end /\ i < m /\ i # end
    BY <1>3
  <2>2. history[i] # NoCandle
    <3>1. i \notin T
      BY <1>2, <1>3, <2>1
    <3> QED BY <2>1, <3>1
  <2>3. i \in DOMAIN history
    BY <1>3, <2>1, HistoryMinutes
  <2> QED BY <2>2, <2>3, RunAssumption
<1>5. StreamEnd(from, end) = m
  BY Zenon DEF StreamEnd
<1> HIDE DEF m
<1> QED BY <1>3, <1>4, <1>5

\* A track as the run keeps it says what the live engine would have done.
Measured(trade, t, created, variant, end) ==
    LET live == LiveOutcome(t, created, variant, end)
    IN  IF trade.outcome = "UNRESOLVED" THEN live.state \in {"PENDING", "ACTIVE"}
        ELSE /\ trade.outcome = live.state
             /\ Resolved(trade) => /\ live.result_r = WholePosition * trade.net
                                   /\ trade.terminal_at = CloseOf(live.at)

Sound(trade, t, created, variant, end) ==
    /\ trade.terminal_at \in Int
    /\ trade.terminal_at > 2 * created /\ trade.terminal_at <= 2 * end
    /\ TradeAccepted(created, trade)
    /\ Measured(trade, t, created, variant, end)

\* What is replayed of one track, where the stream ends.
LEMMA TrackReplayed ==
    ASSUME history \in Histories, NEW t \in Setups, NEW created \in Nat, NEW end \in Nat,
           created < end, end <= CoverageStop, NEW variant
    PROVE  LET s == Replayed(t, created, variant, end) IN
           /\ Alike(t, s, LiveOutcome(t, created, variant, end))
           /\ Recorded(created, s) /\ Decided(created, s, StreamEnd(created, end) - 1)
           /\ StreamEnd(created, end) \in created..end
<1>1. /\ StreamEnd(created, end) \in created..end
      /\ \A i \in created..(StreamEnd(created, end) - 1) : ValidCandle(history[i])
  BY StreamEnds
<1>2. PICK e \in Int : StreamEnd(created, end) - 1 = e /\ e >= created - 1
  BY <1>1
<1>3. SimulatedTerms(t)
  BY RunAssumption DEF SimulatedTerms
<1>4. PICK f : IsReplay(f, t, created, variant, e) /\ Replayed(t, created, variant, end) = f[e]
  BY <1>2, ReplayedIs
<1>5. PICK g : IsLive(g, t, created, variant, e) /\ LiveOutcome(t, created, variant, end) = g[e]
  BY <1>2, LiveOutcomeIs
<1>6. Alike(t, f[e], g[e]) /\ Recorded(created, f[e]) /\ Decided(created, f[e], e)
  BY <1>1, <1>2, <1>3, <1>4, <1>5, ReplaysAlike
<1> QED BY <1>1, <1>2, <1>4, <1>5, <1>6

\* A track that is finished at an instant within the range is sound.
LEMMA FinishedIsSound ==
    ASSUME NEW t \in Setups, NEW created \in Nat, NEW end \in Nat, NEW variant, NEW s,
           Alike(t, s, LiveOutcome(t, created, variant, end)), Recorded(created, s),
           NEW e \in Int, Decided(created, s, e - 1), e <= end,
           NEW now \in Int, now > 2 * created, now <= 2 * end
    PROVE  Sound(Finish(s, now), t, created, variant, end)
<1> DEFINE live == LiveOutcome(t, created, variant, end)
           trade == Finish(s, now)
<1> HIDE DEF live
<1>0. Alike(t, s, live)
  BY DEF live
<1>1. CASE s.trade # NoTrade
  <2>1. trade = s.trade
    BY <1>1 DEF Finish
  <2>2. /\ s.trade.outcome = live.state /\ live.state \in Outcome
        /\ live.state # "NO_FILL" => /\ live.result_r = WholePosition * s.trade.net
                                     /\ s.trade.terminal_at = CloseOf(live.at)
    BY <1>0, <1>1 DEF Alike
  <2>3. Measured(trade, t, created, variant, end)
    BY <2>1, <2>2 DEF Measured, live, Resolved, Outcome
  <2>4. TradeAccepted(created, trade)
    BY <1>1, <2>1 DEF Recorded
  <2>5. trade.terminal_at \in Int /\ trade.terminal_at <= 2 * end
    BY <1>1, <2>1 DEF Decided
  <2>6. trade.terminal_at > 2 * created
    BY <2>4 DEF TradeAccepted, OpenOf
  <2> QED BY <2>3, <2>4, <2>5, <2>6 DEF Sound
<1>2. CASE s.trade = NoTrade
  <2>1. trade.outcome = "UNRESOLVED" /\ trade.terminal_at = now
    BY <1>2 DEF Finish, SimTrade
  <2>2. live.state \in {"PENDING", "ACTIVE"}
    BY <1>0, <1>2 DEF Alike
  <2> HIDE DEF trade
  <2>3. Measured(trade, t, created, variant, end)
    BY <2>1, <2>2 DEF Measured, live
  <2>4. TradeAccepted(created, trade)
    BY <2>1 DEF TradeAccepted, OpenOf
  <2>5. Sound(trade, t, created, variant, end)
    BY <2>1, <2>3, <2>4 DEF Sound
  <2> QED BY <2>5 DEF trade
<1> QED BY <1>1, <1>2

\* Both tracks of an admitted signal.
LEMMA SimulatedIsSound ==
    ASSUME history \in Histories, NEW t \in Setups, NEW created \in Nat, NEW end \in Nat,
           created < end, end <= CoverageStop
    PROVE  LET trades == Simulated(t, created, end) IN
           /\ Sound(trades.fixed, t, created, "FIXED", end)
           /\ Sound(trades.managed, t, created, "MANAGED", end)
<1> DEFINE fixed == Replayed(t, created, "FIXED", end)
           managed == Replayed(t, created, "MANAGED", end)
           e == StreamEnd(created, end)
           U == {fixed.next_open, managed.next_open, created + 1}
           now == OpenOf(IF StreamBroken(created, end) THEN Max(U) ELSE end)
<1>1. /\ Alike(t, fixed, LiveOutcome(t, created, "FIXED", end))
      /\ Recorded(created, fixed) /\ Decided(created, fixed, e - 1) /\ e \in created..end
  BY TrackReplayed
<1>2. /\ Alike(t, managed, LiveOutcome(t, created, "MANAGED", end))
      /\ Recorded(created, managed) /\ Decided(created, managed, e - 1)
  BY TrackReplayed
<1>3. Simulated(t, created, end).fixed = Finish(fixed, now)
      /\ Simulated(t, created, end).managed = Finish(managed, now)
  BY DEF Simulated
<1> HIDE DEF fixed, managed, e
<1>4. /\ fixed.next_open \in Int /\ fixed.next_open <= e
      /\ managed.next_open \in Int /\ managed.next_open <= e
  BY <1>1, <1>2 DEF Alike, SimShape, Decided
<1>5. Max(U) \in Int /\ Max(U) > created /\ Max(U) <= end
  <2>1. U \in SUBSET Int /\ created + 1 \in U /\ \A x \in U : x <= end
    BY <1>1, <1>4
  <2>2. U # {}
    OBVIOUS
  <2> HIDE DEF U
  <2>3. Max(U) \in U /\ \A x \in U : x <= Max(U)
    BY <2>1, <2>2, MaxOfBounded
  <2>4. created + 1 <= Max(U)
    BY <2>1, <2>3
  <2> DEFINE x == Max(U)
  <2> HIDE DEF x
  <2>5. x \in Int /\ created + 1 <= x /\ x <= end
    BY <2>1, <2>3, <2>4 DEF x
  <2>6. x > created
    BY <2>5
  <2> QED BY <2>5, <2>6 DEF x
<1> DEFINE u == Max(U)
<1> HIDE DEF U
<1>6. now \in Int /\ now > 2 * created /\ now <= 2 * end
  <2>1. u \in Int /\ u > created /\ u <= end
    BY <1>5
  <2> HIDE DEF u
  <2>2. now = 2 * (IF StreamBroken(created, end) THEN u ELSE end)
    BY DEF OpenOf, u
  <2> QED BY <2>1, <2>2
<1> HIDE DEF now
<1>7. Sound(Finish(fixed, now), t, created, "FIXED", end)
  BY <1>1, <1>6, FinishedIsSound
<1>8. Sound(Finish(managed, now), t, created, "MANAGED", end)
  BY <1>1, <1>2, <1>6, FinishedIsSound
<1> QED BY <1>3, <1>7, <1>8

----------------------------------------------------------------------------
(* The paths of a run. *)

\* A list of n trades, and the list with one more.
Listing(s, n) == s = [j \in 1..n |-> s[j]]

\* The length of a list, and where it is defined.
LEMMA ListingLength ==
    ASSUME NEW n \in Nat, NEW s, Listing(s, n)
    PROVE  Len(s) = n /\ DOMAIN s = 1..n
<1> DEFINE S == {s[j] : j \in 1..n}
<1>1. s \in [1..n -> S]
  BY DEF Listing
<1> HIDE DEF S
<1>2. s \in Seq(S)
  BY <1>1
<1> QED BY <1>1, <1>2

\* The list a is s with x after its n trades.
Grown(a, s, x, n) == a[n + 1] = x /\ \A j \in 1..n : a[j] = s[j]

\* Append adds one trade behind the others and leaves those alone.
LEMMA ListingAppends ==
    ASSUME NEW n \in Nat, NEW s, Listing(s, n), NEW x
    PROVE  Listing(Append(s, x), n+1) /\ Grown(Append(s,x), s, x, n)
<1> DEFINE S == {s[j] : j \in 1..n} \cup {x}
           a == Append(s, x)
<1>1. s \in [1..n -> S] /\ x \in S
  BY DEF Listing
<1> HIDE DEF S
<1>2. s \in Seq(S) /\ Len(s) = n
  BY <1>1
<1>3. a \in Seq(S) /\ Len(a) = n + 1 /\ a[n + 1] = x /\ \A j \in 1..n : a[j] = s[j]
  BY <1>1, <1>2
<1>4. Listing(a, n+1)
  BY <1>3 DEF Listing
<1> QED BY <1>3, <1>4 DEF Grown

\* A trade of a run over start..end, with what it says of its signal.
Track(trade, variant, start, end) ==
    /\ trade.id \in Nat /\ start <= trade.id /\ trade.id < end
    /\ trade.created_at = 2 * trade.id /\ trade.terms \in Setups
    /\ Sound(trade, trade.terms, trade.id, variant, end)

\* The path of one threshold while the boundaries `left` are to be evaluated: the
\* same signals in both lists, in order, all before what is left; a managed track
\* ends before the next begins.
PathOf(p, n, start, end, left) ==
    /\ Listing(p.fixed, n) /\ Listing(p.managed, n)
    /\ \A j \in 1..n :
          /\ Track(p.fixed[j], "FIXED", start, end) /\ Track(p.managed[j], "MANAGED", start, end)
          /\ p.fixed[j].id = p.managed[j].id
          /\ \A c \in left : p.fixed[j].id < c
    /\ \A i, j \in 1..n : i < j => p.fixed[i].id < p.fixed[j].id
    /\ \A j \in 1..(n - 1) : p.managed[j].terminal_at <= p.managed[j + 1].created_at
    /\ p.managed_active_until = IF n = 0 THEN -1 ELSE p.managed[n].terminal_at

PathInv(p, start, end, left) == \E n \in Nat : PathOf(p, n, start, end, left)

Running ==
    /\ Imported
    /\ range[1] \in Nat /\ range[2] \in Nat /\ range[1] < range[2] /\ range[2] <= CoverageStop
    /\ upcoming \in SUBSET (range[1]..(range[2] - 1))
    /\ \A threshold \in Thresholds : PathInv(paths[threshold], range[1], range[2], upcoming)

RunInv ==
    /\ StoreInv
    /\ runStage \in {"idle", "replay", "reported"}
    /\ DOMAIN paths = Thresholds
    /\ runStage = "idle" => \A threshold \in Thresholds : paths[threshold] = NewPath
    /\ runStage # "idle" => Running

\* The history is never changed by a run.
LEMMA SoundKept ==
    ASSUME history' = history, NEW trade, NEW t, NEW created, NEW variant, NEW end
    PROVE  Sound(trade, t, created, variant, end)' <=> Sound(trade, t, created, variant, end)
BY DEF Sound, Measured, LiveOutcome, StreamEnd, Resolved, TradeAccepted

\* A trade as it is kept is as sound as it was simulated.
LEMMA KeptIsSound ==
    ASSUME NEW trade, NEW t \in Setups, NEW c \in Nat, NEW score, NEW variant,
           NEW start \in Nat, NEW end \in Nat, start <= c, c < end,
           Sound(trade, t, c, variant, end)
    PROVE  Track(Kept(trade, t, c, score), variant, start, end)
<1> DEFINE kept == Kept(trade, t, c, score)
<1>1. /\ kept.id = c /\ kept.created_at = OpenOf(c) /\ kept.terms = t
      /\ kept.outcome = trade.outcome /\ kept.terminal_at = trade.terminal_at
      /\ kept.entry = trade.entry /\ kept.net = trade.net
  BY DEF Kept
<1> HIDE DEF kept
<1>2. TradeAccepted(c, kept) <=> TradeAccepted(c, trade)
  BY <1>1 DEF TradeAccepted
<1>3. Measured(kept, t, c, variant, end) <=> Measured(trade, t, c, variant, end)
  BY <1>1 DEF Measured, Resolved
<1>4. Sound(kept, t, c, variant, end)
  BY <1>1, <1>2, <1>3 DEF Sound
<1>5. Track(kept, variant, start, end)
  BY <1>1, <1>4 DEF Track, OpenOf
<1> QED BY <1>5 DEF kept

\* One boundary on one path.
LEMMA PathStep ==
    ASSUME NEW p, NEW threshold, NEW score, NEW blocked, NEW t \in Setups,
           NEW start, NEW end, NEW left, NEW c \in left,
           start = range[1], end = range[2], start \in Nat, end \in Nat, start < end,
           end <= CoverageStop, history \in Histories,
           left \in SUBSET (start..(end - 1)), \A d \in left : c <= d,
           PathInv(p, start, end, left)
    PROVE  PathInv(PathAfter(p, threshold, score, blocked, t, c), start, end, left \ {c})
<1> DEFINE rest == left \ {c}
<1>0. c \in Nat /\ start <= c /\ c < end /\ \A d \in rest : c < d /\ d \in Nat
  BY Zenon, SMT
<1>1. PICK n \in Nat : PathOf(p, n, start, end, left)
  BY DEF PathInv
<1>2. /\ Listing(p.fixed, n) /\ Listing(p.managed, n)
      /\ \A j \in 1..n :
            /\ Track(p.fixed[j], "FIXED", start, end) /\ Track(p.managed[j], "MANAGED", start, end)
            /\ p.fixed[j].id = p.managed[j].id
            /\ \A d \in left : p.fixed[j].id < d
      /\ \A i, j \in 1..n : i < j => p.fixed[i].id < p.fixed[j].id
      /\ \A j \in 1..(n - 1) : p.managed[j].terminal_at <= p.managed[j + 1].created_at
      /\ p.managed_active_until = IF n = 0 THEN -1 ELSE p.managed[n].terminal_at
  BY <1>1, Zenon DEF PathOf
<1> HIDE DEF rest
<1>3. CASE ~Admitted(p, threshold, score, blocked, c)
  <2>1. PathAfter(p, threshold, score, blocked, t, c) = p
    BY <1>3 DEF PathAfter
  <2>2. rest \subseteq left
    BY DEF rest
  <2>3. PathOf(p, n, start, end, rest)
    BY <1>2, <2>2, Zenon DEF PathOf
  <2> QED BY <2>1, <2>3 DEF PathInv, rest
<1>4. CASE Admitted(p, threshold, score, blocked, c)
  <2>0. PICK trades : trades = Simulated(t, c, end)
    OBVIOUS
  <2>15. PICK m \in Nat : m = n + 1
    OBVIOUS
  <2> DEFINE fixed == Kept(trades.fixed, t, c, score)
             managed == Kept(trades.managed, t, c, score)
             F == Append(p.fixed, fixed)
             M == Append(p.managed, managed)
             q == PathAfter(p, threshold, score, blocked, t, c)
  <2>1. q = [fixed |-> F, managed |-> M, last_signal_at |-> c,
             managed_active_until |-> trades.managed.terminal_at]
    BY <1>4, <2>0 DEF PathAfter
  <2>2. q.fixed = F /\ q.managed = M /\ q.managed_active_until = trades.managed.terminal_at
    BY <2>1
  <2>3. Sound(trades.fixed, t, c, "FIXED", end) /\ Sound(trades.managed, t, c, "MANAGED", end)
    BY <1>0, <2>0, SimulatedIsSound
  <2> HIDE DEF q
  <2>4. Track(fixed, "FIXED", start, end) /\ fixed.id = c
    <3>1. Track(fixed, "FIXED", start, end)
      BY <1>0, <2>3, KeptIsSound
    <3>2. fixed.id = c
      BY DEF Kept
    <3> QED BY <3>1, <3>2
  <2>5. Track(managed, "MANAGED", start, end) /\ managed.id = c /\ managed.created_at = 2 * c
        /\ managed.terminal_at = trades.managed.terminal_at
    <3>1. Track(managed, "MANAGED", start, end)
      BY <1>0, <2>3, KeptIsSound
    <3>2. managed.id = c /\ managed.created_at = 2 * c
          /\ managed.terminal_at = trades.managed.terminal_at
      BY DEF Kept, OpenOf
    <3> QED BY <3>1, <3>2
  <2> HIDE DEF fixed, managed
  <2>6. /\ Listing(F, m) /\ F[m] = fixed /\ \A j \in 1..n : F[j] = p.fixed[j]
        /\ Listing(M, m) /\ M[m] = managed /\ \A j \in 1..n : M[j] = p.managed[j]
    <3>1. Listing(F, m) /\ F[m] = fixed /\ \A j \in 1..n : F[j] = p.fixed[j]
      <4>1. Listing(F, n + 1) /\ Grown(F, p.fixed, fixed, n)
        BY <1>2, ListingAppends DEF F
      <4> HIDE DEF F
      <4> QED BY <4>1, <2>15 DEF Grown
    <3>2. Listing(M, m) /\ M[m] = managed /\ \A j \in 1..n : M[j] = p.managed[j]
      <4>1. Listing(M, n + 1) /\ Grown(M, p.managed, managed, n)
        BY <1>2, ListingAppends DEF M
      <4> HIDE DEF M
      <4> QED BY <4>1, <2>15 DEF Grown
    <3> QED BY <3>1, <3>2
  <2> HIDE DEF F, M
  <2>7. ~ManagedActive(p, c)
    BY <1>4 DEF Admitted
  <2>8. n # 0 => p.managed[n].terminal_at <= 2 * c
    <3> SUFFICES ASSUME n # 0 PROVE p.managed[n].terminal_at <= 2 * c
      OBVIOUS
    <3> DEFINE last == p.managed[n]
    <3>1. Track(last, "MANAGED", start, end)
      BY <1>2
    <3> HIDE DEF last
    <3>2. last.terminal_at \in Int /\ last.terminal_at > 0
      BY <3>1 DEF Track, Sound
    <3>3. p.managed_active_until = last.terminal_at
      BY <1>2 DEF last
    <3>4. ~(2 * c < last.terminal_at)
      BY <2>7, <3>2, <3>3 DEF ManagedActive, OpenOf
    <3>5. last.terminal_at <= 2 * c
      BY <3>2, <3>4, <1>0
    <3> QED BY <3>5 DEF last
  <2>9. \A j \in 1..m :
            /\ Track(F[j], "FIXED", start, end) /\ Track(M[j], "MANAGED", start, end)
            /\ F[j].id = M[j].id
            /\ \A d \in rest : F[j].id < d
    <3> TAKE j \in 1..m
    <3>1. CASE j = m
      BY <1>0, <2>15, <2>4, <2>5, <2>6, <3>1
    <3>2. CASE j \in 1..n
      BY <1>2, <2>6, <3>2 DEF rest
    <3> QED BY <2>15, <3>1, <3>2
  <2>10. \A i, j \in 1..m : i < j => F[i].id < F[j].id
    <3> SUFFICES ASSUME NEW i \in 1..m, NEW j \in 1..m, i < j
                 PROVE  F[i].id < F[j].id
      OBVIOUS
    <3>1. i \in 1..n
      BY <2>15
    <3>2. CASE j = m
      BY <1>2, <2>4, <2>6, <3>1, <3>2
    <3>3. CASE j \in 1..n
      BY <1>2, <2>6, <3>1, <3>3
    <3> QED BY <2>15, <3>2, <3>3
  <2>11. \A j \in 1..(m - 1) : M[j].terminal_at <= M[j + 1].created_at
    <3> SUFFICES ASSUME NEW j \in 1..n PROVE M[j].terminal_at <= M[j + 1].created_at
      BY <2>15
    <3>1. CASE j = n
      BY <2>15, <2>5, <2>6, <2>8, <3>1
    <3>2. CASE j # n
      <4>1. j \in 1..(n - 1) /\ j + 1 \in 1..n
        BY <3>2
      <4> QED BY <1>2, <2>6, <4>1
    <3> QED BY <3>1, <3>2
  <2>12. q.managed_active_until = IF m = 0 THEN -1 ELSE M[m].terminal_at
    BY <2>15, <2>2, <2>5, <2>6
  <2>13. PathOf(q, m, start, end, rest)
    BY <2>2, <2>6, <2>9, <2>10, <2>11, <2>12, Zenon DEF PathOf
  <2> QED BY <2>13, <2>15, Zenon DEF PathInv, q, rest
<1> QED BY <1>3, <1>4

\* What a path says of its trades depends on the history alone.
LEMMA PathKept ==
    ASSUME history' = history, NEW p, NEW start, NEW end, NEW left, PathInv(p, start, end, left)
    PROVE  PathInv(p, start, end, left)'
<1>1. PICK n \in Nat : PathOf(p, n, start, end, left)
  BY DEF PathInv
<1>2. ASSUME NEW trade, NEW variant, Track(trade, variant, start, end)
      PROVE  Track(trade, variant, start, end)'
  <2>1. Sound(trade, trade.terms, trade.id, variant, end)
    BY <1>2 DEF Track
  <2>2. Sound(trade, trade.terms, trade.id, variant, end)'
    BY <2>1, SoundKept
  <2> QED BY <1>2, <2>2 DEF Track
<1>3. PathOf(p, n, start, end, left)'
  BY <1>1, <1>2 DEF PathOf
<1> QED BY <1>3 DEF PathInv

\* The same, read backwards.
LEMMA PathKeptBack ==
    ASSUME history' = history, NEW p, NEW start, NEW end, NEW left, PathInv(p, start, end, left)'
    PROVE  PathInv(p, start, end, left)
<1>1. PICK n \in Nat : PathOf(p, n, start, end, left)'
  BY DEF PathInv
<1>2. ASSUME NEW trade, NEW variant, Track(trade, variant, start, end)'
      PROVE  Track(trade, variant, start, end)
  <2>1. Sound(trade, trade.terms, trade.id, variant, end)'
    BY <1>2 DEF Track
  <2>2. Sound(trade, trade.terms, trade.id, variant, end)
    BY <2>1, SoundKept
  <2> QED BY <1>2, <2>2 DEF Track
<1>3. PathOf(p, n, start, end, left)
  BY <1>1, <1>2 DEF PathOf
<1> QED BY <1>3 DEF PathInv

\* A path before its first signal.
LEMMA NewPathInv ==
    ASSUME NEW start, NEW end, NEW left
    PROVE  PathInv(NewPath, start, end, left)
<1>1. NewPath.fixed = <<>> /\ NewPath.managed = <<>> /\ NewPath.managed_active_until = -1
  BY DEF NewPath
<1>2. Listing(<<>>, 0)
  BY DEF Listing
<1>3. PathOf(NewPath, 0, start, end, left)
  BY <1>1, <1>2 DEF PathOf
<1> QED BY <1>3 DEF PathInv

\* The records of a path's trades are accepted.
LEMMA PathAccepted ==
    ASSUME NEW p, NEW start, NEW end, NEW left, PathInv(p, start, end, left)
    PROVE  AllAccepted(p.fixed) /\ AllAccepted(p.managed)
<1>1. PICK n \in Nat : PathOf(p, n, start, end, left)
  BY DEF PathInv
<1>2. DOMAIN p.fixed = 1..n /\ DOMAIN p.managed = 1..n
  BY <1>1, ListingLength DEF PathOf
<1>3. ASSUME NEW trade, NEW variant, Track(trade, variant, start, end)
      PROVE  TradeAccepted(trade.created_at \div 2, trade)
  <2>1. trade.id \in Nat /\ trade.created_at = 2 * trade.id /\ TradeAccepted(trade.id, trade)
    BY <1>3 DEF Track, Sound
  <2> DEFINE id == trade.id
  <2>2. id \in Nat
    BY <2>1
  <2> HIDE DEF id
  <2>3. (2 * id) \div 2 = id
    BY <2>2
  <2> QED BY <2>1, <2>3 DEF id
<1> QED BY <1>1, <1>2, <1>3 DEF PathOf, AllAccepted

\* The evaluation takes what a path holds.
LEMMA PathValid ==
    ASSUME NEW p, NEW start \in Nat, NEW end \in Nat, NEW left, PathInv(p, start, end, left)
    PROVE  /\ Ids(p.fixed) = Ids(p.managed)
           /\ TradesValid(p.fixed, "FIXED", 2 * start, 2 * end, 2 * end)
           /\ TradesValid(p.managed, "MANAGED", 2 * start, 2 * end, 2 * end)
<1>1. PICK n \in Nat : PathOf(p, n, start, end, left)
  BY DEF PathInv
<1> DEFINE F == p.fixed
           M == p.managed
<1>2. /\ DOMAIN F = 1..n /\ DOMAIN M = 1..n /\ Len(F) = n /\ Len(M) = n
  BY <1>1, ListingLength DEF PathOf
<1>3. ASSUME NEW trade, NEW variant, Track(trade, variant, start, end)
      PROVE  /\ trade.id \in Nat /\ trade.created_at = 2 * trade.id
             /\ trade.created_at >= 2 * start /\ trade.terminal_at <= 2 * end
  BY <1>3 DEF Track, Sound
<1>4. \A j \in 1..n :
          /\ F[j].id \in Nat /\ F[j].created_at = 2 * F[j].id
          /\ F[j].created_at >= 2 * start /\ F[j].terminal_at <= 2 * end
          /\ M[j].id \in Nat /\ M[j].created_at = 2 * M[j].id
          /\ M[j].created_at >= 2 * start /\ M[j].terminal_at <= 2 * end
          /\ F[j].id = M[j].id
  BY <1>1, <1>3 DEF PathOf
<1>5. /\ \A i, j \in 1..n : i < j => F[i].id < F[j].id
      /\ \A j \in 1..(n - 1) : M[j].terminal_at <= M[j + 1].created_at
  BY <1>1 DEF PathOf
<1>6. \A i, j \in 1..n : i # j => F[i].id # F[j].id
  <2> SUFFICES ASSUME NEW i \in 1..n, NEW j \in 1..n, i # j PROVE F[i].id # F[j].id
    OBVIOUS
  <2>1. i < j \/ j < i
    OBVIOUS
  <2> QED BY <1>4, <1>5, <2>1
<1> HIDE DEF F, M
<1>7. \A j \in 1..(n - 1) : F[j].created_at < F[j + 1].created_at
                            /\ M[j].created_at < M[j + 1].created_at
                            /\ M[j + 1].created_at >= M[j].terminal_at
  <2> TAKE j \in 1..(n - 1)
  <2>1. j \in 1..n /\ j + 1 \in 1..n /\ j < j + 1
    OBVIOUS
  <2>2. F[j].id < F[j + 1].id /\ M[j].terminal_at <= M[j + 1].created_at
    BY <1>5, <2>1
  <2> DEFINE i == j + 1
  <2>3. i \in 1..n /\ F[j].id < F[i].id
    BY <2>1, <2>2
  <2> HIDE DEF i
  <2>4. F[j].created_at < F[i].created_at /\ M[j].created_at < M[i].created_at
    BY <1>4, <2>1, <2>3
  <2>5. M[j].terminal_at <= M[i].created_at
    BY <2>2 DEF i
  <2>6. M[i].created_at >= M[j].terminal_at
    BY <2>5
  <2> QED BY <2>4, <2>6 DEF i
<1>8. Ids(F) = Ids(M)
  BY <1>2, <1>4 DEF Ids
<1>9. TradesValid(F, "FIXED", 2 * start, 2 * end, 2 * end)
  BY <1>2, <1>4, <1>6, <1>7 DEF TradesValid
<1>10. TradesValid(M, "MANAGED", 2 * start, 2 * end, 2 * end)
  BY <1>2, <1>4, <1>6, <1>7 DEF TradesValid
<1> QED BY <1>8, <1>9, <1>10 DEF F, M

\* The next boundary is the first of those that are left.
LEMMA NextIsFirst ==
    ASSUME Running, upcoming # {}
    PROVE  NextBoundary \in upcoming /\ \A d \in upcoming : NextBoundary <= d
<1>1. upcoming \in SUBSET Nat
  BY DEF Running
<1> QED BY <1>1, MinOfNumbers DEF NextBoundary

\* A market view changes the cache only into what would be answered without it.
LEMMA ViewKeepsStore ==
    ASSUME StoreInv, Imported, NEW c \in Int, seriesCache' = Viewed(c),
           UNCHANGED <<history, rows, native, answer>>
    PROVE  StoreInv'
<1>1. DOMAIN seriesCache = Resampled \X Limits /\ \A k \in Resampled : rows[k] \in SUBSET Int
  BY DEF StoreInv
<1>2. DOMAIN seriesCache' = Resampled \X Limits
  BY <1>1 DEF Viewed
<1>3. \A k \in Resampled, n \in Limits :
          \/ seriesCache'[<<k, n>>] = seriesCache[<<k, n>>]
          \/ Cached(seriesCache'[<<k, n>>], k, n)
  <2> TAKE k \in Resampled, n \in Limits
  <2>1. CASE n = RunLookback /\ ClosedAt(k, c) # {}
    <3>1. seriesCache'[<<k, n>>] = SeriesAt(seriesCache, k, c, n)
      BY <1>1, <2>1 DEF Viewed
    <3>2. seriesCache[<<k, n>>] # <<>> => Cached(seriesCache[<<k, n>>], k, n)
      BY DEF StoreInv
    <3>3. /\ SeriesAt(seriesCache, k, c, n) = Uncached(k, c, n)
          /\ Cached(Uncached(k, c, n), k, n)
      BY <1>1, <2>1, <3>2, SeriesIsUncached
    <3> QED BY <3>1, <3>3, Zenon
  <2>2. CASE ~(n = RunLookback /\ ClosedAt(k, c) # {})
    BY <1>1, <2>2 DEF Viewed
  <2> QED BY <2>1, <2>2
<1>4. CacheIsInvisible'
  <2>1. PICK a : a = answer
    OBVIOUS
  <2>2. Uncached(a.interval, a.asOf, a.limit)' = Uncached(a.interval, a.asOf, a.limit)
    BY DEF Uncached, ClosedAt
  <2>3. a # NoAnswer => a.series = Uncached(a.interval, a.asOf, a.limit)
    BY <2>1 DEF StoreInv, CacheIsInvisible
  <2>4. NoAnswer' = NoAnswer
    BY DEF NoAnswer
  <2>5. a # NoAnswer' => a.series = Uncached(a.interval, a.asOf, a.limit)'
    BY <2>2, <2>3, <2>4
  <2>6. answer' = a
    BY <2>1
  <2> QED BY <2>5, <2>6 DEF CacheIsInvisible
<1> QED BY <1>2, <1>3, <1>4, AnswersKeepStore

\* A step that leaves the store alone.
LEMMA StoreKept ==
    ASSUME StoreInv, UNCHANGED storeVars
    PROVE  StoreInv'
<1>1. /\ history' = history /\ rows' = rows /\ native' = native
      /\ seriesCache' = seriesCache /\ answer' = answer
  BY DEF storeVars
<1>2. CacheIsInvisible'
  BY <1>1 DEF StoreInv, CacheIsInvisible, Uncached, ClosedAt
<1>3. Imported' = Imported
  BY <1>1 DEF Imported
<1> QED BY <1>1, <1>2, <1>3 DEF StoreInv, Cached, Uncached, ClosedAt

\* A run begins with new paths and the boundaries of its range.
LEMMA BeginRunStep ==
    ASSUME RunInv, BeginRun
    PROVE  RunInv'
<1>1. /\ Imported /\ runStage = "idle" /\ runStage' = "replay" /\ paths' = paths
      /\ history' = history /\ rows' = rows /\ native' = native
      /\ seriesCache' = seriesCache /\ answer' = answer
  BY DEF BeginRun, storeVars
<1>2. PICK r \in RunRanges : 0 <= r[1] /\ r[1] < r[2] /\ r[2] <= CoverageStop
                             /\ range' = r /\ upcoming' = CandidateTimes(r[1], r[2])
  BY DEF BeginRun
<1>3. StoreInv'
  BY StoreKept DEF RunInv, BeginRun
<1>4. \A threshold \in Thresholds : paths'[threshold] = NewPath
  BY <1>1 DEF RunInv
<1>5. r[1] \in Nat /\ r[2] \in Nat
  BY RunAssumption
<1>6. upcoming' \in SUBSET (r[1]..(r[2] - 1))
  BY <1>2 DEF CandidateTimes
<1>7. Imported' /\ CoverageStop' = CoverageStop
  BY <1>1 DEF Imported, CoverageStop, ReplayMinutes
<1>8. ASSUME NEW threshold \in Thresholds
      PROVE  PathInv(paths[threshold], range[1], range[2], upcoming)'
  <2>1. PICK start, end, left : start = r[1] /\ end = r[2] /\ left = upcoming'
    OBVIOUS
  <2>2. PathInv(NewPath, start, end, left)
    BY NewPathInv
  <2>3. PICK p : p = NewPath
    OBVIOUS
  <2>4. PathInv(p, start, end, left)'
    BY <1>1, <2>2, <2>3, PathKept
  <2>5. paths'[threshold] = p /\ range'[1] = start /\ range'[2] = end /\ upcoming' = left
    BY <1>2, <1>4, <2>1, <2>3
  <2> QED BY <2>4, <2>5
<1>9. Running'
  BY <1>2, <1>5, <1>6, <1>7, <1>8 DEF Running
<1>10. DOMAIN paths' = Thresholds
  BY <1>1 DEF RunInv
<1> QED BY <1>1, <1>3, <1>9, <1>10 DEF RunInv

----------------------------------------------------------------------------
(* The steps of a run. *)

\* A run that goes on with its next boundary: each path is what one boundary
\* makes of it.
LEMMA BoundaryKeepsPaths ==
    ASSUME StoreInv, Running, upcoming # {}, NEW c, c = NextBoundary,
           upcoming' = upcoming \ {c},
           UNCHANGED <<history, range>>,
           \A threshold \in Thresholds :
               \/ paths'[threshold] = paths[threshold]
               \/ \E t \in Setups, score \in Scores, blocked \in BOOLEAN :
                     paths'[threshold]
                       = PathAfter(paths[threshold], threshold, score, blocked, t, c)
    PROVE  Running'
<1>1. PICK start, end, left : start = range[1] /\ end = range[2] /\ left = upcoming
  OBVIOUS
<1>2. /\ Imported /\ start \in Nat /\ end \in Nat /\ start < end /\ end <= CoverageStop
      /\ left \in SUBSET (start..(end - 1))
      /\ \A threshold \in Thresholds : PathInv(paths[threshold], start, end, left)
  BY <1>1 DEF Running
<1>3. c \in left /\ \A d \in left : c <= d
  BY <1>1, NextIsFirst
<1>4. history \in Histories
  BY <1>2 DEF StoreInv
<1>5. ASSUME NEW threshold \in Thresholds
      PROVE  PathInv(paths'[threshold], start, end, left \ {c})
  <2>1. PICK p : p = paths[threshold]
    OBVIOUS
  <2>2. PathInv(p, start, end, left)
    BY <1>2, <2>1
  <2>3. CASE paths'[threshold] = p
    <3>1. PICK n \in Nat : PathOf(p, n, start, end, left)
      BY <2>2 DEF PathInv
    <3>2. left \ {c} \subseteq left
      OBVIOUS
    <3> DEFINE rest == left \ {c}
    <3>3. rest \subseteq left
      BY <3>2
    <3> HIDE DEF rest
    <3>4. PathOf(p, n, start, end, rest)
      BY <3>1, <3>3 DEF PathOf
    <3>5. PathInv(p, start, end, rest)
      BY <3>4 DEF PathInv
    <3> QED BY <2>3, <3>5 DEF rest
  <2>4. CASE \E t \in Setups, score \in Scores, blocked \in BOOLEAN :
                 paths'[threshold] = PathAfter(p, threshold, score, blocked, t, c)
    <3>1. PICK t \in Setups, score \in Scores, blocked \in BOOLEAN :
                 paths'[threshold] = PathAfter(p, threshold, score, blocked, t, c)
      BY <2>4
    <3>2. PathInv(PathAfter(p, threshold, score, blocked, t, c), start, end, left \ {c})
      BY <1>1, <1>2, <1>3, <1>4, <2>2, PathStep
    <3> QED BY <3>1, <3>2
  <2> QED BY <2>1, <2>3, <2>4
<1>6. ASSUME NEW threshold \in Thresholds
      PROVE  PathInv(paths[threshold], range[1], range[2], upcoming)'
  <2>1. PICK q, rest : q = paths'[threshold] /\ rest = left \ {c}
    OBVIOUS
  <2>2. PathInv(q, start, end, rest)
    BY <1>5, <2>1
  <2>3. PathInv(q, start, end, rest)'
    BY <2>2, PathKept
  <2>4. range'[1] = start /\ range'[2] = end /\ upcoming' = rest
    BY <1>1, <2>1
  <2> QED BY <2>1, <2>3, <2>4
<1>7. Imported' /\ CoverageStop' = CoverageStop
  BY <1>2 DEF Imported, CoverageStop, ReplayMinutes
<1>8. upcoming' \in SUBSET (start..(end - 1)) /\ range' = range
  BY <1>1, <1>2
<1> QED BY <1>1, <1>2, <1>6, <1>7, <1>8 DEF Running

\* A boundary without a market view leaves the paths alone.
LEMMA WarmUpStep ==
    ASSUME RunInv, WarmUp
    PROVE  RunInv'
<1>1. /\ runStage = "replay" /\ upcoming # {} /\ StoreInv /\ Running
      /\ DOMAIN paths = Thresholds
  BY DEF WarmUp, RunInv
<1>2. PICK c \in Int : c = NextBoundary
  <2>1. upcoming \in SUBSET Int
    BY <1>1 DEF Running
  <2> QED BY <1>1, <2>1, NextIsFirst
<1>3. /\ upcoming' = upcoming \ {c} /\ seriesCache' = Viewed(c)
      /\ UNCHANGED <<history, rows, native, answer, runStage, range, paths, report>>
  BY <1>2 DEF WarmUp
<1>4. StoreInv'
  BY <1>1, <1>3, ViewKeepsStore DEF Running
<1>5. Running'
  BY <1>1, <1>2, <1>3, BoundaryKeepsPaths
<1> QED BY <1>1, <1>3, <1>4, <1>5 DEF RunInv

\* A boundary that is evaluated raises nothing and keeps every path sound.
LEMMA EvaluateBoundaryStep ==
    ASSUME RunInv, EvaluateBoundary
    PROVE  RunInv'
<1>1. /\ runStage = "replay" /\ upcoming # {} /\ StoreInv /\ Running
  BY DEF EvaluateBoundary, RunInv
<1>2. PICK c \in Int : c = NextBoundary
  <2>1. upcoming \in SUBSET Int
    BY <1>1 DEF Running
  <2> QED BY <1>1, <2>1, NextIsFirst
<1>3. /\ upcoming' = upcoming \ {c} /\ seriesCache' = Viewed(c)
      /\ UNCHANGED <<history, rows, native, answer, range>>
  BY <1>2 DEF EvaluateBoundary
<1>4. PICK t \in Setups, score \in Scores, blocked \in BOOLEAN :
          paths' = [threshold \in Thresholds |->
                      PathAfter(paths[threshold], threshold, score, blocked, t, c)]
  BY <1>2 DEF EvaluateBoundary
<1>5. StoreInv'
  BY <1>1, <1>3, ViewKeepsStore DEF Running
<1>6. Running'
  BY <1>1, <1>2, <1>3, <1>4, BoundaryKeepsPaths
<1>7. \A threshold \in Thresholds : /\ AllAccepted(paths'[threshold].fixed)
                                    /\ AllAccepted(paths'[threshold].managed)
  <2> TAKE threshold \in Thresholds
  <2>1. PICK start, end, left, q : /\ start = range'[1] /\ end = range'[2] /\ left = upcoming'
                                   /\ q = paths'[threshold]
    OBVIOUS
  <2>2. PathInv(q, start, end, left)'
    BY <1>6, <2>1 DEF Running
  <2>3. PathInv(q, start, end, left)
    BY <1>3, <2>2, PathKeptBack
  <2>4. AllAccepted(q.fixed) /\ AllAccepted(q.managed)
    BY <2>3, PathAccepted
  <2> QED BY <2>1, <2>4
<1>8. runStage' = "replay"
  BY <1>7 DEF EvaluateBoundary
<1>9. DOMAIN paths' = Thresholds
  BY <1>4
<1> QED BY <1>5, <1>6, <1>8, <1>9 DEF RunInv

\* The evaluation accepts the run.
LEMMA EvaluateRunStep ==
    ASSUME RunInv, EvaluateRun
    PROVE  RunInv'
<1>1. /\ runStage = "replay" /\ StoreInv /\ Running /\ DOMAIN paths = Thresholds
      /\ history' = history /\ rows' = rows /\ native' = native
      /\ seriesCache' = seriesCache /\ answer' = answer
      /\ range' = range /\ upcoming' = upcoming /\ paths' = paths
  BY DEF EvaluateRun, RunInv, storeVars
<1> DEFINE fixed == [threshold \in Thresholds |-> paths[threshold].fixed]
           managed == [threshold \in Thresholds |-> paths[threshold].managed]
<1>2. PICK start \in Nat, end \in Nat : start = range[1] /\ end = range[2]
  BY <1>1 DEF Running
<1>10. PICK left : left = upcoming
  OBVIOUS
<1>3. \A threshold \in Thresholds :
          /\ Ids(fixed[threshold]) = Ids(managed[threshold])
          /\ TradesValid(fixed[threshold], "FIXED", 2 * start, 2 * end, 2 * end)
          /\ TradesValid(managed[threshold], "MANAGED", 2 * start, 2 * end, 2 * end)
  <2> TAKE threshold \in Thresholds
  <2>1. PICK p : p = paths[threshold]
    OBVIOUS
  <2>2. PathInv(p, start, end, left)
    BY <1>1, <1>2, <1>10, <2>1 DEF Running
  <2>3. /\ Ids(p.fixed) = Ids(p.managed)
        /\ TradesValid(p.fixed, "FIXED", 2 * start, 2 * end, 2 * end)
        /\ TradesValid(p.managed, "MANAGED", 2 * start, 2 * end, 2 * end)
    BY <2>2, PathValid
  <2> QED BY <2>1, <2>3
<1> HIDE DEF fixed, managed
<1>4. ComparisonValid(fixed, managed, OpenOf(range[1]), OpenOf(range[2]), OpenOf(range[2]))
  BY <1>2, <1>3 DEF ComparisonValid, EvaluationValid, OpenOf
<1>5. runStage' = "reported"
  BY <1>4 DEF EvaluateRun, fixed, managed
<1>6. StoreInv'
  BY <1>1, StoreKept DEF EvaluateRun
<1>7. Running'
  <2>1. ASSUME NEW threshold \in Thresholds
        PROVE  PathInv(paths[threshold], range[1], range[2], upcoming)'
    <3>1. PICK p : p = paths[threshold]
      OBVIOUS
    <3>2. PathInv(p, start, end, left)
      BY <1>1, <1>2, <1>10, <3>1 DEF Running
    <3>3. PathInv(p, start, end, left)'
      BY <1>1, <3>2, PathKept
    <3> QED BY <1>1, <1>2, <1>10, <3>1, <3>3
  <2>2. Imported' /\ CoverageStop' = CoverageStop
    BY <1>1 DEF Imported, CoverageStop, ReplayMinutes, Running
  <2> QED BY <1>1, <2>1, <2>2 DEF Running
<1> QED BY <1>1, <1>5, <1>6, <1>7 DEF RunInv

----------------------------------------------------------------------------
(* The walk-forward evaluation: what a comprehension and an extend collect. *)

\* The equation of a selection of the places S among the first N of a list.
IsPicking(f, T, S, N) ==
    f = [n \in 0..N |-> IF n = 0 THEN <<>>
                        ELSE IF n \in S THEN Append(f[n - 1], T[n]) ELSE f[n - 1]]

\* The selection is defined.
LEMMA PickingExists ==
    ASSUME NEW T, NEW S, NEW N \in Nat
    PROVE  \E f : IsPicking(f, T, S, N)
<1> DEFINE Bad == {m \in Nat : ~\E f : IsPicking(f, T, S, m)}
<1> SUFFICES ASSUME N \in Bad PROVE FALSE
  OBVIOUS
<1>1. PICK m \in Bad : \A j \in Bad : m <= j
  BY LeastNumber
<1>2. CASE m = 0
  <2> DEFINE f == [n \in 0..0 |-> <<>>]
  <2>1. f = [n \in 0..0 |-> IF n = 0 THEN <<>>
                            ELSE IF n \in S THEN Append(f[n - 1], T[n]) ELSE f[n - 1]]
    OBVIOUS
  <2>2. IsPicking(f, T, S, m)
    BY <1>2, <2>1 DEF IsPicking
  <2> QED BY <2>2
<1>3. CASE m # 0
  <2> DEFINE step(x, n) == IF n \in S THEN Append(x, T[n]) ELSE x
  <2>1. m - 1 \in Nat /\ m - 1 \notin Bad
    BY <1>1, <1>3
  <2>2. PICK f : IsPicking(f, T, S, m - 1)
    BY <2>1, Zenon
  <2> DEFINE g == [n \in 0..m |-> IF n = 0 THEN <<>> ELSE step(f[n - 1], n)]
  <2>3. f = [n \in 0..(m - 1) |-> IF n = 0 THEN <<>> ELSE step(f[n - 1], n)]
    BY <2>2, Zenon DEF IsPicking
  <2> HIDE DEF step
  <2>4. \A n \in 1..m : g[n - 1] = f[n - 1]
    BY <2>1, <2>3
  <2>5. g = [n \in 0..m |-> IF n = 0 THEN <<>> ELSE step(g[n - 1], n)]
    <3> DEFINE x == g
    <3>1. \A n \in 1..m : x[n - 1] = f[n - 1]
      BY <2>4
    <3> HIDE DEF x
    <3>2. g = [n \in 0..m |-> IF n = 0 THEN <<>> ELSE step(x[n - 1], n)]
      BY <3>1, <2>1
    <3> QED BY <3>2 DEF x
  <2> HIDE DEF g
  <2>6. IsPicking(g, T, S, m)
    BY <2>5, Zenon DEF IsPicking, step
  <2> QED BY <1>1, <2>6, Zenon
<1> QED BY <1>2, <1>3

\* What the code's comprehension collects, place by place.
LEMMA PickedIs ==
    ASSUME NEW T, NEW S, NEW N \in Nat, Len(T) = N
    PROVE  \E f : IsPicking(f, T, S, N) /\ Picked(T, S) = f[N]
<1> DEFINE f == CHOOSE x : IsPicking(x, T, S, N)
<1>1. IsPicking(f, T, S, N)
  BY PickingExists, Zenon
<1>2. Picked(T, S) = f[N]
  BY Zenon DEF Picked, IsPicking
<1> HIDE DEF f
<1> QED BY <1>1, <1>2, Zenon

\* The trades behind place a, up to place b.
Slice(T, a, b) == [j \in 1..(b - a) |-> T[a + j]]

\* A slice is a list, and nothing is between a place and itself.
LEMMA SliceListing ==
    ASSUME NEW T, NEW a \in Nat, NEW b \in Nat, a <= b
    PROVE  /\ b - a \in Nat /\ Listing(Slice(T, a, b), b - a)
           /\ \A j \in 1..(b - a) : Slice(T, a, b)[j] = T[a + j]
           /\ a = b => Slice(T, a, b) = <<>>
BY DEF Slice, Listing

\* One more trade behind a slice.
LEMMA SliceGrows ==
    ASSUME NEW T, NEW a \in Nat, NEW b \in Nat, a <= b
    PROVE  Append(Slice(T, a, b), T[b + 1]) = Slice(T, a, b + 1)
<1> DEFINE k == b - a
           s == Slice(T, a, b)
           u == Append(s, T[b + 1])
<1>1. k \in Nat /\ Listing(s, k) /\ \A j \in 1..k : s[j] = T[a + j]
  BY SliceListing
<1> HIDE DEF s
<1>2. Listing(u, k + 1) /\ Grown(u, s, T[b + 1], k)
  BY <1>1, ListingAppends
<1> HIDE DEF u
<1>3. /\ u = [j \in 1..(k + 1) |-> u[j]] /\ u[k + 1] = T[b + 1]
      /\ \A j \in 1..k : u[j] = T[a + j]
  BY <1>1, <1>2 DEF Listing, Grown
<1>4. a + (k + 1) = b + 1 /\ (b + 1) - a = k + 1
  OBVIOUS
<1> HIDE DEF k
<1>5. \A j \in 1..(k + 1) : u[j] = T[a + j]
  <2> TAKE j \in 1..(k + 1)
  <2>1. CASE j = k + 1
    BY <1>3, <1>4, <2>1
  <2>2. CASE j # k + 1
    <3>1. j \in 1..k
      BY <1>1, <2>2
    <3> QED BY <1>3, <3>1
  <2> QED BY <2>1, <2>2
<1>6. u = [j \in 1..(k + 1) |-> T[a + j]]
  BY <1>3, <1>5
<1>7. u = Slice(T, a, b + 1)
  BY <1>4, <1>6, Zenon DEF Slice
<1> QED BY <1>7 DEF u, s

\* Two slices, one behind the other.
LEMMA SlicesJoin ==
    ASSUME NEW T, NEW a \in Nat, NEW b \in Nat, NEW c \in Nat, a <= b, b <= c
    PROVE  Slice(T, a, b) \o Slice(T, b, c) = Slice(T, a, c)
<1> DEFINE U == {T[j] : j \in 1..c}
           x == Slice(T, a, b)
           y == Slice(T, b, c)
           k == b - a
           l == c - b
           z == x \o y
<1>0. k \in Nat /\ l \in Nat /\ a + k = b /\ b + l = c /\ c - a = k + l
  OBVIOUS
<1>1. x \in [1..k -> U] /\ y \in [1..l -> U]
  BY DEF Slice
<1>2. \A j \in 1..k : x[j] = T[a + j]
  BY DEF Slice
<1>3. \A j \in 1..l : y[j] = T[b + j]
  BY DEF Slice
<1> HIDE DEF U, x, y, k, l
<1>4. x \in Seq(U) /\ y \in Seq(U) /\ Len(x) = k /\ Len(y) = l
  BY <1>0, <1>1
<1>5. /\ z = [j \in 1..(k + l) |-> z[j]]
      /\ \A j \in 1..(k + l) : z[j] = IF j <= k THEN x[j] ELSE y[j - k]
  <2>1. z \in Seq(U) /\ Len(z) = k + l
    BY <1>0, <1>4
  <2>2. \A j \in 1..(k + l) : z[j] = IF j <= k THEN x[j] ELSE y[j - k]
    BY <1>0, <1>4
  <2> HIDE DEF z
  <2>3. z \in [1..(k + l) -> U]
    BY <2>1, <1>0
  <2> QED BY <2>2, <2>3
<1> HIDE DEF z
<1>6. \A j \in 1..(k + l) : z[j] = T[a + j]
  <2> TAKE j \in 1..(k + l)
  <2>1. CASE j <= k
    <3>1. j \in 1..k
      BY <2>1, <1>0
    <3> QED BY <1>2, <1>5, <2>1, <3>1
  <2>2. CASE ~(j <= k)
    <3>1. j - k \in 1..l /\ b + (j - k) = a + j
      BY <2>2, <1>0
    <3> QED BY <1>3, <1>5, <2>2, <3>1
  <2> QED BY <2>1, <2>2
<1>7. z = [j \in 1..(c - a) |-> T[a + j]]
  BY <1>0, <1>5, <1>6
<1>8. z = Slice(T, a, c)
  BY <1>7, Zenon DEF Slice
<1> QED BY <1>8 DEF z, x, y

\* To choose the places between two is to take the slice.
LEMMA PickedSlice ==
    ASSUME NEW T, NEW N \in Nat, Len(T) = N, NEW a \in Nat, NEW b \in Nat, a <= b, b <= N,
           NEW S, \A n \in 1..N : n \in S <=> a < n /\ n <= b
    PROVE  Picked(T, S) = Slice(T, a, b)
<1> DEFINE to(n) == IF n <= a THEN a ELSE IF n <= b THEN n ELSE b
<1>1. PICK f : IsPicking(f, T, S, N) /\ Picked(T, S) = f[N]
  BY PickedIs
<1>2. \A n \in 0..N : f[n] = IF n = 0 THEN <<>>
                             ELSE IF n \in S THEN Append(f[n - 1], T[n]) ELSE f[n - 1]
  <2>1. f = [n \in 0..N |-> IF n = 0 THEN <<>>
                        ELSE IF n \in S THEN Append(f[n - 1], T[n]) ELSE f[n - 1]]
    BY <1>1, Zenon DEF IsPicking
  <2> QED BY <2>1, Zenon
<1> DEFINE Bad == {m \in Nat : m <= N /\ f[m] # Slice(T, a, to(m))}
<1>3. Bad = {}
  <2> SUFFICES ASSUME Bad # {} PROVE FALSE
    OBVIOUS
  <2>1. PICK m \in Bad : \A j \in Bad : m <= j
    BY LeastNumber
  <2>2. m \in Nat /\ m <= N /\ m \in 0..N /\ f[m] # Slice(T, a, to(m))
    BY <2>1
  <2>3. m # 0
    <3> SUFFICES ASSUME m = 0 PROVE FALSE
      OBVIOUS
    <3>1. to(m) = a
      OBVIOUS
    <3>2. f[m] = <<>>
      BY <1>2, <2>2
    <3>3. Slice(T, a, a) = <<>>
      BY SliceListing
    <3> QED BY <2>2, <3>1, <3>2, <3>3
  <2>4. m - 1 \in Nat /\ m \in 1..N /\ f[m - 1] = Slice(T, a, to(m - 1))
    <3>1. m - 1 \in Nat /\ m \in 1..N /\ m - 1 <= N /\ ~(m <= m - 1)
      BY <2>2, <2>3
    <3> QED BY <2>1, <3>1
  <2>5. f[m] = IF m \in S THEN Append(f[m - 1], T[m]) ELSE f[m - 1]
    BY <1>2, <2>2, <2>3
  <2>6. CASE m \in S
    <3>1. a < m /\ m <= b
      BY <2>4, <2>6
    <3>2. to(m) = m /\ to(m - 1) = m - 1 /\ a <= m - 1 /\ (m - 1) + 1 = m
      BY <2>2, <2>4, <3>1
    <3>3. Append(Slice(T, a, m - 1), T[(m - 1) + 1]) = Slice(T, a, (m - 1) + 1)
      BY <2>4, <3>2, SliceGrows
    <3> HIDE DEF to
    <3> QED BY <2>2, <2>4, <2>5, <2>6, <3>2, <3>3
  <2>7. CASE m \notin S
    <3>1. m <= a \/ m > b
      BY <2>2, <2>4, <2>7
    <3>2. to(m) = to(m - 1)
      BY <2>2, <2>4, <3>1
    <3> HIDE DEF to
    <3> QED BY <2>2, <2>4, <2>5, <2>7, <3>2
  <2> QED BY <2>6, <2>7
<1>4. N \notin Bad /\ to(N) = b
  BY <1>3
<1> HIDE DEF to
<1>5. f[N] = Slice(T, a, b)
  BY <1>4
<1> QED BY <1>1, <1>5

\* What is picked are the trades at the chosen places.
LEMMA PickedElements ==
    ASSUME NEW T, NEW N \in Nat, Len(T) = N, NEW S \in SUBSET (1..N)
    PROVE  ToSet(Picked(T, S)) = {T[n] : n \in S}
<1>1. PICK f : IsPicking(f, T, S, N) /\ Picked(T, S) = f[N]
  BY PickedIs
<1>2. \A n \in 0..N : f[n] = IF n = 0 THEN <<>>
                             ELSE IF n \in S THEN Append(f[n - 1], T[n]) ELSE f[n - 1]
  <2>1. f = [n \in 0..N |-> IF n = 0 THEN <<>>
                        ELSE IF n \in S THEN Append(f[n - 1], T[n]) ELSE f[n - 1]]
    BY <1>1, Zenon DEF IsPicking
  <2> QED BY <2>1, Zenon
<1> DEFINE Holds(s, m) == \E k \in Nat :
               /\ Listing(s, k)
               /\ \A j \in 1..k : \E n \in S : n <= m /\ s[j] = T[n]
               /\ \A n \in S : n <= m => \E j \in 1..k : s[j] = T[n]
           Bad == {m \in Nat : m <= N /\ ~Holds(f[m], m)}
<1>3. ASSUME NEW s, NEW m \in Nat, m + 1 <= N, Holds(s, m), m + 1 \in S
      PROVE  Holds(Append(s, T[m + 1]), m + 1)
  <2>1. PICK k \in Nat :
               /\ Listing(s, k)
               /\ \A j \in 1..k : \E n \in S : n <= m /\ s[j] = T[n]
               /\ \A n \in S : n <= m => \E j \in 1..k : s[j] = T[n]
    BY <1>3
  <2> DEFINE u == Append(s, T[m + 1])
  <2>0. Listing(u, k + 1) /\ Grown(u, s, T[m + 1], k)
    <3>1. k \in Nat /\ Listing(s, k)
      BY <2>1
    <3> QED BY <3>1, ListingAppends
  <2> HIDE DEF u
  <2>2. Listing(u, k + 1) /\ u[k + 1] = T[m + 1] /\ \A j \in 1..k : u[j] = s[j]
    BY <2>0 DEF Grown
  <2>3. \A j \in 1..(k + 1) : \E n \in S : n <= m + 1 /\ u[j] = T[n]
    <3> TAKE j \in 1..(k + 1)
    <3>1. CASE j = k + 1
      BY <1>3, <2>2, <3>1
    <3>2. CASE j # k + 1
      <4>1. j \in 1..k
        BY <3>2
      <4>2. PICK n \in S : n <= m /\ s[j] = T[n]
        BY <2>1, <4>1
      <4>3. n <= m + 1 /\ u[j] = T[n]
        BY <2>2, <4>1, <4>2
      <4> QED BY <4>3
    <3> QED BY <3>1, <3>2
  <2>4. \A n \in S : n <= m + 1 => \E j \in 1..(k + 1) : u[j] = T[n]
    <3> SUFFICES ASSUME NEW n \in S, n <= m + 1 PROVE \E j \in 1..(k + 1) : u[j] = T[n]
      OBVIOUS
    <3>1. CASE n = m + 1
      <4>1. k + 1 \in 1..(k + 1)
        OBVIOUS
      <4> QED BY <2>2, <3>1, <4>1
    <3>2. CASE n # m + 1
      <4>1. n <= m
        BY <3>2
      <4>2. PICK j \in 1..k : s[j] = T[n]
        BY <2>1, <4>1
      <4>3. j \in 1..(k + 1) /\ u[j] = T[n]
        BY <2>2, <4>2
      <4> QED BY <4>3
    <3> QED BY <3>1, <3>2
  <2>5. k + 1 \in Nat
    OBVIOUS
  <2>6. Holds(u, m + 1)
    BY <2>2, <2>3, <2>4, <2>5
  <2> QED BY <2>6 DEF u
<1>4. ASSUME NEW s, NEW m \in Nat, m + 1 <= N, Holds(s, m), m + 1 \notin S
      PROVE  Holds(s, m + 1)
  <2>1. \A n \in S : n <= m + 1 <=> n <= m
    <3> TAKE n \in S
    <3>1. n # m + 1
      BY <1>4
    <3>2. n \in Int
      OBVIOUS
    <3> HIDE DEF Holds
    <3> QED BY <3>1, <3>2
  <2>2. PICK k \in Nat :
               /\ Listing(s, k)
               /\ \A j \in 1..k : \E n \in S : n <= m /\ s[j] = T[n]
               /\ \A n \in S : n <= m => \E j \in 1..k : s[j] = T[n]
    BY <1>4
  <2>3. \A j \in 1..k : \E n \in S : n <= m + 1 /\ s[j] = T[n]
    BY <2>1, <2>2
  <2>4. \A n \in S : n <= m + 1 => \E j \in 1..k : s[j] = T[n]
    BY <2>1, <2>2
  <2> QED BY <2>2, <2>3, <2>4
<1>5. Holds(<<>>, 0)
  <2>1. Listing(<<>>, 0)
    BY DEF Listing
  <2>2. \A n \in S : ~(n <= 0)
    OBVIOUS
  <2> QED BY <2>1, <2>2
<1>6. Bad = {}
  <2> SUFFICES ASSUME Bad # {} PROVE FALSE
    OBVIOUS
  <2>1. PICK m \in Bad : \A j \in Bad : m <= j
    BY LeastNumber
  <2> HIDE DEF Holds
  <2>2. m \in Nat /\ m <= N /\ m \in 0..N /\ ~Holds(f[m], m)
    BY <2>1
  <2>3. m # 0
    BY <1>2, <1>5, <2>2
  <2>4. PICK p \in Nat : p + 1 = m
    <3>1. m - 1 \in Nat /\ (m - 1) + 1 = m
      BY <2>2, <2>3
    <3> QED BY <3>1
  <2>5. p <= N /\ m - 1 = p /\ Holds(f[p], p)
    BY <2>1, <2>2, <2>4
  <2>6. f[m] = IF m \in S THEN Append(f[p], T[m]) ELSE f[p]
    BY <1>2, <2>2, <2>3, <2>5
  <2> QED BY <1>3, <1>4, <2>2, <2>4, <2>5, <2>6
<1>7. Holds(f[N], N)
  <2> HIDE DEF Holds
  <2> QED BY <1>6
<1>8. PICK k \in Nat : /\ Listing(f[N], k)
                       /\ \A j \in 1..k : \E n \in S : n <= N /\ f[N][j] = T[n]
                       /\ \A n \in S : n <= N => \E j \in 1..k : f[N][j] = T[n]
  BY <1>7
<1>9. DOMAIN f[N] = 1..k
  BY <1>8, ListingLength
<1>10. PICK s : s = Picked(T, S) /\ s = f[N]
  BY <1>1
<1>11. ToSet(s) = {s[j] : j \in 1..k}
  BY <1>9, <1>10 DEF ToSet
<1>12. \A j \in 1..k : s[j] \in {T[n] : n \in S}
  BY <1>8, <1>10
<1>13. \A n \in S : \E j \in 1..k : s[j] = T[n]
  BY <1>8, <1>10
<1> QED BY <1>10, <1>11, <1>12, <1>13

\* What the code has collected after each of the first n lists.
IsFlattening(f, lists, c) ==
    f = [i \in 1..c |-> IF i = 1 THEN lists[i] ELSE f[i - 1] \o lists[i]]

\* The collection is defined.
LEMMA FlatteningExists ==
    ASSUME NEW lists, NEW c \in Nat
    PROVE  \E f : IsFlattening(f, lists, c)
<1> DEFINE Bad == {m \in Nat : ~\E f : IsFlattening(f, lists, m)}
<1> SUFFICES ASSUME c \in Bad PROVE FALSE
  OBVIOUS
<1>1. PICK m \in Bad : \A j \in Bad : m <= j
  BY LeastNumber
<1>2. CASE m = 0
  <2> DEFINE f == [i \in 1..0 |-> lists[i]]
  <2>1. f = [i \in 1..0 |-> IF i = 1 THEN lists[i] ELSE f[i - 1] \o lists[i]]
    OBVIOUS
  <2>2. IsFlattening(f, lists, m)
    BY <1>2, <2>1 DEF IsFlattening
  <2> QED BY <2>2
<1>3. CASE m # 0
  <2> DEFINE step(x, i) == x \o lists[i]
  <2>1. m - 1 \in Nat /\ m - 1 \notin Bad
    BY <1>1, <1>3
  <2>2. PICK f : IsFlattening(f, lists, m - 1)
    BY <2>1, Zenon
  <2> DEFINE g == [i \in 1..m |-> IF i = 1 THEN lists[i] ELSE step(f[i - 1], i)]
  <2>3. f = [i \in 1..(m - 1) |-> IF i = 1 THEN lists[i] ELSE step(f[i - 1], i)]
    BY <2>2, Zenon DEF IsFlattening
  <2> HIDE DEF step
  <2>4. \A i \in 2..m : g[i - 1] = f[i - 1]
    BY <2>1, <2>3
  <2>5. g = [i \in 1..m |-> IF i = 1 THEN lists[i] ELSE step(g[i - 1], i)]
    <3> DEFINE x == g
    <3>1. \A i \in 2..m : x[i - 1] = f[i - 1]
      BY <2>4
    <3> HIDE DEF x
    <3>2. g = [i \in 1..m |-> IF i = 1 THEN lists[i] ELSE step(x[i - 1], i)]
      BY <3>1, <2>1
    <3> QED BY <3>2 DEF x
  <2> HIDE DEF g
  <2>6. IsFlattening(g, lists, m)
    BY <2>5, Zenon DEF IsFlattening, step
  <2> QED BY <1>1, <2>6, Zenon
<1> QED BY <1>2, <1>3

\* Consecutive slices, collected, are one slice.
LEMMA FlattenedSlices ==
    ASSUME NEW T, NEW c \in Nat, NEW place, \A i \in 0..c : place[i] \in Nat,
           \A i \in 0..c : place[0] <= place[i],
           \A i \in 1..c : place[i - 1] <= place[i],
           NEW lists, lists = [i \in 1..c |-> Slice(T, place[i - 1], place[i])]
    PROVE  FlattenSeq(lists) = Slice(T, place[0], place[c])
<1>1. Len(lists) = c
  <2>1. Listing(lists, c)
    BY DEF Listing
  <2> QED BY <2>1, ListingLength
<1>2. CASE c = 0
  <2>1. FlattenSeq(lists) = lists
    BY <1>1, <1>2 DEF FlattenSeq
  <2>2. lists = <<>>
    BY <1>2
  <2>3. Slice(T, place[0], place[0]) = <<>>
    <3>1. place[0] \in Nat /\ place[0] <= place[0]
      OBVIOUS
    <3> QED BY <3>1, SliceListing
  <2> QED BY <1>2, <2>1, <2>2, <2>3
<1>3. CASE c # 0
  <2> DEFINE f == CHOOSE x : IsFlattening(x, lists, c)
  <2>1. IsFlattening(f, lists, c)
    BY FlatteningExists, Zenon
  <2>2. FlattenSeq(lists) = f[c]
    BY <1>1, <1>3, Zenon DEF FlattenSeq, IsFlattening
  <2> HIDE DEF f
  <2>3. \A i \in 1..c : f[i] = IF i = 1 THEN lists[i] ELSE f[i - 1] \o lists[i]
    <3>1. f = [i \in 1..c |-> IF i = 1 THEN lists[i] ELSE f[i - 1] \o lists[i]]
      BY <2>1, Zenon DEF IsFlattening
    <3> QED BY <3>1, Zenon
  <2> DEFINE Bad == {m \in Nat : m \in 1..c /\ f[m] # Slice(T, place[0], place[m])}
  <2>4. Bad = {}
    <3> SUFFICES ASSUME Bad # {} PROVE FALSE
      OBVIOUS
    <3>1. PICK m \in Bad : \A j \in Bad : m <= j
      BY LeastNumber
    <3>2. m \in Nat /\ m \in 1..c /\ m \in 0..c /\ f[m] # Slice(T, place[0], place[m])
      BY <3>1
    <3>3. lists[m] = Slice(T, place[m - 1], place[m])
      BY <3>2
    <3>4. CASE m = 1
      <4>1. m - 1 = 0 /\ f[m] = lists[m]
        BY <2>3, <3>2, <3>4
      <4> QED BY <3>2, <3>3, <4>1
    <3>5. CASE m # 1
      <4>1. PICK p \in 1..c : p = m - 1
        BY <3>2, <3>5
      <4>2. p \in Nat /\ p \notin Bad /\ p \in 0..c
        BY <3>1, <3>2, <4>1
      <4>3. f[p] = Slice(T, place[0], place[p])
        BY <4>2
      <4>4. f[m] = f[p] \o Slice(T, place[p], place[m])
        BY <2>3, <3>2, <3>3, <3>5, <4>1
      <4>5. place[0] \in Nat /\ place[p] \in Nat /\ place[m] \in Nat /\ place[0] <= place[p] /\ place[p] <= place[m]
        BY <3>2, <4>1, <4>2
      <4>6. Slice(T, place[0], place[p]) \o Slice(T, place[p], place[m]) = Slice(T, place[0], place[m])
        BY <4>5, SlicesJoin
      <4>7. f[m] = Slice(T, place[0], place[m])
        BY <4>3, <4>4, <4>6
      <4> QED BY <3>2, <4>7
    <3> QED BY <3>4, <3>5
  <2>5. c \notin Bad /\ c \in 1..c
    BY <1>3, <2>4
  <2> QED BY <2>2, <2>5
<1> QED BY <1>2, <1>3

----------------------------------------------------------------------------
(* The windows of the folds hold the tests, and nothing else. *)

\* The place behind which the tests of fold n + 1 begin, and the number of folds.
TestEnd(n) == TrainSize + PurgeSize + n * TestSize

FoldCount(L) ==
    IF L < TrainSize + PurgeSize THEN 0 ELSE (L - (TrainSize + PurgeSize)) \div TestSize

\* The places of the folds: TestSize apart, and within the list.
LEMMA FoldPlaces ==
    ASSUME NEW L \in Nat
    PROVE  /\ FoldCount(L) \in Nat
           /\ \A n \in Nat : TestEnd(n) \in Nat /\ TestEnd(0) <= TestEnd(n)
           /\ \A n \in Nat : TestEnd(n + 1) = TestEnd(n) + TestSize
           /\ \A m, n \in Nat : m <= n => TestEnd(m) <= TestEnd(n)
           /\ FoldCount(L) # 0 => \A n \in 0..FoldCount(L) : TestEnd(n) <= L
<1>1. /\ TrainSize \in Nat /\ PurgeSize \in Nat /\ TestSize \in Nat /\ TestSize > 0
  BY WalkForwardAssumption
<1>2. PICK first \in Nat : first = TrainSize + PurgeSize
  BY <1>1
<1>3. \A n \in Nat : TestEnd(n) = first + n * TestSize
  BY <1>2 DEF TestEnd
<1>4. FoldCount(L) = IF L < first THEN 0 ELSE (L - first) \div TestSize
  BY <1>2 DEF FoldCount
<1>5. FoldCount(L) \in Nat
  BY <1>1, <1>4
<1>6. \A n \in Nat : n * TestSize \in Nat /\ (n + 1) * TestSize = n * TestSize + TestSize
  BY <1>1
<1>7. \A m, n \in Nat : m <= n => m * TestSize <= n * TestSize
  BY <1>1
<1>8. \A n \in Nat : TestEnd(n) \in Nat /\ TestEnd(n + 1) = TestEnd(n) + TestSize
  <2> TAKE n \in Nat
  <2>1. n + 1 \in Nat
    OBVIOUS
  <2>2. TestEnd(n) = first + n * TestSize /\ TestEnd(n + 1) = first + (n + 1) * TestSize
    BY <1>3, <2>1
  <2>3. n * TestSize \in Nat /\ (n + 1) * TestSize = n * TestSize + TestSize
    BY <1>6
  <2> QED BY <1>1, <2>2, <2>3
<1>9. \A m, n \in Nat : m <= n => TestEnd(m) <= TestEnd(n)
  <2> SUFFICES ASSUME NEW m \in Nat, NEW n \in Nat, m <= n PROVE TestEnd(m) <= TestEnd(n)
    OBVIOUS
  <2>1. /\ TestEnd(m) = first + m * TestSize /\ TestEnd(n) = first + n * TestSize
        /\ m * TestSize \in Nat /\ n * TestSize \in Nat /\ m * TestSize <= n * TestSize
    BY <1>3, <1>6, <1>7
  <2> QED BY <2>1
<1>10. ASSUME FoldCount(L) # 0, NEW n \in 0..FoldCount(L) PROVE TestEnd(n) <= L
  <2>1. ~(L < first) /\ FoldCount(L) = (L - first) \div TestSize
    BY <1>4, <1>10
  <2>2. PICK q \in Nat : q = FoldCount(L)
    BY <1>5
  <2>3. PICK d \in Nat : d = L - first
    BY <2>1
  <2>4. d = (d \div TestSize) * TestSize + (d % TestSize) /\ d % TestSize \in Nat
    BY <1>1, Division
  <2>5. d \div TestSize = q
    BY <2>1, <2>2, <2>3
  <2>6. q * TestSize <= d /\ q * TestSize \in Nat
    BY <1>6, <2>4, <2>5
  <2>7. TestEnd(q) <= L
    <3>1. TestEnd(q) = first + q * TestSize
      BY <1>3
    <3> QED BY <2>3, <2>6, <3>1
  <2>8. n \in Nat /\ n <= q
    BY <2>2
  <2>9. TestEnd(n) <= TestEnd(q)
    BY <1>9, <2>8
  <2> QED BY <1>8, <2>7, <2>8, <2>9
<1> QED BY <1>5, <1>8, <1>9, <1>10

\* Every place behind the first and up to the last is in one of the folds.
LEMMA FoldsCover ==
    ASSUME NEW c \in Nat, NEW n \in Nat, TestEnd(0) < n, n <= TestEnd(c),
           \A k \in Nat : TestEnd(k) \in Nat
    PROVE  \E k \in 1..c : TestEnd(k - 1) < n /\ n <= TestEnd(k)
<1> DEFINE K == {k \in Nat : n <= TestEnd(k)}
<1>1. c \in K
  OBVIOUS
<1>2. PICK k \in K : \A j \in K : k <= j
  BY <1>1, LeastNumber
<1>3. k \in Nat /\ n <= TestEnd(k) /\ k <= c /\ k # 0
  BY <1>1, <1>2
<1>4. k - 1 \in Nat /\ k \in 1..c
  BY <1>3
<1>5. k - 1 \notin K
  BY <1>2, <1>4
<1>6. TestEnd(k - 1) < n
  BY <1>4, <1>5
<1> QED BY <1>3, <1>4, <1>6

\* Python's slice of a list.
LEMMA SubSeqIsSlice ==
    ASSUME NEW T, NEW L \in Nat, Listing(T, L), NEW a \in Nat, NEW b \in Nat, a <= b, b <= L
    PROVE  SubSeq(T, a + 1, b) = Slice(T, a, b)
<1> DEFINE U == {T[j] : j \in 1..L}
           z == SubSeq(T, a + 1, b)
<1>1. T \in [1..L -> U]
  BY DEF Listing
<1> HIDE DEF U
<1>2. T \in Seq(U) /\ Len(T) = L
  BY <1>1
<1>3. z \in Seq(U) /\ Len(z) = b - a
  BY <1>2
<1>4. \A j \in 1..(b - a) : z[j] = T[a + j]
  <2> TAKE j \in 1..(b - a)
  <2>1. (a + 1) + j - 1 = a + j
    OBVIOUS
  <2>2. z[j] = T[(a + 1) + j - 1]
    BY <1>2
  <2> QED BY <2>1, <2>2
<1> HIDE DEF z
<1>5. z \in [1..(b - a) -> U]
  BY <1>3
<1>6. z = [j \in 1..(b - a) |-> T[a + j]]
  BY <1>4, <1>5
<1> QED BY <1>6, Zenon DEF Slice, z

\* Trades one behind the other: each takes time, and ends before the next begins.
Successive(T, L) ==
    /\ Listing(T, L)
    /\ \A n \in 1..L : /\ T[n].created_at \in Int /\ T[n].terminal_at \in Int
                       /\ T[n].created_at < T[n].terminal_at
    /\ \A m, n \in 1..L : m < n => T[m].terminal_at <= T[n].created_at

\* The tests of one fold.
LEMMA FoldTests ==
    ASSUME NEW T, NEW L \in Nat, Listing(T, L), NEW a \in Nat, a + TestSize <= L
    PROVE  Fold(T, a).test = Slice(T, a, a + TestSize)
<1>1. a + TestSize \in Nat /\ a <= a + TestSize
  BY WalkForwardAssumption
<1>2. Fold(T, a).test = SubSeq(T, a + 1, a + TestSize)
  BY Zenon DEF Fold
<1> QED BY <1>1, <1>2, SubSeqIsSlice

\* The window one fold spans.
LEMMA OneFold ==
    ASSUME NEW T, NEW L \in Nat, Successive(T, L), NEW a \in Nat, a + TestSize <= L
    PROVE  LET fold == Fold(T, a) IN
           /\ fold.test_start = T[a + 1].created_at
           /\ \E m \in 1..L : a < m /\ m <= a + TestSize /\ fold.test_end = T[m].terminal_at
           /\ \A m \in 1..L : a < m /\ m <= a + TestSize => T[m].terminal_at <= fold.test_end
<1> DEFINE b == a + TestSize
           test == SubSeq(T, a + 1, b)
           ends == {test[n].terminal_at : n \in DOMAIN test}
<1>1. TestSize \in Nat /\ TestSize > 0
  BY WalkForwardAssumption
<1>2. b \in Nat /\ a <= b /\ b <= L /\ b - a = TestSize /\ a < b
  BY <1>1
<1>3. test = Slice(T, a, b)
  BY <1>2, SubSeqIsSlice DEF Successive
<1>4. Fold(T, a).test_start = test[1].created_at /\ Fold(T, a).test_end = Max(ends)
  BY Zenon DEF Fold, Latest
<1> HIDE DEF test, b
<1>5. DOMAIN test = 1..TestSize /\ \A j \in 1..TestSize : test[j] = T[a + j]
  BY <1>2, <1>3 DEF Slice
<1>6. \A j \in 1..TestSize : a + j \in 1..L /\ a < a + j /\ a + j <= b
  BY <1>1, <1>2
<1>7. ends = {T[a + j].terminal_at : j \in 1..TestSize}
  BY <1>5
<1> HIDE DEF ends
<1>8. ends \in SUBSET Int
  BY <1>6, <1>7 DEF Successive
<1>9. \A m \in 1..L : a < m /\ m <= b => m - a \in 1..TestSize /\ a + (m - a) = m
  BY <1>2
<1>10. 1 \in 1..TestSize
  BY <1>1
<1>11. ends # {}
  BY <1>7, <1>10
<1>12. T[b].terminal_at \in Int /\ \A j \in 1..TestSize : T[a + j].terminal_at <= T[b].terminal_at
  <2>1. b \in 1..L
    BY <1>2
  <2>2. ASSUME NEW j \in 1..TestSize PROVE T[a + j].terminal_at <= T[b].terminal_at
    <3>1. PICK m \in 1..L : m = a + j /\ m <= b
      BY <1>6
    <3>2. CASE m = b
      BY <2>1, <3>1, <3>2 DEF Successive
    <3>3. CASE m # b
      <4>1. m < b
        BY <1>2, <3>1, <3>3
      <4>2. /\ T[m].terminal_at <= T[b].created_at /\ T[b].created_at < T[b].terminal_at
            /\ T[m].terminal_at \in Int /\ T[b].created_at \in Int /\ T[b].terminal_at \in Int
        BY <2>1, <4>1 DEF Successive
      <4> QED BY <3>1, <4>2
    <3> QED BY <3>2, <3>3
  <2> QED BY <2>1, <2>2 DEF Successive
<1>13. Max(ends) \in ends /\ \A x \in ends : x <= Max(ends)
  <2>1. \A x \in ends : x <= T[b].terminal_at
    BY <1>7, <1>12
  <2> QED BY <1>8, <1>11, <1>12, <2>1, MaxOfBounded
<1>14. PICK j \in 1..TestSize : Max(ends) = T[a + j].terminal_at
  BY <1>7, <1>13
<1>15. ASSUME NEW m \in 1..L, a < m, m <= b PROVE T[m].terminal_at <= Max(ends)
  <2>1. T[m].terminal_at \in ends
    BY <1>7, <1>9, <1>15
  <2> QED BY <1>13, <2>1
<1>16. test[1].created_at = T[a + 1].created_at
  BY <1>5, <1>10
<1> QED BY <1>4, <1>6, <1>14, <1>15, <1>16 DEF b

\* The folds of a list, by their number.
LEMMA FoldsAre ==
    ASSUME NEW T, NEW L \in Nat, Len(T) = L
    PROVE  WalkForwardFolds(T) = [n \in 1..FoldCount(L) |-> Fold(T, TestEnd(n - 1))]
BY Zenon DEF WalkForwardFolds, FoldCount, TestEnd

\* All tests of a list of trades: a slice of it, or nothing.
LEMMA SampleIsSlice ==
    ASSUME NEW T, NEW L \in Nat, Listing(T, L)
    PROVE  OutOfSample(T) = IF FoldCount(L) = 0 THEN <<>>
                            ELSE Slice(T, TestEnd(0), TestEnd(FoldCount(L)))
<1>1. PICK c \in Nat : c = FoldCount(L)
  BY FoldPlaces
<1>2. Len(T) = L
  BY ListingLength
<1> DEFINE folds == WalkForwardFolds(T)
           lists == [n \in DOMAIN folds |-> folds[n].test]
           place == [n \in 0..c |-> TestEnd(n)]
<1>3. folds = [n \in 1..c |-> Fold(T, TestEnd(n - 1))]
  BY <1>1, <1>2, FoldsAre
<1>4. lists = [n \in 1..c |-> Fold(T, TestEnd(n - 1)).test]
  BY <1>3
<1>5. OutOfSample(T) = FlattenSeq(lists)
  BY Zenon DEF OutOfSample
<1> HIDE DEF folds, lists
<1>6. \A n \in 1..c : Fold(T, TestEnd(n - 1)).test = Slice(T, place[n - 1], place[n])
  <2> TAKE n \in 1..c
  <2>1. n - 1 \in Nat /\ n \in Nat /\ n - 1 \in 0..c /\ n \in 0..c /\ (n - 1) + 1 = n /\ c # 0
    OBVIOUS
  <2>2. TestEnd(n) = TestEnd(n - 1) + TestSize /\ TestEnd(n - 1) \in Nat /\ TestEnd(n) <= L
    <3>1. TestEnd((n - 1) + 1) = TestEnd(n - 1) + TestSize /\ TestEnd(n - 1) \in Nat
      BY <2>1, FoldPlaces
    <3>2. TestEnd(n) <= L
      BY <1>1, <2>1, FoldPlaces
    <3> QED BY <2>1, <3>1, <3>2
  <2>3. Fold(T, TestEnd(n - 1)).test = Slice(T, TestEnd(n - 1), TestEnd(n - 1) + TestSize)
    BY <2>2, FoldTests
  <2> QED BY <2>1, <2>2, <2>3
<1>7. lists = [n \in 1..c |-> Slice(T, place[n - 1], place[n])]
  BY <1>4, <1>6
<1>8. /\ \A i \in 0..c : place[i] \in Nat
      /\ \A i \in 0..c : place[0] <= place[i]
      /\ \A i \in 1..c : place[i - 1] <= place[i]
  <2>1. \A i \in 0..c : i \in Nat /\ place[i] = TestEnd(i)
    OBVIOUS
  <2>2. 0 \in 0..c
    OBVIOUS
  <2>3. \A i \in Nat : TestEnd(i) \in Nat /\ TestEnd(0) <= TestEnd(i)
    BY FoldPlaces
  <2>4. ASSUME NEW i \in 1..c PROVE place[i - 1] <= place[i]
    <3>1. i - 1 \in 0..c /\ i \in 0..c /\ i - 1 \in Nat /\ i \in Nat /\ i - 1 <= i
      OBVIOUS
    <3>2. TestEnd(i - 1) <= TestEnd(i)
      BY <3>1, FoldPlaces
    <3> HIDE DEF place
    <3> QED BY <2>1, <3>1, <3>2
  <2> HIDE DEF place
  <2> QED BY <2>1, <2>2, <2>3, <2>4
<1>9. place[0] = TestEnd(0) /\ place[c] = TestEnd(c)
  OBVIOUS
<1> HIDE DEF place
<1>10. FlattenSeq(lists) = Slice(T, place[0], place[c])
  BY <1>7, <1>8, FlattenedSlices
<1>11. CASE c = 0
  <2>1. TestEnd(0) \in Nat /\ TestEnd(0) <= TestEnd(0)
    BY FoldPlaces
  <2>2. Slice(T, TestEnd(0), TestEnd(0)) = <<>>
    BY <2>1, SliceListing
  <2> QED BY <1>1, <1>5, <1>9, <1>10, <1>11, <2>2
<1>12. CASE c # 0
  BY <1>1, <1>5, <1>9, <1>10, <1>12
<1> QED BY <1>11, <1>12

\* A trade is in a window of the folds exactly when it is in one of their tests.
LEMMA WindowsHoldTests ==
    ASSUME NEW T, NEW L \in Nat, Successive(T, L), FoldCount(L) # 0, NEW n \in 1..L
    PROVE  (\E k \in 1..FoldCount(L) : InWindow(T[n], Fold(T, TestEnd(k - 1))))
           <=> TestEnd(0) < n /\ n <= TestEnd(FoldCount(L))
<1>1. PICK c \in Nat : c = FoldCount(L)
  BY FoldPlaces
<1>2. /\ \A m \in 1..L : /\ T[m].created_at \in Int /\ T[m].terminal_at \in Int
                         /\ T[m].created_at < T[m].terminal_at
      /\ \A m, k \in 1..L : m < k => T[m].terminal_at <= T[k].created_at
  BY DEF Successive
<1>3. ASSUME NEW k \in 1..c
      PROVE  /\ TestEnd(k - 1) \in Nat /\ TestEnd(k) \in Nat /\ TestEnd(k) <= L
             /\ TestEnd(0) <= TestEnd(k - 1) /\ TestEnd(k) <= TestEnd(c)
             /\ TestEnd(k - 1) + 1 \in 1..L /\ TestEnd(k - 1) + 1 <= TestEnd(k)
             /\ Fold(T, TestEnd(k - 1)).test_start = T[TestEnd(k - 1) + 1].created_at
             /\ \E m \in 1..L : /\ TestEnd(k - 1) < m /\ m <= TestEnd(k)
                                /\ Fold(T, TestEnd(k - 1)).test_end = T[m].terminal_at
             /\ \A m \in 1..L : TestEnd(k - 1) < m /\ m <= TestEnd(k)
                                  => T[m].terminal_at <= Fold(T, TestEnd(k - 1)).test_end
  <2>1. PICK p \in Nat : p = k - 1 /\ p + 1 = k
    <3>1. k - 1 \in Nat /\ (k - 1) + 1 = k
      OBVIOUS
    <3> QED BY <3>1
  <2>2. k \in Nat /\ k \in 0..c /\ k <= c
    OBVIOUS
  <2>3. /\ TestEnd(p) \in Nat /\ TestEnd(k) = TestEnd(p) + TestSize /\ TestEnd(0) <= TestEnd(p)
        /\ TestEnd(k) \in Nat
    BY <2>1, <2>2, FoldPlaces
  <2>4. TestEnd(k) <= TestEnd(c)
    BY <2>2, FoldPlaces
  <2>5. TestEnd(k) <= L
    BY <1>1, <2>2, FoldPlaces
  <2>6. TestSize \in Nat /\ TestSize > 0
    BY WalkForwardAssumption
  <2>7. TestEnd(p) + 1 \in 1..L /\ TestEnd(p) + 1 <= TestEnd(k)
    BY <2>3, <2>5, <2>6
  <2> DEFINE a == TestEnd(p)
  <2>8. a \in Nat /\ a + TestSize <= L
    BY <2>3, <2>5
  <2> HIDE DEF a
  <2>9. /\ Fold(T, a).test_start = T[a + 1].created_at
        /\ \E m \in 1..L : a < m /\ m <= a + TestSize /\ Fold(T, a).test_end = T[m].terminal_at
        /\ \A m \in 1..L : a < m /\ m <= a + TestSize => T[m].terminal_at <= Fold(T, a).test_end
    BY <2>8, OneFold
  <2>10. a + TestSize = TestEnd(k) /\ a = TestEnd(k - 1)
    BY <2>1, <2>3 DEF a
  <2> QED BY <2>1, <2>3, <2>4, <2>5, <2>7, <2>9, <2>10
<1>4. ASSUME NEW k \in 1..c, InWindow(T[n], Fold(T, TestEnd(k - 1)))
      PROVE  TestEnd(0) < n /\ n <= TestEnd(c)
  <2> DEFINE a == TestEnd(k - 1)
             b == TestEnd(k)
             fold == Fold(T, a)
  <2>1. /\ a \in Nat /\ b \in Nat /\ b <= L /\ TestEnd(0) <= a /\ b <= TestEnd(c)
        /\ a + 1 \in 1..L /\ a + 1 <= b /\ fold.test_start = T[a + 1].created_at
    BY <1>3
  <2>2. PICK m \in 1..L : a < m /\ m <= b /\ fold.test_end = T[m].terminal_at
    BY <1>3
  <2>3. fold.test_start <= T[n].created_at /\ T[n].terminal_at <= fold.test_end
    BY <1>4 DEF InWindow
  <2>4. TestEnd(0) \in Int /\ TestEnd(c) \in Int
    BY FoldPlaces
  <2> HIDE DEF a, b, fold
  <2>5. ~(n < a + 1)
    <3> SUFFICES ASSUME n < a + 1 PROVE FALSE
      OBVIOUS
    <3>1. T[n].terminal_at <= T[a + 1].created_at
      BY <1>2, <2>1
    <3>2. T[n].created_at < T[n].terminal_at /\ T[a + 1].created_at <= T[n].created_at
      BY <1>2, <2>1, <2>3
    <3>3. {T[n].created_at, T[n].terminal_at, T[a + 1].created_at} \subseteq Int
      BY <1>2, <2>1
    <3> QED BY <3>1, <3>2, <3>3
  <2>6. ~(m < n)
    <3> SUFFICES ASSUME m < n PROVE FALSE
      OBVIOUS
    <3>1. T[m].terminal_at <= T[n].created_at /\ T[n].created_at < T[n].terminal_at
      BY <1>2
    <3>2. T[n].terminal_at <= T[m].terminal_at
      BY <2>2, <2>3
    <3>3. {T[n].created_at, T[n].terminal_at, T[m].terminal_at} \subseteq Int
      BY <1>2
    <3> QED BY <3>1, <3>2, <3>3
  <2>7. n \in Nat /\ m \in Nat
    OBVIOUS
  <2> QED BY <2>1, <2>2, <2>4, <2>5, <2>6, <2>7
<1>5. ASSUME TestEnd(0) < n, n <= TestEnd(c)
      PROVE  \E k \in 1..c : InWindow(T[n], Fold(T, TestEnd(k - 1)))
  <2>1. \A k \in Nat : TestEnd(k) \in Nat
    BY FoldPlaces
  <2>2. PICK k \in 1..c : TestEnd(k - 1) < n /\ n <= TestEnd(k)
    <3>1. n \in Nat
      OBVIOUS
    <3> QED BY <1>5, <2>1, <3>1, FoldsCover
  <2> DEFINE a == TestEnd(k - 1)
             fold == Fold(T, a)
  <2>3. /\ a \in Nat /\ a + 1 \in 1..L /\ fold.test_start = T[a + 1].created_at
        /\ T[n].terminal_at <= fold.test_end
    BY <1>3, <2>2
  <2>4. a < n
    BY <2>2
  <2> HIDE DEF a
  <2>5. T[a + 1].created_at <= T[n].created_at
    <3>1. CASE n = a + 1
      BY <1>2, <3>1
    <3>2. CASE n # a + 1
      <4>1. a + 1 < n
        BY <2>3, <2>4, <3>2
      <4>2. T[a + 1].terminal_at <= T[n].created_at /\ T[a + 1].created_at < T[a + 1].terminal_at
        BY <1>2, <2>3, <4>1
      <4>3. {T[n].created_at, T[a + 1].terminal_at, T[a + 1].created_at} \subseteq Int
        BY <1>2, <2>3
      <4> QED BY <4>2, <4>3
    <3> QED BY <3>1, <3>2
  <2>6. InWindow(T[n], fold)
    BY <2>3, <2>5 DEF InWindow
  <2> QED BY <2>6 DEF a
<1> QED BY <1>1, <1>4, <1>5

\* The trades in the windows of a run's own folds are its tests.
LEMMA WindowsAreTheSample ==
    ASSUME NEW T, NEW L \in Nat, Successive(T, L)
    PROVE  InFoldWindows(T, WalkForwardFolds(T)) = OutOfSample(T)
<1>1. PICK c \in Nat : c = FoldCount(L)
  BY FoldPlaces
<1>2. Len(T) = L /\ DOMAIN T = 1..L
  BY ListingLength DEF Successive
<1> DEFINE folds == WalkForwardFolds(T)
           S == {n \in DOMAIN T : \E k \in DOMAIN folds : InWindow(T[n], folds[k])}
<1>3. folds = [n \in 1..c |-> Fold(T, TestEnd(n - 1))]
  BY <1>1, <1>2, FoldsAre
<1>4. InFoldWindows(T, folds) = Picked(T, S)
  BY Zenon DEF InFoldWindows
<1> HIDE DEF folds
<1>5. \A n \in 1..L : n \in S <=> \E k \in 1..c : InWindow(T[n], Fold(T, TestEnd(k - 1)))
  BY <1>2, <1>3
<1> HIDE DEF S
<1>6. CASE c = 0
  <2>1. \A n \in 1..L : n \in S <=> 0 < n /\ n <= 0
    BY <1>5, <1>6
  <2>2. Picked(T, S) = Slice(T, 0, 0)
    BY <1>2, <2>1, PickedSlice
  <2>3. Slice(T, 0, 0) = <<>>
    <3>1. 0 \in Nat /\ 0 <= 0
      OBVIOUS
    <3> QED BY <3>1, SliceListing
  <2> QED BY <1>1, <1>4, <1>6, <2>2, <2>3, SampleIsSlice DEF folds, Successive
<1>7. CASE c # 0
  <2>1. \A n \in 1..L : n \in S <=> TestEnd(0) < n /\ n <= TestEnd(c)
    BY <1>1, <1>5, <1>7, WindowsHoldTests
  <2>2. TestEnd(0) \in Nat /\ TestEnd(c) \in Nat /\ TestEnd(0) <= TestEnd(c) /\ TestEnd(c) <= L
    <3>1. c \in 0..FoldCount(L)
      BY <1>1
    <3> QED BY <1>1, <1>7, <3>1, FoldPlaces
  <2>3. Picked(T, S) = Slice(T, TestEnd(0), TestEnd(c))
    BY <1>2, <2>1, <2>2, PickedSlice
  <2> QED BY <1>1, <1>4, <1>7, <2>3, SampleIsSlice DEF folds, Successive
<1> QED BY <1>6, <1>7

\* The sample of a list of trades is a list.
LEMMA SampleIsListing ==
    ASSUME NEW T, NEW L \in Nat, Listing(T, L)
    PROVE  \E k \in Nat : Listing(OutOfSample(T), k)
<1>1. CASE FoldCount(L) = 0
  <2>1. OutOfSample(T) = <<>>
    BY <1>1, SampleIsSlice
  <2>2. Listing(<<>>, 0)
    BY DEF Listing
  <2> QED BY <2>1, <2>2
<1>2. CASE FoldCount(L) # 0
  <2>1. OutOfSample(T) = Slice(T, TestEnd(0), TestEnd(FoldCount(L)))
    BY <1>2, SampleIsSlice
  <2>2. PICK a \in Nat, b \in Nat : a = TestEnd(0) /\ b = TestEnd(FoldCount(L)) /\ a <= b
    BY FoldPlaces
  <2>3. b - a \in Nat /\ Listing(Slice(T, a, b), b - a)
    BY <2>2, SliceListing
  <2> QED BY <2>1, <2>2, <2>3
<1> QED BY <1>1, <1>2

\* What is picked from a list is a list.
LEMMA PickedIsListing ==
    ASSUME NEW T, NEW N \in Nat, Len(T) = N, NEW S
    PROVE  \E k \in Nat : Listing(Picked(T, S), k)
<1>1. PICK f : IsPicking(f, T, S, N) /\ Picked(T, S) = f[N]
  BY PickedIs
<1>2. \A n \in 0..N : f[n] = IF n = 0 THEN <<>>
                             ELSE IF n \in S THEN Append(f[n - 1], T[n]) ELSE f[n - 1]
  <2>1. f = [n \in 0..N |-> IF n = 0 THEN <<>>
                        ELSE IF n \in S THEN Append(f[n - 1], T[n]) ELSE f[n - 1]]
    BY <1>1, Zenon DEF IsPicking
  <2> QED BY <2>1, Zenon
<1> DEFINE Bad == {m \in Nat : m <= N /\ ~\E k \in Nat : Listing(f[m], k)}
<1>3. Bad = {}
  <2> SUFFICES ASSUME Bad # {} PROVE FALSE
    OBVIOUS
  <2>1. PICK m \in Bad : \A j \in Bad : m <= j
    BY LeastNumber
  <2>2. m \in Nat /\ m <= N /\ m \in 0..N /\ ~\E k \in Nat : Listing(f[m], k)
    BY <2>1
  <2>3. m # 0
    <3>1. Listing(<<>>, 0) /\ 0 \in Nat
      BY DEF Listing
    <3> QED BY <1>2, <2>2, <3>1
  <2>4. m - 1 \in Nat /\ m - 1 <= N /\ ~(m <= m - 1)
    BY <2>2, <2>3
  <2>5. PICK k \in Nat : Listing(f[m - 1], k)
    BY <2>1, <2>4
  <2>6. k + 1 \in Nat /\ Listing(Append(f[m - 1], T[m]), k + 1)
    BY <2>5, ListingAppends
  <2>7. f[m] = Append(f[m - 1], T[m]) \/ f[m] = f[m - 1]
    BY <1>2, <2>2, <2>3
  <2> QED BY <2>2, <2>5, <2>6, <2>7
<1>4. N \notin Bad
  BY <1>3
<1> QED BY <1>1, <1>4

\* The signals of the resolved trades of a sample, as the comparison and as the
\* evaluation collect them.
LEMMA SelectedSignals ==
    ASSUME NEW O, NEW k \in Nat, Listing(O, k), NEW threshold
    PROVE  ToSet(Ids(Eligible(O, threshold)))
           = {trade.id : trade \in {t \in ToSet(O) : Resolved(t) /\ t.score >= threshold}}
<1> DEFINE S == {n \in DOMAIN O : Resolved(O[n]) /\ O[n].score >= threshold}
           sel == Picked(O, S)
<1>1. Len(O) = k /\ DOMAIN O = 1..k
  BY ListingLength
<1>2. Eligible(O, threshold) = sel
  BY Zenon DEF Eligible
<1>3. S \in SUBSET (1..k)
  BY <1>1
<1>4. ToSet(sel) = {O[n] : n \in S}
  BY <1>1, <1>3, PickedElements
<1>5. ToSet(O) = {O[n] : n \in 1..k}
  BY <1>1 DEF ToSet
<1>6. {t \in ToSet(O) : Resolved(t) /\ t.score >= threshold} = {O[n] : n \in S}
  BY <1>1, <1>5
<1>7. PICK m \in Nat : Listing(sel, m)
  BY <1>1, PickedIsListing
<1> HIDE DEF sel, S
<1>8. DOMAIN sel = 1..m
  BY <1>7, ListingLength
<1>9. Ids(sel) = [n \in 1..m |-> sel[n].id]
  BY <1>8 DEF Ids
<1>10. DOMAIN Ids(sel) = 1..m /\ \A n \in 1..m : Ids(sel)[n] = sel[n].id
  BY <1>9
<1>11. ToSet(Ids(sel)) = {sel[n].id : n \in 1..m}
  BY <1>10 DEF ToSet
<1>12. ToSet(sel) = {sel[n] : n \in 1..m}
  BY <1>8 DEF ToSet
<1>13. ToSet(Ids(sel)) = {trade.id : trade \in ToSet(sel)}
  BY <1>11, <1>12
<1> QED BY <1>2, <1>4, <1>6, <1>13

\* The managed track of a path is successive, and both tracks are lists.
LEMMA PathSuccessive ==
    ASSUME NEW p, NEW start, NEW end, NEW left, PathInv(p, start, end, left)
    PROVE  \E n \in Nat : Successive(p.managed, n) /\ Listing(p.fixed, n)
<1>1. PICK n \in Nat : PathOf(p, n, start, end, left)
  BY DEF PathInv
<1> DEFINE M == p.managed
           F == p.fixed
<1>2. ASSUME NEW trade, NEW variant, Track(trade, variant, start, end)
      PROVE  /\ trade.id \in Nat /\ trade.created_at = 2 * trade.id
             /\ trade.terminal_at \in Int /\ trade.created_at < trade.terminal_at
  BY <1>2 DEF Track, Sound
<1>3. /\ Listing(F, n) /\ Listing(M, n)
      /\ \A j \in 1..n : /\ M[j].id \in Nat /\ M[j].created_at = 2 * M[j].id
                         /\ M[j].terminal_at \in Int /\ M[j].created_at < M[j].terminal_at
                         /\ F[j].id = M[j].id
      /\ \A i, j \in 1..n : i < j => F[i].id < F[j].id
      /\ \A j \in 1..(n - 1) : M[j].terminal_at <= M[j + 1].created_at
  BY <1>1, <1>2 DEF PathOf
<1> HIDE DEF M, F
<1>4. \A j \in 1..n : M[j].created_at \in Int
  BY <1>3
<1>5. ASSUME NEW i \in 1..n, NEW j \in 1..n, i < j PROVE M[i].terminal_at <= M[j].created_at
  <2>1. PICK k \in 1..n : k = i + 1 /\ k <= j
    BY <1>5
  <2>2. M[i].terminal_at <= M[k].created_at
    <3>1. i \in 1..(n - 1)
      BY <1>5
    <3> QED BY <1>3, <2>1, <3>1
  <2>3. CASE k = j
    BY <2>2, <2>3
  <2>4. CASE k # j
    <3>1. F[k].id < F[j].id
      BY <1>3, <2>1, <2>4
    <3>2. M[k].id < M[j].id
      BY <1>3, <3>1
    <3>3. M[k].created_at < M[j].created_at
      BY <1>3, <3>2
    <3>4. {M[i].terminal_at, M[k].created_at, M[j].created_at} \subseteq Int
      BY <1>3, <1>4
    <3> QED BY <2>2, <3>3, <3>4
  <2> QED BY <2>3, <2>4
<1>6. Successive(M, n)
  BY <1>3, <1>4, <1>5 DEF Successive
<1> QED BY <1>3, <1>6 DEF M, F

\* The evaluation of a run reports what it should.
LEMMA ReportStep ==
    ASSUME RunInv, EvaluateRun, report' # report
    PROVE  PrimaryRowIsTheSample'
<1> DEFINE fixed == [threshold \in Thresholds |-> paths[threshold].fixed]
           managed == [threshold \in Thresholds |-> paths[threshold].managed]
           F == fixed[PrimaryThreshold]
           M == managed[PrimaryThreshold]
<1>1. report' = [fixed |-> Evaluation(fixed), managed |-> Evaluation(managed),
                 pairs |-> CompletedPairs(fixed, managed)]
  BY Zenon DEF EvaluateRun
<1>2. PrimaryThreshold \in Thresholds
  BY WalkForwardAssumption
<1>3. PathInv(paths[PrimaryThreshold], range[1], range[2], upcoming)
  BY <1>2 DEF RunInv, EvaluateRun, Running
<1>4. PICK n \in Nat : Successive(M, n) /\ Listing(F, n)
  BY <1>2, <1>3, PathSuccessive
<1> HIDE DEF fixed, managed
<1>5. InFoldWindows(M, WalkForwardFolds(M)) = OutOfSample(M)
  BY <1>4, WindowsAreTheSample
<1>6. /\ Evaluation(managed).selected = Eligible(OutOfSample(M), PrimaryThreshold)
      /\ Evaluation(managed).sensitivity[PrimaryThreshold]
         = Eligible(InFoldWindows(M, WalkForwardFolds(M)), PrimaryThreshold)
      /\ Evaluation(fixed).selected = Eligible(OutOfSample(F), PrimaryThreshold)
  BY <1>2 DEF Evaluation
<1>7. PICK k \in Nat : Listing(OutOfSample(M), k)
  BY <1>4, SampleIsListing DEF Successive
<1>8. PICK l \in Nat : Listing(OutOfSample(F), l)
  BY <1>4, SampleIsListing
<1>9. CompletedPairs(fixed, managed)
      = ToSet(Ids(Evaluation(managed).selected)) \cap ToSet(Ids(Evaluation(fixed).selected))
  <2>1. ToSet(Ids(Evaluation(managed).selected))
        = {trade.id : trade \in {t \in ToSet(OutOfSample(M)) : Resolved(t) /\ t.score >= PrimaryThreshold}}
    BY <1>6, <1>7, SelectedSignals
  <2>2. ToSet(Ids(Evaluation(fixed).selected))
        = {trade.id : trade \in {t \in ToSet(OutOfSample(F)) : Resolved(t) /\ t.score >= PrimaryThreshold}}
    BY <1>6, <1>8, SelectedSignals
  <2> QED BY <2>1, <2>2 DEF CompletedPairs
<1>10. /\ report'.managed = Evaluation(managed) /\ report'.fixed = Evaluation(fixed)
       /\ report'.pairs = CompletedPairs(fixed, managed)
  BY <1>1
<1> HIDE DEF F, M
<1> QED BY <1>5, <1>6, <1>9, <1>10 DEF PrimaryRowIsTheSample

----------------------------------------------------------------------------
(* The theorems. *)

\* Before the import nothing is cached, kept or upcoming.
LEMMA RunInitInv == ReplayInit => RunInv
<1> SUFFICES ASSUME ReplayInit PROVE RunInv
  OBVIOUS
<1>1. StoreInv
  BY StoreInitInv DEF ReplayInit
<1> QED BY <1>1 DEF ReplayInit, RunInv

\* The inductive step: every operation of the store and of the run.
LEMMA RunStep == RunInv /\ [ReplayNext]_replayVars => RunInv'
<1> SUFFICES ASSUME RunInv, [ReplayNext]_replayVars PROVE RunInv'
  OBVIOUS
<1>1. CASE runStage = "idle" /\ StoreNext /\ UNCHANGED runVars
  <2>1. runStage' = "idle" /\ paths' = paths
    BY <1>1 DEF runVars
  <2>2. StoreInv'
    BY <1>1, StoreStep DEF RunInv
  <2>3. NewPath' = NewPath
    BY DEF NewPath
  <2> QED BY <1>1, <2>1, <2>2, <2>3 DEF RunInv
<1>2. CASE BeginRun
  BY <1>2, BeginRunStep
<1>3. CASE WarmUp
  BY <1>3, WarmUpStep
<1>4. CASE EvaluateBoundary
  BY <1>4, EvaluateBoundaryStep
<1>5. CASE EvaluateRun
  BY <1>5, EvaluateRunStep
<1>6. CASE UNCHANGED replayVars
  <2>1. /\ UNCHANGED storeVars /\ history' = history
        /\ runStage' = runStage /\ paths' = paths /\ range' = range /\ upcoming' = upcoming
    BY <1>6 DEF replayVars, runVars, storeVars
  <2>2. StoreInv'
    BY <2>1, StoreKept DEF RunInv
  <2>3. CASE runStage = "idle"
    <3>1. NewPath' = NewPath
      BY DEF NewPath
    <3> QED BY <2>1, <2>2, <2>3, <3>1 DEF RunInv
  <2>4. CASE runStage # "idle"
    <3>1. Running
      BY <2>4 DEF RunInv
    <3>2. ASSUME NEW threshold \in Thresholds
          PROVE  PathInv(paths[threshold], range[1], range[2], upcoming)'
      <4>1. PICK p, start, end, left : /\ p = paths[threshold] /\ start = range[1]
                                       /\ end = range[2] /\ left = upcoming
        OBVIOUS
      <4>2. PathInv(p, start, end, left)
        BY <3>1, <4>1 DEF Running
      <4>3. PathInv(p, start, end, left)'
        BY <2>1, <4>2, PathKept
      <4> QED BY <2>1, <4>1, <4>3
    <3>3. Imported' /\ CoverageStop' = CoverageStop
      BY <2>1, <3>1 DEF Imported, CoverageStop, ReplayMinutes, Running
    <3>4. Running'
      BY <2>1, <3>1, <3>2, <3>3 DEF Running
    <3> QED BY <2>1, <2>2, <2>4, <3>4 DEF RunInv
  <2> QED BY <2>3, <2>4
<1> QED BY <1>1, <1>2, <1>3, <1>4, <1>5, <1>6 DEF ReplayNext

\* The inductive invariant of a run over stored history.
THEOREM RunInvHolds == ReplaySpec => []RunInv
<1> QED BY RunInitInv, RunStep, PTL DEF ReplaySpec

\* Whatever was asked before and imported in between, for every history and every
\* set of intervals and limits, series_at answers what it would without its cache.
THEOREM CacheInvisible == ReplaySpec => []CacheIsInvisible
<1>1. RunInv => CacheIsInvisible
  BY DEF RunInv, StoreInv
<1> QED BY <1>1, RunInvHolds, PTL

\* For every history, with whatever gaps, the scan of the minutes stores exactly the
\* intervals all of whose minutes are there.
THEOREM WholeIntervals == ReplaySpec => []ResampledFromWholeIntervals
<1>1. RunInv => ResampledFromWholeIntervals
  <2> SUFFICES ASSUME RunInv, NEW k \in Resampled, Imported, k = "1M" => ~native
               PROVE  rows[k] = {o \in ReplayMinutes :
                         /\ o % IntervalMinutes[k] = 0
                         /\ o..(o + IntervalMinutes[k] - 1) \subseteq Present(history)}
    BY DEF ResampledFromWholeIntervals
  <2>1. history \in Histories /\ rows[k] = {o \in Nat : Whole(history, k, o)}
    BY DEF RunInv, StoreInv
  <2>2. PICK h \in Histories : h = history
    BY <2>1
  <2>3. rows[k] = {o \in ReplayMinutes : Whole(h, k, o)}
    BY <2>1, <2>2, WholeInHistory
  <2> QED BY <2>2, <2>3 DEF Whole
<1> QED BY <1>1, RunInvHolds, PTL

\* For every history, signal, expiry, threshold and range, every trade of a backtest
\* ends as the live engine, replaying the same minutes, would have ended it.
THEOREM BacktestMeasuresLive == ReplaySpec => []BacktestIsLive
<1>1. RunInv => BacktestIsLive
  <2> SUFFICES ASSUME RunInv, NEW threshold \in Thresholds, NEW variant \in {"FIXED", "MANAGED"}
               PROVE  LET trades == IF variant = "FIXED" THEN paths[threshold].fixed
                                    ELSE paths[threshold].managed
                      IN  \A n \in DOMAIN trades :
                            LET trade == trades[n]
                                live == LiveOutcome(trade.terms, trade.id, variant, range[2])
                            IN  IF trade.outcome = "UNRESOLVED"
                                THEN live.state \in {"PENDING", "ACTIVE"}
                                ELSE /\ trade.outcome = live.state
                                     /\ Resolved(trade) =>
                                          /\ live.result_r = WholePosition * trade.net
                                          /\ trade.terminal_at = CloseOf(live.at)
    BY Zenon DEF BacktestIsLive
  <2> DEFINE trades == IF variant = "FIXED" THEN paths[threshold].fixed
                       ELSE paths[threshold].managed
  <2> SUFFICES ASSUME NEW n \in DOMAIN trades
               PROVE  Measured(trades[n], trades[n].terms, trades[n].id, variant, range[2])
    BY Zenon DEF Measured
  <2>1. CASE runStage = "idle"
    <3>1. trades = <<>>
      BY <2>1 DEF RunInv, NewPath
    <3> QED BY <3>1
  <2>2. CASE runStage # "idle"
    <3>1. PathInv(paths[threshold], range[1], range[2], upcoming)
      BY <2>2 DEF RunInv, Running
    <3>2. PICK m \in Nat : PathOf(paths[threshold], m, range[1], range[2], upcoming)
      BY <3>1 DEF PathInv
    <3>3. /\ DOMAIN paths[threshold].fixed = 1..m
          /\ DOMAIN paths[threshold].managed = 1..m
      BY <3>2, ListingLength DEF PathOf
    <3>4. Track(trades[n], variant, range[1], range[2])
      BY <3>2, <3>3 DEF PathOf
    <3> HIDE DEF trades
    <3> QED BY <3>4 DEF Track, Sound
  <2> QED BY <2>1, <2>2
<1> QED BY <1>1, RunInvHolds, PTL

\* For every history and however the thresholds' paths diverge, no trade of a run is
\* one its record or the walk-forward evaluation refuses.
THEOREM RunsAreEvaluated == ReplaySpec => []RunIsEvaluated
<1>1. RunInv => RunIsEvaluated
  BY DEF RunInv, RunIsEvaluated
<1> QED BY <1>1, RunInvHolds, PTL

\* For every history, range, policy and threshold: the sensitivity row of the primary
\* threshold, counted through the windows of the folds, is the out-of-sample sample
\* itself, and a pair is compared for every signal of it resolved on both tracks.
THEOREM PrimaryRowHolds == ReplaySpec => []PrimaryRowIsTheSample
<1>1. ReplayInit => PrimaryRowIsTheSample
  BY DEF ReplayInit, PrimaryRowIsTheSample
<1>2. RunInv /\ PrimaryRowIsTheSample /\ [ReplayNext]_replayVars => PrimaryRowIsTheSample'
  <2> SUFFICES ASSUME RunInv, PrimaryRowIsTheSample, [ReplayNext]_replayVars
               PROVE  PrimaryRowIsTheSample'
    OBVIOUS
  <2>1. CASE report' = report
    BY <2>1 DEF PrimaryRowIsTheSample
  <2>2. CASE report' # report
    <3>1. EvaluateRun
      BY <2>2 DEF ReplayNext, BeginRun, WarmUp, EvaluateBoundary, runVars, replayVars
    <3> QED BY <2>2, <3>1, ReportStep
  <2> QED BY <2>1, <2>2
<1> QED BY <1>1, <1>2, RunInvHolds, PTL DEF ReplaySpec

----------------------------------------------------------------------------
(* The risk timeline: what each stage of the pipeline leaves behind. *)

\* The pages of a fetch.
Fetched == sections \in [Months -> Schedules] /\ headlines \in Headlines

\* The published evidence is what was gathered, and the loader takes it.
Vouched ==
    Fetched /\ evidence = Gathered(sections, headlines) /\ EvidenceAccepted(evidence)

\* What the derivation writes of it.
Drafted == [n \in 1..CoverageEnd |-> Point(evidence, n - 1)]

\* Whatever stage was killed: a draft is the derivation of vouched evidence, and the
\* store holds such a draft or nothing.
RiskInv ==
    /\ riskStage \in {"fetch", "evidence", "derive", "import", "over"}
    /\ riskStage = "evidence" => Fetched
    /\ riskStage = "derive" => Vouched
    /\ riskStage = "import" => Vouched /\ draftPoints = Drafted
    /\ riskStage = "over" => draftPoints = <<>> \/ (Vouched /\ draftPoints = Drafted)
    /\ riskStage \notin {"import", "over"} => draftPoints = <<>>
    /\ riskStore \in {<<>>, draftPoints}

\* It holds at first.
LEMMA RiskStarts == RiskInit => RiskInv
BY DEF RiskInit, RiskInv

\* And every stage, killed or not, keeps it.
LEMMA RiskStep == RiskInv /\ [RiskNext]_riskVars => RiskInv'
<1> SUFFICES ASSUME RiskInv, [RiskNext]_riskVars PROVE RiskInv'
  OBVIOUS
<1>1. CASE Fetch
  BY <1>1 DEF Fetch, RiskInv, Fetched, Months
<1>2. CASE PublishEvidence
  BY <1>2 DEF PublishEvidence, RiskInv, Fetched, Vouched, Drafted, Months
<1>3. CASE Derive
  BY <1>3 DEF Derive, RiskInv, Fetched, Vouched, Drafted, Months
<1>4. CASE ImportRisk
  BY <1>4 DEF ImportRisk, RiskInv, Fetched, Vouched, Drafted, Months
<1>5. CASE KillRisk
  BY <1>5 DEF KillRisk, RiskInv, Fetched, Vouched, Drafted, Months
<1>6. CASE UNCHANGED riskVars
  BY <1>6 DEF riskVars, RiskInv, Fetched, Vouched, Drafted, Months
<1> QED BY <1>1, <1>2, <1>3, <1>4, <1>5, <1>6 DEF RiskNext

\* So the pipeline always leaves vouched evidence and drafts of it.
THEOREM RiskInvHolds == RiskSpec => []RiskInv
BY RiskStarts, RiskStep, PTL DEF RiskSpec

\* The archive covers some boundaries, and every month is part of it.
LEMMA CalendarFacts ==
    /\ CoverageEnd \in Nat /\ CoverageEnd > 0
    /\ \A m \in Months : /\ Calendar[m] \in Nat /\ Calendar[m + 1] \in Nat
                         /\ Calendar[m] < Calendar[m + 1] /\ Calendar[m + 1] <= CoverageEnd
<1>1. /\ Calendar \in Seq(Nat) /\ Len(Calendar) >= 2 /\ Calendar[1] = 0
      /\ \A i, j \in 1..Len(Calendar) : i < j => Calendar[i] < Calendar[j]
  BY CalendarAssumption
<1>2. Len(Calendar) \in Nat /\ \A i \in 1..Len(Calendar) : Calendar[i] \in Nat
  BY <1>1
<1>3. CoverageEnd = Calendar[Len(Calendar)]
  BY DEF CoverageEnd, Last
<1>4. CoverageEnd \in Nat /\ CoverageEnd > 0
  BY <1>1, <1>2, <1>3
<1>5. ASSUME NEW m \in Months
      PROVE  /\ Calendar[m] \in Nat /\ Calendar[m + 1] \in Nat
             /\ Calendar[m] < Calendar[m + 1] /\ Calendar[m + 1] <= CoverageEnd
  <2>1. m \in 1..Len(Calendar) /\ m + 1 \in 1..Len(Calendar) /\ m < m + 1
    BY <1>2 DEF Months
  <2>2. Calendar[m + 1] <= CoverageEnd
    BY <1>1, <1>2, <1>3, <2>1
  <2> QED BY <1>1, <1>2, <2>1, <2>2
<1> QED BY <1>4, <1>5


----------------------------------------------------------------------------
(* The news engine: what a cluster says and how long it blocks. *)

\* The parts of a cluster the risk is read from.
LEMMA ClusterFields ==
    ASSUME NEW items
    PROVE  /\ Cluster(items).at = Max({i.at : i \in items})
           /\ Cluster(items).impact = Volatility(UNION {i.words : i \in items},
                                               Category(UNION {i.topics : i \in items}))
           /\ (\E i \in items : i.official) => Cluster(items).confirmed
BY DEF Cluster

\* A text is read as the first topic it names.
LEMMA FirstTopic ==
    ASSUME NEW topics
    PROVE  /\ Category(topics) = "ETF" <=> "ETF" \in topics
           /\ Category(topics) = "CENTRAL_BANK"
              <=> /\ "CENTRAL_BANK" \in topics
                  /\ topics \cap {"ETF", "STABLECOIN", "INSOLVENCY", "EXCHANGE"} = {}
<1> DEFINE named == {n \in 1..10 : Topics[n] \in topics}
<1>1. /\ DOMAIN Topics = 1..10
      /\ Topics[1] = "ETF" /\ Topics[2] = "STABLECOIN" /\ Topics[3] = "INSOLVENCY"
      /\ Topics[4] = "EXCHANGE" /\ Topics[5] = "CENTRAL_BANK" /\ Topics[6] = "ECONOMIC"
      /\ Topics[7] = "REGULATORY" /\ Topics[8] = "GEOPOLITICAL"
      /\ Topics[9] = "INSTITUTIONAL" /\ Topics[10] = "BITCOIN"
  BY DEF Topics
<1>2. /\ named = {} => Category(topics) = "OTHER"
      /\ named # {} => Category(topics) = Topics[Min(named)]
  BY <1>1 DEF Category
<1>3. named # {} => Min(named) \in named /\ \A n \in named : Min(named) <= n
  <2>1. named \in SUBSET Nat
    OBVIOUS
  <2> HIDE DEF named
  <2> QED BY <2>1, MinOfNumbers
<1>4. CASE named = {}
  <2>1. \A n \in 1..10 : Topics[n] \notin topics
    BY <1>4
  <2>2. "ETF" \notin topics /\ "CENTRAL_BANK" \notin topics
    BY <1>1, <2>1
  <2> QED BY <1>2, <1>4, <2>2
<1>5. CASE named # {}
  <2> DEFINE first == Min(named)
  <2>1. first \in 1..10 /\ Topics[first] \in topics /\ Category(topics) = Topics[first]
    BY <1>2, <1>3, <1>5
  <2>2. \A n \in 1..10 : Topics[n] \in topics => first <= n
    BY <1>3, <1>5
  <2> HIDE DEF first, named
  <2>3. Topics[first] = "ETF" <=> first = 1
    BY <1>1, <2>1
  <2>4. Topics[first] = "CENTRAL_BANK" <=> first = 5
    BY <1>1, <2>1
  <2>5. "ETF" \in topics <=> first = 1
    BY <1>1, <2>1, <2>2
  <2>6. first = 5 <=> /\ "CENTRAL_BANK" \in topics
                      /\ topics \cap {"ETF", "STABLECOIN", "INSOLVENCY", "EXCHANGE"} = {}
    <3>1. ASSUME first = 5
          PROVE  /\ "CENTRAL_BANK" \in topics
                 /\ topics \cap {"ETF", "STABLECOIN", "INSOLVENCY", "EXCHANGE"} = {}
      <4>1. Topics[1] \notin topics /\ Topics[2] \notin topics
            /\ Topics[3] \notin topics /\ Topics[4] \notin topics
        BY <2>2, <3>1
      <4> QED BY <1>1, <2>1, <3>1, <4>1
    <3>2. ASSUME "CENTRAL_BANK" \in topics,
                 topics \cap {"ETF", "STABLECOIN", "INSOLVENCY", "EXCHANGE"} = {}
          PROVE  first = 5
      <4>1. first <= 5
        BY <1>1, <2>2, <3>2
      <4>2. first # 1 /\ first # 2 /\ first # 3 /\ first # 4
        BY <1>1, <2>1, <3>2
      <4> QED BY <2>1, <4>1, <4>2
    <3> QED BY <3>1, <3>2
  <2> QED BY <2>1, <2>3, <2>4, <2>5, <2>6
<1> QED BY <1>4, <1>5

\* A cluster is as new as its newest headline.
LEMMA ClusterIsNewest ==
    ASSUME NEW items, items # {}, NEW b \in Int, \A i \in items : i.at \in Int /\ i.at <= b
    PROVE  /\ Cluster(items).at \in Int /\ Cluster(items).at <= b
           /\ \A i \in items : i.at <= Cluster(items).at
<1> DEFINE T == {i.at : i \in items}
<1>1. T \in SUBSET Int /\ T # {} /\ \A k \in T : k <= b
  OBVIOUS
<1> HIDE DEF T
<1>2. Max(T) \in T /\ \A k \in T : k <= Max(T)
  BY <1>1, MaxOfBounded
<1>3. Cluster(items).at = Max(T)
  BY ClusterFields DEF T
<1> QED BY <1>1, <1>2, <1>3 DEF T

\* It is as grave as each of its headlines is alone, if no other one obscures that.
LEMMA ClusterIsGravest ==
    ASSUME NEW items, NEW i \in items, Severe(Cluster({i})),
           \/ i.words \cap {"extreme", "high"} # {} \/ Category(i.topics) # "CENTRAL_BANK"
           \/ \A j \in items : j.topics \cap {"STABLECOIN", "INSOLVENCY", "EXCHANGE"} = {}
    PROVE  /\ Severe(Cluster(items))
           /\ Cluster({i}).impact = "EXTREME" => Cluster(items).impact = "EXTREME"
<1> DEFINE words == UNION {j.words : j \in items}
           topics == UNION {j.topics : j \in items}
<1>1. /\ UNION {j.words : j \in {i}} = i.words
      /\ UNION {j.topics : j \in {i}} = i.topics
  OBVIOUS
<1>2. Cluster({i}).impact = Volatility(i.words, Category(i.topics))
  BY <1>1, ClusterFields
<1>3. Cluster(items).impact = Volatility(words, Category(topics))
  BY ClusterFields
<1>4. i.words \subseteq words /\ i.topics \subseteq topics
  OBVIOUS
<1>5. \A topic \in topics : \E j \in items : topic \in j.topics
  OBVIOUS
<1> HIDE DEF words, topics
<1>6. /\ Cluster({i}).impact = "EXTREME" => "extreme" \in i.words
      /\ \/ "extreme" \in i.words \/ "high" \in i.words
         \/ Category(i.topics) = "ETF"
         \/ Category(i.topics) = "CENTRAL_BANK" /\ "rate" \in i.words
  BY <1>2 DEF Severe, Volatility
<1>7. CASE "extreme" \in i.words
  <2>1. Cluster(items).impact = "EXTREME"
    BY <1>3, <1>4, <1>7 DEF Volatility
  <2> QED BY <2>1 DEF Severe
<1>8. CASE "extreme" \notin i.words /\ ("high" \in i.words \/ Category(i.topics) = "ETF")
  <2>1. "high" \in words \/ Category(topics) = "ETF"
    BY <1>4, <1>8, FirstTopic
  <2>2. Cluster(items).impact \in {"HIGH", "EXTREME"}
    BY <1>3, <2>1 DEF Volatility
  <2> QED BY <1>6, <1>8, <2>2 DEF Severe
<1>9. CASE /\ i.words \cap {"extreme", "high"} = {}
           /\ Category(i.topics) = "CENTRAL_BANK" /\ "rate" \in i.words
  <2>1. "CENTRAL_BANK" \in topics /\ "rate" \in words
    BY <1>4, <1>9, FirstTopic
  <2>2. topics \cap {"STABLECOIN", "INSOLVENCY", "EXCHANGE"} = {}
    <3>1. \A j \in items : j.topics \cap {"STABLECOIN", "INSOLVENCY", "EXCHANGE"} = {}
      BY <1>9
    <3> QED BY <1>5, <3>1
  <2>3. CASE "ETF" \in topics
    <3>1. Category(topics) = "ETF"
      BY <2>3, FirstTopic
    <3>2. Cluster(items).impact \in {"HIGH", "EXTREME"}
      BY <1>3, <3>1 DEF Volatility
    <3> QED BY <1>6, <1>9, <3>2 DEF Severe
  <2>4. CASE "ETF" \notin topics
    <3>1. topics \cap {"ETF", "STABLECOIN", "INSOLVENCY", "EXCHANGE"} = {}
      BY <2>2, <2>4
    <3>2. Category(topics) = "CENTRAL_BANK"
      BY <2>1, <3>1, FirstTopic
    <3>3. Cluster(items).impact \in {"HIGH", "EXTREME"}
      BY <1>3, <2>1, <3>2 DEF Volatility
    <3> QED BY <1>6, <1>9, <3>3 DEF Severe
  <2> QED BY <2>3, <2>4
<1> QED BY <1>6, <1>7, <1>8, <1>9

\* Every block ends later, at a time that is known.
LEMMA BlocksEndLater ==
    ASSUME NEW items, NEW scheduled, NEW now \in Int,
           \A i \in items : i.at \in Int, \A e \in scheduled : e.at \in Int,
           BlockEnds(items, scheduled, now) # {}
    PROVE  /\ Max(BlockEnds(items, scheduled, now)) \in Int
           /\ Max(BlockEnds(items, scheduled, now)) > now
<1> DEFINE T == BlockEnds(items, scheduled, now)
           bound == now + ClockSkew + ExtremePre + ExtremePost + ExtremeWait
<1>1. bound \in Int
  BY PolicyAssumption
<1>2. ASSUME NEW k \in T PROVE k \in Int /\ k > now /\ k <= bound
  <2>1. CASE \E e \in ActiveScheduled(scheduled, now) : k = e.at + Post(e)
    <3>1. PICK e \in scheduled : /\ k = e.at + Post(e)
                                 /\ e.at - Pre(e) <= now /\ now < e.at + Post(e)
      BY <2>1 DEF ActiveScheduled
    <3>2. Post(e) \in Nat /\ Post(e) <= ExtremePost /\ Pre(e) \in Nat /\ Pre(e) <= ExtremePre
      BY PolicyAssumption DEF Pre, Post
    <3>3. e.at \in Int
      OBVIOUS
    <3> QED BY <3>1, <3>2, <3>3, PolicyAssumption
  <2>2. CASE \E e \in Confirmed(items, now) : k = e.at + Wait(e) /\ now < e.at + Wait(e)
    <3>1. PICK e \in Events(Usable(items, now)) : k = e.at + Wait(e) /\ now < e.at + Wait(e)
      BY <2>2 DEF Confirmed
    <3>2. PICK i \in Usable(items, now) :
                e = Cluster({j \in Usable(items, now) : j.story = i.story})
      BY <3>1 DEF Events
    <3> DEFINE told == {j \in Usable(items, now) : j.story = i.story}
    <3>3. told # {} /\ \A j \in told : j.at \in Int /\ j.at <= now + ClockSkew
      BY DEF Usable
    <3>4. now + ClockSkew \in Int
      BY PolicyAssumption
    <3>5. e = Cluster(told)
      BY <3>2
    <3> HIDE DEF told
    <3>6. e.at \in Int /\ e.at <= now + ClockSkew
      BY <3>3, <3>4, <3>5, ClusterIsNewest
    <3>7. Wait(e) \in Nat /\ Wait(e) <= ExtremeWait
      BY PolicyAssumption DEF Wait
    <3> QED BY <3>1, <3>6, <3>7, PolicyAssumption
  <2>3. CASE k = now + HighWait
    BY <2>3, PolicyAssumption
  <2> QED BY <2>1, <2>2, <2>3 DEF BlockEnds
<1>3. T \in SUBSET Int /\ T # {} /\ \A k \in T : k <= bound
  BY <1>2
<1> HIDE DEF T, bound
<1>4. Max(T) \in T
  BY <1>1, <1>3, MaxOfBounded
<1> QED BY <1>2, <1>4 DEF T

\* A required issue or a block that has not ended is a BLOCK, until the last one ends.
LEMMA AssessmentFields ==
    ASSUME NEW items, NEW scheduled, NEW issues, NEW now
    PROVE  /\ (\E i \in issues : i.required) \/ BlockEnds(items, scheduled, now) # {}
              => Assessment(items, scheduled, issues, now).decision = "BLOCK"
           /\ Assessment(items, scheduled, issues, now).until
              = IF BlockEnds(items, scheduled, now) = {} THEN Never
                ELSE Max(BlockEnds(items, scheduled, now))
BY DEF Assessment

\* Only the usable headlines and the active events matter.
LEMMA AssessedAlike ==
    ASSUME NEW items, NEW others, NEW scheduled, NEW events, NEW issues, NEW now,
           Usable(items, now) = Usable(others, now),
           ActiveScheduled(scheduled, now) = ActiveScheduled(events, now)
    PROVE  Assessment(items, scheduled, issues, now) = Assessment(others, events, issues, now)
BY DEF Assessment, BlockEnds, Confirmed

----------------------------------------------------------------------------
(* A point of the timeline, its gaps, and the properties of the timeline. *)

\* What a published archive holds.
LEMMA EvidenceFacts ==
    ASSUME Vouched
    PROVE  /\ evidence.news = headlines /\ evidence.scheduled = ScheduledRecords(sections)
           /\ evidence.gaps = CoalesceGaps(EdgeGaps \cup UNION {SectionGap(m, sections[m]) : m \in Months})
           /\ \A i \in evidence.news : /\ i.source \in NewsSource /\ i.official
                                       /\ i.at \in Int /\ i.observed = i.at
           /\ \A r \in evidence.scheduled : /\ r.source = "bls" /\ r.at \in Int
                                            /\ r.observed \in Int
           /\ \A g \in evidence.gaps : g.source \in NewsSource \cup {"bls"}
<1>1. /\ evidence.news = headlines /\ evidence.scheduled = ScheduledRecords(sections)
      /\ evidence.gaps = CoalesceGaps(EdgeGaps \cup UNION {SectionGap(m, sections[m]) : m \in Months})
  BY DEF Vouched, Gathered
<1>2. /\ sections \in [Months -> Schedules] /\ headlines \in Headlines
  BY DEF Vouched, Fetched
<1>3. \A i \in evidence.news : /\ i.source \in NewsSource /\ i.official
                               /\ i.at \in Int /\ i.observed = i.at
  BY <1>1, <1>2, PagesAssumption
<1>4. ASSUME NEW r \in evidence.scheduled
      PROVE  r.source = "bls" /\ r.at \in Int /\ r.observed \in Int
  <2>1. PICK m \in Months : \E e \in sections[m].events :
            r = [source |-> "bls", at |-> e.at, impact |-> e.impact,
                 observed |-> KnownSince(sections[m])]
    BY <1>1 DEF ScheduledRecords
  <2>5. PICK e \in sections[m].events :
            r = [source |-> "bls", at |-> e.at, impact |-> e.impact,
                 observed |-> KnownSince(sections[m])]
    BY <2>1
  <2>2. sections[m] \in Schedules
    BY <1>2
  <2>3. e.at \in Int /\ sections[m].modified \in Int
    BY <2>2, PagesAssumption
  <2>4. KnownSince(sections[m]) \in Int
    BY <2>3, CalendarAssumption DEF KnownSince
  <2> QED BY <2>5, <2>3, <2>4
<1>5. \A g \in evidence.gaps : g.source \in NewsSource \cup {"bls"}
  BY DEF Vouched, EvidenceAccepted
<1> QED BY <1>1, <1>3, <1>4, <1>5

\* The window of the derivation is the longer of the two policies'.
LEMMA WidestWindow ==
    /\ Max({ExtremePre, ExtremePost}) \in Nat
    /\ ExtremePre <= Max({ExtremePre, ExtremePost}) /\ ExtremePost <= Max({ExtremePre, ExtremePost})
<1> DEFINE T == {ExtremePre, ExtremePost}
<1>1. ExtremePre \in Nat /\ ExtremePost \in Nat
  BY PolicyAssumption
<1>2. T \in SUBSET Int /\ T # {} /\ ExtremePre + ExtremePost \in Int
      /\ \A k \in T : k <= ExtremePre + ExtremePost
  BY <1>1
<1>3. ExtremePre \in T /\ ExtremePost \in T /\ T \subseteq Nat
  BY <1>1
<1> HIDE DEF T
<1>4. Max(T) \in T /\ \A k \in T : k <= Max(T)
  BY <1>2, MaxOfBounded
<1>5. Max(T) \in Nat /\ ExtremePre <= Max(T) /\ ExtremePost <= Max(T)
  BY <1>3, <1>4
<1> QED BY <1>5 DEF T

\* An event blocks within its windows, and no event's are wider than the extreme ones.
LEMMA WindowsAreExtreme ==
    ASSUME NEW e
    PROVE  /\ Pre(e) \in Nat /\ Pre(e) <= ExtremePre
           /\ Post(e) \in Nat /\ Post(e) <= ExtremePost
BY PolicyAssumption DEF Pre, Post

\* Looking through the windows hides nothing from the engine.
LEMMA WindowsHideNothing ==
    ASSUME Vouched, NEW c \in Int
    PROVE  /\ Usable(VisibleNews(evidence, c), c)
              = Usable({i \in evidence.news : i.observed <= c}, c)
           /\ ActiveScheduled(VisibleScheduled(evidence, c), c)
              = ActiveScheduled({r \in evidence.scheduled : r.observed <= c}, c)
<1>1. /\ \A i \in evidence.news : i.at \in Int /\ i.observed = i.at
      /\ \A r \in evidence.scheduled : r.at \in Int /\ r.observed \in Int
  BY EvidenceFacts
<1>2. Usable(VisibleNews(evidence, c), c) = Usable({i \in evidence.news : i.observed <= c}, c)
  BY <1>1 DEF Usable, VisibleNews
<1> DEFINE window == Max({ExtremePre, ExtremePost})
<1>3. window \in Nat /\ ExtremePre <= window /\ ExtremePost <= window
  BY WidestWindow
<1>4. VisibleScheduled(evidence, c)
      = {r \in evidence.scheduled : r.observed <= c /\ c - window <= r.at /\ r.at <= c + window}
  BY DEF VisibleScheduled
<1> HIDE DEF window
<1>5. ASSUME NEW r \in evidence.scheduled, r.at - Pre(r) <= c, c < r.at + Post(r)
      PROVE  c - window <= r.at /\ r.at <= c + window
  BY <1>1, <1>3, <1>5, WindowsAreExtreme, PolicyAssumption
<1>6. ActiveScheduled(VisibleScheduled(evidence, c), c)
      = ActiveScheduled({r \in evidence.scheduled : r.observed <= c}, c)
  BY <1>4, <1>5 DEF ActiveScheduled
<1> QED BY <1>2, <1>6

\* The fields of a point.
LEMMA PointFields ==
    ASSUME NEW e, NEW c
    PROVE  /\ Point(e, c).at = c /\ Point(e, c).issues = IssuesAt(e, c)
           /\ Point(e, c).decision
              = Assessment(VisibleNews(e, c), VisibleScheduled(e, c), IssuesAt(e, c), c).decision
           /\ Point(e, c).until
              = Assessment(VisibleNews(e, c), VisibleScheduled(e, c), IssuesAt(e, c), c).until
           /\ Point(e, c).sources = {r.source : r \in VisibleNews(e, c)}
                                   \cup {r.source : r \in VisibleScheduled(e, c)}
           /\ Point(e, c).observed = {r.observed : r \in VisibleNews(e, c)}
                                    \cup {r.observed : r \in VisibleScheduled(e, c)}
BY DEF Point

\* For every calendar, page and headline: a decision of the timeline is the one the
\* engine would have made then, from all that was evidenced by the boundary.
THEOREM DecisionsAreOfThen == RiskSpec => []DecidedAsOfThen
<1>1. RiskInv => DecidedAsOfThen
  <2> SUFFICES ASSUME RiskInv, NEW n \in DOMAIN draftPoints
               PROVE  LET c == n - 1
                          then == Assessment({i \in evidence.news : i.observed <= c},
                                             {r \in evidence.scheduled : r.observed <= c},
                                             IssuesAt(evidence, c), c)
                      IN  /\ draftPoints[n].decision = then.decision
                          /\ draftPoints[n].until = then.until
    BY Zenon DEF DecidedAsOfThen
  <2>1. Vouched /\ draftPoints = Drafted
    BY DEF RiskInv
  <2>2. n \in 1..CoverageEnd /\ draftPoints[n] = Point(evidence, n - 1)
    BY <2>1 DEF Drafted
  <2> DEFINE c == n - 1
  <2>3. c \in Int
    BY <2>2, CalendarFacts
  <2>4. draftPoints[n] = Point(evidence, c)
    BY <2>2
  <2> HIDE DEF c
  <2>5. Assessment(VisibleNews(evidence, c), VisibleScheduled(evidence, c), IssuesAt(evidence, c), c)
        = Assessment({i \in evidence.news : i.observed <= c},
                     {r \in evidence.scheduled : r.observed <= c}, IssuesAt(evidence, c), c)
    BY <2>1, <2>3, WindowsHideNothing, AssessedAlike
  <2>6. /\ draftPoints[n].decision
           = Assessment({i \in evidence.news : i.observed <= c},
                        {r \in evidence.scheduled : r.observed <= c}, IssuesAt(evidence, c), c).decision
        /\ draftPoints[n].until
           = Assessment({i \in evidence.news : i.observed <= c},
                        {r \in evidence.scheduled : r.observed <= c}, IssuesAt(evidence, c), c).until
    BY <2>4, <2>5, PointFields
  <2> QED BY <2>6, Zenon DEF c
<1> QED BY <1>1, RiskInvHolds, PTL

\* Every point the builder drafts is one the importer takes.
LEMMA PointTaken ==
    ASSUME Vouched, NEW c \in Int
    PROVE  PointAccepted(Point(evidence, c), c)
<1> DEFINE p == Point(evidence, c)
           news == VisibleNews(evidence, c)
           scheduled == VisibleScheduled(evidence, c)
           issues == IssuesAt(evidence, c)
<1>1. /\ \A i \in news : i.source \in NewsSource /\ i.at \in Int /\ i.observed <= c
      /\ \A r \in scheduled : r.source = "bls" /\ r.at \in Int /\ r.observed <= c
  BY EvidenceFacts DEF VisibleNews, VisibleScheduled
<1>2. \A i \in issues : i.source \in NewsSource \cup {"bls"} /\ i.required
  BY EvidenceFacts DEF IssuesAt
<1>3. /\ p.at = c /\ p.issues = issues
      /\ p.decision = Assessment(news, scheduled, issues, c).decision
      /\ p.until = Assessment(news, scheduled, issues, c).until
      /\ p.sources = {r.source : r \in news} \cup {r.source : r \in scheduled}
      /\ p.observed = {r.observed : r \in news} \cup {r.observed : r \in scheduled}
  BY PointFields
<1> HIDE DEF p, news, scheduled, issues
<1>4. /\ BlockEnds(news, scheduled, c) # {} => p.decision = "BLOCK"
      /\ issues # {} => p.decision = "BLOCK"
  BY <1>2, <1>3, AssessmentFields
<1>5. p.until # Never => BlockEnds(news, scheduled, c) # {} /\ p.until > c
  <2> SUFFICES ASSUME p.until # Never
               PROVE  BlockEnds(news, scheduled, c) # {} /\ p.until > c
    OBVIOUS
  <2>1. BlockEnds(news, scheduled, c) # {} /\ p.until = Max(BlockEnds(news, scheduled, c))
    BY <1>3, AssessmentFields
  <2> QED BY <1>1, <2>1, BlocksEndLater
<1>6. p.sources \subseteq NewsSource \cup {"bls"} /\ \A o \in p.observed : o <= c
  BY <1>1, <1>3
<1>7. PointAccepted(p, c)
  BY <1>2, <1>3, <1>4, <1>5, <1>6 DEF PointAccepted
<1> QED BY <1>7 DEF p

\* For every calendar, page and headline the loader lets through, the importer takes
\* the timeline derived from it.
THEOREM DraftsAreImportable == RiskSpec => []DerivedIsImportable
<1>1. RiskInv => DerivedIsImportable
  <2> SUFFICES ASSUME RiskInv, riskStage = "import" PROVE ImportAccepted(draftPoints)
    BY DEF DerivedIsImportable
  <2>1. Vouched /\ draftPoints = Drafted
    BY DEF RiskInv
  <2>2. CoverageEnd \in Nat
    BY CalendarFacts
  <2>3. Len(draftPoints) = CoverageEnd /\ DOMAIN draftPoints = 1..CoverageEnd
    BY <2>1, <2>2 DEF Drafted
  <2>4. ASSUME NEW n \in 1..CoverageEnd PROVE PointAccepted(draftPoints[n], n - 1)
    <3>1. n - 1 \in Int /\ draftPoints[n] = Point(evidence, n - 1)
      BY <2>1, <2>2 DEF Drafted
    <3> QED BY <2>1, <3>1, PointTaken, Zenon
  <2> QED BY <2>3, <2>4 DEF ImportAccepted
<1> QED BY <1>1, RiskInvHolds, PTL

\* Joining gaps loses no boundary.
LEMMA JoinedStaysUncovered ==
    ASSUME NEW gaps, NEW s, NEW c \in Boundary, Uncovered(gaps, s, c),
           \A g \in gaps : /\ g.start \in Nat /\ g.end \in Nat /\ g.end <= CoverageEnd
    PROVE  \E g \in CoalesceGaps(gaps) : g.start <= c /\ c < g.end
<1>1. CoverageEnd \in Nat /\ c \in Nat /\ c < CoverageEnd
  BY CalendarFacts DEF Boundary
<1>2. PICK h \in gaps : h.source = s /\ h.start <= c /\ c < h.end
  BY DEF Uncovered
<1>3. /\ \A t \in Int : Uncovered(gaps, s, t) => t \in Nat /\ t < CoverageEnd
  BY <1>1 DEF Uncovered
  \* The run that holds c begins after the last covered boundary before it.
<1> DEFINE Starts == {a \in Nat : a <= c /\ \A t \in a..c : Uncovered(gaps, s, t)}
<1>4. c \in Starts
  <2>1. c <= c /\ \A t \in c..c : t = c
    BY <1>1
  <2> QED BY <1>1, <2>1
<1>5. PICK a \in Starts : \A k \in Starts : a <= k
  <2>1. Starts \in SUBSET Nat /\ Starts # {}
    BY <1>4
  <2> HIDE DEF Starts
  <2> QED BY <2>1, LeastNumber
<1>6. a \in Nat /\ a <= c /\ \A t \in a..c : Uncovered(gaps, s, t)
  BY <1>5
<1>7. ~Uncovered(gaps, s, a - 1)
  <2> SUFFICES ASSUME Uncovered(gaps, s, a - 1) PROVE FALSE
    OBVIOUS
  <2>1. a - 1 \in Nat
    BY <1>3, <1>6
  <2>2. ASSUME NEW t \in (a - 1)..c PROVE Uncovered(gaps, s, t)
    <3>1. t = a - 1 \/ t \in a..c
      BY <1>6, <1>1
    <3> QED BY <1>6, <3>1
  <2>3. a - 1 \in Starts
    BY <1>6, <2>1, <2>2, <1>1
  <2>4. a <= a - 1
    BY <1>5, <2>3
  <2> QED BY <1>6, <2>4
  \* It ends at the first covered one.
<1> DEFINE Ends == {b \in Nat : c < b /\ ~Uncovered(gaps, s, b)}
<1>8. CoverageEnd \in Ends
  BY <1>1, <1>3
<1>9. PICK b \in Ends : \A k \in Ends : b <= k
  <2>1. Ends \in SUBSET Nat /\ Ends # {}
    BY <1>8
  <2> HIDE DEF Ends
  <2> QED BY <2>1, LeastNumber
<1>10. b \in Nat /\ c < b /\ ~Uncovered(gaps, s, b) /\ b <= CoverageEnd
  BY <1>8, <1>9
<1>11. ASSUME NEW t \in a..(b - 1) PROVE Uncovered(gaps, s, t)
  <2>1. CASE t <= c
    BY <1>6, <1>1, <1>10, <2>1
  <2>2. CASE t > c
    <3>1. t \in Nat /\ ~(b <= t)
      BY <1>6, <1>10
    <3>2. t \notin Ends
      BY <1>9, <3>1
    <3> QED BY <2>2, <3>1, <3>2
  <2> QED BY <1>6, <1>1, <1>10, <2>1, <2>2
<1> DEFINE run == [source |-> s, start |-> a, end |-> b]
<1>12. run \in [source : {g.source : g \in gaps}, start : Boundary, end : 1..CoverageEnd]
  <2>1. s \in {g.source : g \in gaps}
    BY <1>2
  <2>2. a \in Boundary /\ b \in 1..CoverageEnd
    BY <1>1, <1>6, <1>10 DEF Boundary
  <2> QED BY <2>1, <2>2
<1>13. run.source = s /\ run.start = a /\ run.end = b
  OBVIOUS
<1> HIDE DEF run, Starts, Ends
<1>14. run \in CoalesceGaps(gaps)
  BY <1>1, <1>6, <1>7, <1>10, <1>11, <1>12, <1>13 DEF CoalesceGaps
<1> QED BY <1>6, <1>10, <1>13, <1>14

\* The gaps of the edges and of the months lie in the archive.
LEMMA GapsInArchive ==
    ASSUME Vouched
    PROVE  \A g \in EdgeGaps \cup UNION {SectionGap(m, sections[m]) : m \in Months} :
                g.start \in Nat /\ g.end \in Nat /\ g.end <= CoverageEnd
<1>1. CoverageEnd \in Nat
  BY CalendarFacts
<1>2. {Lookback, ExtremePre, ExtremePost} \subseteq Nat
  BY PolicyAssumption
<1>3. ASSUME NEW x \in Nat PROVE LesserOf(x, CoverageEnd) \in Nat /\ LesserOf(x, CoverageEnd) <= CoverageEnd
  BY <1>1 DEF LesserOf
<1>4. ASSUME NEW g \in EdgeGaps PROVE g.start \in Nat /\ g.end \in Nat /\ g.end <= CoverageEnd
  BY <1>1, <1>2, <1>3 DEF EdgeGaps, Gap
<1>5. ASSUME NEW m \in Months, NEW g \in SectionGap(m, sections[m])
      PROVE  g.start \in Nat /\ g.end \in Nat /\ g.end <= CoverageEnd
  <2>1. /\ KnownSince(sections[m]) > Calendar[m]
        /\ g = Gap("bls", Calendar[m], LesserOf(KnownSince(sections[m]), Calendar[m + 1]))
    BY DEF SectionGap
  <2>2. g.start = Calendar[m] /\ g.end = LesserOf(KnownSince(sections[m]), Calendar[m + 1])
    BY <2>1 DEF Gap
  <2>3. KnownSince(sections[m]) \in Int
    BY PagesAssumption, CalendarAssumption DEF Vouched, Fetched, KnownSince
  <2> QED BY <1>1, <2>1, <2>2, <2>3, CalendarFacts DEF LesserOf
<1> QED BY <1>4, <1>5

\* A boundary a gap holds is blocked.
LEMMA GapBlocks ==
    ASSUME Vouched, NEW c \in Boundary, NEW s,
           Uncovered(EdgeGaps \cup UNION {SectionGap(m, sections[m]) : m \in Months}, s, c)
    PROVE  Point(evidence, c).decision = "BLOCK"
<1>1. PICK g \in evidence.gaps : g.start <= c /\ c < g.end
  BY GapsInArchive, JoinedStaysUncovered, EvidenceFacts
<1>2. [source |-> g.source, required |-> TRUE] \in IssuesAt(evidence, c)
  BY <1>1 DEF IssuesAt
<1>3. \E i \in IssuesAt(evidence, c) : i.required
  BY <1>2
<1> QED BY <1>3, PointFields, AssessmentFields

\* Within the window of a release, known or not yet evidenced.
LEMMA ReleaseBlocks ==
    ASSUME Vouched, NEW c \in Boundary, NEW m \in Months, NEW e \in sections[m].events,
           Severe(e), e.at - Pre(e) >= Calendar[m], e.at + Post(e) <= Calendar[m + 1],
           e.at - Pre(e) <= c, c < e.at + Post(e)
    PROVE  Point(evidence, c).decision = "BLOCK"
<1> DEFINE known == KnownSince(sections[m])
<1>1. c \in Int /\ Calendar[m] \in Nat /\ Calendar[m + 1] \in Nat
  BY CalendarFacts DEF Boundary
<1>2. e.at \in Int /\ known \in Int
  BY PagesAssumption, CalendarAssumption DEF Vouched, Fetched, KnownSince
<1>3. /\ Pre(e) \in Nat /\ Pre(e) <= ExtremePre
      /\ Post(e) \in Nat /\ Post(e) <= ExtremePost
  BY WindowsAreExtreme
<1>4. CASE known > c
  <2>1. known > Calendar[m] /\ Calendar[m] <= c /\ c < LesserOf(known, Calendar[m + 1])
    BY <1>1, <1>2, <1>3, <1>4 DEF LesserOf
  <2>2. Gap("bls", Calendar[m], LesserOf(known, Calendar[m + 1])) \in SectionGap(m, sections[m])
    BY <2>1 DEF SectionGap
  <2>3. Uncovered(UNION {SectionGap(k, sections[k]) : k \in Months}, "bls", c)
    BY <2>1, <2>2 DEF Uncovered, Gap
  <2>4. Uncovered(EdgeGaps \cup UNION {SectionGap(k, sections[k]) : k \in Months}, "bls", c)
    BY <2>3 DEF Uncovered
  <2> QED BY <2>4, GapBlocks
<1>5. CASE known <= c
  <2> DEFINE r == [source |-> "bls", at |-> e.at, impact |-> e.impact, observed |-> known]
  <2>1. r \in evidence.scheduled
    BY EvidenceFacts DEF ScheduledRecords
  <2>2. r.at = e.at /\ r.impact = e.impact /\ r.observed = known
    OBVIOUS
  <2> HIDE DEF r
  <2>3. Severe(r) /\ Pre(r) = Pre(e) /\ Post(r) = Post(e)
    BY <2>2 DEF Severe, Pre, Post
  <2>4. r \in ActiveScheduled({q \in evidence.scheduled : q.observed <= c}, c)
    BY <1>5, <2>1, <2>2, <2>3 DEF ActiveScheduled
  <2>5. r \in ActiveScheduled(VisibleScheduled(evidence, c), c)
    BY <1>1, <2>4, WindowsHideNothing
  <2>6. BlockEnds(VisibleNews(evidence, c), VisibleScheduled(evidence, c), c) # {}
    BY <2>5 DEF BlockEnds
  <2> QED BY <2>6, PointFields, AssessmentFields
<1> QED BY <1>1, <1>2, <1>4, <1>5

\* In the wait after grave news that nothing obscures.
LEMMA HeadlineBlocks ==
    ASSUME Vouched, NEW c \in Boundary, NEW i \in headlines, AsksToWait(i, c), ~Obscured(i, c)
    PROVE  Point(evidence, c).decision = "BLOCK"
<1> DEFINE usable == Usable(VisibleNews(evidence, c), c)
           told == {j \in usable : j.story = i.story}
           alone == Cluster({i})
<1>0. i.relevant /\ Severe(alone) /\ i.at <= c /\ c < i.at + Wait(alone)
  BY DEF AsksToWait
<1>1. c \in Int
  BY CalendarFacts DEF Boundary
<1>2. /\ i \in evidence.news
      /\ \A j \in evidence.news : j.official /\ j.at \in Int /\ j.observed = j.at
  BY EvidenceFacts
<1>3. Wait(alone) \in Nat /\ Wait(alone) <= Lookback /\ {Lookback, ClockSkew} \subseteq Nat
  BY PolicyAssumption DEF Wait
<1>4. i \in told
  BY <1>0, <1>1, <1>2, <1>3 DEF Usable, VisibleNews
<1>5. \A j \in told : j.official /\ j.at \in Int /\ j.at <= c
  BY <1>2 DEF Usable, VisibleNews
<1>6. Cluster(told) \in Events(usable)
  BY <1>4 DEF Events
<1>14. \/ i.words \cap {"extreme", "high"} # {} \/ Category(i.topics) # "CENTRAL_BANK"
       \/ \A j \in told : j.topics \cap {"STABLECOIN", "INSOLVENCY", "EXCHANGE"} = {}
  BY DEF Obscured
<1> HIDE DEF told, alone
<1>7. Cluster(told).at \in Int /\ i.at <= Cluster(told).at
  BY <1>1, <1>4, <1>5, ClusterIsNewest
<1>8. Cluster(told).confirmed
  BY <1>4, <1>5, ClusterFields
<1>9. /\ Severe(Cluster(told))
      /\ alone.impact = "EXTREME" => Cluster(told).impact = "EXTREME"
  BY <1>0, <1>4, <1>14, ClusterIsGravest DEF alone
<1>10. Wait(alone) <= Wait(Cluster(told)) /\ Wait(Cluster(told)) \in Nat
  BY <1>9, PolicyAssumption DEF Wait
<1>11. c < Cluster(told).at + Wait(Cluster(told))
  BY <1>0, <1>1, <1>2, <1>3, <1>7, <1>10
<1>12. Cluster(told) \in Confirmed(VisibleNews(evidence, c), c)
  BY <1>6, <1>8, <1>9 DEF Confirmed
<1>13. BlockEnds(VisibleNews(evidence, c), VisibleScheduled(evidence, c), c) # {}
  BY <1>11, <1>12 DEF BlockEnds
<1> QED BY <1>13, PointFields, AssessmentFields

\* For every calendar, page and headline, no boundary is open within the risk window
\* of a release, known then or only doubted, or in the wait after grave news that is
\* not a rate decision obscured by another report of its story.
THEOREM RiskIsNeverSilent == RiskSpec => []RiskNeverSilent
<1>1. RiskInv => RiskNeverSilent
  <2> SUFFICES ASSUME RiskInv, NEW n \in DOMAIN riskStore
               PROVE  LET c == n - 1
                      IN  /\ ReleaseNeverSilent(c)
                          /\ \A i \in headlines :
                                AsksToWait(i, c) /\ ~Obscured(i, c)
                                => AssessmentAt(c).decision = "BLOCK"
    BY Zenon DEF RiskNeverSilent
  <2>1. Vouched /\ riskStore = Drafted
    BY DEF RiskInv
  <2>2. n \in 1..CoverageEnd /\ CoverageEnd \in Nat
    BY <2>1, CalendarFacts DEF Drafted
  <2> DEFINE c == n - 1
  <2>3. c \in Boundary /\ c + 1 = n
    BY <2>2 DEF Boundary
  <2>4. AssessmentAt(c) = Point(evidence, c)
    BY <2>1, <2>2, <2>3 DEF AssessmentAt, Drafted
  <2> HIDE DEF c
  <2>5. ASSUME NEW m \in Months, NEW e \in sections[m].events,
               Severe(e), e.at - Pre(e) >= Calendar[m], e.at + Post(e) <= Calendar[m + 1],
               e.at - Pre(e) <= c, c < e.at + Post(e)
        PROVE  AssessmentAt(c).decision = "BLOCK"
    BY <2>1, <2>3, <2>4, <2>5, ReleaseBlocks
  <2>6. ASSUME NEW i \in headlines, AsksToWait(i, c), ~Obscured(i, c)
        PROVE  AssessmentAt(c).decision = "BLOCK"
    BY <2>1, <2>3, <2>4, <2>6, HeadlineBlocks
  <2>7. ReleaseNeverSilent(c)
    BY <2>5, Zenon DEF ReleaseNeverSilent
  <2> QED BY <2>6, <2>7, Zenon DEF c
<1> QED BY <1>1, RiskInvHolds, PTL

----------------------------------------------------------------------------
(* The archive builder's scan, and the loader's. *)

IsScan(f, m, data, k) ==
    f = [n \in 0..k |-> IF n = 0 THEN ScanStart(m) ELSE InspectRow(f[n - 1], n, data[n])]

IsRead(f, r, data, k) ==
    f = [n \in 0..k |-> IF n = 0 THEN LoadStart(r) ELSE LoadRow(r, f[n - 1], n, data[n])]

LEMMA ScanExists ==
    ASSUME NEW m, NEW data, NEW k \in Nat
    PROVE  \E f : IsScan(f, m, data, k)
<1> DEFINE T == {j \in Nat : ~\E f : IsScan(f, m, data, j)}
<1> SUFFICES ASSUME k \in T PROVE FALSE
  OBVIOUS
<1>1. PICK e \in T : \A j \in T : e <= j
  BY LeastNumber
<1>2. CASE e = 0
  <2> DEFINE f == [n \in 0..0 |-> ScanStart(m)]
  <2>1. f = [n \in 0..0 |-> IF n = 0 THEN ScanStart(m) ELSE InspectRow(f[n - 1], n, data[n])]
    OBVIOUS
  <2>2. IsScan(f, m, data, e)
    BY <1>2, <2>1 DEF IsScan
  <2> QED BY <2>2
<1>3. CASE e # 0
  <2> DEFINE step(x, n) == InspectRow(x, n, data[n])
  <2>0. e \in Nat /\ e - 1 \in Nat
    BY <1>1, <1>3
  <2>1. e - 1 \notin T
    BY <1>1, <2>0
  <2>2. PICK f : IsScan(f, m, data, e - 1)
    BY <2>0, <2>1, Zenon
  <2> DEFINE g == [n \in 0..e |-> IF n = 0 THEN ScanStart(m) ELSE step(f[n - 1], n)]
  <2>3. f = [n \in 0..(e - 1) |-> IF n = 0 THEN ScanStart(m) ELSE step(f[n - 1], n)]
    BY <2>2 DEF IsScan
  <2> HIDE DEF step
  <2>4. \A n \in 1..e : g[n - 1] = f[n - 1]
    BY <2>0, <2>3
  <2>5. g = [n \in 0..e |-> IF n = 0 THEN ScanStart(m) ELSE step(g[n - 1], n)]
    <3> DEFINE x == g
    <3>1. \A n \in 1..e : x[n - 1] = f[n - 1]
      BY <2>4
    <3> HIDE DEF x
    <3>2. g = [n \in 0..e |-> IF n = 0 THEN ScanStart(m) ELSE step(x[n - 1], n)]
      BY <3>1, <2>0
    <3> QED BY <3>2 DEF x
  <2> HIDE DEF g
  <2>6. IsScan(g, m, data, e)
    BY <2>5, Zenon DEF IsScan, step
  <2> QED BY <1>1, <2>6, Zenon
<1> QED BY <1>2, <1>3

LEMMA ReadExists ==
    ASSUME NEW r, NEW data, NEW k \in Nat
    PROVE  \E f : IsRead(f, r, data, k)
<1> DEFINE T == {j \in Nat : ~\E f : IsRead(f, r, data, j)}
<1> SUFFICES ASSUME k \in T PROVE FALSE
  OBVIOUS
<1>1. PICK e \in T : \A j \in T : e <= j
  BY LeastNumber
<1>2. CASE e = 0
  <2> DEFINE f == [n \in 0..0 |-> LoadStart(r)]
  <2>1. f = [n \in 0..0 |-> IF n = 0 THEN LoadStart(r) ELSE LoadRow(r, f[n - 1], n, data[n])]
    OBVIOUS
  <2>2. IsRead(f, r, data, e)
    BY <1>2, <2>1 DEF IsRead
  <2> QED BY <2>2
<1>3. CASE e # 0
  <2> DEFINE step(x, n) == LoadRow(r, x, n, data[n])
  <2>0. e \in Nat /\ e - 1 \in Nat
    BY <1>1, <1>3
  <2>1. e - 1 \notin T
    BY <1>1, <2>0
  <2>2. PICK f : IsRead(f, r, data, e - 1)
    BY <2>0, <2>1, Zenon
  <2> DEFINE g == [n \in 0..e |-> IF n = 0 THEN LoadStart(r) ELSE step(f[n - 1], n)]
  <2>3. f = [n \in 0..(e - 1) |-> IF n = 0 THEN LoadStart(r) ELSE step(f[n - 1], n)]
    BY <2>2 DEF IsRead
  <2> HIDE DEF step
  <2>4. \A n \in 1..e : g[n - 1] = f[n - 1]
    BY <2>0, <2>3
  <2>5. g = [n \in 0..e |-> IF n = 0 THEN LoadStart(r) ELSE step(g[n - 1], n)]
    <3> DEFINE x == g
    <3>1. \A n \in 1..e : x[n - 1] = f[n - 1]
      BY <2>4
    <3> HIDE DEF x
    <3>2. g = [n \in 0..e |-> IF n = 0 THEN LoadStart(r) ELSE step(x[n - 1], n)]
      BY <3>1, <2>0
    <3> QED BY <3>2 DEF x
  <2> HIDE DEF g
  <2>6. IsRead(g, r, data, e)
    BY <2>5, Zenon DEF IsRead, step
  <2> QED BY <1>1, <2>6, Zenon
<1> QED BY <1>2, <1>3


\* The equations of the scans.
LEMMA ScannedIs ==
    ASSUME NEW m, NEW data, Len(data) \in Nat
    PROVE  \E f : IsScan(f, m, data, Len(data)) /\ Scanned(m, data) = f[Len(data)]
<1> DEFINE f == CHOOSE x : IsScan(x, m, data, Len(data))
<1>1. IsScan(f, m, data, Len(data))
  BY ScanExists, Zenon
<1>2. Scanned(m, data) = f[Len(data)]
  BY Zenon DEF Scanned, IsScan
<1> HIDE DEF f
<1> QED BY <1>1, <1>2, Zenon

LEMMA LoadedIs ==
    ASSUME NEW r, NEW data, Len(data) \in Nat
    PROVE  \E f : /\ IsRead(f, r, data, Len(data))
                  /\ Loaded(r, data) = PassIntervals(f[Len(data)], r.missing, r.end)
<1> DEFINE f == CHOOSE x : IsRead(x, r, data, Len(data))
<1>1. IsRead(f, r, data, Len(data))
  BY ReadExists, Zenon
<1>2. Loaded(r, data) = PassIntervals(f[Len(data)], r.missing, r.end)
  BY Zenon DEF Loaded, IsRead
<1> HIDE DEF f
<1> QED BY <1>1, <1>2, Zenon

LEMMA ScanEquations ==
    ASSUME NEW f, NEW m, NEW data, NEW k \in Nat, IsScan(f, m, data, k)
    PROVE  /\ f[0] = ScanStart(m)
           /\ \A n \in 1..k : f[n] = InspectRow(f[n - 1], n, data[n])
<1> DEFINE step(x, n) == InspectRow(x, n, data[n])
<1>1. f = [n \in 0..k |-> IF n = 0 THEN ScanStart(m) ELSE step(f[n - 1], n)]
  BY DEF IsScan
<1> HIDE DEF step
<1>2. f[0] = ScanStart(m) /\ \A n \in 1..k : f[n] = step(f[n - 1], n)
  <2> DEFINE x == f
  <2> HIDE DEF x
  <2>1. f = [n \in 0..k |-> IF n = 0 THEN ScanStart(m) ELSE step(x[n - 1], n)]
    BY <1>1 DEF x
  <2>2. f[0] = ScanStart(m) /\ \A n \in 1..k : f[n] = step(x[n - 1], n)
    BY <2>1
  <2> QED BY <2>2 DEF x
<1> QED BY <1>2 DEF step

LEMMA ReadEquations ==
    ASSUME NEW f, NEW r, NEW data, NEW k \in Nat, IsRead(f, r, data, k)
    PROVE  /\ f[0] = LoadStart(r)
           /\ \A n \in 1..k : f[n] = LoadRow(r, f[n - 1], n, data[n])
<1> DEFINE step(x, n) == LoadRow(r, x, n, data[n])
<1>1. f = [n \in 0..k |-> IF n = 0 THEN LoadStart(r) ELSE step(f[n - 1], n)]
  BY DEF IsRead
<1> HIDE DEF step
<1>2. f[0] = LoadStart(r) /\ \A n \in 1..k : f[n] = step(f[n - 1], n)
  <2> DEFINE x == f
  <2> HIDE DEF x
  <2>1. f = [n \in 0..k |-> IF n = 0 THEN LoadStart(r) ELSE step(x[n - 1], n)]
    BY <1>1 DEF x
  <2>2. f[0] = LoadStart(r) /\ \A n \in 1..k : f[n] = step(x[n - 1], n)
    BY <2>1
  <2> QED BY <2>2 DEF x
<1> QED BY <1>2 DEF step

----------------------------------------------------------------------------
(* What the loader accepts divides a month. *)

LoadState == [ok : BOOLEAN, expected : Int, next : Nat, used : SUBSET Nat, candles : SUBSET Int]
Intervals == Seq([start : Int, end : Int])
Rows == Seq([open : Int, close : STRING])

Passed(s, missing, opened) == {i \in DOMAIN missing : i >= s.next /\ missing[i].end <= opened}

\* What the elements of such sequences are.
LEMMA IntervalTypes ==
    ASSUME NEW missing \in Intervals
    PROVE  /\ Len(missing) \in Nat /\ DOMAIN missing = 1..Len(missing)
           /\ \A i \in DOMAIN missing : missing[i].start \in Int /\ missing[i].end \in Int
<1> DEFINE R == [start : Int, end : Int]
<1>1. missing \in Seq(R)
  BY DEF Intervals
<1>2. \A x \in R : x.start \in Int /\ x.end \in Int
  OBVIOUS
<1> HIDE DEF R
<1>3. Len(missing) \in Nat /\ DOMAIN missing = 1..Len(missing)
  BY <1>1
<1>4. \A i \in DOMAIN missing : missing[i] \in R
  BY <1>1, <1>3
<1> QED BY <1>2, <1>3, <1>4

\* The loader's while loop: nothing, or all intervals up to the last that ended.
LEMMA PassFields ==
    ASSUME NEW s \in LoadState, NEW missing \in Intervals, NEW p \in Int
    PROVE  /\ Passed(s, missing, p) = {} => PassIntervals(s, missing, p) = s
           /\ Passed(s, missing, p) # {} =>
                 \E k \in Passed(s, missing, p) :
                    /\ \A i \in Passed(s, missing, p) : i <= k
                    /\ PassIntervals(s, missing, p) \in LoadState
                    /\ PassIntervals(s, missing, p).ok
                       <=> /\ s.ok /\ missing[s.next].start = s.expected
                           /\ \A i \in Passed(s, missing, p) \ {s.next} :
                                missing[i].start = missing[i - 1].end
                    /\ PassIntervals(s, missing, p).expected = missing[k].end
                    /\ PassIntervals(s, missing, p).next = k + 1
                    /\ PassIntervals(s, missing, p).used = s.used
                    /\ PassIntervals(s, missing, p).candles = s.candles
<1> DEFINE passed == Passed(s, missing, p)
           fits == /\ s.ok /\ missing[s.next].start = s.expected
                   /\ \A i \in passed \ {s.next} : missing[i].start = missing[i - 1].end
<1>1. PassIntervals(s, missing, p)
      = IF passed = {} THEN s
        ELSE [s EXCEPT !.ok = fits, !.expected = missing[Max(passed)].end, !.next = Max(passed) + 1]
  BY Zenon DEF PassIntervals, Passed
<1>2. passed = {} => PassIntervals(s, missing, p) = s
  BY <1>1
<1>3. ASSUME passed # {}
      PROVE  Max(passed) \in passed /\ \A i \in passed : i <= Max(passed)
  <2>1. passed \in SUBSET Int /\ Len(missing) \in Int /\ \A i \in passed : i <= Len(missing)
    BY DEF Passed, Intervals
  <2> HIDE DEF passed
  <2> QED BY <1>3, <2>1, MaxOfBounded
<1>4. fits \in BOOLEAN
  OBVIOUS
<1> HIDE DEF fits
<1>5. ASSUME passed # {}
      PROVE  LET t == [s EXCEPT !.ok = fits, !.expected = missing[Max(passed)].end,
                                !.next = Max(passed) + 1]
             IN  /\ t \in LoadState /\ t.ok = fits /\ t.expected = missing[Max(passed)].end
                 /\ t.next = Max(passed) + 1 /\ t.used = s.used /\ t.candles = s.candles
  <2>1. Max(passed) \in DOMAIN missing
    BY <1>3, <1>5 DEF Passed
  <2>2. missing[Max(passed)].end \in Int /\ Max(passed) + 1 \in Nat
    <3>1. \A i \in DOMAIN missing : i \in Nat /\ missing[i].end \in Int
      BY IntervalTypes
    <3> QED BY <2>1, <3>1
  <2> QED BY <1>4, <2>2 DEF LoadState
<1> HIDE DEF passed
<1>6. ASSUME passed # {}
      PROVE  /\ PassIntervals(s, missing, p) \in LoadState
             /\ PassIntervals(s, missing, p).ok = fits
             /\ PassIntervals(s, missing, p).expected = missing[Max(passed)].end
             /\ PassIntervals(s, missing, p).next = Max(passed) + 1
             /\ PassIntervals(s, missing, p).used = s.used
             /\ PassIntervals(s, missing, p).candles = s.candles
  BY <1>1, <1>5, <1>6, Zenon
<1>7. passed # {} =>
        \E k \in passed :
           /\ \A i \in passed : i <= k
           /\ PassIntervals(s, missing, p) \in LoadState
           /\ PassIntervals(s, missing, p).ok <=> fits
           /\ PassIntervals(s, missing, p).expected = missing[k].end
           /\ PassIntervals(s, missing, p).next = k + 1
           /\ PassIntervals(s, missing, p).used = s.used
           /\ PassIntervals(s, missing, p).candles = s.candles
  BY <1>3, <1>6, Zenon
<1> QED BY <1>2, <1>7, Zenon DEF passed, fits

\* The declared intervals follow one another within the month.
Follow(missing, start, end) ==
    /\ \A i \in DOMAIN missing : /\ missing[i].start < missing[i].end
                                 /\ start <= missing[i].start /\ missing[i].end <= end
    /\ \A i, j \in DOMAIN missing : i < j => missing[i].end <= missing[j].start

Within(missing, i, t) == missing[i].start <= t /\ t < missing[i].end

\* A minute of an interval before the next one.
Behind(missing, next) == {t \in Int : \E i \in DOMAIN missing : i < next /\ Within(missing, i, t)}

\* A specification the loader's dataclass accepts declares its intervals in order.
LEMMA SpecFollows ==
    ASSUME NEW r, SpecAccepts(r), r.missing \in Intervals, r.start \in Int, r.end \in Int
    PROVE  Follow(r.missing, r.start, r.end)
<1> DEFINE missing == r.missing
<1>1. \A i \in DOMAIN missing :
         /\ missing[i].start >= (IF i = 1 THEN r.start ELSE missing[i - 1].end)
         /\ missing[i].start < missing[i].end /\ missing[i].end <= r.end
  BY Zenon DEF SpecAccepts
<1>2. /\ missing \in Intervals /\ Len(missing) \in Nat /\ DOMAIN missing = 1..Len(missing)
      /\ \A i \in DOMAIN missing : missing[i].start \in Int /\ missing[i].end \in Int
  BY IntervalTypes
<1> HIDE DEF missing
<1>3. \A i, j \in DOMAIN missing : i < j => missing[i].end <= missing[j].start
  <2> SUFFICES ASSUME NEW i \in DOMAIN missing PROVE \A j \in DOMAIN missing : i < j => missing[i].end <= missing[j].start
    OBVIOUS
  <2> DEFINE T == {n \in Nat : n \in DOMAIN missing /\ i < n /\ ~(missing[i].end <= missing[n].start)}
  <2> SUFFICES ASSUME T # {} PROVE FALSE
    BY <1>2
  <2>1. PICK n \in T : \A k \in T : n <= k
    BY LeastNumber
  <2>2. n \in DOMAIN missing /\ n - 1 \in DOMAIN missing /\ n # 1 /\ i <= n - 1 /\ i \in Nat
    BY <1>2, <2>1
  <2>3. missing[n].start >= missing[n - 1].end /\ missing[n - 1].start < missing[n - 1].end
    BY <1>1, <2>2
  <2>4. CASE i = n - 1
    BY <2>1, <2>3, <2>4, <1>2, <2>2
  <2>5. CASE i # n - 1
    <3>1. i < n - 1 /\ n - 1 \in Nat /\ n - 1 < n
      BY <2>2, <2>5, <1>2
    <3>2. n - 1 \notin T
      <4>1. n \in Nat
        BY <2>1
      <4> HIDE DEF T
      <4> QED BY <2>1, <3>1, <4>1
    <3>3. missing[i].end <= missing[n - 1].start
      BY <2>2, <3>1, <3>2
    <3>4. ~(missing[i].end <= missing[n].start)
      BY <2>1
    <3>5. {missing[i].end, missing[n - 1].start, missing[n - 1].end, missing[n].start} \subseteq Int
      BY <1>2, <2>2
    <3> HIDE DEF T
    <3> QED BY <2>3, <3>3, <3>4, <3>5
  <2> QED BY <2>4, <2>5
<1>4. \A i \in DOMAIN missing : r.start <= missing[i].start
  <2> SUFFICES ASSUME NEW i \in DOMAIN missing PROVE r.start <= missing[i].start
    OBVIOUS
  <2>1. 1 \in DOMAIN missing /\ missing[1].start >= r.start
    BY <1>1, <1>2
  <2>2. i = 1 \/ missing[1].end <= missing[i].start
    BY <1>2, <1>3, <2>1
  <2> QED BY <1>1, <1>2, <2>1, <2>2
<1> QED BY <1>1, <1>3, <1>4 DEF Follow, missing

\* While the loader is content: what it passed and what it took are the minutes up to
\* the one it expects, and no candle is declared missing.
Divided(missing, start, s) ==
    /\ start <= s.expected
    /\ \A i \in DOMAIN missing : /\ i < s.next => missing[i].end <= s.expected
                                 /\ i >= s.next => s.expected <= missing[i].start
    /\ s.candles \cup Behind(missing, s.next) = start..(s.expected - 1)
    /\ \A t \in s.candles : \A i \in DOMAIN missing : ~Within(missing, i, t)

Divides(missing, start, s) ==
    /\ s \in LoadState /\ s.next \in 1..(Len(missing) + 1)
    /\ s.ok => Divided(missing, start, s)

LEMMA PassDivides ==
    ASSUME NEW missing \in Intervals, NEW start \in Int, NEW end \in Int,
           Follow(missing, start, end), NEW s, Divides(missing, start, s), NEW p \in Int
    PROVE  LET t == PassIntervals(s, missing, p)
           IN  /\ Divides(missing, start, t)
               /\ \A i \in DOMAIN missing : i >= t.next => missing[i].end > p
<1> DEFINE t == PassIntervals(s, missing, p)
           passed == Passed(s, missing, p)
<1>1. /\ Len(missing) \in Nat /\ DOMAIN missing = 1..Len(missing)
      /\ \A i \in DOMAIN missing : missing[i].start \in Int /\ missing[i].end \in Int
  BY IntervalTypes
<1>2. s \in LoadState /\ s.next \in 1..(Len(missing) + 1) /\ s.expected \in Int
      /\ s.candles \subseteq Int
  BY DEF Divides, LoadState
<1>3. CASE passed = {}
  <2>1. t = s
    BY <1>2, <1>3, PassFields
  <2>2. \A i \in DOMAIN missing : i >= s.next => missing[i].end > p
    BY <1>1, <1>3 DEF Passed
  <2> QED BY <2>1, <2>2
<1>4. CASE passed # {}
  <2>1. PICK k \in passed :
          /\ \A i \in passed : i <= k
          /\ t \in LoadState
          /\ t.ok <=> /\ s.ok /\ missing[s.next].start = s.expected
                      /\ \A i \in passed \ {s.next} : missing[i].start = missing[i - 1].end
          /\ t.expected = missing[k].end /\ t.next = k + 1 /\ t.candles = s.candles
    BY <1>2, <1>4, PassFields, Zenon
  <2> HIDE DEF t
  <2>2. k \in DOMAIN missing /\ k >= s.next /\ missing[k].end <= p
    BY <2>1 DEF Passed
  <2>3. passed = {i \in DOMAIN missing : i >= s.next /\ i <= k}
    <3>1. ASSUME NEW i \in DOMAIN missing, i >= s.next, i <= k PROVE i \in passed
      <4>1. missing[i].end <= missing[k].end
        BY <1>1, <2>2, <3>1 DEF Follow
      <4> QED BY <1>1, <2>2, <3>1, <4>1 DEF Passed
    <3> QED BY <2>1, <3>1 DEF Passed
  <2>4. \A i \in DOMAIN missing : i >= k + 1 => missing[i].end > p
    <3> SUFFICES ASSUME NEW i \in DOMAIN missing, i >= k + 1 PROVE missing[i].end > p
      OBVIOUS
    <3>1. i \notin passed /\ i >= s.next
      BY <1>1, <1>2, <2>1, <2>2
    <3> QED BY <1>1, <3>1 DEF Passed
  <2> HIDE DEF passed
  <2>5. ASSUME t.ok PROVE Divides(missing, start, t)
    <3>1. /\ s.ok /\ missing[s.next].start = s.expected
          /\ \A i \in DOMAIN missing : i > s.next /\ i <= k => missing[i].start = missing[i - 1].end
      BY <1>1, <1>2, <2>1, <2>2, <2>3, <2>5
    <3>2. /\ start <= s.expected
          /\ \A i \in DOMAIN missing : i < s.next => missing[i].end <= s.expected
          /\ s.candles \cup Behind(missing, s.next) = start..(s.expected - 1)
          /\ \A c \in s.candles : \A i \in DOMAIN missing : ~Within(missing, i, c)
      <4>1. Divided(missing, start, s)
        BY <3>1 DEF Divides
      <4> QED BY <4>1 DEF Divided
    <3>3. s.next \in DOMAIN missing /\ s.expected <= missing[k].start /\ missing[k].start < missing[k].end
      <4>1. s.next \in DOMAIN missing /\ s.next \in Nat /\ k \in Nat
        BY <1>1, <1>2, <2>2
      <4>2. CASE k = s.next
        BY <1>1, <2>2, <3>1, <4>1, <4>2 DEF Follow
      <4>3. CASE k # s.next
        <5>1. s.next < k
          BY <2>2, <4>1, <4>3
        <5>2. missing[s.next].end <= missing[k].start /\ missing[s.next].start < missing[s.next].end
              /\ missing[k].start < missing[k].end
          BY <2>2, <4>1, <5>1 DEF Follow
        <5> QED BY <1>1, <2>2, <3>1, <4>1, <5>2
      <4> QED BY <4>2, <4>3
    <3>4. \A i \in DOMAIN missing : /\ i < k + 1 => missing[i].end <= missing[k].end
                                    /\ i >= k + 1 => missing[k].end <= missing[i].start
      BY <1>1, <2>2 DEF Follow
    <3>5. ASSUME NEW c \in Int
          PROVE  c \in Behind(missing, k + 1)
                 <=> c \in Behind(missing, s.next) \/ c \in s.expected..(missing[k].end - 1)
      <4>1. ASSUME c \in Behind(missing, k + 1), c \notin Behind(missing, s.next)
            PROVE  c \in s.expected..(missing[k].end - 1)
        <5>1. PICK i \in DOMAIN missing : i < k + 1 /\ Within(missing, i, c)
          BY <4>1 DEF Behind
        <5>2. i >= s.next
          BY <1>1, <1>2, <4>1, <5>1 DEF Behind
        <5>3. s.next \in Nat /\ i \in Nat /\ s.next \in DOMAIN missing
          BY <1>1, <1>2, <3>3
        <5>4. s.expected <= missing[i].start
          <6>1. CASE i = s.next
            BY <1>1, <1>2, <3>1, <6>1
          <6>2. CASE i # s.next
            <7>1. missing[s.next].end <= missing[i].start /\ missing[s.next].start < missing[s.next].end
              BY <5>2, <5>3, <6>2 DEF Follow
            <7> QED BY <1>1, <1>2, <3>1, <5>3, <7>1
          <6> QED BY <6>1, <6>2
        <5>5. missing[i].end <= missing[k].end
          BY <3>4, <5>1
        <5>6. {missing[i].start, missing[i].end, missing[k].end, s.expected} \subseteq Int
          BY <1>1, <1>2, <2>2
        <5> QED BY <5>1, <5>4, <5>5, <5>6 DEF Within
      <4>2. ASSUME c \in Behind(missing, s.next) PROVE c \in Behind(missing, k + 1)
        BY <1>1, <1>2, <2>2, <4>2 DEF Behind
      <4>3. ASSUME c \in s.expected..(missing[k].end - 1) PROVE c \in Behind(missing, k + 1)
        <5> DEFINE T == {i \in Nat : i \in DOMAIN missing /\ i >= s.next /\ i <= k /\ c < missing[i].end}
        <5>1. k \in T
          BY <1>1, <1>2, <2>2, <4>3
        <5>2. T \in SUBSET Nat /\ T # {}
          BY <5>1
        <5> HIDE DEF T
        <5>3. PICK i \in T : \A j \in T : i <= j
          BY <5>2, LeastNumber
        <5> USE DEF T
        <5>4. missing[i].start <= c
          <6>1. CASE i = s.next
            BY <1>1, <1>2, <2>2, <3>1, <4>3, <6>1
          <6>2. CASE i # s.next
            <7>0. i \in Nat /\ i \in DOMAIN missing /\ i >= s.next /\ i <= k /\ s.next \in Nat
                  /\ s.next >= 1 /\ k \in Nat
              BY <1>1, <1>2, <2>2, <5>3
            <7>1. i - 1 \in DOMAIN missing /\ i - 1 >= s.next /\ i - 1 <= k /\ i - 1 \in Nat
              BY <1>1, <6>2, <7>0
            <7>2. i - 1 \notin T
              BY <5>3, <7>1
            <7>3. missing[i - 1].end <= c
              BY <1>1, <7>1, <7>2
            <7>4. missing[i].start = missing[i - 1].end
              BY <1>1, <1>2, <3>1, <5>3, <6>2
            <7> QED BY <7>3, <7>4
          <6> QED BY <6>1, <6>2
        <5>5. Within(missing, i, c) /\ i < k + 1 /\ i \in DOMAIN missing
          BY <1>1, <2>2, <5>3, <5>4 DEF Within
        <5> QED BY <5>5 DEF Behind
      <4> QED BY <4>1, <4>2, <4>3
    <3>6. s.candles \cup Behind(missing, k + 1) = start..(missing[k].end - 1)
      <4>1. \A c \in Int : c \in start..(missing[k].end - 1)
                           <=> c \in start..(s.expected - 1) \/ c \in s.expected..(missing[k].end - 1)
        <5>1. /\ {start, s.expected, missing[k].end} \subseteq Int
              /\ start <= s.expected /\ s.expected <= missing[k].end
          BY <1>1, <1>2, <2>2, <3>2, <3>3
        <5> QED BY <5>1
      <4>2. Behind(missing, k + 1) \subseteq Int
        BY DEF Behind
      <4> QED BY <1>2, <3>2, <3>5, <4>1, <4>2
    <3>7. start <= missing[k].end /\ k + 1 \in 1..(Len(missing) + 1)
      BY <1>1, <1>2, <2>2, <3>2, <3>3
    <3>8. Divided(missing, start, t)
      BY <2>1, <3>2, <3>4, <3>6, <3>7, Zenon DEF Divided
    <3> QED BY <2>1, <3>7, <3>8 DEF Divides
  <2>6. Divides(missing, start, t)
    <3>1. t.next \in 1..(Len(missing) + 1)
      BY <1>1, <2>1, <2>2
    <3> QED BY <2>1, <2>5, <3>1 DEF Divides
  <2> QED BY <2>1, <2>4, <2>6 DEF t
<1> QED BY <1>3, <1>4

\* The minute lies in the interval the loader waits at.
Inside(missing, s, t) == s.next \in DOMAIN missing /\ Within(missing, s.next, t)

\* A row with a good close is the next candle, one inside an interval is passed over.
RowLoaded(r, t, n, row, s) ==
    /\ s \in LoadState /\ s.next = t.next
    /\ Inside(r.missing, t, row.open) =>
         /\ s.expected = t.expected /\ s.candles = t.candles /\ s.used = t.used \cup {n}
         /\ s.ok <=> t.ok /\ Anomaly(n, row) \in r.odd
    /\ ~Inside(r.missing, t, row.open) =>
         /\ s.expected = t.expected + 1 /\ s.candles = t.candles \cup {row.open}
         /\ s.used = t.used
         /\ s.ok <=> t.ok /\ row.open = t.expected /\ row.close = "good"

LEMMA LoadRowFields ==
    ASSUME NEW r, NEW b, NEW n \in Nat, NEW row, row.open \in Int,
           PassIntervals(b, r.missing, row.open) \in LoadState
    PROVE  RowLoaded(r, PassIntervals(b, r.missing, row.open), n, row, LoadRow(r, b, n, row))
<1> DEFINE t == PassIntervals(b, r.missing, row.open)
           s == LoadRow(r, b, n, row)
<1> SUFFICES RowLoaded(r, t, n, row, s)
  OBVIOUS
<1>0. t \in LoadState /\ row.open \in Int
  OBVIOUS
<1> DEFINE inside == Inside(r.missing, t, row.open)
           declared == t.ok /\ Anomaly(n, row) \in r.odd
           next == t.ok /\ row.open = t.expected /\ row.close = "good"
<1>1. s = IF inside THEN [t EXCEPT !.ok = declared, !.used = t.used \cup {n}]
          ELSE [t EXCEPT !.ok = next, !.expected = t.expected + 1,
                         !.candles = t.candles \cup {row.open}]
  BY Zenon DEF LoadRow, Inside, Within
<1> HIDE DEF t, s
<1>2. declared \in BOOLEAN /\ next \in BOOLEAN
  OBVIOUS
<1> HIDE DEF inside, declared, next
<1>3. CASE inside
  <2>1. s = [t EXCEPT !.ok = declared, !.used = t.used \cup {n}]
    BY <1>1, <1>3
  <2>2. /\ s \in LoadState /\ s.next = t.next /\ s.expected = t.expected
        /\ s.candles = t.candles /\ s.used = t.used \cup {n} /\ s.ok = declared
    <3> DEFINE u == t.used \cup {n}
    <3>1. u \in SUBSET Nat
      BY <1>0 DEF LoadState
    <3>2. s = [t EXCEPT !.ok = declared, !.used = u]
      BY <2>1
    <3> HIDE DEF u
    <3>3. /\ s \in LoadState /\ s.next = t.next /\ s.expected = t.expected
          /\ s.candles = t.candles /\ s.used = u /\ s.ok = declared
      BY <1>0, <1>2, <3>1, <3>2 DEF LoadState
    <3> QED BY <3>3 DEF u
  <2> QED BY <1>3, <2>2, Zenon DEF inside, declared, RowLoaded
<1>4. CASE ~inside
  <2>1. s = [t EXCEPT !.ok = next, !.expected = t.expected + 1,
                      !.candles = t.candles \cup {row.open}]
    BY <1>1, <1>4
  <2>2. /\ s \in LoadState /\ s.next = t.next /\ s.expected = t.expected + 1
        /\ s.candles = t.candles \cup {row.open} /\ s.used = t.used /\ s.ok = next
    <3> DEFINE u == t.candles \cup {row.open}
               e == t.expected + 1
    <3>1. u \in SUBSET Int /\ e \in Int
      BY <1>0 DEF LoadState
    <3>2. s = [t EXCEPT !.ok = next, !.expected = e, !.candles = u]
      BY <2>1
    <3> HIDE DEF u, e
    <3>3. /\ s \in LoadState /\ s.next = t.next /\ s.expected = e
          /\ s.candles = u /\ s.used = t.used /\ s.ok = next
      BY <1>0, <1>2, <3>1, <3>2 DEF LoadState
    <3> QED BY <3>3 DEF u, e
  <2> QED BY <1>4, <2>2, Zenon DEF inside, next, RowLoaded
<1> QED BY <1>3, <1>4

\* What a scan of the loader accepts divides the month into candles and declared minutes.
LEMMA LoadedDivides ==
    ASSUME NEW r, NEW data, r.missing \in Intervals, r.start \in Int, r.end \in Int,
           r.start <= r.end, Follow(r.missing, r.start, r.end),
           Len(data) \in Nat, \A n \in 1..Len(data) : data[n].open \in Int,
           Loaded(r, data).ok, Loaded(r, data).expected = r.end
    PROVE  /\ Loaded(r, data).candles \cup MissingMinutes(r) = r.start..(r.end - 1)
           /\ Loaded(r, data).candles \cap MissingMinutes(r) = {}
<1> DEFINE missing == r.missing
           last == Loaded(r, data)
<1>1. /\ Len(missing) \in Nat /\ DOMAIN missing = 1..Len(missing)
      /\ \A i \in DOMAIN missing : missing[i].start \in Int /\ missing[i].end \in Int
  BY IntervalTypes
<1>2. PICK f : /\ IsRead(f, r, data, Len(data))
               /\ last = PassIntervals(f[Len(data)], missing, r.end)
  BY LoadedIs, Zenon
<1>3. f[0] = LoadStart(r) /\ \A n \in 1..Len(data) : f[n] = LoadRow(r, f[n - 1], n, data[n])
  BY <1>2, ReadEquations
<1>4. Divides(missing, r.start, f[0])
  <2> DEFINE s == LoadStart(r)
  <2>1. /\ s \in LoadState /\ s.next = 1 /\ s.expected = r.start /\ s.candles = {}
    BY DEF LoadStart, LoadState
  <2> HIDE DEF s
  <2>2. Behind(missing, 1) = {} /\ r.start..(r.start - 1) = {}
    BY <1>1 DEF Behind
  <2>3. \A i \in DOMAIN missing : /\ i < s.next => missing[i].end <= s.expected
                                  /\ i >= s.next => s.expected <= missing[i].start
    BY <1>1, <2>1 DEF Follow
  <2>4. /\ r.start <= s.expected /\ s.candles \cup Behind(missing, s.next) = r.start..(s.expected - 1)
        /\ \A t \in s.candles : \A i \in DOMAIN missing : ~Within(missing, i, t)
    <3>1. s.candles = {} /\ Behind(missing, s.next) = {} /\ r.start..(s.expected - 1) = {}
      BY <2>1, <2>2
    <3>2. r.start <= s.expected
      BY <2>1
    <3> QED BY <3>1, <3>2
  <2>5. Divided(missing, r.start, s)
    BY <2>3, <2>4, Zenon DEF Divided
  <2> QED BY <1>1, <1>3, <2>1, <2>5 DEF Divides, s
<1> HIDE DEF missing, last
<1>5. ASSUME NEW n \in 1..Len(data), Divides(missing, r.start, f[n - 1])
      PROVE  Divides(missing, r.start, f[n])
  <2> DEFINE p == data[n].open
             t == PassIntervals(f[n - 1], missing, p)
             s == f[n]
  <2>1. p \in Int /\ n \in Nat
    OBVIOUS
  <2>2. /\ Divides(missing, r.start, t)
        /\ \A i \in DOMAIN missing : i >= t.next => missing[i].end > p
    BY <1>5, <2>1, PassDivides DEF missing
  <2>3. s = LoadRow(r, f[n - 1], n, data[n])
    BY <1>3
  <2>4. t \in LoadState /\ t.next \in 1..(Len(missing) + 1)
    BY <2>2 DEF Divides
  <2> DEFINE inside == Inside(missing, t, p)
  <2>5. /\ s \in LoadState /\ s.next = t.next
        /\ inside => /\ s.expected = t.expected /\ s.candles = t.candles
                     /\ s.ok => t.ok
        /\ ~inside => /\ s.expected = t.expected + 1 /\ s.candles = t.candles \cup {p}
                      /\ s.ok => t.ok /\ p = t.expected
    <3>1. RowLoaded(r, PassIntervals(f[n - 1], r.missing, data[n].open), n, data[n],
                    LoadRow(r, f[n - 1], n, data[n]))
      BY <2>1, <2>4, LoadRowFields DEF missing
    <3>2. RowLoaded(r, t, n, data[n], s)
      BY <2>3, <3>1 DEF missing
    <3> HIDE DEF t, s
    <3> QED BY <3>2 DEF RowLoaded, missing
  <2> SUFFICES Divides(missing, r.start, s)
    OBVIOUS
  <2> HIDE DEF t, s, p
  <2>6. CASE ~s.ok
    BY <2>4, <2>5, <2>6 DEF Divides
  <2>7. CASE s.ok
    <3>1. t.ok /\ Divided(missing, r.start, t)
      BY <2>2, <2>5, <2>7 DEF Divides
    <3>2. CASE inside
      <4>1. Divided(missing, r.start, s)
        BY <2>5, <3>1, <3>2 DEF Divided
      <4> QED BY <2>4, <2>5, <4>1 DEF Divides
    <3>3. CASE ~inside
      <4>1. p = t.expected /\ s.expected = p + 1 /\ s.candles = t.candles \cup {p} /\ s.next = t.next
        BY <2>5, <2>7, <3>3
      <4>2. \A i \in DOMAIN missing : ~Within(missing, i, p)
        <5> SUFFICES ASSUME NEW i \in DOMAIN missing, Within(missing, i, p) PROVE FALSE
          OBVIOUS
        <5>1. i < t.next => missing[i].end <= p
          BY <3>1, <4>1 DEF Divided
        <5>2. i >= t.next
          BY <1>1, <2>1, <2>4, <5>1 DEF Within
        <5>3. i # t.next
          BY <3>3 DEF Inside
        <5>4. t.next \in DOMAIN missing /\ t.next < i
          BY <1>1, <2>4, <5>2, <5>3
        <5>5. missing[t.next].end <= missing[i].start /\ missing[t.next].end > p
          BY <2>2, <2>4, <5>4 DEF Follow, missing
        <5> QED BY <1>1, <2>1, <5>4, <5>5 DEF Within
      <4>3. \A i \in DOMAIN missing : /\ i < s.next => missing[i].end <= s.expected
                                      /\ i >= s.next => s.expected <= missing[i].start
        <5> SUFFICES ASSUME NEW i \in DOMAIN missing
                     PROVE  /\ i < t.next => missing[i].end <= p + 1
                            /\ i >= t.next => p + 1 <= missing[i].start
          BY <4>1
        <5>1. /\ i < t.next => missing[i].end <= p
              /\ i >= t.next => p <= missing[i].start
          BY <3>1, <4>1 DEF Divided
        <5>2. i >= t.next => missing[i].end > p
          BY <2>2
        <5>3. ~Within(missing, i, p)
          BY <4>2
        <5> QED BY <1>1, <2>1, <5>1, <5>2, <5>3 DEF Within
      <4>4. s.candles \cup Behind(missing, s.next) = r.start..(s.expected - 1)
        <5>1. t.candles \cup Behind(missing, t.next) = r.start..(p - 1) /\ r.start <= p
          BY <3>1, <4>1 DEF Divided
        <5>2. r.start..p = (r.start..(p - 1)) \cup {p} /\ p + 1 - 1 = p
          BY <2>1, <5>1
        <5> QED BY <4>1, <5>1, <5>2
      <4>5. \A c \in s.candles : \A i \in DOMAIN missing : ~Within(missing, i, c)
        BY <3>1, <4>1, <4>2 DEF Divided
      <4>6. r.start <= s.expected
        BY <2>1, <3>1, <4>1 DEF Divided
      <4>7. Divided(missing, r.start, s)
        BY <4>3, <4>4, <4>5, <4>6, Zenon DEF Divided
      <4> QED BY <2>4, <2>5, <4>7 DEF Divides
    <3> QED BY <3>2, <3>3
  <2> QED BY <2>6, <2>7
<1>6. Divides(missing, r.start, f[Len(data)])
  <2> DEFINE T == {n \in Nat : n <= Len(data) /\ ~Divides(missing, r.start, f[n])}
  <2> SUFFICES ASSUME T # {} PROVE FALSE
    OBVIOUS
  <2>1. PICK n \in T : \A k \in T : n <= k
    <3>1. T \in SUBSET Nat
      OBVIOUS
    <3> HIDE DEF T
    <3> QED BY <3>1, LeastNumber
  <2>2. n # 0 /\ n \in Nat /\ n <= Len(data)
    BY <1>4, <2>1
  <2>3. n \in 1..Len(data) /\ n - 1 \in Nat /\ n - 1 \notin T /\ n - 1 <= Len(data)
    BY <2>1, <2>2
  <2>4. Divides(missing, r.start, f[n - 1])
    BY <2>3
  <2> QED BY <1>5, <2>1, <2>3, <2>4
<1>7. /\ Divides(missing, r.start, last)
      /\ \A i \in DOMAIN missing : i >= last.next => missing[i].end > r.end
  BY <1>2, <1>6, PassDivides DEF missing
<1>8. Divided(missing, r.start, last)
  BY <1>7 DEF Divides, last
<1>9. last.next = Len(missing) + 1
  <2>1. last.next \in 1..(Len(missing) + 1)
    BY <1>7 DEF Divides
  <2>2. last.next \notin DOMAIN missing
    <3> SUFFICES ASSUME last.next \in DOMAIN missing PROVE FALSE
      OBVIOUS
    <3>1. missing[last.next].end <= r.end /\ missing[last.next].end > r.end
      BY <1>1, <1>7 DEF Follow, missing
    <3> QED BY <1>1, <3>1
  <2> QED BY <1>1, <2>1, <2>2
<1>10. Behind(missing, last.next) = MissingMinutes(r)
  <2>1. Behind(missing, last.next) = {t \in Int : \E i \in DOMAIN missing : Within(missing, i, t)}
    BY <1>1, <1>9 DEF Behind
  <2>2. ASSUME NEW t
        PROVE  t \in MissingMinutes(r) <=> t \in Int /\ \E i \in DOMAIN missing : Within(missing, i, t)
    <3>1. t \in MissingMinutes(r)
          <=> \E i \in DOMAIN missing : t \in missing[i].start..(missing[i].end - 1)
      BY DEF MissingMinutes, missing
    <3> QED BY <1>1, <3>1 DEF Within
  <2> QED BY <2>1, <2>2
<1>11. last.candles \cup MissingMinutes(r) = r.start..(r.end - 1)
  BY <1>8, <1>10 DEF Divided, last
<1>12. last.candles \cap MissingMinutes(r) = {}
  BY <1>8, <1>10 DEF Divided, Behind
<1> QED BY <1>11, <1>12 DEF last

----------------------------------------------------------------------------
(* What the builder declares. *)

\* The minutes of start..end - 1 without a row that closes well, as maximal intervals.
Canonical(missing, start, end, timely) ==
    /\ missing \in Intervals
    /\ \A i \in DOMAIN missing : /\ missing[i].start < missing[i].end
                                 /\ start <= missing[i].start /\ missing[i].end <= end
    /\ \A i, j \in DOMAIN missing : i < j => missing[i].end < missing[j].start
    /\ \A t \in Int : (\E i \in DOMAIN missing : Within(missing, i, t))
                      <=> t \in start..(end - 1) /\ t \notin timely

\* A gap that touches the last one extends it, another is put behind it.
LEMMA JoinFields ==
    ASSUME NEW missing \in Intervals, NEW a \in Int, NEW b \in Int, a < b
    PROVE  /\ Join(missing, a, b) \in Intervals
           /\ \/ /\ Len(missing) > 0 /\ a <= missing[Len(missing)].end
                 /\ Len(Join(missing, a, b)) = Len(missing)
                 /\ Join(missing, a, b)[Len(missing)].start = missing[Len(missing)].start
                 /\ Join(missing, a, b)[Len(missing)].end = b
                 /\ \A i \in 1..(Len(missing) - 1) : Join(missing, a, b)[i] = missing[i]
              \/ /\ Len(missing) > 0 => missing[Len(missing)].end < a
                 /\ Len(Join(missing, a, b)) = Len(missing) + 1
                 /\ Join(missing, a, b)[Len(missing) + 1].start = a
                 /\ Join(missing, a, b)[Len(missing) + 1].end = b
                 /\ \A i \in 1..Len(missing) : Join(missing, a, b)[i] = missing[i]
<1> DEFINE R == [start : Int, end : Int]
           n == Len(missing)
           J == Join(missing, a, b)
<1>1. missing \in Seq(R) /\ n \in Nat /\ DOMAIN missing = 1..n
  BY IntervalTypes DEF Intervals
<1>2. \A x, y \in Int : /\ Interval(x, y) \in R /\ Interval(x, y).start = x /\ Interval(x, y).end = y
  BY DEF Interval
<1>3. \A i \in 1..n : missing[i].start \in Int /\ missing[i].end \in Int
  BY IntervalTypes
<1>4. missing # <<>> <=> n > 0
  BY <1>1
<1>5. CASE n > 0 /\ a <= missing[n].end
  <2> DEFINE x == Interval(missing[n].start, b)
             front == SubSeq(missing, 1, n - 1)
  <2>1. J = Append(front, x)
    BY <1>4, <1>5 DEF Join, Last, Front
  <2>2. x \in R /\ x.start = missing[n].start /\ x.end = b
    <3>1. missing[n].start \in Int
      BY <1>1, <1>3, <1>5
    <3> HIDE DEF R
    <3> QED BY <1>2, <3>1
  <2> HIDE DEF R, x
  <2>3. front \in Seq(R) /\ Len(front) = n - 1 /\ \A i \in 1..(n - 1) : front[i] = missing[i]
    BY <1>1, <1>5
  <2> HIDE DEF front, J, n
  <2>4. J \in Seq(R) /\ Len(J) = n /\ J[n] = x /\ \A i \in 1..(n - 1) : J[i] = missing[i]
    BY <1>1, <1>5, <2>1, <2>2, <2>3
  <2> QED BY <1>5, <2>2, <2>4 DEF n, J, Intervals, R
<1>6. CASE ~(n > 0 /\ a <= missing[n].end)
  <2> DEFINE x == Interval(a, b)
  <2>1. J = Append(missing, x)
    BY <1>4, <1>6 DEF Join, Last
  <2>2. x \in R /\ x.start = a /\ x.end = b
    BY <1>2
  <2> HIDE DEF R, x, J, n
  <2>3. J \in Seq(R) /\ Len(J) = n + 1 /\ J[n + 1] = x /\ \A i \in 1..n : J[i] = missing[i]
    BY <1>1, <2>1, <2>2 DEF n
  <2>4. n > 0 => missing[n].end < a
    BY <1>1, <1>3, <1>6
  <2> QED BY <2>2, <2>3, <2>4 DEF n, J, Intervals, R
<1> QED BY <1>5, <1>6

\* Joining the minutes from a to b keeps what is declared canonical.
LEMMA JoinCanonical ==
    ASSUME NEW missing, NEW start \in Int, NEW a \in Int, NEW b \in Int, NEW timely,
           Canonical(missing, start, a, timely), start <= a, a <= b,
           \A t \in timely : t \in Int /\ t < a
    PROVE  Canonical(Join(missing, a, b), start, b, timely)
<1>1. CASE a = b
  BY <1>1 DEF Join
<1>2. CASE a < b
  <2> DEFINE J == Join(missing, a, b)
             n == Len(missing)
  <2>1. /\ missing \in Intervals /\ n \in Nat /\ DOMAIN missing = 1..n
        /\ \A i \in 1..n : missing[i].start \in Int /\ missing[i].end \in Int
    BY IntervalTypes DEF Canonical
  <2>2. /\ \A i \in 1..n : /\ missing[i].start < missing[i].end
                           /\ start <= missing[i].start /\ missing[i].end <= a
        /\ \A i, j \in 1..n : i < j => missing[i].end < missing[j].start
        /\ \A t \in Int : (\E i \in 1..n : Within(missing, i, t))
                          <=> t \in start..(a - 1) /\ t \notin timely
    BY <2>1 DEF Canonical
  <2>3. J \in Intervals /\ Len(J) \in Nat /\ DOMAIN J = 1..Len(J)
    BY <1>2, <2>1, JoinFields, IntervalTypes
  <2> SUFFICES /\ \A i \in 1..Len(J) : /\ J[i].start < J[i].end
                                       /\ start <= J[i].start /\ J[i].end <= b
               /\ \A i, j \in 1..Len(J) : i < j => J[i].end < J[j].start
               /\ \A t \in Int : (\E i \in 1..Len(J) : Within(J, i, t))
                                 <=> t \in start..(b - 1) /\ t \notin timely
    BY <2>3 DEF Canonical
  <2>4. ASSUME NEW t \in Int
        PROVE  t \in start..(b - 1) /\ t \notin timely
               <=> (t \in start..(a - 1) /\ t \notin timely) \/ (a <= t /\ t < b)
    OBVIOUS
  <2>5. CASE /\ n > 0 /\ a <= missing[n].end /\ Len(J) = n
             /\ J[n].start = missing[n].start /\ J[n].end = b
             /\ \A i \in 1..(n - 1) : J[i] = missing[i]
    <3> HIDE DEF J, n
    <3>1. missing[n].end = a /\ n \in 1..n
      BY <2>1, <2>2, <2>5
    <3>2. \A i \in 1..Len(J) : /\ J[i].start < J[i].end /\ start <= J[i].start /\ J[i].end <= b
      <4> SUFFICES ASSUME NEW i \in 1..n
                   PROVE  J[i].start < J[i].end /\ start <= J[i].start /\ J[i].end <= b
        BY <2>5
      <4>1. CASE i = n
        BY <1>2, <2>1, <2>2, <2>5, <3>1, <4>1
      <4>2. CASE i # n
        <5>1. J[i] = missing[i]
          BY <2>1, <2>5, <4>2
        <5> QED BY <1>2, <2>1, <2>2, <5>1
      <4> QED BY <4>1, <4>2
    <3>3. \A i, j \in 1..Len(J) : i < j => J[i].end < J[j].start
      <4> SUFFICES ASSUME NEW i \in 1..n, NEW j \in 1..n, i < j PROVE J[i].end < J[j].start
        BY <2>5
      <4>1. J[i] = missing[i] /\ J[j].start = missing[j].start
        BY <2>1, <2>5
      <4> QED BY <2>2, <4>1
    <3>4. ASSUME NEW t \in Int
          PROVE  (\E i \in 1..n : Within(J, i, t))
                 <=> (\E i \in 1..n : Within(missing, i, t)) \/ (a <= t /\ t < b)
      <4>1. \A i \in 1..n : i # n => (Within(J, i, t) <=> Within(missing, i, t))
        BY <2>1, <2>5 DEF Within
      <4>2. Within(J, n, t) <=> Within(missing, n, t) \/ (a <= t /\ t < b)
        BY <1>2, <2>1, <2>2, <2>5, <3>1 DEF Within
      <4> QED BY <3>1, <4>1, <4>2
    <3> QED BY <2>2, <2>4, <2>5, <3>2, <3>3, <3>4
  <2>6. CASE /\ n > 0 => missing[n].end < a
             /\ Len(J) = n + 1 /\ J[n + 1].start = a /\ J[n + 1].end = b
             /\ \A i \in 1..n : J[i] = missing[i]
    <3> HIDE DEF J, n
    <3>1. \A i \in 1..n : missing[i].end < a
      BY <2>1, <2>2, <2>6
    <3>2. \A i \in 1..Len(J) : /\ J[i].start < J[i].end /\ start <= J[i].start /\ J[i].end <= b
      <4> SUFFICES ASSUME NEW i \in 1..(n + 1)
                   PROVE  J[i].start < J[i].end /\ start <= J[i].start /\ J[i].end <= b
        BY <2>6
      <4>1. CASE i = n + 1
        BY <1>2, <2>6, <4>1
      <4>2. CASE i # n + 1
        <5>1. i \in 1..n /\ J[i] = missing[i]
          BY <2>1, <2>6, <4>2
        <5> QED BY <1>2, <2>1, <2>2, <5>1
      <4> QED BY <4>1, <4>2
    <3>3. \A i, j \in 1..Len(J) : i < j => J[i].end < J[j].start
      <4> SUFFICES ASSUME NEW i \in 1..(n + 1), NEW j \in 1..(n + 1), i < j PROVE J[i].end < J[j].start
        BY <2>6
      <4>1. i \in 1..n /\ J[i] = missing[i]
        BY <2>1, <2>6
      <4>2. CASE j = n + 1
        BY <2>6, <3>1, <4>1, <4>2
      <4>3. CASE j # n + 1
        <5>1. j \in 1..n /\ J[j] = missing[j]
          BY <2>1, <2>6, <4>3
        <5> QED BY <2>2, <4>1, <5>1
      <4> QED BY <4>2, <4>3
    <3>4. ASSUME NEW t \in Int
          PROVE  (\E i \in 1..(n + 1) : Within(J, i, t))
                 <=> (\E i \in 1..n : Within(missing, i, t)) \/ (a <= t /\ t < b)
      <4>1. \A i \in 1..n : Within(J, i, t) <=> Within(missing, i, t)
        BY <2>6 DEF Within
      <4>2. Within(J, n + 1, t) <=> a <= t /\ t < b
        BY <2>6 DEF Within
      <4>3. \A i \in 1..(n + 1) : i \in 1..n \/ i = n + 1
        BY <2>1
      <4>4. n + 1 \in 1..(n + 1) /\ \A i \in 1..n : i \in 1..(n + 1)
        BY <2>1
      <4> QED BY <4>1, <4>2, <4>3, <4>4
    <3> QED BY <2>2, <2>4, <2>6, <3>2, <3>3, <3>4
  <2> QED BY <1>2, <2>1, <2>5, <2>6, JoinFields
<1> QED BY <1>1, <1>2

\* The opens of the rows up to row n that close at the last unit of their minute,
\* and the anomalies of those that do not.
Timely(data, n) == {data[i].open : i \in {j \in 1..n : WellTimed(data[j])}}
OddRows(data, n) == {Anomaly(i, data[i]) : i \in {j \in 1..n : ~WellTimed(data[j])}}

\* The opens increase from start on.
Increasing(data, n, start) ==
    /\ \A i \in 1..n : data[i].open \in Int /\ start <= data[i].open
    /\ \A i, j \in 1..n : i < j => data[i].open < data[j].open

Scans(s, data, n, start) ==
    /\ s.odd = OddRows(data, n)
    /\ s.ok =>
         /\ Increasing(data, n, start)
         /\ s.expected \in Int /\ start <= s.expected
         /\ \A i \in 1..n : data[i].open < s.expected
         /\ Canonical(s.missing, start, s.expected, Timely(data, n))

LEMMA InspectRowFields ==
    ASSUME NEW s, NEW n, NEW row
    PROVE  /\ InspectRow(s, n, row).ok <=> s.ok /\ row.open >= s.expected
           /\ InspectRow(s, n, row).expected = row.open + 1
           /\ WellTimed(row) =>
                /\ InspectRow(s, n, row).missing = Join(s.missing, s.expected, row.open)
                /\ InspectRow(s, n, row).odd = s.odd
           /\ ~WellTimed(row) =>
                /\ InspectRow(s, n, row).missing = Join(s.missing, s.expected, row.open + 1)
                /\ InspectRow(s, n, row).odd = s.odd \cup {Anomaly(n, row)}
  BY DEF InspectRow

\* One more row.
LEMMA RowScans ==
    ASSUME NEW data, NEW n \in Nat, n >= 1, NEW start \in Int, NEW s, data[n].open \in Int,
           Scans(s, data, n - 1, start)
    PROVE  Scans(InspectRow(s, n, data[n]), data, n, start)
<1> DEFINE t == InspectRow(s, n, data[n])
           p == data[n].open
<1>1. /\ t.ok <=> s.ok /\ p >= s.expected
      /\ t.expected = p + 1
      /\ WellTimed(data[n]) => t.missing = Join(s.missing, s.expected, p) /\ t.odd = s.odd
      /\ ~WellTimed(data[n]) => /\ t.missing = Join(s.missing, s.expected, p + 1)
                                /\ t.odd = s.odd \cup {Anomaly(n, data[n])}
  BY InspectRowFields
<1> SUFFICES Scans(t, data, n, start)
  OBVIOUS
<1> HIDE DEF t
<1>2. \A i : i \in 1..n <=> i \in 1..(n - 1) \/ i = n
  OBVIOUS
<1>3. WellTimed(data[n]) => /\ Timely(data, n) = Timely(data, n - 1) \cup {p}
                            /\ OddRows(data, n) = OddRows(data, n - 1)
  BY <1>2 DEF Timely, OddRows
<1>4. ~WellTimed(data[n]) => /\ Timely(data, n) = Timely(data, n - 1)
                             /\ OddRows(data, n) = OddRows(data, n - 1) \cup {Anomaly(n, data[n])}
  BY <1>2 DEF Timely, OddRows
<1>5. t.odd = OddRows(data, n)
  BY <1>1, <1>3, <1>4 DEF Scans
<1>6. ASSUME t.ok
      PROVE  /\ Increasing(data, n, start)
             /\ t.expected \in Int /\ start <= t.expected
             /\ \A i \in 1..n : data[i].open < t.expected
             /\ Canonical(t.missing, start, t.expected, Timely(data, n))
  <2> DEFINE e == s.expected
  <2>1. /\ s.ok /\ p >= e /\ e \in Int /\ start <= e /\ p \in Int
        /\ \A i \in 1..(n - 1) : data[i].open < e
        /\ Canonical(s.missing, start, e, Timely(data, n - 1))
        /\ Increasing(data, n - 1, start)
    BY <1>1, <1>6 DEF Scans
  <2> HIDE DEF e
  <2>2. Increasing(data, n, start)
    <3>1. \A i \in 1..(n - 1) : data[i].open \in Int /\ start <= data[i].open /\ data[i].open < p
      BY <2>1 DEF Increasing
    <3>2. start <= p
      BY <2>1
    <3>3. \A i, j \in 1..(n - 1) : i < j => data[i].open < data[j].open
      BY <2>1 DEF Increasing
    <3>4. \A i, j \in 1..n : i < j => i \in 1..(n - 1)
      OBVIOUS
    <3> QED BY <1>2, <2>1, <3>1, <3>2, <3>3, <3>4 DEF Increasing
  <2>3. \A i \in 1..n : data[i].open < t.expected
    <3>1. \A i \in 1..(n - 1) : data[i].open \in Int
      BY <2>1 DEF Increasing
    <3> QED BY <1>1, <1>2, <2>1, <3>1
  <2>4. t.expected = p + 1 /\ t.expected \in Int /\ start <= t.expected
    BY <1>1, <2>1
  <2>5. \A c \in Timely(data, n - 1) : c \in Int /\ c < e
    BY <2>1 DEF Timely, Increasing
  <2>6. CASE ~WellTimed(data[n])
    <3>1. Canonical(Join(s.missing, e, p + 1), start, p + 1, Timely(data, n - 1))
      <4>1. p + 1 \in Int /\ e <= p + 1
        BY <2>1
      <4> QED BY <2>1, <2>5, <4>1, JoinCanonical
    <3> QED BY <1>1, <1>4, <2>2, <2>3, <2>4, <2>6, <3>1 DEF e
  <2>7. CASE WellTimed(data[n])
    <3> DEFINE M == Join(s.missing, e, p)
    <3>1. Canonical(M, start, p, Timely(data, n - 1))
      BY <2>1, <2>5, JoinCanonical
    <3>2. t.missing = M
      BY <1>1, <2>7 DEF e
    <3> HIDE DEF M
    <3>3. M \in Intervals /\ \A i \in DOMAIN M : M[i].start \in Int /\ M[i].end \in Int
      BY <3>1, IntervalTypes DEF Canonical
    <3>4. ASSUME NEW c \in Int
          PROVE  c \in start..(p + 1 - 1) /\ c \notin Timely(data, n)
                 <=> c \in start..(p - 1) /\ c \notin Timely(data, n - 1)
      BY <1>3, <2>1, <2>7
    <3>5. Canonical(M, start, p + 1, Timely(data, n))
      <4>1. \A i \in DOMAIN M : /\ M[i].start < M[i].end
                                /\ start <= M[i].start /\ M[i].end <= p + 1
        BY <2>1, <3>1, <3>3 DEF Canonical
      <4>2. \A i, j \in DOMAIN M : i < j => M[i].end < M[j].start
        BY <3>1 DEF Canonical
      <4>3. \A c \in Int : (\E i \in DOMAIN M : Within(M, i, c))
                           <=> c \in start..(p - 1) /\ c \notin Timely(data, n - 1)
        BY <3>1 DEF Canonical
      <4>4. \A c \in Int : (\E i \in DOMAIN M : Within(M, i, c))
                           <=> c \in start..(p + 1 - 1) /\ c \notin Timely(data, n)
        BY <3>4, <4>3, Zenon
      <4>5. M \in Intervals
        BY <3>3
      <4> QED BY <4>1, <4>2, <4>4, <4>5 DEF Canonical
    <3> QED BY <2>2, <2>3, <2>4, <3>2, <3>5
  <2> QED BY <2>6, <2>7
<1> QED BY <1>5, <1>6 DEF Scans

\* What the inspection declares of an archive it accepts.
LEMMA InspectionFacts ==
    ASSUME NEW m, NEW data, MonthStart(m) \in Int, MonthEnd(m) \in Int,
           MonthStart(m) <= MonthEnd(m), Len(data) \in Nat, DOMAIN data = 1..Len(data),
           \A n \in 1..Len(data) : data[n].open \in Int,
           InspectionAccepts(m, data)
    PROVE  /\ Increasing(data, Len(data), MonthStart(m))
           /\ \A i \in 1..Len(data) : data[i].open < MonthEnd(m)
           /\ Inspection(m, data).odd = OddRows(data, Len(data))
           /\ Canonical(Inspection(m, data).missing, MonthStart(m), MonthEnd(m),
                        Timely(data, Len(data)))
<1> DEFINE start == MonthStart(m)
           end == MonthEnd(m)
           k == Len(data)
           s == Scanned(m, data)
<1>1. PICK f : IsScan(f, m, data, k) /\ s = f[k]
  BY ScannedIs
<1>2. f[0] = ScanStart(m) /\ \A n \in 1..k : f[n] = InspectRow(f[n - 1], n, data[n])
  BY <1>1, ScanEquations
<1>3. Scans(f[0], data, 0, start)
  <2> DEFINE z == ScanStart(m)
  <2>1. z.odd = {} /\ z.expected = start /\ z.missing = <<>>
    BY DEF ScanStart
  <2> HIDE DEF z
  <2>2. OddRows(data, 0) = {} /\ Timely(data, 0) = {} /\ Increasing(data, 0, start)
    BY DEF OddRows, Timely, Increasing
  <2>3. Canonical(<<>>, start, start, {})
    <3>1. <<>> \in Intervals /\ DOMAIN <<>> = {}
      BY DEF Intervals
    <3> HIDE DEF start
    <3>2. start \in Int
      BY DEF start
    <3>3. \A t \in Int : ~(t \in start..(start - 1))
      BY <3>2
    <3> QED BY <3>1, <3>3, Zenon DEF Canonical
  <2>4. f[0] = z /\ start \in Int
    BY <1>2 DEF z
  <2> HIDE DEF start
  <2>5. Scans(z, data, 0, start)
    <3>1. Canonical(z.missing, start, z.expected, Timely(data, 0))
      BY <2>1, <2>2, <2>3, Zenon
    <3>2. \A i \in 1..0 : data[i].open < z.expected
      OBVIOUS
    <3>3. z.expected \in Int /\ start <= z.expected
      BY <2>1, <2>4
    <3>4. z.odd = OddRows(data, 0)
      BY <2>1, <2>2
    <3> QED BY <2>2, <3>1, <3>2, <3>3, <3>4, Zenon DEF Scans
  <2> QED BY <2>4, <2>5
<1>4. \A n \in 1..k : Scans(f[n - 1], data, n - 1, start) => Scans(f[n], data, n, start)
  <2> SUFFICES ASSUME NEW n \in 1..k, Scans(f[n - 1], data, n - 1, start)
               PROVE  Scans(f[n], data, n, start)
    OBVIOUS
  <2>1. n \in Nat /\ n >= 1 /\ data[n].open \in Int /\ start \in Int
    OBVIOUS
  <2> HIDE DEF start
  <2> QED BY <1>2, <2>1, RowScans
<1>5. Scans(s, data, k, start)
  <2> DEFINE T == {n \in Nat : n <= k /\ ~Scans(f[n], data, n, start)}
  <2> SUFFICES ASSUME T # {} PROVE FALSE
    BY <1>1
  <2>1. PICK n \in T : \A j \in T : n <= j
    <3>1. T \in SUBSET Nat
      OBVIOUS
    <3> HIDE DEF T
    <3> QED BY <3>1, LeastNumber
  <2>2. n # 0 /\ n \in Nat /\ n <= k
    BY <1>3, <2>1
  <2>3. n \in 1..k /\ n - 1 \in Nat /\ n - 1 \notin T /\ n - 1 <= k
    BY <2>1, <2>2
  <2>4. Scans(f[n - 1], data, n - 1, start)
    BY <2>3
  <2> QED BY <1>4, <2>1, <2>3, <2>4
<1> DEFINE e == s.expected
           W == Timely(data, k)
<1>6. s.ok /\ \A i \in 1..k : data[i].open < end
  BY DEF InspectionAccepts
<1>7. /\ s.odd = OddRows(data, k) /\ Increasing(data, k, start)
      /\ e \in Int /\ start <= e
      /\ \A i \in 1..k : data[i].open < e
      /\ Canonical(s.missing, start, e, W)
  BY <1>5, <1>6 DEF Scans
<1>8. e <= end
  <2>1. CASE k = 0
    BY <1>2, <1>1, <2>1 DEF ScanStart
  <2>2. CASE k # 0
    <3>1. k \in 1..k /\ e = data[k].open + 1
      BY <1>1, <1>2, <2>2, InspectRowFields
    <3> QED BY <1>6, <3>1
  <2> QED BY <2>1, <2>2
<1>9. \A c \in W : c \in Int /\ c < e
  BY <1>7 DEF Timely, Increasing
<1>10. /\ Inspection(m, data).odd = s.odd
       /\ Inspection(m, data).missing = Join(s.missing, e, end)
  BY DEF Inspection
<1> HIDE DEF e, W, s, start, end
<1>11. start \in Int /\ end \in Int
  BY DEF start, end
<1>12. Canonical(Join(s.missing, e, end), start, end, W)
  BY <1>7, <1>8, <1>9, <1>11, JoinCanonical
<1> QED BY <1>6, <1>7, <1>10, <1>12 DEF W, start, end
\* A set numbered by a set of rows has as many elements.
LEMMA NumberedSize ==
    ASSUME NEW I, IsFiniteSet(I), NEW T, NEW f \in [I -> T],
           \A i, j \in I : f[i] = f[j] => i = j, \A t \in T : \E i \in I : f[i] = t
    PROVE  IsFiniteSet(T) /\ Cardinality(T) = Cardinality(I)
<1>1. f \in Bijection(I, T)
  BY DEF Bijection, Injection, Surjection, IsInjective
<1>2. ExistsBijection(I, T)
  BY <1>1 DEF ExistsBijection
<1> QED BY <1>2, FS_Bijection

\* The rows of an archive are counted by the minutes with a candle and the odd rows.
LEMMA RowCount ==
    ASSUME NEW data, NEW n \in Nat, NEW start \in Int, Increasing(data, n, start)
    PROVE  /\ IsFiniteSet(Timely(data, n)) /\ IsFiniteSet(OddRows(data, n))
           /\ n = Cardinality(Timely(data, n)) + Cardinality(OddRows(data, n))
<1> DEFINE I == {j \in 1..n : WellTimed(data[j])}
           O == {j \in 1..n : ~WellTimed(data[j])}
<1>1. IsFiniteSet(1..n) /\ Cardinality(1..n) = n
  BY FS_Interval
<1>2. IsFiniteSet(I) /\ IsFiniteSet(O)
  BY <1>1, FS_Subset
<1>3. I \cup O = 1..n /\ I \cap O = {}
  OBVIOUS
<1>4. Cardinality(I) + Cardinality(O) = n
  <2>1. Cardinality(I \cup O) = Cardinality(I) + Cardinality(O) - Cardinality(I \cap O)
    BY <1>2, FS_Union
  <2>2. Cardinality(I) \in Nat /\ Cardinality(O) \in Nat /\ Cardinality({}) = 0
    BY <1>2, FS_CardinalityType, FS_EmptySet
  <2>3. Cardinality(I \cup O) = n /\ Cardinality(I \cap O) = 0
    BY <1>1, <1>3, <2>2, Zenon
  <2> HIDE DEF I, O
  <2> QED BY <2>1, <2>2, <2>3
<1>5. IsFiniteSet(Timely(data, n)) /\ Cardinality(Timely(data, n)) = Cardinality(I)
  <2> DEFINE f == [i \in I |-> data[i].open]
  <2>1. Timely(data, n) = {data[i].open : i \in I}
    BY DEF Timely
  <2>2. \A i, j \in I : f[i] = f[j] => i = j
    <3> SUFFICES ASSUME NEW i \in I, NEW j \in I, data[i].open = data[j].open, i # j
                 PROVE  FALSE
      OBVIOUS
    <3>1. i < j \/ j < i
      OBVIOUS
    <3>2. data[i].open < data[j].open \/ data[j].open < data[i].open
      BY <3>1 DEF Increasing
    <3> QED BY <3>2 DEF Increasing
  <2>3. f \in [I -> Timely(data, n)] /\ \A t \in Timely(data, n) : \E i \in I : f[i] = t
    BY <2>1
  <2> HIDE DEF f, I
  <2> QED BY <1>2, <2>2, <2>3, NumberedSize
<1>6. IsFiniteSet(OddRows(data, n)) /\ Cardinality(OddRows(data, n)) = Cardinality(O)
  <2> DEFINE g == [i \in O |-> Anomaly(i, data[i])]
  <2>1. OddRows(data, n) = {Anomaly(i, data[i]) : i \in O}
    BY DEF OddRows
  <2>2. \A i, j \in O : g[i] = g[j] => i = j
    BY DEF Anomaly
  <2>3. g \in [O -> OddRows(data, n)] /\ \A t \in OddRows(data, n) : \E i \in O : g[i] = t
    BY <2>1
  <2> HIDE DEF g, O
  <2> QED BY <1>2, <2>2, <2>3, NumberedSize
<1> QED BY <1>4, <1>5, <1>6

\* The rows of an archive the loader can take: within the month, in order, good or early.
Clean(data, start, end) ==
    /\ Len(data) \in Nat /\ DOMAIN data = 1..Len(data)
    /\ Increasing(data, Len(data), start)
    /\ \A n \in 1..Len(data) : data[n].open < end /\ data[n].close \in {"good", "early"}

\* A declaration of exactly the minutes without a good row.
Declares(r, data) ==
    /\ r.count = Len(data) /\ r.odd = OddRows(data, Len(data))
    /\ r.start \in Int /\ r.end \in Int /\ r.start <= r.end
    /\ Canonical(r.missing, r.start, r.end, Timely(data, Len(data)))
    /\ Clean(data, r.start, r.end)

\* The minutes it declares missing.
LEMMA DeclaredMinutes ==
    ASSUME NEW r, NEW data, Declares(r, data)
    PROVE  /\ MissingMinutes(r) = (r.start..(r.end - 1)) \ Timely(data, Len(data))
           /\ Timely(data, Len(data)) \subseteq r.start..(r.end - 1)
<1> DEFINE M == r.missing
           W == Timely(data, Len(data))
<1>1. /\ M \in Intervals
      /\ \A t \in Int : (\E i \in DOMAIN M : Within(M, i, t))
                        <=> t \in r.start..(r.end - 1) /\ t \notin W
      /\ r.start \in Int /\ r.end \in Int
  BY Zenon DEF Declares, Canonical
<1>2. \A i \in DOMAIN M : M[i].start \in Int /\ M[i].end \in Int
  BY <1>1, IntervalTypes
<1>3. \A t : t \in MissingMinutes(r) <=> t \in Int /\ \E i \in DOMAIN M : Within(M, i, t)
  <2> SUFFICES ASSUME NEW t
               PROVE  t \in MissingMinutes(r) <=> t \in Int /\ \E i \in DOMAIN M : Within(M, i, t)
    OBVIOUS
  <2>1. t \in MissingMinutes(r) <=> \E i \in DOMAIN M : t \in M[i].start..(M[i].end - 1)
    BY DEF MissingMinutes
  <2> QED BY <1>2, <2>1 DEF Within
<1>4. W \subseteq r.start..(r.end - 1)
  BY DEF Timely, Declares, Clean, Increasing
<1> HIDE DEF M, W
<1>5. MissingMinutes(r) = (r.start..(r.end - 1)) \ W
  BY <1>1, <1>3
<1> QED BY <1>4, <1>5 DEF W

\* The specification of such an archive is one the dataclass takes.
LEMMA DeclaredIsSpec ==
    ASSUME NEW r, NEW data, Declares(r, data), data # <<>>
    PROVE  SpecAccepts(r)
<1> DEFINE M == r.missing
           k == Len(data)
           W == Timely(data, k)
           Z == r.start..(r.end - 1)
<1>1. /\ r.count = k /\ r.odd = OddRows(data, k)
      /\ r.start \in Int /\ r.end \in Int /\ r.start <= r.end
      /\ k \in Nat /\ DOMAIN data = 1..k /\ Increasing(data, k, r.start)
      /\ \A n \in 1..k : data[n].open < r.end /\ data[n].close \in {"good", "early"}
  BY DEF Declares, Clean
<1>2. /\ M \in Intervals
      /\ \A i \in DOMAIN M : M[i].start < M[i].end /\ r.start <= M[i].start /\ M[i].end <= r.end
      /\ \A i, j \in DOMAIN M : i < j => M[i].end < M[j].start
  BY Zenon DEF Declares, Canonical
<1>3. DOMAIN M = 1..Len(M) /\ Len(M) \in Nat
      /\ \A i \in DOMAIN M : M[i].start \in Int /\ M[i].end \in Int
  BY <1>2, IntervalTypes
<1>4. MissingMinutes(r) = Z \ W /\ W \subseteq Z
  BY DeclaredMinutes
<1>5. r.count >= 1
  <2>1. k # 0
    BY <1>1 DEF Declares
  <2> QED BY <1>1, <2>1
<1>6. \A i \in DOMAIN M : /\ M[i].start >= (IF i = 1 THEN r.start ELSE M[i - 1].end)
                          /\ M[i].start < M[i].end /\ M[i].end <= r.end
  <2> SUFFICES ASSUME NEW i \in DOMAIN M
               PROVE  M[i].start >= (IF i = 1 THEN r.start ELSE M[i - 1].end)
    BY <1>2
  <2>1. CASE i = 1
    BY <1>1, <1>2, <1>3, <2>1
  <2>2. CASE i # 1
    <3>1. i - 1 \in DOMAIN M /\ i - 1 < i
      BY <1>3, <2>2
    <3>2. M[i - 1].end < M[i].start
      BY <1>2, <3>1
    <3> QED BY <1>3, <2>2, <3>1, <3>2
  <2> QED BY <2>1, <2>2
<1>7. \A a \in r.odd : \E n \in 1..k : a = Anomaly(n, data[n]) /\ ~WellTimed(data[n])
  BY <1>1 DEF OddRows
<1>8. \A a, b \in r.odd : a.row = b.row => a = b
  BY <1>7 DEF Anomaly
<1>9. \A a \in r.odd : /\ a.row \in 1..r.count
                       /\ a.close = "early"
                       /\ a.open \in MissingMinutes(r)
  <2> SUFFICES ASSUME NEW a \in r.odd
               PROVE  a.row \in 1..r.count /\ a.close = "early" /\ a.open \in MissingMinutes(r)
    OBVIOUS
  <2>1. PICK n \in 1..k : a = Anomaly(n, data[n]) /\ ~WellTimed(data[n])
    BY <1>7
  <2>2. a.row = n /\ a.open = data[n].open /\ a.close = data[n].close
    BY <2>1 DEF Anomaly
  <2>3. data[n].close = "early"
    BY <1>1, <2>1 DEF WellTimed
  <2>4. data[n].open \notin W
    <3> SUFFICES ASSUME data[n].open \in W PROVE FALSE
      OBVIOUS
    <3>1. PICK j \in 1..k : WellTimed(data[j]) /\ data[j].open = data[n].open
      BY DEF Timely
    <3>2. j # n /\ (j < n \/ n < j)
      BY <2>1, <3>1
    <3>3. data[j].open \in Int
      BY <1>1 DEF Increasing
    <3> QED BY <1>1, <3>1, <3>2, <3>3 DEF Increasing
  <2>5. data[n].open \in Z
    BY <1>1 DEF Increasing
  <2> QED BY <1>1, <1>4, <2>2, <2>3, <2>4, <2>5
<1>10. r.count = (r.end - r.start) - Cardinality(MissingMinutes(r)) + Cardinality(r.odd)
  <2>1. IsFiniteSet(W) /\ IsFiniteSet(r.odd) /\ k = Cardinality(W) + Cardinality(r.odd)
    BY <1>1, RowCount
  <2>2. IsFiniteSet(Z) /\ Cardinality(Z) = r.end - r.start
    <3>1. r.end - 1 \in Int
      BY <1>1
    <3>2. IsFiniteSet(Z) /\ Cardinality(Z) = IF r.start > r.end - 1 THEN 0 ELSE r.end - 1 - r.start + 1
      BY <1>1, <3>1, FS_Interval
    <3> HIDE DEF Z
    <3> QED BY <1>1, <3>2
  <2>3. Cardinality(Z \ W) = Cardinality(Z) - Cardinality(Z \cap W)
    BY <2>2, FS_Difference
  <2>4. Z \cap W = W
    BY <1>4
  <2>5. Cardinality(W) \in Nat /\ Cardinality(r.odd) \in Nat
    BY <2>1, FS_CardinalityType
  <2>6. Cardinality(MissingMinutes(r)) = Cardinality(Z) - Cardinality(W)
    BY <1>4, <2>3, <2>4, Zenon
  <2> HIDE DEF Z, W, k
  <2> QED BY <1>1, <2>1, <2>2, <2>5, <2>6
<1> HIDE DEF k, W, Z
<1> QED BY <1>5, <1>6, <1>8, <1>9, <1>10, Zenon DEF SpecAccepts, M
\* The loader stands behind the row that opened at o: at the interval that row lies in,
\* or at the next minute.
Stands(M, s, o) ==
    /\ s \in LoadState /\ s.ok /\ s.next \in 1..(Len(M) + 1)
    /\ \A i \in DOMAIN M : i < s.next => M[i].end <= o + 1
    /\ \/ /\ s.expected = o + 1
          /\ \A i \in DOMAIN M : i >= s.next => o + 1 <= M[i].start
       \/ /\ s.next \in DOMAIN M /\ M[s.next].start = s.expected
          /\ Within(M, s.next, o)

\* On the way to the next row, or to the end of the month, it passes what ended before.
Arrives(M, s, t, p, end, W) ==
    /\ t \in LoadState /\ t.ok /\ t.next \in 1..(Len(M) + 1)
    /\ t.used = s.used /\ t.candles = s.candles
    /\ \A i \in DOMAIN M : i < t.next => M[i].end <= p
    /\ p \in W \/ p = end => /\ t.expected = p
                             /\ \A i \in DOMAIN M : i >= t.next => p < M[i].start
    /\ p \notin W /\ p < end => /\ t.next \in DOMAIN M /\ M[t.next].start = t.expected
                                /\ Within(M, t.next, p)

LEMMA PassArrives ==
    ASSUME NEW M, NEW start \in Int, NEW end \in Int, NEW W, Canonical(M, start, end, W),
           NEW o \in Int, NEW p \in Int, start - 1 <= o, o < p, p <= end,
           \A c \in W : ~(o < c /\ c < p), \A c \in W : c < end,
           NEW s, Stands(M, s, o)
    PROVE  Arrives(M, s, PassIntervals(s, M, p), p, end, W)
<1> DEFINE t == PassIntervals(s, M, p)
           passed == Passed(s, M, p)
           gap(c) == \E i \in DOMAIN M : Within(M, i, c)
<1>1. /\ M \in Intervals
      /\ \A i \in DOMAIN M : M[i].start < M[i].end /\ start <= M[i].start /\ M[i].end <= end
      /\ \A i, j \in DOMAIN M : i < j => M[i].end < M[j].start
      /\ \A c \in Int : gap(c) <=> c \in start..(end - 1) /\ c \notin W
  BY Zenon DEF Canonical
<1>2. /\ DOMAIN M = 1..Len(M) /\ Len(M) \in Nat
      /\ \A i \in DOMAIN M : i \in Nat /\ M[i].start \in Int /\ M[i].end \in Int
  BY <1>1, IntervalTypes
<1>0. PICK n, e : n = s.next /\ e = s.expected
  OBVIOUS
<1>3. /\ s \in LoadState /\ s.ok /\ e \in Int /\ n \in 1..(Len(M) + 1) /\ n \in Nat
      /\ \A i \in DOMAIN M : i < n => M[i].end <= o + 1
      /\ \/ /\ e = o + 1
            /\ \A i \in DOMAIN M : i >= n => o + 1 <= M[i].start
         \/ /\ n \in DOMAIN M /\ M[n].start = e
            /\ M[n].start <= o /\ o < M[n].end
  BY <1>0 DEF Stands, Within, LoadState
<1>4. \A c \in Int : o < c /\ c < p => gap(c)
  <2> SUFFICES ASSUME NEW c \in Int, o < c, c < p PROVE gap(c)
    OBVIOUS
  <2>1. c \in start..(end - 1) /\ c \notin W
    OBVIOUS
  <2> HIDE DEF gap
  <2> QED BY <1>1, <2>1
<1> HIDE DEF gap
<1>5. ASSUME NEW i \in DOMAIN M, NEW c \in Int, i < n, Within(M, i, c) PROVE c <= o
  <2>1. M[i].end <= o + 1 /\ c < M[i].end /\ M[i].end \in Int
    BY <1>2, <1>3, <1>5 DEF Within
  <2> QED BY <2>1
\* The end of an interval is no missing minute.
<1>6. \A i \in DOMAIN M : ~gap(M[i].end)
  <2> SUFFICES ASSUME NEW i \in DOMAIN M, NEW j \in DOMAIN M, Within(M, j, M[i].end)
               PROVE  FALSE
    BY DEF gap
  <2>0. {M[i].start, M[i].end, M[j].start, M[j].end} \subseteq Int /\ i \in Nat /\ j \in Nat
    BY <1>2
  <2>1. CASE i < j
    <3>1. M[i].end < M[j].start
      BY <1>1, <2>1
    <3> QED BY <2>0, <3>1 DEF Within
  <2>2. CASE j < i
    <3>1. M[j].end < M[i].start /\ M[i].start < M[i].end
      BY <1>1, <2>2
    <3> QED BY <2>0, <3>1 DEF Within
  <2>3. CASE i = j
    BY <2>0, <2>3 DEF Within
  <2> QED BY <2>0, <2>1, <2>2, <2>3
<1>7. \A i \in DOMAIN M : M[i].end > o => M[i].end >= p
  <2> SUFFICES ASSUME NEW i \in DOMAIN M, M[i].end > o PROVE M[i].end >= p
    OBVIOUS
  <2>1. M[i].end \in Int /\ ~gap(M[i].end)
    BY <1>2, <1>6
  <2> QED BY <1>4, <2>1
\* The interval it stands at begins where it stands, if it begins before p.
<1>8. n \in DOMAIN M /\ M[n].start < p => M[n].start = e /\ o < M[n].end
  <2> SUFFICES ASSUME n \in DOMAIN M, M[n].start < p, e = o + 1,
                      \A i \in DOMAIN M : i >= n => o + 1 <= M[i].start
               PROVE  M[n].start = o + 1 /\ o < M[n].end
    BY <1>3
  <2>0. M[n].start \in Int /\ M[n].end \in Int /\ M[n].start < M[n].end /\ o + 1 <= M[n].start
    BY <1>1, <1>2, <1>3
  <2>1. CASE M[n].start = o + 1
    BY <2>0, <2>1
  <2>2. CASE M[n].start # o + 1
    <3>1. o + 1 < p /\ o + 1 \in Int /\ o < o + 1
      BY <2>0, <2>2
    <3>2. PICK i \in DOMAIN M : Within(M, i, o + 1)
      BY <1>4, <3>1 DEF gap
    <3>3. i > n
      <4>1. ~(i < n)
        BY <1>5, <3>1, <3>2
      <4>2. i # n
        BY <2>0, <2>2, <3>2 DEF Within
      <4> QED BY <1>2, <1>3, <4>1, <4>2
    <3>4. M[n].end < M[i].start /\ o + 1 <= M[n].start
      <4>1. M[n].end < M[i].start
        BY <1>1, <3>3
      <4>2. o + 1 <= M[n].start
        BY <1>3
      <4> QED BY <4>1, <4>2
    <3>5. M[i].start <= o + 1
      BY <3>2 DEF Within
    <3>6. M[i].start \in Int
      BY <1>2
    <3> QED BY <2>0, <3>4, <3>5, <3>6
  <2> QED BY <2>1, <2>2
\* Every later interval begins behind p, or is the one it stands at.
<1>9. \A i \in DOMAIN M : i > n => n \in DOMAIN M /\ M[n].end < M[i].start
  <2> SUFFICES ASSUME NEW i \in DOMAIN M, i > n PROVE n \in DOMAIN M /\ M[n].end < M[i].start
    OBVIOUS
  <2>1. i \in 1..Len(M) /\ n \in Nat /\ n >= 1 /\ Len(M) \in Nat
    BY <1>2, <1>3
  <2>2. n \in DOMAIN M
    BY <1>2, <2>1
  <2> QED BY <1>1, <2>2
<1>10. n \in DOMAIN M => o < M[n].end
  <2> SUFFICES ASSUME n \in DOMAIN M PROVE o < M[n].end
    OBVIOUS
  <2>1. M[n].start < M[n].end /\ M[n].start \in Int /\ M[n].end \in Int
    BY <1>1, <1>2
  <2>2. o + 1 <= M[n].start \/ o < M[n].end
    BY <1>3
  <2> QED BY <2>1, <2>2
<1>11. \A i \in DOMAIN M : i > n => p < M[i].start
  <2> SUFFICES ASSUME NEW i \in DOMAIN M, i > n PROVE p < M[i].start
    OBVIOUS
  <2>1. M[n].end < M[i].start /\ n \in DOMAIN M
    BY <1>9
  <2>2. M[n].end >= p
    BY <1>7, <1>10, <2>1
  <2>3. M[n].end \in Int /\ M[i].start \in Int
    BY <1>2, <2>1
  <2> QED BY <2>1, <2>2, <2>3
<1>12. passed \subseteq {n}
  <2> SUFFICES ASSUME NEW i \in passed, i # n PROVE FALSE
    OBVIOUS
  <2>1. i \in DOMAIN M /\ i > n /\ M[i].end <= p
    BY <1>0, <1>2, <1>3 DEF Passed
  <2>2. p < M[i].start /\ M[i].start < M[i].end
    BY <1>1, <1>11, <2>1
  <2> QED BY <1>2, <2>1, <2>2
<1>13. CASE passed = {}
  <2>1. t = s
    BY <1>1, <1>3, <1>13, PassFields
  <2>2. n \in DOMAIN M => M[n].end > p
    <3> SUFFICES ASSUME n \in DOMAIN M, ~(M[n].end > p) PROVE FALSE
      OBVIOUS
    <3>1. M[n].end <= p
      BY <1>2
    <3>2. n \in passed
      BY <1>0, <1>3, <3>1 DEF Passed
    <3> QED BY <1>13, <3>2
  <2> HIDE DEF t
  <2>3. \A i \in DOMAIN M : i < n => M[i].end <= p
    BY <1>2, <1>3
  <2>4. p \in W \/ p = end => /\ e = p
                              /\ \A i \in DOMAIN M : i >= n => p < M[i].start
    <3> SUFFICES ASSUME p \in W \/ p = end
                 PROVE  e = p /\ \A i \in DOMAIN M : i >= n => p < M[i].start
      OBVIOUS
    <3>1. ~gap(p)
      BY <1>1
    <3>2. n \in DOMAIN M => p < M[n].start
      <4> SUFFICES ASSUME n \in DOMAIN M PROVE p < M[n].start
        OBVIOUS
      <4>1. ~Within(M, n, p)
        BY <3>1 DEF gap
      <4> QED BY <1>2, <2>2, <4>1 DEF Within
    <3>3. \A i \in DOMAIN M : i >= n => p < M[i].start
      BY <1>2, <1>3, <1>11, <3>2
    <3>4. e = o + 1
      BY <1>2, <1>3, <3>2
    <3>5. o + 1 = p
      <4> SUFFICES ASSUME o + 1 # p PROVE FALSE
        OBVIOUS
      <4>1. o + 1 \in Int /\ o < o + 1 /\ o + 1 < p
        OBVIOUS
      <4>2. PICK i \in DOMAIN M : Within(M, i, o + 1)
        BY <1>4, <4>1 DEF gap
      <4>3. i >= n
        <5>1. ~(i < n)
          BY <1>5, <4>1, <4>2
        <5> QED BY <1>2, <1>3, <5>1
      <4>4. p < M[i].start /\ M[i].start <= o + 1
        BY <3>3, <4>2, <4>3 DEF Within
      <4> QED BY <1>2, <4>1, <4>4
    <3> QED BY <3>3, <3>4, <3>5
  <2>5. p \notin W /\ p < end => /\ n \in DOMAIN M /\ M[n].start = e
                                 /\ Within(M, n, p)
    <3> SUFFICES ASSUME p \notin W, p < end
                 PROVE  n \in DOMAIN M /\ M[n].start = e /\ Within(M, n, p)
      OBVIOUS
    <3>0. p \in start..(end - 1)
      OBVIOUS
    <3>1. PICK i \in DOMAIN M : Within(M, i, p)
      BY <1>1, <3>0 DEF gap
    <3>2. i = n
      <4>1. ~(i > n)
        BY <1>2, <1>11, <3>1 DEF Within
      <4>2. ~(i < n)
        BY <1>2, <1>5, <3>1
      <4> QED BY <1>2, <1>3, <4>1, <4>2
    <3>3. M[n].start = e
      <4>1. CASE M[n].start < p
        BY <1>8, <3>1, <3>2, <4>1
      <4>2. CASE M[n].start = p
        <5>1. e = o + 1
          BY <1>2, <1>3, <3>1, <3>2, <4>2
        <5>2. o + 1 = p
          <6> SUFFICES ASSUME o + 1 # p PROVE FALSE
            OBVIOUS
          <6>1. o + 1 \in Int /\ o < o + 1 /\ o + 1 < p
            OBVIOUS
          <6>2. PICK j \in DOMAIN M : Within(M, j, o + 1)
            BY <1>4, <6>1 DEF gap
          <6>3. j >= n
            <7>1. ~(j < n)
              BY <1>5, <6>1, <6>2
            <7> QED BY <1>2, <1>3, <7>1
          <6>4. j = n \/ p < M[j].start
            <7>1. j = n \/ j > n
              BY <1>2, <1>3, <6>3
            <7> QED BY <1>11, <7>1
          <6> QED BY <1>2, <4>2, <6>1, <6>2, <6>4 DEF Within
        <5> QED BY <4>2, <5>1, <5>2
      <4> QED BY <1>2, <3>1, <3>2, <4>1, <4>2 DEF Within
    <3> QED BY <3>1, <3>2, <3>3
  <2> QED BY <1>0, <1>3, <2>1, <2>3, <2>4, <2>5, Zenon DEF Arrives, t
<1>14. CASE passed # {}
  <2>1. passed = {n} /\ n \in DOMAIN M /\ M[n].end <= p
    <3>1. passed = {n}
      BY <1>12, <1>14
    <3> QED BY <3>1 DEF Passed
  <2>2. M[n].end = p
    BY <1>2, <1>7, <1>10, <2>1
  <2>3. M[n].start = e
    BY <1>1, <1>2, <1>8, <2>1, <2>2
  <2>4. PICK k \in passed :
          /\ t \in LoadState
          /\ t.ok <=> /\ s.ok /\ M[n].start = e
                      /\ \A i \in passed \ {n} : M[i].start = M[i - 1].end
          /\ t.expected = M[k].end /\ t.next = k + 1
          /\ t.used = s.used /\ t.candles = s.candles
    <3>1. /\ s \in LoadState /\ M \in Intervals /\ p \in Int
      BY <1>1, <1>3
    <3>2. \E k \in passed :
             /\ t \in LoadState
             /\ t.ok <=> /\ s.ok /\ M[s.next].start = s.expected
                         /\ \A i \in passed \ {s.next} : M[i].start = M[i - 1].end
             /\ t.expected = M[k].end /\ t.next = k + 1
             /\ t.used = s.used /\ t.candles = s.candles
      BY <1>14, <3>1, PassFields, ZenonT(30)
    <3> HIDE DEF t, passed
    <3> QED BY <1>0, <3>2, Zenon
  <2> HIDE DEF t
  <2>5. /\ t \in LoadState /\ t.ok /\ t.expected = p /\ t.next = n + 1
        /\ t.used = s.used /\ t.candles = s.candles
    <3>1. k = n /\ passed \ {n} = {}
      BY <2>1
    <3> QED BY <1>3, <2>2, <2>3, <2>4, <3>1
  <2>6. ~gap(p)
    BY <1>6, <2>1, <2>2
  <2>7. ~(p \notin W /\ p < end)
    <3> SUFFICES ASSUME p \notin W, p < end PROVE FALSE
      OBVIOUS
    <3>1. p \in start..(end - 1)
      OBVIOUS
    <3> QED BY <1>1, <2>6, <3>1
  <2>8. \A i \in DOMAIN M : i < t.next => M[i].end <= p
    <3> SUFFICES ASSUME NEW i \in DOMAIN M, i < n + 1 PROVE M[i].end <= p
      BY <2>5
    <3>1. i = n \/ i < n
      BY <1>2, <1>3
    <3>2. M[i].end \in Int
      BY <1>2
    <3>3. i < n => M[i].end <= o + 1
      BY <1>3
    <3> QED BY <2>2, <3>1, <3>2, <3>3
  <2>9. \A i \in DOMAIN M : i >= t.next => p < M[i].start
    <3> SUFFICES ASSUME NEW i \in DOMAIN M, i >= n + 1 PROVE p < M[i].start
      BY <2>5
    <3>1. i > n
      BY <1>2, <1>3
    <3> QED BY <1>11, <3>1
  <2>10. t.next \in 1..(Len(M) + 1)
    BY <1>2, <1>3, <2>1, <2>5
  <2> QED BY <2>5, <2>7, <2>8, <2>9, <2>10 DEF Arrives, t
<1> QED BY <1>13, <1>14
\* The minutes with a candle, and the rows around row n.
LEMMA TimelyRows ==
    ASSUME NEW data, NEW k \in Nat, NEW start \in Int, Increasing(data, k, start), NEW n \in 1..k
    PROVE  /\ data[n].open \in Timely(data, k) <=> WellTimed(data[n])
           /\ \A c \in Timely(data, k) :
                 /\ c \in Int /\ start <= c
                 /\ c < data[n].open => n > 1 /\ c <= data[n - 1].open
           /\ n > 1 => data[n - 1].open < data[n].open
<1>1. /\ \A i \in 1..k : data[i].open \in Int /\ start <= data[i].open
      /\ \A i, j \in 1..k : i < j => data[i].open < data[j].open
  BY DEF Increasing
<1>2. data[n].open \in Timely(data, k) => WellTimed(data[n])
  <2> SUFFICES ASSUME NEW j \in 1..k, WellTimed(data[j]), data[j].open = data[n].open
               PROVE  WellTimed(data[n])
    BY DEF Timely
  <2>1. j = n
    BY <1>1
  <2> QED BY <2>1
<1>3. WellTimed(data[n]) => data[n].open \in Timely(data, k)
  BY DEF Timely
<1>4. ASSUME NEW c \in Timely(data, k)
      PROVE  /\ c \in Int /\ start <= c
             /\ c < data[n].open => n > 1 /\ c <= data[n - 1].open
  <2>1. PICK j \in 1..k : c = data[j].open
    BY DEF Timely
  <2>2. c \in Int /\ start <= c
    BY <1>1, <2>1
  <2>3. ASSUME c < data[n].open PROVE n > 1 /\ c <= data[n - 1].open
    <3>1. j < n
      BY <1>1, <2>1, <2>3
    <3>2. n > 1 /\ n - 1 \in 1..k /\ (j = n - 1 \/ j < n - 1)
      BY <3>1
    <3> QED BY <1>1, <2>1, <3>2
  <2> QED BY <2>2, <2>3
<1>5. n > 1 => data[n - 1].open < data[n].open
  BY <1>1
<1> QED BY <1>2, <1>3, <1>4, <1>5

\* After n rows of an archive that is declared as it is.
Behind0(r, data, n) == IF n = 0 THEN r.start - 1 ELSE data[n].open

Reads(r, data, n, s) ==
    /\ Stands(r.missing, s, Behind0(r, data, n))
    /\ s.used = {j \in 1..n : ~WellTimed(data[j])}
    /\ s.candles = Timely(data, n)

LEMMA RowReads ==
    ASSUME NEW r, NEW data, Declares(r, data), NEW n \in 1..Len(data), NEW b,
           Reads(r, data, n - 1, b)
    PROVE  Reads(r, data, n, LoadRow(r, b, n, data[n]))
<1> DEFINE M == r.missing
           k == Len(data)
           W == Timely(data, k)
           o == Behind0(r, data, n - 1)
           p == data[n].open
           t == PassIntervals(b, M, p)
           s == LoadRow(r, b, n, data[n])
<1>1. /\ r.odd = OddRows(data, k) /\ r.start \in Int /\ r.end \in Int /\ r.start <= r.end
      /\ Canonical(M, r.start, r.end, W)
      /\ k \in Nat /\ Increasing(data, k, r.start)
      /\ \A i \in 1..k : data[i].open < r.end /\ data[i].close \in {"good", "early"}
  BY Zenon DEF Declares, Clean
<1>2. /\ n \in Nat /\ n >= 1 /\ n \in 1..k /\ n - 1 \in Nat
      /\ \A i \in 1..k : data[i].open \in Int /\ r.start <= data[i].open
  BY <1>1 DEF Increasing
<1>3. /\ p \in W <=> WellTimed(data[n])
      /\ \A c \in W : c \in Int /\ r.start <= c /\ (c < p => n > 1 /\ c <= data[n - 1].open)
      /\ n > 1 => data[n - 1].open < p
  BY <1>1, <1>2, TimelyRows
<1>4. o \in Int /\ p \in Int /\ r.start - 1 <= o /\ o < p /\ p <= r.end /\ p < r.end
  <2>1. CASE n = 1
    BY <1>1, <1>2, <2>1 DEF Behind0
  <2>2. CASE n # 1
    <3>1. n > 1 /\ n - 1 \in 1..k /\ o = data[n - 1].open
      BY <1>2, <2>2 DEF Behind0
    <3>2. o < p
      BY <1>3, <3>1
    <3>3. o \in Int /\ r.start <= o
      BY <1>2, <3>1
    <3>4. p \in Int /\ p < r.end
      BY <1>1, <1>2
    <3> HIDE DEF o, p
    <3> QED BY <1>1, <3>2, <3>3, <3>4
  <2> QED BY <2>1, <2>2
<1>5. /\ \A c \in W : ~(o < c /\ c < p)
      /\ \A c \in W : c < r.end
  <2>1. ASSUME NEW c \in W, o < c, c < p PROVE FALSE
    <3>1. n > 1 /\ c <= data[n - 1].open /\ c \in Int
      BY <1>3, <2>1
    <3>2. o = data[n - 1].open
      BY <1>2, <3>1 DEF Behind0
    <3> QED BY <1>4, <2>1, <3>1, <3>2
  <2>2. \A c \in W : c < r.end
    BY <1>1 DEF Timely
  <2> QED BY <2>1, <2>2
<1>6. Stands(M, b, o) /\ b.used = {j \in 1..(n - 1) : ~WellTimed(data[j])}
      /\ b.candles = Timely(data, n - 1)
  BY DEF Reads
<1>7. Arrives(M, b, t, p, r.end, W)
  <2> HIDE DEF M, W, o, p
  <2> QED BY <1>1, <1>4, <1>5, <1>6, PassArrives
<1>8. /\ t \in LoadState /\ t.ok /\ t.next \in 1..(Len(M) + 1)
      /\ t.used = b.used /\ t.candles = b.candles
      /\ \A i \in DOMAIN M : i < t.next => M[i].end <= p
      /\ p \in W => /\ t.expected = p
                    /\ \A i \in DOMAIN M : i >= t.next => p < M[i].start
      /\ p \notin W => /\ t.next \in DOMAIN M /\ M[t.next].start = t.expected
                       /\ Within(M, t.next, p)
  <2> HIDE DEF M, W, o, p, t
  <2> QED BY <1>4, <1>7 DEF Arrives
<1>9. RowLoaded(r, t, n, data[n], s)
  BY <1>2, <1>8, LoadRowFields
<1>10. M \in Intervals /\ DOMAIN M = 1..Len(M) /\ Len(M) \in Nat
       /\ \A i \in DOMAIN M : M[i].start \in Int /\ M[i].end \in Int
  <2>1. M \in Intervals
    BY <1>1 DEF Canonical
  <2> QED BY <2>1, IntervalTypes
<1>11. \A i : i \in 1..n <=> i \in 1..(n - 1) \/ i = n
  BY <1>2
<1>12. Behind0(r, data, n) = p
  BY <1>2 DEF Behind0
<1> SUFFICES Stands(M, s, p) /\ s.used = {j \in 1..n : ~WellTimed(data[j])}
             /\ s.candles = Timely(data, n)
  BY <1>12 DEF Reads
<1> HIDE DEF t, s, o
<1>13. CASE WellTimed(data[n])
  <2>1. p \in W /\ data[n].close = "good"
    BY <1>1, <1>2, <1>3, <1>13 DEF WellTimed
  <2>2. t.expected = p /\ \A i \in DOMAIN M : i >= t.next => p < M[i].start
    BY <1>8, <2>1
  <2>3. ~Inside(M, t, p)
    <3> SUFFICES ASSUME Inside(M, t, p) PROVE FALSE
      OBVIOUS
    <3>1. t.next \in DOMAIN M /\ M[t.next].start <= p
      BY DEF Inside, Within
    <3>2. t.next >= t.next
      BY <1>8
    <3>3. p < M[t.next].start
      BY <2>2, <3>1, <3>2
    <3> QED BY <1>4, <1>10, <3>1, <3>3
  <2>4. /\ s \in LoadState /\ s.next = t.next /\ s.expected = p + 1
        /\ s.candles = t.candles \cup {p} /\ s.used = t.used /\ s.ok
    BY <1>8, <1>9, <2>1, <2>2, <2>3 DEF RowLoaded
  <2>5. s.used = {j \in 1..n : ~WellTimed(data[j])}
    BY <1>6, <1>8, <1>11, <1>13, <2>4
  <2>6. s.candles = Timely(data, n)
    BY <1>6, <1>8, <1>11, <1>13, <2>4 DEF Timely
  <2>7. Stands(M, s, p)
    <3>1. ASSUME NEW i \in DOMAIN M, i < s.next PROVE M[i].end <= p + 1
      <4>1. M[i].end <= p
        BY <1>8, <2>4, <3>1
      <4>2. M[i].end \in Int /\ p \in Int
        BY <1>4, <1>10
      <4> QED BY <4>1, <4>2
    <3>2. ASSUME NEW i \in DOMAIN M, i >= s.next PROVE p + 1 <= M[i].start
      <4>1. p < M[i].start
        BY <2>2, <2>4, <3>2
      <4>2. M[i].start \in Int /\ p \in Int
        BY <1>4, <1>10
      <4> QED BY <4>1, <4>2
    <3>3. s.next \in 1..(Len(M) + 1)
      BY <1>8, <2>4
    <3> QED BY <2>4, <3>1, <3>2, <3>3, Zenon DEF Stands
  <2> QED BY <2>5, <2>6, <2>7
<1>14. CASE ~WellTimed(data[n])
  <2>1. p \notin W
    BY <1>3, <1>14
  <2>2. t.next \in DOMAIN M /\ M[t.next].start = t.expected /\ Within(M, t.next, p)
    BY <1>8, <2>1
  <2>3. Inside(M, t, p)
    BY <2>2 DEF Inside
  <2>4. Anomaly(n, data[n]) \in r.odd
    BY <1>1, <1>2, <1>14 DEF OddRows
  <2>5. /\ s \in LoadState /\ s.next = t.next /\ s.expected = t.expected
        /\ s.candles = t.candles /\ s.used = t.used \cup {n} /\ s.ok
    BY <1>8, <1>9, <2>3, <2>4 DEF RowLoaded
  <2>6. s.used = {j \in 1..n : ~WellTimed(data[j])}
    BY <1>2, <1>6, <1>8, <1>11, <1>14, <2>5
  <2>7. s.candles = Timely(data, n)
    BY <1>6, <1>8, <1>11, <1>14, <2>5 DEF Timely
  <2>8. Stands(M, s, p)
    <3>1. \A i \in DOMAIN M : i < s.next => M[i].end <= p + 1
      BY <1>4, <1>8, <1>10, <2>5
    <3>2. s.next \in 1..(Len(M) + 1) /\ s.next \in DOMAIN M /\ M[s.next].start = s.expected
          /\ Within(M, s.next, p)
      BY <1>8, <2>2, <2>5
    <3> QED BY <2>5, <3>1, <3>2, Zenon DEF Stands
  <2> QED BY <2>6, <2>7, <2>8
<1> QED BY <1>13, <1>14

\* The loader takes an archive that is declared as it is, and its candles are its
\* good rows.
LEMMA DeclaredIsLoadable ==
    ASSUME NEW r, NEW data, Declares(r, data)
    PROVE  /\ Loaded(r, data).ok /\ Loaded(r, data).expected = r.end
           /\ Loaded(r, data).used = {a.row : a \in r.odd}
           /\ Loaded(r, data).candles = Timely(data, Len(data))
<1> DEFINE M == r.missing
           k == Len(data)
           W == Timely(data, k)
           last == Loaded(r, data)
           o == Behind0(r, data, k)
<1>1. /\ r.odd = OddRows(data, k) /\ r.start \in Int /\ r.end \in Int /\ r.start <= r.end
      /\ Canonical(M, r.start, r.end, W)
      /\ k \in Nat /\ Increasing(data, k, r.start)
      /\ \A i \in 1..k : data[i].open < r.end
  BY Zenon DEF Declares, Clean
<1>2. PICK f : IsRead(f, r, data, k) /\ last = PassIntervals(f[k], M, r.end)
  BY <1>1, LoadedIs, Zenon
<1>3. f[0] = LoadStart(r) /\ \A n \in 1..k : f[n] = LoadRow(r, f[n - 1], n, data[n])
  BY <1>1, <1>2, ReadEquations
<1>4. M \in Intervals /\ DOMAIN M = 1..Len(M) /\ Len(M) \in Nat
      /\ (\A i \in DOMAIN M : M[i].start \in Int /\ M[i].end \in Int)
      /\ \A i \in DOMAIN M : r.start <= M[i].start /\ M[i].end <= r.end
  <2>1. M \in Intervals /\ \A i \in DOMAIN M : r.start <= M[i].start /\ M[i].end <= r.end
    BY <1>1 DEF Canonical
  <2> QED BY <2>1, IntervalTypes
<1>5. Reads(r, data, 0, f[0])
  <2> DEFINE z == LoadStart(r)
  <2>1. /\ z \in LoadState /\ z.ok /\ z.next = 1 /\ z.expected = r.start
        /\ z.used = {} /\ z.candles = {}
    BY <1>1 DEF LoadStart, LoadState
  <2> HIDE DEF z
  <2>2. Behind0(r, data, 0) = r.start - 1
    BY DEF Behind0
  <2>3. Stands(M, z, r.start - 1)
    <3>1. z.expected = r.start - 1 + 1
      BY <1>1, <2>1
    <3>2. \A i \in DOMAIN M : i >= z.next => r.start - 1 + 1 <= M[i].start
      BY <1>1, <1>4
    <3>3. \A i \in DOMAIN M : i < z.next => M[i].end <= r.start - 1 + 1
      BY <1>4, <2>1
    <3>4. z.next \in 1..(Len(M) + 1)
      BY <1>4, <2>1
    <3> QED BY <2>1, <3>1, <3>2, <3>3, <3>4, Zenon DEF Stands
  <2>4. Timely(data, 0) = {} /\ {j \in 1..0 : ~WellTimed(data[j])} = {}
    BY DEF Timely
  <2>5. f[0] = z
    BY <1>3 DEF z
  <2> QED BY <2>1, <2>2, <2>3, <2>4, <2>5 DEF Reads
<1>6. \A n \in 1..k : Reads(r, data, n - 1, f[n - 1]) => Reads(r, data, n, f[n])
  <2> SUFFICES ASSUME NEW n \in 1..k, Reads(r, data, n - 1, f[n - 1])
               PROVE  Reads(r, data, n, f[n])
    OBVIOUS
  <2>1. f[n] = LoadRow(r, f[n - 1], n, data[n])
    BY <1>3
  <2>2. Reads(r, data, n, LoadRow(r, f[n - 1], n, data[n]))
    BY RowReads
  <2> QED BY <2>1, <2>2, Zenon
<1>7. Reads(r, data, k, f[k])
  <2> DEFINE T == {n \in Nat : n <= k /\ ~Reads(r, data, n, f[n])}
  <2> HIDE DEF k
  <2> SUFFICES ASSUME T # {} PROVE FALSE
    BY <1>1
  <2>1. PICK n \in T : \A j \in T : n <= j
    <3>1. T \in SUBSET Nat
      OBVIOUS
    <3> HIDE DEF T
    <3> QED BY <3>1, LeastNumber
  <2>2. n # 0 /\ n \in Nat /\ n <= k
    BY <1>5, <2>1
  <2>3. n \in 1..k /\ n - 1 \in Nat /\ n - 1 \notin T /\ n - 1 <= k
    BY <1>1, <2>1, <2>2
  <2>4. Reads(r, data, n - 1, f[n - 1])
    BY <2>3
  <2> QED BY <1>6, <2>1, <2>3, <2>4
<1>8. /\ Stands(M, f[k], o) /\ f[k].used = {j \in 1..k : ~WellTimed(data[j])}
      /\ f[k].candles = W
  BY <1>7 DEF Reads
<1>9. /\ o \in Int /\ r.start - 1 <= o /\ o < r.end
      /\ \A c \in W : c \in Int /\ c <= o /\ c < r.end
  <2>1. CASE k = 0
    BY <1>1, <2>1 DEF Behind0, Timely
  <2>2. CASE k # 0
    <3>1. o = data[k].open /\ k \in 1..k
      BY <1>1, <2>2 DEF Behind0
    <3>2. \A i \in 1..k : data[i].open \in Int /\ r.start <= data[i].open /\ data[i].open < r.end
      BY <1>1 DEF Increasing
    <3>3. \A i \in 1..k : data[i].open <= data[k].open
      <4> SUFFICES ASSUME NEW i \in 1..k PROVE data[i].open <= data[k].open
        OBVIOUS
      <4>1. i = k \/ data[i].open < data[k].open
        BY <1>1, <3>1 DEF Increasing
      <4> QED BY <3>1, <3>2, <4>1
    <3>4. \A c \in W : \E i \in 1..k : c = data[i].open
      BY DEF Timely
    <3> HIDE DEF o, W
    <3>5. o \in Int /\ r.start <= o /\ o < r.end
      BY <3>1, <3>2
    <3> QED BY <1>1, <3>1, <3>2, <3>3, <3>4, <3>5
  <2> QED BY <2>1, <2>2
<1>10. Arrives(M, f[k], last, r.end, r.end, W)
  <2>1. \A c \in W : ~(o < c /\ c < r.end)
    BY <1>9
  <2>2. r.end <= r.end
    BY <1>1
  <2> HIDE DEF M, W, o, last, k
  <2>3. Arrives(M, f[k], PassIntervals(f[k], M, r.end), r.end, r.end, W)
    BY <1>1, <1>8, <1>9, <2>1, <2>2, PassArrives
  <2> QED BY <1>2, <2>3
<1>11. last.ok /\ last.expected = r.end /\ last.used = f[k].used /\ last.candles = f[k].candles
  <2> HIDE DEF M, W, o, last, k
  <2> QED BY <1>10 DEF Arrives
<1>12. f[k].used = {a.row : a \in r.odd}
  <2> DEFINE O == {j \in 1..k : ~WellTimed(data[j])}
  <2>1. r.odd = {Anomaly(j, data[j]) : j \in O} /\ f[k].used = O
    BY <1>1, <1>8 DEF OddRows
  <2>2. \A j : Anomaly(j, data[j]).row = j
    BY DEF Anomaly
  <2> HIDE DEF O
  <2>3. O = {a.row : a \in r.odd}
    <3>1. ASSUME NEW j \in O PROVE \E a \in r.odd : a.row = j
      <4>1. Anomaly(j, data[j]) \in r.odd
        BY <2>1
      <4> QED BY <2>2, <4>1
    <3>2. ASSUME NEW a \in r.odd PROVE a.row \in O
      <4>1. PICK j \in O : a = Anomaly(j, data[j])
        BY <2>1
      <4> QED BY <2>2, <4>1, Zenon
    <3>3. \A j : j \in O <=> j \in {a.row : a \in r.odd}
      BY <3>1, <3>2
    <3> QED BY <3>3
  <2> QED BY <2>1, <2>3
<1> QED BY <1>8, <1>11, <1>12
----------------------------------------------------------------------------
(* The builder. *)

Stage == {"over", "download", "rename", "inspect", "manifest", "validate", "publish"}

\* Whatever an archive holds, its rows have a time.
Readable(data) ==
    /\ Len(data) \in Nat /\ DOMAIN data = 1..Len(data)
    /\ \A n \in 1..Len(data) : data[n].open \in Int

ArchiveTypes ==
    /\ kind \in {"minute", "monthly"} /\ stage \in Stage /\ at \in Month
    /\ DOMAIN content = Month /\ \A m \in Month : Readable(content[m])
    /\ DOMAIN disk = Month
    /\ stage # "over" => directory

\* The records the builder holds are those of the archives as they are.
RecordsAreTrue ==
    /\ Len(records) \in 0..(Len(Bounds) - 1) /\ DOMAIN records = 1..Len(records)
    /\ \A m \in DOMAIN records : /\ records[m] = Record(m, content[m])
                                 /\ kind = "minute" => InspectionAccepts(m, content[m])
    /\ stage \in {"download", "rename", "inspect"} => at = Len(records) + 1
    /\ stage \in {"manifest", "validate", "publish"} => Len(records) = Len(Bounds) - 1

\* The draft is these records, and the loader has taken what is published.
DraftIsTrue ==
    /\ stage \in {"validate", "publish"} => draft = records
    /\ stage = "publish" => Validates(draft)
    /\ manifest # <<>> => /\ stage = "over" /\ directory
                          /\ manifest = records /\ Len(records) = Len(Bounds) - 1
                          /\ Validates(manifest)

ArchiveInv == ArchiveTypes /\ RecordsAreTrue /\ DraftIsTrue

LEMMA MonthBounds ==
    /\ Len(Bounds) \in Nat /\ Len(Bounds) >= 2 /\ 1 \in Month
    /\ \A m \in Month : /\ m \in Nat /\ MonthStart(m) \in Int /\ MonthEnd(m) \in Int
                        /\ MonthStart(m) < MonthEnd(m)
<1>1. Len(Bounds) \in Nat /\ Len(Bounds) >= 2
  BY ArchiveAssumption
<1>2. ASSUME NEW m \in Month
      PROVE  /\ m \in Nat /\ MonthStart(m) \in Int /\ MonthEnd(m) \in Int
             /\ MonthStart(m) < MonthEnd(m)
  <2>1. m \in 1..Len(Bounds) /\ m + 1 \in 1..Len(Bounds) /\ m \in 1..(Len(Bounds) - 1)
    BY <1>1 DEF Month
  <2> QED BY <2>1, ArchiveAssumption DEF MonthStart, MonthEnd
<1> QED BY <1>1, <1>2 DEF Month

\* What may arrive can be read.
LEMMA ContentsReadable ==
    ASSUME NEW m \in Month, NEW data \in Contents(m)
    PROVE  Readable(data)
<1>1. Readable(Broken)
  BY DEF Readable, Broken
<1>2. ASSUME NEW S, \A x \in S : x.open \in Int, NEW n \in Int, data \in BoundedSeq(S, n)
      PROVE  Readable(data)
  <2>1. PICK k \in 0..n : data \in [1..k -> S]
    BY <1>2 DEF BoundedSeq, SeqOf
  <2>2. CASE k \in Nat
    <3>1. data \in Seq(S) /\ Len(data) = k /\ DOMAIN data = 1..k
      BY <2>1, <2>2
    <3> QED BY <1>2, <2>1, <2>2, <3>1 DEF Readable
  <2> QED BY <2>1, <2>2
<1>3. /\ \A x \in Row(m) : x.open \in Int
      /\ \A x \in [open : {MonthStart(m), MonthEnd(m)}, close : RowKind] : x.open \in Int
  BY MonthBounds DEF Row
<1>4. MonthEnd(m) - MonthStart(m) \in Int /\ 2 \in Int
  BY MonthBounds
<1>5. \/ data = Broken \/ data \in BoundedSeq(Row(m), MonthEnd(m) - MonthStart(m))
      \/ data \in BoundedSeq([open : {MonthStart(m), MonthEnd(m)}, close : RowKind], 2)
  BY Zenon DEF Contents
<1>6. CASE data \in BoundedSeq(Row(m), MonthEnd(m) - MonthStart(m))
  BY <1>2, <1>3, <1>4, <1>6
<1>7. CASE data \in BoundedSeq([open : {MonthStart(m), MonthEnd(m)}, close : RowKind], 2)
  BY <1>2, <1>3, <1>4, <1>7
<1> QED BY <1>1, <1>5, <1>6, <1>7

\* What Append does to a sequence of anything.
LEMMA AppendFields ==
    ASSUME NEW q, NEW x, Len(q) \in Nat, DOMAIN q = 1..Len(q)
    PROVE  /\ Len(Append(q, x)) = Len(q) + 1
           /\ DOMAIN Append(q, x) = 1..(Len(q) + 1)
           /\ Append(q, x)[Len(q) + 1] = x
           /\ \A i \in 1..Len(q) : Append(q, x)[i] = q[i]
  OBVIOUS

LEMMA ArchiveStarts == ArchiveInit => ArchiveInv
<1> SUFFICES ASSUME ArchiveInit PROVE ArchiveInv
  OBVIOUS
<1>1. /\ kind \in {"minute", "monthly"} /\ stage = "over" /\ at = 1
      /\ DOMAIN content = Month /\ DOMAIN disk = Month
      /\ \A m \in Month : content[m] = NoContent
      /\ records = <<>> /\ manifest = <<>>
  BY DEF ArchiveInit
<1>2. Readable(NoContent)
  BY DEF Readable, NoContent
<1>3. ArchiveTypes
  BY <1>1, <1>2, MonthBounds DEF ArchiveTypes, Stage
<1>4. RecordsAreTrue
  BY <1>1, MonthBounds DEF RecordsAreTrue
<1>5. DraftIsTrue
  BY <1>1 DEF DraftIsTrue
<1> QED BY <1>3, <1>4, <1>5 DEF ArchiveInv

\* A record, and what the loader says of a list, depend on the files alone.
LEMMA SameRecord ==
    ASSUME kind' = kind, NEW m, content'[m] = content[m]
    PROVE  Record(m, content[m])' = Record(m, content[m])
  BY DEF Record

\* A step that leaves the files and the records as they are keeps what they say.
LEMMA FilesStay ==
    ASSUME ArchiveTypes, RecordsAreTrue, UNCHANGED <<kind, content, records>>
    PROVE  /\ Len(records') \in 0..(Len(Bounds) - 1) /\ DOMAIN records' = 1..Len(records')
           /\ \A m \in DOMAIN records' : /\ records'[m] = Record(m, content[m])'
                                         /\ kind' = "minute" => InspectionAccepts(m, content'[m])
<1>1. \A m \in DOMAIN records : Record(m, content[m])' = Record(m, content[m])
  BY SameRecord
<1> QED BY <1>1 DEF RecordsAreTrue

LEMMA ArchiveKeeps == ArchiveInv /\ [ArchiveNext]_archiveVars => ArchiveInv'
<1> SUFFICES ASSUME ArchiveInv, [ArchiveNext]_archiveVars
             PROVE  ArchiveTypes' /\ RecordsAreTrue' /\ DraftIsTrue'
  BY DEF ArchiveInv
<1>0. ArchiveTypes /\ RecordsAreTrue /\ DraftIsTrue
  BY DEF ArchiveInv
<1>a. stage # "over" => manifest = <<>>
  BY <1>0 DEF DraftIsTrue
<1>b. Len(Bounds) \in Nat /\ Len(Bounds) >= 2 /\ Month = 1..(Len(Bounds) - 1)
  BY MonthBounds DEF Month
<1>1. CASE Begin /\ ~directory
  <2>1. /\ stage' = "download" /\ at' = 1 /\ records' = <<>> /\ directory' = TRUE
        /\ UNCHANGED <<kind, disk, content, draft, manifest>>
    BY <1>1 DEF Begin, Begins
  <2>2. manifest' = <<>>
    BY <1>0, <1>1, <2>1 DEF DraftIsTrue
  <2>3. ArchiveTypes'
    BY <1>0, <1>b, <2>1 DEF ArchiveTypes, Stage
  <2>4. RecordsAreTrue'
    BY <1>b, <2>1 DEF RecordsAreTrue
  <2>5. DraftIsTrue'
    BY <2>1, <2>2 DEF DraftIsTrue
  <2> QED BY <2>3, <2>4, <2>5
<1>2. CASE UNCHANGED <<kind, stage, at, directory, disk, content, records, draft, manifest>>
  <2>1. ArchiveTypes'
    BY <1>0, <1>2 DEF ArchiveTypes
  <2>2. RecordsAreTrue'
    BY <1>0, <1>2, FilesStay, Zenon DEF RecordsAreTrue
  <2>3. (Validates(draft)' <=> Validates(draft)) /\ (Validates(manifest)' <=> Validates(manifest))
    BY <1>2 DEF Validates, ManifestAccepts, LoaderAccepts, Candles
  <2>4. DraftIsTrue'
    BY <1>0, <1>2, <2>3 DEF DraftIsTrue
  <2> QED BY <2>1, <2>2, <2>4
<1>3. CASE Download
  <2>1. PICK data \in Contents(at) : content' = [content EXCEPT ![at] = data]
    BY <1>3 DEF Download
  <2>2. /\ stage = "download" /\ stage' = "rename" /\ disk' = [disk EXCEPT ![at] = "part"]
        /\ UNCHANGED <<kind, directory, at, records, draft, manifest>>
    BY <1>3 DEF Download
  <2>3. at \in Month /\ Readable(data)
    BY <1>0, <2>1, ContentsReadable DEF ArchiveTypes
  <2>4. ArchiveTypes'
    <3>1. DOMAIN content' = Month /\ \A m \in Month : Readable(content'[m])
      BY <1>0, <2>1, <2>3 DEF ArchiveTypes
    <3>2. DOMAIN disk' = Month
      BY <1>0, <2>2 DEF ArchiveTypes
    <3> QED BY <1>0, <2>2, <3>1, <3>2 DEF ArchiveTypes, Stage
  <2>5. RecordsAreTrue'
    <3>1. at = Len(records) + 1 /\ DOMAIN records = 1..Len(records) /\ Len(records) \in Nat
      BY <1>0, <2>2 DEF RecordsAreTrue
    <3>2. \A m \in DOMAIN records : content'[m] = content[m]
      <4>1. \A m \in DOMAIN records : m # at /\ m \in Month
        BY <1>0, <1>b, <3>1 DEF RecordsAreTrue
      <4> QED BY <1>0, <2>1, <4>1 DEF ArchiveTypes
    <3>3. \A m \in DOMAIN records : Record(m, content[m])' = Record(m, content[m])
      BY <2>2, <3>2, SameRecord
    <3>4. \A m \in DOMAIN records' : /\ records'[m] = Record(m, content[m])'
                                     /\ kind' = "minute" => InspectionAccepts(m, content'[m])
      BY <1>0, <2>2, <3>2, <3>3 DEF RecordsAreTrue
    <3>5. /\ Len(records') \in 0..(Len(Bounds) - 1) /\ DOMAIN records' = 1..Len(records')
          /\ at' = Len(records') + 1
      BY <1>0, <2>2, <3>1 DEF RecordsAreTrue
    <3> QED BY <2>2, <3>4, <3>5 DEF RecordsAreTrue
  <2>6. DraftIsTrue'
    BY <1>a, <2>2 DEF DraftIsTrue
  <2> QED BY <2>4, <2>5, <2>6
<1>4. CASE \/ DownloadFails(TRUE) \/ DownloadFails(FALSE)
  <2>1. /\ stage = "download" /\ stage' \in {"download", "over"}
        /\ UNCHANGED <<kind, directory, at, disk, content, records, draft, manifest>>
    BY <1>4 DEF DownloadFails
  <2>2. ArchiveTypes'
    BY <1>0, <2>1 DEF ArchiveTypes, Stage
  <2>3. RecordsAreTrue'
    <3>1. at' = Len(records') + 1
      BY <1>0, <2>1 DEF RecordsAreTrue
    <3> QED BY <1>0, <2>1, <3>1, FilesStay DEF RecordsAreTrue
  <2>4. DraftIsTrue'
    BY <1>a, <2>1 DEF DraftIsTrue
  <2> QED BY <2>2, <2>3, <2>4
<1>5. CASE Rename
  <2>1. /\ stage = "rename" /\ stage' = "inspect" /\ disk' = [disk EXCEPT ![at] = "file"]
        /\ UNCHANGED <<kind, directory, at, content, records, draft, manifest>>
    BY <1>5 DEF Rename
  <2>2. ArchiveTypes'
    BY <1>0, <2>1 DEF ArchiveTypes, Stage
  <2>3. RecordsAreTrue'
    <3>1. at' = Len(records') + 1
      BY <1>0, <2>1 DEF RecordsAreTrue
    <3> QED BY <1>0, <2>1, <3>1, FilesStay DEF RecordsAreTrue
  <2>4. DraftIsTrue'
    BY <1>a, <2>1 DEF DraftIsTrue
  <2> QED BY <2>2, <2>3, <2>4
<1>6. CASE Inspect /\ ~(kind = "monthly" \/ InspectionAccepts(at, content[at]))
  <2>1. /\ stage = "inspect" /\ stage' = "over"
        /\ UNCHANGED <<kind, directory, at, disk, content, records, draft, manifest>>
    BY <1>6 DEF Inspect
  <2>2. ArchiveTypes'
    BY <1>0, <2>1 DEF ArchiveTypes, Stage
  <2>3. RecordsAreTrue'
    BY <1>0, <2>1, FilesStay DEF RecordsAreTrue
  <2>4. DraftIsTrue'
    BY <1>a, <2>1 DEF DraftIsTrue
  <2> QED BY <2>2, <2>3, <2>4
<1>7. CASE Inspect /\ (kind = "monthly" \/ InspectionAccepts(at, content[at]))
  <2> DEFINE x == Record(at, content[at])
             k == Len(records)
  <2>1. /\ stage = "inspect" /\ records' = Append(records, x)
        /\ UNCHANGED <<kind, directory, disk, content, draft, manifest>>
    BY <1>7 DEF Inspect
  <2>2. at + 1 \in Month => stage' = "download" /\ at' = at + 1
    BY <1>7 DEF Inspect
  <2>3. at + 1 \notin Month => stage' = "manifest" /\ at' = at
    BY <1>7 DEF Inspect
  <2>4. at = k + 1 /\ DOMAIN records = 1..k /\ k \in Nat /\ at \in Month /\ at \in Nat
    BY <1>0, <1>b, <2>1 DEF RecordsAreTrue, ArchiveTypes
  <2>5. ArchiveTypes'
    BY <1>0, <2>1, <2>2, <2>3 DEF ArchiveTypes, Stage
  <2> HIDE DEF x
  <2>6. /\ Len(records') = k + 1 /\ DOMAIN records' = 1..(k + 1) /\ records'[k + 1] = x
        /\ \A m \in 1..k : records'[m] = records[m]
    BY <2>1, <2>4, AppendFields
  <2>7. RecordsAreTrue'
    <3>1. \A m : Record(m, content[m])' = Record(m, content[m])
      BY <2>1, SameRecord
    <3>2. \A m \in 1..k : /\ records[m] = Record(m, content[m])
                          /\ kind = "minute" => InspectionAccepts(m, content[m])
      BY <1>0, <2>4 DEF RecordsAreTrue
    <3>3. ASSUME NEW m \in 1..(k + 1)
          PROVE  /\ records'[m] = Record(m, content[m])'
                 /\ kind' = "minute" => InspectionAccepts(m, content'[m])
      <4>1. CASE m = k + 1
        <5>1. kind = "minute" => InspectionAccepts(at, content[at])
          BY <1>7
        <5> QED BY <2>1, <2>4, <2>6, <3>1, <4>1, <5>1 DEF x
      <4>2. CASE m # k + 1
        <5>1. m \in 1..k
          BY <2>4, <4>2
        <5> QED BY <2>1, <2>6, <3>1, <3>2, <5>1
      <4> QED BY <4>1, <4>2
    <3>4. Len(records') \in 0..(Len(Bounds) - 1)
      BY <1>b, <2>4, <2>6
    <3>5. stage' = "download" => at' = Len(records') + 1
      BY <2>2, <2>3, <2>4, <2>6
    <3>6. stage' = "manifest" => Len(records') = Len(Bounds) - 1
      BY <1>b, <2>2, <2>3, <2>4, <2>6
    <3>7. stage' \in {"download", "manifest"}
      BY <2>2, <2>3
    <3>8. DOMAIN records' = 1..Len(records')
      BY <2>6
    <3> HIDE DEF k
    <3> QED BY <2>6, <3>3, <3>4, <3>5, <3>6, <3>7, <3>8 DEF RecordsAreTrue
  <2>8. DraftIsTrue'
    BY <1>a, <2>1, <2>2, <2>3 DEF DraftIsTrue
  <2> QED BY <2>5, <2>7, <2>8
<1>8. CASE WriteDraft
  <2>1. /\ stage = "manifest" /\ stage' = "validate" /\ draft' = records
        /\ UNCHANGED <<kind, directory, at, disk, content, records, manifest>>
    BY <1>8 DEF WriteDraft
  <2>2. ArchiveTypes'
    BY <1>0, <2>1 DEF ArchiveTypes, Stage
  <2>3. RecordsAreTrue'
    <3>1. Len(records') = Len(Bounds) - 1
      BY <1>0, <2>1 DEF RecordsAreTrue
    <3> QED BY <1>0, <2>1, <3>1, FilesStay DEF RecordsAreTrue
  <2>4. DraftIsTrue'
    BY <1>a, <2>1 DEF DraftIsTrue
  <2> QED BY <2>2, <2>3, <2>4
<1>9. CASE Validate
  <2>1. /\ stage = "validate" /\ stage' = IF Validates(draft) THEN "publish" ELSE "over"
        /\ UNCHANGED <<kind, directory, at, disk, content, records, draft, manifest>>
    BY <1>9 DEF Validate
  <2>2. stage' \in {"publish", "over"} /\ (stage' = "publish" => Validates(draft))
    BY <2>1
  <2>3. ArchiveTypes'
    BY <1>0, <2>1, <2>2 DEF ArchiveTypes, Stage
  <2>4. RecordsAreTrue'
    <3>1. Len(records') = Len(Bounds) - 1
      BY <1>0, <2>1 DEF RecordsAreTrue
    <3> QED BY <1>0, <2>1, <2>2, <3>1, FilesStay DEF RecordsAreTrue
  <2>5. Validates(draft)' <=> Validates(draft)
    BY <2>1 DEF Validates, ManifestAccepts, LoaderAccepts, Candles
  <2>6. DraftIsTrue'
    BY <1>0, <1>a, <2>1, <2>2, <2>5 DEF DraftIsTrue
  <2> QED BY <2>3, <2>4, <2>6
<1>10. CASE Publish
  <2>1. /\ stage = "publish" /\ stage' = "over" /\ manifest' = draft
        /\ UNCHANGED <<kind, directory, at, disk, content, records>>
    BY <1>10 DEF Publish
  <2>2. ArchiveTypes'
    BY <1>0, <2>1 DEF ArchiveTypes, Stage
  <2>3. RecordsAreTrue'
    BY <1>0, <2>1, FilesStay DEF RecordsAreTrue
  <2>4. Validates(draft) /\ draft = records /\ Len(records) = Len(Bounds) - 1
    BY <1>0, <2>1 DEF DraftIsTrue, RecordsAreTrue
  <2>5. Validates(manifest)' <=> Validates(draft)
    BY <2>1 DEF Validates, ManifestAccepts, LoaderAccepts, Candles
  <2>6. directory
    BY <1>0, <2>1 DEF ArchiveTypes
  <2>7. DraftIsTrue'
    BY <2>1, <2>4, <2>5, <2>6 DEF DraftIsTrue
  <2> QED BY <2>2, <2>3, <2>7
<1>11. CASE KillBuild
  <2>1. /\ stage # "over" /\ stage' = "over"
        /\ disk' = disk \/ disk' = [disk EXCEPT ![at] = "part"]
        /\ UNCHANGED <<kind, directory, at, content, records, draft, manifest>>
    BY <1>11 DEF KillBuild
  <2>2. ArchiveTypes'
    BY <1>0, <2>1 DEF ArchiveTypes, Stage
  <2>3. RecordsAreTrue'
    BY <1>0, <2>1, FilesStay DEF RecordsAreTrue
  <2>4. DraftIsTrue'
    BY <1>a, <2>1 DEF DraftIsTrue
  <2> QED BY <2>2, <2>3, <2>4
<1>12. CASE Begin /\ directory
  BY <1>2, <1>12 DEF Begin, Begins
<1>13. CASE UNCHANGED archiveVars
  BY <1>2, <1>13 DEF archiveVars
<1> QED
  BY <1>1, <1>3, <1>4, <1>5, <1>6, <1>7, <1>8, <1>9, <1>10, <1>11, <1>12, <1>13 DEF ArchiveNext

\* The builder's records and drafts are what the files say, whatever is killed.
THEOREM ArchiveInvHolds == ArchiveSpec => []ArchiveInv
<1>1. ArchiveInit => ArchiveInv
  BY ArchiveStarts
<1>2. ArchiveInv /\ [ArchiveNext]_archiveVars => ArchiveInv'
  BY ArchiveKeeps
<1> QED BY <1>1, <1>2, PTL DEF ArchiveSpec

\* What the builder holds of an archive, and where its intervals are.
LEMMA HeldRecord ==
    ASSUME ArchiveInv, kind = "minute", NEW m \in DOMAIN records
    PROVE  /\ m \in Month /\ records[m] = Inspection(m, content[m])
           /\ InspectionAccepts(m, content[m]) /\ Readable(content[m])
           /\ Increasing(content[m], Len(content[m]), MonthStart(m))
           /\ \A i \in 1..Len(content[m]) : content[m][i].open < MonthEnd(m)
           /\ records[m].odd = OddRows(content[m], Len(content[m]))
           /\ records[m].sha = content[m] /\ records[m].count = Len(content[m])
           /\ records[m].start = MonthStart(m) /\ records[m].end = MonthEnd(m)
           /\ Canonical(records[m].missing, MonthStart(m), MonthEnd(m),
                        Timely(content[m], Len(content[m])))
<1> DEFINE data == content[m]
<1>1. m \in Month /\ records[m] = Record(m, data) /\ InspectionAccepts(m, data)
  BY MonthBounds DEF ArchiveInv, RecordsAreTrue, Month
<1>2. records[m] = Inspection(m, data)
  BY <1>1, Zenon DEF Record
<1>3. Readable(data)
  BY <1>1 DEF ArchiveInv, ArchiveTypes
<1>4. /\ MonthStart(m) \in Int /\ MonthEnd(m) \in Int /\ MonthStart(m) <= MonthEnd(m)
  BY <1>1, MonthBounds
<1>5. /\ Inspection(m, data).sha = data /\ Inspection(m, data).count = Len(data)
      /\ Inspection(m, data).start = MonthStart(m) /\ Inspection(m, data).end = MonthEnd(m)
  BY DEF Inspection
<1> HIDE DEF data
<1>6. /\ Increasing(data, Len(data), MonthStart(m))
      /\ \A i \in 1..Len(data) : data[i].open < MonthEnd(m)
      /\ Inspection(m, data).odd = OddRows(data, Len(data))
      /\ Canonical(Inspection(m, data).missing, MonthStart(m), MonthEnd(m),
                   Timely(data, Len(data)))
  BY <1>1, <1>3, <1>4, InspectionFacts DEF Readable
<1> QED BY <1>1, <1>2, <1>3, <1>5, <1>6, Zenon DEF data

\* The scan of archive_fetch.py and the scan of dataset.py agree on every archive:
\* what the builder declares is a specification the manifest takes and the loader
\* accepts, and the candles are exactly the minutes with a good row.
THEOREM TheScansAgree == ArchiveSpec => []InspectedIsLoadable
<1>1. ArchiveInv => InspectedIsLoadable
  <2> SUFFICES ASSUME ArchiveInv, kind = "minute", NEW m \in DOMAIN records,
                      content[m] # <<>>,
                      \A i \in DOMAIN content[m] : content[m][i].close \in {"good", "early"}
               PROVE  /\ SpecAccepts(records[m]) /\ LoaderAccepts(records[m], content[m])
                      /\ Candles(records[m], content[m])
                         = {content[m][i].open :
                              i \in {j \in DOMAIN content[m] : content[m][j].close = "good"}}
    BY DEF InspectedIsLoadable
  <2> DEFINE data == content[m]
             r == records[m]
  <2>1. /\ InspectionAccepts(m, data) /\ Readable(data) /\ m \in Month
        /\ Increasing(data, Len(data), MonthStart(m))
        /\ \A i \in 1..Len(data) : data[i].open < MonthEnd(m)
        /\ r.odd = OddRows(data, Len(data))
        /\ r.sha = data /\ r.count = Len(data)
        /\ r.start = MonthStart(m) /\ r.end = MonthEnd(m)
        /\ Canonical(r.missing, MonthStart(m), MonthEnd(m), Timely(data, Len(data)))
    BY HeldRecord
  <2>2. \A i \in DOMAIN data : data[i].close \in {"good", "early"}
    OBVIOUS
  <2>3. data # <<>>
    OBVIOUS
  <2> HIDE DEF data, r
  <2>4. /\ MonthStart(m) \in Int /\ MonthEnd(m) \in Int /\ MonthStart(m) <= MonthEnd(m)
    BY <2>1, MonthBounds
  <2>5. Clean(data, r.start, r.end)
    BY <2>1, <2>2 DEF Clean, Readable
  <2>6. Declares(r, data)
    BY <2>1, <2>4, <2>5 DEF Declares
  <2>7. SpecAccepts(r)
    BY <2>3, <2>6, DeclaredIsSpec
  <2>8. /\ Loaded(r, data).ok /\ Loaded(r, data).expected = r.end
        /\ Loaded(r, data).used = {a.row : a \in r.odd}
        /\ Loaded(r, data).candles = Timely(data, Len(data))
    BY <2>6, DeclaredIsLoadable
  <2>9. data # Broken
    BY <2>1 DEF InspectionAccepts
  <2>10. LoaderAccepts(r, data)
    BY <2>1, <2>8, <2>9, Zenon DEF LoaderAccepts
  <2>11. Candles(r, data) = Timely(data, Len(data))
    BY <2>8, Zenon DEF Candles
  <2>12. {j \in 1..Len(data) : WellTimed(data[j])} = {j \in DOMAIN data : data[j].close = "good"}
    BY <2>1, <2>2 DEF WellTimed, Readable
  <2>13. Timely(data, Len(data))
         = {data[i].open : i \in {j \in DOMAIN data : data[j].close = "good"}}
    BY <2>12, Zenon DEF Timely
  <2> QED BY <2>7, <2>10, <2>11, <2>13 DEF data, r
<1> QED BY <1>1, ArchiveInvHolds, PTL

\* A manifest stands beside a complete dataset: every archive is there and loads, its
\* candles and declared minutes divide the month, and a native archive is the one
\* candle of its month, whatever was killed.
THEOREM PublishedDatasetsAreComplete == ArchiveSpec => []PublishedIsComplete
<1>1. ArchiveInv => PublishedIsComplete
  <2> SUFFICES ASSUME ArchiveInv, manifest # <<>> PROVE PublishedIsComplete
    BY DEF PublishedIsComplete
  <2>1. /\ manifest = records /\ Len(records) = Len(Bounds) - 1 /\ Validates(manifest)
        /\ DOMAIN records = 1..Len(records)
    BY DEF ArchiveInv, DraftIsTrue, RecordsAreTrue
  <2>2. ASSUME kind = "minute", NEW m \in Month
        PROVE  /\ Candles(manifest[m], content[m]) \cup MissingMinutes(manifest[m]) = Minutes(m)
               /\ Candles(manifest[m], content[m]) \cap MissingMinutes(manifest[m]) = {}
    <3> DEFINE data == content[m]
               r == manifest[m]
    <3>1. m \in DOMAIN records
      BY <2>1 DEF Month
    <3>2. /\ Readable(data) /\ r.start = MonthStart(m) /\ r.end = MonthEnd(m)
          /\ Canonical(r.missing, MonthStart(m), MonthEnd(m), Timely(data, Len(data)))
      BY <2>1, <2>2, <3>1, HeldRecord
    <3>3. SpecAccepts(r) /\ LoaderAccepts(r, data)
      BY <2>1, <2>2, <3>1 DEF Validates, ManifestAccepts
    <3>4. /\ MonthStart(m) \in Int /\ MonthEnd(m) \in Int /\ MonthStart(m) < MonthEnd(m)
      BY MonthBounds
    <3> HIDE DEF data, r
    <3>5. r.missing \in Intervals
      BY <3>2 DEF Canonical
    <3>6. Follow(r.missing, r.start, r.end)
      BY <3>2, <3>3, <3>4, <3>5, SpecFollows
    <3>7. Loaded(r, data).ok /\ Loaded(r, data).expected = r.end
      BY <2>2, <3>3, Zenon DEF LoaderAccepts
    <3>8. /\ Loaded(r, data).candles \cup MissingMinutes(r) = r.start..(r.end - 1)
          /\ Loaded(r, data).candles \cap MissingMinutes(r) = {}
      BY <3>2, <3>4, <3>5, <3>6, <3>7, LoadedDivides DEF Readable
    <3>9. Candles(r, data) = Loaded(r, data).candles /\ Minutes(m) = r.start..(r.end - 1)
      BY <2>2, <3>2, Zenon DEF Candles, Minutes
    <3> QED BY <3>8, <3>9 DEF data, r
  <2>3. ASSUME kind = "monthly", NEW m \in Month
        PROVE  /\ Len(content[m]) = 1
               /\ content[m][1].open = MonthStart(m) /\ content[m][1].close = "good"
    <3>1. m \in DOMAIN manifest
      BY <2>1 DEF Month
    <3>2. LoaderAccepts(manifest[m], content[m]) /\ kind # "minute"
      BY <2>1, <2>3, <3>1 DEF Validates
    <3>3. MonthlyAccepts(manifest[m], content[m])
      BY <3>2, Zenon DEF LoaderAccepts
    <3>4. manifest[m] = Record(m, content[m])
      BY <2>1, <3>1 DEF ArchiveInv, RecordsAreTrue
    <3>5. manifest[m].start = MonthStart(m)
      BY <3>2, <3>4 DEF Record, NativeRecord
    <3> QED BY <3>3, <3>5 DEF MonthlyAccepts
  <2> QED BY <2>1, <2>2, <2>3 DEF PublishedIsComplete
<1> QED BY <1>1, ArchiveInvHolds, PTL
============================================================================
