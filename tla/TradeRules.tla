----------------------------- MODULE TradeRules -----------------------------
(***************************************************************************)
(* The arithmetic of one candle: the pure rules of lifecycle/engine.py,    *)
(* lifecycle/models.py and management/engine.py.  Prices are integers.  R  *)
(* is kept exact: a signal's total risk is fixed by its terms, so an R of  *)
(* net / TotalRisk is carried as the net result alone, in halves of the    *)
(* position (the fractions a track can hold are 1 and 1/2), and compared   *)
(* with the triggers by multiplying out.                                   *)
(***************************************************************************)
EXTENDS Integers

CONSTANTS
    PartialTrigger    \* partial_trigger_r in half R, or 0: disabled (the default)

BreakEvenTrigger == 3     \* break_even_trigger_r = 1.5, in half R

\* A partial exit may not precede break-even protection.
ASSUME PartialTriggerAssumption ==
    PartialTrigger \in Nat /\ (PartialTrigger = 0 \/ PartialTrigger >= BreakEvenTrigger)

WholePosition == 2        \* remaining_fraction '1', in halves
HalfPosition == 1         \* partial_fraction = 0.5

Long(t) == t.side = "LONG"

ConservativeEntry(t) == IF Long(t) THEN t.entry_high ELSE t.entry_low

TouchesEntry(t, c) == c.low <= t.entry_high /\ c.high >= t.entry_low

TouchesStop(t, stop, c) == IF Long(t) THEN c.low <= stop ELSE c.high >= stop

TouchesTarget(t, c) == IF Long(t) THEN c.high >= t.target ELSE c.low <= t.target

\* A gap beyond the stop is filled at the worse open, except on the activation
\* candle: the trade did not exist at its open.
StopFill(t, stop, c, activationCandle) ==
    IF activationCandle THEN stop
    ELSE IF Long(t) THEN (IF c.open < stop THEN c.open ELSE stop)
                    ELSE (IF c.open > stop THEN c.open ELSE stop)

----------------------------------------------------------------------------
(* Result accounting: net R = (directional P&L - cost) / (risk + cost). *)

Directional(t, fill, price) == IF Long(t) THEN price - fill ELSE fill - price

Net(t, fill, price) == Directional(t, fill, price) - t.cost

TotalRisk(t, fill) == t.cost - Directional(t, fill, t.original_stop)

\* What SignalTerms accepts: the zone lies between stop and target, and TP1 pays
\* at least 2R net of costs when entered at the worse end of the zone.
ValidTerms(t) ==
    /\ t.side \in {"LONG", "SHORT"}
    /\ {t.entry_low, t.entry_high, t.original_stop, t.target} \subseteq Int
    /\ t.cost \in Nat
    /\ t.entry_low <= t.entry_high
    /\ Long(t) => t.original_stop < t.entry_low /\ t.target > t.entry_high
    /\ ~Long(t) => t.original_stop > t.entry_high /\ t.target < t.entry_low
    /\ Net(t, ConservativeEntry(t), t.target) >= 2 * TotalRisk(t, ConservativeEntry(t))

ValidCandle(c) ==
    /\ {c.open, c.high, c.low, c.close} \subseteq Int
    /\ c.low <= c.open /\ c.low <= c.close
    /\ c.open <= c.high /\ c.close <= c.high

TrackResult(t, fill, row, price) ==
    row.realized_r + row.remaining_fraction * Net(t, fill, price)

\* Mutation: every stop of a protected track counts as break-even.
ProtectedIsBreakEven(t, fill, row, price, target) ==
    [result |-> IF target THEN "WIN"
                ELSE IF row.current_stop # t.original_stop THEN "BREAK_EVEN" ELSE "LOSS",
     result_r |-> TrackResult(t, fill, row, price),
     close_event |-> IF target THEN "TP1_HIT" ELSE "STOP_LOSS_HIT"]

\* The result of a close, from where the track was stopped and what it nets.
ClosingAt(t, fill, row, price, target) ==
    LET net == TrackResult(t, fill, row, price)
        protected == row.current_stop # t.original_stop
        closing(result, e) == [result |-> result, result_r |-> net, close_event |-> e]
    IN  CASE target                        -> closing("WIN", "TP1_HIT")
          [] ~target /\ protected /\ net = 0 -> closing("BREAK_EVEN", "BREAK_EVEN")
          [] ~target /\ protected /\ net > 0 -> closing("EARLY_EXIT", "EARLY_EXIT")
          [] OTHER                         -> closing("LOSS", "STOP_LOSS_HIT")

\* What one candle does to one open track: stop before target, and no target
\* on the activation candle.
Exits(t, row, c, activationCandle) ==
    \/ TouchesStop(t, row.current_stop, c)
    \/ TouchesTarget(t, c) /\ ~activationCandle

ExitClosing(t, fill, row, c, activationCandle) ==
    IF TouchesStop(t, row.current_stop, c)
    THEN ClosingAt(t, fill, row, StopFill(t, row.current_stop, c, activationCandle), FALSE)
    ELSE ClosingAt(t, fill, row, t.target, TRUE)

ExitAction(t, row, c) ==
    IF ~TouchesStop(t, row.current_stop, c) THEN "TARGET_CLOSED"
    ELSE IF TouchesTarget(t, c) THEN "AMBIGUOUS_STOP_FIRST" ELSE "STOP_CLOSED"

----------------------------------------------------------------------------
(* Management: one decision per completed candle of an open managed track. *)

BreakEvenStop(t, fill) == IF Long(t) THEN fill + t.cost ELSE fill - t.cost

\* current_r >= halves / 2, without the division.
Reached(t, fill, price, halves) == 2 * Net(t, fill, price) >= halves * TotalRisk(t, fill)

Protects(t, fill, row, c, activationCandle) ==
    /\ ~activationCandle
    /\ row.current_stop = t.original_stop
    /\ Reached(t, fill, c.close, BreakEvenTrigger)

TakesPartial(t, fill, row, c, activationCandle) ==
    /\ ~activationCandle
    /\ ~Protects(t, fill, row, c, activationCandle)
    /\ PartialTrigger # 0
    /\ row.remaining_fraction = WholePosition
    /\ Reached(t, fill, c.close, PartialTrigger)

----------------------------------------------------------------------------
(* Properties of the rules. *)

\* The rows a track can have between two candles: unprotected, it still holds
\* the whole position and has banked nothing.
SoundRow(t, row) ==
    /\ row.current_stop \in Int
    /\ row.realized_r \in Nat
    /\ row.remaining_fraction \in {HalfPosition, WholePosition}
    /\ row.current_stop = t.original_stop =>
          row.remaining_fraction = WholePosition /\ row.realized_r = 0

\* A result says what the books show: only a win or an early exit gains, only a
\* loss loses.
Truthful(closing) ==
    CASE closing.result \in {"WIN", "EARLY_EXIT"} -> closing.result_r > 0
      [] closing.result = "BREAK_EVEN" -> closing.result_r = 0
      [] closing.result = "LOSS" -> closing.result_r < 0
============================================================================
