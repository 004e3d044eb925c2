-------------------------- MODULE TradeRulesProofs --------------------------
(***************************************************************************)
(* The result accounting, for every price, cost and trigger: what the      *)
(* engines call a loss loses, and what they call protected cannot.         *)
(***************************************************************************)
EXTENDS TradeRules, TLAPS

\* Every amount the rules compute from integer prices is an integer.
LEMMA RulesAreIntegers ==
    ASSUME NEW t, ValidTerms(t), NEW price \in Int
    PROVE  /\ ConservativeEntry(t) \in Int
           /\ TotalRisk(t, ConservativeEntry(t)) \in Int
           /\ Net(t, ConservativeEntry(t), price) \in Int
           /\ BreakEvenStop(t, ConservativeEntry(t)) \in Int
BY DEF ValidTerms, ConservativeEntry, TotalRisk, Net, Directional, BreakEvenStop

\* R is defined at all: whatever the costs, a valid signal risks something.
THEOREM RiskIsPositive ==
    ASSUME NEW t, ValidTerms(t)
    PROVE  TotalRisk(t, ConservativeEntry(t)) > 0
BY DEF ValidTerms, TotalRisk, Directional, ConservativeEntry, Long

\* An exit at the original stop costs one R, fees included.
THEOREM StopCostsOneR ==
    ASSUME NEW t, ValidTerms(t)
    PROVE  Net(t, ConservativeEntry(t), t.original_stop) = -TotalRisk(t, ConservativeEntry(t))
BY DEF ValidTerms, Net, TotalRisk, Directional, ConservativeEntry, Long

\* An exit at the protected stop nets nothing, fees included, and the protected
\* stop is another one than the original.
THEOREM BreakEvenIsCostFree ==
    ASSUME NEW t, ValidTerms(t)
    PROVE  /\ Net(t, ConservativeEntry(t), BreakEvenStop(t, ConservativeEntry(t))) = 0
           /\ BreakEvenStop(t, ConservativeEntry(t)) # t.original_stop
BY DEF ValidTerms, Net, Directional, ConservativeEntry, BreakEvenStop, Long

\* A gap only makes a stop worse.
LEMMA GapsCost ==
    ASSUME NEW t, ValidTerms(t), NEW stop \in Int, NEW c, ValidCandle(c),
           NEW activationCandle \in BOOLEAN
    PROVE  /\ StopFill(t, stop, c, activationCandle) \in Int
           /\ Net(t, ConservativeEntry(t), StopFill(t, stop, c, activationCandle))
                <= Net(t, ConservativeEntry(t), stop)
BY DEF ValidTerms, ValidCandle, StopFill, Net, Directional, ConservativeEntry, Long

\* A partial exit is only ever taken from a protected position, because the
\* partial trigger may not precede the break-even trigger: a banked profit is
\* never left next to an unprotected rest.
THEOREM PartialNeedsProtection ==
    ASSUME NEW t, ValidTerms(t), NEW row, SoundRow(t, row), NEW c, ValidCandle(c),
           NEW activationCandle \in BOOLEAN,
           TakesPartial(t, ConservativeEntry(t), row, c, activationCandle)
    PROVE  /\ row.current_stop # t.original_stop
           /\ Net(t, ConservativeEntry(t), c.close) > 0
<1> DEFINE net == Net(t, ConservativeEntry(t), c.close)
           risk == TotalRisk(t, ConservativeEntry(t))
<1>1. net \in Int /\ risk \in Int /\ risk > 0
  BY RulesAreIntegers, RiskIsPositive DEF ValidCandle
<1>2. PartialTrigger \in Nat /\ PartialTrigger >= 3
  BY PartialTriggerAssumption DEF TakesPartial, BreakEvenTrigger
<1>3. 2 * net >= PartialTrigger * risk
  BY DEF TakesPartial, Reached
<1> HIDE DEF net, risk
<1>4. PartialTrigger * risk >= 3 * risk
  BY <1>1, <1>2
<1>5. 2 * net >= 3 * risk
  BY <1>1, <1>2, <1>3, <1>4
<1>6. Reached(t, ConservativeEntry(t), c.close, BreakEvenTrigger)
  BY <1>5 DEF net, risk, Reached, BreakEvenTrigger
<1>7. row.current_stop # t.original_stop
  BY <1>6 DEF TakesPartial, Protects
<1>8. net > 0
  BY <1>1, <1>5
<1> QED BY <1>7, <1>8 DEF net

\* Both decisions that change a row leave a sound one.
THEOREM ManagementKeepsRowsSound ==
    ASSUME NEW t, ValidTerms(t),
           NEW row \in [track_status : {"ACTIVE", "CLOSED"}, current_stop : Int,
                        remaining_fraction : Int, realized_r : Int],
           SoundRow(t, row), NEW c, ValidCandle(c),
           NEW activationCandle \in BOOLEAN, NEW next,
           \/ /\ Protects(t, ConservativeEntry(t), row, c, activationCandle)
              /\ next = [row EXCEPT !.current_stop = BreakEvenStop(t, ConservativeEntry(t))]
           \/ /\ TakesPartial(t, ConservativeEntry(t), row, c, activationCandle)
              /\ next = [row EXCEPT !.remaining_fraction = WholePosition - HalfPosition,
                           !.realized_r = @ + HalfPosition * Net(t, ConservativeEntry(t), c.close)]
    PROVE  SoundRow(t, next)
<1> DEFINE entry == ConservativeEntry(t)
           stop == BreakEvenStop(t, entry)
           net == Net(t, entry, c.close)
<1>0. stop \in Int /\ net \in Int
  BY RulesAreIntegers DEF ValidCandle
<1>1. CASE Protects(t, entry, row, c, activationCandle) /\ next = [row EXCEPT !.current_stop = stop]
  <2>1. stop # t.original_stop
    BY BreakEvenIsCostFree
  <2> HIDE DEF stop, entry
  <2>2. /\ next.current_stop = stop /\ next.realized_r = row.realized_r
        /\ next.remaining_fraction = row.remaining_fraction
    BY <1>1
  <2> QED BY <1>0, <2>1, <2>2 DEF SoundRow
<1>2. CASE /\ TakesPartial(t, entry, row, c, activationCandle)
           /\ next = [row EXCEPT !.remaining_fraction = WholePosition - HalfPosition,
                                 !.realized_r = @ + HalfPosition * net]
  <2>1. row.current_stop # t.original_stop /\ net > 0
    BY <1>2, PartialNeedsProtection
  <2> HIDE DEF net, entry
  <2>2. /\ next.current_stop = row.current_stop
        /\ next.realized_r = row.realized_r + net
        /\ next.remaining_fraction = HalfPosition
    BY <1>0, <1>2 DEF WholePosition, HalfPosition
  <2> QED BY <1>0, <2>1, <2>2 DEF SoundRow
<1> QED BY <1>1, <1>2

\* What is booked is what happened, for any sound row: a close labelled WIN or
\* EARLY_EXIT gained, BREAK_EVEN did neither, LOSS lost, gaps included.
THEOREM ResultsTellTheTruth ==
    ASSUME NEW t, ValidTerms(t), NEW row, SoundRow(t, row), NEW c, ValidCandle(c),
           NEW activationCandle \in BOOLEAN,
           Exits(t, row, c, activationCandle)
    PROVE  Truthful(ExitClosing(t, ConservativeEntry(t), row, c, activationCandle))
<1> DEFINE entry == ConservativeEntry(t)
           risk == TotalRisk(t, entry)
           fill == StopFill(t, row.current_stop, c, activationCandle)
           booked(price) == TrackResult(t, entry, row, price)
<1>1. risk \in Int /\ risk > 0
  BY RiskIsPositive, RulesAreIntegers DEF ValidTerms
\* A target close: the rest of the position gains, and nothing banked is lost.
<1>2. CASE ~TouchesStop(t, row.current_stop, c)
  <2>1. Net(t, entry, t.target) >= 2 * risk /\ Net(t, entry, t.target) \in Int
    BY RulesAreIntegers DEF ValidTerms
  <2> HIDE DEF risk, entry
  <2>2. booked(t.target) \in Int /\ booked(t.target) > 0
    BY <1>1, <2>1 DEF TrackResult, SoundRow, HalfPosition, WholePosition
  <2>3. ExitClosing(t, entry, row, c, activationCandle)
            = [result |-> "WIN", result_r |-> booked(t.target), close_event |-> "TP1_HIT"]
    BY <1>2 DEF ExitClosing, ClosingAt
  <2> QED BY <2>2, <2>3 DEF Truthful, entry
\* A stop close: an unprotected track is whole, so the stop, or a worse fill,
\* costs it all of its risk; a protected one is labelled by its sign.
<1>3. CASE TouchesStop(t, row.current_stop, c)
  <2>1. Net(t, entry, fill) \in Int /\ fill \in Int
    BY GapsCost, RulesAreIntegers DEF SoundRow
  <2>2. row.current_stop = t.original_stop => Net(t, entry, fill) <= -risk
    BY GapsCost, StopCostsOneR DEF SoundRow
  <2> DEFINE net == booked(fill)
  <2> HIDE DEF risk, entry, fill
  <2>3. net \in Int
    BY <2>1 DEF TrackResult, SoundRow, HalfPosition, WholePosition
  <2>4. row.current_stop = t.original_stop => net < 0
    BY <1>1, <2>1, <2>2 DEF TrackResult, SoundRow, HalfPosition, WholePosition
  <2>5. ExitClosing(t, entry, row, c, activationCandle)
            = ClosingAt(t, entry, row, fill, FALSE)
    BY <1>3 DEF ExitClosing, fill
  <2>6. net = TrackResult(t, entry, row, fill)
    OBVIOUS
  <2> HIDE DEF net
  <2>7. CASE row.current_stop = t.original_stop
    <3>1. ClosingAt(t, entry, row, fill, FALSE)
              = [result |-> "LOSS", result_r |-> net, close_event |-> "STOP_LOSS_HIT"]
      BY <2>6, <2>7 DEF ClosingAt
    <3>2. Truthful([result |-> "LOSS", result_r |-> net, close_event |-> "STOP_LOSS_HIT"])
      BY <2>3, <2>4, <2>7 DEF Truthful
    <3> QED BY <2>5, <3>1, <3>2 DEF entry
  <2>8. CASE row.current_stop # t.original_stop
    <3>1. CASE net = 0
      <4>1. ClosingAt(t, entry, row, fill, FALSE)
                = [result |-> "BREAK_EVEN", result_r |-> net, close_event |-> "BREAK_EVEN"]
        BY <2>6, <2>8, <3>1 DEF ClosingAt
      <4>2. Truthful([result |-> "BREAK_EVEN", result_r |-> net, close_event |-> "BREAK_EVEN"])
        BY <3>1 DEF Truthful
      <4> QED BY <2>5, <4>1, <4>2 DEF entry
    <3>2. CASE net > 0
      <4>1. ClosingAt(t, entry, row, fill, FALSE)
                = [result |-> "EARLY_EXIT", result_r |-> net, close_event |-> "EARLY_EXIT"]
        BY <2>3, <2>6, <2>8, <3>2 DEF ClosingAt
      <4>2. Truthful([result |-> "EARLY_EXIT", result_r |-> net, close_event |-> "EARLY_EXIT"])
        BY <3>2 DEF Truthful
      <4> QED BY <2>5, <4>1, <4>2 DEF entry
    <3>3. CASE net < 0
      <4>1. ClosingAt(t, entry, row, fill, FALSE)
                = [result |-> "LOSS", result_r |-> net, close_event |-> "STOP_LOSS_HIT"]
        BY <2>3, <2>6, <2>8, <3>3 DEF ClosingAt
      <4>2. Truthful([result |-> "LOSS", result_r |-> net, close_event |-> "STOP_LOSS_HIT"])
        BY <3>3 DEF Truthful
      <4> QED BY <2>5, <4>1, <4>2 DEF entry
    <3> QED BY <2>3, <3>1, <3>2, <3>3
  <2> QED BY <2>7, <2>8
<1> QED BY <1>2, <1>3
============================================================================
