---------------------------- MODULE WalkForward ----------------------------
(***************************************************************************)
(* The walk-forward evaluation (backtesting/engine.py): which trades of a  *)
(* run are out of sample, what the folds and the sensitivity rows count,   *)
(* and what the evaluation refuses.  A trade is a record with its id (the  *)
(* position of its boundary), its times, score and outcome.                *)
(***************************************************************************)
EXTENDS Integers, Sequences, FiniteSets, SequencesExt

CONSTANTS
    TrainSize, TestSize, PurgeSize,      \* WalkForwardPolicy
    Thresholds, PrimaryThreshold

ASSUME WalkForwardAssumption ==
    /\ TrainSize \in Nat \ {0} /\ TestSize \in Nat \ {0} /\ PurgeSize \in Nat
    /\ Thresholds \subseteq Nat /\ PrimaryThreshold \in Thresholds

Resolved(trade) == trade.outcome \in {"WIN", "LOSS", "BREAK_EVEN"}

\* The trades at the chosen places, in their order.
Picked(trades, chosen) ==
    LET picked[n \in 0..Len(trades)] ==
            IF n = 0 THEN <<>>
            ELSE IF n \in chosen THEN Append(picked[n - 1], trades[n]) ELSE picked[n - 1]
    IN  picked[Len(trades)]

Eligible(trades, threshold) ==
    Picked(trades, {n \in DOMAIN trades : Resolved(trades[n]) /\ trades[n].score >= threshold})

\* _validated_trades: what it refuses raises.
TradesValid(trades, variant, start, end, now) ==
    /\ now >= end
    /\ \A n \in DOMAIN trades :
          /\ trades[n].created_at >= start /\ trades[n].terminal_at <= end
          /\ trades[n].terminal_at <= now
    /\ \A n \in 1..(Len(trades) - 1) :
          /\ \/ trades[n].created_at < trades[n + 1].created_at
             \/ trades[n].created_at = trades[n + 1].created_at /\ trades[n].id < trades[n + 1].id
          /\ variant = "MANAGED" => trades[n + 1].created_at >= trades[n].terminal_at
    /\ \A n, m \in DOMAIN trades : n # m => trades[n].id # trades[m].id

Latest(trades) == Max({trades[n].terminal_at : n \in DOMAIN trades})

\* The fold whose tests begin behind `from` trades.
Fold(trades, from) ==
    LET test == SubSeq(trades, from + 1, from + TestSize)
        train == SubSeq(trades, from - PurgeSize - TrainSize + 1, from - PurgeSize)
        available == Picked(train, {n \in DOMAIN train : train[n].terminal_at <= test[1].created_at})
    IN  [test_start |-> test[1].created_at, test_end |-> Latest(test),
         training_resolved |-> Len(Eligible(available, PrimaryThreshold)),
         test |-> test]

WalkForwardFolds(trades) ==
    LET first == TrainSize + PurgeSize
        count == IF Len(trades) < first THEN 0 ELSE (Len(trades) - first) \div TestSize
    IN  [n \in 1..count |-> Fold(trades, first + (n - 1) * TestSize)]

OutOfSample(trades) == FlattenSeq([n \in DOMAIN WalkForwardFolds(trades) |-> WalkForwardFolds(trades)[n].test])

\* Mutation: a trade counts when it ends before the window does.
EndsInWindow(trade, fold) == trade.terminal_at <= fold.test_end

InWindow(trade, fold) ==
    fold.test_start <= trade.created_at /\ trade.terminal_at <= fold.test_end

\* The trades of another threshold's run, in the windows of the primary one.
InFoldWindows(trades, folds) ==
    Picked(trades, {n \in DOMAIN trades : \E k \in DOMAIN folds : InWindow(trades[n], folds[k])})

\* evaluate, one report: `universe` is the run of each threshold.
EvaluationValid(universe, variant, start, end, now) ==
    \A threshold \in Thresholds : TradesValid(universe[threshold], variant, start, end, now)

Evaluation(universe) ==
    LET primary == universe[PrimaryThreshold]
        folds == WalkForwardFolds(primary)
    IN  [folds       |-> folds,
         selected    |-> Eligible(OutOfSample(primary), PrimaryThreshold),
         sensitivity |-> [threshold \in Thresholds |->
                            Eligible(InFoldWindows(universe[threshold], folds), threshold)]]

Ids(trades) == [n \in DOMAIN trades |-> trades[n].id]

\* compare_trades: both tracks of the same signals, or it raises.
ComparisonValid(fixed, managed, start, end, now) ==
    /\ \A threshold \in Thresholds : Ids(fixed[threshold]) = Ids(managed[threshold])
    /\ EvaluationValid(fixed, "FIXED", start, end, now)
    /\ EvaluationValid(managed, "MANAGED", start, end, now)

\* The pairs it compares are chosen per track and then matched by id.
CompletedPairs(fixed, managed) ==
    LET ids(trades) == {trade.id : trade \in {t \in ToSet(OutOfSample(trades[PrimaryThreshold])) :
                                                Resolved(t) /\ t.score >= PrimaryThreshold}}
    IN  ids(fixed) \cap ids(managed)
=============================================================================
