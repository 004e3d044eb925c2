--------------------------- MODULE ReplayContract ---------------------------
(***************************************************************************)
(* What the paper engine promises, whatever happens to its runs: the       *)
(* ledger holds what one uninterrupted replay of the same candles would    *)
(* have produced.  ReplayTo is that replay: the candle loops of            *)
(* lifecycle/engine.py and management/engine.py with every candle resolved *)
(* in a single step, no ledger, no runs and no retries.                    *)
(***************************************************************************)
EXTENDS PaperEngine

NoRows == [v \in Variant |-> Null]
Unopened == [status |-> "PENDING", trade |-> Null, track |-> NoRows, outcome |-> NoRows]

IsOpen(st, v) == st.track[v] # Null /\ st.track[v].track_status = "ACTIVE"

EntryOf(t, st, c, i) ==
    IF st.status # "PENDING" THEN st
    ELSE IF MustExpire(t, i) THEN [st EXCEPT !.status = "EXPIRED"]
    ELSE IF TouchesEntry(t, c)
         THEN [status |-> "ACTIVE",
               trade |-> [activated_at |-> i, fill_price |-> ConservativeEntry(t),
                          original_stop |-> t.original_stop],
               track |-> [v \in Variant |->
                   [track_status |-> "ACTIVE", current_stop |-> t.original_stop,
                    remaining_fraction |-> WholePosition, realized_r |-> 0]],
               outcome |-> NoRows]
         ELSE st

ExitOf(t, st, c, i) ==
    LET first == st.trade # Null /\ st.trade.activated_at = i
        closes(v) == IsOpen(st, v) /\ Exits(t, st.track[v], c, first)
        closing(v) == ExitClosing(t, st.trade.fill_price, st.track[v], c, first)
    IN  [status |-> IF closes("MANAGED") THEN "CLOSED" ELSE st.status,
         trade |-> st.trade,
         track |-> [v \in Variant |->
            IF closes(v) THEN [st.track[v] EXCEPT !.track_status = "CLOSED",
                                                  !.realized_r = closing(v).result_r]
            ELSE st.track[v]],
         outcome |-> [v \in Variant |-> IF closes(v) THEN closing(v) ELSE st.outcome[v]]]

ManagementOf(t, st, c, i) ==
    IF ~IsOpen(st, "MANAGED") THEN st
    ELSE LET row == st.track["MANAGED"]
             d == Decision(t, st.trade, row, c, st.trade.activated_at = i)
         IN  [st EXCEPT
                !.track["MANAGED"].current_stop = Coalesce(d.updated_stop, @),
                !.track["MANAGED"].remaining_fraction = Coalesce(d.remaining_fraction_after, @),
                !.track["MANAGED"].realized_r = Coalesce(d.realized_r_after, @)]

CandleStep(t, st, i) ==
    LET c == Candle(i) IN ManagementOf(t, ExitOf(t, EntryOf(t, st, c, i), c, i), c, i)

\* The rows of signal s once candles FirstSafeOpen..n are replayed.
ReplayTo(s, n) ==
    LET t == terms[s]
        after[i \in -1..n] ==
            IF i < FirstSafeOpen(t) THEN Unopened ELSE CandleStep(t, after[i - 1], i)
    IN  after[n]

Stored(s) ==
    [status |-> status[s], trade |-> trade[s], track |-> track[s], outcome |-> outcome[s]]

\* The last candle of which the ledger says it is resolved for s.
Resolved(s) ==
    IF checkpoint[LifecycleCheckpoint(s)] = Null THEN FirstSafeOpen(terms[s]) - 1
    ELSE checkpoint[LifecycleCheckpoint(s)]

----------------------------------------------------------------------------
\* Every result the engine books is the uninterrupted replay's: an activation,
\* an expiry or an outcome in the ledger never depends on how often a run was
\* killed, a command repeated or an answer lost on the way to it.
BookedAsReplayed ==
    \A s \in Created :
        LET replayed == ReplayTo(s, clock - 1)
        IN  /\ trade[s] # Null => trade[s] = replayed.trade
            /\ \A v \in Variant : outcome[s][v] # Null => outcome[s][v] = replayed.outcome[v]
            /\ status[s] = "EXPIRED" => replayed.status = "EXPIRED"

\* The lifecycle checkpoint vouches for a signal: what it says is resolved is
\* in the ledger, and at most the one candle after it is under way.  So a
\* replay that restarts at the checkpoint misses nothing and repeats nothing.
CheckpointVouches ==
    \A s \in Created :
        LET resolved == ReplayTo(s, Resolved(s))
            next == ReplayTo(s, IF Resolved(s) + 1 < clock THEN Resolved(s) + 1 ELSE Resolved(s))
        IN  /\ trade[s] \in {resolved.trade, next.trade}
            /\ \A v \in Variant : outcome[s][v] \in {resolved.outcome[v], next.outcome[v]}
            /\ resolved.status = "EXPIRED" => status[s] = "EXPIRED"

\* A run that reports success leaves every signal it monitored exactly where
\* the replay of all candles it collected puts it, stops and decisions included
\* (the FIXED track of a signal that had closed before is not monitored).
SuccessMeansCaughtUp ==
    run.phase = "report" =>
        \A s \in Created :
            status[s] \in {"PENDING", "ACTIVE"} /\ terms[s].created_at < run.now =>
                Stored(s) = ReplayTo(s, run.upto - 1)

\* A booked result says what it did to the account, also for a track that was
\* protected, partly closed or gapped through its stop: wins and early exits
\* gained, losses lost, break-evens did neither.
OutcomesTruthful ==
    \A s \in SignalId, v \in Variant : outcome[s][v] # Null => Truthful(outcome[s][v])

\* With no schema refusal in the way, no command of a run is ever refused: in
\* particular an activation never meets another ACTIVE signal, although signals
\* are admitted on what bootstrap and monitoring saw.  A refusal would repeat
\* in every later run and stop monitoring for good.
NoCommandRefused == run.todo # <<>> => Accepted(Head(run.todo))

\* The statistics chain: each snapshot counts its own outcome, and one of them
\* counts every outcome booked so far, so the latest report misses none even
\* though the client computes it from an earlier read.
StatisticsComplete ==
    /\ \A s \in SignalId, v \in Variant : outcome[s][v] # Null => <<s, v>> \in snapshot[s][v]
    /\ Samples # {} => \E s \in SignalId, v \in Variant : snapshot[s][v] = Samples

\* No message announces what did not happen: each queued message about a candle
\* has its audit event under the same candle.
Announced(n) ==
    LET happened(s, type) ==
            \E e \in event : /\ e.signal_id = s /\ e.event_type \in type
                             /\ e.dedupe_key # Null => e.dedupe_key.at = n.at
    IN  CASE n.action = "REPORT"    -> TRUE
          [] n.action = "CREATED"   -> happened(n.signal_id, {"SIGNAL_CREATED"})
          [] n.action = "ACTIVATED" -> happened(n.signal_id, {"ENTRY_ACTIVATED"})
          [] n.action = "EXPIRED"   -> happened(n.signal_id, {"ENTRY_EXPIRED"})
          [] n.action = "TARGET_CLOSED" -> happened(n.signal_id, {"TP1_HIT"})
          [] n.action \in {"STOP_CLOSED", "AMBIGUOUS_STOP_FIRST"} ->
                happened(n.signal_id, {"STOP_LOSS_HIT", "BREAK_EVEN", "EARLY_EXIT"})
          [] OTHER -> happened(n.signal_id, {"MANAGEMENT_DECISION"})

NoFalseAnnouncement == \A n \in outbox : Announced(n)

----------------------------------------------------------------------------
\* Fairness: the scheduler keeps starting runs, a run that is not disturbed
\* goes on (the workflow never cancels one in progress), and time passes.  The
\* faults are bounded and owe nothing.
FairSpec == EngineSpec /\ WF_vars(RunStep) /\ WF_vars(Tick)

\* Monitoring catches up: once the market has decided a signal, the ledger says
\* so in the end, although runs fail, see half-closed minutes or are killed.
Decided(s) == IF s \in Created THEN ReplayTo(s, clock - 1).status ELSE "ABSENT"

ReplayCatchesUp ==
    \A s \in SignalId, end \in {"EXPIRED", "CLOSED"} : (Decided(s) = end) ~> (status[s] = end)

\* The FIXED track is replayed on its own, to its own end: a successful run
\* leaves each FIXED outcome where the replay of its candles has it, also after
\* the MANAGED track has closed.
FixedTrackContinues ==
    run.phase = "report" =>
        \A s \in Created :
            terms[s].created_at < run.now =>
                outcome[s]["FIXED"] = ReplayTo(s, run.upto - 1).outcome["FIXED"]
============================================================================
