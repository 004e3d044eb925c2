-------------------------- MODULE ReplayProofs --------------------------
(***************************************************************************)
(* The engine's books are the replay's (ReplayContract: BookedAsReplayed   *)
(* and CheckpointVouches), proved for every market, every number of        *)
(* signals, runs and faults.                                               *)
(*                                                                         *)
(* ReplayInv says of every created signal where its rows are: at the state *)
(* the replay has after the candle of the lifecycle checkpoint, before or  *)
(* after its management decision, or under way to the next candle, each    *)
(* track on one side of it or the other (Books); of every command that can *)
(* still take effect, in the list of the run or given up on, that it is    *)
(* what the replay would do next, or was done already (Pending); and of    *)
(* the run, that the candle it is at is the right one for its phase        *)
(* (RunWaits).  A command that is executed, whenever it is, keeps this.    *)
(*                                                                         *)
(* The one thing the code does not guarantee is that a snapshot reaches    *)
(* back to the next candle of an open managed trade; InWindow says so and  *)
(* is a hypothesis of the theorems.                                        *)
(*                                                                         *)
(* A run that reports success has caught up (SuccessMeansCaughtUp): each   *)
(* signal that was open when it began is behind its cursor or still in its *)
(* queue, and nothing of it is booked beyond the snapshot (RunProgress).   *)
(*                                                                         *)
(* No command is refused (NoCommandRefused): what is booked has its own    *)
(* receipt (Backed), and of any two signals one has had its last chance to *)
(* be activated (Supersedes), which rests on what a run has seen before it *)
(* admits a signal (RunKnows).                                             *)
(***************************************************************************)
EXTENDS ContractProofs, NaturalsInduction, WellFoundedInduction

\* A set of numbers has a least one.
LEMMA LeastNumber ==
    ASSUME NEW T \in SUBSET Nat, T # {}
    PROVE  \E m \in T : \A k \in T : m <= k
<1>1. IsWellFoundedOn(OpToRel(<, Nat), Nat)
  BY NatLessThanWellFounded
<1>2. PICK m \in T : \A k \in T : <<k, m>> \notin OpToRel(<, Nat)
  BY <1>1, WFMin, Zenon
<1>3. ASSUME NEW k \in T PROVE m <= k
  <2>1. <<k, m>> \notin OpToRel(<, Nat)
    BY <1>2
  <2>2. m \in Nat /\ k \in Nat
    OBVIOUS
  <2>3. ~(k < m)
    BY <2>1, <2>2 DEF OpToRel
  <2> QED BY <2>2, <2>3
<1> QED BY <1>3

----------------------------------------------------------------------------
\* The equation of a replay up to candle n.
IsReplay(f, t, n) ==
    f = [i \in -1..n |-> IF i < FirstSafeOpen(t) THEN Unopened ELSE CandleStep(t, f[i - 1], i)]

\* The first candle a signal can be replayed from is a minute.
LEMMA FirstSafeOpenNat ==
    ASSUME NEW t \in EngineTerm
    PROVE  /\ FirstSafeOpen(t) \in Nat
           /\ t.created_at <= FirstSafeOpen(t) /\ FirstSafeOpen(t) <= t.created_at + 1
           /\ t.created_at \in Minute
BY EngineAssumption DEF EngineTerm, FirstSafeOpen, Minute

\* There is a function that replays a signal candle by candle up to n.
LEMMA ReplayExists ==
    ASSUME NEW t, FirstSafeOpen(t) \in Nat, NEW n \in Nat
    PROVE  \E f : IsReplay(f, t, n)
<1> DEFINE F == FirstSafeOpen(t)
           T == {m \in Nat : ~\E f : IsReplay(f, t, m - 1)}
<1> SUFFICES ASSUME ~\E f : IsReplay(f, t, n) PROVE FALSE
  OBVIOUS
<1>0. n + 1 \in T
  <2>1. (n + 1) - 1 = n /\ n + 1 \in Nat
    OBVIOUS
  <2>2. ~\E f : IsReplay(f, t, (n + 1) - 1)
    BY <2>1
  <2> QED BY <2>1, <2>2
<1> HIDE DEF F
<1>1. PICK m \in T : \A k \in T : m <= k
  BY <1>0, LeastNumber
<1>2. CASE m = 0
  <2> DEFINE f == [i \in -1..-1 |-> Unopened]
  <2>1. f = [i \in -1..-1 |-> IF i < F THEN Unopened ELSE CandleStep(t, f[i - 1], i)]
    BY DEF F
  <2>2. IsReplay(f, t, m - 1)
    BY <1>2, <2>1 DEF IsReplay, F
  <2> QED BY <2>2
<1>3. CASE m # 0
  <2>1. m \in Nat /\ m - 1 \in Nat /\ m - 1 \notin T
    BY <1>1, <1>3
  <2>2. PICK f : IsReplay(f, t, (m - 1) - 1)
    BY <2>1
  <2> DEFINE g == [i \in -1..(m - 1) |-> IF i < F THEN Unopened ELSE CandleStep(t, f[i - 1], i)]
  <2>3. \A i \in -1..(m - 2) : g[i] = f[i]
    BY <2>1, <2>2 DEF IsReplay, F
  <2>4. \A i \in -1..(m - 1) : i >= F => g[i - 1] = f[i - 1]
    <3> TAKE i \in -1..(m - 1)
    <3> HAVE i >= F
    <3>1. i - 1 \in -1..(m - 2)
      BY <2>1 DEF F
    <3> QED BY <2>3, <3>1
  <2>5. g = [i \in -1..(m - 1) |-> IF i < F THEN Unopened ELSE CandleStep(t, g[i - 1], i)]
    <3> DEFINE h == g
    <3>1. \A i \in -1..(m - 1) : g[i] = IF i < F THEN Unopened ELSE CandleStep(t, h[i - 1], i)
      <4> TAKE i \in -1..(m - 1)
      <4>1. i >= F => h[i - 1] = f[i - 1]
        BY <2>4
      <4>2. CASE i < F
        BY <4>2
      <4>3. CASE i >= F
        <5> HIDE DEF h
        <5>1. g[i] = CandleStep(t, f[i - 1], i)
          BY <2>1, <4>3 DEF F
        <5> QED BY <4>1, <4>3, <5>1, <2>1 DEF F
      <4> QED BY <4>2, <4>3, <2>1 DEF F
    <3> HIDE DEF h
    <3>2. g = [i \in -1..(m - 1) |-> IF i < F THEN Unopened ELSE CandleStep(t, h[i - 1], i)]
      BY <3>1
    <3> QED BY <3>2 DEF h
  <2>6. IsReplay(g, t, m - 1)
    BY <2>5 DEF IsReplay, F
  <2> HIDE DEF g
  <2> QED BY <2>1, <2>6
<1> QED BY <1>2, <1>3

\* Two replays agree as far as both go.
LEMMA ReplayUnique ==
    ASSUME NEW t, FirstSafeOpen(t) \in Nat, NEW m \in Int, NEW n \in Int, m <= n, -1 <= m,
           NEW f, IsReplay(f, t, m), NEW g, IsReplay(g, t, n)
    PROVE  \A i \in -1..m : f[i] = g[i]
<1> DEFINE F == FirstSafeOpen(t)
           T == {k \in Nat : k - 1 <= m /\ f[k - 1] # g[k - 1]}
<1> HIDE DEF F
<1>0. /\ \A i \in -1..m : f[i] = IF i < F THEN Unopened ELSE CandleStep(t, f[i - 1], i)
      /\ \A i \in -1..m : g[i] = IF i < F THEN Unopened ELSE CandleStep(t, g[i - 1], i)
  BY DEF IsReplay, F
<1>1. ASSUME T # {} PROVE FALSE
  <2>1. PICK k \in T : \A j \in T : k <= j
    BY <1>1, LeastNumber
  <2>2. k \in Nat /\ k - 1 \in -1..m /\ f[k - 1] # g[k - 1]
    BY <2>1
  <2>3. k - 1 >= F
    BY <1>0, <2>2 DEF F
  <2>4. k - 1 \in Nat /\ (k - 1) - 1 \in -1..m
    BY <2>2, <2>3 DEF F
  <2>5. f[(k - 1) - 1] = g[(k - 1) - 1]
    BY <2>1, <2>4
  <2> QED BY <1>0, <2>2, <2>3, <2>5 DEF F
<1>2. ASSUME NEW i \in -1..m PROVE f[i] = g[i]
  <2>1. i + 1 \in Nat /\ i = (i + 1) - 1 /\ (i + 1) - 1 <= m
    OBVIOUS
  <2> QED BY <1>1, <2>1
<1> QED BY <1>2

\* What the replay of a signal is, candle by candle.
LEMMA ReplayIs ==
    ASSUME NEW s, FirstSafeOpen(terms[s]) \in Nat, NEW n \in Int, n >= -1
    PROVE  \E f : IsReplay(f, terms[s], n) /\ ReplayTo(s, n) = f[n]
<1> DEFINE t == terms[s]
           f == CHOOSE h : IsReplay(h, t, n)
<1>1. ReplayTo(s, n) = f[n]
  BY Zenon DEF ReplayTo, IsReplay
<1>2. \E h : IsReplay(h, t, n)
  <2>1. CASE n >= 0
    BY <2>1, ReplayExists
  <2>2. CASE n = -1
    <3> DEFINE h == [i \in -1..-1 |-> Unopened]
    <3>1. h = [i \in -1..-1 |-> IF i < FirstSafeOpen(t) THEN Unopened ELSE CandleStep(t, h[i - 1], i)]
      OBVIOUS
    <3>2. IsReplay(h, t, n)
      BY <2>2, <3>1 DEF IsReplay
    <3> QED BY <3>2
  <2> QED BY <2>1, <2>2
<1>3. IsReplay(f, t, n)
  BY <1>2, Zenon
<1> QED BY <1>1, <1>3

\* The replay begins unopened and takes one candle at a time.
LEMMA ReplayUnfolds ==
    ASSUME NEW s, FirstSafeOpen(terms[s]) \in Nat, NEW n \in Int, n >= -1
    PROVE  ReplayTo(s, n) = IF n < FirstSafeOpen(terms[s]) THEN Unopened
                            ELSE CandleStep(terms[s], ReplayTo(s, n - 1), n)
<1> DEFINE t == terms[s]
<1>1. PICK f : IsReplay(f, t, n) /\ ReplayTo(s, n) = f[n]
  BY ReplayIs
<1>2. f[n] = IF n < FirstSafeOpen(t) THEN Unopened ELSE CandleStep(t, f[n - 1], n)
  BY <1>1 DEF IsReplay
<1>3. CASE n >= FirstSafeOpen(t)
  <2>1. n - 1 \in Int /\ n - 1 >= -1
    BY <1>3
  <2>2. PICK g : IsReplay(g, t, n - 1) /\ ReplayTo(s, n - 1) = g[n - 1]
    BY <2>1, ReplayIs
  <2>3. g[n - 1] = f[n - 1]
    BY <1>1, <2>1, <2>2, ReplayUnique
  <2> QED BY <1>1, <1>2, <1>3, <2>2, <2>3
<1> QED BY <1>1, <1>2, <1>3

----------------------------------------------------------------------------
(* What one candle does to the rows of a signal. *)

\* The rows a replay can be at.
ReplayedRows ==
    [status : {"PENDING", "ACTIVE", "EXPIRED", "CLOSED"}, trade : TradeRow \cup {Null},
     track : [Variant -> TrackRow \cup {Null}], outcome : [Variant -> Closing \cup {Null}]]

Shaped(st) ==
    /\ st \in ReplayedRows
    /\ st.status \in {"PENDING", "EXPIRED"} <=> st.trade = Null
    /\ \A v \in Variant : /\ st.trade = Null <=> st.track[v] = Null
                          /\ st.outcome[v] # Null <=> st.track[v] # Null /\ ~IsOpen(st, v)
    /\ st.status = "ACTIVE" <=> IsOpen(st, "MANAGED")

\* The trade and the row an activation on candle i opens, and the row a close
\* leaves.
Filled(t, i) == [activated_at |-> i, fill_price |-> ConservativeEntry(t),
                 original_stop |-> t.original_stop]

FreshRow(t) == [track_status |-> "ACTIVE", current_stop |-> t.original_stop,
                 remaining_fraction |-> WholePosition, realized_r |-> 0]

ClosedRow(row, closing) == [row EXCEPT !.track_status = "CLOSED", !.realized_r = closing.result_r]

\* A signal begins without trade, rows or outcomes.
LEMMA UnopenedShaped == Shaped(Unopened)
BY DEF Shaped, Unopened, NoRows, ReplayedRows, IsOpen, Variant

\* The first third of a candle: a PENDING signal expires, is entered, or waits.
LEMMA EntryShape ==
    ASSUME WideColumns, NEW t \in EngineTerm, NEW st, Shaped(st), NEW c, NEW i \in Minute
    PROVE  LET e == EntryOf(t, st, c, i)
           IN  /\ Shaped(e)
               /\ st.status # "PENDING" => e = st
               /\ e.status = "PENDING" => e = st
               /\ \A v \in Variant : e.outcome[v] = st.outcome[v]
               /\ e.trade # Null => e.trade = st.trade \/ e.trade.activated_at = i
               /\ st.status = "PENDING" =>
                     /\ MustExpire(t, i) => e.status = "EXPIRED"
                     /\ ~MustExpire(t, i) /\ TouchesEntry(t, c) => e.status = "ACTIVE"
                     /\ ~MustExpire(t, i) /\ ~TouchesEntry(t, c) => e = st
               /\ st.status = "PENDING" /\ e.status = "ACTIVE" =>
                     /\ e.trade = Filled(t, i)
                     /\ \A v \in Variant : e.track[v] = FreshRow(t) /\ e.outcome[v] = Null
<1> DEFINE e == EntryOf(t, st, c, i)
           opened == FreshRow(t)
           filled == Filled(t, i)
<1>1. CASE st.status # "PENDING"
  BY <1>1 DEF EntryOf
<1>2. CASE st.status = "PENDING" /\ MustExpire(t, i)
  <2>1. e = [st EXCEPT !.status = "EXPIRED"]
    BY <1>2 DEF EntryOf
  <2>2. /\ e \in ReplayedRows /\ e.status = "EXPIRED" /\ e.trade = st.trade
        /\ e.track = st.track /\ e.outcome = st.outcome
    <3> HIDE DEF e
    <3> QED BY <2>1 DEF Shaped, ReplayedRows
  <2>3. Shaped(e) /\ \A v \in Variant : e.outcome[v] = st.outcome[v]
    <3> HIDE DEF e
    <3> QED BY <1>2, <2>2 DEF Shaped, IsOpen, Variant
  <2>4. st.trade = Null
    BY <1>2 DEF Shaped
  <2> QED BY <1>2, <2>2, <2>3, <2>4
<1>3. CASE st.status = "PENDING" /\ ~MustExpire(t, i) /\ TouchesEntry(t, c)
  <2>1. e = [status |-> "ACTIVE", trade |-> filled, track |-> [v \in Variant |-> opened],
             outcome |-> NoRows]
    BY <1>3 DEF EntryOf, FreshRow, Filled
  <2>2. opened \in TrackRow /\ opened.track_status = "ACTIVE" /\ opened # Null
    BY DecimalAssumption, NullAssumption DEF TrackRow, EngineTerm, ValidTerms, WideColumns, WholePosition, FreshRow
  <2>3. filled \in TradeRow /\ filled.activated_at = i /\ filled # Null
    BY DecimalAssumption, NullAssumption
       DEF TradeRow, EngineTerm, ValidTerms, WideColumns, ConservativeEntry, Filled
  <2> HIDE DEF opened, filled
  <2>4. /\ e.status = "ACTIVE" /\ e.trade = filled /\ \A v \in Variant : e.track[v] = opened
        /\ \A v \in Variant : e.outcome[v] = Null
        /\ e \in ReplayedRows
    <3> HIDE DEF e
    <3> QED BY <2>1, <2>2, <2>3 DEF ReplayedRows, NoRows
  <2>5. \A v \in Variant : st.outcome[v] = Null
    BY <1>3 DEF Shaped
  <2>6. Shaped(e)
    <3> HIDE DEF e
    <3> QED BY <2>2, <2>3, <2>4 DEF Shaped, IsOpen, Variant
  <2> QED BY <1>3, <2>3, <2>4, <2>5, <2>6 DEF opened, filled
<1>4. CASE st.status = "PENDING" /\ ~MustExpire(t, i) /\ ~TouchesEntry(t, c)
  BY <1>4 DEF EntryOf
<1> QED BY <1>1, <1>2, <1>3, <1>4

\* The second third: each open track exits or stays; what is closed stays.
LEMMA ExitShape ==
    ASSUME WideColumns, NEW t \in EngineTerm, NEW st, Shaped(st), NEW c, ValidCandle(c),
           NEW i \in Minute
    PROVE  LET x == ExitOf(t, st, c, i)
               first == st.trade.activated_at = i
           IN  /\ Shaped(x) /\ x.trade = st.trade
               /\ IF IsOpen(st, "MANAGED") /\ ~IsOpen(x, "MANAGED")
                  THEN x.status = "CLOSED" ELSE x.status = st.status
               /\ \A v \in Variant :
                     /\ IsOpen(x, v) => IsOpen(st, v)
                     /\ IsOpen(x, v) \/ ~IsOpen(st, v) =>
                           x.track[v] = st.track[v] /\ x.outcome[v] = st.outcome[v]
                     /\ IsOpen(st, v) => (IsOpen(x, v) <=> ~Exits(t, st.track[v], c, first))
                     /\ IsOpen(st, v) /\ ~IsOpen(x, v) =>
                           /\ x.outcome[v] =
                                 ExitClosing(t, st.trade.fill_price, st.track[v], c, first)
                           /\ x.outcome[v] \in Closing /\ x.outcome[v] # Null
                           /\ x.track[v] = ClosedRow(st.track[v], x.outcome[v])
<1> DEFINE x == ExitOf(t, st, c, i)
           first == st.trade # Null /\ st.trade.activated_at = i
           closes(v) == IsOpen(st, v) /\ Exits(t, st.track[v], c, first)
           closing(v) == ExitClosing(t, st.trade.fill_price, st.track[v], c, first)
           closed(v) == ClosedRow(st.track[v], closing(v))
<1>1. /\ x.status = IF closes("MANAGED") THEN "CLOSED" ELSE st.status
      /\ x.trade = st.trade
      /\ \A v \in Variant : /\ x.track[v] = IF closes(v) THEN closed(v) ELSE st.track[v]
                            /\ x.outcome[v] = IF closes(v) THEN closing(v) ELSE st.outcome[v]
      /\ x = [status |-> x.status, trade |-> x.trade, track |-> [v \in Variant |-> x.track[v]],
              outcome |-> [v \in Variant |-> x.outcome[v]]]
      /\ x.track = [v \in Variant |-> x.track[v]] /\ x.outcome = [v \in Variant |-> x.outcome[v]]
  BY DEF ExitOf, ClosedRow
<1>2. ASSUME NEW v \in Variant, IsOpen(st, v)
      PROVE  /\ st.track[v] \in TrackRow /\ st.trade \in TradeRow /\ st.trade # Null
             /\ first = (st.trade.activated_at = i) /\ first \in BOOLEAN
             /\ closing(v) \in [result : OutcomeResult, result_r : Int, close_event : CloseEvent]
             /\ closing(v) \in Closing /\ closing(v) # Null
             /\ closed(v) \in TrackRow /\ closed(v).track_status = "CLOSED" /\ closed(v) # Null
  <2>1. st.track[v] \in TrackRow /\ st.trade \in TradeRow /\ st.trade # Null
    BY <1>2 DEF Shaped, ReplayedRows, IsOpen
  <2>2. first = (st.trade.activated_at = i) /\ first \in BOOLEAN
    BY <2>1, Zenon
  <2>3. ValidTerms(t) /\ st.trade.fill_price \in Int
        /\ {st.track[v].current_stop, st.track[v].remaining_fraction, st.track[v].realized_r}
              \subseteq Int
    BY <2>1, DecimalAssumption DEF EngineTerm, TradeRow, TrackRow
  <2> HIDE DEF first
  <2>4. closing(v) \in [result : OutcomeResult, result_r : Int, close_event : CloseEvent]
    BY <2>2, <2>3, ExitClosingType
  <2> HIDE DEF closing
  <2>5. closing(v) \in Closing /\ closing(v).result_r \in Decimal
    BY <2>4 DEF WideColumns
  <2>6. closed(v) \in TrackRow /\ closed(v).track_status = "CLOSED"
    BY <2>1, <2>5 DEF TrackRow, ClosedRow
  <2> HIDE DEF closed
  <2> QED BY <2>1, <2>2, <2>4, <2>5, <2>6, NullAssumption
<1>3. \A v \in Variant : closes(v) => IsOpen(st, v)
  OBVIOUS
<1>4. \A v \in Variant : IsOpen(x, v) <=> IsOpen(st, v) /\ ~closes(v)
  <2> HIDE DEF x, closes, closing, closed, first
  <2> QED BY <1>1, <1>2, <1>3 DEF IsOpen
<1>5. x \in ReplayedRows
  <2>1. \A v \in Variant : x.track[v] \in TrackRow \cup {Null} /\ x.outcome[v] \in Closing \cup {Null}
    <3> HIDE DEF x, closes, closing, closed, first
    <3> QED BY <1>1, <1>2, <1>3 DEF Shaped, ReplayedRows
  <2>2. x.status \in {"PENDING", "ACTIVE", "EXPIRED", "CLOSED"} /\ x.trade \in TradeRow \cup {Null}
    <3> HIDE DEF x, closes, closing, closed, first
    <3> QED BY <1>1 DEF Shaped, ReplayedRows
  <2> HIDE DEF x
  <2>3. x.track = [v \in Variant |-> x.track[v]] /\ x.outcome = [v \in Variant |-> x.outcome[v]]
    BY <1>1
  <2>4. x.track \in [Variant -> TrackRow \cup {Null}] /\ x.outcome \in [Variant -> Closing \cup {Null}]
    BY <2>1, <2>3
  <2>5. \E a, b, f, g : x = [status |-> a, trade |-> b, track |-> f, outcome |-> g]
    BY <1>1, Zenon
  <2> QED BY <2>2, <2>4, <2>5 DEF ReplayedRows
<1>6. Shaped(x)
  <2> HIDE DEF x, closes, closing, closed, first
  <2>1. \A v \in Variant : /\ x.trade = Null <=> x.track[v] = Null
                           /\ x.outcome[v] # Null <=> x.track[v] # Null /\ ~IsOpen(x, v)
    BY <1>1, <1>2, <1>3, <1>4 DEF Shaped
  <2>2. "MANAGED" \in Variant
    BY DEF Variant
  <2>3. x.status = "ACTIVE" <=> IsOpen(x, "MANAGED")
    BY <1>1, <1>3, <1>4, <2>2 DEF Shaped
  <2>4. x.status \in {"PENDING", "EXPIRED"} <=> x.trade = Null
    BY <1>1, <1>2, <1>3, <2>2 DEF Shaped
  <2> QED BY <1>5, <2>1, <2>3, <2>4 DEF Shaped
<1>7. "MANAGED" \in Variant
  BY DEF Variant
<1>8. ASSUME NEW v \in Variant
      PROVE  /\ IsOpen(x, v) \/ ~IsOpen(st, v) =>
                   x.track[v] = st.track[v] /\ x.outcome[v] = st.outcome[v]
             /\ IsOpen(st, v) => (closes(v) <=> Exits(t, st.track[v], c, st.trade.activated_at = i))
             /\ IsOpen(st, v) /\ ~IsOpen(x, v) =>
                   /\ x.outcome[v] = ExitClosing(t, st.trade.fill_price, st.track[v], c,
                                                 st.trade.activated_at = i)
                   /\ x.outcome[v] \in Closing /\ x.outcome[v] # Null
                   /\ x.track[v] = ClosedRow(st.track[v], x.outcome[v])
  <2>1. CASE IsOpen(st, v)
    <3>1. first = (st.trade.activated_at = i)
      BY <1>2, <2>1
    <3>2. closes(v) <=> Exits(t, st.track[v], c, st.trade.activated_at = i)
      BY <2>1, <3>1
    <3>3. closing(v) = ExitClosing(t, st.trade.fill_price, st.track[v], c, st.trade.activated_at = i)
      BY <3>1
    <3>4. ~IsOpen(x, v) => closes(v)
      BY <1>4, <2>1
    <3>5. ~IsOpen(x, v) => x.outcome[v] = closing(v) /\ x.track[v] = closed(v)
      <4> HIDE DEF x, closes, closing, closed, first
      <4> QED BY <1>1, <3>4
    <3>6. closed(v) = ClosedRow(st.track[v], closing(v))
      OBVIOUS
    <3>7. IsOpen(x, v) => x.track[v] = st.track[v] /\ x.outcome[v] = st.outcome[v]
      <4> HIDE DEF x, closes, closing, closed, first
      <4> QED BY <1>1, <1>4
    <3> HIDE DEF x, closes, closing, closed, first
    <3> QED BY <1>2, <2>1, <3>2, <3>3, <3>5, <3>6, <3>7
  <2>2. CASE ~IsOpen(st, v)
    <3>1. ~closes(v)
      BY <2>2
    <3> HIDE DEF x, closes, closing, closed, first
    <3> QED BY <1>1, <2>2, <3>1
  <2> QED BY <2>1, <2>2
<1>9. IF IsOpen(st, "MANAGED") /\ ~IsOpen(x, "MANAGED")
      THEN x.status = "CLOSED" ELSE x.status = st.status
  <2> HIDE DEF x, closes, closing, closed, first
  <2> QED BY <1>1, <1>3, <1>4, <1>7
<1> HIDE DEF x, closes, closing, closed, first
<1>10. /\ Shaped(x) /\ x.trade = st.trade
       /\ \A v \in Variant : IsOpen(x, v) => IsOpen(st, v)
       /\ \A v \in Variant : IsOpen(st, v) =>
            (IsOpen(x, v) <=> ~Exits(t, st.track[v], c, st.trade.activated_at = i))
  BY <1>1, <1>4, <1>6, <1>8
<1> QED BY <1>8, <1>9, <1>10 DEF x

\* What a decision says.
LEMMA DecisionShape ==
    ASSUME WideColumns, NEW t \in EngineTerm, NEW filled \in TradeRow, NEW row \in TrackRow,
           NEW c, ValidCandle(c), NEW first
    PROVE  Decision(t, filled, row, c, first)
             \in [changes_managed_result : BOOLEAN, updated_stop : Int \cup {Null},
                  remaining_fraction_after : Int \cup {Null}, realized_r_after : Int \cup {Null}]
           /\ (~Decision(t, filled, row, c, first).changes_managed_result =>
                 Decision(t, filled, row, c, first) = Hold)
<1> DEFINE d == Decision(t, filled, row, c, first)
<1>1. /\ filled.fill_price \in Int /\ row.realized_r \in Int /\ ValidTerms(t)
  BY DecimalAssumption DEF TradeRow, TrackRow, EngineTerm
<1>2. BreakEvenStop(t, filled.fill_price) \in Int
  BY <1>1 DEF BreakEvenStop, ValidTerms
<1>3. Net(t, filled.fill_price, c.close) \in Int
  BY <1>1 DEF Net, Directional, ValidTerms, ValidCandle
<1> DEFINE a == BreakEvenStop(t, filled.fill_price)
           b == row.realized_r + HalfPosition * Net(t, filled.fill_price, c.close)
<1>4. a \in Int /\ b \in Int /\ WholePosition - HalfPosition = 1
  BY <1>1, <1>2, <1>3 DEF HalfPosition, WholePosition
<1>5. \/ d = [Hold EXCEPT !.changes_managed_result = TRUE, !.updated_stop = a]
      \/ d = [Hold EXCEPT !.changes_managed_result = TRUE,
                          !.remaining_fraction_after = WholePosition - HalfPosition,
                          !.realized_r_after = b]
      \/ d = Hold
  BY DEF Decision
<1> HIDE DEF a, b, d
<1>6. d \in [changes_managed_result : BOOLEAN, updated_stop : Int \cup {Null},
             remaining_fraction_after : Int \cup {Null}, realized_r_after : Int \cup {Null}]
  <2> DEFINE none == Hold
  <2>1. none \in [changes_managed_result : BOOLEAN, updated_stop : Int \cup {Null},
                  remaining_fraction_after : Int \cup {Null}, realized_r_after : Int \cup {Null}]
    BY DEF Hold
  <2>2. \/ d = [none EXCEPT !.changes_managed_result = TRUE, !.updated_stop = a]
        \/ d = [none EXCEPT !.changes_managed_result = TRUE, !.remaining_fraction_after = 1,
                            !.realized_r_after = b]
        \/ d = none
    BY <1>4, <1>5
  <2> HIDE DEF none
  <2>3. CASE d = [none EXCEPT !.changes_managed_result = TRUE, !.updated_stop = a]
    BY <1>4, <2>1, <2>3
  <2>4. CASE d = [none EXCEPT !.changes_managed_result = TRUE, !.remaining_fraction_after = 1,
                              !.realized_r_after = b]
    <3>1. /\ d.changes_managed_result = TRUE /\ d.updated_stop = none.updated_stop
          /\ d.remaining_fraction_after = 1 /\ d.realized_r_after = b
      BY <2>1, <2>4
    <3>2. d = [changes_managed_result |-> TRUE, updated_stop |-> none.updated_stop,
               remaining_fraction_after |-> 1, realized_r_after |-> b]
      BY <2>1, <2>4
    <3> QED BY <1>4, <2>1, <3>2
  <2> QED BY <2>1, <2>2, <2>3, <2>4
<1>7. ~d.changes_managed_result => d = Hold
  BY <1>5 DEF Hold
<1> QED BY <1>6, <1>7 DEF d

\* The last third: a decision moves the managed row and closes nothing.
LEMMA ManageShape ==
    ASSUME WideColumns, NEW t \in EngineTerm, NEW st, Shaped(st), NEW c, ValidCandle(c), NEW i
    PROVE  LET r == ManagementOf(t, st, c, i)
               d == Decision(t, st.trade, st.track["MANAGED"], c, st.trade.activated_at = i)
           IN  /\ Shaped(r) /\ r.trade = st.trade /\ r.status = st.status
               /\ \A v \in Variant : /\ r.outcome[v] = st.outcome[v]
                                     /\ IsOpen(r, v) <=> IsOpen(st, v)
                                     /\ v = "FIXED" \/ ~IsOpen(st, v) => r.track[v] = st.track[v]
               /\ ~IsOpen(st, "MANAGED") => r = st
               /\ IsOpen(st, "MANAGED") =>
                     r.track["MANAGED"] = IF d.changes_managed_result
                                          THEN ManagedAfter(st.track["MANAGED"], d)
                                          ELSE st.track["MANAGED"]
<1> DEFINE r == ManagementOf(t, st, c, i)
           row == st.track["MANAGED"]
           d == Decision(t, st.trade, row, c, st.trade.activated_at = i)
<1>1. CASE ~IsOpen(st, "MANAGED")
  <2>1. r = st
    BY <1>1 DEF ManagementOf
  <2>2. \A v \in Variant : v = "FIXED" \/ v = "MANAGED"
    BY DEF Variant
  <2> QED BY <1>1, <2>1, <2>2
<1>2. CASE IsOpen(st, "MANAGED")
  <2>1. /\ row \in TrackRow /\ st.trade \in TradeRow /\ "MANAGED" \in Variant
        /\ row.track_status = "ACTIVE" /\ row # Null
    BY <1>2 DEF Shaped, ReplayedRows, IsOpen, Variant
  <2>2. d \in Adjustment /\ (~d.changes_managed_result => d = Hold)
    BY <2>1, DecisionShape DEF WideColumns
  <2>3. r = [st EXCEPT !.track["MANAGED"].current_stop = Coalesce(d.updated_stop, @),
                       !.track["MANAGED"].remaining_fraction =
                            Coalesce(d.remaining_fraction_after, @),
                       !.track["MANAGED"].realized_r = Coalesce(d.realized_r_after, @)]
    BY <1>2 DEF ManagementOf
  <2> HIDE DEF d
  <2>4. PICK after : after = ManagedAfter(row, d)
    OBVIOUS
  <2>5. /\ after \in TrackRow /\ after.track_status = "ACTIVE" /\ after # Null
    <3>1. after \in TrackRow
      BY <2>1, <2>2, <2>4, ManagedAfterType
    <3>2. after.track_status = row.track_status
      <4> HIDE DEF row
      <4> QED BY <2>1, <2>4 DEF ManagedAfter, TrackRow
    <3> QED BY <2>1, <3>1, <3>2, NullAssumption
  <2>6. ~d.changes_managed_result => after = row
    <3> HIDE DEF row
    <3>1. d = Hold => /\ d.updated_stop = Null /\ d.remaining_fraction_after = Null
                      /\ d.realized_r_after = Null
      BY DEF Hold
    <3>2. \A x : Coalesce(Null, x) = x
      BY DEF Coalesce
    <3>3. ~d.changes_managed_result =>
             after = [row EXCEPT !.current_stop = @, !.remaining_fraction = @, !.realized_r = @]
      BY <2>2, <2>4, <3>1, <3>2, Zenon DEF ManagedAfter
    <3> QED BY <2>1, <3>3 DEF TrackRow
  <2>7. r = [st EXCEPT !.track = [@ EXCEPT !["MANAGED"] = after]]
    <3> HIDE DEF r
    <3>1. st.track \in [Variant -> TrackRow \cup {Null}] /\ st \in ReplayedRows
      BY DEF Shaped, ReplayedRows
    <3> QED BY <2>1, <2>3, <2>4, <3>1 DEF ReplayedRows, ManagedAfter, TrackRow
  <2> HIDE DEF r
  <2>8. /\ r \in ReplayedRows /\ r.status = st.status /\ r.trade = st.trade /\ r.outcome = st.outcome
        /\ r.track["MANAGED"] = after /\ r.track["FIXED"] = st.track["FIXED"]
    BY <2>1, <2>5, <2>7 DEF Shaped, ReplayedRows, Variant
  <2>9. \A v \in Variant : (IsOpen(r, v) <=> IsOpen(st, v)) /\ (r.track[v] = Null <=> st.track[v] = Null)
    BY <2>1, <2>5, <2>8 DEF IsOpen, Variant
  <2>10. Shaped(r)
    BY <2>8, <2>9 DEF Shaped, Variant
  <2>11. \A v \in Variant : v = "FIXED" \/ ~IsOpen(st, v) => r.track[v] = st.track[v]
    BY <1>2, <2>8 DEF Variant
  <2>12. r.track["MANAGED"] = IF d.changes_managed_result THEN ManagedAfter(row, d) ELSE row
    BY <2>4, <2>6, <2>8
  <2> QED BY <1>2, <2>8, <2>9, <2>10, <2>11, <2>12 DEF r, d
<1> QED BY <1>1, <1>2

----------------------------------------------------------------------------
(* The replay of one signal. *)

Due(s) == FirstSafeOpen(terms[s])

Entered(s, i) == EntryOf(terms[s], ReplayTo(s, i - 1), Candle(i), i)

Exited(s, i) == ExitOf(terms[s], Entered(s, i), Candle(i), i)

\* A trade is as old as the candle that opened it.
Dated(s, st, n) ==
    st.trade # Null => Due(s) <= st.trade.activated_at /\ st.trade.activated_at <= n

\* What is booked stays booked.
Follows(a, b) ==
    /\ a.trade # Null => b.trade = a.trade
    /\ a.status # "PENDING" => b.status # "PENDING"
    /\ a.status = "EXPIRED" => b.status = "EXPIRED"
    /\ \A v \in Variant : a.outcome[v] # Null => b.outcome[v] = a.outcome[v] /\ b.track[v] = a.track[v]

\* What stays booked over two stretches stays booked over both.
LEMMA FollowsTransitive ==
    ASSUME NEW a, NEW b, NEW c, Follows(a, b), Follows(b, c) PROVE Follows(a, c)
BY Zenon DEF Follows

\* The entry takes nothing back that was booked.
LEMMA EntryFollows ==
    ASSUME WideColumns, NEW t \in EngineTerm, NEW st, Shaped(st), NEW c, NEW i \in Minute
    PROVE  Follows(st, EntryOf(t, st, c, i))
<1> DEFINE e == EntryOf(t, st, c, i)
<1>1. CASE st.status # "PENDING"
  <2>1. e = st
    BY <1>1, EntryShape
  <2> HIDE DEF e
  <2> QED BY <2>1 DEF Follows, e
<1>2. CASE st.status = "PENDING"
  <2>1. st.trade = Null /\ \A v \in Variant : st.outcome[v] = Null
    BY <1>2 DEF Shaped
  <2> QED BY <1>2, <2>1 DEF Follows
<1> QED BY <1>1, <1>2

\* The exits take nothing back that was booked.
LEMMA ExitFollows ==
    ASSUME WideColumns, NEW t \in EngineTerm, NEW st, Shaped(st), NEW c, ValidCandle(c),
           NEW i \in Minute
    PROVE  Follows(st, ExitOf(t, st, c, i))
<1> DEFINE x == ExitOf(t, st, c, i)
<1>1. /\ x.trade = st.trade
      /\ IF IsOpen(st, "MANAGED") /\ ~IsOpen(x, "MANAGED")
         THEN x.status = "CLOSED" ELSE x.status = st.status
      /\ \A v \in Variant : ~IsOpen(st, v) => x.track[v] = st.track[v] /\ x.outcome[v] = st.outcome[v]
  BY ExitShape
<1> HIDE DEF x
<1>2. Follows(st, x)
  BY <1>1 DEF Follows, Shaped
<1> QED BY <1>2 DEF x

\* The decision takes nothing back that was booked.
LEMMA ManagementFollows ==
    ASSUME WideColumns, NEW t \in EngineTerm, NEW st, Shaped(st), NEW c, ValidCandle(c), NEW i
    PROVE  Follows(st, ManagementOf(t, st, c, i))
<1> DEFINE r == ManagementOf(t, st, c, i)
<1>1. /\ r.trade = st.trade /\ r.status = st.status
      /\ \A v \in Variant : /\ r.outcome[v] = st.outcome[v]
                            /\ v = "FIXED" \/ ~IsOpen(st, v) => r.track[v] = st.track[v]
  BY ManageShape
<1> HIDE DEF r
<1>2. Follows(st, r)
  BY <1>1 DEF Follows, Shaped
<1> QED BY <1>2 DEF r

\* The states of one candle, from the one before.
LEMMA CandleShape ==
    ASSUME WideColumns, MarketType, NEW s, terms[s] \in EngineTerm,
           NEW i \in Int, Due(s) <= i, i < clock,
           Shaped(ReplayTo(s, i - 1)), Dated(s, ReplayTo(s, i - 1), i - 1)
    PROVE  /\ i \in Minute /\ ValidCandle(Candle(i))
           /\ Shaped(Entered(s, i)) /\ Dated(s, Entered(s, i), i)
           /\ Shaped(Exited(s, i)) /\ Dated(s, Exited(s, i), i)
           /\ ReplayTo(s, i) = ManagementOf(terms[s], Exited(s, i), Candle(i), i)
           /\ Shaped(ReplayTo(s, i)) /\ Dated(s, ReplayTo(s, i), i)
           /\ Follows(ReplayTo(s, i - 1), Entered(s, i)) /\ Follows(Entered(s, i), Exited(s, i))
           /\ Follows(Exited(s, i), ReplayTo(s, i))
<1> DEFINE t == terms[s]
           b == ReplayTo(s, i - 1)
           e == Entered(s, i)
           x == Exited(s, i)
           r == ReplayTo(s, i)
<1>1. /\ Due(s) \in Nat /\ i \in Minute /\ MaxMinute \in Nat /\ clock \in Minute /\ i >= 0 /\ i >= -1
  BY FirstSafeOpenNat, EngineAssumption DEF Due, MarketType, Minute
<1>2. ValidCandle(Candle(i))
  BY <1>1, CompleteCandle
<1>3. e = EntryOf(t, b, Candle(i), i) /\ x = ExitOf(t, e, Candle(i), i)
  BY DEF Entered, Exited
<1>4. r = ManagementOf(t, x, Candle(i), i)
  <2>1. r = CandleStep(t, b, i)
    BY <1>1, ReplayUnfolds DEF Due
  <2> QED BY <1>3, <2>1, Zenon DEF CandleStep
<1> HIDE DEF e, x, r, b
<1>5. Shaped(e) /\ (e.trade # Null => e.trade = b.trade \/ e.trade.activated_at = i) /\ Follows(b, e)
  <2>1. Shaped(b) /\ WideColumns /\ t \in EngineTerm
    BY DEF b
  <2>2. Shaped(e) /\ (e.trade # Null => e.trade = b.trade \/ e.trade.activated_at = i)
    BY <1>1, <1>3, <2>1, EntryShape
  <2> QED BY <1>1, <1>3, <2>1, <2>2, EntryFollows
<1>6. Dated(s, e, i)
  <2>1. b.trade # Null => b.trade.activated_at \in Int
    BY TimeAssumption DEF Shaped, ReplayedRows, TradeRow, b
  <2> QED BY <1>1, <1>5, <2>1 DEF Dated, b
<1>7. Shaped(x) /\ x.trade = e.trade /\ Follows(e, x)
  <2>1. Shaped(x) /\ x.trade = e.trade
    BY <1>1, <1>2, <1>3, <1>5, ExitShape
  <2> QED BY <1>1, <1>2, <1>3, <1>5, <2>1, ExitFollows
<1>8. Shaped(r) /\ r.trade = x.trade /\ Follows(x, r)
  BY <1>1, <1>2, <1>4, <1>7, ManageShape, ManagementFollows
<1>9. Dated(s, x, i) /\ Dated(s, r, i)
  BY <1>6, <1>7, <1>8 DEF Dated
<1> QED BY <1>1, <1>2, <1>4, <1>5, <1>6, <1>7, <1>8, <1>9 DEF e, x, r, b

\* Every state of the replay is well-formed, by induction over the candles.
LEMMA ReplayShape ==
    ASSUME WideColumns, MarketType, NEW s, terms[s] \in EngineTerm,
           NEW n \in Int, -1 <= n, n < clock
    PROVE  Shaped(ReplayTo(s, n)) /\ Dated(s, ReplayTo(s, n), n)
<1> DEFINE Good(m) == Shaped(ReplayTo(s, m)) /\ Dated(s, ReplayTo(s, m), m)
           T == {k \in Nat : k - 1 < clock /\ ~Good(k - 1)}
<1>1. FirstSafeOpen(terms[s]) \in Nat /\ clock \in Int
  BY FirstSafeOpenNat DEF MarketType, Minute
<1> HIDE DEF Good
<1>2. ASSUME T # {} PROVE FALSE
  <2>1. PICK k \in T : \A j \in T : k <= j
    BY <1>2, LeastNumber
  <2>2. k \in Nat /\ k - 1 \in Int /\ k - 1 >= -1 /\ k - 1 < clock /\ ~Good(k - 1)
    BY <2>1
  <2>3. CASE k - 1 < FirstSafeOpen(terms[s])
    <3>1. ReplayTo(s, k - 1) = Unopened
      BY <1>1, <2>2, <2>3, ReplayUnfolds
    <3>2. Unopened.trade = Null
      BY DEF Unopened
    <3> QED BY <2>2, <3>1, <3>2, UnopenedShaped DEF Dated, Good
  <2>4. CASE k - 1 >= FirstSafeOpen(terms[s])
    <3>1. k - 1 \in Nat /\ (k - 1) - 1 < clock /\ k - 1 < k
      BY <1>1, <2>2, <2>4
    <3>2. Good((k - 1) - 1)
      BY <2>1, <3>1
    <3>3. Good(k - 1)
      BY <2>2, <2>4, <3>2, CandleShape DEF Good, Due
    <3> QED BY <2>2, <3>3
  <2> QED BY <1>1, <2>2, <2>3, <2>4
<1>3. n + 1 \in Nat /\ (n + 1) - 1 = n
  OBVIOUS
<1>4. Good(n)
  <2>1. n + 1 \notin T
    BY <1>2
  <2>2. (n + 1) - 1 < clock
    BY <1>3
  <2>3. Good((n + 1) - 1)
    BY <1>3, <2>1, <2>2
  <2> QED BY <1>3, <2>3
<1> QED BY <1>4 DEF Good

\* The states of a candle.
LEMMA CandleStates ==
    ASSUME WideColumns, MarketType, NEW s, terms[s] \in EngineTerm,
           NEW i \in Int, Due(s) <= i, i < clock
    PROVE  /\ i \in Minute /\ ValidCandle(Candle(i))
           /\ Shaped(ReplayTo(s, i - 1)) /\ Dated(s, ReplayTo(s, i - 1), i - 1)
           /\ Shaped(Entered(s, i)) /\ Dated(s, Entered(s, i), i)
           /\ Shaped(Exited(s, i)) /\ Dated(s, Exited(s, i), i)
           /\ ReplayTo(s, i) = ManagementOf(terms[s], Exited(s, i), Candle(i), i)
           /\ Shaped(ReplayTo(s, i)) /\ Dated(s, ReplayTo(s, i), i)
           /\ Follows(ReplayTo(s, i - 1), Entered(s, i)) /\ Follows(Entered(s, i), Exited(s, i))
           /\ Follows(Exited(s, i), ReplayTo(s, i))
<1>1. i - 1 \in Int /\ -1 <= i - 1 /\ i - 1 < clock /\ clock \in Int
  BY FirstSafeOpenNat DEF Due, MarketType, Minute
<1> QED BY <1>1, ReplayShape, CandleShape

\* What the replay has booked by candle m it still has at candle n.
LEMMA ReplayFollows ==
    ASSUME WideColumns, MarketType, NEW s, terms[s] \in EngineTerm,
           NEW m \in Int, -1 <= m, NEW n \in Int, m <= n, n < clock
    PROVE  Follows(ReplayTo(s, m), ReplayTo(s, n))
<1> DEFINE Good(k) == Follows(ReplayTo(s, m), ReplayTo(s, k))
           T == {k \in Nat : m <= k - 1 /\ k - 1 < clock /\ ~Good(k - 1)}
<1>1. FirstSafeOpen(terms[s]) \in Nat /\ clock \in Int
  BY FirstSafeOpenNat DEF MarketType, Minute
<1>2. Good(m)
  BY DEF Follows
<1> HIDE DEF Good
<1>3. ASSUME T # {} PROVE FALSE
  <2>1. PICK k \in T : \A j \in T : k <= j
    BY <1>3, LeastNumber
  <2>2. k \in Nat /\ k - 1 \in Int /\ m <= k - 1 /\ k - 1 < clock /\ ~Good(k - 1)
    BY <2>1
  <2>3. m # k - 1
    BY <1>2, <2>2
  <2>4. k - 1 \in Nat /\ m <= (k - 1) - 1 /\ (k - 1) - 1 < clock /\ k - 1 < k
    BY <1>1, <2>2, <2>3
  <2>5. Good((k - 1) - 1)
    BY <2>1, <2>4
  <2>6. Follows(ReplayTo(s, (k - 1) - 1), ReplayTo(s, k - 1))
    <3>1. CASE k - 1 < FirstSafeOpen(terms[s])
      <4>1. ReplayTo(s, k - 1) = Unopened /\ ReplayTo(s, (k - 1) - 1) = Unopened
        BY <1>1, <2>2, <2>4, <3>1, ReplayUnfolds
      <4> QED BY <4>1 DEF Follows
    <3>2. CASE k - 1 >= FirstSafeOpen(terms[s])
      BY <2>2, <3>2, CandleStates, FollowsTransitive DEF Due
    <3> QED BY <1>1, <2>2, <3>1, <3>2
  <2>7. Good(k - 1)
    BY <2>5, <2>6, FollowsTransitive DEF Good
  <2> QED BY <2>2, <2>7
<1>4. n + 1 \in Nat /\ (n + 1) - 1 = n
  OBVIOUS
<1>5. Good(n)
  <2>1. n + 1 \notin T
    BY <1>3
  <2>2. Good((n + 1) - 1)
    BY <1>4, <2>1
  <2> QED BY <1>4, <2>2
<1> QED BY <1>5 DEF Good

\* Before its first candle a signal is unopened.
LEMMA Unfolding ==
    \A s : \A n \in Int : FirstSafeOpen(terms[s]) \in Nat /\ n >= -1 =>
        ReplayTo(s, n) = IF n < FirstSafeOpen(terms[s]) THEN Unopened
                         ELSE CandleStep(terms[s], ReplayTo(s, n - 1), n)
BY ReplayUnfolds

\* A candle of the replay: its entry, its exits, its decision.
LEMMA UnfoldingNext ==
    (\A s : \A n \in Int : FirstSafeOpen(terms[s]) \in Nat /\ n >= -1 =>
        ReplayTo(s, n) = IF n < FirstSafeOpen(terms[s]) THEN Unopened
                         ELSE CandleStep(terms[s], ReplayTo(s, n - 1), n))'
BY Unfolding, PTL

\* A replay depends on nothing but the terms and the candles.
LEMMA ReplayKept ==
    ASSUME NEW s, terms[s] \in EngineTerm, terms'[s] = terms[s], NEW m \in Int,
           \A i \in 0..m : Candle(i)' = Candle(i)
    PROVE  \A n \in -1..m : ReplayTo(s, n)' = ReplayTo(s, n)
<1> DEFINE F == FirstSafeOpen(terms[s])
           T == {k \in Nat : k - 1 <= m /\ ReplayTo(s, k - 1)' # ReplayTo(s, k - 1)}
<1>1. F \in Nat /\ FirstSafeOpen(terms'[s]) = F
  BY FirstSafeOpenNat
<1>2. ASSUME T # {} PROVE FALSE
  <2>1. PICK k \in T : \A j \in T : k <= j
    BY <1>2, LeastNumber
  <2>2. PICK n \in Int : n = k - 1
    OBVIOUS
  <2>3. k \in Nat /\ n >= -1 /\ n <= m /\ ReplayTo(s, n)' # ReplayTo(s, n)
    BY <2>1, <2>2
  <2>4. ReplayTo(s, n) = IF n < F THEN Unopened ELSE CandleStep(terms[s], ReplayTo(s, n - 1), n)
    BY <1>1, <2>3, Unfolding
  <2>5. ReplayTo(s, n)' = IF n < F THEN Unopened
                          ELSE CandleStep(terms[s], ReplayTo(s, n - 1), n)'
    BY <1>1, <2>3, UnfoldingNext
  <2>6. n >= F
    <3> SUFFICES ASSUME n < F PROVE FALSE
      BY <1>1
    <3>1. ReplayTo(s, n) = Unopened
      BY <2>4
    <3>2. ReplayTo(s, n)' = Unopened
      BY <2>5
    <3> QED BY <2>3, <3>1, <3>2, Zenon
  <2>7. ReplayTo(s, n - 1)' = ReplayTo(s, n - 1)
    <3>1. n \in Nat /\ n - 1 <= m /\ n < k
      BY <1>1, <2>2, <2>3, <2>6
    <3> QED BY <2>1, <3>1
  <2>8. CandleStep(terms[s], ReplayTo(s, n - 1), n)' = CandleStep(terms[s], ReplayTo(s, n - 1), n)
    <3>1. Candle(n)' = Candle(n)
      BY <1>1, <2>3, <2>6
    <3> QED BY <2>7, <3>1, Zenon DEF CandleStep
  <2> QED BY <1>1, <2>3, <2>4, <2>5, <2>6, <2>8
<1>3. ASSUME NEW n \in -1..m PROVE ReplayTo(s, n)' = ReplayTo(s, n)
  <2>1. n \in Int /\ n >= -1 /\ n <= m
    OBVIOUS
  <2>2. PICK k \in Nat : k = n + 1 /\ k - 1 = n
    BY <2>1
  <2>3. k \notin T
    BY <1>2
  <2>4. ReplayTo(s, k - 1)' = ReplayTo(s, k - 1)
    BY <2>1, <2>2, <2>3
  <2> QED BY <2>2, <2>4
<1> QED BY <1>3

\* A step that keeps the terms and the past candles keeps the states of a candle.
LEMMA StatesKept ==
    ASSUME NEW s, terms[s] \in EngineTerm, terms'[s] = terms[s], NEW m \in Int,
           \A i \in 0..m : Candle(i)' = Candle(i)
    PROVE  /\ Due(s)' = Due(s)
           /\ \A n \in -1..m : ReplayTo(s, n)' = ReplayTo(s, n)
           /\ \A i \in 0..m : Entered(s, i)' = Entered(s, i) /\ Exited(s, i)' = Exited(s, i)
<1>1. Due(s)' = Due(s)
  BY Zenon DEF Due
<1>2. \A n \in -1..m : ReplayTo(s, n)' = ReplayTo(s, n)
  BY ReplayKept
<1>3. ASSUME NEW i \in 0..m PROVE Entered(s, i)' = Entered(s, i) /\ Exited(s, i)' = Exited(s, i)
  <2>1. ReplayTo(s, i - 1)' = ReplayTo(s, i - 1) /\ Candle(i)' = Candle(i)
    BY <1>2
  <2>2. Entered(s, i)' = Entered(s, i)
    BY <2>1, Zenon DEF Entered
  <2>3. Exited(s, i)' = Exited(s, i)
    BY <2>1, <2>2, Zenon DEF Exited
  <2> QED BY <2>2, <2>3
<1> QED BY <1>1, <1>2, <1>3

----------------------------------------------------------------------------
(* What the ledger holds of a signal, told by the replay. *)

ManagementKey(s, i) == CommandKey(s, i, "management", "")

DecidedOn(s, i) == DecisionExists(ManagementKey(s, i))

\* Nothing is left to do about the last resolved candle.
Settled(s) ==
    \/ Resolved(s) < Due(s)
    \/ DecidedOn(s, Resolved(s))
    \/ ~IsOpen(Exited(s, Resolved(s)), "MANAGED")

Holds(s, st) ==
    /\ status[s] = st.status /\ trade[s] = st.trade
    /\ \A v \in Variant : track[s][v] = st.track[v] /\ outcome[s][v] = st.outcome[v]

\* Candle i is being resolved: each track is where it was or where it will be.
UnderWay(s, i) ==
    /\ trade[s] = Entered(s, i).trade
    /\ status[s] \in {Entered(s, i).status, Exited(s, i).status}
    /\ \A v \in Variant :
          \/ track[s][v] = Entered(s, i).track[v] /\ outcome[s][v] = Entered(s, i).outcome[v]
          \/ track[s][v] = Exited(s, i).track[v] /\ outcome[s][v] = Exited(s, i).outcome[v]

RowsReplayed(s) ==
    \/ Settled(s) /\ Holds(s, ReplayTo(s, Resolved(s)))
    \/ ~Settled(s) /\ Holds(s, Exited(s, Resolved(s)))
    \/ Resolved(s) + 1 < clock /\ Settled(s) /\ UnderWay(s, Resolved(s) + 1)

NextManagedOf(s) ==
    IF checkpoint[ManagementCheckpoint(s)] = Null THEN trade[s].activated_at
    ELSE checkpoint[ManagementCheckpoint(s)] + 1

ManagedKept(s) ==
    TrackActive(s, "MANAGED") =>
        /\ NextManagedOf(s) \in {Resolved(s), Resolved(s) + 1}
        /\ Due(s) <= NextManagedOf(s)
        /\ NextManagedOf(s) = Resolved(s) + 1 => Settled(s)
        /\ NextManagedOf(s) = Resolved(s) => IsOpen(Exited(s, Resolved(s)), "MANAGED")

DecisionsKept(s) ==
    /\ \A i \in Minute : DecidedOn(s, i) =>
          Due(s) <= i /\ i <= Resolved(s) /\ IsOpen(Exited(s, i), "MANAGED")
    /\ \A i \in Minute : Due(s) <= i /\ i < Resolved(s) /\ IsOpen(Exited(s, i), "MANAGED")
          => DecidedOn(s, i)

CheckpointsKept(s) ==
    /\ checkpoint[LifecycleCheckpoint(s)] # Null =>
          /\ checkpoint[LifecycleCheckpoint(s)] \in Minute
          /\ Due(s) <= checkpoint[LifecycleCheckpoint(s)]
          /\ checkpoint[LifecycleCheckpoint(s)] < clock
    /\ checkpoint[ManagementCheckpoint(s)] # Null =>
          /\ checkpoint[ManagementCheckpoint(s)] \in Minute
          /\ DecidedOn(s, checkpoint[ManagementCheckpoint(s)])

Books(s) == RowsReplayed(s) /\ ManagedKept(s) /\ DecisionsKept(s) /\ CheckpointsKept(s)

\* Where the last resolved candle lies.
LEMMA ResolvedIs ==
    ASSUME EngineInv, NEW s \in Created, CheckpointsKept(s)
    PROVE  /\ s \in SignalId /\ terms[s] \in EngineTerm /\ MarketType
           /\ Due(s) \in Nat /\ Resolved(s) \in Int /\ clock \in Int /\ Resolved(s) >= -1
           /\ Due(s) - 1 <= Resolved(s) /\ Resolved(s) < MaxMinute + 1
           /\ Resolved(s) < Due(s) \/ Resolved(s) < clock
           /\ Resolved(s) >= Due(s) => Resolved(s) \in Minute
           /\ Resolved(s) < Due(s) => ReplayTo(s, Resolved(s)) = Unopened /\ Settled(s)
<1>1. s \in SignalId /\ terms[s] \in EngineTerm /\ MarketType
  BY DEF Created, EngineInv, EngineTypeOK, TermsSound, IInv, StatusMatchesRows
<1>2. /\ Due(s) \in Nat /\ clock \in Int /\ MaxMinute \in Nat
      /\ Due(s) <= MaxMinute + 1
  BY <1>1, FirstSafeOpenNat, EngineAssumption DEF Due, MarketType, Minute
<1>3. /\ Resolved(s) \in Int /\ Due(s) - 1 <= Resolved(s) /\ Resolved(s) < MaxMinute + 1
      /\ Resolved(s) < Due(s) \/ Resolved(s) < clock
      /\ Resolved(s) >= Due(s) => Resolved(s) \in Minute
  <2>1. CASE checkpoint[LifecycleCheckpoint(s)] = Null
    <3>1. Resolved(s) = Due(s) - 1
      BY <2>1 DEF Resolved, Due
    <3> QED BY <1>2, <3>1
  <2>2. CASE checkpoint[LifecycleCheckpoint(s)] # Null
    <3>1. Resolved(s) = checkpoint[LifecycleCheckpoint(s)]
      BY <2>2 DEF Resolved
    <3> QED BY <1>2, <2>2, <3>1 DEF CheckpointsKept, Minute
  <2> QED BY <2>1, <2>2
<1>4. Resolved(s) < Due(s) => ReplayTo(s, Resolved(s)) = Unopened /\ Settled(s)
  BY <1>2, <1>3, Unfolding DEF Due, Settled
<1> QED BY <1>1, <1>2, <1>3, <1>4

\* A signal that is not settled waits for the decision of its last resolved
\* candle.
LEMMA Unsettled ==
    ASSUME WideColumns, EngineInv, NEW s \in Created, Books(s), ~Settled(s)
    PROVE  /\ Due(s) <= Resolved(s) /\ Resolved(s) < clock /\ ~DecidedOn(s, Resolved(s))
           /\ IsOpen(Exited(s, Resolved(s)), "MANAGED")
           /\ Holds(s, Exited(s, Resolved(s))) /\ TrackActive(s, "MANAGED")
<1>1. /\ Due(s) <= Resolved(s) /\ ~DecidedOn(s, Resolved(s))
      /\ IsOpen(Exited(s, Resolved(s)), "MANAGED")
  BY ResolvedIs DEF Books, Settled
<1>2. Holds(s, Exited(s, Resolved(s)))
  BY DEF Books, RowsReplayed
<1>3. TrackActive(s, "MANAGED")
  BY <1>1, <1>2 DEF Holds, IsOpen, TrackActive, Variant
<1> QED BY <1>1, <1>2, <1>3, ResolvedIs DEF Books

\* The rows of a settled signal lie between the candle resolved last and the next.
LEMMA SettledRows ==
    ASSUME WideColumns, EngineInv, NEW s \in Created, Books(s), Settled(s)
    PROVE  \/ Holds(s, ReplayTo(s, Resolved(s)))
           \/ Resolved(s) + 1 < clock /\ UnderWay(s, Resolved(s) + 1)
BY DEF Books, RowsReplayed

\* What is under way began where the last candle ended.
LEMMA Begins ==
    ASSUME WideColumns, EngineInv, NEW s \in Created, CheckpointsKept(s), Resolved(s) + 1 < clock,
           Settled(s), Holds(s, ReplayTo(s, Resolved(s))),
           Entered(s, Resolved(s) + 1) = ReplayTo(s, Resolved(s))
    PROVE  UnderWay(s, Resolved(s) + 1)
BY DEF Holds, UnderWay

\* What one candle does to a signal, state by state.
LEMMA EnteredIs ==
    ASSUME WideColumns, MarketType, NEW s, terms[s] \in EngineTerm,
           NEW i \in Int, Due(s) <= i, i < clock
    PROVE  /\ ReplayTo(s, i - 1).status # "PENDING" => Entered(s, i) = ReplayTo(s, i - 1)
           /\ Entered(s, i).status = "PENDING" => Entered(s, i) = ReplayTo(s, i - 1)
           /\ \A v \in Variant : Entered(s, i).outcome[v] = ReplayTo(s, i - 1).outcome[v]
           /\ ReplayTo(s, i - 1).status = "PENDING" =>
                 /\ MustExpire(terms[s], i) => Entered(s, i).status = "EXPIRED"
                 /\ ~MustExpire(terms[s], i) /\ TouchesEntry(terms[s], Candle(i)) =>
                       Entered(s, i).status = "ACTIVE"
                 /\ ~MustExpire(terms[s], i) /\ ~TouchesEntry(terms[s], Candle(i)) =>
                       Entered(s, i) = ReplayTo(s, i - 1)
           /\ ReplayTo(s, i - 1).status = "PENDING" /\ Entered(s, i).status = "ACTIVE" =>
                 /\ Entered(s, i).trade = Filled(terms[s], i)
                 /\ \A v \in Variant : /\ Entered(s, i).track[v] = FreshRow(terms[s])
                                       /\ Entered(s, i).outcome[v] = Null
<1>1. i \in Minute /\ Shaped(ReplayTo(s, i - 1))
  BY CandleStates
<1>2. Entered(s, i) = EntryOf(terms[s], ReplayTo(s, i - 1), Candle(i), i)
  BY DEF Entered
<1> QED BY <1>1, <1>2, EntryShape

\* The exits of candle i, track by track.
LEMMA ExitedIs ==
    ASSUME WideColumns, MarketType, NEW s, terms[s] \in EngineTerm,
           NEW i \in Int, Due(s) <= i, i < clock
    PROVE  /\ Exited(s, i).trade = Entered(s, i).trade
           /\ IF IsOpen(Entered(s, i), "MANAGED") /\ ~IsOpen(Exited(s, i), "MANAGED")
              THEN Exited(s, i).status = "CLOSED" ELSE Exited(s, i).status = Entered(s, i).status
           /\ \A v \in Variant :
                 /\ IsOpen(Exited(s, i), v) => IsOpen(Entered(s, i), v)
                 /\ IsOpen(Exited(s, i), v) \/ ~IsOpen(Entered(s, i), v) =>
                       /\ Exited(s, i).track[v] = Entered(s, i).track[v]
                       /\ Exited(s, i).outcome[v] = Entered(s, i).outcome[v]
                 /\ IsOpen(Entered(s, i), v) =>
                       (IsOpen(Exited(s, i), v) <=>
                          ~Exits(terms[s], Entered(s, i).track[v], Candle(i),
                                 Entered(s, i).trade.activated_at = i))
                 /\ IsOpen(Entered(s, i), v) /\ ~IsOpen(Exited(s, i), v) =>
                       /\ Exited(s, i).outcome[v] =
                             ExitClosing(terms[s], Entered(s, i).trade.fill_price,
                                         Entered(s, i).track[v], Candle(i),
                                         Entered(s, i).trade.activated_at = i)
                       /\ Exited(s, i).outcome[v] \in Closing /\ Exited(s, i).outcome[v] # Null
                       /\ Exited(s, i).track[v] =
                             ClosedRow(Entered(s, i).track[v], Exited(s, i).outcome[v])
<1>1. i \in Minute /\ ValidCandle(Candle(i)) /\ Shaped(Entered(s, i))
  BY CandleStates
<1>2. Exited(s, i) = ExitOf(terms[s], Entered(s, i), Candle(i), i)
  BY DEF Exited
<1> QED BY <1>1, <1>2, ExitShape

\* The decision of a candle, as the replay takes it.
Deciding(s, i) ==
    Decision(terms[s], Exited(s, i).trade, Exited(s, i).track["MANAGED"], Candle(i),
             Exited(s, i).trade.activated_at = i)

\* The decision of candle i changes the managed row alone.
LEMMA ManagedIs ==
    ASSUME WideColumns, MarketType, NEW s, terms[s] \in EngineTerm,
           NEW i \in Int, Due(s) <= i, i < clock
    PROVE  /\ ReplayTo(s, i).trade = Exited(s, i).trade
           /\ ReplayTo(s, i).status = Exited(s, i).status
           /\ \A v \in Variant :
                 /\ ReplayTo(s, i).outcome[v] = Exited(s, i).outcome[v]
                 /\ IsOpen(ReplayTo(s, i), v) <=> IsOpen(Exited(s, i), v)
           /\ ReplayTo(s, i).track["FIXED"] = Exited(s, i).track["FIXED"]
           /\ ~IsOpen(Exited(s, i), "MANAGED") => ReplayTo(s, i) = Exited(s, i)
           /\ IsOpen(Exited(s, i), "MANAGED") =>
                 ReplayTo(s, i).track["MANAGED"] =
                     IF Deciding(s, i).changes_managed_result
                     THEN ManagedAfter(Exited(s, i).track["MANAGED"], Deciding(s, i))
                     ELSE Exited(s, i).track["MANAGED"]
<1>1. ValidCandle(Candle(i)) /\ Shaped(Exited(s, i))
      /\ ReplayTo(s, i) = ManagementOf(terms[s], Exited(s, i), Candle(i), i)
  BY CandleStates
<1>2. "FIXED" \in Variant
  BY DEF Variant
<1> QED BY <1>1, <1>2, ManageShape DEF Deciding

\* Once a signal is entered it stays so, and what closes stays closed.
LEMMA Onward ==
    ASSUME WideColumns, MarketType, NEW s, terms[s] \in EngineTerm,
           NEW i \in Int, Due(s) <= i, NEW n \in Int, i <= n, n < clock
    PROVE  /\ Follows(Entered(s, i), Exited(s, n)) /\ Follows(Exited(s, i), Exited(s, n))
           /\ Follows(Exited(s, i), ReplayTo(s, n))
           /\ n + 1 < clock => /\ Follows(ReplayTo(s, n), Entered(s, n + 1))
                               /\ Follows(ReplayTo(s, n), Exited(s, n + 1))
<1>1. Due(s) \in Nat /\ clock \in Int
  BY FirstSafeOpenNat DEF Due, MarketType, Minute
<1>2. Follows(Exited(s, i), ReplayTo(s, i)) /\ Follows(Entered(s, i), Exited(s, i))
  BY <1>1, CandleStates
<1>3. Follows(ReplayTo(s, i), ReplayTo(s, n))
  BY <1>1, ReplayFollows
<1>4. Follows(Exited(s, i), ReplayTo(s, n))
  BY <1>2, <1>3, FollowsTransitive
<1>5. Follows(Exited(s, i), Exited(s, n))
  <2>1. CASE i = n
    BY <2>1, Zenon DEF Follows
  <2>2. CASE i # n
    <3>1. i <= n - 1 /\ n - 1 \in Int /\ n - 1 < clock /\ -1 <= i /\ Due(s) <= n
      BY <1>1, <2>2
    <3>2. Follows(ReplayTo(s, i), ReplayTo(s, n - 1))
      BY <1>1, <3>1, ReplayFollows
    <3>3. Follows(ReplayTo(s, n - 1), Entered(s, n)) /\ Follows(Entered(s, n), Exited(s, n))
      BY <1>1, <3>1, CandleStates
    <3> QED BY <1>2, <3>2, <3>3, FollowsTransitive
  <2> QED BY <2>1, <2>2
<1>6. n + 1 < clock => /\ Follows(ReplayTo(s, n), Entered(s, n + 1))
                       /\ Follows(ReplayTo(s, n), Exited(s, n + 1))
  <2> SUFFICES ASSUME n + 1 < clock
               PROVE  /\ Follows(ReplayTo(s, n), Entered(s, n + 1))
                      /\ Follows(ReplayTo(s, n), Exited(s, n + 1))
    OBVIOUS
  <2>0. PICK m \in Int : m = n + 1 /\ m - 1 = n /\ Due(s) <= m /\ m < clock
    BY <1>1
  <2>1. Follows(ReplayTo(s, m - 1), Entered(s, m)) /\ Follows(Entered(s, m), Exited(s, m))
    BY <1>1, <2>0, CandleStates
  <2>2. Follows(ReplayTo(s, m - 1), Exited(s, m))
    BY <2>1, FollowsTransitive
  <2> QED BY <2>0, <2>1, <2>2
<1> QED BY <1>2, <1>4, <1>5, <1>6, FollowsTransitive

----------------------------------------------------------------------------
(* Where the ledger stands when a command can still take effect. *)

\* The facts of the ledger's own invariant that are needed here.
LEMMA RowFacts ==
    ASSUME EngineInv, NEW s \in Created
    PROVE  /\ s \in SignalId /\ status[s] # "ABSENT"
           /\ status[s] = "ACTIVE" <=> TrackActive(s, "MANAGED")
           /\ status[s] \in {"ACTIVE", "CLOSED"} <=> trade[s] # Null
           /\ \A v \in Variant : /\ trade[s] # Null <=> track[s][v] # Null
                                 /\ outcome[s][v] # Null <=> track[s][v] # Null /\ ~TrackActive(s, v)
BY Zenon DEF EngineInv, IInv, StatusMatchesRows, ClosedTracksHaveOutcomes, Created

\* A PENDING signal that candle i enters has candle i for its next.
LEMMA OpeningPlace ==
    ASSUME WideColumns, EngineInv, NEW s \in Created, Books(s), status[s] = "PENDING",
           NEW i \in Int, Due(s) <= i, i <= Resolved(s) + 1, i < clock,
           Entered(s, i).status # "PENDING"
    PROVE  i = Resolved(s) + 1 /\ Settled(s) /\ Holds(s, ReplayTo(s, Resolved(s)))
<1> DEFINE L == Resolved(s)
<1>1. MarketType /\ terms[s] \in EngineTerm /\ L \in Int /\ CheckpointsKept(s) /\ Due(s) \in Nat
      /\ clock \in Int /\ (L < Due(s) \/ L < clock)
  BY ResolvedIs DEF Books
<1>2. Settled(s)
  <2>1. ~Settled(s) => TrackActive(s, "MANAGED")
    BY Unsettled
  <2> QED BY <2>1, RowFacts
<1>3. CASE i <= L
  <2>1. L < clock
    BY <1>1, <1>3
  <2>2. /\ Follows(Entered(s, i), Exited(s, L))
        /\ L + 1 < clock => /\ Follows(ReplayTo(s, L), Entered(s, L + 1))
                            /\ Follows(ReplayTo(s, L), Exited(s, L + 1))
    BY <1>1, <1>3, <2>1, Onward
  <2>3. ReplayTo(s, L).status = Exited(s, L).status
    BY <1>1, <1>3, <2>1, ManagedIs
  <2>4. ReplayTo(s, L).status # "PENDING"
    BY <2>2, <2>3 DEF Follows
  <2>5. L + 1 < clock => Entered(s, L + 1).status # "PENDING" /\ Exited(s, L + 1).status # "PENDING"
    BY <2>2, <2>4 DEF Follows
  <2>6. Holds(s, ReplayTo(s, L)) \/ (L + 1 < clock /\ UnderWay(s, L + 1))
    BY <1>2, SettledRows
  <2> QED BY <2>4, <2>5, <2>6 DEF Holds, UnderWay
<1>4. CASE i = L + 1
  <2>1. Entered(s, i).status # "PENDING" /\ Exited(s, i).status # "PENDING"
    <3>1. Follows(Entered(s, i), Exited(s, i))
      BY <1>1, CandleStates
    <3> QED BY <3>1 DEF Follows
  <2>2. Holds(s, ReplayTo(s, L)) \/ (L + 1 < clock /\ UnderWay(s, i))
    BY <1>2, <1>4, SettledRows
  <2>3. Holds(s, ReplayTo(s, L))
    BY <2>1, <2>2 DEF UnderWay
  <2> QED BY <1>2, <1>4, <2>3
<1> QED BY <1>1, <1>3, <1>4

\* An open track that candle i closes has candle i for its next, and its row is
\* the one the candle found.
LEMMA ClosingPlace ==
    ASSUME WideColumns, EngineInv, NEW s \in Created, Books(s), NEW v \in Variant, TrackActive(s, v),
           NEW i \in Int, Due(s) <= i, i <= Resolved(s) + 1, i < clock,
           IsOpen(Entered(s, i), v), ~IsOpen(Exited(s, i), v), i = Resolved(s) + 1 => Settled(s)
    PROVE  /\ i = Resolved(s) + 1 /\ UnderWay(s, i)
           /\ track[s][v] = Entered(s, i).track[v] /\ outcome[s][v] = Entered(s, i).outcome[v]
<1> DEFINE L == Resolved(s)
<1>1. MarketType /\ terms[s] \in EngineTerm /\ L \in Int /\ CheckpointsKept(s) /\ Due(s) \in Nat
      /\ clock \in Int /\ (L < Due(s) \/ L < clock)
  BY ResolvedIs DEF Books
<1>2. outcome[s][v] = Null
  BY RowFacts
<1>3. Exited(s, i).outcome[v] # Null
  BY <1>1, ExitedIs
<1>4. CASE i <= L
  <2>1. L < clock
    BY <1>1, <1>4
  <2>2. /\ Follows(Exited(s, i), Exited(s, L))
        /\ L + 1 < clock => /\ Follows(ReplayTo(s, L), Entered(s, L + 1))
                            /\ Follows(ReplayTo(s, L), Exited(s, L + 1))
    BY <1>1, <1>4, <2>1, Onward
  <2>3. Exited(s, L).outcome[v] # Null
    BY <1>3, <2>2 DEF Follows
  <2>4. ReplayTo(s, L).outcome[v] # Null
    BY <1>1, <1>4, <2>1, <2>3, ManagedIs
  <2>5. L + 1 < clock => Entered(s, L + 1).outcome[v] # Null /\ Exited(s, L + 1).outcome[v] # Null
    BY <2>2, <2>4 DEF Follows
  <2>6. \/ Holds(s, ReplayTo(s, L)) \/ Holds(s, Exited(s, L))
        \/ L + 1 < clock /\ UnderWay(s, L + 1)
    BY DEF Books, RowsReplayed
  <2> QED BY <1>2, <2>3, <2>4, <2>5, <2>6 DEF Holds, UnderWay
<1>5. CASE i = L + 1
  <2>1. Settled(s)
    BY <1>5
  <2>2. /\ track[s][v] # Null /\ track[s][v].track_status = "ACTIVE"
        /\ ~(Exited(s, i).track[v] # Null /\ Exited(s, i).track[v].track_status = "ACTIVE")
    BY DEF TrackActive, IsOpen
  <2>3. UnderWay(s, i)
    <3>1. CASE L + 1 < clock /\ UnderWay(s, L + 1)
      BY <1>5, <3>1
    <3>2. CASE Holds(s, ReplayTo(s, L))
      <4>1. i - 1 = L
        BY <1>1, <1>5
      <4>2. Shaped(ReplayTo(s, L))
        BY <1>1, <4>1, CandleStates
      <4>3. ReplayTo(s, L).status # "PENDING"
        BY <2>2, <3>2, <4>2 DEF Holds, Shaped
      <4>4. Entered(s, i) = ReplayTo(s, L)
        BY <1>1, <4>1, <4>3, EnteredIs
      <4> QED BY <1>1, <1>5, <2>1, <3>2, <4>4, Begins
    <3> QED BY <2>1, <3>1, <3>2, SettledRows
  <2>4. track[s][v] = Entered(s, i).track[v] /\ outcome[s][v] = Entered(s, i).outcome[v]
    BY <2>2, <2>3 DEF UnderWay
  <2> QED BY <1>5, <2>3, <2>4
<1> QED BY <1>1, <1>4, <1>5

\* An undecided candle on which the MANAGED track is open is the last one
\* resolved.
LEMMA DecidingPlace ==
    ASSUME WideColumns, EngineInv, NEW s \in Created, Books(s), NEW i \in Minute, Due(s) <= i,
           i <= Resolved(s), ~DecidedOn(s, i), IsOpen(Exited(s, i), "MANAGED")
    PROVE  i = Resolved(s) /\ ~Settled(s) /\ Holds(s, Exited(s, i))
<1>1. Resolved(s) \in Int /\ Due(s) \in Nat /\ i \in Int
  BY ResolvedIs, EngineAssumption DEF Books, Minute
<1>2. ~(i < Resolved(s))
  BY DEF Books, DecisionsKept
<1>3. i = Resolved(s)
  BY <1>1, <1>2
<1>4. ~Settled(s)
  BY <1>1, <1>3 DEF Settled
<1> QED BY <1>3, <1>4, Unsettled

\* The trade of a signal is the one the replay opened.
LEMMA TradeIs ==
    ASSUME WideColumns, EngineInv, NEW s \in Created, Books(s), NEW i \in Int, Due(s) <= i,
           i <= Resolved(s), Exited(s, i).trade # Null
    PROVE  trade[s] = Exited(s, i).trade
<1> DEFINE L == Resolved(s)
<1>1. MarketType /\ terms[s] \in EngineTerm /\ L \in Int /\ CheckpointsKept(s) /\ Due(s) \in Nat
      /\ clock \in Int /\ L < clock
  BY ResolvedIs DEF Books
<1>2. /\ Follows(Exited(s, i), Exited(s, L)) /\ Follows(Exited(s, i), ReplayTo(s, L))
      /\ L + 1 < clock => Follows(ReplayTo(s, L), Entered(s, L + 1))
  BY <1>1, Onward
<1>3. /\ Exited(s, L).trade = Exited(s, i).trade /\ ReplayTo(s, L).trade = Exited(s, i).trade
      /\ L + 1 < clock => Entered(s, L + 1).trade = Exited(s, i).trade
  BY <1>2 DEF Follows
<1>4. \/ Holds(s, ReplayTo(s, L)) \/ Holds(s, Exited(s, L))
      \/ L + 1 < clock /\ UnderWay(s, L + 1)
  BY DEF Books, RowsReplayed
<1> QED BY <1>3, <1>4 DEF Holds, UnderWay

----------------------------------------------------------------------------
(* What one command does to one signal. *)

RowsStay(s) ==
    /\ status'[s] = status[s] /\ trade'[s] = trade[s]
    /\ \A v \in Variant : track'[s][v] = track[s][v] /\ outcome'[s][v] = outcome[s][v]

DecisionsStay(s) == \A i : DecidedOn(s, i)' <=> DecidedOn(s, i)

MarksStay(s) ==
    /\ checkpoint'[LifecycleCheckpoint(s)] = checkpoint[LifecycleCheckpoint(s)]
    /\ checkpoint'[ManagementCheckpoint(s)] = checkpoint[ManagementCheckpoint(s)]

Untouched(s) == RowsStay(s) /\ DecisionsStay(s) /\ MarksStay(s)

Opens(s, c) ==
    /\ c.operation = "activate_signal" /\ c.signal_id = s
    /\ status[s] = "PENDING" /\ status'[s] = "ACTIVE" /\ trade'[s] = Filled(terms[s], c.at)
    /\ \A v \in Variant : track'[s][v] = FreshRow(terms[s]) /\ outcome'[s][v] = outcome[s][v]
    /\ DecisionsStay(s) /\ MarksStay(s)

Lapses(s, c) ==
    /\ c.operation = "transition_pending" /\ c.signal_id = s
    /\ status[s] = "PENDING" /\ status'[s] = "EXPIRED" /\ trade'[s] = trade[s]
    /\ \A v \in Variant : track'[s][v] = track[s][v] /\ outcome'[s][v] = outcome[s][v]
    /\ DecisionsStay(s) /\ MarksStay(s)

Closes(s, c) ==
    LET v == c.data.variant
    IN  /\ c.operation = "close_track" /\ c.signal_id = s /\ v \in Variant
        /\ TrackActive(s, v)
        /\ status'[s] = IF v = "MANAGED" THEN "CLOSED" ELSE status[s]
        /\ trade'[s] = trade[s]
        /\ track'[s][v] = ClosedRow(track[s][v], c.data.closing)
        /\ outcome'[s][v] = c.data.closing
        /\ \A w \in Variant : w # v => track'[s][w] = track[s][w] /\ outcome'[s][w] = outcome[s][w]
        /\ DecisionsStay(s) /\ MarksStay(s)

Decides(s, c) ==
    /\ c.operation = "apply_management_decision" /\ c.signal_id = s
    /\ TrackActive(s, "MANAGED") /\ ~DecidedOn(s, c.at)
    /\ \A i : DecidedOn(s, i)' <=> DecidedOn(s, i) \/ i = c.at
    /\ status'[s] = status[s] /\ trade'[s] = trade[s]
    /\ \A v \in Variant : outcome'[s][v] = outcome[s][v]
    /\ track'[s]["FIXED"] = track[s]["FIXED"]
    /\ track'[s]["MANAGED"] = IF c.data.changes_managed_result
                              THEN ManagedAfter(track[s]["MANAGED"], c.data)
                              ELSE track[s]["MANAGED"]
    /\ MarksStay(s)

Marks(s, c, key, other) ==
    /\ c.operation = "advance_checkpoint" /\ c.key = key
    /\ checkpoint[key] # Null => c.at > checkpoint[key]
    /\ checkpoint'[key] = c.at /\ checkpoint'[other] = checkpoint[other]
    /\ RowsStay(s) /\ DecisionsStay(s)

MarksLifecycle(s, c) == Marks(s, c, LifecycleCheckpoint(s), ManagementCheckpoint(s))
MarksManagement(s, c) == Marks(s, c, ManagementCheckpoint(s), LifecycleCheckpoint(s))

\* advance_checkpoint moves one checkpoint, forward or not at all.
LEMMA CheckpointMoves ==
    ASSUME NEW c, Executes(c) \/ UNCHANGED ledgerVars
    PROVE  \/ checkpoint' = checkpoint
           \/ c.operation = "advance_checkpoint" /\ AdvanceCheckpoint(c.key, c.at)
<1>1. CASE UNCHANGED ledgerVars
  <2>1. checkpoint' = checkpoint
    BY <1>1 DEF ledgerVars
  <2> QED BY <2>1
<1>2. CASE Applies(c)
  <2>1. \/ c.operation = "advance_checkpoint" /\ AdvanceCheckpoint(c.key, c.at)
        \/ AllocateSignalId(c.key) \/ EnqueueNotification(c.key)
        \/ CreateSignal(c.signal_id, c.data, c.key)
        \/ ActivateSignal(c.signal_id, c.data.fill_price, c.at, c.key)
        \/ TransitionPending(c.signal_id, "EXPIRED", c.key)
        \/ CloseTrack(c.signal_id, c.data.variant, c.data.closing, c.data.payload, c.key)
        \/ ApplyManagement(c.signal_id, c.data, c.key)
    BY <1>2, Zenon DEF Applies
  <2>2. /\ AllocateSignalId(c.key) => checkpoint' = checkpoint
        /\ EnqueueNotification(c.key) => checkpoint' = checkpoint
        /\ CreateSignal(c.signal_id, c.data, c.key) => checkpoint' = checkpoint
    BY DEF AllocateSignalId, EnqueueNotification, CreateSignal
  <2>3. /\ ActivateSignal(c.signal_id, c.data.fill_price, c.at, c.key) => checkpoint' = checkpoint
        /\ TransitionPending(c.signal_id, "EXPIRED", c.key) => checkpoint' = checkpoint
    BY DEF ActivateSignal, TransitionPending
  <2>4. CloseTrack(c.signal_id, c.data.variant, c.data.closing, c.data.payload, c.key)
          => checkpoint' = checkpoint
    BY DEF CloseTrack
  <2>5. ApplyManagement(c.signal_id, c.data, c.key) => checkpoint' = checkpoint
    BY DEF ApplyManagement
  <2> QED BY <2>1, <2>2, <2>3, <2>4, <2>5, Zenon
<1> QED BY <1>1, <1>2 DEF Executes

\* Two signals never share a key.
LEMMA KeysApart ==
    /\ \A s, t : LifecycleCheckpoint(s) = LifecycleCheckpoint(t) => s = t
    /\ \A s, t : ManagementCheckpoint(s) = ManagementCheckpoint(t) => s = t
    /\ \A s, t : LifecycleCheckpoint(s) # ManagementCheckpoint(t)
    /\ \A s, t, i, j : ManagementKey(s, i) = ManagementKey(t, j) => s = t /\ i = j
<1>1. \A s : LifecycleCheckpoint(s).signal_id = s /\ LifecycleCheckpoint(s).replay = "lifecycle"
  BY DEF LifecycleCheckpoint
<1>2. \A s : ManagementCheckpoint(s).signal_id = s /\ ManagementCheckpoint(s).replay = "management"
  BY DEF ManagementCheckpoint
<1>3. \A s, i : ManagementKey(s, i).signal_id = s /\ ManagementKey(s, i).at = i
  BY DEF ManagementKey, CommandKey
<1>4. "lifecycle" # "management"
  OBVIOUS
<1>5. \A s, t : LifecycleCheckpoint(s) = LifecycleCheckpoint(t) => s = t
  BY <1>1
<1>6. \A s, t : ManagementCheckpoint(s) = ManagementCheckpoint(t) => s = t
  BY <1>2
<1>7. \A s, t : LifecycleCheckpoint(s) # ManagementCheckpoint(t)
  <2> TAKE s, t
  <2>1. LifecycleCheckpoint(s).replay # ManagementCheckpoint(t).replay
    BY <1>1, <1>2, <1>4
  <2> QED BY <2>1, Zenon
<1>8. \A s, t, i, j : ManagementKey(s, i) = ManagementKey(t, j) => s = t /\ i = j
  BY <1>3
<1> QED BY <1>5, <1>6, <1>7, <1>8

\* A decision leaves its key and no other.
LEMMA DecisionRecorded ==
    ASSUME NEW s, NEW a, NEW k, ApplyManagement(s, a, k)
    PROVE  \A j : DecisionExists(j)' <=> DecisionExists(j) \/ j = k
<1> DEFINE d == [signal_id |-> s, dedupe_key |-> k, adjustment |-> a]
<1>1. decision' = decision \cup {d} /\ d.dedupe_key = k
  BY DEF ApplyManagement
<1> HIDE DEF d
<1> QED BY <1>1 DEF DecisionExists

\* No decision is added where the table stays.
LEMMA DecisionsSame ==
    ASSUME decision' = decision
    PROVE  \A s : DecisionsStay(s)
BY DEF DecisionsStay, DecidedOn, DecisionExists

\* No checkpoint moves where the table stays.
LEMMA MarksSame ==
    ASSUME checkpoint' = checkpoint
    PROVE  \A s : MarksStay(s)
BY DEF MarksStay

\* What a command does to a signal that exists, whichever command it is.
LEMMA Effects ==
    ASSUME WideColumns, EngineInv, NEW s \in Created, NEW c \in EngineCommand, Keyed(c),
           Executes(c) \/ UNCHANGED ledgerVars,
           \A d \in decision : Receipt(d.dedupe_key, "apply_management_decision") \in receipt,
           c.operation = "activate_signal" => c.data.fill_price = ConservativeEntry(terms[c.signal_id])
    PROVE  /\ terms'[s] = terms[s]
           /\ \/ Untouched(s)
              \/ Opens(s, c) \/ Lapses(s, c) \/ Closes(s, c) \/ Decides(s, c)
              \/ MarksLifecycle(s, c) \/ MarksManagement(s, c)
<1>0. s \in SignalId /\ status[s] # "ABSENT" /\ TypeOK /\ StatusMatchesRows
  BY DEF Created, EngineInv, IInv
<1>1. CASE UNCHANGED tradeVars
  <2>1. RowsStay(s) /\ terms'[s] = terms[s] /\ DecisionsStay(s)
    BY <1>1, DecisionsSame DEF RowsStay, tradeVars
  <2>2. CASE checkpoint' = checkpoint
    BY <2>1, <2>2, MarksSame DEF Untouched
  <2>3. CASE c.operation = "advance_checkpoint" /\ AdvanceCheckpoint(c.key, c.at)
    <3>1. /\ checkpoint[c.key] # Null => c.at > checkpoint[c.key]
          /\ checkpoint' = [checkpoint EXCEPT ![c.key] = c.at]
      BY <2>3 DEF AdvanceCheckpoint, AdvanceAllowed
    <3>2. c.key \in CheckpointKey /\ DOMAIN checkpoint = CheckpointKey
      BY <1>0, <2>3 DEF TypeOK, EngineCommand, SignalCommand
    <3>3. checkpoint'[c.key] = c.at /\ \A k : k # c.key => checkpoint'[k] = checkpoint[k]
      BY <3>1, <3>2
    <3>4. LifecycleCheckpoint(s) # ManagementCheckpoint(s)
      BY KeysApart
    <3>5. CASE c.key = LifecycleCheckpoint(s)
      BY <2>1, <2>3, <3>1, <3>3, <3>4, <3>5 DEF Marks, MarksLifecycle
    <3>6. CASE c.key = ManagementCheckpoint(s)
      BY <2>1, <2>3, <3>1, <3>3, <3>4, <3>6 DEF Marks, MarksManagement
    <3>7. CASE c.key # LifecycleCheckpoint(s) /\ c.key # ManagementCheckpoint(s)
      BY <2>1, <3>3, <3>7 DEF Untouched, MarksStay
    <3> QED BY <3>5, <3>6, <3>7
  <2> QED BY <2>2, <2>3, CheckpointMoves
<1>2. CASE /\ c.operation = "create_signal" /\ c.signal_id \in SignalId
           /\ CreateSignal(c.signal_id, c.data, c.key)
  <2>1. c.signal_id # s
    BY <1>0, <1>2 DEF CreateSignal, CreateAllowed
  <2>2. RowsStay(s) /\ terms'[s] = terms[s]
    BY <1>0, <1>2, <2>1 DEF RowsStay, CreateSignal, TypeOK
  <2> QED BY <1>2, <2>2, DecisionsSame, MarksSame DEF Untouched, CreateSignal
<1>3. CASE /\ c.operation = "activate_signal" /\ c.signal_id \in SignalId
           /\ c.data.fill_price \in Decimal /\ c.at \in Time /\ c.key \in DedupeKey
           /\ ActivateSignal(c.signal_id, c.data.fill_price, c.at, c.key)
  <2>1. DecisionsStay(s) /\ MarksStay(s) /\ terms'[s] = terms[s]
    BY <1>3, DecisionsSame, MarksSame DEF ActivateSignal
  <2>2. CASE c.signal_id = s
    <3>1. /\ status[s] = "PENDING" /\ status'[s] = "ACTIVE" /\ outcome'[s] = outcome[s]
      BY <1>0, <1>3, <2>2 DEF ActivateSignal, ActivateAllowed, TypeOK
    <3>2. trade'[s] = [activated_at |-> c.at, fill_price |-> c.data.fill_price,
                       original_stop |-> terms[s].original_stop]
      BY <1>0, <1>3, <2>2 DEF ActivateSignal, TypeOK
    <3>3. trade'[s] = Filled(terms[s], c.at)
      BY <1>3, <2>2, <3>2, Zenon DEF Filled
    <3>4. \A v \in Variant : track'[s][v] = FreshRow(terms[s])
      <4>1. track' = [track EXCEPT ![s] = [v \in Variant |-> FreshRow(terms[s])]]
        BY <1>3, <2>2, Zenon DEF ActivateSignal, FreshRow, WholePosition, Whole
      <4> QED BY <1>0, <4>1 DEF TypeOK
    <3> QED BY <1>3, <2>1, <2>2, <3>1, <3>3, <3>4 DEF Opens
  <2>3. CASE c.signal_id # s
    <3>1. RowsStay(s)
      BY <1>0, <1>3, <2>3, ActivateRows DEF RowsStay
    <3> QED BY <2>1, <3>1 DEF Untouched
  <2> QED BY <2>2, <2>3
<1>4. CASE /\ c.operation = "transition_pending" /\ c.signal_id \in SignalId /\ c.key \in DedupeKey
           /\ TransitionPending(c.signal_id, "EXPIRED", c.key)
  <2>1. DecisionsStay(s) /\ MarksStay(s) /\ terms'[s] = terms[s]
    BY <1>4, DecisionsSame, MarksSame DEF TransitionPending
  <2>2. /\ trade' = trade /\ track' = track /\ outcome' = outcome
        /\ status[c.signal_id] = "PENDING"
        /\ status'[s] = IF s = c.signal_id THEN "EXPIRED" ELSE status[s]
    BY <1>0, <1>4 DEF TransitionPending, TransitionAllowed, TypeOK
  <2>3. CASE c.signal_id = s
    BY <1>4, <2>1, <2>2, <2>3 DEF Lapses
  <2>4. CASE c.signal_id # s
    BY <2>1, <2>2, <2>4 DEF Untouched, RowsStay
  <2> QED BY <2>3, <2>4
<1>5. CASE /\ c.operation = "close_track"
           /\ c.signal_id \in SignalId /\ c.data.variant \in Variant
           /\ c.data.closing \in Closing /\ c.data.payload \in Payload /\ c.key \in DedupeKey
           /\ CloseTrack(c.signal_id, c.data.variant, c.data.closing, c.data.payload, c.key)
  <2>1. DecisionsStay(s) /\ MarksStay(s) /\ terms'[s] = terms[s]
    BY <1>5, DecisionsSame, MarksSame DEF CloseTrack
  <2>2. \A w \in Variant :
           /\ status'[s] = IF s = c.signal_id /\ c.data.variant = "MANAGED" THEN "CLOSED" ELSE status[s]
           /\ trade'[s] = trade[s]
           /\ ~(s = c.signal_id /\ w = c.data.variant) => track'[s][w] = track[s][w]
           /\ outcome'[s][w] = IF s = c.signal_id /\ w = c.data.variant THEN c.data.closing
                               ELSE outcome[s][w]
    BY <1>0, <1>5, CloseRows
  <2>3. CASE c.signal_id = s
    <3> DEFINE v == c.data.variant
               closing == c.data.closing
    <3>1. v \in Variant /\ TrackActive(s, v) /\ track[s] \in [Variant -> TrackRow \cup {Null}]
          /\ track[s][v] \in TrackRow /\ closing.result_r \in Decimal
      BY <1>0, <1>5, <2>3, ClosingAssumption DEF CloseTrack, CloseAllowed, TypeOK, TrackActive
    <3>2. track' = [track EXCEPT ![s][v].track_status = "CLOSED", ![s][v].realized_r = closing.result_r]
      BY <1>5, <2>3 DEF CloseTrack
    <3>3. track'[s][v] = [track[s][v] EXCEPT !.track_status = "CLOSED", !.realized_r = closing.result_r]
      <4>1. track \in [SignalId -> [Variant -> TrackRow \cup {Null}]]
        BY <1>0 DEF TypeOK
      <4> HIDE DEF v, closing
      <4> QED BY <1>0, <3>1, <3>2, <4>1 DEF TrackRow
    <3>4. track'[s][v] = ClosedRow(track[s][v], closing)
      BY <3>3, Zenon DEF ClosedRow
    <3>5. "MANAGED" \in Variant
      BY DEF Variant
    <3> QED BY <1>5, <2>1, <2>2, <2>3, <3>1, <3>4, <3>5 DEF Closes
  <2>4. CASE c.signal_id # s
    <3>1. RowsStay(s)
      BY <2>2, <2>4 DEF RowsStay, Variant
    <3> QED BY <2>1, <3>1 DEF Untouched
  <2> QED BY <2>3, <2>4
<1>6. CASE /\ c.operation = "apply_management_decision"
           /\ c.signal_id \in SignalId /\ c.data \in Adjustment /\ c.key \in DedupeKey
           /\ ApplyManagement(c.signal_id, c.data, c.key)
  <2>1. MarksStay(s) /\ terms'[s] = terms[s]
    BY <1>6, MarksSame DEF ApplyManagement
  <2>2. \A w \in Variant :
           /\ status'[s] = status[s] /\ trade'[s] = trade[s] /\ outcome'[s] = outcome[s]
           /\ w = "FIXED" => track'[s][w] = track[s][w]
    BY <1>0, <1>6, ManagementRows
  <2>3. c.key = ManagementKey(c.signal_id, c.at)
    BY <1>6 DEF Keyed, ManagementKey
  <2>4. \A j : DecisionExists(j)' <=> DecisionExists(j) \/ j = c.key
    BY <1>6, DecisionRecorded
  <2>5. "FIXED" \in Variant /\ "MANAGED" \in Variant
    BY DEF Variant
  <2>6. CASE c.signal_id = s
    <3>1. TrackActive(s, "MANAGED") /\ KeyUnused(c.key)
      BY <1>6, <2>6 DEF ApplyManagement, ManagementAllowed
    <3>2. ~DecidedOn(s, c.at)
      BY <2>3, <2>6, <3>1 DEF DecidedOn, DecisionExists, KeyUnused, Operation
    <3>3. \A i : DecidedOn(s, i)' <=> DecidedOn(s, i) \/ i = c.at
      <4> TAKE i
      <4>1. DecisionExists(ManagementKey(s, i))' <=>
               DecisionExists(ManagementKey(s, i)) \/ ManagementKey(s, i) = c.key
        BY <2>4
      <4>2. ManagementKey(s, i) = c.key <=> i = c.at
        BY <2>3, <2>6, KeysApart
      <4> QED BY <4>1, <4>2 DEF DecidedOn
    <3>4. track'[s]["MANAGED"] = IF c.data.changes_managed_result
                                 THEN ManagedAfter(track[s]["MANAGED"], c.data)
                                 ELSE track[s]["MANAGED"]
      BY <1>0, <1>6, <2>6, DecidedRow
    <3> QED BY <1>6, <2>1, <2>2, <2>5, <2>6, <3>1, <3>2, <3>3, <3>4 DEF Decides
  <2>7. CASE c.signal_id # s
    <3>1. DecisionsStay(s)
      BY <2>3, <2>4, <2>7, KeysApart, Zenon DEF DecisionsStay, DecidedOn
    <3>2. track'[s] = track[s]
      BY <1>0, <1>6, <2>7 DEF ApplyManagement, TypeOK
    <3> QED BY <2>1, <2>2, <2>5, <3>1, <3>2 DEF Untouched, RowsStay
  <2> QED BY <2>6, <2>7
<1> QED BY <1>1, <1>2, <1>3, <1>4, <1>5, <1>6, TradeMoves

----------------------------------------------------------------------------
(* The books after one command. *)

\* The terms and the candles a replay has read are never rewritten.
Steady(s) ==
    /\ terms'[s] = terms[s]
    /\ clock' \in Int /\ clock' >= clock
    /\ \A i \in 0..(clock - 1) : Candle(i)' = Candle(i)

\* While time passes the past of a signal is replayed as before.
LEMMA KeptStates ==
    ASSUME EngineInv, NEW s \in Created, CheckpointsKept(s), Steady(s)
    PROVE  /\ Due(s)' = Due(s)
           /\ \A n \in Int : -1 <= n /\ (n < clock \/ n < Due(s)) =>
                 ReplayTo(s, n)' = ReplayTo(s, n)
           /\ \A i \in Int : Due(s) <= i /\ i < clock =>
                 Entered(s, i)' = Entered(s, i) /\ Exited(s, i)' = Exited(s, i)
<1>1. terms[s] \in EngineTerm /\ Due(s) \in Nat /\ clock \in Int /\ terms'[s] = terms[s]
  BY ResolvedIs DEF Steady
<1>2. PICK m \in Int : m = clock - 1
  BY <1>1
<1>3. \A i \in 0..m : Candle(i)' = Candle(i)
  BY <1>2 DEF Steady
<1>4. /\ Due(s)' = Due(s)
      /\ \A n \in -1..m : ReplayTo(s, n)' = ReplayTo(s, n)
      /\ \A i \in 0..m : Entered(s, i)' = Entered(s, i) /\ Exited(s, i)' = Exited(s, i)
  BY <1>1, <1>3, StatesKept
<1>5. ASSUME NEW n \in Int, -1 <= n, n < Due(s) PROVE ReplayTo(s, n)' = ReplayTo(s, n)
  <2>1. FirstSafeOpen(terms[s]) \in Nat /\ n < FirstSafeOpen(terms[s]) /\ n >= -1
    BY <1>1, <1>5 DEF Due
  <2>2. FirstSafeOpen(terms'[s]) \in Nat /\ n < FirstSafeOpen(terms'[s])
    BY <1>1, <2>1
  <2>3. ReplayTo(s, n) = Unopened
    BY <2>1, Unfolding
  <2>4. ReplayTo(s, n)' = Unopened
    BY <2>1, <2>2, UnfoldingNext
  <2> QED BY <2>3, <2>4
<1>6. \A n \in Int : -1 <= n /\ (n < clock \/ n < Due(s)) => ReplayTo(s, n)' = ReplayTo(s, n)
  BY <1>1, <1>2, <1>4, <1>5
<1>7. \A i \in Int : Due(s) <= i /\ i < clock =>
         Entered(s, i)' = Entered(s, i) /\ Exited(s, i)' = Exited(s, i)
  BY <1>1, <1>2, <1>4
<1> QED BY <1>4, <1>6, <1>7

\* As long as no checkpoint moves, the books are told by the same states.
LEMMA Frame ==
    ASSUME EngineInv, NEW s \in Created, CheckpointsKept(s), Steady(s), MarksStay(s)
    PROVE  /\ Resolved(s)' = Resolved(s) /\ Due(s)' = Due(s)
           /\ ReplayTo(s, Resolved(s))' = ReplayTo(s, Resolved(s))
           /\ Due(s) <= Resolved(s) => Exited(s, Resolved(s))' = Exited(s, Resolved(s))
           /\ Resolved(s) + 1 < clock =>
                 /\ Entered(s, Resolved(s) + 1)' = Entered(s, Resolved(s) + 1)
                 /\ Exited(s, Resolved(s) + 1)' = Exited(s, Resolved(s) + 1)
           /\ trade'[s] = trade[s] => NextManagedOf(s)' = NextManagedOf(s)
<1>1. PICK l : l = Resolved(s)
  OBVIOUS
<1>2. /\ l \in Int /\ l >= -1 /\ (l < Due(s) \/ l < clock) /\ Due(s) <= l + 1 /\ Due(s) \in Nat
      /\ clock \in Int
  BY <1>1, ResolvedIs
<1>3. Resolved(s)' = l
  BY <1>1 DEF Resolved, MarksStay, Steady
<1>4. PICK n : n = l + 1
  OBVIOUS
<1>5. /\ Due(s)' = Due(s)
      /\ ReplayTo(s, l)' = ReplayTo(s, l)
      /\ Due(s) <= l => Exited(s, l)' = Exited(s, l)
      /\ n < clock => Entered(s, n)' = Entered(s, n) /\ Exited(s, n)' = Exited(s, n)
  BY <1>2, <1>4, KeptStates
<1>6. trade'[s] = trade[s] => NextManagedOf(s)' = NextManagedOf(s)
  BY Zenon DEF NextManagedOf, MarksStay
<1> QED BY <1>1, <1>3, <1>4, <1>5, <1>6

\* Nothing that is settled is unsettled while marks and decisions stay.
LEMMA SettledFrame ==
    ASSUME EngineInv, NEW s \in Created, CheckpointsKept(s), Steady(s), MarksStay(s),
           \A i : DecidedOn(s, i) => DecidedOn(s, i)'
    PROVE  /\ Settled(s) => Settled(s)'
           /\ DecisionsStay(s) => (Settled(s)' <=> Settled(s))
<1>1. PICK l : l = Resolved(s)
  OBVIOUS
<1>2. /\ Resolved(s)' = l /\ Due(s)' = Due(s) /\ l \in Int /\ Due(s) \in Nat
      /\ Due(s) <= l => Exited(s, l)' = Exited(s, l)
  BY <1>1, Frame, ResolvedIs
<1>3. Settled(s) <=> \/ l < Due(s) \/ DecidedOn(s, l) \/ ~IsOpen(Exited(s, l), "MANAGED")
  BY <1>1 DEF Settled
<1>4. Settled(s)' <=> \/ l < Due(s)' \/ DecidedOn(s, l)' \/ ~IsOpen(Exited(s, l)', "MANAGED")
  BY <1>2 DEF Settled, IsOpen
<1>5. DecisionsStay(s) => (DecidedOn(s, l)' <=> DecidedOn(s, l))
  BY DEF DecisionsStay
<1> QED BY <1>2, <1>3, <1>4, <1>5

\* The parts of the books that are not about rows.
LEMMA KeepingFrame ==
    ASSUME EngineInv, NEW s \in Created, DecisionsKept(s), CheckpointsKept(s), Steady(s),
           MarksStay(s), DecisionsStay(s)
    PROVE  DecisionsKept(s)' /\ CheckpointsKept(s)'
<1>1. PICK l : l = Resolved(s)
  OBVIOUS
<1>2. /\ Resolved(s)' = l /\ Due(s)' = Due(s) /\ l \in Int /\ Due(s) \in Nat /\ clock \in Int
      /\ l < Due(s) \/ l < clock
  BY <1>1, Frame, ResolvedIs
<1>3. \A i \in Int : Due(s) <= i /\ i <= l => Exited(s, i)' = Exited(s, i)
  BY <1>2, KeptStates
<1>4. Minute \subseteq Int /\ Minute' = Minute
  BY EngineAssumption DEF Minute
<1>5. DecisionsKept(s)'
  <2>1. \A i \in Minute : DecidedOn(s, i)' =>
           Due(s)' <= i /\ i <= l /\ IsOpen(Exited(s, i)', "MANAGED")
    BY <1>1, <1>2, <1>3, <1>4 DEF DecisionsKept, DecisionsStay
  <2>2. \A i \in Minute : Due(s)' <= i /\ i < l /\ IsOpen(Exited(s, i)', "MANAGED")
           => DecidedOn(s, i)'
    BY <1>1, <1>2, <1>3, <1>4 DEF DecisionsKept, DecisionsStay
  <2> QED BY <1>2, <2>1, <2>2 DEF DecisionsKept, IsOpen
<1>6. CheckpointsKept(s)'
  BY <1>2 DEF CheckpointsKept, MarksStay, DecisionsStay, Steady, Minute
<1> QED BY <1>5, <1>6

\* A command about another signal leaves the books of this one right.
LEMMA UntouchedBooks ==
    ASSUME EngineInv, NEW s \in Created, Books(s), Steady(s), Untouched(s)
    PROVE  Books(s)'
<1>0. CheckpointsKept(s) /\ DecisionsKept(s) /\ MarksStay(s) /\ DecisionsStay(s) /\ RowsStay(s)
  BY DEF Books, Untouched
<1>1. Settled(s)' <=> Settled(s)
  BY <1>0, SettledFrame DEF DecisionsStay
<1>2. PICK l : l = Resolved(s)
  OBVIOUS
<1>3. /\ Resolved(s)' = l /\ Due(s)' = Due(s) /\ l \in Int /\ clock \in Int
      /\ ReplayTo(s, l)' = ReplayTo(s, l)
      /\ Due(s) <= l => Exited(s, l)' = Exited(s, l)
      /\ l + 1 < clock => /\ Entered(s, l + 1)' = Entered(s, l + 1)
                          /\ Exited(s, l + 1)' = Exited(s, l + 1)
      /\ NextManagedOf(s)' = NextManagedOf(s)
      /\ l < Due(s) => Settled(s)
      /\ Due(s) \in Nat /\ l >= Due(s) - 1
  BY <1>0, <1>2, Frame, ResolvedIs DEF RowsStay
<1>4. RowsReplayed(s)'
  <2>1. CASE Settled(s) /\ Holds(s, ReplayTo(s, l))
    <3>1. Holds(s, ReplayTo(s, Resolved(s)))'
      BY <1>0, <1>3, <2>1 DEF Holds, RowsStay
    <3> QED BY <1>1, <2>1, <3>1 DEF RowsReplayed
  <2>2. CASE ~Settled(s) /\ Holds(s, Exited(s, l))
    <3>1. Exited(s, Resolved(s))' = Exited(s, l)
      BY <1>3, <2>2
    <3>2. Holds(s, Exited(s, Resolved(s)))'
      BY <1>0, <2>2, <3>1 DEF Holds, RowsStay
    <3> QED BY <1>1, <2>2, <3>2 DEF RowsReplayed
  <2>3. CASE l + 1 < clock /\ Settled(s) /\ UnderWay(s, l + 1)
    <3>1. UnderWay(s, Resolved(s) + 1)'
      BY <1>0, <1>3, <2>3 DEF UnderWay, RowsStay
    <3>2. Resolved(s)' + 1 < clock'
      BY <1>3, <2>3 DEF Steady
    <3> QED BY <1>1, <2>3, <3>1, <3>2 DEF RowsReplayed
  <2> QED BY <1>2, <2>1, <2>2, <2>3 DEF Books, RowsReplayed
<1>5. ManagedKept(s)'
  <2>1. "MANAGED" \in Variant
    BY DEF Variant
  <2>2. TrackActive(s, "MANAGED")' <=> TrackActive(s, "MANAGED")
    BY <1>0, <2>1 DEF RowsStay, TrackActive
  <2>3. NextManagedOf(s) = l /\ TrackActive(s, "MANAGED") => Due(s) <= l
    BY <1>2 DEF Books, ManagedKept
  <2> QED BY <1>1, <1>2, <1>3, <2>2, <2>3 DEF Books, ManagedKept, IsOpen
<1>6. DecisionsKept(s)' /\ CheckpointsKept(s)'
  BY <1>0, KeepingFrame
<1> QED BY <1>4, <1>5, <1>6 DEF Books

----------------------------------------------------------------------------
(* What a pending command waits for. *)

\* The candle of a command is complete, and at most one beyond the last
\* resolved.
Placed(c) ==
    LET s == c.signal_id
    IN  s \in Created /\ Due(s) <= c.at /\ c.at < clock /\ c.at <= Resolved(s) + 1

OpeningDue(c) ==
    LET s == c.signal_id
    IN  /\ ReplayTo(s, c.at - 1).status = "PENDING"
        /\ IF c.operation = "activate_signal"
           THEN /\ Entered(s, c.at).status = "ACTIVE"
                /\ c.data.fill_price = ConservativeEntry(terms[s])
           ELSE Entered(s, c.at).status = "EXPIRED"

CloseDue(c) ==
    LET s == c.signal_id
        v == c.data.variant
    IN  /\ IsOpen(Entered(s, c.at), v) /\ ~IsOpen(Exited(s, c.at), v)
        /\ c.data.closing = Exited(s, c.at).outcome[v]
        /\ c.at = Resolved(s) + 1 => Settled(s)

DecisionDue(c) ==
    LET s == c.signal_id
    IN  c.at <= Resolved(s) /\ IsOpen(Exited(s, c.at), "MANAGED") /\ c.data = Deciding(s, c.at)

CloseIn(list, s, v, i) ==
    \E b \in list : b.operation = "close_track" /\ b.signal_id = s /\ b.at = i /\ b.data.variant = v

DecisionIn(list, s, i) ==
    \E b \in list : b.operation = "apply_management_decision" /\ b.signal_id = s /\ b.at = i

LifecycleMarkDue(c, earlier) ==
    LET s == c.signal_id
    IN  /\ c.key = LifecycleCheckpoint(s)
        /\ c.at = Resolved(s) + 1 =>
              /\ Settled(s) /\ UnderWay(s, c.at)
              /\ \A v \in Variant : TrackActive(s, v) /\ ~IsOpen(Exited(s, c.at), v) =>
                    CloseIn(earlier, s, v, c.at)
              /\ TrackActive(s, "MANAGED") => NextManagedOf(s) >= c.at

ManagementMarkDue(c, earlier) ==
    LET s == c.signal_id
    IN  /\ c.key = ManagementCheckpoint(s) /\ c.at <= Resolved(s)
        /\ DecidedOn(s, c.at) \/ DecisionIn(earlier, s, c.at)

Moves == Operation \cup {"advance_checkpoint"}

Pending(c, earlier) ==
    /\ c.operation \in Moves => Placed(c)
    /\ c.operation \in {"activate_signal", "transition_pending"} => OpeningDue(c)
    /\ c.operation = "close_track" => CloseDue(c)
    /\ c.operation = "apply_management_decision" => DecisionDue(c)
    /\ c.operation = "advance_checkpoint" =>
          LifecycleMarkDue(c, earlier) \/ ManagementMarkDue(c, earlier)

\* Where a command settles a candle, the rows arrive where the replay puts them.
Arrives(s) ==
    Settled(s)' => \/ Resolved(s)' = Resolved(s) /\ Settled(s)
                   \/ Holds(s, ReplayTo(s, Resolved(s)))'

\* What the rest of a list may count on once a command was executed.
Moved(s, c) ==
    /\ Resolved(s)' \in {Resolved(s), Resolved(s) + 1}
    /\ Resolved(s)' = Resolved(s) =>
          /\ Settled(s) => Settled(s)'
          /\ Settled(s) /\ Resolved(s) + 1 < clock /\ UnderWay(s, Resolved(s) + 1) =>
                /\ UnderWay(s, Resolved(s) + 1)'
                /\ \A v \in Variant : TrackActive(s, v)' => TrackActive(s, v)
    /\ Resolved(s)' # Resolved(s) =>
          /\ c.operation = "advance_checkpoint" /\ c.signal_id = s /\ c.at = Resolved(s) + 1
          /\ UnderWay(s, c.at)'
    /\ TrackActive(s, "MANAGED")' =>
          IF TrackActive(s, "MANAGED") THEN NextManagedOf(s)' >= NextManagedOf(s)
          ELSE Resolved(s)' = Resolved(s) /\ NextManagedOf(s)' = Resolved(s) + 1
    /\ \A i : DecidedOn(s, i) => DecidedOn(s, i)'
    /\ \A i : DecidedOn(s, i)' =>
          \/ DecidedOn(s, i)
          \/ c.operation = "apply_management_decision" /\ c.signal_id = s /\ c.at = i
    /\ \/ RowsStay(s)
       \/ /\ c.operation \in Operation /\ c.signal_id = s
          /\ \/ c.at = Resolved(s) + 1
             \/ c.operation = "apply_management_decision" /\ c.at = Resolved(s) /\ ~Settled(s)
    /\ Arrives(s)

\* And it moves nothing of it.
LEMMA UntouchedMoved ==
    ASSUME EngineInv, NEW s \in Created, Books(s), Steady(s), Untouched(s), NEW c
    PROVE  Moved(s, c)
<1>0. CheckpointsKept(s) /\ MarksStay(s) /\ DecisionsStay(s) /\ RowsStay(s)
  BY DEF Books, Untouched
<1>1. /\ Resolved(s)' = Resolved(s) /\ Resolved(s) \in Int
      /\ Resolved(s) + 1 < clock => /\ Entered(s, Resolved(s) + 1)' = Entered(s, Resolved(s) + 1)
                                    /\ Exited(s, Resolved(s) + 1)' = Exited(s, Resolved(s) + 1)
      /\ NextManagedOf(s)' = NextManagedOf(s)
  BY <1>0, Frame, ResolvedIs DEF RowsStay
<1>2. (Settled(s) => Settled(s)') /\ (\A i : DecidedOn(s, i)' <=> DecidedOn(s, i))
  BY <1>0, SettledFrame DEF DecisionsStay
<1>3. \A v \in Variant : TrackActive(s, v)' <=> TrackActive(s, v)
  BY <1>0 DEF RowsStay, TrackActive
<1>4. Resolved(s) + 1 < clock /\ UnderWay(s, Resolved(s) + 1) => UnderWay(s, Resolved(s) + 1)'
  BY <1>0, <1>1 DEF UnderWay, RowsStay
<1>5. "MANAGED" \in Variant
  BY DEF Variant
<1>6. TrackActive(s, "MANAGED") => NextManagedOf(s) \in Int
  BY <1>1 DEF Books, ManagedKept
<1>7. TrackActive(s, "MANAGED")' =>
          IF TrackActive(s, "MANAGED") THEN NextManagedOf(s)' >= NextManagedOf(s)
          ELSE Resolved(s)' = Resolved(s) /\ NextManagedOf(s)' = Resolved(s) + 1
  BY <1>1, <1>3, <1>5, <1>6
<1>8. Arrives(s)
  <2>1. \A i : DecidedOn(s, i) => DecidedOn(s, i)'
    BY <1>2
  <2>2. Settled(s)' <=> Settled(s)
    BY <1>0, <2>1, SettledFrame
  <2> QED BY <1>1, <2>2 DEF Arrives
<1> QED BY <1>0, <1>1, <1>2, <1>3, <1>4, <1>7, <1>8 DEF Moved

\* A candle that is under way opens the signal, or expires it.
LEMMA OpeningBooks ==
    ASSUME WideColumns, EngineInv, NEW s \in Created, Books(s), Steady(s),
           NEW c \in EngineCommand, c.at \in Int, Placed(c), OpeningDue(c),
           Opens(s, c) \/ Lapses(s, c)
    PROVE  Books(s)' /\ Moved(s, c)
<1> DEFINE i == c.at
           L == Resolved(s)
<1>0. /\ CheckpointsKept(s) /\ DecisionsKept(s) /\ MarksStay(s) /\ DecisionsStay(s)
      /\ c.signal_id = s /\ status[s] = "PENDING" /\ i \in Int
      /\ \A v \in Variant : outcome'[s][v] = outcome[s][v]
      /\ c.operation \in {"activate_signal", "transition_pending"}
  BY DEF Books, Opens, Lapses
<1>1. /\ MarketType /\ terms[s] \in EngineTerm /\ Due(s) \in Nat /\ L \in Int /\ clock \in Int
      /\ Due(s) <= i /\ i < clock /\ i <= L + 1 /\ ReplayTo(s, i - 1).status = "PENDING"
      /\ Entered(s, i).status # "PENDING"
  BY <1>0, ResolvedIs DEF Placed, OpeningDue
<1>2. i = L + 1 /\ Settled(s) /\ Holds(s, ReplayTo(s, L))
  BY <1>0, <1>1, OpeningPlace
<1>3. i - 1 = L
  BY <1>1, <1>2
<1>4. /\ Shaped(ReplayTo(s, L)) /\ Shaped(Entered(s, i)) /\ i \in Minute
  BY <1>1, <1>3, CandleStates
<1>5. /\ Resolved(s)' = L /\ Due(s)' = Due(s)
      /\ Entered(s, i)' = Entered(s, i) /\ Exited(s, i)' = Exited(s, i)
  BY <1>0, <1>1, <1>2, Frame
<1>6. Settled(s)'
  BY <1>0, <1>2, SettledFrame DEF DecisionsStay
<1>7. Holds(s, Entered(s, i))'
  <2>1. CASE Opens(s, c)
    <3>1. /\ status'[s] = "ACTIVE" /\ trade'[s] = Filled(terms[s], i)
          /\ \A v \in Variant : track'[s][v] = FreshRow(terms[s])
          /\ Entered(s, i).status = "ACTIVE"
      BY <2>1, <1>0 DEF Opens, OpeningDue
    <3>2. /\ Entered(s, i).trade = Filled(terms[s], i)
          /\ \A v \in Variant : Entered(s, i).track[v] = FreshRow(terms[s])
      BY <1>1, <3>1, EnteredIs
    <3>3. \A v \in Variant : Entered(s, i).outcome[v] = outcome[s][v]
      <4>1. \A v \in Variant : Entered(s, i).outcome[v] = ReplayTo(s, L).outcome[v]
        BY <1>1, <1>3, EnteredIs
      <4> QED BY <1>2, <4>1 DEF Holds
    <3> QED BY <1>0, <1>5, <3>1, <3>2, <3>3 DEF Holds
  <2>2. CASE Lapses(s, c)
    <3>1. /\ status'[s] = "EXPIRED" /\ trade'[s] = trade[s]
          /\ \A v \in Variant : track'[s][v] = track[s][v]
          /\ Entered(s, i).status = "EXPIRED"
      BY <2>2, <1>0 DEF Lapses, OpeningDue
    <3>2. \A v \in Variant : Entered(s, i).outcome[v] = ReplayTo(s, L).outcome[v]
      BY <1>1, <1>3, EnteredIs
    <3>3. /\ Entered(s, i).trade = Null /\ ReplayTo(s, L).trade = Null
          /\ \A v \in Variant : Entered(s, i).track[v] = Null /\ ReplayTo(s, L).track[v] = Null
      BY <1>1, <1>3, <1>4, <3>1 DEF Shaped
    <3>4. trade[s] = Null /\ \A v \in Variant : track[s][v] = Null
                                               /\ outcome[s][v] = ReplayTo(s, L).outcome[v]
      BY <1>2, <3>3 DEF Holds
    <3> QED BY <1>0, <1>5, <3>1, <3>2, <3>3, <3>4 DEF Holds
  <2> QED BY <2>1, <2>2
<1>8. UnderWay(s, i)'
  BY <1>7 DEF Holds, UnderWay
<1>9. Resolved(s)' + 1 = i /\ UnderWay(s, Resolved(s) + 1)' /\ i < clock'
  BY <1>1, <1>2, <1>5, <1>8 DEF Steady
<1>10. RowsReplayed(s)'
  BY <1>6, <1>9 DEF RowsReplayed
<1>11. ~TrackActive(s, "MANAGED")
  BY <1>0, RowFacts
<1>12. TrackActive(s, "MANAGED")' => NextManagedOf(s)' = i
  <2> SUFFICES ASSUME TrackActive(s, "MANAGED")' PROVE NextManagedOf(s)' = i
    OBVIOUS
  <2>1. Opens(s, c)
    BY <1>11 DEF Lapses, TrackActive, Variant
  <2>2. trade'[s] = Filled(terms[s], i)
    BY <2>1 DEF Opens
  <2>3. trade'[s].activated_at = i
    BY <2>2 DEF Filled
  <2>4. checkpoint[ManagementCheckpoint(s)] = Null
    <3> SUFFICES ASSUME checkpoint[ManagementCheckpoint(s)] # Null PROVE FALSE
      OBVIOUS
    <3>1. PICK j : j = checkpoint[ManagementCheckpoint(s)]
      OBVIOUS
    <3>2. j \in Minute /\ DecidedOn(s, j)
      BY <1>0, <3>1 DEF CheckpointsKept
    <3>3. Due(s) <= j /\ j <= L /\ IsOpen(Exited(s, j), "MANAGED") /\ j \in Int
      BY <1>0, <3>2, EngineAssumption DEF DecisionsKept, Minute
    <3>4. L < clock
      BY <1>1, <1>2
    <3>5. Shaped(Exited(s, j)) /\ Follows(Exited(s, j), ReplayTo(s, L))
      BY <1>1, <3>3, <3>4, CandleStates, Onward
    <3>6. Exited(s, j).status # "PENDING"
      BY <3>3, <3>5 DEF Shaped
    <3>7. ReplayTo(s, L).status # "PENDING"
      BY <3>5, <3>6 DEF Follows
    <3> QED BY <1>1, <1>3, <3>7
  <2>5. checkpoint'[ManagementCheckpoint(s)] = Null
    BY <1>0, <2>4 DEF MarksStay
  <2> QED BY <2>3, <2>5 DEF NextManagedOf
<1>13. ManagedKept(s)'
  <2> SUFFICES ASSUME TrackActive(s, "MANAGED")'
               PROVE  /\ NextManagedOf(s)' \in {Resolved(s)', Resolved(s)' + 1}
                      /\ Due(s)' <= NextManagedOf(s)'
                      /\ NextManagedOf(s)' = Resolved(s)' + 1 => Settled(s)'
                      /\ NextManagedOf(s)' # Resolved(s)'
    BY DEF ManagedKept
  <2> QED BY <1>1, <1>2, <1>5, <1>6, <1>9, <1>12
<1>14. DecisionsKept(s)' /\ CheckpointsKept(s)'
  BY <1>0, KeepingFrame
<1>15. Moved(s, c)
  <2>1. ~UnderWay(s, i)
    <3>1. Follows(Entered(s, i), Exited(s, i))
      BY <1>1, CandleStates
    <3>2. Exited(s, i).status # "PENDING"
      BY <1>1, <3>1 DEF Follows
    <3> QED BY <1>0, <1>1, <3>2 DEF UnderWay
  <2>2. \A j : DecidedOn(s, j)' <=> DecidedOn(s, j)
    BY <1>0 DEF DecisionsStay
  <2>3. c.operation \in Operation
    BY <1>0 DEF Operation
  <2>4. Settled(s)' /\ ~UnderWay(s, Resolved(s) + 1)
    BY <1>2, <1>6, <2>1
  <2>5. TrackActive(s, "MANAGED")' =>
          IF TrackActive(s, "MANAGED") THEN NextManagedOf(s)' >= NextManagedOf(s)
          ELSE Resolved(s)' = Resolved(s) /\ NextManagedOf(s)' = Resolved(s) + 1
    BY <1>2, <1>5, <1>11, <1>12
  <2>6. c.operation \in Operation /\ c.signal_id = s /\ c.at = Resolved(s) + 1
    BY <1>0, <1>2, <2>3
  <2>7. Resolved(s)' = Resolved(s)
    BY <1>5
  <2>8. Resolved(s)' \in {Resolved(s), Resolved(s) + 1}
    BY <2>7
  <2>9. Settled(s) /\ Resolved(s) + 1 < clock /\ UnderWay(s, Resolved(s) + 1) => FALSE
    BY <2>4
  <2>10. Arrives(s)
    BY <1>2, <2>7 DEF Arrives
  <2> HIDE DEF L, i
  <2> QED BY <2>10, <2>2, <2>4, <2>5, <2>6, <2>7, <2>8, <2>9, Zenon DEF Moved
<1> QED BY <1>10, <1>13, <1>14, <1>15 DEF Books

\* A candle that is under way closes a track.
LEMMA ClosingBooks ==
    ASSUME WideColumns, EngineInv, NEW s \in Created, Books(s), Steady(s),
           NEW c \in EngineCommand, c.at \in Int, Placed(c), CloseDue(c), Closes(s, c)
    PROVE  Books(s)' /\ Moved(s, c) /\ ~TrackActive(s, c.data.variant)'
<1> DEFINE i == c.at
           L == Resolved(s)
           v == c.data.variant
           closing == c.data.closing
<1>0. /\ CheckpointsKept(s) /\ DecisionsKept(s) /\ MarksStay(s) /\ DecisionsStay(s)
      /\ c.signal_id = s /\ v \in Variant /\ TrackActive(s, v) /\ i \in Int
      /\ c.operation = "close_track"
      /\ status'[s] = IF v = "MANAGED" THEN "CLOSED" ELSE status[s]
      /\ trade'[s] = trade[s]
      /\ track'[s][v] = ClosedRow(track[s][v], closing)
      /\ outcome'[s][v] = closing
      /\ \A w \in Variant : w # v => track'[s][w] = track[s][w] /\ outcome'[s][w] = outcome[s][w]
  BY DEF Books, Closes
<1>1. /\ MarketType /\ terms[s] \in EngineTerm /\ Due(s) \in Nat /\ L \in Int /\ clock \in Int
      /\ Due(s) <= i /\ i < clock /\ i <= L + 1
      /\ IsOpen(Entered(s, i), v) /\ ~IsOpen(Exited(s, i), v)
      /\ closing = Exited(s, i).outcome[v] /\ (i = L + 1 => Settled(s))
  BY <1>0, ResolvedIs DEF Placed, CloseDue
<1> HIDE DEF v, closing
<1>2. /\ i = L + 1 /\ UnderWay(s, i) /\ Settled(s)
      /\ track[s][v] = Entered(s, i).track[v] /\ outcome[s][v] = Entered(s, i).outcome[v]
  BY <1>0, <1>1, ClosingPlace
<1>3. /\ Resolved(s)' = L /\ Due(s)' = Due(s)
      /\ Entered(s, i)' = Entered(s, i) /\ Exited(s, i)' = Exited(s, i)
      /\ NextManagedOf(s)' = NextManagedOf(s)
  BY <1>0, <1>1, <1>2, Frame
<1>4. Settled(s)'
  BY <1>0, <1>2, SettledFrame DEF DecisionsStay
<1>5. track'[s][v] = Exited(s, i).track[v] /\ outcome'[s][v] = Exited(s, i).outcome[v]
  <2>1. Exited(s, i).track[v] = ClosedRow(Entered(s, i).track[v], Exited(s, i).outcome[v])
    BY <1>0, <1>1, ExitedIs
  <2> QED BY <1>0, <1>1, <1>2, <2>1
<1>6. status'[s] \in {Entered(s, i).status, Exited(s, i).status}
  <2>1. v = "MANAGED" => Exited(s, i).status = "CLOSED"
    BY <1>1, ExitedIs
  <2> QED BY <1>0, <1>2, <2>1 DEF UnderWay
<1>7. UnderWay(s, i)'
  BY <1>0, <1>2, <1>3, <1>5, <1>6 DEF UnderWay
<1>8. Resolved(s)' + 1 = i /\ UnderWay(s, Resolved(s) + 1)' /\ i < clock'
  BY <1>1, <1>2, <1>3, <1>7 DEF Steady
<1>9. RowsReplayed(s)'
  BY <1>4, <1>8 DEF RowsReplayed
<1>10. ~TrackActive(s, v)'
  <2>1. Exited(s, i).track[v] = track'[s][v]
    BY <1>5
  <2> QED BY <1>1, <2>1 DEF IsOpen, TrackActive
<1>11. \A w \in Variant : TrackActive(s, w)' => TrackActive(s, w)
  BY <1>0 DEF TrackActive
<1>12. TrackActive(s, "MANAGED")' =>
           /\ TrackActive(s, "MANAGED") /\ NextManagedOf(s) \in {L, L + 1} /\ Due(s) <= NextManagedOf(s)
           /\ NextManagedOf(s) = L => Due(s) <= L /\ IsOpen(Exited(s, L), "MANAGED")
  BY <1>1, <1>11 DEF Books, ManagedKept, Variant
<1>13. Due(s) <= L => Exited(s, L)' = Exited(s, L)
  BY <1>0, Frame
<1>14. ManagedKept(s)'
  <2> SUFFICES ASSUME TrackActive(s, "MANAGED")'
               PROVE  /\ NextManagedOf(s)' \in {L, L + 1}
                      /\ Due(s)' <= NextManagedOf(s)'
                      /\ Settled(s)'
                      /\ NextManagedOf(s)' = L => IsOpen(Exited(s, L)', "MANAGED")
    BY <1>3 DEF ManagedKept, IsOpen
  <2> QED BY <1>1, <1>3, <1>4, <1>12, <1>13 DEF IsOpen
<1>15. DecisionsKept(s)' /\ CheckpointsKept(s)'
  BY <1>0, KeepingFrame
<1>16. Moved(s, c)
  <2>1. \A j : DecidedOn(s, j)' <=> DecidedOn(s, j)
    BY <1>0 DEF DecisionsStay
  <2>2. c.operation \in Operation /\ c.signal_id = s /\ c.at = Resolved(s) + 1
    BY <1>0, <1>2 DEF Operation
  <2>3. TrackActive(s, "MANAGED")' =>
          IF TrackActive(s, "MANAGED") THEN NextManagedOf(s)' >= NextManagedOf(s)
          ELSE Resolved(s)' = Resolved(s) /\ NextManagedOf(s)' = Resolved(s) + 1
    BY <1>1, <1>3, <1>12
  <2>4. Resolved(s)' \in {Resolved(s), Resolved(s) + 1} /\ Resolved(s)' = Resolved(s)
    BY <1>3
  <2>5. UnderWay(s, Resolved(s) + 1)'
    BY <1>8
  <2>6. Arrives(s)
    BY <1>2, <2>4 DEF Arrives
  <2> HIDE DEF L, i
  <2> QED BY <1>4, <1>11, <2>1, <2>2, <2>3, <2>4, <2>5, <2>6, Zenon DEF Moved
<1> QED BY <1>9, <1>10, <1>14, <1>15, <1>16 DEF Books, v

\* The decision of the last resolved candle completes it.
LEMMA DecidingBooks ==
    ASSUME WideColumns, EngineInv, NEW s \in Created, Books(s), Steady(s),
           NEW c \in EngineCommand, c.at \in Minute, Placed(c), DecisionDue(c), Decides(s, c)
    PROVE  Books(s)' /\ Moved(s, c)
<1> DEFINE L == Resolved(s)
<1>0. /\ CheckpointsKept(s) /\ DecisionsKept(s) /\ MarksStay(s)
      /\ c.operation = "apply_management_decision" /\ c.signal_id = s
      /\ TrackActive(s, "MANAGED") /\ ~DecidedOn(s, c.at)
      /\ \A i : DecidedOn(s, i)' <=> DecidedOn(s, i) \/ i = c.at
      /\ status'[s] = status[s] /\ trade'[s] = trade[s]
      /\ \A v \in Variant : outcome'[s][v] = outcome[s][v]
      /\ track'[s]["FIXED"] = track[s]["FIXED"]
      /\ track'[s]["MANAGED"] = IF c.data.changes_managed_result
                                THEN ManagedAfter(track[s]["MANAGED"], c.data)
                                ELSE track[s]["MANAGED"]
  BY DEF Books, Decides
<1>1. /\ MarketType /\ terms[s] \in EngineTerm /\ Due(s) \in Nat /\ L \in Int /\ clock \in Int
      /\ Due(s) <= c.at /\ c.at < clock /\ c.at <= L
      /\ IsOpen(Exited(s, c.at), "MANAGED") /\ c.data = Deciding(s, c.at)
  BY <1>0, ResolvedIs DEF Placed, DecisionDue
<1>2. c.at = L /\ ~Settled(s) /\ Holds(s, Exited(s, L))
  BY <1>0, <1>1, DecidingPlace
<1>3. /\ Resolved(s)' = L /\ Due(s)' = Due(s) /\ ReplayTo(s, Resolved(s))' = ReplayTo(s, L)
      /\ Exited(s, L)' = Exited(s, L) /\ NextManagedOf(s)' = NextManagedOf(s)
  BY <1>0, <1>1, <1>2, Frame
<1>4. DecidedOn(s, L)' /\ Settled(s)'
  BY <1>0, <1>2, <1>3 DEF Settled
<1>5. Holds(s, ReplayTo(s, Resolved(s)))'
  <2>1. /\ ReplayTo(s, L).trade = Exited(s, L).trade /\ ReplayTo(s, L).status = Exited(s, L).status
        /\ \A v \in Variant : ReplayTo(s, L).outcome[v] = Exited(s, L).outcome[v]
        /\ ReplayTo(s, L).track["FIXED"] = Exited(s, L).track["FIXED"]
        /\ ReplayTo(s, L).track["MANAGED"] =
              IF Deciding(s, L).changes_managed_result
              THEN ManagedAfter(Exited(s, L).track["MANAGED"], Deciding(s, L))
              ELSE Exited(s, L).track["MANAGED"]
    BY <1>1, <1>2, ManagedIs
  <2>2. /\ status[s] = Exited(s, L).status /\ trade[s] = Exited(s, L).trade
        /\ track[s]["FIXED"] = Exited(s, L).track["FIXED"]
        /\ track[s]["MANAGED"] = Exited(s, L).track["MANAGED"]
        /\ \A v \in Variant : outcome[s][v] = Exited(s, L).outcome[v]
    BY <1>2 DEF Holds, Variant
  <2>3. track'[s]["MANAGED"] = ReplayTo(s, L).track["MANAGED"]
    BY <1>0, <1>1, <1>2, <2>1, <2>2
  <2> QED BY <1>0, <1>3, <2>1, <2>2, <2>3 DEF Holds, Variant
<1>6. RowsReplayed(s)'
  BY <1>4, <1>5 DEF RowsReplayed
<1>7. /\ NextManagedOf(s) \in {L, L + 1} /\ Due(s) <= NextManagedOf(s)
      /\ NextManagedOf(s) = L => IsOpen(Exited(s, L), "MANAGED")
  BY <1>0 DEF Books, ManagedKept
<1>8. ManagedKept(s)'
  BY <1>3, <1>4, <1>7 DEF ManagedKept, IsOpen
<1>9. \A i \in Int : Due(s) <= i /\ i <= L => Exited(s, i)' = Exited(s, i)
  BY <1>0, <1>1, <1>2, KeptStates
<1>10. Minute \subseteq Int /\ Minute' = Minute
  BY EngineAssumption DEF Minute
<1>11. DecisionsKept(s)'
  <2>1. \A i \in Minute : DecidedOn(s, i)' =>
           Due(s)' <= i /\ i <= L /\ IsOpen(Exited(s, i)', "MANAGED")
    BY <1>0, <1>1, <1>2, <1>3, <1>9, <1>10 DEF DecisionsKept
  <2>2. \A i \in Minute : Due(s)' <= i /\ i < L /\ IsOpen(Exited(s, i)', "MANAGED")
           => DecidedOn(s, i)'
    BY <1>0, <1>1, <1>2, <1>3, <1>9, <1>10 DEF DecisionsKept
  <2> QED BY <1>3, <2>1, <2>2 DEF DecisionsKept, IsOpen
<1>12. CheckpointsKept(s)'
  BY <1>0, <1>1, <1>3 DEF CheckpointsKept, MarksStay, Steady, Minute
<1>13. Moved(s, c)
  <2>1. TrackActive(s, "MANAGED")' =>
          IF TrackActive(s, "MANAGED") THEN NextManagedOf(s)' >= NextManagedOf(s)
          ELSE Resolved(s)' = Resolved(s) /\ NextManagedOf(s)' = Resolved(s) + 1
    BY <1>0, <1>1, <1>3, <1>7
  <2>2. Resolved(s)' \in {Resolved(s), Resolved(s) + 1} /\ Resolved(s)' = Resolved(s)
    BY <1>3
  <2>3. c.operation \in Operation /\ ~Settled(s) /\ c.at = Resolved(s)
    BY <1>0, <1>2 DEF Operation
  <2>4. Arrives(s)
    BY <1>5 DEF Arrives
  <2> HIDE DEF L
  <2> QED BY <1>0, <2>1, <2>2, <2>3, <2>4, Zenon DEF Moved
<1> QED BY <1>6, <1>8, <1>11, <1>12, <1>13 DEF Books

\* Once no track is left that the candle closes, the checkpoint may say so.
LEMMA LifecycleMarkBooks ==
    ASSUME WideColumns, EngineInv, NEW s \in Created, Books(s), Steady(s),
           NEW c \in EngineCommand, c.at \in Minute, c.signal_id = s, Placed(c),
           LifecycleMarkDue(c, {}), MarksLifecycle(s, c)
    PROVE  Books(s)' /\ Moved(s, c)
<1> DEFINE L == Resolved(s)
           i == c.at
<1>0. /\ CheckpointsKept(s) /\ DecisionsKept(s) /\ RowsStay(s) /\ DecisionsStay(s)
      /\ c.operation = "advance_checkpoint"
      /\ checkpoint[LifecycleCheckpoint(s)] # Null => i > checkpoint[LifecycleCheckpoint(s)]
      /\ checkpoint'[LifecycleCheckpoint(s)] = i
      /\ checkpoint'[ManagementCheckpoint(s)] = checkpoint[ManagementCheckpoint(s)]
  BY DEF Books, MarksLifecycle, Marks
<1>1. /\ MarketType /\ terms[s] \in EngineTerm /\ Due(s) \in Nat /\ L \in Int /\ clock \in Int
      /\ L >= Due(s) - 1 /\ i \in Int
      /\ Due(s) <= i /\ i < clock /\ i <= L + 1
      /\ Minute \subseteq Int /\ Minute' = Minute
  BY <1>0, ResolvedIs, EngineAssumption DEF Placed, Minute
<1>2. i = L + 1
  <2>1. i > L
    BY <1>0, <1>1 DEF Resolved, Due
  <2> QED BY <1>1, <2>1
<1>3. /\ Settled(s) /\ UnderWay(s, i)
      /\ \A v \in Variant : TrackActive(s, v) => IsOpen(Exited(s, i), v)
      /\ TrackActive(s, "MANAGED") => NextManagedOf(s) >= i
  BY <1>2 DEF LifecycleMarkDue, CloseIn
<1>4. Holds(s, Exited(s, i))
  <2>1. trade[s] = Exited(s, i).trade
    <3>1. Exited(s, i).trade = Entered(s, i).trade
      BY <1>1, ExitedIs
    <3> QED BY <1>3, <3>1 DEF UnderWay
  <2>2. ASSUME NEW v \in Variant
        PROVE  track[s][v] = Exited(s, i).track[v] /\ outcome[s][v] = Exited(s, i).outcome[v]
    <3>1. CASE track[s][v] = Entered(s, i).track[v] /\ outcome[s][v] = Entered(s, i).outcome[v]
      <4>1. TrackActive(s, v) <=> IsOpen(Entered(s, i), v)
        BY <3>1 DEF TrackActive, IsOpen
      <4>2. IsOpen(Exited(s, i), v) \/ ~IsOpen(Entered(s, i), v)
        BY <1>3, <4>1
      <4> QED BY <1>1, <3>1, <4>2, ExitedIs
    <3> QED BY <1>3, <3>1 DEF UnderWay
  <2>3. status[s] = Exited(s, i).status
    <3>1. CASE IsOpen(Entered(s, i), "MANAGED") /\ ~IsOpen(Exited(s, i), "MANAGED")
      <4>1. "MANAGED" \in Variant
        BY DEF Variant
      <4>2. ~TrackActive(s, "MANAGED")
        BY <1>3, <3>1, <4>1
      <4>3. status[s] # "ACTIVE"
        BY <4>2, RowFacts
      <4>4. Shaped(Entered(s, i))
        BY <1>1, CandleStates
      <4>5. Entered(s, i).status = "ACTIVE"
        BY <3>1, <4>4 DEF Shaped
      <4> QED BY <1>3, <4>3, <4>5 DEF UnderWay
    <3>2. CASE ~(IsOpen(Entered(s, i), "MANAGED") /\ ~IsOpen(Exited(s, i), "MANAGED"))
      <4>1. Exited(s, i).status = Entered(s, i).status
        BY <1>1, <3>2, ExitedIs
      <4> QED BY <1>3, <4>1 DEF UnderWay
    <3> QED BY <3>1, <3>2
  <2> QED BY <2>1, <2>2, <2>3 DEF Holds
<1>5. Resolved(s)' = i
  BY <1>0, <1>1, NullAssumption, EngineAssumption DEF Resolved, WideColumns
<1>6. /\ Due(s)' = Due(s) /\ ReplayTo(s, i)' = ReplayTo(s, i)
      /\ Entered(s, i)' = Entered(s, i) /\ Exited(s, i)' = Exited(s, i)
      /\ \A j \in Int : Due(s) <= j /\ j <= i => Exited(s, j)' = Exited(s, j)
  BY <1>0, <1>1, KeptStates
<1>7. ~DecidedOn(s, i) /\ ~DecidedOn(s, i)'
  BY <1>0, <1>1, <1>2 DEF DecisionsKept, DecisionsStay
<1>8. Settled(s)' <=> ~IsOpen(Exited(s, i), "MANAGED")
  <2>1. Settled(s)' <=> \/ i < Due(s)' \/ DecidedOn(s, i)' \/ ~IsOpen(Exited(s, i)', "MANAGED")
    BY <1>5 DEF Settled, IsOpen
  <2> QED BY <1>1, <1>6, <1>7, <2>1
<1>9. RowsReplayed(s)' /\ Arrives(s)
  <2>1. CASE IsOpen(Exited(s, i), "MANAGED")
    <3>1. Holds(s, Exited(s, Resolved(s)))'
      BY <1>0, <1>4, <1>5, <1>6 DEF Holds, RowsStay
    <3> QED BY <1>8, <2>1, <3>1 DEF RowsReplayed, Arrives
  <2>2. CASE ~IsOpen(Exited(s, i), "MANAGED")
    <3>1. ReplayTo(s, i) = Exited(s, i)
      BY <1>1, <2>2, ManagedIs
    <3>2. Holds(s, ReplayTo(s, Resolved(s)))'
      BY <1>0, <1>4, <1>5, <1>6, <3>1 DEF Holds, RowsStay
    <3> QED BY <1>8, <2>2, <3>2 DEF RowsReplayed, Arrives
  <2> QED BY <2>1, <2>2
<1>10. "MANAGED" \in Variant /\ (TrackActive(s, "MANAGED")' <=> TrackActive(s, "MANAGED"))
  BY <1>0 DEF RowsStay, TrackActive, Variant
<1>11. NextManagedOf(s)' = NextManagedOf(s)
  BY <1>0, Zenon DEF NextManagedOf, RowsStay
<1>12. TrackActive(s, "MANAGED") => NextManagedOf(s) = i /\ IsOpen(Exited(s, i), "MANAGED")
  BY <1>1, <1>2, <1>3, <1>10 DEF Books, ManagedKept
<1>13. ManagedKept(s)'
  BY <1>1, <1>5, <1>6, <1>10, <1>11, <1>12 DEF ManagedKept, IsOpen
<1>14. DecisionsKept(s)'
  <2>1. \A j \in Minute : DecidedOn(s, j)' =>
           Due(s)' <= j /\ j <= i /\ IsOpen(Exited(s, j)', "MANAGED")
    <3>1. \A j \in Minute : DecidedOn(s, j) =>
             Due(s) <= j /\ j <= L /\ IsOpen(Exited(s, j), "MANAGED")
      BY <1>0 DEF DecisionsKept
    <3> QED BY <1>0, <1>1, <1>2, <1>6, <3>1 DEF DecisionsStay
  <2>2. \A j \in Minute : Due(s)' <= j /\ j < i /\ IsOpen(Exited(s, j)', "MANAGED")
           => DecidedOn(s, j)'
    <3> TAKE j \in Minute
    <3> HAVE Due(s)' <= j /\ j < i /\ IsOpen(Exited(s, j)', "MANAGED")
    <3>1. j \in Int /\ Due(s) <= j /\ j <= L /\ IsOpen(Exited(s, j), "MANAGED")
      BY <1>1, <1>2, <1>6
    <3>2. DecidedOn(s, j)
      <4>1. CASE j = L
        BY <1>1, <1>3, <3>1, <4>1 DEF Settled
      <4>2. CASE j # L
        BY <1>0, <1>1, <3>1, <4>2 DEF DecisionsKept
      <4> QED BY <4>1, <4>2
    <3> QED BY <1>0, <3>2 DEF DecisionsStay
  <2> QED BY <1>5, <2>1, <2>2 DEF DecisionsKept, IsOpen
<1>15. CheckpointsKept(s)'
  <2>1. clock' \in Int /\ i < clock'
    BY <1>1 DEF Steady
  <2> QED BY <1>0, <1>1, <1>6, <2>1 DEF CheckpointsKept, DecisionsStay
<1>16. UnderWay(s, i)'
  BY <1>0, <1>3, <1>6 DEF UnderWay, RowsStay
<1>17. Moved(s, c)
  <2>1. TrackActive(s, "MANAGED")' =>
          TrackActive(s, "MANAGED") /\ NextManagedOf(s)' >= NextManagedOf(s)
    BY <1>1, <1>10, <1>11, <1>12
  <2>2. Resolved(s)' \in {Resolved(s), Resolved(s) + 1} /\ Resolved(s)' # Resolved(s)
    BY <1>1, <1>2, <1>5
  <2>3. c.operation = "advance_checkpoint" /\ c.signal_id = s /\ c.at = Resolved(s) + 1
        /\ UnderWay(s, c.at)'
    BY <1>0, <1>2, <1>16
  <2>4. \A j : DecidedOn(s, j)' <=> DecidedOn(s, j)
    BY <1>0 DEF DecisionsStay
  <2> HIDE DEF L, i
  <2> QED BY <1>0, <1>9, <2>1, <2>2, <2>3, <2>4, Zenon DEF Moved
<1> QED BY <1>9, <1>13, <1>14, <1>15, <1>17 DEF Books

\* A candle that was decided on is managed.
LEMMA ManagementMarkBooks ==
    ASSUME WideColumns, EngineInv, NEW s \in Created, Books(s), Steady(s),
           NEW c \in EngineCommand, c.at \in Minute, c.signal_id = s, Placed(c),
           ManagementMarkDue(c, {}), MarksManagement(s, c)
    PROVE  Books(s)' /\ Moved(s, c)
<1> DEFINE L == Resolved(s)
           i == c.at
           last == checkpoint[ManagementCheckpoint(s)]
<1>0. /\ CheckpointsKept(s) /\ DecisionsKept(s) /\ RowsStay(s) /\ DecisionsStay(s)
      /\ c.operation = "advance_checkpoint"
      /\ last # Null => i > last
      /\ checkpoint'[ManagementCheckpoint(s)] = i
      /\ checkpoint'[LifecycleCheckpoint(s)] = checkpoint[LifecycleCheckpoint(s)]
      /\ trade'[s] = trade[s]
  BY DEF Books, MarksManagement, Marks, RowsStay
<1>1. /\ MarketType /\ terms[s] \in EngineTerm /\ Due(s) \in Nat /\ L \in Int /\ clock \in Int
      /\ L >= Due(s) - 1 /\ i \in Int /\ (L < Due(s) \/ L < clock)
      /\ Due(s) <= i /\ i < clock /\ i <= L /\ DecidedOn(s, i)
      /\ Minute \subseteq Int /\ Minute' = Minute
  BY <1>0, ResolvedIs, EngineAssumption DEF Placed, Minute, ManagementMarkDue, DecisionIn
<1>2. IsOpen(Exited(s, i), "MANAGED")
  BY <1>0, <1>1 DEF DecisionsKept
<1>3. PICK l : l = L
  OBVIOUS
<1>4. Resolved(s)' = l
  BY <1>0, <1>3 DEF Resolved, Steady
<1>5. /\ Due(s)' = Due(s) /\ ReplayTo(s, l)' = ReplayTo(s, l)
      /\ \A j \in Int : Due(s) <= j /\ j < clock =>
            Entered(s, j)' = Entered(s, j) /\ Exited(s, j)' = Exited(s, j)
  <2>1. l \in Int /\ l >= -1 /\ (l < clock \/ l < Due(s))
    BY <1>1, <1>3
  <2> QED BY <1>0, <2>1, KeptStates
<1>6. DecidedOn(s, i)' /\ (Settled(s)' <=> Settled(s)) /\ Exited(s, l)' = Exited(s, l)
  <2>1. /\ Due(s) <= l /\ l < clock /\ l \in Int
    BY <1>1, <1>3
  <2>2. Exited(s, l)' = Exited(s, l)
    BY <1>5, <2>1
  <2>3. Settled(s) <=> \/ l < Due(s) \/ DecidedOn(s, l) \/ ~IsOpen(Exited(s, l), "MANAGED")
    BY <1>3 DEF Settled
  <2>4. Settled(s)' <=> \/ l < Due(s)' \/ DecidedOn(s, l)' \/ ~IsOpen(Exited(s, l)', "MANAGED")
    BY <1>4 DEF Settled, IsOpen
  <2> QED BY <1>0, <1>1, <1>5, <2>2, <2>3, <2>4 DEF DecisionsStay
<1>7. l + 1 < clock => Entered(s, l + 1)' = Entered(s, l + 1) /\ Exited(s, l + 1)' = Exited(s, l + 1)
  BY <1>1, <1>3, <1>5
<1>8. RowsReplayed(s)'
  <2>1. CASE Settled(s) /\ Holds(s, ReplayTo(s, l))
    <3>1. Holds(s, ReplayTo(s, Resolved(s)))'
      BY <1>0, <1>4, <1>5, <2>1 DEF Holds, RowsStay
    <3> QED BY <1>6, <2>1, <3>1 DEF RowsReplayed
  <2>2. CASE ~Settled(s) /\ Holds(s, Exited(s, l))
    <3>1. Holds(s, Exited(s, Resolved(s)))'
      BY <1>0, <1>4, <1>6, <2>2 DEF Holds, RowsStay
    <3> QED BY <1>6, <2>2, <3>1 DEF RowsReplayed
  <2>3. CASE l + 1 < clock /\ Settled(s) /\ UnderWay(s, l + 1)
    <3>1. UnderWay(s, Resolved(s) + 1)'
      BY <1>0, <1>4, <1>7, <2>3 DEF UnderWay, RowsStay
    <3>2. Resolved(s)' + 1 < clock'
      BY <1>1, <1>3, <1>4, <2>3 DEF Steady
    <3> QED BY <1>6, <2>3, <3>1, <3>2 DEF RowsReplayed
  <2> QED BY <1>3, <2>1, <2>2, <2>3 DEF Books, RowsReplayed
<1>9. "MANAGED" \in Variant /\ \A v \in Variant : TrackActive(s, v)' <=> TrackActive(s, v)
  BY <1>0 DEF RowsStay, TrackActive, Variant
<1>10. NextManagedOf(s)' = i + 1
  BY <1>0, <1>1, NullAssumption DEF NextManagedOf, WideColumns
<1>11. TrackActive(s, "MANAGED") => i = L /\ NextManagedOf(s) <= i /\ NextManagedOf(s) \in Int
  <2> SUFFICES ASSUME TrackActive(s, "MANAGED")
               PROVE  i = L /\ NextManagedOf(s) <= i /\ NextManagedOf(s) \in Int
    OBVIOUS
  <2>1. NextManagedOf(s) \in {L, L + 1}
    BY DEF Books, ManagedKept
  <2>2. NextManagedOf(s) <= i
    <3>1. CASE last # Null
      <4>1. NextManagedOf(s) = last + 1 /\ last \in Int /\ i > last
        BY <1>0, <1>1, <3>1 DEF NextManagedOf, CheckpointsKept
      <4> QED BY <1>1, <4>1
    <3>2. CASE last = Null
      <4>1. NextManagedOf(s) = trade[s].activated_at
        BY <3>2 DEF NextManagedOf
      <4>2. Shaped(Exited(s, i)) /\ Dated(s, Exited(s, i), i)
        BY <1>1, CandleStates
      <4>3. Exited(s, i).trade # Null
        BY <1>2, <1>9, <4>2 DEF Shaped, IsOpen
      <4>4. trade[s] = Exited(s, i).trade
        BY <1>1, <4>3, TradeIs
      <4> QED BY <4>1, <4>2, <4>3, <4>4 DEF Dated
    <3> QED BY <3>1, <3>2
  <2> QED BY <1>1, <2>1, <2>2
<1>12. ManagedKept(s)'
  <2> SUFFICES ASSUME TrackActive(s, "MANAGED")'
               PROVE  /\ NextManagedOf(s)' = l + 1 /\ l + 1 # l
                      /\ Due(s)' <= NextManagedOf(s)'
                      /\ Settled(s)'
    BY <1>4 DEF ManagedKept
  <2>1. i = l
    BY <1>3, <1>9, <1>11
  <2>2. Settled(s)'
    BY <1>3, <1>6, <1>1, <2>1 DEF Settled
  <2> QED BY <1>1, <1>3, <1>5, <1>10, <2>1, <2>2
<1>13. DecisionsKept(s)'
  <2>1. \A j \in Minute : DecidedOn(s, j)' =>
           Due(s)' <= j /\ j <= l /\ IsOpen(Exited(s, j)', "MANAGED")
    BY <1>0, <1>1, <1>3, <1>5 DEF DecisionsKept, DecisionsStay
  <2>2. \A j \in Minute : Due(s)' <= j /\ j < l /\ IsOpen(Exited(s, j)', "MANAGED")
           => DecidedOn(s, j)'
    BY <1>0, <1>1, <1>3, <1>5 DEF DecisionsKept, DecisionsStay
  <2> QED BY <1>4, <2>1, <2>2 DEF DecisionsKept, IsOpen
<1>14. CheckpointsKept(s)'
  <2>1. clock' \in Int /\ clock' >= clock
    BY DEF Steady
  <2>2. checkpoint[LifecycleCheckpoint(s)] # Null =>
           /\ checkpoint'[LifecycleCheckpoint(s)] \in Minute
           /\ Due(s)' <= checkpoint'[LifecycleCheckpoint(s)]
           /\ checkpoint'[LifecycleCheckpoint(s)] < clock'
    <3>1. PICK m : m = checkpoint[LifecycleCheckpoint(s)]
      OBVIOUS
    <3>2. m # Null => m \in Minute /\ Due(s) <= m /\ m < clock
      BY <1>0, <3>1 DEF CheckpointsKept
    <3>3. m # Null => m \in Minute /\ Due(s)' <= m /\ m < clock'
      <4>1. Due(s)' = Due(s) /\ clock \in Int /\ Minute \subseteq Int
        BY <1>1, <1>5
      <4>2. CASE m # Null
        <5>1. m \in Int /\ m < clock
          BY <3>2, <4>1, <4>2
        <5>2. m < clock'
          BY <2>1, <4>1, <5>1
        <5> QED BY <3>2, <4>1, <4>2, <5>2
      <4> QED BY <4>2
    <3>4. checkpoint'[LifecycleCheckpoint(s)] = m
      BY <1>0, <3>1
    <3> QED BY <3>1, <3>3, <3>4
  <2>3. DecidedOn(s, checkpoint[ManagementCheckpoint(s)])'
    BY <1>0, <1>6
  <2> QED BY <1>0, <1>1, <2>2, <2>3 DEF CheckpointsKept
<1>15. Moved(s, c)
  <2>1. TrackActive(s, "MANAGED")' =>
          TrackActive(s, "MANAGED") /\ NextManagedOf(s)' >= NextManagedOf(s)
    BY <1>1, <1>9, <1>10, <1>11
  <2>2. Resolved(s)' \in {Resolved(s), Resolved(s) + 1} /\ Resolved(s)' = Resolved(s)
    BY <1>3, <1>4
  <2>3. Resolved(s) + 1 < clock /\ UnderWay(s, Resolved(s) + 1) => UnderWay(s, Resolved(s) + 1)'
    BY <1>0, <1>3, <1>4, <1>7 DEF UnderWay, RowsStay
  <2>4. \A j : DecidedOn(s, j)' <=> DecidedOn(s, j)
    BY <1>0 DEF DecisionsStay
  <2>5. Arrives(s)
    BY <1>6, <2>2 DEF Arrives
  <2> HIDE DEF L, i, last
  <2> QED BY <2>5, <1>0, <1>6, <1>9, <2>1, <2>2, <2>3, <2>4, Zenon DEF Moved
<1> QED BY <1>8, <1>12, <1>13, <1>14, <1>15 DEF Books

----------------------------------------------------------------------------
(* The books after any command that may be executed. *)

AbsentKept(s) ==
    status[s] = "ABSENT" => /\ checkpoint[LifecycleCheckpoint(s)] = Null
                            /\ checkpoint[ManagementCheckpoint(s)] = Null
                            /\ \A i : ~DecidedOn(s, i)

\* A receipt is evidence of what its command did.
Evidence(r) ==
    LET k == r.dedupe_key
    IN  /\ k.signal_id \in SignalId
        /\ r.operation \in {"activate_signal", "transition_pending"} =>
              status[k.signal_id] \notin {"ABSENT", "PENDING"}
        /\ r.operation = "close_track" =>
              k.action \in Variant /\ outcome[k.signal_id][k.action] # Null
        /\ r.operation = "apply_management_decision" => DecisionExists(k)

ReceiptsKept ==
    /\ \A r \in receipt : Evidence(r)
    /\ \A d \in decision : Receipt(d.dedupe_key, "apply_management_decision") \in receipt

LedgerReplays ==
    /\ \A s \in Created : Books(s)
    /\ \A s \in SignalId : AbsentKept(s)
    /\ ReceiptsKept

\* What no command takes back.
Lasting ==
    /\ \A x \in SignalId : /\ status[x] \notin {"ABSENT", "PENDING"} =>
                                  status'[x] \notin {"ABSENT", "PENDING"}
                           /\ \A v \in Variant : outcome[x][v] # Null => outcome'[x][v] # Null
    /\ \A k : DecisionExists(k) => DecisionExists(k)'

\* What a receipt is evidence of is never undone.
LEMMA EvidenceLasts ==
    ASSUME Lasting, NEW r, Evidence(r) PROVE Evidence(r)'
BY Zenon DEF Evidence, Lasting

\* A receipt, written with what it is evidence of.
LEMMA ReceiptWritten ==
    ASSUME ReceiptsKept, Lasting, NEW k, NEW op, receipt' = receipt \cup {Receipt(k, op)},
           Evidence(Receipt(k, op))',
           decision' = decision \/ (op = "apply_management_decision"
                                    /\ \E a, s : decision' = decision \cup
                                          {[signal_id |-> s, dedupe_key |-> k, adjustment |-> a]})
    PROVE  ReceiptsKept'
<1>1. \A r \in receipt' : Evidence(r)'
  BY EvidenceLasts DEF ReceiptsKept
<1>2. ASSUME NEW d \in decision' PROVE Receipt(d.dedupe_key, "apply_management_decision") \in receipt'
  <2>1. CASE d \in decision
    BY <2>1 DEF ReceiptsKept
  <2>2. CASE d \notin decision
    <3>1. op = "apply_management_decision" /\ d.dedupe_key = k
      BY <1>2, <2>2
    <3> QED BY <3>1
  <2> QED BY <2>1, <2>2
<1>3. \A d \in decision' : (Receipt(d.dedupe_key, "apply_management_decision") \in receipt)'
  BY <1>2 DEF Receipt
<1> QED BY <1>1, <1>3 DEF ReceiptsKept

\* Every command that stores a receipt did what the receipt says.
LEMMA ReceiptsStep ==
    ASSUME WideColumns, EngineInv, ReceiptsKept, NEW c \in EngineCommand, Keyed(c),
           Executes(c) \/ UNCHANGED ledgerVars
    PROVE  ReceiptsKept'
<1>0. TypeOK /\ StatusMatchesRows /\ ClosedTracksHaveOutcomes
  BY DEF EngineInv, IInv
<1>1. CASE UNCHANGED tradeVars
  BY <1>1, Zenon DEF tradeVars, ReceiptsKept, Evidence, DecisionExists
<1>2. CASE /\ c.operation = "create_signal" /\ c.signal_id \in SignalId
           /\ CreateSignal(c.signal_id, c.data, c.key)
  <2>1. Lasting
    BY <1>0, <1>2 DEF Lasting, CreateSignal, CreateAllowed, TypeOK, DecisionExists
  <2>2. receipt' = receipt /\ decision' = decision
    BY <1>2 DEF CreateSignal
  <2>3. \A r \in receipt' : Evidence(r)'
    BY <2>1, <2>2, EvidenceLasts DEF ReceiptsKept
  <2> QED BY <2>2, <2>3 DEF ReceiptsKept
<1>3. CASE /\ c.operation = "activate_signal" /\ c.signal_id \in SignalId
           /\ ActivateSignal(c.signal_id, c.data.fill_price, c.at, c.key)
  <2>1. /\ status' = [status EXCEPT ![c.signal_id] = "ACTIVE"] /\ status[c.signal_id] = "PENDING"
        /\ outcome' = outcome /\ decision' = decision
        /\ receipt' = receipt \cup {Receipt(c.key, "activate_signal")}
    BY <1>3 DEF ActivateSignal, ActivateAllowed
  <2>2. Lasting
    BY <1>0, <1>3, <2>1 DEF Lasting, TypeOK, DecisionExists
  <2>3. c.key.signal_id = c.signal_id
    BY <1>3, KeyNamesCommand DEF Operation
  <2>4. Evidence(Receipt(c.key, "activate_signal"))'
    BY <1>0, <1>3, <2>1, <2>3 DEF Evidence, Receipt, TypeOK
  <2> QED BY <2>1, <2>2, <2>4, ReceiptWritten
<1>4. CASE /\ c.operation = "transition_pending" /\ c.signal_id \in SignalId
           /\ TransitionPending(c.signal_id, "EXPIRED", c.key)
  <2>1. /\ status' = [status EXCEPT ![c.signal_id] = "EXPIRED"] /\ status[c.signal_id] = "PENDING"
        /\ outcome' = outcome /\ decision' = decision
        /\ receipt' = receipt \cup {Receipt(c.key, "transition_pending")}
    BY <1>4 DEF TransitionPending, TransitionAllowed
  <2>2. Lasting
    BY <1>0, <1>4, <2>1 DEF Lasting, TypeOK, DecisionExists
  <2>3. c.key.signal_id = c.signal_id
    BY <1>4, KeyNamesCommand DEF Operation
  <2>4. Evidence(Receipt(c.key, "transition_pending"))'
    BY <1>0, <1>4, <2>1, <2>3 DEF Evidence, Receipt, TypeOK
  <2> QED BY <2>1, <2>2, <2>4, ReceiptWritten
<1>5. CASE /\ c.operation = "close_track"
           /\ c.signal_id \in SignalId /\ c.data.variant \in Variant
           /\ c.data.closing \in Closing /\ c.data.payload \in Payload /\ c.key \in DedupeKey
           /\ CloseTrack(c.signal_id, c.data.variant, c.data.closing, c.data.payload, c.key)
  <2>1. /\ decision' = decision
        /\ receipt' = receipt \cup {Receipt(c.key, "close_track")}
    BY <1>5 DEF CloseTrack
  <2>2. \A x \in SignalId, w \in Variant :
           /\ status'[x] = IF x = c.signal_id /\ c.data.variant = "MANAGED" THEN "CLOSED" ELSE status[x]
           /\ outcome'[x][w] = IF x = c.signal_id /\ w = c.data.variant THEN c.data.closing
                               ELSE outcome[x][w]
    BY <1>0, <1>5, CloseRows
  <2>3. c.data.closing # Null /\ "FIXED" \in Variant
    BY <1>5, NullAssumption DEF Variant
  <2>4. Lasting
    BY <1>0, <1>5, <2>1, <2>2, <2>3 DEF Lasting, DecisionExists
  <2>5. c.key = CommandKey(c.signal_id, c.at, c.data.variant, c.data.closing.close_event)
    BY <1>5 DEF Keyed
  <2>6. c.key.signal_id = c.signal_id /\ c.key.action = c.data.variant
    BY <2>5 DEF CommandKey
  <2>7. Evidence(Receipt(c.key, "close_track"))'
    BY <1>5, <2>2, <2>3, <2>6 DEF Evidence, Receipt
  <2> QED BY <2>1, <2>4, <2>7, ReceiptWritten
<1>6. CASE /\ c.operation = "apply_management_decision"
           /\ c.signal_id \in SignalId /\ c.data \in Adjustment /\ c.key \in DedupeKey
           /\ ApplyManagement(c.signal_id, c.data, c.key)
  <2>1. /\ status' = status /\ outcome' = outcome
        /\ receipt' = receipt \cup {Receipt(c.key, "apply_management_decision")}
        /\ decision' = decision \cup
              {[signal_id |-> c.signal_id, dedupe_key |-> c.key, adjustment |-> c.data]}
    BY <1>6 DEF ApplyManagement
  <2>2. \A j : DecisionExists(j)' <=> DecisionExists(j) \/ j = c.key
    BY <1>6, DecisionRecorded
  <2>3. Lasting
    BY <2>1, <2>2 DEF Lasting
  <2>4. c.key.signal_id = c.signal_id
    BY <1>6, KeyNamesCommand DEF Operation
  <2>5. Evidence(Receipt(c.key, "apply_management_decision"))'
    BY <1>6, <2>2, <2>4 DEF Evidence, Receipt
  <2> QED BY <2>1, <2>3, <2>5, ReceiptWritten
<1> QED BY <1>1, <1>2, <1>3, <1>4, <1>5, <1>6, TradeMoves

\* A signal is created with nothing resolved.
LEMMA CreatedBooks ==
    ASSUME WideColumns, EngineInv, NEW c \in EngineCommand, c.signal_id \in SignalId,
           c.data \in EngineTerm, CreateSignal(c.signal_id, c.data, c.key),
           AbsentKept(c.signal_id)
    PROVE  Books(c.signal_id)'
<1> DEFINE s == c.signal_id
<1>0. TypeOK /\ StatusMatchesRows /\ ClosedTracksHaveOutcomes
  BY DEF EngineInv, IInv
<1>1. /\ status[s] = "ABSENT" /\ status'[s] = "PENDING" /\ terms'[s] = c.data
      /\ trade' = trade /\ track' = track /\ outcome' = outcome /\ decision' = decision
      /\ checkpoint' = checkpoint
  BY <1>0 DEF CreateSignal, CreateAllowed, TypeOK
<1> HIDE DEF s
<1>2. trade[s] = Null /\ \A v \in Variant : track[s][v] = Null /\ outcome[s][v] = Null
  BY <1>0, <1>1 DEF StatusMatchesRows, ClosedTracksHaveOutcomes, s
<1>3. /\ checkpoint'[LifecycleCheckpoint(s)] = Null /\ checkpoint'[ManagementCheckpoint(s)] = Null
      /\ \A i : ~DecidedOn(s, i)'
  <2>1. \A i : DecidedOn(s, i)' <=> DecidedOn(s, i)
    BY <1>1, DecisionsSame DEF DecisionsStay
  <2> QED BY <1>1, <2>1 DEF AbsentKept, s
<1>4. FirstSafeOpen(terms'[s]) \in Nat
  BY <1>1, FirstSafeOpenNat
<1>5. PICK f \in Nat : f = Due(s)'
  BY <1>4 DEF Due
<1>6. Resolved(s)' = f - 1
  BY <1>3, <1>5 DEF Resolved, Due
<1>7. ReplayTo(s, f - 1)' = Unopened
  <2>1. f - 1 \in Int /\ f - 1 >= -1 /\ f - 1 < FirstSafeOpen(terms'[s])
    BY <1>5 DEF Due
  <2> QED BY <1>4, <2>1, UnfoldingNext
<1>8. Settled(s)'
  BY <1>5, <1>6 DEF Settled
<1>9. Holds(s, ReplayTo(s, Resolved(s)))'
  <2>1. Holds(s, Unopened)'
    BY <1>1, <1>2 DEF Holds, Unopened, NoRows
  <2> QED BY <1>6, <1>7, <2>1 DEF Holds
<1>10. RowsReplayed(s)'
  BY <1>8, <1>9 DEF RowsReplayed
<1>11. ManagedKept(s)'
  BY <1>1, <1>2 DEF ManagedKept, TrackActive, Variant
<1>12. DecisionsKept(s)'
  <2>1. \A i \in Minute : ~(f <= i /\ i < f - 1)
    BY EngineAssumption DEF Minute
  <2> QED BY <1>3, <1>5, <1>6, <2>1 DEF DecisionsKept, Minute
<1>13. CheckpointsKept(s)'
  BY <1>3 DEF CheckpointsKept
<1> QED BY <1>10, <1>11, <1>12, <1>13 DEF Books, s

\* What a command of the engine is made of.
LEMMA CommandShape ==
    ASSUME NEW c \in EngineCommand
    PROVE  /\ c.at \in Minute /\ c.at \in Int
           /\ c.operation = "create_signal" =>
                 c.signal_id \in SignalId /\ c.data \in EngineTerm /\ c.key \in NoticeKey
           /\ c.operation \in Operation => c.signal_id \in SignalId /\ c.key \in DedupeKey
           /\ c.operation = "close_track" => c.data.variant \in Variant
           /\ c.operation = "advance_checkpoint" => c.key \in CheckpointKey
<1>1. c.at \in Minute
  BY DEF EngineCommand, SignalCommand
<1>2. c.at \in Int
  BY <1>1, EngineAssumption DEF Minute
<1>3. c.operation = "create_signal" =>
         c.signal_id \in SignalId /\ c.data \in EngineTerm /\ c.key \in NoticeKey
  BY DEF EngineCommand, SignalCommand
<1>4. c.operation \in Operation => c.signal_id \in SignalId /\ c.key \in DedupeKey
  BY DEF EngineCommand, SignalCommand, Operation
<1>5. c.operation = "close_track" => c.data.variant \in Variant
  BY DEF EngineCommand, SignalCommand
<1>6. c.operation = "advance_checkpoint" => c.key \in CheckpointKey
  BY DEF EngineCommand, SignalCommand
<1> QED BY <1>1, <1>2, <1>3, <1>4, <1>5, <1>6

\* A command with nothing before it keeps the books of every signal.
LEMMA CommandBooks ==
    ASSUME WideColumns, EngineInv, LedgerReplays, UNCHANGED <<clock, candles>>,
           NEW c \in EngineCommand, Keyed(c), Pending(c, {}),
           Executes(c) \/ UNCHANGED ledgerVars, NEW s \in Created
    PROVE  Books(s)' /\ Moved(s, c) /\ terms'[s] = terms[s]
<1> HIDE DEF EngineCommand
<1>1. Books(s) /\ c.at \in Minute /\ c.at \in Int
  BY CommandShape DEF LedgerReplays
<1>2. \A d \in decision : Receipt(d.dedupe_key, "apply_management_decision") \in receipt
  BY DEF LedgerReplays, ReceiptsKept
<1>3. c.operation = "activate_signal" => c.data.fill_price = ConservativeEntry(terms[c.signal_id])
  BY DEF Pending, OpeningDue
<1>4. /\ terms'[s] = terms[s]
      /\ \/ Untouched(s)
         \/ Opens(s, c) \/ Lapses(s, c) \/ Closes(s, c) \/ Decides(s, c)
         \/ MarksLifecycle(s, c) \/ MarksManagement(s, c)
  BY <1>2, <1>3, Effects
<1>5. Steady(s)
  <2>1. clock \in Int
    BY EngineAssumption DEF EngineInv, EngineTypeOK, MarketType, Minute
  <2> QED BY <1>4, <2>1 DEF Steady, Candle
<1>6. CASE Untouched(s)
  BY <1>1, <1>4, <1>5, <1>6, UntouchedBooks, UntouchedMoved
<1>7. CASE Opens(s, c) \/ Lapses(s, c)
  <2>1. c.operation \in {"activate_signal", "transition_pending"} /\ c.operation \in Moves
    BY <1>7 DEF Opens, Lapses, Moves, Operation
  <2>2. Placed(c) /\ OpeningDue(c)
    BY <2>1 DEF Pending
  <2> QED BY <1>1, <1>4, <1>5, <1>7, <2>2, OpeningBooks
<1>8. CASE Closes(s, c)
  <2>1. c.operation = "close_track" /\ c.operation \in Moves
    BY <1>8 DEF Closes, Moves, Operation
  <2>2. Placed(c) /\ CloseDue(c)
    BY <2>1 DEF Pending
  <2> QED BY <1>1, <1>4, <1>5, <1>8, <2>2, ClosingBooks
<1>9. CASE Decides(s, c)
  <2>1. c.operation = "apply_management_decision" /\ c.operation \in Moves
    BY <1>9 DEF Decides, Moves, Operation
  <2>2. Placed(c) /\ DecisionDue(c)
    BY <2>1 DEF Pending
  <2> QED BY <1>1, <1>4, <1>5, <1>9, <2>2, DecidingBooks
<1>10. CASE MarksLifecycle(s, c) \/ MarksManagement(s, c)
  <2>1. /\ c.operation = "advance_checkpoint" /\ c.operation \in Moves
        /\ MarksLifecycle(s, c) => c.key = LifecycleCheckpoint(s)
        /\ MarksManagement(s, c) => c.key = ManagementCheckpoint(s)
    BY <1>10 DEF MarksLifecycle, MarksManagement, Marks, Moves
  <2>2. Placed(c) /\ (LifecycleMarkDue(c, {}) \/ ManagementMarkDue(c, {}))
    BY <2>1 DEF Pending
  <2>3. /\ LifecycleMarkDue(c, {}) => c.key = LifecycleCheckpoint(c.signal_id)
        /\ ManagementMarkDue(c, {}) => c.key = ManagementCheckpoint(c.signal_id)
    BY DEF LifecycleMarkDue, ManagementMarkDue
  <2>4. c.signal_id = s
        /\ \/ MarksLifecycle(s, c) /\ LifecycleMarkDue(c, {})
           \/ MarksManagement(s, c) /\ ManagementMarkDue(c, {})
    BY <1>10, <2>1, <2>2, <2>3, KeysApart
  <2> QED BY <1>1, <1>4, <1>5, <2>2, <2>4, LifecycleMarkBooks, ManagementMarkBooks
<1> QED BY <1>4, <1>6, <1>7, <1>8, <1>9, <1>10

\* A signal that did not exist is created, or it still does not.
LEMMA NewSignals ==
    ASSUME WideColumns, EngineInv, NEW c \in EngineCommand, Executes(c) \/ UNCHANGED ledgerVars,
           NEW s \in SignalId, status[s] = "ABSENT"
    PROVE  \/ status'[s] = "ABSENT"
           \/ c.operation = "create_signal" /\ c.signal_id = s /\ CreateSignal(s, c.data, c.key)
<1> HIDE DEF EngineCommand
<1>0. TypeOK /\ StatusMatchesRows
  BY DEF EngineInv, IInv
<1>1. CASE UNCHANGED tradeVars
  BY <1>1 DEF tradeVars
<1>2. CASE c.operation = "create_signal" /\ CreateSignal(c.signal_id, c.data, c.key)
  <2>1. status' = [status EXCEPT ![c.signal_id] = "PENDING"]
    BY <1>2 DEF CreateSignal
  <2> QED BY <1>0, <1>2, <2>1 DEF TypeOK
<1>3. CASE ActivateSignal(c.signal_id, c.data.fill_price, c.at, c.key)
  <2>1. status' = [status EXCEPT ![c.signal_id] = "ACTIVE"] /\ status[c.signal_id] = "PENDING"
    BY <1>3 DEF ActivateSignal, ActivateAllowed
  <2> QED BY <1>0, <2>1 DEF TypeOK
<1>4. CASE TransitionPending(c.signal_id, "EXPIRED", c.key)
  <2>1. status' = [status EXCEPT ![c.signal_id] = "EXPIRED"] /\ status[c.signal_id] = "PENDING"
    BY <1>4 DEF TransitionPending, TransitionAllowed
  <2> QED BY <1>0, <2>1 DEF TypeOK
<1>5. CASE CloseTrack(c.signal_id, c.data.variant, c.data.closing, c.data.payload, c.key)
  <2>1. /\ c.data.variant = "MANAGED" => status[c.signal_id] = "ACTIVE"
        /\ status' = IF c.data.variant = "MANAGED" THEN [status EXCEPT ![c.signal_id] = "CLOSED"]
                     ELSE status
    BY <1>5 DEF CloseTrack, CloseAllowed
  <2> QED BY <1>0, <2>1 DEF TypeOK
<1>6. CASE ApplyManagement(c.signal_id, c.data, c.key)
  BY <1>6 DEF ApplyManagement
<1> QED BY <1>1, <1>2, <1>3, <1>4, <1>5, <1>6, TradeMoves

\* No command but its creation reaches a signal that does not exist.
LEMMA AbsentStays ==
    ASSUME WideColumns, EngineInv, LedgerReplays, NEW c \in EngineCommand, Keyed(c), Pending(c, {}),
           Executes(c) \/ UNCHANGED ledgerVars, NEW s \in SignalId, status[s] = "ABSENT"
    PROVE  MarksStay(s) /\ \A i : DecidedOn(s, i)' <=> DecidedOn(s, i)
<1> HIDE DEF EngineCommand
<1>0. TypeOK
  BY DEF EngineInv, IInv
<1>1. c.operation \in Moves => c.signal_id # s
  BY DEF Pending, Placed, Created
<1>2. MarksStay(s)
  <2>1. CASE checkpoint' = checkpoint
    BY <2>1, MarksSame
  <2>2. CASE c.operation = "advance_checkpoint" /\ AdvanceCheckpoint(c.key, c.at)
    <3>1. checkpoint' = [checkpoint EXCEPT ![c.key] = c.at]
      BY <2>2 DEF AdvanceCheckpoint
    <3>2. c.key \in {LifecycleCheckpoint(c.signal_id), ManagementCheckpoint(c.signal_id)}
          /\ c.signal_id # s
      BY <1>1, <2>2 DEF Pending, Moves, LifecycleMarkDue, ManagementMarkDue
    <3>3. c.key # LifecycleCheckpoint(s) /\ c.key # ManagementCheckpoint(s)
      BY <3>2, KeysApart
    <3>4. LifecycleCheckpoint(s) \in CheckpointKey /\ ManagementCheckpoint(s) \in CheckpointKey
      BY DEF WideColumns
    <3> QED BY <1>0, <3>1, <3>3, <3>4 DEF MarksStay, TypeOK
  <2> QED BY <2>1, <2>2, CheckpointMoves
<1>3. \A i : DecidedOn(s, i)' <=> DecidedOn(s, i)
  <2>1. CASE decision' = decision
    BY <2>1, DecisionsSame DEF DecisionsStay
  <2>2. CASE c.operation = "apply_management_decision"
             /\ ApplyManagement(c.signal_id, c.data, c.key)
    <3>1. \A j : DecisionExists(j)' <=> DecisionExists(j) \/ j = c.key
      BY <2>2, DecisionRecorded
    <3>2. c.key = ManagementKey(c.signal_id, c.at) /\ c.signal_id # s
      BY <1>1, <2>2 DEF Keyed, ManagementKey, Moves, Operation
    <3>3. \A i : ManagementKey(s, i) # c.key
      BY <3>2, KeysApart
    <3> QED BY <3>1, <3>3, Zenon DEF DecidedOn
  <2>3. \/ decision' = decision
        \/ c.operation = "apply_management_decision" /\ ApplyManagement(c.signal_id, c.data, c.key)
    <3>1. UNCHANGED tradeVars => decision' = decision
      BY DEF tradeVars
    <3> QED BY <3>1, TradeMoves DEF CreateSignal, ActivateSignal, TransitionPending, CloseTrack
  <2> QED BY <2>1, <2>2, <2>3
<1> QED BY <1>2, <1>3

\* A command that is waited for leaves the books right, whenever it is executed.
LEMMA ExecutingReplays ==
    ASSUME WideColumns, EngineInv, LedgerReplays, UNCHANGED <<clock, candles>>,
           NEW c \in EngineCommand, Keyed(c), Pending(c, {}),
           Executes(c) \/ UNCHANGED ledgerVars
    PROVE  /\ LedgerReplays'
           /\ \A s \in Created : s \in Created' /\ terms'[s] = terms[s] /\ Moved(s, c)
<1> HIDE DEF EngineCommand
<1>1. \A s \in Created : Books(s)' /\ Moved(s, c) /\ terms'[s] = terms[s]
  BY CommandBooks
<1>2. \A s \in SignalId : AbsentKept(s)'
  <2> SUFFICES ASSUME NEW s \in SignalId, status'[s] = "ABSENT" PROVE AbsentKept(s)'
    BY DEF AbsentKept
  <2>1. status[s] = "ABSENT"
    <3>1. CASE UNCHANGED ledgerVars
      BY <3>1 DEF ledgerVars, tradeVars
    <3>2. CASE Executes(c)
      BY <3>2, ExecutesKeepsSignals DEF EngineInv, EngineTypeOK, SignalsKept
    <3> QED BY <3>1, <3>2
  <2>2. AbsentKept(s)
    BY DEF LedgerReplays
  <2>3. MarksStay(s) /\ \A i : DecidedOn(s, i)' <=> DecidedOn(s, i)
    BY <2>1, AbsentStays
  <2> QED BY <2>1, <2>2, <2>3 DEF AbsentKept, MarksStay
<1>3. ReceiptsKept'
  BY ReceiptsStep DEF LedgerReplays
<1>4. ASSUME NEW s \in Created' PROVE Books(s)'
  <2>1. s \in SignalId /\ status'[s] # "ABSENT"
    BY <1>4 DEF Created
  <2>2. CASE s \in Created
    BY <1>1, <2>2
  <2>3. CASE s \notin Created
    <3>1. status[s] = "ABSENT"
      BY <2>1, <2>3 DEF Created
    <3>2. c.operation = "create_signal" /\ c.signal_id = s /\ CreateSignal(s, c.data, c.key)
      BY <2>1, <3>1, NewSignals
    <3>3. c.data \in EngineTerm /\ AbsentKept(s)
      BY <2>1, <3>2, CommandShape DEF LedgerReplays
    <3> QED BY <2>1, <3>2, <3>3, CreatedBooks
  <2> QED BY <2>2, <2>3
<1>5. \A s \in Created : s \in Created'
  <2>1. CASE UNCHANGED ledgerVars
    BY <2>1 DEF ledgerVars, tradeVars, Created
  <2>2. CASE Executes(c)
    BY <2>2, ExecutesKeepsSignals DEF EngineInv, EngineTypeOK, SignalsKept, Created
  <2> QED BY <2>1, <2>2
<1> QED BY <1>1, <1>2, <1>3, <1>4, <1>5 DEF LedgerReplays

\* What a command that was answered with success leaves behind.
Succeeded(c) ==
    LET s == c.signal_id
    IN  /\ c.operation \in {"activate_signal", "transition_pending"} => status'[s] # "PENDING"
        /\ c.operation = "close_track" => ~TrackActive(s, c.data.variant)'
        /\ c.operation = "apply_management_decision" => DecidedOn(s, c.at)'
        /\ c.operation = "advance_checkpoint" =>
              checkpoint'[c.key] # Null /\ checkpoint'[c.key] \in Int /\ checkpoint'[c.key] >= c.at

\* A command answered with success has had its effect, now or earlier.
LEMMA AcceptedSucceeds ==
    ASSUME WideColumns, EngineInv, LedgerReplays, NEW c \in EngineCommand, Keyed(c),
           Executes(c), Accepted(c), LedgerReplays', EngineInv',
           c.operation = "advance_checkpoint" => checkpoint[c.key] = Null \/ checkpoint[c.key] \in Int
    PROVE  Succeeded(c)
<1> HIDE DEF EngineCommand
<1>0. /\ TypeOK /\ ReceiptsKept /\ ReceiptsKept'
      /\ StatusMatchesRows' /\ ClosedTracksHaveOutcomes'
  BY DEF EngineInv, IInv, LedgerReplays
<1>1. c.at \in Int
  BY CommandShape
<1>2. CASE c.operation \in Operation
  <2>1. Receipt(c.key, c.operation) \in receipt'
    <3>1. CASE Allowed(c)
      <4>1. Applies(c)
        BY <3>1 DEF Executes, Accepted
      <4> QED BY <1>2, <4>1 DEF Applies, Operation, ActivateSignal, TransitionPending, CloseTrack,
                ApplyManagement
    <3>2. CASE ~Allowed(c)
      <4>1. UNCHANGED ledgerVars /\ Redundant(c)
        BY <3>2 DEF Executes, Accepted
      <4>2. Duplicate(c.key, c.operation)
        <5>1. c.operation # "create_signal"
          BY <1>2 DEF Operation
        <5> QED BY <1>2, <4>1, <5>1, Zenon DEF Redundant
      <4> QED BY <4>1, <4>2 DEF ledgerVars, tradeVars, Duplicate
    <3> QED BY <3>1, <3>2
  <2>2. PICK r : r = Receipt(c.key, c.operation)
    OBVIOUS
  <2>3. Evidence(r)' /\ r.dedupe_key = c.key /\ r.operation = c.operation
    BY <1>0, <2>1, <2>2 DEF ReceiptsKept, Receipt
  <2>4. c.key.signal_id = c.signal_id /\ c.signal_id \in SignalId
    BY <1>2, KeyNamesCommand, CommandShape
  <2>5. c.operation \in {"activate_signal", "transition_pending"} => status'[c.signal_id] # "PENDING"
    BY <2>3, <2>4 DEF Evidence
  <2>6. c.operation = "close_track" => ~TrackActive(c.signal_id, c.data.variant)'
    <3> SUFFICES ASSUME c.operation = "close_track" PROVE ~TrackActive(c.signal_id, c.data.variant)'
      OBVIOUS
    <3>1. c.key.action = c.data.variant /\ c.data.variant \in Variant
      BY CommandShape DEF Keyed, CommandKey
    <3>2. outcome'[c.signal_id][c.data.variant] # Null
      BY <2>3, <2>4, <3>1 DEF Evidence
    <3> QED BY <1>0, <2>4, <3>1, <3>2, Zenon DEF ClosedTracksHaveOutcomes, TrackActive
  <2>7. c.operation = "apply_management_decision" => DecidedOn(c.signal_id, c.at)'
    <3> SUFFICES ASSUME c.operation = "apply_management_decision" PROVE DecidedOn(c.signal_id, c.at)'
      OBVIOUS
    <3>1. c.key = ManagementKey(c.signal_id, c.at) /\ DecisionExists(c.key)'
      BY <2>3 DEF Evidence, Keyed, ManagementKey
    <3> QED BY <3>1 DEF DecidedOn
  <2> QED BY <1>2, <2>5, <2>6, <2>7 DEF Succeeded, Operation
<1>3. CASE c.operation = "advance_checkpoint"
  <2>1. c.key \in CheckpointKey
    BY <1>3, CommandShape
  <2>2. CASE AdvanceAllowed(c.key, c.at)
    <3>1. AdvanceCheckpoint(c.key, c.at)
      BY <1>3, <2>2 DEF Executes, Accepted, Allowed, Applies
    <3>2. checkpoint'[c.key] = c.at
      BY <1>0, <2>1, <3>1 DEF AdvanceCheckpoint, TypeOK
    <3>3. c.at # Null
      BY CommandShape, NullAssumption DEF WideColumns
    <3> QED BY <1>1, <1>3, <3>2, <3>3 DEF Succeeded, Operation
  <2>3. CASE ~AdvanceAllowed(c.key, c.at)
    <3>1. checkpoint' = checkpoint
      BY <1>3, <2>3 DEF Executes, Accepted, Allowed, ledgerVars
    <3>2. checkpoint[c.key] # Null /\ ~(c.at > checkpoint[c.key])
      BY <2>3 DEF AdvanceAllowed
    <3>3. checkpoint[c.key] \in Int
      BY <1>3, <3>2
    <3> QED BY <1>1, <1>3, <3>1, <3>2, <3>3 DEF Succeeded, Operation
  <2> QED BY <2>2, <2>3
<1>4. CASE c.operation \notin Operation \cup {"advance_checkpoint"}
  BY <1>4 DEF Succeeded, Operation
<1> QED BY <1>2, <1>3, <1>4

----------------------------------------------------------------------------
(* What the rest of a list waits for. *)

\* A command and what is sent of it.
Likened(b, c) ==
    /\ b.operation = c.operation /\ b.signal_id = c.signal_id /\ b.at = c.at
    /\ b.operation = "close_track" => b.data.variant = c.data.variant

Sequel(c) == \A s \in Created : s \in Created' /\ Books(s)' /\ Steady(s) /\ Moved(s, c)

\* What a pending command waits for outlasts every other command, and a command
\* that succeeded need not be waited for.
LEMMA PendingKept ==
    ASSUME WideColumns, EngineInv, LedgerReplays, NEW c, Sequel(c),
           NEW d \in EngineCommand, NEW earlier, NEW rest, Pending(d, earlier),
           \A b \in earlier : b \in rest \/ (Succeeded(c) /\ Likened(b, c))
    PROVE  Pending(d, rest)'
<1> HIDE DEF EngineCommand
<1>1. CASE d.operation \notin Moves
  BY <1>1 DEF Pending, Moves, Operation
<1>2. CASE d.operation \in Moves
  <2>1. PICK s, i : s = d.signal_id /\ i = d.at
    OBVIOUS
  <2>2. PICK l : l = Resolved(s)
    OBVIOUS
  <2>3. Placed(d)
    BY <1>2 DEF Pending
  <2>4. s \in Created /\ Due(s) <= i /\ i < clock /\ i <= l + 1 /\ i \in Int
    BY <2>1, <2>2, <2>3, CommandShape DEF Placed
  <2>5. s \in Created' /\ Steady(s) /\ Moved(s, c) /\ Books(s) /\ Books(s)'
    BY <2>4 DEF Sequel, LedgerReplays
  <2>6. CheckpointsKept(s) /\ ManagedKept(s)
    BY <2>5 DEF Books
  <2>7. Due(s) \in Nat /\ clock \in Int /\ l \in Int
    BY <2>2, <2>4, <2>6, ResolvedIs
  <2>8. /\ Due(s)' = Due(s) /\ Entered(s, i)' = Entered(s, i) /\ Exited(s, i)' = Exited(s, i)
        /\ \A n \in Int : n = i - 1 => ReplayTo(s, n)' = ReplayTo(s, n)
    BY <2>4, <2>5, <2>6, <2>7, KeptStates
  <2>9. PICK n \in Int : n = i - 1
    BY <2>4
  <2>10. ReplayTo(s, n)' = ReplayTo(s, n)
    BY <2>8, <2>9
  <2>11. clock' \in Int /\ clock' >= clock /\ terms'[s] = terms[s] /\ Candle(i)' = Candle(i)
    BY <2>4, <2>5, <2>7 DEF Steady
  <2>12. Resolved(s)' \in {l, l + 1}
    BY <2>2, <2>5 DEF Moved
  <2>13. Placed(d)'
    BY <2>1, <2>4, <2>5, <2>7, <2>8, <2>11, <2>12 DEF Placed
  <2>14. OpeningDue(d) => OpeningDue(d)'
    BY <2>1, <2>8, <2>9, <2>10, <2>11 DEF OpeningDue
  <2>15. i = Resolved(s)' + 1 => i = l + 1 /\ Resolved(s)' = l
    BY <2>4, <2>7, <2>12
  <2>16. Resolved(s)' = l /\ Settled(s) => Settled(s)'
    BY <2>2, <2>5 DEF Moved
  <2>17. CloseDue(d) => CloseDue(d)'
    <3> SUFFICES ASSUME CloseDue(d) PROVE CloseDue(d)'
      OBVIOUS
    <3>1. i = Resolved(s)' + 1 => Settled(s)'
      BY <2>1, <2>2, <2>15, <2>16 DEF CloseDue
    <3>2. /\ IsOpen(Entered(s, i)', d.data.variant) /\ ~IsOpen(Exited(s, i)', d.data.variant)
          /\ d.data.closing = Exited(s, i)'.outcome[d.data.variant]
      BY <2>1, <2>8 DEF CloseDue
    <3> QED BY <2>1, <3>1, <3>2 DEF CloseDue, IsOpen
  <2>18. DecisionDue(d) => DecisionDue(d)'
    <3> SUFFICES ASSUME DecisionDue(d) PROVE DecisionDue(d)'
      OBVIOUS
    <3>1. i <= l /\ IsOpen(Exited(s, i), "MANAGED") /\ d.data = Deciding(s, i)
      BY <2>1, <2>2 DEF DecisionDue
    <3>2. i <= Resolved(s)'
      BY <2>4, <2>7, <2>12, <3>1
    <3>3. Deciding(s, i)' = Deciding(s, i)
      BY <2>8, <2>11, Zenon DEF Deciding
    <3>4. IsOpen(Exited(s, i), "MANAGED")'
      BY <2>8, <3>1 DEF IsOpen
    <3> QED BY <2>1, <3>1, <3>2, <3>3, <3>4 DEF DecisionDue
  <2>19. LifecycleMarkDue(d, earlier) => LifecycleMarkDue(d, rest)'
    <3> SUFFICES ASSUME LifecycleMarkDue(d, earlier) PROVE LifecycleMarkDue(d, rest)'
      OBVIOUS
    <3>1. d.key = LifecycleCheckpoint(s)
      BY <2>1 DEF LifecycleMarkDue
    <3>2. ASSUME i = Resolved(s)' + 1
          PROVE  /\ Settled(s)' /\ UnderWay(s, i)'
                 /\ \A v \in Variant : TrackActive(s, v)' /\ ~IsOpen(Exited(s, i), v)' =>
                       CloseIn(rest, s, v, i)
                 /\ TrackActive(s, "MANAGED")' => NextManagedOf(s)' >= i
      <4>1. /\ i = l + 1 /\ Resolved(s)' = Resolved(s) /\ i = Resolved(s) + 1
        BY <2>2, <2>15, <3>2
      <4>2. /\ Settled(s) /\ UnderWay(s, i)
            /\ \A v \in Variant : TrackActive(s, v) /\ ~IsOpen(Exited(s, i), v) =>
                  CloseIn(earlier, s, v, i)
            /\ TrackActive(s, "MANAGED") => NextManagedOf(s) >= i
        BY <2>1, <4>1 DEF LifecycleMarkDue
      <4>3. /\ Settled(s)' /\ UnderWay(s, Resolved(s) + 1)'
            /\ \A v \in Variant : TrackActive(s, v)' => TrackActive(s, v)
        BY <2>4, <2>5, <4>1, <4>2 DEF Moved
      <4>4. UnderWay(s, i)'
        <5>1. UnderWay(s, Resolved(s) + 1)' <=> UnderWay(s, i)'
          BY <4>1, Zenon
        <5> QED BY <4>3, <5>1
      <4>5. ASSUME NEW v \in Variant, TrackActive(s, v)', ~IsOpen(Exited(s, i), v)'
            PROVE  CloseIn(rest, s, v, i)
        <5>1. TrackActive(s, v) /\ ~IsOpen(Exited(s, i), v)
          BY <2>8, <4>3, <4>5 DEF IsOpen
        <5>2. PICK b \in earlier : b.operation = "close_track" /\ b.signal_id = s /\ b.at = i
                                   /\ b.data.variant = v
          BY <4>2, <5>1 DEF CloseIn
        <5>3. b \in rest
          BY <4>5, <5>2 DEF Likened, Succeeded
        <5> QED BY <5>2, <5>3 DEF CloseIn
      <4>6. TrackActive(s, "MANAGED")' => NextManagedOf(s)' >= i
        <5> SUFFICES ASSUME TrackActive(s, "MANAGED")' PROVE NextManagedOf(s)' >= i
          OBVIOUS
        <5>1. TrackActive(s, "MANAGED")
          BY <4>3 DEF Variant
        <5>2. NextManagedOf(s)' >= NextManagedOf(s)
          BY <2>5, <5>1 DEF Moved
        <5>3. NextManagedOf(s) \in Int
          BY <2>2, <2>6, <2>7, <5>1 DEF ManagedKept
        <5>4. NextManagedOf(s)' \in Int
          BY <2>2, <2>5, <2>7, <2>12 DEF Books, ManagedKept
        <5> QED BY <2>4, <4>2, <5>1, <5>2, <5>3, <5>4
      <4> QED BY <4>3, <4>4, <4>5, <4>6
    <3> QED BY <2>1, <3>1, <3>2 DEF LifecycleMarkDue
  <2>20. ManagementMarkDue(d, earlier) => ManagementMarkDue(d, rest)'
    <3> SUFFICES ASSUME ManagementMarkDue(d, earlier) PROVE ManagementMarkDue(d, rest)'
      OBVIOUS
    <3>1. /\ d.key = ManagementCheckpoint(s) /\ i <= l
          /\ DecidedOn(s, i) \/ DecisionIn(earlier, s, i)
      BY <2>1, <2>2 DEF ManagementMarkDue
    <3>2. i <= Resolved(s)'
      BY <2>4, <2>7, <2>12, <3>1
    <3>3. DecidedOn(s, i)' \/ DecisionIn(rest, s, i)
      <4>1. CASE DecidedOn(s, i)
        BY <2>5, <4>1 DEF Moved
      <4>2. CASE DecisionIn(earlier, s, i)
        <5>1. PICK b \in earlier : b.operation = "apply_management_decision" /\ b.signal_id = s
                                   /\ b.at = i
          BY <4>2 DEF DecisionIn
        <5> QED BY <5>1 DEF DecisionIn, Likened, Succeeded
      <4> QED BY <3>1, <4>1, <4>2
    <3> QED BY <2>1, <3>1, <3>2, <3>3 DEF ManagementMarkDue
  <2> QED BY <1>2, <2>13, <2>14, <2>17, <2>18, <2>19, <2>20 DEF Pending
<1> QED BY <1>1, <1>2

----------------------------------------------------------------------------
(* What a run relies on between its steps. *)

\* No command of the signal is still out that could touch the candle.
LateBefore(s, q) ==
    \A c \in late : c.operation \in Moves /\ c.signal_id = s =>
        c.at <= q /\ (c.operation = "apply_management_decision" => c.at < q)

\* Between the two halves of a candle: the entry is booked, or about to be.
ExitWaits(s, q, todo) ==
    /\ Due(s) <= q /\ q \in {Resolved(s), Resolved(s) + 1}
    /\ ~DecidedOn(s, q)
    /\ LateBefore(s, q)
    /\ q = Resolved(s) + 1 => Settled(s) /\ (TrackActive(s, "MANAGED") => NextManagedOf(s) >= q)
    /\ todo # <<>> => /\ Len(todo) = 1
                      /\ Head(todo).operation \in {"activate_signal", "transition_pending"}
                      /\ Head(todo).signal_id = s /\ Head(todo).at = q
    /\ UnderWay(s, q) \/ (todo # <<>> /\ q = Resolved(s) + 1)

Awaits(list, key, i) ==
    /\ \A n \in 1..Len(list) : list[n].operation # "allocate_signal_id"
    /\ \E n \in 1..Len(list) :
          list[n].operation = "advance_checkpoint" /\ list[n].key = key /\ list[n].at = i

\* The candle is resolved, or its checkpoint is on the list.
ManageWaits(s, q, todo) == q <= Resolved(s) \/ Awaits(todo, LifecycleCheckpoint(s), q)

WindowStart(upto) == IF upto > Window THEN upto - Window ELSE 0

\* The next candle does not leave one out.
EntryWaits(s, q, upto, todo) ==
    /\ q <= Resolved(s) + 1 \/ q = WindowStart(upto)
    /\ TrackActive(s, "MANAGED") =>
          q <= NextManagedOf(s) \/ q <= Resolved(s) \/ Awaits(todo, ManagementCheckpoint(s), q - 1)

\* Where the next managed candle lies.
LEMMA NextManagedIs ==
    ASSUME EngineInv, NEW s \in Created, Books(s), TrackActive(s, "MANAGED")
    PROVE  /\ NextManagedOf(s) \in Int /\ Resolved(s) \in Int
           /\ NextManagedOf(s) \in {Resolved(s), Resolved(s) + 1}
BY ResolvedIs DEF Books, ManagedKept

\* What the second half of a candle relies on outlasts a late command.
LEMMA ExitWaitsKept ==
    ASSUME WideColumns, EngineInv, LedgerReplays, NEW c, Sequel(c), NEW s \in Created, NEW q \in Int,
           NEW todo, ExitWaits(s, q, todo), q < clock, late' \subseteq late,
           c.operation \in Moves /\ c.signal_id = s =>
              c.at \in Int /\ c.at <= q /\ (c.operation = "apply_management_decision" => c.at < q)
    PROVE  ExitWaits(s, q, todo)'
<1>1. Books(s) /\ Books(s)' /\ s \in Created' /\ Steady(s) /\ Moved(s, c)
  BY DEF LedgerReplays, Sequel
<1>2. CheckpointsKept(s)
  BY <1>1 DEF Books
<1>3. PICK l : l = Resolved(s)
  OBVIOUS
<1>4. Due(s) \in Nat /\ clock \in Int /\ l \in Int
  BY <1>2, <1>3, ResolvedIs
<1>5. /\ Due(s) <= q /\ q \in {l, l + 1} /\ ~DecidedOn(s, q) /\ LateBefore(s, q)
      /\ q = l + 1 => Settled(s) /\ (TrackActive(s, "MANAGED") => NextManagedOf(s) >= q)
      /\ UnderWay(s, q) \/ (todo # <<>> /\ q = l + 1)
  BY <1>3 DEF ExitWaits
<1>6. /\ Due(s)' = Due(s) /\ Entered(s, q)' = Entered(s, q) /\ Exited(s, q)' = Exited(s, q)
  BY <1>1, <1>2, <1>4, <1>5, KeptStates
<1>7. Resolved(s)' = l \/ (Resolved(s)' = q /\ q = l + 1 /\ UnderWay(s, q)')
  <2>1. Resolved(s)' # l => /\ c.operation = "advance_checkpoint" /\ c.signal_id = s
                            /\ c.at = l + 1 /\ UnderWay(s, c.at)' /\ Resolved(s)' = l + 1
    BY <1>1, <1>3 DEF Moved
  <2>2. Resolved(s)' # l => q = l + 1 /\ c.at = q
    BY <1>4, <1>5, <2>1 DEF Moves
  <2> QED BY <2>1, <2>2
<1>8. q \in {Resolved(s)', Resolved(s)' + 1}
  BY <1>5, <1>7
<1>9. ~DecidedOn(s, q)'
  <2>1. DecidedOn(s, q)' => c.operation = "apply_management_decision" /\ c.signal_id = s /\ c.at = q
    BY <1>1, <1>5 DEF Moved
  <2> QED BY <2>1 DEF Moves, Operation
<1>10. LateBefore(s, q)'
  BY <1>5 DEF LateBefore
<1>11. q = Resolved(s)' + 1 => /\ Settled(s)'
                               /\ TrackActive(s, "MANAGED")' => NextManagedOf(s)' >= q
  <2> SUFFICES ASSUME q = Resolved(s)' + 1
               PROVE  Settled(s)' /\ (TrackActive(s, "MANAGED")' => NextManagedOf(s)' >= q)
    OBVIOUS
  <2>1. Resolved(s)' = l /\ q = l + 1
    BY <1>4, <1>7
  <2>2. Settled(s)'
    BY <1>1, <1>3, <1>5, <2>1 DEF Moved
  <2>3. ASSUME TrackActive(s, "MANAGED")' PROVE NextManagedOf(s)' >= q
    <3>1. NextManagedOf(s)' \in Int
      BY <1>1, <1>4, <2>1, <2>3 DEF Books, ManagedKept
    <3>2. CASE TrackActive(s, "MANAGED")
      <4>1. NextManagedOf(s)' >= NextManagedOf(s)
        BY <1>1, <2>3, <3>2 DEF Moved
      <4> QED BY <1>1, <1>5, <2>1, <3>1, <3>2, <4>1, NextManagedIs
    <3>3. CASE ~TrackActive(s, "MANAGED")
      <4>1. NextManagedOf(s)' = l + 1
        BY <1>1, <1>3, <2>3, <3>3 DEF Moved
      <4> QED BY <2>1, <3>1, <4>1
    <3> QED BY <3>2, <3>3
  <2> QED BY <2>2, <2>3
<1>12. UnderWay(s, q)' \/ (todo # <<>> /\ q = Resolved(s)' + 1)
  <2>1. CASE Resolved(s)' # l
    BY <1>7, <2>1
  <2>2. CASE Resolved(s)' = l /\ ~UnderWay(s, q)
    BY <1>5, <2>2
  <2>3. CASE Resolved(s)' = l /\ UnderWay(s, q) /\ q = l + 1
    <3>1. UnderWay(s, Resolved(s) + 1)'
      BY <1>1, <1>3, <1>5, <2>3 DEF Moved
    <3>2. UnderWay(s, Resolved(s) + 1)' <=> UnderWay(s, q)'
      <4>1. Resolved(s)' + 1 = q
        BY <2>3
      <4> QED BY <4>1, Zenon
    <3> QED BY <3>1, <3>2
  <2>4. CASE UnderWay(s, q) /\ q = l
    <3>1. c.operation \in Operation /\ c.signal_id = s =>
             /\ c.at # l + 1
             /\ ~(c.operation = "apply_management_decision" /\ c.at = l)
      BY <1>4, <2>4 DEF Moves
    <3>2. RowsStay(s)
      BY <1>1, <1>3, <3>1 DEF Moved
    <3> QED BY <1>6, <2>4, <3>2 DEF UnderWay, RowsStay
  <2> QED BY <1>5, <2>1, <2>2, <2>3, <2>4
<1>13. todo # <<>> => /\ Len(todo) = 1
                      /\ Head(todo).operation \in {"activate_signal", "transition_pending"}
                      /\ Head(todo).signal_id = s /\ Head(todo).at = q
  BY DEF ExitWaits
<1> QED BY <1>5, <1>6, <1>8, <1>9, <1>10, <1>11, <1>12, <1>13 DEF ExitWaits

\* Once its entry was booked, the candle is under way.
LEMMA EntryBooked ==
    ASSUME WideColumns, EngineInv, LedgerReplays, NEW c, Sequel(c), NEW s \in Created, NEW q \in Int,
           NEW todo, ExitWaits(s, q, todo), q < clock, late' \subseteq late, todo # <<>>,
           c.operation \in {"activate_signal", "transition_pending"}, c.signal_id = s, c.at = q,
           OpeningDue(c), Succeeded(c)
    PROVE  ExitWaits(s, q, <<>>)'
<1>1. ExitWaits(s, q, todo)'
  BY ExitWaitsKept DEF Moves
<1>2. Books(s) /\ Books(s)' /\ Steady(s)
  BY DEF LedgerReplays, Sequel
<1>3. CASE UnderWay(s, q)'
  BY <1>1, <1>3 DEF ExitWaits
<1>4. CASE ~UnderWay(s, q)'
  <2>1. q = Resolved(s)' + 1 /\ Settled(s)'
    BY <1>1, <1>4 DEF ExitWaits
  <2>2. /\ Due(s) \in Nat /\ clock \in Int /\ Due(s) <= q
    BY <1>2, ResolvedIs DEF ExitWaits, Books
  <2>3. PICK n \in Int : n = q - 1
    OBVIOUS
  <2>4. ReplayTo(s, n)' = ReplayTo(s, n)
    <3>1. -1 <= n /\ n < clock
      BY <2>2, <2>3
    <3> QED BY <1>2, <3>1, KeptStates DEF Books
  <2>5. Resolved(s)' = n
    <3>1. checkpoint'[LifecycleCheckpoint(s)] # Null => Resolved(s)' \in Int
      <4>1. CheckpointsKept(s)'
        BY <1>2 DEF Books
      <4> QED BY <4>1, EngineAssumption DEF CheckpointsKept, Resolved, Minute
    <3>2. checkpoint'[LifecycleCheckpoint(s)] = Null => Resolved(s)' \in Int
      <4>1. Due(s)' = Due(s)
        BY <1>2, KeptStates DEF Books
      <4>2. checkpoint'[LifecycleCheckpoint(s)] = Null => Resolved(s)' = Due(s)' - 1
        BY DEF Resolved, Due
      <4> QED BY <2>2, <4>1, <4>2
    <3> QED BY <2>1, <2>3, <3>1, <3>2
  <2>6. ReplayTo(s, n).status = "PENDING"
    BY <2>3 DEF OpeningDue
  <2>7. status'[s] # "PENDING"
    BY DEF Succeeded
  <2>8. ~Holds(s, ReplayTo(s, Resolved(s)))'
    <3>1. ReplayTo(s, Resolved(s))' = ReplayTo(s, n)'
      BY <2>5, Zenon
    <3> QED BY <2>4, <2>6, <2>7, <3>1 DEF Holds
  <2>9. UnderWay(s, Resolved(s) + 1)'
    BY <1>2, <2>1, <2>8 DEF Books, RowsReplayed
  <2>10. UnderWay(s, Resolved(s) + 1)' <=> UnderWay(s, q)'
    BY <2>1, Zenon
  <2> QED BY <1>4, <2>9, <2>10
<1> QED BY <1>3, <1>4

\* What management relies on outlasts any command.
LEMMA ManageWaitsKept ==
    ASSUME WideColumns, EngineInv, LedgerReplays, NEW c, Sequel(c), NEW s \in Created, NEW q \in Int,
           NEW todo, ManageWaits(s, q, todo)
    PROVE  ManageWaits(s, q, todo)'
<1>1. Books(s) /\ Resolved(s)' \in {Resolved(s), Resolved(s) + 1}
  BY DEF LedgerReplays, Sequel, Moved
<1>2. Resolved(s) \in Int
  BY <1>1, ResolvedIs DEF Books
<1>3. q <= Resolved(s) => q <= Resolved(s)'
  BY <1>1, <1>2
<1> QED BY <1>3 DEF ManageWaits, Awaits, LifecycleCheckpoint

InWindow == \A s \in Created : TrackActive(s, "MANAGED") => FirstCollected <= NextManagedOf(s)

\* What the next candle relies on outlasts any command, in reach of the window.
LEMMA EntryWaitsKept ==
    ASSUME WideColumns, EngineInv, EngineInv', LedgerReplays, NEW c, Sequel(c), InWindow',
           NEW s \in Created, NEW q \in Int, NEW upto \in Int, upto <= clock, NEW todo,
           EntryWaits(s, q, upto, todo)
    PROVE  EntryWaits(s, q, upto, todo)'
<1>1. /\ Books(s) /\ Books(s)' /\ s \in Created' /\ Steady(s) /\ Moved(s, c)
      /\ Resolved(s)' \in {Resolved(s), Resolved(s) + 1}
  BY DEF LedgerReplays, Sequel, Moved
<1>2. PICK l : l = Resolved(s)
  OBVIOUS
<1>3. l \in Int /\ clock \in Int /\ clock' \in Int /\ clock' >= clock
  BY <1>1, <1>2, ResolvedIs DEF Books, Steady
<1>4. q <= l => q <= Resolved(s)'
  BY <1>1, <1>2, <1>3
<1>5. q <= l + 1 \/ q = WindowStart(upto)
  BY <1>2 DEF EntryWaits
<1>6. ASSUME TrackActive(s, "MANAGED")'
      PROVE  \/ q <= NextManagedOf(s)' \/ q <= Resolved(s)'
             \/ Awaits(todo, ManagementCheckpoint(s), q - 1)
  <2>1. NextManagedOf(s)' \in Int
    BY <1>1, <1>2, <1>3, <1>6 DEF Books, ManagedKept
  <2>2. CASE TrackActive(s, "MANAGED")
    <3>1. NextManagedOf(s)' >= NextManagedOf(s)
      BY <1>1, <1>6, <2>2 DEF Moved
    <3>2. NextManagedOf(s) \in Int
      BY <1>1, <2>2, NextManagedIs
    <3>3. q <= NextManagedOf(s) => q <= NextManagedOf(s)'
      BY <2>1, <3>1, <3>2
    <3> QED BY <1>2, <1>4, <2>2, <3>3 DEF EntryWaits
  <2>3. CASE ~TrackActive(s, "MANAGED")
    <3>1. NextManagedOf(s)' = l + 1
      BY <1>1, <1>2, <1>6, <2>3 DEF Moved
    <3>2. CASE q <= l + 1
      BY <3>1, <3>2
    <3>3. CASE q = WindowStart(upto)
      <4>1. FirstCollected' <= NextManagedOf(s)'
        BY <1>1, <1>6 DEF InWindow
      <4>2. FirstCollected' = IF clock' > Window THEN clock' - Window ELSE 0
        BY DEF FirstCollected
      <4> QED BY <1>3, <2>1, <3>3, <4>1, <4>2, EngineAssumption DEF WindowStart
    <3> QED BY <1>5, <3>2, <3>3
  <2> QED BY <2>2, <2>3
<1>7. q <= Resolved(s)' + 1 \/ q = WindowStart(upto)
  BY <1>1, <1>2, <1>3, <1>5
<1> QED BY <1>6, <1>7 DEF EntryWaits, Awaits, ManagementCheckpoint, WindowStart

\* A mark that was waited for is set once the list is through with it.
LEMMA Awaited ==
    ASSUME WideColumns, NEW list \in Seq(EngineCommand), list # <<>>, NEW c, Succeeded(c),
           NEW b \in EngineCommand, b = Head(list), c = Prepared(b), NEW key, NEW i \in Int,
           Awaits(list, key, i)
    PROVE  \/ Awaits(Tail(list), key, i)
           \/ checkpoint'[key] # Null /\ checkpoint'[key] \in Int /\ checkpoint'[key] >= i
<1>1. /\ Len(list) \in Nat /\ Tail(list) \in Seq(EngineCommand) /\ Len(Tail(list)) = Len(list) - 1
      /\ \A n \in 1..Len(Tail(list)) : Tail(list)[n] = list[n + 1]
      /\ b = list[1]
  <2> HIDE DEF EngineCommand
  <2> QED BY HeadTailProperties, LenProperties
<1> DEFINE rest == Tail(list)
<1> HIDE DEF EngineCommand, rest
<1>2. /\ Len(rest) = Len(list) - 1 /\ Len(list) \in Nat
      /\ \A n \in 1..Len(rest) : rest[n] = list[n + 1]
  BY <1>1 DEF rest
<1>3. \A n \in 1..Len(rest) : rest[n].operation # "allocate_signal_id"
  <2> TAKE n \in 1..Len(rest)
  <2>1. n + 1 \in 1..Len(list)
    BY <1>2
  <2> QED BY <1>2, <2>1 DEF Awaits
<1>4. PICK n \in 1..Len(list) :
         list[n].operation = "advance_checkpoint" /\ list[n].key = key /\ list[n].at = i
  BY DEF Awaits
<1>5. CASE n = 1
  <2>1. b.operation = "advance_checkpoint" /\ b.key = key /\ b.at = i
    BY <1>1, <1>4, <1>5
  <2>2. c = b
    BY <2>1, PreparedType
  <2> QED BY <2>1, <2>2 DEF Succeeded
<1>6. CASE n # 1
  <2>1. PICK m \in 1..Len(rest) : m + 1 = n
    <3>1. n - 1 \in 1..Len(rest) /\ (n - 1) + 1 = n
      BY <1>2, <1>6
    <3> QED BY <3>1
  <2>2. rest[m] = list[n]
    BY <1>2, <2>1
  <2>3. Awaits(rest, key, i)
    BY <1>3, <1>4, <2>1, <2>2 DEF Awaits
  <2> QED BY <2>3 DEF rest
<1> QED BY <1>5, <1>6

----------------------------------------------------------------------------
(* Lists and runs across a step. *)

PendingList(list) == \A n \in 1..Len(list) : Pending(list[n], {list[m] : m \in 1..(n - 1)})

PendingLate == \A c \in late : Pending(c, {})

RunWaits(r) ==
    /\ r.phase = "exit" => ExitWaits(Head(r.queue), r.cursor, r.todo)
    /\ r.phase = "manage" => ManageWaits(Head(r.queue), r.cursor, r.todo)
    /\ r.phase = "entry" /\ r.queue # <<>> =>
          EntryWaits(Head(r.queue), r.cursor, r.upto, r.todo)

ReplayInv == LedgerReplays /\ PendingLate /\ PendingList(run.todo) /\ RunWaits(run)

\* The signal a run is at exists, and its window ends in the past.
LEMMA RunSignal ==
    ASSUME EngineInv, NEW r, RunOK(r), r.queue # <<>>
    PROVE  /\ Head(r.queue) \in Created
           /\ r.cursor \in Int /\ r.upto \in Int /\ clock \in Int
           /\ 0 <= r.cursor /\ r.cursor <= r.upto /\ r.upto <= clock
<1>1. r.queue \in Seq(SignalId) /\ r.cursor \in Minute /\ r.upto \in Minute
  BY DEF RunOK, RunType
<1>2. Len(r.queue) \in Nat \ {0} /\ Head(r.queue) = r.queue[1] /\ Head(r.queue) \in SignalId
  BY <1>1, HeadTailProperties, EmptySeq
<1>3. Head(r.queue) \in Created
  BY <1>2 DEF RunOK, QueueCreated, Created
<1> QED BY <1>1, <1>3, EngineAssumption DEF RunOK, RunPlace, Minute, EngineInv, EngineTypeOK, MarketType

\* A run keeps what it waits for while a late command is executed.
LEMMA WaitsCarried ==
    ASSUME WideColumns, EngineInv, EngineInv', LedgerReplays, NEW c, Sequel(c), InWindow',
           c \in late \/ c.operation \notin Moves, late' \subseteq late,
           NEW r, RunOK(r), RunWaits(r)
    PROVE  RunWaits(r)'
<1> PICK s, q, upto, todo : s = Head(r.queue) /\ q = r.cursor /\ upto = r.upto /\ todo = r.todo
  OBVIOUS
<1>1. r.queue # <<>> => s \in Created /\ q \in Int /\ upto \in Int /\ clock \in Int /\ q <= upto
                        /\ upto <= clock
  BY RunSignal
<1>2. r.phase \in {"exit", "manage"} => r.queue # <<>> /\ q < clock
  BY <1>1 DEF RunOK, RunPlace
<1>3. c \in late => c.at \in Int
  BY CommandShape DEF EngineInv, EngineTypeOK
<1>4. r.phase = "exit" => ExitWaits(s, q, todo)'
  <2> SUFFICES ASSUME r.phase = "exit" PROVE ExitWaits(s, q, todo)'
    OBVIOUS
  <2>1. ExitWaits(s, q, todo) /\ s \in Created /\ q \in Int /\ q < clock
    BY <1>1, <1>2 DEF RunWaits
  <2>2. c.operation \in Moves /\ c.signal_id = s =>
           c.at \in Int /\ c.at <= q /\ (c.operation = "apply_management_decision" => c.at < q)
    BY <1>3, <2>1 DEF ExitWaits, LateBefore
  <2> QED BY <2>1, <2>2, ExitWaitsKept
<1>5. r.phase = "manage" => ManageWaits(s, q, todo)'
  BY <1>1, <1>2, ManageWaitsKept DEF RunWaits
<1>6. r.phase = "entry" /\ r.queue # <<>> => EntryWaits(s, q, upto, todo)'
  BY <1>1, EntryWaitsKept DEF RunWaits
<1> QED BY <1>4, <1>5, <1>6 DEF RunWaits

\* A list of commands keeps what it waits for while another command is executed.
LEMMA ListCarried ==
    ASSUME WideColumns, EngineInv, LedgerReplays, NEW c, Sequel(c),
           NEW list \in Seq(EngineCommand), PendingList(list)
    PROVE  PendingList(list)'
<1> HIDE DEF EngineCommand
<1> SUFFICES ASSUME NEW n \in 1..Len(list)
             PROVE  Pending(list[n], {list[m] : m \in 1..(n - 1)})'
  BY DEF PendingList
<1>1. list[n] \in EngineCommand
  BY ElementOfSeq
<1>2. PICK d, earlier : d = list[n] /\ earlier = {list[m] : m \in 1..(n - 1)}
  OBVIOUS
<1>3. Pending(d, earlier) /\ d \in EngineCommand
  BY <1>1, <1>2 DEF PendingList
<1>4. Pending(d, earlier)'
  BY <1>3, PendingKept
<1> QED BY <1>2, <1>4

\* And so do the commands that were given up on.
LEMMA LateCarried ==
    ASSUME WideColumns, EngineInv, LedgerReplays, NEW c, Sequel(c), PendingLate,
           late' \subseteq late
    PROVE  PendingLate'
<1> HIDE DEF EngineCommand
<1> SUFFICES ASSUME NEW d \in late PROVE Pending(d, {})'
  BY DEF PendingLate
<1>1. d \in EngineCommand /\ Pending(d, {})
  BY DEF PendingLate, EngineInv, EngineTypeOK
<1> QED BY <1>1, PendingKept

\* The head of a list has nothing before it.
LEMMA HeadPending ==
    ASSUME WideColumns, NEW list \in Seq(EngineCommand), list # <<>>, PendingList(list)
    PROVE  /\ Head(list) \in EngineCommand /\ Pending(Head(list), {})
           /\ Prepared(Head(list)) \in EngineCommand /\ Pending(Prepared(Head(list)), {})
           /\ Likened(Head(list), Prepared(Head(list)))
<1> HIDE DEF EngineCommand
<1>1. Len(list) \in Nat \ {0} /\ Head(list) = list[1] /\ Head(list) \in EngineCommand
  BY HeadTailProperties, EmptySeq, LenProperties
<1>2. Pending(Head(list), {})
  <2>1. 1 \in 1..Len(list) /\ {list[m] : m \in 1..(1 - 1)} = {}
    BY <1>1
  <2> QED BY <1>1, <2>1 DEF PendingList
<1>3. PICK b : b = Head(list)
  OBVIOUS
<1>4. PICK p : p = Prepared(b)
  OBVIOUS
<1>5. p \in EngineCommand /\ p.operation = b.operation /\ (b.operation # "close_track" => p = b)
  BY <1>1, <1>3, <1>4, PreparedType
<1>6. b.operation = "close_track" =>
         /\ p.signal_id = b.signal_id /\ p.at = b.at
         /\ p.data.variant = b.data.variant /\ p.data.closing = b.data.closing
  <2> SUFFICES ASSUME b.operation = "close_track"
               PROVE  /\ p.signal_id = b.signal_id /\ p.at = b.at
                      /\ p.data.variant = b.data.variant /\ p.data.closing = b.data.closing
    OBVIOUS
  <2>1. b \in SignalCommand("close_track", DedupeKey,
                            [variant : Variant, closing : Closing, payload : Payload])
    BY <1>1, <1>3 DEF EngineCommand, SignalCommand
  <2> DEFINE counted == Samples \cup {<<b.signal_id, b.data.variant>>}
  <2>2. p = [b EXCEPT !.data.payload = counted]
    BY <1>4 DEF Prepared
  <2> HIDE DEF counted
  <2> QED BY <2>1, <2>2 DEF SignalCommand
<1>7. Pending(p, {})
  <2>1. CASE b.operation # "close_track"
    BY <1>2, <1>3, <1>5, <2>1
  <2>2. CASE b.operation = "close_track"
    <3>1. Placed(b) /\ CloseDue(b)
      BY <1>2, <1>3, <2>2 DEF Pending, Moves, Operation
    <3>2. Placed(p)
      BY <1>6, <2>2, <3>1 DEF Placed
    <3>3. CloseDue(p)
      BY <1>6, <2>2, <3>1 DEF CloseDue
    <3> QED BY <1>5, <2>2, <3>2, <3>3 DEF Pending, Moves, Operation
  <2> QED BY <2>1, <2>2
<1>8. Likened(b, p)
  BY <1>5, <1>6 DEF Likened
<1> QED BY <1>1, <1>2, <1>3, <1>4, <1>5, <1>7, <1>8

\* What is left of a list once its head succeeded.
LEMMA TailCarried ==
    ASSUME WideColumns, EngineInv, LedgerReplays, NEW list \in Seq(EngineCommand), list # <<>>,
           PendingList(list), NEW c, c = Prepared(Head(list)), Sequel(c), Succeeded(c)
    PROVE  PendingList(Tail(list))'
<1> HIDE DEF EngineCommand
<1>1. /\ Len(list) \in Nat /\ Tail(list) \in Seq(EngineCommand) /\ Len(Tail(list)) = Len(list) - 1
      /\ \A n \in 1..Len(Tail(list)) : Tail(list)[n] = list[n + 1]
      /\ Head(list) = list[1]
  BY HeadTailProperties, LenProperties
<1>2. PICK rest : rest = Tail(list)
  OBVIOUS
<1> SUFFICES ASSUME NEW n \in 1..Len(rest)
             PROVE  Pending(rest[n], {rest[m] : m \in 1..(n - 1)})'
  BY <1>2 DEF PendingList
<1>3. n + 1 \in 1..Len(list) /\ rest[n] = list[n + 1] /\ n \in Int
  BY <1>1, <1>2
<1>4. PICK d, earlier, left : /\ d = list[n + 1]
                              /\ earlier = {list[m] : m \in 1..n}
                              /\ left = {rest[m] : m \in 1..(n - 1)}
  OBVIOUS
<1>5. d \in EngineCommand
  BY <1>3, <1>4, ElementOfSeq
<1>6. Pending(d, earlier)
  <2>1. {list[m] : m \in 1..((n + 1) - 1)} = {list[m] : m \in 1..n}
    BY <1>3
  <2> QED BY <1>3, <1>4, <2>1 DEF PendingList
<1>7. \A b \in earlier : b \in left \/ (Succeeded(c) /\ Likened(b, c))
  <2> SUFFICES ASSUME NEW m \in 1..n PROVE list[m] \in left \/ (Succeeded(c) /\ Likened(list[m], c))
    BY <1>4
  <2>1. CASE m = 1
    <3>1. Likened(Head(list), c)
      BY HeadPending
    <3> QED BY <1>1, <2>1, <3>1
  <2>2. CASE m # 1
    <3>1. m - 1 \in 1..(n - 1) /\ m - 1 \in 1..Len(rest) /\ (m - 1) + 1 = m
      BY <1>3, <2>2
    <3>2. rest[m - 1] = list[m]
      BY <1>1, <1>2, <3>1
    <3> QED BY <1>4, <3>1, <3>2
  <2> QED BY <2>1, <2>2
<1>8. Pending(d, left)'
  BY <1>5, <1>6, <1>7, PendingKept
<1> QED BY <1>3, <1>4, <1>8

\* When no command is executed, nothing that was waited for is lost.
LEMMA RestSequel ==
    ASSUME WideColumns, EngineInv, LedgerReplays, UNCHANGED ledgerVars,
           clock' \in Int, clock' >= clock, \A i \in 0..(clock - 1) : Candle(i)' = Candle(i), NEW c
    PROVE  LedgerReplays' /\ Sequel(c)
<1>1. Created' = Created
  BY DEF Created, ledgerVars, tradeVars
<1>2. ASSUME NEW s \in Created PROVE Books(s)' /\ Steady(s) /\ Moved(s, c)
  <2>1. Books(s) /\ Steady(s)
    BY DEF LedgerReplays, Steady, ledgerVars, tradeVars
  <2>2. Untouched(s)
    <3>1. RowsStay(s)
      BY DEF RowsStay, ledgerVars, tradeVars
    <3>2. DecisionsStay(s) /\ MarksStay(s)
      BY DecisionsSame, MarksSame DEF ledgerVars, tradeVars
    <3> QED BY <3>1, <3>2 DEF Untouched
  <2> QED BY <2>1, <2>2, UntouchedBooks, UntouchedMoved
<1>3. \A s \in SignalId : AbsentKept(s)'
  <2> TAKE s \in SignalId
  <2>1. \A i : DecidedOn(s, i)' <=> DecidedOn(s, i)
    BY DecisionsSame DEF DecisionsStay, ledgerVars, tradeVars
  <2> QED BY <2>1 DEF LedgerReplays, AbsentKept, ledgerVars, tradeVars
<1>4. ReceiptsKept'
  <2>1. UNCHANGED tradeVars
    BY DEF ledgerVars
  <2> QED BY <2>1, Zenon DEF LedgerReplays, tradeVars, ReceiptsKept, Evidence, DecisionExists
<1> QED BY <1>1, <1>2, <1>3, <1>4 DEF LedgerReplays, Sequel

----------------------------------------------------------------------------
(* What a run plans. *)

\* A command with more before it waits for no more.
LEMMA PendingGrows ==
    ASSUME NEW c, NEW few, NEW many, few \subseteq many, Pending(c, few)
    PROVE  Pending(c, many)
<1>1. LifecycleMarkDue(c, few) => LifecycleMarkDue(c, many)
  BY DEF LifecycleMarkDue, CloseIn
<1>2. ManagementMarkDue(c, few) => ManagementMarkDue(c, many)
  BY DEF ManagementMarkDue, DecisionIn
<1> QED BY <1>1, <1>2 DEF Pending

\* A list behind which another one waits.
LEMMA PendingJoin ==
    ASSUME NEW a \in Seq(EngineCommand), NEW b \in Seq(EngineCommand), PendingList(a),
           \A n \in 1..Len(b) : Pending(b[n], {a[m] : m \in 1..Len(a)})
    PROVE  PendingList(a \o b)
<1> HIDE DEF EngineCommand
<1> DEFINE ab == a \o b
<1>1. /\ Len(a) \in Nat /\ Len(b) \in Nat /\ Len(ab) = Len(a) + Len(b)
      /\ \A n \in 1..Len(a) : ab[n] = a[n]
      /\ \A n \in (Len(a) + 1)..(Len(a) + Len(b)) : ab[n] = b[n - Len(a)]
  BY ConcatProperties, LenProperties
<1> HIDE DEF ab
<1> SUFFICES ASSUME NEW n \in 1..Len(ab) PROVE Pending(ab[n], {ab[m] : m \in 1..(n - 1)})
  BY DEF PendingList, ab
<1>2. CASE n <= Len(a)
  <2>1. n \in 1..Len(a) /\ \A m \in 1..(n - 1) : ab[m] = a[m]
    BY <1>1, <1>2
  <2>2. {ab[m] : m \in 1..(n - 1)} = {a[m] : m \in 1..(n - 1)}
    BY <2>1
  <2> QED BY <1>1, <2>1, <2>2 DEF PendingList
<1>3. CASE n > Len(a)
  <2>1. n - Len(a) \in 1..Len(b) /\ ab[n] = b[n - Len(a)]
    BY <1>1, <1>3
  <2>2. {a[m] : m \in 1..Len(a)} \subseteq {ab[m] : m \in 1..(n - 1)}
    <3>1. \A m \in 1..Len(a) : m \in 1..(n - 1) /\ ab[m] = a[m]
      BY <1>1, <1>3
    <3> QED BY <3>1
  <2> QED BY <2>1, <2>2, PendingGrows, ZenonT(40)
<1> QED BY <1>1, <1>2, <1>3

\* An empty list waits for nothing and promises nothing.
LEMMA NothingPending == PendingList(<<>>) /\ ~\E key, i : Awaits(<<>>, key, i)
<1>1. Len(<<>>) = 0 /\ ~\E n \in 1..0 : TRUE
  BY EmptySeq
<1> QED BY <1>1 DEF PendingList, Awaits

\* The messages of a candle wait for nothing here.
LEMMA QuietPending ==
    ASSUME NEW c, c.operation \notin Moves, NEW earlier
    PROVE  Pending(c, earlier)
BY DEF Pending, Moves, Operation

\* The next lifecycle candle follows the one resolved last.
LEMMA NextIs ==
    ASSUME EngineInv, LedgerReplays, run.queue # <<>>
    PROVE  NextLifecycle = Resolved(Signal) + 1 /\ NextManaged = NextManagedOf(Signal)
<1>1. Signal \in Created
  BY MonitoredSignal DEF Created
<1>2. CheckpointsKept(Signal) /\ FirstSafeOpen(Terms) \in Nat
  BY <1>1, MonitoredSignal, FirstSafeOpenNat DEF LedgerReplays, Books
<1>3. NextLifecycle = Resolved(Signal) + 1
  <2>1. CASE checkpoint[LifecycleCheckpoint(Signal)] = Null
    BY <1>2, <2>1 DEF NextLifecycle, Resolved, Terms
  <2>2. CASE checkpoint[LifecycleCheckpoint(Signal)] # Null
    BY <2>2 DEF NextLifecycle, Resolved
  <2> QED BY <2>1, <2>2
<1> QED BY <1>3 DEF NextManaged, NextManagedOf

\* The first half of a candle.
LEMMA EntryPlanned ==
    ASSUME WideColumns, EngineInv, LedgerReplays, PendingLate, RunWaits(run),
           run.phase = "entry", run.todo = <<>>, AtCandle, ~Incomplete, run.cursor = NextLifecycle
    PROVE  PendingList(EntryCommands) /\ ExitWaits(Signal, run.cursor, EntryCommands)
<1> PICK s, q, l : s = Signal /\ q = run.cursor /\ l = Resolved(s)
  OBVIOUS
<1>0. /\ run.queue # <<>> /\ s \in Created /\ Books(s) /\ q \in Minute /\ Terms = terms[s]
      /\ EntryWaits(s, q, run.upto, <<>>)
  BY MonitoredSignal DEF AtCandle, Created, LedgerReplays, EngineInv, EngineTypeOK, RunType, Terms,
     RunWaits, Signal
<1>1. /\ MarketType /\ terms[s] \in EngineTerm /\ l \in Int /\ CheckpointsKept(s) /\ Due(s) \in Nat
      /\ clock \in Int /\ Due(s) - 1 <= l
  BY <1>0, ResolvedIs DEF Books
<1>2. q \in Int /\ q = l + 1 /\ q < clock /\ Due(s) <= q
  <2>1. q \in Int /\ q < clock
    BY <1>0, Bounds DEF Incomplete, EngineInv
  <2> QED BY <1>0, <1>1, <2>1, NextIs
<1>3. ~DecidedOn(s, q)
  BY <1>0, <1>1, <1>2 DEF Books, DecisionsKept
<1>4. LateBefore(s, q)
  <2> SUFFICES ASSUME NEW c \in late, c.operation \in Moves, c.signal_id = s
               PROVE  c.at <= q /\ (c.operation = "apply_management_decision" => c.at < q)
    BY DEF LateBefore
  <2>1. Pending(c, {}) /\ c.at \in Int
    BY CommandShape DEF PendingLate, EngineInv, EngineTypeOK
  <2>2. c.at <= l + 1
    BY <2>1 DEF Pending, Placed
  <2>3. c.operation = "apply_management_decision" => c.at <= l
    BY <2>1 DEF Pending, DecisionDue
  <2> QED BY <1>1, <1>2, <2>1, <2>2, <2>3
<1>5. TrackActive(s, "MANAGED") => NextManagedOf(s) \in Int /\ NextManagedOf(s) >= q
                                   /\ NextManagedOf(s) = l + 1
  <2> SUFFICES ASSUME TrackActive(s, "MANAGED")
               PROVE  NextManagedOf(s) \in Int /\ NextManagedOf(s) >= q /\ NextManagedOf(s) = l + 1
    OBVIOUS
  <2>1. NextManagedOf(s) \in {l, l + 1}
    BY <1>0, NextManagedIs
  <2>2. q <= NextManagedOf(s) \/ q <= l
    BY <1>0, NothingPending DEF EntryWaits
  <2> QED BY <1>1, <1>2, <2>1, <2>2
<1>6. Settled(s)
  <2> SUFFICES ASSUME ~Settled(s) PROVE FALSE
    OBVIOUS
  <2>1. TrackActive(s, "MANAGED")
    BY <1>0, Unsettled
  <2> QED BY <1>0, <1>5, <2>1 DEF Books, ManagedKept
<1>7. PICK p \in Int : p = q - 1 /\ p = l
  BY <1>1, <1>2
<1>8. /\ ReplayTo(s, p).status # "PENDING" => Entered(s, q) = ReplayTo(s, p)
      /\ Entered(s, q).status = "PENDING" => Entered(s, q) = ReplayTo(s, p)
      /\ ReplayTo(s, p).status = "PENDING" =>
            /\ MustExpire(terms[s], q) => Entered(s, q).status = "EXPIRED"
            /\ ~MustExpire(terms[s], q) /\ TouchesEntry(terms[s], Candle(q)) =>
                  Entered(s, q).status = "ACTIVE"
            /\ ~MustExpire(terms[s], q) /\ ~TouchesEntry(terms[s], Candle(q)) =>
                  Entered(s, q) = ReplayTo(s, p)
  BY <1>1, <1>2, <1>7, EnteredIs
<1>9. Holds(s, ReplayTo(s, p)) \/ UnderWay(s, q)
  BY <1>0, <1>2, <1>6, <1>7, SettledRows
<1>10. status[s] = "PENDING" => ReplayTo(s, p).status = "PENDING"
  <2> SUFFICES ASSUME status[s] = "PENDING" PROVE ReplayTo(s, p).status = "PENDING"
    OBVIOUS
  <2>1. Exited(s, q).status = "PENDING" => Entered(s, q).status = "PENDING"
    BY <1>1, <1>2, ExitedIs
  <2> QED BY <1>8, <1>9, <2>1 DEF Holds, UnderWay
<1>11. ~Expires /\ ~Activates => UnderWay(s, q)
  <2> SUFFICES ASSUME ~Expires, ~Activates, Holds(s, ReplayTo(s, p)) PROVE UnderWay(s, q)
    BY <1>9
  <2>1. Entered(s, q) = ReplayTo(s, p)
    BY <1>0, <1>8 DEF Expires, Activates, Holds
  <2> QED BY <1>0, <1>1, <1>2, <1>6, <1>7, <2>1, Begins
<1>12. ASSUME NEW c, c.operation \in {"activate_signal", "transition_pending"}, c.signal_id = s,
              c.at = q, OpeningDue(c)
       PROVE  PendingList(<<c>>) /\ ExitWaits(s, q, <<c>>)
  <2>1. Placed(c)
    BY <1>0, <1>1, <1>2, <1>12 DEF Placed
  <2>2. Pending(c, {})
    BY <1>12, <2>1 DEF Pending
  <2>3. Len(<<c>>) = 1 /\ <<c>>[1] = c /\ Head(<<c>>) = c /\ <<c>> # <<>>
    OBVIOUS
  <2>4. PendingList(<<c>>)
    <3>1. \A n \in 1..1 : n = 1
      OBVIOUS
    <3>2. {<<c>>[m] : m \in 1..(1 - 1)} = {}
      OBVIOUS
    <3> QED BY <2>2, <2>3, <3>1, <3>2 DEF PendingList
  <2>5. ExitWaits(s, q, <<c>>)
    BY <1>2, <1>3, <1>4, <1>5, <1>6, <1>12, <2>3 DEF ExitWaits
  <2> QED BY <2>4, <2>5
<1>13. CASE Expires
  <2>1. PICK c : c = ExpireCommand
    OBVIOUS
  <2>2. c.operation = "transition_pending" /\ c.signal_id = s /\ c.at = q
    BY <2>1 DEF ExpireCommand, Command
  <2>3. OpeningDue(c)
    BY <1>0, <1>7, <1>8, <1>10, <1>13, <2>2 DEF Expires, OpeningDue
  <2>4. EntryCommands = <<c>>
    BY <1>13, <2>1 DEF EntryCommands
  <2> QED BY <1>12, <2>2, <2>3, <2>4
<1>14. CASE ~Expires /\ Activates
  <2>1. PICK c : c = ActivateCommand
    OBVIOUS
  <2>2. c.operation = "activate_signal" /\ c.signal_id = s /\ c.at = q
        /\ c.data.fill_price = ConservativeEntry(terms[s])
    BY <1>0, <2>1 DEF ActivateCommand, Command
  <2>3. OpeningDue(c)
    BY <1>0, <1>7, <1>8, <1>10, <1>14, <2>2 DEF Expires, Activates, OpeningDue
  <2>4. EntryCommands = <<c>>
    BY <1>14, <2>1 DEF EntryCommands
  <2> QED BY <1>12, <2>2, <2>3, <2>4
<1>15. CASE ~Expires /\ ~Activates
  <2>1. EntryCommands = <<>>
    BY <1>15 DEF EntryCommands
  <2>2. ExitWaits(s, q, <<>>)
    BY <1>2, <1>3, <1>4, <1>5, <1>6, <1>11, <1>15 DEF ExitWaits
  <2> QED BY <2>1, <2>2, NothingPending
<1> QED BY <1>13, <1>14, <1>15

\* What a run sees of a candle that is under way is what the replay sees.
LEMMA SeenUnderWay ==
    ASSUME WideColumns, EngineInv, LedgerReplays, NEW s \in Created, NEW q \in Int, Due(s) <= q,
           q < clock, UnderWay(s, q), NEW v \in Variant, TrackActive(s, v)
    PROVE  /\ IsOpen(Entered(s, q), v) /\ track[s][v] = Entered(s, q).track[v]
           /\ trade[s] = Entered(s, q).trade
<1>1. MarketType /\ terms[s] \in EngineTerm
  BY ResolvedIs DEF LedgerReplays, Books
<1>2. track[s][v] # Null /\ track[s][v].track_status = "ACTIVE"
  BY DEF TrackActive
<1>3. /\ trade[s] = Entered(s, q).trade
      /\ track[s][v] = Entered(s, q).track[v] \/ track[s][v] = Exited(s, q).track[v]
  BY DEF UnderWay
<1>4. track[s][v] = Exited(s, q).track[v] => Exited(s, q).track[v] = Entered(s, q).track[v]
  BY <1>1, <1>2, ExitedIs DEF IsOpen
<1> QED BY <1>2, <1>3, <1>4 DEF IsOpen

\* A list and what follows it.
LEMMA JoinIs ==
    ASSUME NEW S, NEW a \in Seq(S), NEW b \in Seq(S), NEW ab, ab = a \o b
    PROVE  /\ ab \in Seq(S)
           /\ Len(a) \in Nat /\ Len(b) \in Nat /\ Len(ab) = Len(a) + Len(b)
           /\ \A n \in 1..Len(a) : ab[n] = a[n]
           /\ \A n \in 1..Len(b) : ab[Len(a) + n] = b[n]
<1>1. Len(a) \in Nat /\ Len(b) \in Nat
  BY LenProperties
<1>2. /\ ab \in Seq(S) /\ Len(ab) = Len(a) + Len(b)
      /\ \A n \in 1..(Len(a) + Len(b)) : ab[n] = IF n <= Len(a) THEN a[n] ELSE b[n - Len(a)]
  BY ConcatProperties
<1>3. ASSUME NEW n \in 1..Len(b) PROVE ab[Len(a) + n] = b[n]
  <2>1. /\ Len(a) + n \in 1..(Len(a) + Len(b)) /\ ~(Len(a) + n <= Len(a))
        /\ (Len(a) + n) - Len(a) = n
    BY <1>1
  <2>2. ab[Len(a) + n] = b[(Len(a) + n) - Len(a)]
    BY <1>2, <2>1
  <2> QED BY <2>1, <2>2
<1>4. ASSUME NEW n \in 1..Len(a) PROVE ab[n] = a[n]
  BY <1>1, <1>2
<1> QED BY <1>1, <1>2, <1>3, <1>4

\* The second half: the closes, the checkpoint, the messages.
LEMMA ExitPlanned ==
    ASSUME WideColumns, EngineInv, LedgerReplays, RunWaits(run),
           run.phase = "exit", run.todo = <<>>
    PROVE  PendingList(ExitCommands) /\ ManageWaits(Signal, run.cursor, ExitCommands)
<1> PICK s, q, l : s = Signal /\ q = run.cursor /\ l = Resolved(s)
  OBVIOUS
<1>0. /\ run.queue # <<>> /\ run.cursor < clock /\ run.cursor \in Int /\ s \in Created
      /\ Books(s) /\ Terms = terms[s] /\ ExitWaits(s, q, <<>>)
  BY MonitoredSignal, Bounds DEF Created, LedgerReplays, EngineInv, EngineTypeOK, RunPlace, Terms,
     RunWaits, Signal
<1>1. /\ MarketType /\ terms[s] \in EngineTerm /\ l \in Int /\ Due(s) \in Nat /\ clock \in Int
  BY <1>0, ResolvedIs DEF Books
<1>2. /\ q \in Int /\ q \in {l, l + 1} /\ q < clock /\ Due(s) <= q /\ UnderWay(s, q)
      /\ q = l + 1 => Settled(s) /\ (TrackActive(s, "MANAGED") => NextManagedOf(s) >= q)
  BY <1>0 DEF ExitWaits
<1>3. ASSUME NEW v \in Variant, TrackActive(s, v)
      PROVE  /\ IsOpen(Entered(s, q), v) /\ track[s][v] = Entered(s, q).track[v]
             /\ trade[s] = Entered(s, q).trade
             /\ Leaves(v) <=> ~IsOpen(Exited(s, q), v)
  <2>1. /\ IsOpen(Entered(s, q), v) /\ track[s][v] = Entered(s, q).track[v]
        /\ trade[s] = Entered(s, q).trade
    BY <1>0, <1>2, <1>3, SeenUnderWay
  <2>2. IsOpen(Exited(s, q), v) <=>
           ~Exits(terms[s], Entered(s, q).track[v], Candle(q), Entered(s, q).trade.activated_at = q)
    BY <1>1, <1>2, <2>1, ExitedIs
  <2>3. Leaves(v) <=>
           Exits(terms[s], Entered(s, q).track[v], Candle(q), Entered(s, q).trade.activated_at = q)
    BY <1>0, <1>3, <2>1, Zenon DEF Leaves, OnActivationCandle
  <2> QED BY <2>1, <2>2, <2>3
<1>4. ASSUME NEW v \in Variant, Leaves(v), NEW c, c = CloseCommand(v)
      PROVE  /\ c.operation = "close_track" /\ c.signal_id = s /\ c.at = q /\ c.data.variant = v
             /\ Pending(c, {})
  <2>1. TrackActive(s, v)
    BY <1>4 DEF Leaves
  <2>2. /\ IsOpen(Entered(s, q), v) /\ track[s][v] = Entered(s, q).track[v]
        /\ trade[s] = Entered(s, q).trade /\ ~IsOpen(Exited(s, q), v)
    BY <1>3, <1>4, <2>1
  <2>3. PICK closing : closing = ExitClosing(Terms, trade[Signal].fill_price, track[Signal][v],
                                             Candle(run.cursor), OnActivationCandle)
    OBVIOUS
  <2>4. closing = Exited(s, q).outcome[v]
    <3>1. Exited(s, q).outcome[v] =
             ExitClosing(terms[s], Entered(s, q).trade.fill_price, Entered(s, q).track[v],
                         Candle(q), Entered(s, q).trade.activated_at = q)
      BY <1>1, <1>2, <2>2, ExitedIs
    <3> QED BY <1>0, <2>2, <2>3, <3>1, Zenon DEF OnActivationCandle
  <2>5. c = Command("close_track", s, q, CommandKey(s, q, v, closing.close_event),
                    [variant |-> v, closing |-> closing, payload |-> {}])
    BY <1>4, <2>3, Zenon DEF CloseCommand
  <2>6. /\ c.operation = "close_track" /\ c.signal_id = s /\ c.at = q /\ c.data.variant = v
        /\ c.data.closing = closing
    BY <2>5 DEF Command
  <2>7. Placed(c)
    BY <1>0, <1>1, <1>2, <2>6 DEF Placed
  <2>8. CloseDue(c)
    BY <1>2, <2>2, <2>4, <2>6 DEF CloseDue
  <2> QED BY <2>6, <2>7, <2>8 DEF Pending
<1>5. PICK mark : mark = Command("advance_checkpoint", s, q, LifecycleCheckpoint(s), Null)
  OBVIOUS
<1>6. /\ mark.operation = "advance_checkpoint" /\ mark.signal_id = s /\ mark.at = q
      /\ mark.key = LifecycleCheckpoint(s) /\ MarkResolved = <<mark>>
  BY <1>5 DEF Command, MarkResolved
<1> PICK closes, tell : closes = CloseCommands /\ tell = AnnounceCandle
  OBVIOUS
<1>7. /\ closes \in Seq(EngineCommand) /\ <<mark>> \in Seq(EngineCommand)
      /\ tell \in Seq(EngineCommand) /\ ExitCommands = (closes \o <<mark>>) \o tell
  BY <1>0, <1>6, ExitCommandsType DEF ExitCommands
<1> HIDE DEF EngineCommand
<1>8. /\ Len(Exiting) \in Nat /\ Len(closes) = Len(Exiting)
      /\ \A n \in 1..Len(Exiting) : /\ Exiting[n] \in Variant /\ Leaves(Exiting[n])
                                    /\ closes[n] = CloseCommand(Exiting[n])
  <2>1. Len(Exiting) \in Nat /\ \A n \in 1..Len(Exiting) : Exiting[n] \in Variant
    BY ExitingIs, LenProperties, ElementOfSeq
  <2> QED BY <2>1, ExitingIs DEF CloseCommands
<1>9. PendingList(closes)
  BY <1>4, <1>8, PendingGrows DEF PendingList
<1>10. \A v \in Variant : TrackActive(s, v) /\ ~IsOpen(Exited(s, q), v) =>
          CloseIn({closes[m] : m \in 1..Len(closes)}, s, v, q)
  <2> SUFFICES ASSUME NEW v \in Variant, TrackActive(s, v), ~IsOpen(Exited(s, q), v)
               PROVE  CloseIn({closes[m] : m \in 1..Len(closes)}, s, v, q)
    OBVIOUS
  <2>1. Leaves(v)
    BY <1>3
  <2>2. PICK n \in 1..Len(Exiting) : Exiting[n] = v
    BY <2>1, ExitingIs
  <2>3. PICK c : c = CloseCommand(v)
    OBVIOUS
  <2>4. c = closes[n] /\ n \in 1..Len(closes)
    BY <1>8, <2>2, <2>3
  <2>5. c.operation = "close_track" /\ c.signal_id = s /\ c.at = q /\ c.data.variant = v
    BY <1>4, <2>1, <2>3
  <2> QED BY <2>4, <2>5 DEF CloseIn
<1>11. Pending(mark, {closes[m] : m \in 1..Len(closes)})
  <2>1. Placed(mark)
    BY <1>0, <1>1, <1>2, <1>6 DEF Placed
  <2>2. LifecycleMarkDue(mark, {closes[m] : m \in 1..Len(closes)})
    BY <1>2, <1>6, <1>10 DEF LifecycleMarkDue
  <2> QED BY <1>6, <2>1, <2>2 DEF Pending, Operation
<1>12. closes \o <<mark>> \in Seq(EngineCommand) /\ PendingList(closes \o <<mark>>)
  <2>1. \A n \in 1..Len(<<mark>>) : <<mark>>[n] = mark
    OBVIOUS
  <2>2. \A n \in 1..Len(<<mark>>) : Pending(<<mark>>[n], {closes[m] : m \in 1..Len(closes)})
    BY <1>11, <2>1
  <2> QED BY <1>7, <1>9, <2>2, PendingJoin, ConcatProperties
<1>13. \A n \in 1..Len(tell) : tell[n].operation = "enqueue_notification"
  <2>1. run.actions \in Seq(Announcement) /\ ExitActions \in Seq(Announcement)
    BY ExitActionsType DEF EngineInv, EngineTypeOK, RunType
  <2>2. run.actions \o ExitActions \in Seq(Announcement)
    BY <2>1, ConcatProperties
  <2>3. tell = Enqueues(Signal, run.cursor, run.actions \o ExitActions)
    BY DEF AnnounceCandle
  <2>4. PICK acts : acts = run.actions \o ExitActions
    OBVIOUS
  <2>5. acts \in Seq(Announcement) /\ tell = Enqueues(Signal, run.cursor, acts)
    BY <2>2, <2>3, <2>4
  <2>6. PICK sid, i : sid = Signal /\ i = run.cursor
    OBVIOUS
  <2>7. /\ Len(tell) = Len(acts)
        /\ \A n \in 1..Len(acts) : tell[n].operation = "enqueue_notification"
    BY <2>5, <2>6, EnqueuesAre
  <2> QED BY <2>7
<1>14. PendingList(ExitCommands)
  <2>1. \A n \in 1..Len(tell) : Pending(tell[n], {(closes \o <<mark>>)[m] : m \in 1..Len(closes \o <<mark>>)})
    <3>1. \A n \in 1..Len(tell) : tell[n].operation \notin Moves
      BY <1>13 DEF Moves, Operation
    <3> QED BY <3>1, QuietPending
  <2> QED BY <1>7, <1>12, <2>1, PendingJoin
<1>15. Awaits(ExitCommands, LifecycleCheckpoint(s), q)
  <2>1. PICK first : first = closes \o <<mark>>
    OBVIOUS
  <2>2. /\ first \in Seq(EngineCommand) /\ Len(closes) \in Nat /\ Len(first) = Len(closes) + 1
        /\ \A n \in 1..Len(closes) : first[n] = closes[n]
        /\ first[Len(closes) + 1] = mark
    <3>1. PICK one : one = <<mark>>
      OBVIOUS
    <3>2. one \in Seq(EngineCommand) /\ Len(one) = 1 /\ one[1] = mark
      BY <1>7, <3>1
    <3>3. first = closes \o one
      BY <2>1, <3>1
    <3>4. /\ first \in Seq(EngineCommand)
          /\ Len(closes) \in Nat /\ Len(one) \in Nat /\ Len(first) = Len(closes) + Len(one)
          /\ \A n \in 1..Len(closes) : first[n] = closes[n]
          /\ \A n \in 1..Len(one) : first[Len(closes) + n] = one[n]
      <4>1. closes \in Seq(EngineCommand) /\ one \in Seq(EngineCommand)
        BY <1>7, <3>2
      <4> QED BY <4>1, <3>3, JoinIs
    <3>5. first[Len(closes) + 1] = one[1]
      BY <3>2, <3>4
    <3> QED BY <3>2, <3>4, <3>5
  <2>3. PICK all : all = first \o tell
    OBVIOUS
  <2>4. /\ Len(tell) \in Nat /\ Len(all) = Len(first) + Len(tell)
        /\ \A n \in 1..Len(first) : all[n] = first[n]
        /\ \A n \in 1..Len(tell) : all[Len(first) + n] = tell[n]
    <3>1. first \in Seq(EngineCommand) /\ tell \in Seq(EngineCommand)
      BY <1>7, <2>2
    <3> QED BY <2>3, <3>1, JoinIs
  <2>5. \A n \in 1..Len(closes) : closes[n].operation = "close_track"
    BY <1>4, <1>8
  <2>6. \A n \in 1..Len(first) : first[n].operation # "allocate_signal_id"
    <3> TAKE n \in 1..Len(first)
    <3>1. CASE n \in 1..Len(closes)
      BY <2>2, <2>5, <3>1
    <3>2. CASE n = Len(closes) + 1
      BY <1>6, <2>2, <3>2
    <3> QED BY <2>2, <3>1, <3>2
  <2>7. \A n \in 1..Len(all) : all[n].operation # "allocate_signal_id"
    <3> TAKE n \in 1..Len(all)
    <3>1. CASE n <= Len(first)
      BY <2>2, <2>4, <2>6, <3>1
    <3>2. CASE n > Len(first)
      <4>1. n - Len(first) \in 1..Len(tell) /\ Len(first) + (n - Len(first)) = n
        BY <2>2, <2>4, <3>2
      <4>2. all[n] = tell[n - Len(first)]
        BY <2>4, <4>1
      <4> QED BY <1>13, <4>1, <4>2
    <3> QED BY <2>2, <2>4, <3>1, <3>2
  <2>8. Len(first) \in 1..Len(all) /\ all[Len(first)] = mark
    BY <2>2, <2>4
  <2>9. Awaits(all, LifecycleCheckpoint(s), q)
    BY <1>6, <2>7, <2>8 DEF Awaits
  <2> QED BY <1>7, <2>1, <2>3, <2>9
<1> QED BY <1>14, <1>15 DEF ManageWaits

\* The candle a run manages is resolved.
LEMMA ManagingPlace ==
    ASSUME EngineInv, LedgerReplays, RunWaits(run), run.phase = "manage", run.todo = <<>>
    PROVE  /\ run.queue # <<>> /\ Signal \in Created /\ Books(Signal) /\ Terms = terms[Signal]
           /\ run.cursor \in Int /\ run.cursor < clock /\ Resolved(Signal) \in Int
           /\ run.cursor <= Resolved(Signal) /\ MarketType /\ terms[Signal] \in EngineTerm
           /\ Due(Signal) \in Nat /\ clock \in Int
           /\ Managing <=> TrackActive(Signal, "MANAGED")
           /\ NextManaged = NextManagedOf(Signal)
<1>1. /\ run.queue # <<>> /\ Signal \in Created /\ Books(Signal) /\ Terms = terms[Signal]
      /\ run.cursor \in Int /\ run.cursor < clock
  BY MonitoredSignal, Bounds DEF Created, LedgerReplays, EngineInv, EngineTypeOK, RunPlace, Terms
<1>2. run.cursor <= Resolved(Signal)
  BY NothingPending DEF RunWaits, ManageWaits, Signal
<1>3. Managing <=> TrackActive(Signal, "MANAGED")
  BY <1>1, RowFacts DEF Managing
<1> QED BY <1>1, <1>2, <1>3, ResolvedIs, NextIs DEF Books

\* A candle that is not the next to be managed is passed over.
LEMMA ManagementSkipped ==
    ASSUME EngineInv, LedgerReplays, RunWaits(run), run.phase = "manage", run.todo = <<>>,
           Managing => run.cursor < NextManaged
    PROVE  EntryWaits(Signal, run.cursor + 1, run.upto, <<>>)
<1> PICK s, q, l : s = Signal /\ q = run.cursor /\ l = Resolved(s)
  OBVIOUS
<1>1. q \in Int /\ l \in Int /\ q <= l /\ s \in Created /\ Books(s)
  BY ManagingPlace
<1>2. TrackActive(s, "MANAGED") => q < NextManagedOf(s) /\ NextManagedOf(s) \in Int
  BY <1>1, ManagingPlace, NextManagedIs
<1>3. PICK n \in Int : n = q + 1
  BY <1>1
<1>4. n <= l + 1 /\ (TrackActive(s, "MANAGED") => n <= NextManagedOf(s))
  BY <1>1, <1>2, <1>3
<1>5. EntryWaits(s, n, run.upto, <<>>)
  BY <1>4 DEF EntryWaits
<1> QED BY <1>3, <1>5

\* The decision of a candle, then its checkpoint, then the message.
LEMMA ManagementPlanned ==
    ASSUME WideColumns, EngineInv, LedgerReplays, RunWaits(run), run.phase = "manage",
           run.todo = <<>>, Managing, run.cursor = NextManaged
    PROVE  /\ PendingList(Decide(run.cursor))
           /\ EntryWaits(Signal, run.cursor + 1, run.upto, Decide(run.cursor))
<1> PICK s, q, l : s = Signal /\ q = run.cursor /\ l = Resolved(s)
  OBVIOUS
<1>0. /\ run.queue # <<>> /\ s \in Created /\ Books(s) /\ Terms = terms[s]
      /\ q \in Int /\ q < clock /\ l \in Int /\ q <= l /\ MarketType /\ terms[s] \in EngineTerm
      /\ Due(s) \in Nat /\ clock \in Int /\ TrackActive(s, "MANAGED") /\ NextManagedOf(s) = q
  BY ManagingPlace
<1>1. q = l /\ Due(s) <= q /\ IsOpen(Exited(s, q), "MANAGED")
  <2>1. NextManagedOf(s) \in {l, l + 1} /\ Due(s) <= NextManagedOf(s)
    BY <1>0 DEF Books, ManagedKept
  <2>2. q = l
    BY <1>0, <2>1
  <2> QED BY <1>0, <2>1, <2>2 DEF Books, ManagedKept
<1>p. PICK k, d, mark, apply, tell :
      /\ k = CommandKey(Signal, run.cursor, "management", "")
      /\ d = Decision(Terms, trade[Signal], track[Signal]["MANAGED"], Candle(run.cursor),
                      OnActivationCandle)
      /\ mark = Command("advance_checkpoint", Signal, run.cursor, ManagementCheckpoint(Signal), Null)
      /\ apply = Command("apply_management_decision", Signal, run.cursor, k, d)
      /\ tell = IF d.changes_managed_result
                THEN Enqueues(Signal, run.cursor, <<DecisionAction(d)>>) ELSE <<>>
  OBVIOUS
<1>2. mark \in EngineCommand /\ apply \in EngineCommand
  BY <1>0, <1>p, PlannedDecisionType
<1>3. Decide(run.cursor) = IF DecisionExists(k) THEN <<mark>> ELSE <<apply, mark>> \o tell
  BY <1>p, Zenon DEF Decide
<1>4. /\ mark.operation = "advance_checkpoint" /\ mark.signal_id = s /\ mark.at = q
      /\ mark.key = ManagementCheckpoint(s)
      /\ apply.operation = "apply_management_decision" /\ apply.signal_id = s /\ apply.at = q
      /\ apply.data = d
  BY <1>p DEF Command
<1>5. DecisionExists(k) <=> DecidedOn(s, q)
  BY <1>p DEF DecidedOn, ManagementKey
<1>6. Placed(mark) /\ Placed(apply)
  BY <1>0, <1>1, <1>4 DEF Placed
<1> PICK n \in Int : n = q + 1
  BY <1>0
<1>7. /\ tell \in Seq(EngineCommand)
      /\ \A m \in 1..Len(tell) : tell[m].operation = "enqueue_notification"
  <2>1. CASE d.changes_managed_result
    <3>1. PICK acts : acts = <<DecisionAction(d)>>
      OBVIOUS
    <3>2. acts \in Seq(Announcement)
      BY <3>1 DEF DecisionAction, Announcement
    <3>3. tell = Enqueues(s, q, acts)
      BY <1>p, <2>1, <3>1
    <3>4. s \in SignalId /\ q \in Minute
      BY <1>0, MonitoredSignal DEF EngineInv, EngineTypeOK, RunType
    <3>5. tell \in Seq(EngineCommand)
      BY <3>2, <3>3, <3>4, EnqueuesType
    <3>6. /\ Len(tell) = Len(acts)
          /\ \A m \in 1..Len(acts) : tell[m].operation = "enqueue_notification"
      BY <3>2, <3>3, EnqueuesAre
    <3> QED BY <3>5, <3>6
  <2>2. CASE ~d.changes_managed_result
    <3>1. tell = <<>>
      BY <1>p, <2>2
    <3>2. Len(<<>>) = 0 /\ <<>> \in Seq(EngineCommand)
      OBVIOUS
    <3> QED BY <3>1, <3>2
  <2> QED BY <2>1, <2>2
<1> HIDE DEF EngineCommand
<1>8. CASE DecidedOn(s, q)
  <2>1. ManagementMarkDue(mark, {})
    BY <1>0, <1>4, <1>8 DEF ManagementMarkDue
  <2>2. Pending(mark, {})
    BY <1>4, <1>6, <2>1 DEF Pending, Operation
  <2>3. PICK one : one = <<mark>>
    OBVIOUS
  <2>4. Len(one) = 1 /\ one[1] = mark
    BY <2>3
  <2>5. PendingList(one)
    <3>1. \A i \in 1..1 : i = 1
      OBVIOUS
    <3>2. {one[i] : i \in 1..(1 - 1)} = {}
      OBVIOUS
    <3> QED BY <2>2, <2>4, <3>1, <3>2 DEF PendingList
  <2>6. Awaits(one, ManagementCheckpoint(s), q)
    BY <1>4, <2>4 DEF Awaits
  <2>7. Decide(run.cursor) = one
    BY <1>3, <1>5, <1>8, <2>3
  <2>8. n <= l + 1 /\ n - 1 = q
    BY <1>0
  <2>9. EntryWaits(s, n, run.upto, one)
    BY <2>6, <2>8 DEF EntryWaits
  <2> QED BY <2>5, <2>7, <2>9
<1>9. CASE ~DecidedOn(s, q)
  <2>1. Holds(s, Exited(s, q))
    BY <1>0, <1>1, <1>9, DecidingPlace, ManagingPlace, ResolvedIs DEF Books
  <2>2. d = Deciding(s, q)
    <3>1. trade[s] = Exited(s, q).trade /\ track[s]["MANAGED"] = Exited(s, q).track["MANAGED"]
      BY <2>1 DEF Holds, Variant
    <3> QED BY <1>0, <1>p, <3>1, Zenon DEF Deciding, OnActivationCandle
  <2>3. DecisionDue(apply)
    BY <1>0, <1>1, <1>4, <2>2 DEF DecisionDue
  <2>4. Pending(apply, {})
    BY <1>4, <1>6, <2>3 DEF Pending, Moves, Operation
  <2>5. Pending(mark, {apply})
    <3>1. ManagementMarkDue(mark, {apply})
      BY <1>0, <1>4 DEF ManagementMarkDue, DecisionIn
    <3> QED BY <1>4, <1>6, <3>1 DEF Pending, Operation
  <2>6. PICK two : two = <<apply, mark>>
    OBVIOUS
  <2>7. two \in Seq(EngineCommand) /\ Len(two) = 2 /\ two[1] = apply /\ two[2] = mark
    BY <1>2, <2>6
  <2>8. PendingList(two)
    <3> SUFFICES ASSUME NEW i \in 1..Len(two)
                 PROVE  Pending(two[i], {two[m] : m \in 1..(i - 1)})
      BY DEF PendingList
    <3>1. CASE i = 1
      <4>1. {two[m] : m \in 1..(i - 1)} = {}
        BY <3>1
      <4> QED BY <2>4, <2>7, <3>1, <4>1
    <3>2. CASE i = 2
      <4>1. {two[m] : m \in 1..(i - 1)} = {apply}
        BY <2>7, <3>2
      <4> QED BY <2>5, <2>7, <3>2, <4>1
    <3> QED BY <2>7, <3>1, <3>2
  <2>9. PICK all : all = two \o tell
    OBVIOUS
  <2>10. PendingList(all)
    <3>1. \A m \in 1..Len(tell) : Pending(tell[m], {two[i] : i \in 1..Len(two)})
      <4>1. \A m \in 1..Len(tell) : tell[m].operation \notin Moves
        BY <1>7 DEF Moves, Operation
      <4> QED BY <4>1, QuietPending
    <3> QED BY <1>7, <2>7, <2>8, <2>9, <3>1, PendingJoin
  <2>11. /\ Len(two) \in Nat /\ Len(tell) \in Nat /\ Len(all) = Len(two) + Len(tell)
         /\ \A i \in 1..Len(two) : all[i] = two[i]
         /\ \A i \in 1..Len(tell) : all[Len(two) + i] = tell[i]
    <3>1. two \in Seq(EngineCommand) /\ tell \in Seq(EngineCommand)
      BY <1>7, <2>7
    <3> QED BY <2>9, <3>1, JoinIs
  <2>12. Awaits(all, ManagementCheckpoint(s), q)
    <3>1. \A i \in 1..Len(all) : all[i].operation # "allocate_signal_id"
      <4> TAKE i \in 1..Len(all)
      <4>1. CASE i = 1
        BY <1>4, <2>7, <2>11, <4>1
      <4>2. CASE i = 2
        BY <1>4, <2>7, <2>11, <4>2
      <4>3. CASE i > 2
        <5>1. i - 2 \in 1..Len(tell) /\ Len(two) + (i - 2) = i
          BY <2>7, <2>11, <4>3
        <5>2. all[i] = tell[i - 2]
          BY <2>11, <5>1
        <5> QED BY <1>7, <5>1, <5>2
      <4> QED BY <2>7, <2>11, <4>1, <4>2, <4>3
    <3>2. 2 \in 1..Len(all) /\ all[2] = mark
      BY <2>7, <2>11
    <3> QED BY <1>4, <3>1, <3>2 DEF Awaits
  <2>13. Decide(run.cursor) = all
    BY <1>3, <1>5, <1>9, <2>6, <2>9
  <2>14. n <= l + 1 /\ n - 1 = q
    BY <1>0
  <2>15. EntryWaits(s, n, run.upto, all)
    BY <2>12, <2>14 DEF EntryWaits
  <2> QED BY <2>10, <2>13, <2>15
<1> QED BY <1>8, <1>9

\* A snapshot may begin where no open trade is left behind it.
LEMMA FirstWaits ==
    ASSUME EngineInv, LedgerReplays, InWindow, NEW s \in Created, NEW upto \in Int, upto <= clock,
           NEW todo
    PROVE  EntryWaits(s, WindowStart(upto), upto, todo)
<1>1. TrackActive(s, "MANAGED") => NextManagedOf(s) \in Int /\ FirstCollected <= NextManagedOf(s)
  BY NextManagedIs DEF InWindow, LedgerReplays
<1>2. clock \in Int /\ FirstCollected = IF clock > Window THEN clock - Window ELSE 0
  BY DEF FirstCollected, EngineInv, EngineTypeOK, MarketType, Minute
<1>3. TrackActive(s, "MANAGED") => WindowStart(upto) <= NextManagedOf(s)
  BY <1>1, <1>2, EngineAssumption DEF WindowStart
<1> QED BY <1>3 DEF EntryWaits

\* A candle before the next one to be resolved is resolved.
LEMMA ResolvedWaits ==
    ASSUME EngineInv, LedgerReplays, run.queue # <<>>, run.cursor < NextLifecycle
    PROVE  ManageWaits(Signal, run.cursor, <<>>)
<1>1. Signal \in Created /\ run.cursor \in Int
  BY MonitoredSignal, Bounds DEF Created, EngineInv
<1>2. Resolved(Signal) \in Int /\ NextLifecycle = Resolved(Signal) + 1
  BY <1>1, ResolvedIs, NextIs DEF LedgerReplays, Books
<1> QED BY <1>1, <1>2 DEF ManageWaits

----------------------------------------------------------------------------
(* A step that executes no command. *)

\* Commands that move no trade wait for nothing.
LEMMA QuietList ==
    ASSUME NEW list, \A n \in 1..Len(list) : list[n].operation \notin Moves
    PROVE  PendingList(list)
BY QuietPending DEF PendingList

\* A run outside the replay relies on nothing.
LEMMA NoWaits ==
    ASSUME NEW r, r.phase \notin {"entry", "exit", "manage"}
    PROVE  RunWaits(r)
BY DEF RunWaits

\* Neither does one that has failed or ended.
LEMMA RestingWaits == /\ PendingList(Failed.todo) /\ RunWaits(Failed)
                      /\ PendingList(Idle.todo) /\ RunWaits(Idle)
<1>1. Failed.todo = <<>> /\ Failed.phase = "record" /\ Idle.todo = <<>> /\ Idle.phase = "idle"
  BY DEF Failed, Idle
<1> QED BY <1>1, NothingPending, NoWaits

\* A new run has nothing to send.
LEMMA StartWaits ==
    ASSUME EngineInv, Start PROVE PendingList(run'.todo) /\ RunWaits(run')
<1> DEFINE idle == Idle
<1>1. RunType(idle) /\ idle.todo = <<>>
  BY RestingRuns DEF EngineInv, Idle
<1>2. run' = [idle EXCEPT !.phase = "load", !.now = clock]
  BY DEF Start
<1> HIDE DEF idle
<1>3. run'.phase = "load" /\ run'.todo = <<>>
  BY <1>1, <1>2 DEF RunType
<1> QED BY <1>3, NothingPending, NoWaits

\* Nor has one that has read the bootstrap.
LEMMA LoadWaits ==
    ASSUME EngineInv, Load PROVE PendingList(run'.todo) /\ RunWaits(run')
<1>1. PICK n, list :
        run' = [run EXCEPT !.phase = "collect",
                           !.paused = paused,
                           !.queue = list,
                           !.last = LastSignalAt,
                           !.active = \E s \in SignalId : status[s] = "ACTIVE"]
  BY DEF Load
<1>2. run'.phase = "collect" /\ run'.todo = <<>>
  BY <1>1 DEF EngineInv, EngineTypeOK, RunType, Load, Planning
<1> QED BY <1>2, NothingPending, NoWaits

\* The snapshot begins where no open trade is left behind it.
LEMMA CollectWaits ==
    ASSUME EngineInv, LedgerReplays, InWindow, Collect
    PROVE  PendingList(run'.todo) /\ RunWaits(run')
<1> PICK r : r = run'
  OBVIOUS
<1>1. RunOK(r)
  BY CollectOK DEF EngineInv
<1>2. /\ r.phase = "entry" /\ r.upto = clock /\ r.cursor = FirstCollected /\ r.todo = <<>>
  BY DEF EngineInv, EngineTypeOK, RunType, Collect, Planning
<1>3. r.cursor = WindowStart(r.upto)
  BY <1>2 DEF FirstCollected, WindowStart
<1>4. r.queue # <<>> => EntryWaits(Head(r.queue), r.cursor, r.upto, r.todo)
  BY <1>1, <1>3, RunSignal, FirstWaits
<1> QED BY <1>2, <1>4, NothingPending DEF RunWaits

\* And so it does for the next signal of the queue.
LEMMA EndSignalWaits ==
    ASSUME EngineInv, LedgerReplays, InWindow, EndSignal
    PROVE  PendingList(run'.todo) /\ RunWaits(run')
<1> PICK r : r = run'
  OBVIOUS
<1>1. RunOK(r)
  BY EndSignalOK
<1> DEFINE first == IF run.upto > Window THEN run.upto - Window ELSE 0
           monitored == run.active \/ TrackActive(Signal, "MANAGED")
<1>2. run' = [run EXCEPT !.active = monitored, !.queue = Tail(run.queue), !.cursor = first]
      /\ run.todo = <<>> /\ run.phase = "entry" /\ RunType(run)
  BY DEF EndSignal, Planning, EngineInv, EngineTypeOK
<1> HIDE DEF first, monitored
<1>3. r.phase = "entry" /\ r.upto = run.upto /\ r.cursor = first /\ r.todo = <<>>
  BY <1>2 DEF RunType
<1>4. r.cursor = WindowStart(r.upto)
  BY <1>3 DEF WindowStart, first
<1>5. r.queue # <<>> => EntryWaits(Head(r.queue), r.cursor, r.upto, r.todo)
  BY <1>1, <1>4, RunSignal, FirstWaits
<1> QED BY <1>3, <1>5, NothingPending DEF RunWaits

\* Planning the first half of a candle.
LEMMA PlanEntryWaits ==
    ASSUME WideColumns, EngineInv, LedgerReplays, PendingLate, RunWaits(run), PlanEntry
    PROVE  PendingList(run'.todo) /\ RunWaits(run')
<1> PICK r : r = run'
  OBVIOUS
<1>0. /\ run.phase = "entry" /\ run.todo = <<>> /\ AtCandle /\ run.queue # <<>> /\ RunType(run)
      /\ EntryCommands \in Seq(EngineCommand) /\ EntryActions \in Seq(Announcement)
  BY EntryPlanType DEF PlanEntry, Planning, AtCandle, EngineInv, EngineTypeOK
<1>1. CASE run' = Failed
  BY <1>1, RestingWaits
<1>2. CASE /\ ~Incomplete /\ run.cursor < NextLifecycle
           /\ run' = [run EXCEPT !.phase = "manage"]
  <2>1. /\ r.phase = "manage" /\ r.queue = run.queue /\ r.cursor = run.cursor /\ r.todo = <<>>
    BY <1>0, <1>2 DEF RunType
  <2>2. ManageWaits(Signal, run.cursor, <<>>)
    BY <1>0, <1>2, ResolvedWaits
  <2>3. RunWaits(r)
    BY <2>1, <2>2 DEF RunWaits, Signal
  <2> QED BY <2>1, <2>3, NothingPending
<1>3. CASE /\ ~Incomplete /\ run.cursor = NextLifecycle
           /\ run' = [run EXCEPT !.phase = "exit", !.actions = EntryActions,
                                 !.todo = EntryCommands]
  <2>0. PICK plan, acts : plan = EntryCommands /\ acts = EntryActions
    OBVIOUS
  <2>1. r = [run EXCEPT !.phase = "exit", !.actions = acts, !.todo = plan]
    BY <1>3, <2>0
  <2>2. /\ r.phase = "exit" /\ r.queue = run.queue /\ r.cursor = run.cursor /\ r.todo = plan
    BY <1>0, <2>1 DEF RunType
  <2>3. PendingList(plan) /\ ExitWaits(Signal, run.cursor, plan)
    BY <1>0, <1>3, <2>0, EntryPlanned
  <2>4. RunWaits(r)
    BY <2>2, <2>3 DEF RunWaits, Signal
  <2> QED BY <2>2, <2>3, <2>4
<1> QED BY <1>1, <1>2, <1>3 DEF PlanEntry

\* Planning the second half of a candle.
LEMMA PlanExitWaits ==
    ASSUME WideColumns, EngineInv, LedgerReplays, RunWaits(run), PlanExit
    PROVE  PendingList(run'.todo) /\ RunWaits(run')
<1> PICK r, plan : r = run' /\ plan = ExitCommands
  OBVIOUS
<1>0. run.phase = "exit" /\ run.todo = <<>> /\ RunType(run)
  BY DEF PlanExit, Planning, EngineInv, EngineTypeOK
<1>1. r = [run EXCEPT !.phase = "manage", !.actions = <<>>, !.todo = plan]
  BY DEF PlanExit
<1>2. r.phase = "manage" /\ r.queue = run.queue /\ r.cursor = run.cursor /\ r.todo = plan
  BY <1>0, <1>1 DEF RunType
<1>3. PendingList(plan) /\ ManageWaits(Signal, run.cursor, plan)
  BY <1>0, ExitPlanned
<1>4. RunWaits(r)
  BY <1>2, <1>3 DEF RunWaits, Signal
<1> QED BY <1>2, <1>3, <1>4

\* Planning the decision about a candle.
LEMMA PlanManagementWaits ==
    ASSUME WideColumns, EngineInv, LedgerReplays, RunWaits(run), PlanManagement
    PROVE  PendingList(run'.todo) /\ RunWaits(run')
<1> PICK r, plan, n : r = run' /\ plan = Decide(run.cursor) /\ n = run.cursor + 1
  OBVIOUS
<1>0. run.phase = "manage" /\ run.todo = <<>> /\ RunType(run)
  BY DEF PlanManagement, Planning, EngineInv, EngineTypeOK
<1>1. CASE run' = Failed
  BY <1>1, RestingWaits
<1>2. CASE /\ Managing /\ run.cursor = NextManaged
           /\ run' = [run EXCEPT !.phase = "entry", !.cursor = @ + 1, !.todo = Decide(run.cursor)]
  <2>1. r = [run EXCEPT !.phase = "entry", !.cursor = n, !.todo = plan]
    BY <1>2
  <2>2. /\ r.phase = "entry" /\ r.queue = run.queue /\ r.upto = run.upto /\ r.cursor = n
        /\ r.todo = plan
    BY <1>0, <2>1 DEF RunType
  <2>3. PendingList(plan) /\ EntryWaits(Signal, n, run.upto, plan)
    BY <1>0, <1>2, ManagementPlanned
  <2>4. RunWaits(r)
    BY <2>2, <2>3 DEF RunWaits, Signal
  <2> QED BY <2>2, <2>3, <2>4
<1>3. CASE /\ Managing => run.cursor < NextManaged
           /\ run' = [run EXCEPT !.phase = "entry", !.cursor = @ + 1]
  <2>1. r = [run EXCEPT !.phase = "entry", !.cursor = n]
    BY <1>3
  <2>2. /\ r.phase = "entry" /\ r.queue = run.queue /\ r.upto = run.upto /\ r.cursor = n
        /\ r.todo = <<>>
    BY <1>0, <2>1 DEF RunType
  <2>3. EntryWaits(Signal, n, run.upto, <<>>)
    BY <1>0, <1>3, ManagementSkipped
  <2>4. RunWaits(r)
    BY <2>2, <2>3 DEF RunWaits, Signal
  <2> QED BY <2>2, <2>4, NothingPending
<1> QED BY <1>1, <1>2, <1>3 DEF PlanManagement

\* Planning a new signal.
LEMMA EvaluateWaits ==
    ASSUME EngineInv, Evaluate PROVE PendingList(run'.todo) /\ RunWaits(run')
<1> PICK r : r = run'
  OBVIOUS
<1>0. run.todo = <<>> /\ RunType(run)
  BY DEF Evaluate, Planning, EngineInv, EngineTypeOK
<1>1. CASE run' = [run EXCEPT !.phase = "report"]
  <2>1. r.phase = "report" /\ r.todo = <<>>
    BY <1>0, <1>1 DEF RunType
  <2> QED BY <2>1, NothingPending, NoWaits
<1>2. ASSUME NEW setup \in Setup, NEW aligned \in StartsAligned,
             run' = [run EXCEPT !.phase = "report",
                       !.todo = <<Command("allocate_signal_id", Null, run.now, DateOf[run.now],
                                          NewTerms(setup, aligned))>>]
      PROVE  PendingList(r.todo) /\ RunWaits(r)
  <2>1. PICK c : c = Command("allocate_signal_id", Null, run.now, DateOf[run.now],
                             NewTerms(setup, aligned))
    OBVIOUS
  <2>2. c.operation = "allocate_signal_id"
    BY <2>1 DEF Command
  <2>3. r.phase = "report" /\ r.todo = <<c>>
    BY <1>0, <1>2, <2>1 DEF RunType
  <2>4. \A n \in 1..Len(<<c>>) : <<c>>[n].operation \notin Moves
    BY <2>2 DEF Moves, Operation
  <2> QED BY <2>3, <2>4, QuietList, NoWaits
<1> QED BY <1>1, <1>2 DEF Evaluate

\* Planning a report.
LEMMA ReportWaits ==
    ASSUME EngineInv, Report PROVE PendingList(run'.todo) /\ RunWaits(run')
<1> PICK r, todo : r = run' /\ todo = IF ~run.paused /\ run.now \in ReportMinutes
                                      THEN Enqueues(Null, run.now, <<"REPORT">>) ELSE <<>>
  OBVIOUS
<1>0. RunType(run)
  BY DEF EngineInv, EngineTypeOK
<1>1. r = [run EXCEPT !.phase = "record", !.todo = todo]
  BY DEF Report
<1>2. r.phase = "record" /\ r.todo = todo
  BY <1>0, <1>1 DEF RunType
<1>3. PendingList(todo)
  <2>1. CASE todo = <<>>
    BY <2>1, NothingPending
  <2>2. CASE todo = Enqueues(Null, run.now, <<"REPORT">>)
    <3>1. PICK acts, i : acts = <<"REPORT">> /\ i = run.now
      OBVIOUS
    <3>2. acts \in Seq(Announcement)
      BY <3>1 DEF Announcement
    <3>3. /\ Len(todo) = Len(acts)
          /\ \A m \in 1..Len(acts) : todo[m].operation = "enqueue_notification"
      <4>1. PICK none : none = Null
        OBVIOUS
      <4>2. todo = Enqueues(none, i, acts)
        BY <2>2, <3>1, <4>1
      <4> QED BY <3>2, <4>2, EnqueuesAre
    <3>4. \A m \in 1..Len(todo) : todo[m].operation \notin Moves
      BY <3>3 DEF Moves, Operation
    <3> QED BY <3>4, QuietList
  <2> QED BY <2>1, <2>2
<1> QED BY <1>2, <1>3, NoWaits

----------------------------------------------------------------------------
(* Every step. *)

\* A checkpoint that a pending command is to move is a minute, if it is set.
LEMMA MarkTyped ==
    ASSUME EngineInv, LedgerReplays, NEW c, Pending(c, {}), c.operation = "advance_checkpoint"
    PROVE  checkpoint[c.key] = Null \/ checkpoint[c.key] \in Int
<1> PICK s : s = c.signal_id
  OBVIOUS
<1>1. Placed(c) /\ (LifecycleMarkDue(c, {}) \/ ManagementMarkDue(c, {}))
  BY DEF Pending, Moves
<1>2. s \in Created /\ c.key \in {LifecycleCheckpoint(s), ManagementCheckpoint(s)}
  BY <1>1 DEF Placed, LifecycleMarkDue, ManagementMarkDue
<1>3. CheckpointsKept(s) /\ Minute \subseteq Int
  BY <1>2, EngineAssumption DEF LedgerReplays, Books, Minute
<1> QED BY <1>2, <1>3 DEF CheckpointsKept

\* What follows a command, whether it took effect or not.
LEMMA ExecutingSequel ==
    ASSUME WideColumns, EngineInv, LedgerReplays, UNCHANGED <<clock, candles>>,
           NEW c \in EngineCommand, Keyed(c), Pending(c, {}),
           Executes(c) \/ UNCHANGED ledgerVars
    PROVE  LedgerReplays' /\ Sequel(c)
<1> HIDE DEF EngineCommand
<1>1. /\ LedgerReplays'
      /\ \A s \in Created : s \in Created' /\ terms'[s] = terms[s] /\ Moved(s, c)
  BY ExecutingReplays
<1>2. clock \in Int
  BY DEF EngineInv, EngineTypeOK, MarketType, Minute
<1>3. ASSUME NEW s \in Created PROVE Books(s)' /\ Steady(s)
  <2>1. s \in Created' /\ terms'[s] = terms[s]
    BY <1>1
  <2>2. Books(s)'
    BY <1>1, <2>1 DEF LedgerReplays
  <2>3. Steady(s)
    BY <1>2, <2>1 DEF Steady, Candle
  <2> QED BY <2>2, <2>3
<1> QED BY <1>1, <1>3 DEF Sequel

\* A run that has given up waits for nothing.
LEMMA FailedStep ==
    ASSUME run' \in {Failed, Idle}, LedgerReplays', PendingLate'
    PROVE  ReplayInv'
<1> PICK r : r = run'
  OBVIOUS
<1>1. r.todo = <<>> /\ r.phase \in {"record", "idle"}
  <2>1. Failed.todo = <<>> /\ Failed.phase = "record" /\ Idle.todo = <<>> /\ Idle.phase = "idle"
    BY DEF Failed, Idle
  <2> QED BY <2>1
<1>2. PendingList(run.todo)'
  <2>1. run'.todo = <<>>
    BY <1>1
  <2>2. Len(run'.todo) = 0
    BY <2>1
  <2>3. \A n \in 1..Len(run'.todo) : FALSE
    BY <2>2
  <2> QED BY <2>3 DEF PendingList
<1>3. RunWaits(run)'
  <2>1. run'.phase \notin {"entry", "exit", "manage"}
    BY <1>1
  <2> QED BY <2>1 DEF RunWaits
<1> QED BY <1>2, <1>3 DEF ReplayInv

\* What a run waits for is carried through the step.
LEMMA CarriedStep ==
    ASSUME WideColumns, EngineInv, EngineInv', LedgerReplays, PendingLate, LedgerReplays', InWindow',
           NEW c, Sequel(c), c \in late \/ c.operation \notin Moves, late' \subseteq late,
           RunOK(run'), PendingList(run'.todo), RunWaits(run')
    PROVE  ReplayInv'
<1> HIDE DEF EngineCommand
<1> PICK r : r = run'
  OBVIOUS
<1>1. RunOK(r) /\ PendingList(r.todo) /\ RunWaits(r) /\ r.todo \in Seq(EngineCommand)
  BY DEF RunOK, RunType
<1>2. RunWaits(r)'
  BY <1>1, WaitsCarried
<1> PICK list : list = r.todo
  OBVIOUS
<1>3. PendingList(list)'
  BY <1>1, ListCarried
<1>4. PendingLate'
  BY LateCarried
<1>5. RunWaits(run)'
  BY <1>2
<1>6. PendingList(run.todo)'
  BY <1>3
<1> QED BY <1>4, <1>5, <1>6 DEF ReplayInv

\* What is left of a run's list is waited for as the list was.
LEMMA SentWaits ==
    ASSUME WideColumns, EngineInv, EngineInv', LedgerReplays, LedgerReplays', InWindow', RunWaits(run),
           run.todo # <<>>, NEW c, Sequel(c), Likened(Head(run.todo), c), Pending(c, {}),
           Succeeded(c), UNCHANGED <<clock, late>>,
           NEW todo, run' = [run EXCEPT !.todo = todo],
           Len(run.todo) = 1 /\ c.operation # "allocate_signal_id" => todo = <<>>,
           \A key : \A i \in Int : Awaits(run.todo, key, i) =>
              \/ Awaits(todo, key, i)
              \/ checkpoint'[key] # Null /\ checkpoint'[key] \in Int /\ checkpoint'[key] >= i
    PROVE  RunWaits(run)'
<1> PICK s, q, upto, list : s = Head(run.queue) /\ q = run.cursor /\ upto = run.upto /\ list = run.todo
  OBVIOUS
<1> PICK r : r = run'
  OBVIOUS
<1>1. RunType(run) /\ RunPlace(run) /\ RunOK(run)
  BY DEF EngineInv, EngineTypeOK, RunOK
<1>2. /\ r.phase = run.phase /\ r.queue = run.queue /\ r.cursor = q /\ r.upto = upto /\ r.todo = todo
  BY <1>1 DEF RunType
<1>3. run.queue # <<>> => s \in Created /\ q \in Int /\ upto \in Int /\ clock \in Int /\ q <= upto
                          /\ upto <= clock
  BY <1>1, RunSignal
<1>4. run.phase \in {"exit", "manage"} => run.queue # <<>> /\ q < clock
  BY <1>1, <1>3 DEF RunPlace
<1>5. run.phase = "exit" => ExitWaits(s, q, todo)'
  <2> SUFFICES ASSUME run.phase = "exit" PROVE ExitWaits(s, q, todo)'
    OBVIOUS
  <2>1. ExitWaits(s, q, list) /\ s \in Created /\ q \in Int /\ q < clock
    BY <1>3, <1>4 DEF RunWaits
  <2>2. /\ Len(list) = 1 /\ list # <<>>
        /\ c.operation \in {"activate_signal", "transition_pending"}
        /\ c.signal_id = s /\ c.at = q
    BY <2>1 DEF ExitWaits, Likened
  <2>3. OpeningDue(c)
    BY <2>2 DEF Pending
  <2>4. ExitWaits(s, q, <<>>)'
    BY <2>1, <2>2, <2>3, EntryBooked
  <2>5. todo = <<>>
    BY <2>2
  <2> QED BY <2>4, <2>5
<1>6. run.phase = "manage" => ManageWaits(s, q, todo)'
  <2> SUFFICES ASSUME run.phase = "manage" PROVE ManageWaits(s, q, todo)'
    OBVIOUS
  <2>1. ManageWaits(s, q, list) /\ s \in Created /\ q \in Int
    BY <1>3, <1>4 DEF RunWaits
  <2>2. ManageWaits(s, q, list)'
    BY <2>1, ManageWaitsKept
  <2>3. CASE q <= Resolved(s)'
    BY <2>3 DEF ManageWaits
  <2>4. CASE Awaits(list, LifecycleCheckpoint(s), q)
    <3>1. PICK key : key = LifecycleCheckpoint(s)
      OBVIOUS
    <3>2. CASE Awaits(todo, key, q)
      BY <3>1, <3>2 DEF ManageWaits, Awaits, LifecycleCheckpoint
    <3>3. CASE checkpoint'[key] # Null /\ checkpoint'[key] \in Int /\ checkpoint'[key] >= q
      <4>1. Resolved(s)' = checkpoint'[key]
        BY <3>1, <3>3 DEF Resolved, LifecycleCheckpoint
      <4>2. q <= Resolved(s)'
        BY <2>1, <3>3, <4>1
      <4> QED BY <4>2 DEF ManageWaits
    <3> QED BY <2>1, <2>4, <3>1, <3>2, <3>3
  <2> QED BY <2>2, <2>3, <2>4 DEF ManageWaits, Awaits, LifecycleCheckpoint
<1>7. run.phase = "entry" /\ run.queue # <<>> => EntryWaits(s, q, upto, todo)'
  <2> SUFFICES ASSUME run.phase = "entry", run.queue # <<>> PROVE EntryWaits(s, q, upto, todo)'
    OBVIOUS
  <2>1. EntryWaits(s, q, upto, list) /\ s \in Created /\ q \in Int /\ upto \in Int /\ upto <= clock
    BY <1>3 DEF RunWaits
  <2>2. EntryWaits(s, q, upto, list)'
    BY <2>1, EntryWaitsKept
  <2> PICK key : key = ManagementCheckpoint(s)
    OBVIOUS
  <2>3. PICK n \in Int : n = q - 1
    BY <2>1
  <2>4. Awaits(list, key, n) =>
           \/ Awaits(todo, key, n)
           \/ checkpoint'[key] # Null /\ checkpoint'[key] \in Int /\ checkpoint'[key] >= n
    OBVIOUS
  <2>5. checkpoint'[key] # Null /\ checkpoint'[key] \in Int /\ checkpoint'[key] >= n
           => q <= NextManagedOf(s)'
    BY <2>1, <2>3 DEF NextManagedOf, ManagementCheckpoint
  <2>6. /\ q <= Resolved(s)' + 1 \/ q = WindowStart(upto)
        /\ TrackActive(s, "MANAGED")' =>
              q <= NextManagedOf(s)' \/ q <= Resolved(s)' \/ Awaits(list, key, n)
    BY <2>2, <2>3 DEF EntryWaits, Awaits, ManagementCheckpoint, WindowStart
  <2>7. /\ q <= Resolved(s)' + 1 \/ q = WindowStart(upto)
        /\ TrackActive(s, "MANAGED")' =>
              q <= NextManagedOf(s)' \/ q <= Resolved(s)' \/ Awaits(todo, key, n)
    BY <2>4, <2>5, <2>6
  <2> QED BY <2>3, <2>7 DEF EntryWaits, Awaits, ManagementCheckpoint, WindowStart
<1>8. RunWaits(r)'
  BY <1>2, <1>5, <1>6, <1>7 DEF RunWaits
<1> QED BY <1>8

\* What a run sends is waited for.
LEMMA HeadReplays ==
    ASSUME WideColumns, EngineInv, TruthInv, ReplayInv, run.todo # <<>>,
           NEW c, c = Prepared(Head(run.todo))
    PROVE  /\ c \in EngineCommand /\ Keyed(c) /\ Pending(c, {}) /\ Likened(Head(run.todo), c)
           /\ run.todo \in Seq(EngineCommand) /\ LedgerReplays /\ PendingLate
           /\ PendingList(run.todo) /\ RunWaits(run)
<1>1. c \in EngineCommand /\ Keyed(c)
  BY HeadTruthful
<1>2. run.todo \in Seq(EngineCommand) /\ PendingList(run.todo)
  BY DEF ReplayInv, EngineInv, EngineTypeOK, RunType
<1> HIDE DEF EngineCommand
<1>3. Pending(c, {}) /\ Likened(Head(run.todo), c)
  BY <1>2, HeadPending
<1> QED BY <1>1, <1>2, <1>3 DEF ReplayInv

\* Sending a command keeps the invariant, accepted or refused.
LEMMA SendReplays ==
    ASSUME WideColumns, EngineInv, EngineInv', TruthInv, ReplayInv, LedgerReplays' => InWindow', Send
    PROVE  ReplayInv'
<1> PICK c : c = Prepared(Head(run.todo))
  OBVIOUS
<1>0. /\ run.todo # <<>> /\ Executes(c) /\ run' = IF Accepted(c) THEN AfterReply(c) ELSE Failed
      /\ UNCHANGED <<clock, candles, late>>
  BY DEF Send, environment
<1>1. /\ c \in EngineCommand /\ Keyed(c) /\ Pending(c, {}) /\ Likened(Head(run.todo), c)
      /\ run.todo \in Seq(EngineCommand) /\ LedgerReplays /\ PendingLate
      /\ PendingList(run.todo) /\ RunWaits(run)
  BY <1>0, HeadReplays
<1>2. LedgerReplays' /\ Sequel(c)
  BY <1>0, <1>1, ExecutingSequel
<1>3. PendingLate' /\ InWindow'
  BY <1>0, <1>1, <1>2, LateCarried
<1>4. CASE ~Accepted(c)
  BY <1>0, <1>2, <1>3, <1>4, FailedStep
<1>5. CASE Accepted(c)
  <2>1. c.operation = "advance_checkpoint" =>
           checkpoint[c.key] = Null \/ checkpoint[c.key] \in Int
    BY <1>1, MarkTyped
  <2>2. Succeeded(c)
    BY <1>0, <1>1, <1>2, <1>5, <2>1, AcceptedSucceeds
  <2> HIDE DEF EngineCommand
  <2>3. ASSUME NEW todo, run' = [run EXCEPT !.todo = todo], PendingList(todo)',
               Len(run.todo) = 1 /\ c.operation # "allocate_signal_id" => todo = <<>>,
               \A key : \A i \in Int : Awaits(run.todo, key, i) =>
                  \/ Awaits(todo, key, i)
                  \/ checkpoint'[key] # Null /\ checkpoint'[key] \in Int /\ checkpoint'[key] >= i
        PROVE  ReplayInv'
    <3>1. RunWaits(run)'
      BY <1>0, <1>1, <1>2, <1>3, <2>2, <2>3, SentWaits
    <3>2. run'.todo = todo
      BY <2>3 DEF EngineInv, EngineTypeOK, RunType
    <3>3. PendingList(run.todo)'
      BY <2>3, <3>2
    <3> QED BY <1>2, <1>3, <3>1, <3>3 DEF ReplayInv
  <2>4. CASE c.operation = "allocate_signal_id"
    <3>1. PICK s, t : s = <<c.key, sequence'[c.key]>> /\ t = c.data
      OBVIOUS
    <3>2. PICK todo : todo = CreateCommands(s, t)
      OBVIOUS
    <3>3. run' = [run EXCEPT !.todo = todo]
      BY <1>0, <1>5, <2>4, <3>1, <3>2 DEF AfterReply
    <3>4. Len(todo) = 2 /\ todo[1].operation = "create_signal"
          /\ todo[2].operation = "enqueue_notification"
      <4>1. PICK a, b : /\ a = Command("create_signal", s, run.now, CreatedNotice(s), t)
                        /\ b = Command("enqueue_notification", s, run.now, CreatedNotice(s), Null)
        OBVIOUS
      <4>2. a.operation = "create_signal" /\ b.operation = "enqueue_notification"
        BY <4>1 DEF Command
      <4>3. todo = <<a, b>>
        BY <3>2, <4>1 DEF CreateCommands
      <4> QED BY <4>2, <4>3
    <3>5. \A n \in 1..Len(todo) : todo[n].operation \notin Moves
      BY <3>4 DEF Moves, Operation
    <3>6. PendingList(todo)'
      <4>1. \A n \in 1..Len(todo) : \A earlier : Pending(todo[n], earlier)'
        BY <3>5 DEF Pending, Moves, Operation
      <4> QED BY <4>1 DEF PendingList
    <3>7. ~\E key, i : Awaits(run.todo, key, i)
      <4>1. Head(run.todo).operation = "allocate_signal_id"
        BY <1>1, <2>4 DEF Likened
      <4>2. 1 \in 1..Len(run.todo) /\ run.todo[1] = Head(run.todo)
        BY <1>0, <1>1
      <4> QED BY <4>1, <4>2 DEF Awaits
    <3> QED BY <2>3, <2>4, <3>3, <3>6, <3>7
  <2>5. CASE c.operation # "allocate_signal_id"
    <3>1. PICK todo : todo = Tail(run.todo)
      OBVIOUS
    <3>2. run' = [run EXCEPT !.todo = todo]
      BY <1>0, <1>5, <2>5, <3>1 DEF AfterReply
    <3>3. PendingList(todo)'
      <4>1. PICK list : list = run.todo
        OBVIOUS
      <4>2. PendingList(Tail(list))'
        BY <1>0, <1>1, <1>2, <2>2, <4>1, TailCarried
      <4> QED BY <3>1, <4>1, <4>2
    <3>4. Len(run.todo) = 1 => todo = <<>>
      BY <1>0, <1>1, <3>1
    <3>5. \A key : \A i \in Int : Awaits(run.todo, key, i) =>
             \/ Awaits(todo, key, i)
             \/ checkpoint'[key] # Null /\ checkpoint'[key] \in Int /\ checkpoint'[key] >= i
      <4> TAKE key
      <4> TAKE i \in Int
      <4>1. PICK b \in EngineCommand : b = Head(run.todo)
        BY <1>0, <1>1
      <4> QED BY <1>0, <1>1, <2>2, <3>1, <4>1, Awaited
    <3> QED BY <2>3, <3>2, <3>3, <3>4, <3>5
  <2> QED BY <2>4, <2>5
<1> QED BY <1>4, <1>5

\* So does a command whose answer is lost, with or without its effect.
LEMMA LoseReplyReplays ==
    ASSUME WideColumns, EngineInv, TruthInv, ReplayInv, LoseReply
    PROVE  ReplayInv'
<1> PICK c : c = Prepared(Head(run.todo))
  OBVIOUS
<1>0. /\ run.todo # <<>> /\ (Executes(c) \/ UNCHANGED ledgerVars)
      /\ run' = Failed /\ UNCHANGED <<clock, candles, late>>
  BY DEF LoseReply
<1>1. c \in EngineCommand /\ Keyed(c) /\ Pending(c, {}) /\ LedgerReplays /\ PendingLate
  BY <1>0, HeadReplays
<1>2. LedgerReplays' /\ Sequel(c)
  BY <1>0, <1>1, ExecutingSequel
<1>3. PendingLate'
  BY <1>0, <1>1, <1>2, LateCarried
<1> QED BY <1>0, <1>2, <1>3, FailedStep

\* So does one that takes effect after it was given up on.
LEMMA ArriveLateReplays ==
    ASSUME WideColumns, EngineInv, EngineInv', TruthInv, ReplayInv, LedgerReplays' => InWindow',
           ArriveLate
    PROVE  ReplayInv'
<1>0. PICK c \in late : Executes(c) /\ late' = late \ {c} /\ UNCHANGED <<clock, candles, run>>
  BY DEF ArriveLate
<1>1. c \in EngineCommand /\ Keyed(c) /\ Pending(c, {})
  <2> HIDE DEF EngineCommand
  <2> QED BY DEF EngineInv, EngineTypeOK, TruthInv, TruthfulLate, ReplayInv, PendingLate
<1>2. LedgerReplays' /\ Sequel(c)
  BY <1>0, <1>1, ExecutingSequel DEF ReplayInv
<1>3. RunOK(run') /\ PendingList(run'.todo) /\ RunWaits(run')
  <2>1. RunOK(run)
    BY Inherits DEF EngineInv
  <2> QED BY <1>0, <2>1 DEF ReplayInv
<1>4. late' \subseteq late
  BY <1>0
<1> HIDE DEF EngineCommand
<1> QED BY <1>0, <1>2, <1>3, <1>4, CarriedStep DEF ReplayInv

\* Nothing is executed: the market moves on at most.
LEMMA RestReplays ==
    ASSUME WideColumns, EngineInv, EngineInv', ReplayInv, LedgerReplays' => InWindow',
           UNCHANGED <<ledgerVars, late>>,
           clock' \in Int, clock' >= clock, \A i \in 0..(clock - 1) : Candle(i)' = Candle(i),
           RunOK(run'), PendingList(run'.todo), RunWaits(run')
    PROVE  ReplayInv'
<1>1. PICK c : c = Command("allocate_signal_id", Null, 0, Null, Null)
  OBVIOUS
<1>2. c.operation \notin Moves
  BY <1>1 DEF Command, Moves, Operation
<1>3. LedgerReplays' /\ Sequel(c)
  BY RestSequel DEF ReplayInv
<1> HIDE DEF EngineCommand
<1> QED BY <1>2, <1>3, CarriedStep DEF ReplayInv

\* So does giving up on a command that is still out.
LEMMA GiveUpReplays ==
    ASSUME WideColumns, EngineInv, TruthInv, ReplayInv, GiveUp
    PROVE  ReplayInv'
<1> PICK c : c = Prepared(Head(run.todo))
  OBVIOUS
<1>0. /\ run.todo # <<>> /\ UNCHANGED ledgerVars /\ late' = late \cup {c}
      /\ run' = Failed /\ UNCHANGED <<clock, candles>>
  BY DEF GiveUp
<1>1. c \in EngineCommand /\ Pending(c, {}) /\ LedgerReplays /\ PendingLate
  BY <1>0, HeadReplays
<1>2. clock \in Int
  BY DEF EngineInv, EngineTypeOK, MarketType, Minute
<1>3. LedgerReplays' /\ Sequel(c)
  BY <1>0, <1>1, <1>2, RestSequel DEF Candle
<1>4. PendingLate'
  <2> HIDE DEF EngineCommand
  <2> SUFFICES ASSUME NEW d \in late' PROVE Pending(d, {})'
    BY DEF PendingLate
  <2>1. d \in EngineCommand /\ Pending(d, {})
    BY <1>0, <1>1 DEF PendingLate, EngineInv, EngineTypeOK
  <2> QED BY <1>1, <1>3, <2>1, PendingKept
<1> QED BY <1>0, <1>3, <1>4, FailedStep

\* Every planning step waits for what is there.
LEMMA PlanningWaits ==
    ASSUME WideColumns, EngineInv, ReplayInv, InWindow,
           \/ Start \/ Load \/ Collect \/ PlanEntry \/ PlanExit \/ PlanManagement \/ EndSignal
           \/ Evaluate \/ Report \/ Record
    PROVE  RunOK(run') /\ PendingList(run'.todo) /\ RunWaits(run')
<1>0. EngineTypeOK /\ RunOK(Idle) /\ LedgerReplays /\ PendingLate /\ RunWaits(run)
  BY Inherits DEF EngineInv, ReplayInv
<1>1. RunOK(run')
  BY <1>0, StartOK, LoadOK, CollectOK, PlanEntryOK, PlanExitOK, PlanManagementOK,
     EndSignalOK, EvaluateOK, ReportOK DEF Record
<1>2. CASE Record
  BY <1>1, <1>2, RestingWaits DEF Record
<1> QED BY <1>0, <1>1, <1>2, StartWaits, LoadWaits, CollectWaits, PlanEntryWaits, PlanExitWaits,
           PlanManagementWaits, EndSignalWaits, EvaluateWaits, ReportWaits

\* Every step of the engine keeps the books the replay's.
LEMMA ReplayStep ==
    ASSUME WideColumns, EngineInv, EngineInv', TruthInv, ReplayInv,
           LedgerReplays => InWindow, LedgerReplays' => InWindow', [EngineNext]_vars
    PROVE  ReplayInv'
<1>0. /\ clock \in Int /\ RunOK(run) /\ RunOK(Failed) /\ RunOK(Idle)
      /\ PendingList(run.todo) /\ RunWaits(run) /\ InWindow
  BY Inherits DEF EngineInv, EngineTypeOK, MarketType, Minute, ReplayInv
<1>1. ASSUME UNCHANGED <<ledgerVars, clock, candles, late>>,
             RunOK(run'), PendingList(run'.todo), RunWaits(run')
      PROVE  ReplayInv'
  <2>1. clock' \in Int /\ clock' >= clock /\ \A i \in 0..(clock - 1) : Candle(i)' = Candle(i)
    BY <1>0, <1>1 DEF Candle
  <2> QED BY <1>1, <2>1, RestReplays
<1>2. CASE \/ Start \/ Load \/ Collect \/ PlanEntry \/ PlanExit \/ PlanManagement \/ EndSignal
           \/ Evaluate \/ Report \/ Record
  <2>1. UNCHANGED <<ledgerVars, clock, candles, late>>
    BY <1>2 DEF Start, Load, Collect, PlanEntry, PlanExit, PlanManagement, EndSignal, Evaluate,
         Report, Record, environment
  <2> QED BY <1>0, <1>1, <1>2, <2>1, PlanningWaits
<1>3. CASE ReadFails \/ Kill
  <2>1. UNCHANGED <<ledgerVars, clock, candles, late>> /\ run' \in {Failed, Idle}
    BY <1>3 DEF ReadFails, Kill
  <2>2. RunOK(run') /\ PendingList(run'.todo) /\ RunWaits(run')
    BY <1>0, <2>1, RestingWaits
  <2> QED BY <1>1, <2>1, <2>2
<1>4. CASE Send
  BY <1>4, SendReplays
<1>5. CASE LoseReply
  BY <1>5, LoseReplyReplays
<1>6. CASE GiveUp
  BY <1>6, GiveUpReplays
<1>7. CASE ArriveLate
  BY <1>7, ArriveLateReplays
<1>8. CASE Tick
  <2>1. /\ UNCHANGED <<ledgerVars, late, run>> /\ clock' = clock + 1
    BY <1>8 DEF Tick
  <2>2. \A i \in 0..(clock - 1) : Candle(i)' = Candle(i)
    <3>1. PICK x \in Candles[clock] : candles' = Append(candles, x)
      BY <1>8 DEF Tick
    <3>2. candles \in Seq(AnyCandle) /\ Len(candles) = clock
      BY DEF EngineInv, EngineTypeOK, MarketType
    <3>3. x \in AnyCandle
      BY <1>8, <3>1, Bounds DEF AnyCandle, Tick, EngineInv
    <3> HIDE DEF AnyCandle
    <3> QED BY <3>1, <3>2, <3>3 DEF Candle
  <2>3. clock' \in Int /\ clock' >= clock
    BY <1>0, <2>1
  <2>4. RunOK(run') /\ PendingList(run'.todo) /\ RunWaits(run')
    BY <1>0, <2>1
  <2> QED BY <2>1, <2>2, <2>3, <2>4, RestReplays
<1>9. CASE TogglePause \/ UNCHANGED vars
  <2>1. UNCHANGED <<ledgerVars, clock, candles, late, run>>
    BY <1>9 DEF TogglePause, vars, engineVars
  <2>2. RunOK(run') /\ PendingList(run'.todo) /\ RunWaits(run')
    BY <1>0, <2>1
  <2> QED BY <1>1, <2>1, <2>2
<1> QED BY <1>2, <1>3, <1>4, <1>5, <1>6, <1>7, <1>8, <1>9 DEF EngineNext, RunStep

----------------------------------------------------------------------------
(* What the books say of the replay. *)

\* Where the rows of a signal can be.
LEMMA RowsAt ==
    ASSUME WideColumns, EngineInv, LedgerReplays, NEW s \in Created, NEW l, l = Resolved(s)
    PROVE  /\ l \in Int /\ l >= -1 /\ clock \in Int /\ Due(s) \in Nat /\ Due(s) <= l + 1
           /\ MarketType /\ terms[s] \in EngineTerm
           /\ \/ Holds(s, ReplayTo(s, l)) /\ (l < clock \/ ReplayTo(s, l) = Unopened)
              \/ Due(s) <= l /\ l < clock /\ Holds(s, Exited(s, l))
              \/ l + 1 < clock /\ UnderWay(s, l + 1)
<1>1. Books(s) /\ CheckpointsKept(s)
  BY DEF LedgerReplays, Books
<1>2. /\ l \in Int /\ l >= -1 /\ clock \in Int /\ Due(s) \in Nat /\ Due(s) <= l + 1
      /\ MarketType /\ terms[s] \in EngineTerm
      /\ l < Due(s) \/ l < clock
      /\ l < Due(s) => ReplayTo(s, l) = Unopened
  BY <1>1, ResolvedIs
<1>3. CASE Settled(s)
  BY <1>1, <1>2, <1>3, SettledRows
<1>4. CASE ~Settled(s)
  BY <1>1, <1>2, <1>4, Unsettled
<1> QED BY <1>2, <1>3, <1>4

\* Books in this order book what the replay books.
LEMMA BooksTellReplay ==
    ASSUME WideColumns, EngineInv, LedgerReplays PROVE BookedAsReplayed
<1> SUFFICES ASSUME NEW s \in Created, NEW r, r = ReplayTo(s, clock - 1)
             PROVE  /\ trade[s] # Null => trade[s] = r.trade
                    /\ \A v \in Variant : outcome[s][v] # Null => outcome[s][v] = r.outcome[v]
                    /\ status[s] = "EXPIRED" => r.status = "EXPIRED"
  BY DEF BookedAsReplayed
<1>1. PICK l : l = Resolved(s)
  OBVIOUS
<1>2. /\ l \in Int /\ l >= -1 /\ clock \in Int /\ Due(s) \in Nat /\ Due(s) <= l + 1
      /\ MarketType /\ terms[s] \in EngineTerm
      /\ \/ Holds(s, ReplayTo(s, l)) /\ (l < clock \/ ReplayTo(s, l) = Unopened)
         \/ Due(s) <= l /\ l < clock /\ Holds(s, Exited(s, l))
         \/ l + 1 < clock /\ UnderWay(s, l + 1)
  BY <1>1, RowsAt
<1>3. PICK n \in Int : n = clock - 1
  BY <1>2
<1>4. ASSUME NEW st, Holds(s, st), Follows(st, r)
      PROVE  /\ trade[s] # Null => trade[s] = r.trade
             /\ \A v \in Variant : outcome[s][v] # Null => outcome[s][v] = r.outcome[v]
             /\ status[s] = "EXPIRED" => r.status = "EXPIRED"
  BY <1>4 DEF Holds, Follows
<1>5. CASE Holds(s, ReplayTo(s, l)) /\ l < clock
  <2>1. Follows(ReplayTo(s, l), ReplayTo(s, n))
    BY <1>2, <1>3, <1>5, ReplayFollows
  <2> QED BY <1>3, <1>4, <1>5, <2>1
<1>6. CASE Holds(s, Unopened)
  BY <1>6 DEF Holds, Unopened, NoRows
<1>7. CASE Due(s) <= l /\ l < clock /\ Holds(s, Exited(s, l))
  <2>1. Follows(Exited(s, l), ReplayTo(s, n))
    BY <1>2, <1>3, <1>7, Onward
  <2> QED BY <1>3, <1>4, <1>7, <2>1
<1>8. CASE l + 1 < clock /\ UnderWay(s, l + 1)
  <2>1. PICK q \in Int : q = l + 1 /\ Due(s) <= q /\ q < clock /\ q <= n
    BY <1>2, <1>3, <1>8
  <2>2. Follows(Exited(s, q), ReplayTo(s, n)) /\ Follows(Entered(s, q), Exited(s, q))
    BY <1>2, <1>3, <2>1, Onward
  <2>3. Follows(Entered(s, q), r) /\ Follows(Exited(s, q), r)
    BY <1>3, <2>2, FollowsTransitive
  <2>4. UnderWay(s, q)
    BY <1>8, <2>1
  <2> QED BY <2>3, <2>4 DEF UnderWay, Follows
<1> QED BY <1>2, <1>5, <1>6, <1>7, <1>8

\* Books in this order are vouched for by the lifecycle checkpoint.
LEMMA BooksVouch ==
    ASSUME WideColumns, EngineInv, LedgerReplays PROVE CheckpointVouches
<1> SUFFICES ASSUME NEW s \in Created, NEW l, l = Resolved(s),
                    NEW a, a = ReplayTo(s, l),
                    NEW b, b = ReplayTo(s, IF l + 1 < clock THEN l + 1 ELSE l)
             PROVE  /\ trade[s] \in {a.trade, b.trade}
                    /\ \A v \in Variant : outcome[s][v] \in {a.outcome[v], b.outcome[v]}
                    /\ a.status = "EXPIRED" => status[s] = "EXPIRED"
  BY DEF CheckpointVouches
<1>2. /\ l \in Int /\ l >= -1 /\ clock \in Int /\ Due(s) \in Nat /\ Due(s) <= l + 1
      /\ MarketType /\ terms[s] \in EngineTerm
      /\ \/ Holds(s, ReplayTo(s, l)) /\ (l < clock \/ ReplayTo(s, l) = Unopened)
         \/ Due(s) <= l /\ l < clock /\ Holds(s, Exited(s, l))
         \/ l + 1 < clock /\ UnderWay(s, l + 1)
  BY RowsAt
<1>3. CASE Holds(s, a)
  BY <1>3 DEF Holds
<1>4. CASE Due(s) <= l /\ l < clock /\ Holds(s, Exited(s, l))
  <2>1. /\ a.trade = Exited(s, l).trade /\ a.status = Exited(s, l).status
        /\ \A v \in Variant : a.outcome[v] = Exited(s, l).outcome[v]
    BY <1>2, <1>4, ManagedIs
  <2> QED BY <1>4, <2>1 DEF Holds
<1>5. CASE l + 1 < clock /\ UnderWay(s, l + 1)
  <2>1. PICK q \in Int : q = l + 1 /\ Due(s) <= q /\ q < clock /\ q - 1 = l
    BY <1>2, <1>5
  <2>2. UnderWay(s, q) /\ b = ReplayTo(s, q)
    BY <1>5, <2>1
  <2>3. /\ a.status # "PENDING" => Entered(s, q) = a
        /\ \A v \in Variant : Entered(s, q).outcome[v] = a.outcome[v]
    BY <1>2, <2>1, EnteredIs
  <2>4. /\ Exited(s, q).trade = Entered(s, q).trade /\ b.trade = Exited(s, q).trade
        /\ \A v \in Variant : b.outcome[v] = Exited(s, q).outcome[v]
    BY <1>2, <2>1, <2>2, ManagedIs, ExitedIs
  <2>5. Follows(Entered(s, q), Exited(s, q))
    BY <1>2, <2>1, CandleStates
  <2> QED BY <2>2, <2>3, <2>4, <2>5 DEF UnderWay, Follows
<1> QED BY <1>2, <1>3, <1>4, <1>5

\* The empty ledger is the replay of no candle.
LEMMA ReplayInit ==
    ASSUME WideColumns, EngineInit PROVE ReplayInv
<1>1. Created = {} /\ late = {} /\ run = Idle /\ receipt = {} /\ decision = {}
  BY DEF EngineInit, Init, Created
<1>2. \A s \in SignalId : AbsentKept(s)
  <2> TAKE s \in SignalId
  <2>1. LifecycleCheckpoint(s) \in CheckpointKey /\ ManagementCheckpoint(s) \in CheckpointKey
    BY DEF WideColumns, LifecycleCheckpoint, ManagementCheckpoint
  <2> QED BY <1>1, <2>1 DEF AbsentKept, DecidedOn, DecisionExists, EngineInit, Init
<1>3. LedgerReplays /\ PendingLate
  BY <1>1, <1>2 DEF LedgerReplays, ReceiptsKept, PendingLate
<1> QED BY <1>1, <1>3, RestingWaits DEF ReplayInv

\* With a window that holds the whole history no candle is ever out of reach.
LEMMA WideWindow ==
    ASSUME EngineInv, LedgerReplays, Window >= MaxMinute PROVE InWindow
<1> SUFFICES ASSUME NEW s \in Created, TrackActive(s, "MANAGED")
             PROVE  FirstCollected <= NextManagedOf(s)
  BY DEF InWindow
<1>1. /\ NextManagedOf(s) \in Int /\ Due(s) <= NextManagedOf(s) /\ Due(s) \in Nat
  BY NextManagedIs, ResolvedIs DEF LedgerReplays, Books, ManagedKept
<1>2. FirstCollected = 0
  BY Bounds, EngineAssumption DEF FirstCollected, EngineInv
<1> QED BY <1>1, <1>2

\* Nothing is told in the beginning.
LEMMA TruthInit == WideColumns => (EngineInit => TruthInv)
<1>1. EngineInit => run.todo = <<>> /\ run.phase = "idle" /\ Len(<<>>) = 0
  BY EmptySeq DEF EngineInit, Idle
<1> QED BY <1>1, EmptyTruthful DEF EngineInit, Init, TruthInv, ReceiptsTell, CreationTold,
      NoFalseAnnouncement, TruthfulActions, TruthfulLate

\* The engine's books are the replay's, as long as no open trade is left behind
\* the candles a snapshot holds.
LEMMA ReplayInvariance == WideColumns => (EngineSpec /\ []InWindow => []ReplayInv)
<1> SUFFICES ASSUME WideColumns PROVE EngineSpec /\ []InWindow => []ReplayInv
  OBVIOUS
<1>1. EngineInit => ReplayInv /\ TruthInv
  BY ReplayInit, TruthInit
<1>2. EngineInv /\ TruthInv /\ [EngineNext]_vars => TruthInv'
  BY TruthStep
<1>3. EngineInv /\ EngineInv' /\ TruthInv /\ ReplayInv /\ InWindow /\ InWindow' /\ [EngineNext]_vars
         => ReplayInv'
  <2> SUFFICES ASSUME EngineInv, EngineInv', TruthInv, ReplayInv, InWindow, InWindow',
                      [EngineNext]_vars
               PROVE  ReplayInv'
    OBVIOUS
  <2>1. (LedgerReplays => InWindow) /\ (LedgerReplays' => InWindow')
    OBVIOUS
  <2> QED BY <2>1, ReplayStep
<1>4. EngineSpec => []EngineInv
  BY EngineInvariance
<1> QED BY <1>1, <1>2, <1>3, <1>4, PTL DEF EngineSpec

\* Whatever is booked is what the uninterrupted replay of all candles books: an
\* activation, an expiry or an outcome in the ledger never depends on how often a
\* run of runtime/orchestrator.py was killed, a command repeated, an answer lost or
\* a command executed late - as long as no run begins with a snapshot that leaves
\* the next candle of an open managed trade behind it (run gap shows what happens
\* then).
THEOREM BookedAsReplayedInWindow ==
    WideColumns => (EngineSpec /\ []InWindow => []BookedAsReplayed)
<1> SUFFICES ASSUME WideColumns PROVE EngineSpec /\ []InWindow => []BookedAsReplayed
  OBVIOUS
<1>1. EngineInv /\ ReplayInv => BookedAsReplayed
  BY BooksTellReplay DEF ReplayInv
<1> QED BY <1>1, EngineInvariance, ReplayInvariance, PTL

\* Under the same condition the lifecycle checkpoint never runs ahead of what is
\* booked, and what is booked is never more than one candle ahead of it: a replay
\* that restarts at the checkpoint misses nothing and repeats nothing.
THEOREM CheckpointVouchesInWindow ==
    WideColumns => (EngineSpec /\ []InWindow => []CheckpointVouches)
<1> SUFFICES ASSUME WideColumns PROVE EngineSpec /\ []InWindow => []CheckpointVouches
  OBVIOUS
<1>1. EngineInv /\ ReplayInv => CheckpointVouches
  BY BooksVouch DEF ReplayInv
<1> QED BY <1>1, EngineInvariance, ReplayInvariance, PTL

\* With a snapshot that holds the whole history the condition is always met.
LEMMA OneWindow ==
    WideColumns /\ Window >= MaxMinute => (EngineSpec => []InWindow)
<1> SUFFICES ASSUME WideColumns, Window >= MaxMinute PROVE EngineSpec => []InWindow
  OBVIOUS
<1>1. EngineInit => ReplayInv /\ TruthInv
  BY ReplayInit, TruthInit
<1>2. EngineInv /\ TruthInv /\ [EngineNext]_vars => TruthInv'
  BY TruthStep
<1>3. EngineInv /\ LedgerReplays => InWindow
  BY WideWindow
<1>4. (EngineInv /\ LedgerReplays => InWindow)'
  BY <1>3, PTL
<1>5. EngineInv /\ EngineInv' /\ TruthInv /\ ReplayInv /\ [EngineNext]_vars => ReplayInv'
  BY <1>3, <1>4, ReplayStep
<1>6. EngineInv /\ ReplayInv => InWindow
  BY <1>3 DEF ReplayInv
<1>7. EngineSpec => []EngineInv
  BY EngineInvariance
<1> QED BY <1>1, <1>2, <1>5, <1>6, <1>7, PTL DEF EngineSpec

\* Then both properties hold of every behaviour of the engine, without a
\* hypothesis.
THEOREM ReplayedWithinOneWindow ==
    WideColumns /\ Window >= MaxMinute =>
        (EngineSpec => [](BookedAsReplayed /\ CheckpointVouches))
<1> SUFFICES ASSUME WideColumns, Window >= MaxMinute
             PROVE  EngineSpec => [](BookedAsReplayed /\ CheckpointVouches)
  OBVIOUS
<1>1. EngineSpec => []InWindow
  BY OneWindow
<1>2. EngineSpec /\ []InWindow => []BookedAsReplayed
  BY BookedAsReplayedInWindow
<1>3. EngineSpec /\ []InWindow => []CheckpointVouches
  BY CheckpointVouchesInWindow
<1> QED BY <1>1, <1>2, <1>3, PTL

----------------------------------------------------------------------------
(* A run that reports success has caught up.                               *)

\* Still to be replayed.
Unfinished(s) == status[s] \in {"PENDING", "ACTIVE"}

\* Nothing of the signal is booked that lies beyond the candles before n.
Within(s, n) ==
    /\ Resolved(s) < n
    /\ Resolved(s) + 1 = n /\ Settled(s) => Holds(s, ReplayTo(s, Resolved(s)))

\* Everything of the signal is booked that lies in the candles before n.
CaughtUp(s, n) ==
    /\ n <= Resolved(s) + 1
    /\ TrackActive(s, "MANAGED") => n <= NextManagedOf(s)

\* No command leads back to a signal that has ended.
LEMMA EndedStays ==
    ASSUME [Next]_ledgerVars, IInv, NEW s \in Created, Unfinished(s)'
    PROVE  Unfinished(s)
<1>0. s \in SignalId /\ status[s] # "ABSENT" /\ status \in [SignalId -> Status]
  BY DEF Created, IInv, TypeOK
<1>1. CASE UNCHANGED ledgerVars
  BY <1>1 DEF ledgerVars, tradeVars, Unfinished
<1>2. CASE Allocate \/ Advance \/ Enqueue \/ Manage
  <2>1. CASE Allocate
    BY <2>1 DEF Allocate, AllocateSignalId, tradeVars, Unfinished
  <2>2. CASE Advance
    BY <2>2 DEF Advance, AdvanceCheckpoint, tradeVars, Unfinished
  <2>3. CASE Enqueue
    BY <2>3 DEF Enqueue, EnqueueNotification, tradeVars, Unfinished
  <2>4. CASE Manage
    BY <2>4 DEF Manage, ApplyManagement, Unfinished
  <2> QED BY <1>2, <2>1, <2>2, <2>3, <2>4
<1>3. CASE Create
  BY <1>0, <1>3 DEF Create, CreateSignal, CreateAllowed, Unfinished
<1>4. CASE Activate
  BY <1>0, <1>4 DEF Activate, ActivateSignal, ActivateAllowed, Unfinished
<1>5. CASE Expire
  BY <1>0, <1>5 DEF Expire, TransitionPending, TransitionAllowed, Unfinished
<1>6. CASE Close
  BY <1>0, <1>6 DEF Close, CloseTrack, Unfinished
<1> QED BY <1>1, <1>2, <1>3, <1>4, <1>5, <1>6 DEF Next

\* A command about an earlier candle books nothing beyond n.
LEMMA WithinKept ==
    ASSUME WideColumns, EngineInv, LedgerReplays, NEW c, Sequel(c), NEW s \in Created, NEW n \in Int,
           c.operation \in Moves /\ c.signal_id = s => c.at < n, Within(s, n)
    PROVE  Within(s, n)'
<1> PICK l : l = Resolved(s)
  OBVIOUS
<1>1. Books(s) /\ CheckpointsKept(s) /\ Steady(s) /\ Moved(s, c)
  BY DEF LedgerReplays, Sequel, Books
<1>2. /\ l \in Int /\ l >= -1 /\ clock \in Int /\ (l < clock \/ l < Due(s)) /\ l < n
  BY <1>1, ResolvedIs DEF Within
<1>3. ReplayTo(s, l)' = ReplayTo(s, l)
  BY <1>1, <1>2, KeptStates
<1>4. /\ Resolved(s)' \in {l, l + 1}
      /\ Resolved(s)' # l => /\ c.operation = "advance_checkpoint" /\ c.signal_id = s
                             /\ c.at = l + 1
  BY <1>1 DEF Moved
<1>5. /\ RowsStay(s) \/ ~Settled(s) \/ (c.operation \in Operation /\ c.signal_id = s /\ c.at = l + 1)
      /\ Arrives(s)
  BY <1>1 DEF Moved
<1>6. Resolved(s)' < n
  BY <1>2, <1>4 DEF Moves
<1>7. ASSUME Resolved(s)' + 1 = n, Settled(s)'
      PROVE  Holds(s, ReplayTo(s, Resolved(s)))'
  <2>1. CASE Resolved(s)' = l /\ Settled(s)
    <3>1. Holds(s, ReplayTo(s, l))
      BY <1>7, <2>1 DEF Within
    <3>2. RowsStay(s)
      BY <1>2, <1>5, <1>7, <2>1 DEF Moves
    <3>3. Holds(s, ReplayTo(s, l))'
      BY <1>3, <3>1, <3>2 DEF Holds, RowsStay
    <3> QED BY <2>1, <3>3
  <2>2. CASE ~(Resolved(s)' = l /\ Settled(s))
    BY <1>5, <1>7, <2>2 DEF Arrives
  <2> QED BY <2>1, <2>2
<1> QED BY <1>6, <1>7 DEF Within

\* What has caught up stays so.
LEMMA CaughtUpKept ==
    ASSUME EngineInv, LedgerReplays, NEW c, Sequel(c), NEW s \in Created, NEW n \in Int,
           CaughtUp(s, n)
    PROVE  CaughtUp(s, n)'
<1>1. Books(s) /\ CheckpointsKept(s) /\ Moved(s, c) /\ Books(s)'
  BY DEF LedgerReplays, Sequel, Books
<1>2. PICK l \in Int : l = Resolved(s)
  BY <1>1, ResolvedIs
<1>3. Resolved(s)' \in {l, l + 1}
  BY <1>1, <1>2 DEF Moved
<1>4. n <= Resolved(s)' + 1
  BY <1>2, <1>3 DEF CaughtUp
<1>5. ASSUME TrackActive(s, "MANAGED")' PROVE n <= NextManagedOf(s)'
  <2>1. CASE TrackActive(s, "MANAGED")
    <3>1. PICK m \in Int : m = NextManagedOf(s)
      BY <1>1, <2>1, NextManagedIs
    <3>2. n <= m /\ NextManagedOf(s)' >= m
      BY <1>1, <1>5, <2>1, <3>1 DEF CaughtUp, Moved
    <3>3. PICK k : k = NextManagedOf(s)'
      OBVIOUS
    <3>4. k \in {l, l + 1, l + 2}
      <4>1. NextManagedOf(s)' \in {Resolved(s)', Resolved(s)' + 1}
        BY <1>1, <1>5 DEF Books, ManagedKept
      <4> QED BY <1>3, <3>3, <4>1
    <3> QED BY <3>1, <3>2, <3>3, <3>4
  <2>2. CASE ~TrackActive(s, "MANAGED")
    BY <1>1, <1>2, <1>5, <2>2 DEF CaughtUp, Moved
  <2> QED BY <2>1, <2>2
<1> QED BY <1>4, <1>5 DEF CaughtUp

\* A signal that has caught up with n candles and is not beyond them is where the
\* replay of these candles puts it.
LEMMA CaughtUpHolds ==
    ASSUME WideColumns, EngineInv, LedgerReplays, NEW s \in Created, NEW n \in Int, n <= clock,
           Within(s, n), CaughtUp(s, n)
    PROVE  Stored(s) = ReplayTo(s, n - 1)
<1>1. Books(s) /\ CheckpointsKept(s)
  BY DEF LedgerReplays, Books
<1>2. /\ s \in SignalId /\ terms[s] \in EngineTerm /\ MarketType /\ clock \in Int
      /\ Resolved(s) \in Int /\ Resolved(s) >= -1
  BY <1>1, ResolvedIs
<1>3. Resolved(s) = n - 1
  BY <1>2 DEF Within, CaughtUp
<1>4. Settled(s)
  <2> SUFFICES ASSUME ~Settled(s) PROVE FALSE
    OBVIOUS
  <2>1. TrackActive(s, "MANAGED")
    BY <1>1, Unsettled
  <2>2. NextManagedOf(s) \in {Resolved(s), Resolved(s) + 1} /\ n <= NextManagedOf(s)
        /\ (NextManagedOf(s) = Resolved(s) + 1 => Settled(s))
    BY <1>1, <2>1 DEF Books, ManagedKept, CaughtUp
  <2> QED BY <1>2, <1>3, <2>2
<1>5. PICK r : r = ReplayTo(s, n - 1)
  OBVIOUS
<1>6. Holds(s, r)
  BY <1>3, <1>4, <1>5 DEF Within
<1>7. Shaped(r)
  BY <1>2, <1>3, <1>5, ReplayShape
<1>8. /\ track[s] \in [Variant -> TrackRow \cup {Null}]
      /\ outcome[s] \in [Variant -> Closing \cup {Null}]
  BY <1>2 DEF EngineInv, IInv, TypeOK
<1>9. track[s] = r.track /\ outcome[s] = r.outcome /\ status[s] = r.status /\ trade[s] = r.trade
  <2>1. r.track \in [Variant -> TrackRow \cup {Null}] /\ r.outcome \in [Variant -> Closing \cup {Null}]
    BY <1>7 DEF Shaped, ReplayedRows
  <2>2. \A v \in Variant : track[s][v] = r.track[v] /\ outcome[s][v] = r.outcome[v]
    BY <1>6 DEF Holds
  <2> QED BY <1>6, <1>8, <2>1, <2>2 DEF Holds
<1>10. r = [status |-> r.status, trade |-> r.trade, track |-> r.track, outcome |-> r.outcome]
  BY <1>7 DEF Shaped, ReplayedRows
<1> QED BY <1>5, <1>9, <1>10 DEF Stored

\* A run whose snapshot has been taken and that has not failed since.
Monitoring(r) == r.phase \in {"entry", "exit", "manage", "report"}

Queued(s, queue) == \E n \in 1..Len(queue) : queue[n] = s

Below(list, n) == \A m \in 1..Len(list) : list[m].operation \in Moves => list[m].at < n

LateBelow(n) == \A c \in late : c.operation \in Moves => c.at < n

\* A list that admits a signal dates it by the minute of its own run.
Admits(list, now) ==
    \A m \in 1..Len(list) :
        list[m].operation \in {"allocate_signal_id", "create_signal"} => list[m].data.created_at = now

\* A signal that was there when the run began.
Progress(s, r) ==
    /\ Monitoring(r) => Within(s, r.upto)
    /\ Unfinished(s) => Queued(s, r.queue) \/ (Monitoring(r) /\ CaughtUp(s, r.upto))

RunProgress(r) ==
    /\ r.phase = "collect" \/ Monitoring(r) =>
          \A s \in Created : terms[s].created_at < r.now => Progress(s, r)
    /\ Monitoring(r) => LateBelow(r.upto) /\ Below(r.todo, r.upto)
    /\ r.phase = "report" => r.queue = <<>>
    /\ Admits(r.todo, r.now)

LateKnown == \A c \in late : c.operation \in LateOps

SuccessInv == RunProgress(run) /\ LateKnown

\* A run keeps its progress while another command is executed.
LEMMA ProgressCarried ==
    ASSUME WideColumns, EngineInv, LedgerReplays, NEW c, Sequel(c), [Next]_ledgerVars,
           NEW r, RunOK(r), RunProgress(r), late' \subseteq late,
           Monitoring(r) /\ c.operation \in Moves => c.at < r.upto,
           \A s \in Created' : s \in Created \/ ~(terms'[s].created_at < r.now)
    PROVE  RunProgress(r)'
<1>1. ASSUME r.phase = "collect" \/ Monitoring(r), NEW s \in Created', terms'[s].created_at < r.now
      PROVE  Progress(s, r)'
  <2>1. s \in Created /\ terms[s].created_at < r.now
    BY <1>1 DEF Sequel, Steady
  <2>2. Progress(s, r)
    BY <1>1, <2>1 DEF RunProgress
  <2>3. r.upto \in Int
    BY DEF RunOK, RunType, Minute
  <2>4. Monitoring(r) => Within(s, r.upto)'
    BY <2>1, <2>2, <2>3, WithinKept DEF Progress
  <2>5. Unfinished(s)' => Unfinished(s)
    BY <2>1, EndedStays DEF EngineInv
  <2>6. CaughtUp(s, r.upto) => CaughtUp(s, r.upto)'
    BY <2>1, <2>3, CaughtUpKept
  <2>7. /\ Monitoring(r)' <=> Monitoring(r)
        /\ Queued(s, r.queue)' <=> Queued(s, r.queue)
    BY DEF Monitoring, Queued
  <2> QED BY <2>2, <2>4, <2>5, <2>6, <2>7, Zenon DEF Progress
<1>2. Monitoring(r) => LateBelow(r.upto)' /\ Below(r.todo, r.upto)'
  BY DEF RunProgress, LateBelow, Below, Moves, Operation
<1>3. (r.phase = "report" => r.queue = <<>>) /\ Admits(r.todo, r.now)'
  BY DEF RunProgress, Admits
<1>4. \A s \in Created' : (r.phase = "collect" \/ Monitoring(r)) /\ terms'[s].created_at < r.now
                             => Progress(s, r)'
  BY <1>1
<1>5. Monitoring(r)' <=> Monitoring(r)
  BY DEF Monitoring
<1> QED BY <1>2, <1>3, <1>4, <1>5 DEF RunProgress

\* A signal that a command creates is dated by the run that admitted it.
LEMMA FreshDated ==
    ASSUME WideColumns, EngineInv, NEW c \in EngineCommand, Executes(c) \/ UNCHANGED ledgerVars,
           NEW now \in Int, c.operation = "create_signal" => c.data.created_at = now
    PROVE  \A s \in Created' : s \in Created \/ ~(terms'[s].created_at < now)
<1> HIDE DEF EngineCommand
<1> SUFFICES ASSUME NEW s \in SignalId, status'[s] # "ABSENT", status[s] = "ABSENT"
             PROVE  ~(terms'[s].created_at < now)
  BY DEF Created
<1>1. c.operation = "create_signal" /\ CreateSignal(s, c.data, c.key)
  BY NewSignals
<1>2. terms'[s] = c.data
  BY <1>1 DEF CreateSignal, EngineInv, IInv, TypeOK
<1> QED BY <1>1, <1>2

----------------------------------------------------------------------------
(* What each planning step shows.                                          *)

\* A run that rests, fails or records its end has nothing to show.
LEMMA RestingProgress ==
    ASSUME NEW r, r.phase \in {"idle", "load", "record"}, Admits(r.todo, r.now)
    PROVE  RunProgress(r)
BY DEF RunProgress, Monitoring

\* An empty list admits nothing.
LEMMA NothingAdmitted == \A now : Admits(<<>>, now) /\ Below(<<>>, now)
<1>1. \A n \in 1..Len(<<>>) : FALSE
  BY EmptySeq
<1> QED BY <1>1 DEF Admits, Below

\* Failed and ended runs.
LEMMA EndedProgress ==
    /\ RunProgress(Failed) /\ RunProgress(Idle)
<1>1. Failed.todo = <<>> /\ Failed.phase = "record" /\ Idle.todo = <<>> /\ Idle.phase = "idle"
  BY DEF Failed, Idle
<1> QED BY <1>1, NothingAdmitted, RestingProgress

\* A run starts with nothing to show.
LEMMA StartProgress ==
    ASSUME EngineInv, Start PROVE RunProgress(run')
<1> DEFINE idle == Idle
<1>1. RunType(idle) /\ idle.todo = <<>>
  BY RestingRuns DEF EngineInv, Idle
<1>2. run' = [idle EXCEPT !.phase = "load", !.now = clock]
  BY DEF Start
<1> HIDE DEF idle
<1> PICK r : r = run'
  OBVIOUS
<1>3. r.phase = "load" /\ r.todo = <<>>
  BY <1>1, <1>2 DEF RunType
<1> QED BY <1>3, NothingAdmitted, RestingProgress

\* The bootstrap lists every signal that is still to be replayed.
LEMMA LoadProgress ==
    ASSUME EngineInv, Load PROVE RunProgress(run')
<1>1. PICK n \in 0..Cardinality(Monitored) : \E list \in [1..n -> Monitored] :
        /\ ListsMonitored(list)
        /\ run' = [run EXCEPT !.phase = "collect",
                           !.paused = paused,
                           !.queue = list,
                           !.last = LastSignalAt,
                           !.active = \E s \in SignalId : status[s] = "ACTIVE"]
  BY DEF Load
<1>2. PICK list \in [1..n -> Monitored] :
        /\ ListsMonitored(list)
        /\ run' = [run EXCEPT !.phase = "collect",
                           !.paused = paused,
                           !.queue = list,
                           !.last = LastSignalAt,
                           !.active = \E s \in SignalId : status[s] = "ACTIVE"]
  BY <1>1
<1>3. PICK r : r = run'
  OBVIOUS
<1>4. r.phase = "collect" /\ r.todo = <<>> /\ r.queue = list
  BY <1>2, <1>3 DEF EngineInv, EngineTypeOK, RunType, Load, Planning
<1>5. n \in Nat /\ Len(list) = n
  OBVIOUS
<1>6. ASSUME NEW s \in Created, Unfinished(s) PROVE Queued(s, list)
  <2>1. s \in Monitored
    BY <1>6 DEF Monitored, Unfinished, Created
  <2> QED BY <1>2, <1>5, <2>1 DEF ListsMonitored, Queued
<1> QED BY <1>3, <1>4, <1>6, NothingAdmitted DEF RunProgress, Monitoring, Progress

\* A fresh snapshot reaches beyond everything that is booked or on its way.
LEMMA CollectProgress ==
    ASSUME WideColumns, EngineInv, LedgerReplays, PendingLate, RunProgress(run), Collect
    PROVE  RunProgress(run')
<1>1. PICK r : r = run'
  OBVIOUS
<1>2. /\ r.phase = "entry" /\ r.upto = clock /\ r.todo = <<>> /\ r.queue = run.queue
      /\ r.now = run.now /\ run.phase = "collect"
  BY <1>1 DEF EngineInv, EngineTypeOK, RunType, Collect, Planning
<1>3. LateBelow(clock)
  BY DEF PendingLate, LateBelow, Pending, Placed
<1>4. ASSUME NEW s \in Created, terms[s].created_at < run.now
      PROVE  Within(s, clock)
  <2>1. Books(s) /\ CheckpointsKept(s)
    BY DEF LedgerReplays, Books
  <2>2. /\ Due(s) - 1 <= Resolved(s) /\ Resolved(s) \in Int /\ Due(s) \in Nat /\ clock \in Int
        /\ Resolved(s) < Due(s) \/ Resolved(s) < clock
        /\ terms[s] \in EngineTerm
    BY <2>1, ResolvedIs
  <2>3. Due(s) <= terms[s].created_at + 1 /\ terms[s].created_at \in Int
    BY <2>2, FirstSafeOpenNat, EngineAssumption DEF Due, Minute
  <2>4. run.now <= clock /\ run.now \in Int
    BY Bounds DEF EngineInv
  <2>5. Due(s) <= clock
    BY <1>4, <2>2, <2>3, <2>4
  <2>6. Resolved(s) < clock
    BY <2>2, <2>5
  <2>7. Settled(s) /\ Resolved(s) + 1 = clock => Holds(s, ReplayTo(s, Resolved(s)))
    BY <2>1, <2>2, SettledRows
  <2> QED BY <2>6, <2>7 DEF Within
<1>5. ASSUME NEW s \in Created, terms[s].created_at < run.now
      PROVE  Unfinished(s) => Queued(s, run.queue)
  BY <1>2, <1>5 DEF RunProgress, Progress, Monitoring
<1> QED BY <1>1, <1>2, <1>3, <1>4, <1>5, NothingAdmitted DEF RunProgress, Monitoring, Progress

\* A signal leaves the queue when the candles of the snapshot are used up.
LEMMA EndSignalProgress ==
    ASSUME EngineInv, LedgerReplays, RunWaits(run), RunProgress(run), EndSignal
    PROVE  RunProgress(run')
<1> DEFINE first == IF run.upto > Window THEN run.upto - Window ELSE 0
           monitored == run.active \/ TrackActive(Signal, "MANAGED")
<1>1. run' = [run EXCEPT !.active = monitored, !.queue = Tail(run.queue), !.cursor = first]
      /\ run.todo = <<>> /\ run.phase = "entry" /\ RunType(run) /\ run.queue # <<>>
      /\ run.cursor = run.upto
  BY DEF EndSignal, Planning, EngineInv, EngineTypeOK
<1> HIDE DEF first, monitored
<1>2. PICK r, tail, s : r = run' /\ tail = Tail(run.queue) /\ s = Head(run.queue)
  OBVIOUS
<1>3. /\ r.phase = "entry" /\ r.upto = run.upto /\ r.todo = <<>> /\ r.queue = tail
      /\ r.now = run.now
  BY <1>1, <1>2 DEF RunType
<1>4. /\ run.queue \in Seq(SignalId) /\ Len(run.queue) \in Nat
      /\ \A n \in 1..Len(run.queue) : n = 1 \/ (n - 1 \in 1..Len(tail) /\ run.queue[n] = tail[n - 1])
      /\ run.queue[1] = s
  <2>1. run.queue \in Seq(SignalId)
    BY Inherits DEF EngineInv
  <2>2. /\ Len(run.queue) \in Nat /\ Len(tail) = Len(run.queue) - 1 /\ s = run.queue[1]
        /\ \A n \in 1..Len(tail) : tail[n] = run.queue[n + 1]
    BY <1>1, <1>2, <2>1, HeadTailProperties, LenProperties
  <2>3. ASSUME NEW n \in 1..Len(run.queue), n # 1
        PROVE  n - 1 \in 1..Len(tail) /\ run.queue[n] = tail[n - 1]
    <3>1. n - 1 \in 1..Len(tail) /\ (n - 1) + 1 = n
      BY <2>2, <2>3
    <3> QED BY <2>2, <3>1
  <2> QED BY <2>1, <2>2, <2>3
<1>5. s \in Created /\ run.upto \in Int /\ run.upto <= clock /\ 0 <= run.upto
  BY <1>1, <1>2, RunSignal DEF EngineInv, EngineTypeOK, RunOK
<1>6. EntryWaits(s, run.upto, run.upto, <<>>)
  BY <1>1, <1>2 DEF RunWaits
<1>7. ASSUME terms[s].created_at < run.now, Within(s, run.upto)
      PROVE  CaughtUp(s, run.upto)
  <2>1. Books(s) /\ CheckpointsKept(s)
    BY <1>5 DEF LedgerReplays, Books
  <2>2. /\ Resolved(s) \in Int /\ Resolved(s) >= -1
    BY <1>5, <2>1, ResolvedIs
  <2>3. ~(run.upto <= Resolved(s))
    BY <1>5, <1>7, <2>2 DEF Within
  <2>4. run.upto <= Resolved(s) + 1
    <3>1. run.upto = WindowStart(run.upto) => run.upto = 0
      BY <1>5, EngineAssumption DEF WindowStart
    <3> QED BY <1>5, <1>6, <2>2, <3>1 DEF EntryWaits
  <2>5. TrackActive(s, "MANAGED") => run.upto <= NextManagedOf(s)
    BY <1>6, <2>3, NothingPending DEF EntryWaits
  <2> QED BY <2>4, <2>5 DEF CaughtUp
<1>8. ASSUME NEW x \in Created, terms[x].created_at < run.now
      PROVE  Progress(x, r)
  <2>1. Progress(x, run) /\ Within(x, run.upto)
    BY <1>1, <1>8 DEF RunProgress, Monitoring, Progress
  <2>2. Queued(x, run.queue) => Queued(x, tail) \/ x = s
    BY <1>4 DEF Queued
  <2>3. x = s => CaughtUp(x, run.upto)
    BY <1>7, <1>8, <2>1
  <2> QED BY <1>1, <1>3, <2>1, <2>2, <2>3 DEF Progress, Monitoring
<1>9. LateBelow(r.upto)
  BY <1>1, <1>3 DEF RunProgress, Monitoring
<1> QED BY <1>2, <1>3, <1>8, <1>9, NothingAdmitted DEF RunProgress

\* A command about candle q that admits no signal.
About(c, q) ==
    /\ c.operation \notin {"allocate_signal_id", "create_signal"}
    /\ c.operation \in Moves => c.at = q

AllAbout(list, q) == \A c : Listed(c, list) => About(c, q)

\* A list about one candle says nothing of the next one, and admits nothing.
LEMMA AboutPast ==
    ASSUME NEW q \in Int, NEW n \in Int, q < n, NEW list, AllAbout(list, q), NEW now
    PROVE  Below(list, n) /\ Admits(list, now)
<1>1. \A m \in 1..Len(list) : About(list[m], q)
  BY DEF AllAbout, Listed
<1> QED BY <1>1 DEF Below, Admits, About

\* An empty list is about any candle.
LEMMA NothingAbout == \A q : AllAbout(<<>>, q)
BY EmptySeq DEF AllAbout, Listed

\* Messages are about no candle.
LEMMA SendsAbout ==
    ASSUME NEW s, NEW i, NEW q, NEW actions \in Seq(Announcement)
    PROVE  AllAbout(Enqueues(s, i, actions), q)
<1> SUFFICES ASSUME NEW c, Listed(c, Enqueues(s, i, actions)) PROVE About(c, q)
  BY DEF AllAbout
<1>1. PICK list : list = Enqueues(s, i, actions)
  OBVIOUS
<1>2. Len(list) = Len(actions)
      /\ \A m \in 1..Len(actions) : list[m].operation = "enqueue_notification"
  BY <1>1, EnqueuesAre
<1>3. c.operation = "enqueue_notification"
  BY <1>1, <1>2 DEF Listed
<1> QED BY <1>3 DEF About, Moves, Operation

\* The first half of a candle is about that candle.
LEMMA EntryAbout == AllAbout(EntryCommands, run.cursor)
<1> SUFFICES ASSUME NEW c, Listed(c, EntryCommands) PROVE About(c, run.cursor)
  BY DEF AllAbout
<1>1. CASE Expires
  <2>1. PICK x : x = ExpireCommand
    OBVIOUS
  <2>2. Listed(c, <<x>>)
    BY <1>1, <2>1 DEF EntryCommands
  <2>3. c = x
    BY <2>2 DEF Listed
  <2> QED BY <2>1, <2>3 DEF ExpireCommand, Command, About, Moves
<1>2. CASE ~Expires /\ Activates
  <2>1. PICK x : x = ActivateCommand
    OBVIOUS
  <2>2. Listed(c, <<x>>)
    BY <1>2, <2>1 DEF EntryCommands
  <2>3. c = x
    BY <2>2 DEF Listed
  <2> QED BY <2>1, <2>3 DEF ActivateCommand, Command, About, Moves
<1>3. CASE ~Expires /\ ~Activates
  BY <1>3, EmptySeq DEF EntryCommands, Listed
<1> QED BY <1>1, <1>2, <1>3

\* So is the second half.
LEMMA ExitAbout ==
    ASSUME WideColumns, EngineInv, run.queue # <<>>, run.cursor < clock
    PROVE  AllAbout(ExitCommands, run.cursor)
<1> SUFFICES ASSUME NEW c, Listed(c, ExitCommands) PROVE About(c, run.cursor)
  BY DEF AllAbout
<1>1. /\ CloseCommands \in Seq(EngineCommand) /\ MarkResolved \in Seq(EngineCommand)
      /\ AnnounceCandle \in Seq(EngineCommand) /\ run.actions \o ExitActions \in Seq(Announcement)
  <2>1. run.actions \in Seq(Announcement) /\ ExitActions \in Seq(Announcement)
    BY ExitActionsType DEF EngineInv, EngineTypeOK, RunType
  <2> QED BY <2>1, ExitCommandsType, ConcatProperties
<1>2. Listed(c, CloseCommands) \/ Listed(c, MarkResolved) \/ Listed(c, AnnounceCandle)
  <2>1. CloseCommands \o MarkResolved \in Seq(EngineCommand)
    BY <1>1, ConcatProperties
  <2>2. Listed(c, CloseCommands \o MarkResolved) \/ Listed(c, AnnounceCandle)
    BY <1>1, <2>1, ListedJoin DEF ExitCommands
  <2> QED BY <1>1, <2>2, ListedJoin
<1>3. CASE Listed(c, CloseCommands)
  <2>1. Len(Exiting) \in Nat /\ Exiting \in Seq(Variant)
    BY ExitingIs, LenProperties
  <2>2. PICK n \in 1..Len(Exiting) : c = CloseCommand(Exiting[n])
    BY <1>3, <2>1 DEF CloseCommands, Listed
  <2>3. PICK v, closing : v = Exiting[n] /\ closing =
           ExitClosing(Terms, trade[Signal].fill_price, track[Signal][v], Candle(run.cursor),
                       OnActivationCandle)
    OBVIOUS
  <2>4. c = Command("close_track", Signal, run.cursor,
                    CommandKey(Signal, run.cursor, v, closing.close_event),
                    [variant |-> v, closing |-> closing, payload |-> {}])
    BY <2>2, <2>3, Zenon DEF CloseCommand
  <2> QED BY <2>4 DEF Command, About
<1>4. CASE Listed(c, MarkResolved)
  <2>1. PICK mark : mark = Command("advance_checkpoint", Signal, run.cursor,
                                   LifecycleCheckpoint(Signal), Null)
    OBVIOUS
  <2>2. Listed(c, <<mark>>)
    BY <1>4, <2>1 DEF MarkResolved
  <2>3. c = mark
    BY <2>2 DEF Listed
  <2> QED BY <2>1, <2>3 DEF Command, About
<1>5. CASE Listed(c, AnnounceCandle)
  BY <1>1, <1>5, SendsAbout DEF AnnounceCandle, AllAbout
<1> QED BY <1>2, <1>3, <1>4, <1>5

\* And so is its management.
LEMMA DecideAbout ==
    ASSUME WideColumns, EngineInv, run.queue # <<>>, run.cursor < clock, TrackActive(Signal, "MANAGED")
    PROVE  AllAbout(Decide(run.cursor), run.cursor)
<1> SUFFICES ASSUME NEW c, Listed(c, Decide(run.cursor)) PROVE About(c, run.cursor)
  BY DEF AllAbout
<1> DEFINE i == run.cursor
           d == Decision(Terms, trade[Signal], track[Signal]["MANAGED"], Candle(i),
                         OnActivationCandle)
           k == CommandKey(Signal, i, "management", "")
           mark == Command("advance_checkpoint", Signal, i, ManagementCheckpoint(Signal), Null)
           apply == Command("apply_management_decision", Signal, i, k, d)
           tell == IF d.changes_managed_result
                   THEN Enqueues(Signal, i, <<DecisionAction(d)>>) ELSE <<>>
<1>1. About(apply, i) /\ About(mark, i)
  BY DEF Command, About
<1>2. Signal \in SignalId /\ i \in Minute /\ <<DecisionAction(d)>> \in Seq(Announcement)
  BY MonitoredSignal DEF EngineInv, EngineTypeOK, RunType, DecisionAction, Announcement
<1>3. apply \in EngineCommand /\ mark \in EngineCommand
  BY PlannedDecisionType
<1>4. tell \in Seq(EngineCommand)
  BY <1>2, EnqueuesType, EmptySeq
<1>5. Decide(i) = IF DecisionExists(k) THEN <<mark>> ELSE <<apply, mark>> \o tell
  BY DEF Decide
<1>6. Listed(c, tell) => About(c, i)
  <2>1. ~Listed(c, <<>>)
    BY EmptySeq DEF Listed
  <2> QED BY <1>2, <2>1, SendsAbout DEF AllAbout
<1> HIDE DEF tell, apply, mark, d, k, EngineCommand
<1>7. Listed(c, <<mark>>) => c = mark
  BY DEF Listed
<1>8. Listed(c, <<apply, mark>>) => c \in {apply, mark}
  <2>1. Len(<<apply, mark>>) = 2 /\ <<apply, mark>>[1] = apply /\ <<apply, mark>>[2] = mark
    OBVIOUS
  <2> QED BY <2>1 DEF Listed
<1>9. Listed(c, <<apply, mark>> \o tell) => Listed(c, <<apply, mark>>) \/ Listed(c, tell)
  <2>1. <<apply, mark>> \in Seq(EngineCommand)
    BY <1>3
  <2> QED BY <1>4, <2>1, ListedJoin
<1> QED BY <1>1, <1>5, <1>6, <1>7, <1>8, <1>9

\* A run that plans a candle of its snapshot shows what it showed before.
LEMMA PlannedProgress ==
    ASSUME RunProgress(run), Monitoring(run), run.phase # "report", NEW r,
           r.phase \in {"entry", "exit", "manage"}, r.upto = run.upto, r.queue = run.queue,
           r.now = run.now, Below(r.todo, r.upto), Admits(r.todo, r.now)
    PROVE  RunProgress(r)
<1>1. Monitoring(r) /\ r.phase # "report" /\ r.phase # "collect"
  BY DEF Monitoring
<1>2. \A s : Progress(s, run) => Progress(s, r)
  BY <1>1 DEF Progress, Queued, Monitoring
<1> QED BY <1>1, <1>2 DEF RunProgress

\* The first half of a candle.
LEMMA PlanEntryProgress ==
    ASSUME WideColumns, EngineInv, RunProgress(run), PlanEntry
    PROVE  RunProgress(run')
<1> PICK r : r = run'
  OBVIOUS
<1>0. /\ run.phase = "entry" /\ run.todo = <<>> /\ run.cursor < run.upto /\ RunType(run)
      /\ EntryCommands \in Seq(EngineCommand) /\ EntryActions \in Seq(Announcement)
      /\ run.cursor \in Int /\ run.upto \in Int
  BY EntryPlanType DEF PlanEntry, Planning, AtCandle, EngineInv, EngineTypeOK, RunType, Minute
<1>1. CASE run' = Failed
  BY <1>1, EndedProgress
<1>2. CASE run' = [run EXCEPT !.phase = "manage"]
  <2>1. /\ r.phase = "manage" /\ r.queue = run.queue /\ r.upto = run.upto /\ r.todo = <<>>
        /\ r.now = run.now
    BY <1>0, <1>2 DEF RunType
  <2> QED BY <1>0, <2>1, NothingAdmitted, PlannedProgress DEF Monitoring
<1>3. CASE run' = [run EXCEPT !.phase = "exit", !.actions = EntryActions, !.todo = EntryCommands]
  <2>0. PICK plan, acts : plan = EntryCommands /\ acts = EntryActions
    OBVIOUS
  <2>1. r = [run EXCEPT !.phase = "exit", !.actions = acts, !.todo = plan]
    BY <1>3, <2>0
  <2>2. /\ r.phase = "exit" /\ r.queue = run.queue /\ r.upto = run.upto /\ r.todo = plan
        /\ r.now = run.now
    BY <1>0, <2>1 DEF RunType
  <2>3. Below(plan, run.upto) /\ Admits(plan, run.now)
    BY <1>0, <2>0, EntryAbout, AboutPast
  <2> QED BY <1>0, <2>2, <2>3, PlannedProgress DEF Monitoring
<1> QED BY <1>1, <1>2, <1>3 DEF PlanEntry

\* The second half.
LEMMA PlanExitProgress ==
    ASSUME WideColumns, EngineInv, RunProgress(run), PlanExit
    PROVE  RunProgress(run')
<1> PICK r, plan : r = run' /\ plan = ExitCommands
  OBVIOUS
<1>0. /\ run.phase = "exit" /\ run.todo = <<>> /\ RunType(run) /\ run.cursor < run.upto
      /\ run.cursor \in Int /\ run.upto \in Int /\ run.queue # <<>> /\ run.cursor < clock
  BY Bounds DEF PlanExit, Planning, EngineInv, EngineTypeOK, RunPlace, RunType, Minute
<1>1. r = [run EXCEPT !.phase = "manage", !.actions = <<>>, !.todo = plan]
  BY DEF PlanExit
<1>2. /\ r.phase = "manage" /\ r.queue = run.queue /\ r.upto = run.upto /\ r.todo = plan
      /\ r.now = run.now
  BY <1>0, <1>1 DEF RunType
<1>3. Below(plan, run.upto) /\ Admits(plan, run.now)
  BY <1>0, ExitAbout, AboutPast
<1> QED BY <1>0, <1>2, <1>3, PlannedProgress DEF Monitoring

\* Its management.
LEMMA PlanManagementProgress ==
    ASSUME WideColumns, EngineInv, RunProgress(run), PlanManagement
    PROVE  RunProgress(run')
<1> PICK r, plan, n : r = run' /\ plan = Decide(run.cursor) /\ n = run.cursor + 1
  OBVIOUS
<1>0. /\ run.phase = "manage" /\ run.todo = <<>> /\ RunType(run) /\ run.cursor < run.upto
      /\ run.cursor \in Int /\ run.upto \in Int /\ run.queue # <<>> /\ run.cursor < clock
  BY Bounds DEF PlanManagement, Planning, EngineInv, EngineTypeOK, RunPlace, RunType, Minute
<1>1. CASE run' = Failed
  BY <1>1, EndedProgress
<1>2. CASE /\ Managing
           /\ run' = [run EXCEPT !.phase = "entry", !.cursor = @ + 1, !.todo = Decide(run.cursor)]
  <2>1. r = [run EXCEPT !.phase = "entry", !.cursor = n, !.todo = plan]
    BY <1>2
  <2>2. /\ r.phase = "entry" /\ r.queue = run.queue /\ r.upto = run.upto /\ r.todo = plan
        /\ r.now = run.now
    BY <1>0, <2>1 DEF RunType
  <2>3. AllAbout(plan, run.cursor)
    BY <1>0, <1>2, DecideAbout DEF Managing
  <2>4. Below(plan, run.upto) /\ Admits(plan, run.now)
    BY <1>0, <2>3, AboutPast
  <2> QED BY <1>0, <2>2, <2>4, PlannedProgress DEF Monitoring
<1>3. CASE run' = [run EXCEPT !.phase = "entry", !.cursor = @ + 1]
  <2>1. r = [run EXCEPT !.phase = "entry", !.cursor = n]
    BY <1>3
  <2>2. /\ r.phase = "entry" /\ r.queue = run.queue /\ r.upto = run.upto /\ r.todo = <<>>
        /\ r.now = run.now
    BY <1>0, <2>1 DEF RunType
  <2> QED BY <1>0, <2>2, NothingAdmitted, PlannedProgress DEF Monitoring
<1> QED BY <1>1, <1>2, <1>3 DEF PlanManagement

\* A new signal is dated by the minute of its run.
LEMMA EvaluateProgress ==
    ASSUME EngineInv, RunProgress(run), Evaluate PROVE RunProgress(run')
<1> PICK r : r = run'
  OBVIOUS
<1>0. run.todo = <<>> /\ RunType(run) /\ run.phase = "entry" /\ run.queue = <<>>
  BY DEF Evaluate, Planning, EngineInv, EngineTypeOK
<1>1. ASSUME r.phase = "report", r.queue = run.queue, r.upto = run.upto, r.now = run.now,
             Admits(r.todo, r.now), Below(r.todo, r.upto)
      PROVE  RunProgress(r)
  <2>1. Monitoring(r) /\ Monitoring(run) /\ r.phase # "collect"
    BY <1>0, <1>1 DEF Monitoring
  <2>2. \A s : Progress(s, run) => Progress(s, r)
    BY <1>1, <2>1 DEF Progress, Queued
  <2> QED BY <1>0, <1>1, <2>1, <2>2 DEF RunProgress
<1>2. CASE run' = [run EXCEPT !.phase = "report"]
  <2>1. /\ r.phase = "report" /\ r.queue = run.queue /\ r.upto = run.upto /\ r.todo = <<>>
        /\ r.now = run.now
    BY <1>0, <1>2 DEF RunType
  <2> QED BY <1>1, <2>1, NothingAdmitted
<1>3. ASSUME NEW setup \in Setup, NEW aligned \in StartsAligned,
             run' = [run EXCEPT !.phase = "report",
                       !.todo = <<Command("allocate_signal_id", Null, run.now, DateOf[run.now],
                                          NewTerms(setup, aligned))>>]
      PROVE  RunProgress(r)
  <2>1. PICK t, c : /\ t = NewTerms(setup, aligned)
                    /\ c = Command("allocate_signal_id", Null, run.now, DateOf[run.now], t)
    OBVIOUS
  <2>2. c.operation = "allocate_signal_id" /\ c.data = t /\ t.created_at = run.now
    BY <2>1 DEF Command, NewTerms
  <2>3. /\ r.phase = "report" /\ r.queue = run.queue /\ r.upto = run.upto /\ r.todo = <<c>>
        /\ r.now = run.now
    BY <1>0, <1>3, <2>1 DEF RunType
  <2>4. \A n \in 1..Len(<<c>>) : <<c>>[n] = c
    OBVIOUS
  <2>5. Admits(<<c>>, run.now)
    BY <2>2, <2>4 DEF Admits
  <2>6. Below(<<c>>, run.upto)
    BY <2>2, <2>4 DEF Below, Moves, Operation
  <2> QED BY <1>1, <2>3, <2>5, <2>6
<1> QED BY <1>2, <1>3 DEF Evaluate

\* A report is about no signal.
LEMMA ReportProgress ==
    ASSUME EngineInv, Report PROVE RunProgress(run')
<1> PICK r, todo : r = run' /\ todo = IF ~run.paused /\ run.now \in ReportMinutes
                                      THEN Enqueues(Null, run.now, <<"REPORT">>) ELSE <<>>
  OBVIOUS
<1>0. RunType(run)
  BY DEF EngineInv, EngineTypeOK
<1>1. r = [run EXCEPT !.phase = "record", !.todo = todo]
  BY DEF Report
<1>2. r.phase = "record" /\ r.todo = todo
  BY <1>0, <1>1 DEF RunType
<1>3. AllAbout(todo, 0)
  <2>1. CASE todo = <<>>
    BY <2>1, NothingAbout
  <2>2. CASE todo = Enqueues(Null, run.now, <<"REPORT">>)
    <3>1. <<"REPORT">> \in Seq(Announcement)
      BY DEF Announcement
    <3> QED BY <2>2, <3>1, SendsAbout
  <2> QED BY <2>1, <2>2
<1>4. Admits(todo, r.now)
  BY <1>3, AboutPast
<1> QED BY <1>2, <1>4, RestingProgress

\* Every planning step keeps what the run shows.
LEMMA PlanningProgress ==
    ASSUME WideColumns, EngineInv, LedgerReplays, PendingLate, RunWaits(run), RunProgress(run),
           \/ Start \/ Load \/ Collect \/ PlanEntry \/ PlanExit \/ PlanManagement \/ EndSignal
           \/ Evaluate \/ Report \/ Record
    PROVE  RunProgress(run')
<1>1. CASE Record
  BY <1>1, EndedProgress DEF Record
<1> QED BY <1>1, StartProgress, LoadProgress, CollectProgress, PlanEntryProgress, PlanExitProgress,
           PlanManagementProgress, EndSignalProgress, EvaluateProgress, ReportProgress

----------------------------------------------------------------------------
(* What a run shows, step by step.                                         *)

\* A run shows the same after a command that was not its own to lose, and the
\* commands that are out do not reach beyond its snapshot.
LEMMA ExecutingProgress ==
    ASSUME WideColumns, EngineInv, LedgerReplays, UNCHANGED <<clock, candles>>,
           NEW c \in EngineCommand, Keyed(c), Pending(c, {}),
           Executes(c) \/ UNCHANGED ledgerVars, late' \subseteq late,
           NEW r, RunOK(r), RunProgress(r),
           Monitoring(r) /\ c.operation \in Moves => c.at < r.upto,
           c.operation = "create_signal" => c.data.created_at = r.now
    PROVE  RunProgress(r)'
<1>1. Sequel(c)
  BY ExecutingSequel
<1>2. [Next]_ledgerVars
  BY ExecutesIsLedgerStep
<1>3. r.now \in Int
  BY DEF RunOK, RunType, Minute
<1> HIDE DEF EngineCommand
<1>4. \A s \in Created' : s \in Created \/ ~(terms'[s].created_at < r.now)
  BY <1>3, FreshDated
<1> QED BY <1>1, <1>2, <1>4, ProgressCarried

\* Nothing is lost either while no command is executed.
LEMMA RestingKept ==
    ASSUME WideColumns, EngineInv, LedgerReplays, UNCHANGED <<ledgerVars, late>>,
           clock' \in Int, clock' >= clock, \A i \in 0..(clock - 1) : Candle(i)' = Candle(i),
           NEW r, RunOK(r), RunProgress(r)
    PROVE  RunProgress(r)'
<1>1. PICK c : c = Command("allocate_signal_id", Null, 0, Null, Null)
  OBVIOUS
<1>2. c.operation \notin Moves
  BY <1>1 DEF Command, Moves, Operation
<1>3. Sequel(c)
  BY RestSequel
<1>4. \A s \in Created' : s \in Created
  BY DEF Created, ledgerVars, tradeVars
<1> QED BY <1>2, <1>3, <1>4, ProgressCarried

\* A run that has failed or ended shows nothing.
LEMMA EndedKept ==
    ASSUME run' \in {Failed, Idle} PROVE RunProgress(run)'
<1>1. /\ Failed.todo = <<>> /\ Failed.phase = "record" /\ Idle.todo = <<>> /\ Idle.phase = "idle"
  BY DEF Failed, Idle
<1>2. PICK r : r = run'
  OBVIOUS
<1>3. r.todo = <<>> /\ r.phase \in {"record", "idle"}
  BY <1>1, <1>2
<1>4. Admits(r.todo, r.now)
  BY <1>3, NothingAdmitted
<1>5. RunProgress(r)'
  BY <1>3, <1>4 DEF RunProgress, Monitoring, Admits
<1> QED BY <1>2, <1>5

\* What a command that is sent means to the run.
LEMMA HeadDated ==
    ASSUME NEW list \in Seq(EngineCommand), list # <<>>, NEW c, c = Prepared(Head(list)),
           Likened(Head(list), c), NEW n, NEW now, Admits(list, now)
    PROVE  /\ c.operation \in {"allocate_signal_id", "create_signal"} => c.data.created_at = now
           /\ Below(list, n) /\ c.operation \in Moves => c.at < n
           /\ Admits(Tail(list), now) /\ (Below(list, n) => Below(Tail(list), n))
<1> HIDE DEF EngineCommand
<1>1. /\ 1 \in 1..Len(list) /\ list[1] = Head(list)
      /\ \A m \in 1..Len(Tail(list)) : m + 1 \in 1..Len(list) /\ Tail(list)[m] = list[m + 1]
  OBVIOUS
<1>2. c.operation = Head(list).operation /\ c.at = Head(list).at
  BY DEF Likened
<1>3. c.operation \in {"allocate_signal_id", "create_signal"} => c = Head(list)
  BY <1>2 DEF Prepared
<1> QED BY <1>1, <1>2, <1>3 DEF Below, Admits

\* The signal that was allocated is created in the name of the same run.
LEMMA CreateAdmits ==
    ASSUME NEW s, NEW t, NEW todo, todo = CreateCommands(s, t), t.created_at = run.now, NEW n
    PROVE  Admits(todo, run.now) /\ Below(todo, n)
<1>1. PICK a, b : /\ a = Command("create_signal", s, run.now, CreatedNotice(s), t)
                  /\ b = Command("enqueue_notification", s, run.now, CreatedNotice(s), Null)
  OBVIOUS
<1>2. a.operation = "create_signal" /\ a.data = t /\ b.operation = "enqueue_notification"
  BY <1>1 DEF Command
<1>3. Len(todo) = 2 /\ todo[1] = a /\ todo[2] = b
  BY <1>1 DEF CreateCommands
<1> QED BY <1>2, <1>3 DEF Admits, Below, Moves, Operation

\* Sending a command keeps what a run shows.
LEMMA SendProgress ==
    ASSUME WideColumns, EngineInv, EngineInv', TruthInv, ReplayInv, RunProgress(run), Send
    PROVE  RunProgress(run)'
<1> PICK c : c = Prepared(Head(run.todo))
  OBVIOUS
<1>0. /\ run.todo # <<>> /\ Executes(c) /\ run' = IF Accepted(c) THEN AfterReply(c) ELSE Failed
      /\ UNCHANGED <<clock, candles, late>> /\ RunType(run) /\ RunOK(run)
  BY Inherits DEF Send, environment, EngineInv, EngineTypeOK
<1>1. /\ c \in EngineCommand /\ Keyed(c) /\ Pending(c, {}) /\ Likened(Head(run.todo), c)
      /\ run.todo \in Seq(EngineCommand) /\ LedgerReplays
  BY <1>0, HeadReplays
<1>2. CASE ~Accepted(c)
  BY <1>0, <1>2, EndedKept
<1>3. CASE Accepted(c)
  <2>1. PICK r, list : r = run' /\ list = run.todo
    OBVIOUS
  <2>2. Admits(list, run.now) /\ (Monitoring(run) => Below(list, run.upto))
    BY <2>1 DEF RunProgress
  <2>3. /\ c.operation \in {"allocate_signal_id", "create_signal"} => c.data.created_at = run.now
        /\ Below(list, run.upto) /\ c.operation \in Moves => c.at < run.upto
        /\ Admits(Tail(list), run.now) /\ (Below(list, run.upto) => Below(Tail(list), run.upto))
    BY <1>0, <1>1, <2>1, <2>2, HeadDated
  <2>4. ASSUME NEW todo, run' = [run EXCEPT !.todo = todo], Admits(todo, run.now),
               Monitoring(run) => Below(todo, run.upto)
        PROVE  RunProgress(r)
    <3>1. /\ r.phase = run.phase /\ r.queue = run.queue /\ r.upto = run.upto /\ r.now = run.now
          /\ r.todo = todo
      BY <1>0, <2>1, <2>4 DEF RunType
    <3>2. Monitoring(r) <=> Monitoring(run)
      BY <3>1 DEF Monitoring
    <3>3. \A s : Progress(s, run) => Progress(s, r)
      BY <3>1, <3>2 DEF Progress
    <3> QED BY <2>4, <3>1, <3>2, <3>3 DEF RunProgress
  <2>5. RunProgress(r)
    <3>1. CASE c.operation = "allocate_signal_id"
      <4>1. PICK s, t, todo : s = <<c.key, sequence'[c.key]>> /\ t = c.data
                              /\ todo = CreateCommands(s, t)
        OBVIOUS
      <4>2. run' = [run EXCEPT !.todo = todo]
        BY <1>0, <1>3, <3>1, <4>1 DEF AfterReply
      <4>3. Admits(todo, run.now) /\ Below(todo, run.upto)
        BY <2>3, <3>1, <4>1, CreateAdmits
      <4> QED BY <2>4, <4>2, <4>3
    <3>2. CASE c.operation # "allocate_signal_id"
      <4>1. PICK todo : todo = Tail(list)
        OBVIOUS
      <4>2. run' = [run EXCEPT !.todo = todo]
        BY <1>0, <1>3, <2>1, <3>2, <4>1 DEF AfterReply
      <4> QED BY <2>2, <2>3, <2>4, <4>1, <4>2
    <3> QED BY <3>1, <3>2
  <2>6. RunOK(r) /\ r.upto = run.upto /\ r.now = run.now /\ (Monitoring(r) <=> Monitoring(run))
    <3>1. PICK todo : run' = [run EXCEPT !.todo = todo]
      BY <1>0, <1>3 DEF AfterReply
    <3>2. r.upto = run.upto /\ r.now = run.now /\ r.phase = run.phase
      BY <1>0, <2>1, <3>1 DEF RunType
    <3>3. RunOK(r)
      <4>1. /\ r.queue = run.queue /\ r.upto = run.upto /\ r.now = run.now
            /\ r.phase = run.phase /\ r.cursor = run.cursor
        BY <1>0, <2>1, <3>1 DEF RunType
      <4>2. RunType(r)
        BY <2>1 DEF EngineInv, EngineTypeOK
      <4>3. QueueCreated(r) /\ RunPlace(r)
        BY <1>0, <4>1 DEF RunOK, QueueCreated, RunPlace
      <4> QED BY <4>2, <4>3 DEF RunOK
    <3> QED BY <3>2, <3>3 DEF Monitoring
  <2>7. RunProgress(r)'
    BY <1>0, <1>1, <2>2, <2>3, <2>5, <2>6, <2>1, ExecutingProgress
  <2> QED BY <2>1, <2>7
<1> QED BY <1>2, <1>3
\* So does a step in which no command is executed.
LEMMA CalmProgress ==
    ASSUME WideColumns, EngineInv, LedgerReplays, UNCHANGED <<ledgerVars, late>>,
           clock' \in Int, clock' >= clock, \A i \in 0..(clock - 1) : Candle(i)' = Candle(i),
           RunOK(run'), RunProgress(run')
    PROVE  RunProgress(run)'
<1>1. PICK r : r = run'
  OBVIOUS
<1>2. RunProgress(r)'
  BY <1>1, RestingKept
<1> QED BY <1>1, <1>2

\* So does a command that is executed after its run gave up on it.
LEMMA ArriveLateProgress ==
    ASSUME WideColumns, "create_signal" \notin LateOps, EngineInv, TruthInv, ReplayInv, SuccessInv, ArriveLate
    PROVE  RunProgress(run)'
<1>0. PICK c \in late : Executes(c) /\ late' = late \ {c} /\ UNCHANGED <<clock, candles, run>>
  BY DEF ArriveLate
<1>1. c \in EngineCommand /\ Keyed(c) /\ Pending(c, {}) /\ LedgerReplays
  <2> HIDE DEF EngineCommand
  <2> QED BY DEF EngineInv, EngineTypeOK, TruthInv, TruthfulLate, ReplayInv, PendingLate
<1>2. PICK r : r = run
  OBVIOUS
<1>3. RunOK(r) /\ RunProgress(r) /\ c.operation # "create_signal" /\ late' \subseteq late
  BY <1>0, <1>2, Inherits DEF EngineInv, SuccessInv, LateKnown
<1>4. Monitoring(r) /\ c.operation \in Moves => c.at < r.upto
  BY <1>3 DEF RunProgress, LateBelow
<1>5. RunProgress(r)'
  BY <1>0, <1>1, <1>3, <1>4, ExecutingProgress
<1> QED BY <1>0, <1>2, <1>5

\* A run gives up on no command but one the Worker may be late with.
LEMMA LateStep ==
    ASSUME WideColumns, EngineInv, TruthInv, ReplayInv, LateKnown, [EngineNext]_vars
    PROVE  LateKnown'
<1> SUFFICES ASSUME NEW c \in late' PROVE c.operation \in LateOps
  BY DEF LateKnown
<1>1. CASE c \in late
  BY <1>1 DEF LateKnown
<1>2. CASE /\ run.todo # <<>> /\ c = Prepared(Head(run.todo))
           /\ Head(run.todo).operation \in LateOps
  BY <1>2, HeadReplays DEF Likened
<1> QED BY <1>1, <1>2, NextLate

\* Every step keeps what a run shows.
LEMMA SuccessStep ==
    ASSUME WideColumns, "create_signal" \notin LateOps, EngineInv, EngineInv', TruthInv, ReplayInv,
           SuccessInv, [EngineNext]_vars
    PROVE  SuccessInv'
<1> SUFFICES RunProgress(run)'
  BY LateStep DEF SuccessInv
<1>0. /\ clock \in Int /\ RunOK(run) /\ RunProgress(run) /\ LedgerReplays /\ PendingLate
      /\ RunWaits(run)
  BY Inherits DEF EngineInv, EngineTypeOK, MarketType, Minute, ReplayInv, SuccessInv
<1>1. ASSUME UNCHANGED <<ledgerVars, clock, candles, late>>, RunProgress(run')
      PROVE  RunProgress(run)'
  <2>1. clock' \in Int /\ clock' >= clock /\ \A i \in 0..(clock - 1) : Candle(i)' = Candle(i)
    BY <1>0, <1>1 DEF Candle
  <2>2. RunOK(run')
    BY <1>1 DEF EngineInv, EngineTypeOK, RunOK, RunPlace, QueueCreated, ledgerVars, tradeVars
  <2> QED BY <1>0, <1>1, <2>1, <2>2, CalmProgress
<1>2. CASE \/ Start \/ Load \/ Collect \/ PlanEntry \/ PlanExit \/ PlanManagement \/ EndSignal
           \/ Evaluate \/ Report \/ Record
  <2>1. UNCHANGED <<ledgerVars, clock, candles, late>>
    BY <1>2 DEF Start, Load, Collect, PlanEntry, PlanExit, PlanManagement, EndSignal, Evaluate,
         Report, Record, environment
  <2>2. RunProgress(run')
    BY <1>0, <1>2, PlanningProgress
  <2> QED BY <1>1, <2>1, <2>2
<1>3. CASE ReadFails \/ Kill \/ LoseReply \/ GiveUp
  <2>1. run' \in {Failed, Idle}
    BY <1>3 DEF ReadFails, Kill, LoseReply, GiveUp
  <2> QED BY <2>1, EndedKept
<1>4. CASE Send
  BY <1>0, <1>4, SendProgress
<1>5. CASE ArriveLate
  BY <1>5, ArriveLateProgress
<1>6. CASE Tick
  <2>1. /\ UNCHANGED <<ledgerVars, late, run>> /\ clock' = clock + 1
    BY <1>6 DEF Tick
  <2>2. \A i \in 0..(clock - 1) : Candle(i)' = Candle(i)
    <3>1. PICK x \in Candles[clock] : candles' = Append(candles, x)
      BY <1>6 DEF Tick
    <3>2. candles \in Seq(AnyCandle) /\ Len(candles) = clock
      BY DEF EngineInv, EngineTypeOK, MarketType
    <3>3. x \in AnyCandle
      BY <1>6, <3>1, Bounds DEF AnyCandle, Tick, EngineInv
    <3> HIDE DEF AnyCandle
    <3> QED BY <3>1, <3>2, <3>3 DEF Candle
  <2>3. clock' \in Int /\ clock' >= clock
    BY <1>0, <2>1
  <2>4. RunOK(run') /\ RunProgress(run')
    BY <1>0, <2>1
  <2> QED BY <1>0, <2>1, <2>2, <2>3, <2>4, CalmProgress
<1>7. CASE TogglePause \/ UNCHANGED vars
  <2>1. UNCHANGED <<ledgerVars, clock, candles, late, run>>
    BY <1>7 DEF TogglePause, vars, engineVars
  <2>2. RunProgress(run')
    BY <1>0, <2>1
  <2> QED BY <1>1, <2>1, <2>2
<1> QED BY <1>2, <1>3, <1>4, <1>5, <1>6, <1>7 DEF EngineNext, RunStep

\* What a run shows at its end: everything it monitored has caught up.
LEMMA ProgressTells ==
    ASSUME WideColumns, EngineInv, LedgerReplays, RunProgress(run)
    PROVE  SuccessMeansCaughtUp
<1> SUFFICES ASSUME run.phase = "report", NEW s \in Created, status[s] \in {"PENDING", "ACTIVE"},
                    terms[s].created_at < run.now
             PROVE  Stored(s) = ReplayTo(s, run.upto - 1)
  BY DEF SuccessMeansCaughtUp
<1>1. Monitoring(run) /\ run.queue = <<>> /\ Progress(s, run)
  BY DEF RunProgress, Monitoring
<1>2. ~Queued(s, run.queue)
  <2>1. run.queue = <<>>
    BY <1>1
  <2>2. \A n \in 1..Len(<<>>) : FALSE
    BY EmptySeq
  <2> QED BY <2>1, <2>2 DEF Queued
<1>3. Within(s, run.upto) /\ CaughtUp(s, run.upto)
  BY <1>1, <1>2 DEF Progress, Unfinished
<1>4. run.upto \in Int /\ run.upto <= clock
  BY Bounds DEF EngineInv, EngineTypeOK, RunType, Minute, RunPlace
<1> QED BY <1>3, <1>4, CaughtUpHolds

\* In the beginning there is nothing to show.
LEMMA SuccessInit == EngineInit => SuccessInv
<1> SUFFICES ASSUME EngineInit PROVE SuccessInv
  OBVIOUS
<1>1. run = Idle /\ late = {}
  BY DEF EngineInit
<1> QED BY <1>1, EndedProgress DEF SuccessInv, LateKnown

\* A run that reaches its report without a failure has caught up: every signal
\* that was open when it began has, in the ledger, exactly the status, trade,
\* tracks and outcomes of an uninterrupted replay of the candles in its snapshot -
\* whatever crashes, lost answers or late commands of earlier runs came before
\* (runtime/orchestrator.py: monitoring is finished before SUCCESS is recorded).
\* Like BookedAsReplayed it needs the window to reach back far enough, and that no
\* signal is created by a command whose run has given up on it.
THEOREM SuccessMeansCaughtUpInWindow ==
    WideColumns /\ "create_signal" \notin LateOps =>
        (EngineSpec /\ []InWindow => []SuccessMeansCaughtUp)
<1> SUFFICES ASSUME WideColumns, "create_signal" \notin LateOps
             PROVE  EngineSpec /\ []InWindow => []SuccessMeansCaughtUp
  OBVIOUS
<1>1. EngineInit => SuccessInv /\ TruthInv
  BY SuccessInit, TruthInit
<1>2. EngineInv /\ TruthInv /\ [EngineNext]_vars => TruthInv'
  BY TruthStep
<1>3. EngineInv /\ EngineInv' /\ TruthInv /\ ReplayInv /\ SuccessInv /\ [EngineNext]_vars => SuccessInv'
  BY SuccessStep
<1>4. EngineInv /\ ReplayInv /\ SuccessInv => SuccessMeansCaughtUp
  BY ProgressTells DEF ReplayInv, SuccessInv
<1>5. EngineSpec => []EngineInv
  BY EngineInvariance
<1> QED BY <1>1, <1>2, <1>3, <1>4, <1>5, ReplayInvariance, PTL DEF EngineSpec

\* With a snapshot that holds the whole history this needs no condition on the
\* window.
THEOREM CaughtUpWithinOneWindow ==
    WideColumns /\ "create_signal" \notin LateOps /\ Window >= MaxMinute =>
        (EngineSpec => []SuccessMeansCaughtUp)
<1> SUFFICES ASSUME WideColumns, "create_signal" \notin LateOps, Window >= MaxMinute
             PROVE  EngineSpec => []SuccessMeansCaughtUp
  OBVIOUS
<1>1. EngineSpec => []InWindow
  BY OneWindow
<1>2. EngineSpec /\ []InWindow => []SuccessMeansCaughtUp
  BY SuccessMeansCaughtUpInWindow
<1> QED BY <1>1, <1>2, PTL

----------------------------------------------------------------------------
(* No command of a run is refused: what a receipt stands for.              *)

\* The operation a key belongs to.
OperationOf(action) ==
    CASE action = "activate"   -> "activate_signal"
      [] action = "expire"     -> "transition_pending"
      [] action = "management" -> "apply_management_decision"
      [] OTHER                 -> "close_track"

\* Every receipt is filed under the operation of its key.
ReceiptsNamed == \A r \in receipt : r.operation = OperationOf(r.dedupe_key.action)

\* Candle i took the signal out of PENDING, and the receipt of it is there.
OpenedAt(s, i) ==
    /\ Due(s) <= i /\ i < clock /\ ReplayTo(s, i - 1).status = "PENDING"
    /\ \/ /\ Entered(s, i).status = "ACTIVE"
          /\ Duplicate(CommandKey(s, i, "activate", ""), "activate_signal")
       \/ /\ Entered(s, i).status = "EXPIRED"
          /\ Duplicate(CommandKey(s, i, "expire", ""), "transition_pending")

\* Candle i closed the track, and the receipt of it is there.
ClosedAt(s, v, i) ==
    /\ Due(s) <= i /\ i < clock /\ IsOpen(Entered(s, i), v) /\ ~IsOpen(Exited(s, i), v)
    /\ Duplicate(CommandKey(s, i, v, Exited(s, i).outcome[v].close_event), "close_track")

\* Whatever is booked of a signal was booked under the key of its candle.
Backed(s) ==
    /\ status[s] # "PENDING" => \E i \in Minute : OpenedAt(s, i)
    /\ \A v \in Variant : outcome[s][v] # Null => \E i \in Minute : ClosedAt(s, v, i)

\* The key of a command names its operation.
LEMMA KeyNamesOperation ==
    ASSUME NEW c \in EngineCommand, Keyed(c), c.operation \in Operation
    PROVE  OperationOf(c.key.action) = c.operation
<1> HIDE DEF EngineCommand
<1>0. \A s, i, action, detail : CommandKey(s, i, action, detail).action = action
  BY DEF CommandKey
<1>1. CASE c.operation = "activate_signal"
  <2>1. PICK detail : c.key = CommandKey(c.signal_id, c.at, "activate", detail)
    BY <1>1 DEF Keyed
  <2>2. c.key.action = "activate"
    BY <1>0, <2>1
  <2> QED BY <1>1, <2>2 DEF OperationOf
<1>2. CASE c.operation = "transition_pending"
  <2>1. PICK detail : c.key = CommandKey(c.signal_id, c.at, "expire", detail)
    BY <1>2 DEF Keyed
  <2>2. c.key.action = "expire"
    BY <1>0, <2>1
  <2> QED BY <1>2, <2>2 DEF OperationOf
<1>3. CASE c.operation = "close_track"
  <2>1. c.key.action = c.data.variant /\ c.data.variant \in Variant
    BY <1>0, <1>3, CommandShape DEF Operation, Keyed
  <2> QED BY <1>3, <2>1 DEF OperationOf, Variant
<1>4. CASE c.operation = "apply_management_decision"
  <2>1. PICK detail : c.key = CommandKey(c.signal_id, c.at, "management", detail)
    BY <1>4 DEF Keyed
  <2>2. c.key.action = "management"
    BY <1>0, <2>1
  <2> QED BY <1>4, <2>2 DEF OperationOf
<1> QED BY <1>1, <1>2, <1>3, <1>4 DEF Operation

\* A key without a receipt under its own operation has none at all.
LEMMA KeyIsFree ==
    ASSUME ReceiptsNamed, NEW c \in EngineCommand, Keyed(c), c.operation \in Operation,
           ~Duplicate(c.key, c.operation)
    PROVE  KeyUnused(c.key)
<1> SUFFICES ASSUME NEW op \in Operation, Receipt(c.key, op) \in receipt PROVE FALSE
  BY DEF KeyUnused
<1>1. op = OperationOf(c.key.action)
  BY DEF ReceiptsNamed, Receipt
<1>2. op = c.operation
  BY <1>1, KeyNamesOperation
<1> QED BY <1>2 DEF Duplicate

\* A command leaves its own receipt, or none and the trades as they were.
LEMMA ReceiptLeft ==
    ASSUME WideColumns, NEW c \in EngineCommand, Executes(c) \/ UNCHANGED ledgerVars
    PROVE  \/ UNCHANGED tradeVars
           \/ c.operation = "create_signal" /\ receipt' = receipt
           \/ c.operation \in Operation /\ receipt' = receipt \cup {Receipt(c.key, c.operation)}
BY TradeMoves DEF CreateSignal, ActivateSignal, TransitionPending, CloseTrack, ApplyManagement,
      Operation

\* Every receipt is filed under the operation its key names.
LEMMA NamedKept ==
    ASSUME WideColumns, ReceiptsNamed, NEW c \in EngineCommand, Keyed(c),
           Executes(c) \/ UNCHANGED ledgerVars
    PROVE  ReceiptsNamed'
<1>1. CASE receipt' = receipt
  BY <1>1 DEF ReceiptsNamed
<1>2. CASE c.operation \in Operation /\ receipt' = receipt \cup {Receipt(c.key, c.operation)}
  BY <1>2, KeyNamesOperation DEF ReceiptsNamed, Receipt
<1> QED BY <1>1, <1>2, ReceiptLeft DEF tradeVars

\* What a command does to the status and the outcomes of one signal.
LEMMA StatusMoves ==
    ASSUME WideColumns, EngineInv, LedgerReplays, NEW c \in EngineCommand, Keyed(c), Pending(c, {}),
           Executes(c) \/ UNCHANGED ledgerVars, NEW s \in Created
    PROVE  /\ status'[s] = "PENDING" => status[s] = "PENDING"
           /\ status'[s] = "ACTIVE" => status[s] \in {"ACTIVE", "PENDING"}
           /\ status[s] = "PENDING" /\ status'[s] # "PENDING" =>
                 /\ c.operation = IF status'[s] = "ACTIVE" THEN "activate_signal"
                                  ELSE "transition_pending"
                 /\ c.signal_id = s /\ Placed(c) /\ OpeningDue(c) /\ c.at = Resolved(s) + 1
           /\ \A v \in Variant : outcome[s][v] = Null /\ outcome'[s][v] # Null =>
                 /\ c.operation = "close_track" /\ c.signal_id = s /\ c.data.variant = v
                 /\ Placed(c) /\ CloseDue(c)
<1> HIDE DEF EngineCommand
<1>1. \A d \in decision : Receipt(d.dedupe_key, "apply_management_decision") \in receipt
  BY DEF LedgerReplays, ReceiptsKept
<1>2. c.operation = "activate_signal" => c.data.fill_price = ConservativeEntry(terms[c.signal_id])
  BY DEF Pending, OpeningDue
<1>3. \/ Untouched(s)
      \/ Opens(s, c) \/ Lapses(s, c) \/ Closes(s, c) \/ Decides(s, c)
      \/ MarksLifecycle(s, c) \/ MarksManagement(s, c)
  BY <1>1, <1>2, Effects
<1>4. Books(s) /\ c.at \in Int
  BY CommandShape DEF LedgerReplays
<1>5. CASE Untouched(s) \/ Decides(s, c) \/ MarksLifecycle(s, c) \/ MarksManagement(s, c)
  <2>1. status'[s] = status[s] /\ \A v \in Variant : outcome'[s][v] = outcome[s][v]
    BY <1>5 DEF Untouched, RowsStay, Decides, MarksLifecycle, MarksManagement, Marks
  <2> QED BY <2>1
<1>6. CASE Opens(s, c) \/ Lapses(s, c)
  <2>1. /\ c.operation \in {"activate_signal", "transition_pending"} /\ c.operation \in Moves
        /\ c.signal_id = s /\ status[s] = "PENDING"
        /\ \A v \in Variant : outcome'[s][v] = outcome[s][v]
        /\ \/ status'[s] = "ACTIVE" /\ c.operation = "activate_signal"
           \/ status'[s] = "EXPIRED" /\ c.operation = "transition_pending"
    BY <1>6 DEF Opens, Lapses, Moves, Operation
  <2>2. Placed(c) /\ OpeningDue(c)
    BY <2>1 DEF Pending
  <2>3. Due(s) <= c.at /\ c.at < clock /\ c.at <= Resolved(s) + 1 /\ Entered(s, c.at).status # "PENDING"
    BY <2>1, <2>2 DEF Placed, OpeningDue
  <2>4. c.at = Resolved(s) + 1
    BY <1>4, <2>1, <2>3, OpeningPlace
  <2> QED BY <2>1, <2>2, <2>4
<1>7. CASE Closes(s, c)
  <2>1. /\ c.operation = "close_track" /\ c.operation \in Moves /\ c.signal_id = s
        /\ c.data.variant \in Variant /\ TrackActive(s, c.data.variant)
        /\ status'[s] = IF c.data.variant = "MANAGED" THEN "CLOSED" ELSE status[s]
        /\ \A w \in Variant : w # c.data.variant => outcome'[s][w] = outcome[s][w]
    BY <1>7 DEF Closes, Moves, Operation
  <2>2. Placed(c) /\ CloseDue(c)
    BY <2>1 DEF Pending
  <2>3. c.data.variant = "MANAGED" => status[s] = "ACTIVE"
    BY <2>1, RowFacts
  <2> QED BY <2>1, <2>2, <2>3
<1> QED BY <1>3, <1>5, <1>6, <1>7

\* What the replay says of a complete candle, it goes on saying.
LEMMA CandleLasts ==
    ASSUME EngineInv, NEW s \in Created, CheckpointsKept(s), Steady(s), NEW i \in Minute,
           Due(s) <= i, i < clock
    PROVE  /\ Due(s)' <= i /\ i < clock'
           /\ ReplayTo(s, i - 1)' = ReplayTo(s, i - 1)
           /\ Entered(s, i)' = Entered(s, i) /\ Exited(s, i)' = Exited(s, i)
<1>1. /\ Due(s) \in Nat /\ clock \in Int /\ clock' \in Int /\ clock' >= clock /\ i \in Int
  BY ResolvedIs, EngineAssumption DEF Steady, Minute
<1>2. PICK j \in Int : j = i - 1 /\ -1 <= j /\ j < clock
  BY <1>1
<1>3. ReplayTo(s, j)' = ReplayTo(s, j) /\ Due(s)' = Due(s)
      /\ Entered(s, i)' = Entered(s, i) /\ Exited(s, i)' = Exited(s, i)
  BY <1>1, <1>2, KeptStates
<1> QED BY <1>1, <1>2, <1>3

\* What was booked under its key stays booked under it.
LEMMA BackingLasts ==
    ASSUME EngineInv, NEW s \in Created, CheckpointsKept(s), Steady(s), receipt \subseteq receipt',
           NEW i \in Minute
    PROVE  /\ OpenedAt(s, i) => OpenedAt(s, i)'
           /\ \A v \in Variant : ClosedAt(s, v, i) => ClosedAt(s, v, i)'
<1>2. Due(s) <= i /\ i < clock =>
         /\ Due(s)' <= i /\ i < clock'
         /\ ReplayTo(s, i - 1)' = ReplayTo(s, i - 1)
         /\ Entered(s, i)' = Entered(s, i) /\ Exited(s, i)' = Exited(s, i)
  BY CandleLasts
<1>3. \A k, op : Duplicate(k, op) => Duplicate(k, op)'
  BY DEF Duplicate, Receipt
<1>4. OpenedAt(s, i) => OpenedAt(s, i)'
  BY <1>2, <1>3 DEF OpenedAt, CommandKey
<1>5. \A v \in Variant : ClosedAt(s, v, i) => ClosedAt(s, v, i)'
  BY <1>2, <1>3 DEF ClosedAt, CommandKey, IsOpen
<1> QED BY <1>4, <1>5

\* A command that books something of a signal books it under its key.
LEMMA BackedKept ==
    ASSUME WideColumns, EngineInv, LedgerReplays, UNCHANGED <<clock, candles>>,
           NEW c \in EngineCommand, Keyed(c), Pending(c, {}),
           Executes(c) \/ UNCHANGED ledgerVars, NEW s \in Created, Backed(s)
    PROVE  Backed(s)'
<1> HIDE DEF EngineCommand
<1>1. Books(s) /\ CheckpointsKept(s) /\ Steady(s)
  BY ExecutingSequel DEF Sequel, LedgerReplays, Books
<1>2. /\ c.at \in Minute /\ c.at \in Int
      /\ c.operation = "close_track" => c.data.variant \in Variant
  BY CommandShape
<1>3. /\ receipt \subseteq receipt'
      /\ c.operation \in Operation => UNCHANGED tradeVars \/ Duplicate(c.key, c.operation)'
  BY ReceiptLeft DEF tradeVars, Duplicate, Receipt, Operation
<1>4. ASSUME status'[s] # "PENDING" PROVE \E i \in Minute : OpenedAt(s, i)'
  <2>1. CASE status[s] # "PENDING"
    <3>1. PICK i \in Minute : OpenedAt(s, i)
      BY <2>1 DEF Backed
    <3> QED BY <1>1, <1>3, <3>1, BackingLasts
  <2>2. CASE status[s] = "PENDING"
    <3>1. /\ c.operation = IF status'[s] = "ACTIVE" THEN "activate_signal" ELSE "transition_pending"
          /\ c.signal_id = s /\ Placed(c) /\ OpeningDue(c)
      BY <1>4, <2>2, StatusMoves
    <3>2. Duplicate(c.key, c.operation)'
      BY <1>3, <1>4, <2>2, <3>1 DEF tradeVars, Operation
    <3>3. /\ Due(s) <= c.at /\ c.at < clock /\ ReplayTo(s, c.at - 1).status = "PENDING"
          /\ IF c.operation = "activate_signal" THEN Entered(s, c.at).status = "ACTIVE"
             ELSE Entered(s, c.at).status = "EXPIRED"
      BY <3>1 DEF Placed, OpeningDue
    <3>4. PICK i \in Minute : i = c.at
      BY <1>2
    <3>5. /\ Due(s)' <= i /\ i < clock'
          /\ ReplayTo(s, i - 1)' = ReplayTo(s, i - 1)
          /\ Entered(s, i)' = Entered(s, i)
      BY <1>1, <3>3, <3>4, CandleLasts
    <3>6. /\ c.operation = "activate_signal" => c.key = CommandKey(s, i, "activate", "")
          /\ c.operation = "transition_pending" => c.key = CommandKey(s, i, "expire", "")
      BY <3>1, <3>4 DEF Keyed
    <3>7. CASE c.operation = "activate_signal"
      <4>1. Duplicate(CommandKey(s, i, "activate", ""), "activate_signal")'
        BY <3>2, <3>6, <3>7 DEF CommandKey
      <4> QED BY <3>3, <3>4, <3>5, <3>7, <4>1 DEF OpenedAt
    <3>8. CASE c.operation = "transition_pending"
      <4>1. Duplicate(CommandKey(s, i, "expire", ""), "transition_pending")'
        BY <3>2, <3>6, <3>8 DEF CommandKey
      <4> QED BY <3>3, <3>4, <3>5, <3>8, <4>1 DEF OpenedAt
    <3> QED BY <3>1, <3>7, <3>8
  <2> QED BY <2>1, <2>2
<1>5. ASSUME NEW v \in Variant, outcome'[s][v] # Null PROVE \E i \in Minute : ClosedAt(s, v, i)'
  <2>1. CASE outcome[s][v] # Null
    <3>1. PICK i \in Minute : ClosedAt(s, v, i)
      BY <2>1 DEF Backed
    <3> QED BY <1>1, <1>3, <3>1, BackingLasts
  <2>2. CASE outcome[s][v] = Null
    <3>1. /\ c.operation = "close_track" /\ c.signal_id = s /\ c.data.variant = v
          /\ Placed(c) /\ CloseDue(c)
      BY <1>5, <2>2, StatusMoves
    <3>2. Duplicate(c.key, c.operation)'
      BY <1>3, <1>5, <2>2, <3>1 DEF tradeVars, Operation
    <3>3. /\ Due(s) <= c.at /\ c.at < clock
          /\ IsOpen(Entered(s, c.at), v) /\ ~IsOpen(Exited(s, c.at), v)
          /\ c.data.closing = Exited(s, c.at).outcome[v]
      BY <3>1 DEF Placed, CloseDue
    <3>4. PICK i \in Minute : i = c.at
      BY <1>2
    <3>5. /\ Due(s)' <= i /\ i < clock'
          /\ Entered(s, i)' = Entered(s, i) /\ Exited(s, i)' = Exited(s, i)
      BY <1>1, <3>3, <3>4, CandleLasts
    <3>6. c.key = CommandKey(s, i, v, c.data.closing.close_event)
      BY <3>1, <3>4 DEF Keyed
    <3>7. Exited(s, i)'.outcome[v].close_event = c.data.closing.close_event
      BY <3>3, <3>4, <3>5
    <3>8. Duplicate(CommandKey(s, i, v, Exited(s, i).outcome[v].close_event), "close_track")'
      BY <3>1, <3>2, <3>6, <3>7 DEF CommandKey
    <3> QED BY <3>3, <3>4, <3>5, <3>8 DEF ClosedAt, IsOpen
  <2> QED BY <2>1, <2>2
<1> QED BY <1>4, <1>5 DEF Backed

\* A new signal has nothing booked.
LEMMA NewBacked ==
    ASSUME WideColumns, EngineInv, NEW c \in EngineCommand, Executes(c) \/ UNCHANGED ledgerVars,
           NEW s \in Created', s \notin Created
    PROVE  /\ Backed(s)' /\ status'[s] = "PENDING" /\ c.operation = "create_signal" /\ c.signal_id = s
           /\ CreateSignal(s, c.data, c.key)
<1> HIDE DEF EngineCommand
<1>1. s \in SignalId /\ status[s] = "ABSENT" /\ status'[s] # "ABSENT"
  BY DEF Created
<1>2. c.operation = "create_signal" /\ c.signal_id = s /\ CreateSignal(s, c.data, c.key)
  BY <1>1, NewSignals
<1>3. status'[s] = "PENDING" /\ outcome' = outcome
  BY <1>1, <1>2 DEF CreateSignal, EngineInv, IInv, TypeOK
<1>4. \A v \in Variant : outcome[s][v] = Null
  BY <1>1 DEF EngineInv, IInv, StatusMatchesRows, ClosedTracksHaveOutcomes
<1> QED BY <1>1, <1>2, <1>3, <1>4 DEF Backed

\* What is booked of every signal has its receipt.
Backing == ReceiptsNamed /\ \A s \in Created : Backed(s)

\* A command keeps the backing of everything booked.
LEMMA BackingKept ==
    ASSUME WideColumns, EngineInv, LedgerReplays, Backing, UNCHANGED <<clock, candles>>,
           NEW c \in EngineCommand, Keyed(c), Pending(c, {}),
           Executes(c) \/ UNCHANGED ledgerVars
    PROVE  Backing'
<1> HIDE DEF EngineCommand
<1>1. ReceiptsNamed'
  BY NamedKept DEF Backing
<1>2. \A s \in Created' : Backed(s)'
  BY BackedKept, NewBacked DEF Backing
<1> QED BY <1>1, <1>2 DEF Backing

\* So does time.
LEMMA BackingRests ==
    ASSUME WideColumns, EngineInv, LedgerReplays, Backing, UNCHANGED ledgerVars,
           clock' \in Int, clock' >= clock, \A i \in 0..(clock - 1) : Candle(i)' = Candle(i)
    PROVE  Backing'
<1>1. ReceiptsNamed'
  BY DEF Backing, ReceiptsNamed, ledgerVars, tradeVars
<1>2. ASSUME NEW s \in Created' PROVE Backed(s)'
  <2>1. /\ s \in Created /\ status' = status /\ outcome' = outcome /\ receipt' = receipt
        /\ terms' = terms
    BY <1>2 DEF Created, ledgerVars, tradeVars
  <2>2. Steady(s) /\ CheckpointsKept(s) /\ Backed(s)
    BY <2>1 DEF Steady, LedgerReplays, Books, Backing
  <2> QED BY <2>1, <2>2, BackingLasts DEF Backed
<1> QED BY <1>1, <1>2 DEF Backing

----------------------------------------------------------------------------
(* No command of a run is refused: trades, notices and the opening rule.   *)

\* A close is only ever planned for a trade that was opened.
CloseOpened(c) == c.operation = "close_track" => trade[c.signal_id] # Null

\* Every close under way, late or in the list, is of a signal that was opened.
ClosesOpened ==
    /\ \A c \in late : CloseOpened(c)
    /\ \A c : Listed(c, run.todo) => CloseOpened(c)

\* What a command opened stays opened, and what it announced stays announced.
LEMMA TradesStay ==
    ASSUME IInv, [Next]_ledgerVars, NEW s \in SignalId, trade[s] # Null PROVE trade'[s] # Null
<1>1. CASE Next
  BY <1>1, RowsKept DEF Kept, Variant
<1>2. CASE UNCHANGED ledgerVars
  BY <1>2 DEF ledgerVars, tradeVars
<1> QED BY <1>1, <1>2

\* Every step of the engine is one of the ledger, or leaves it alone.
LEMMA StepOfLedger ==
    ASSUME WideColumns, EngineInv, [EngineNext]_vars PROVE [Next]_ledgerVars
<1>1. CASE EngineNext
  BY <1>1, EngineStepIsLedgerStep
<1>2. CASE UNCHANGED vars
  BY <1>2 DEF vars
<1> QED BY <1>1, <1>2

\* A signal that was opened stays opened.
LEMMA OpenedStays ==
    ASSUME IInv, [Next]_ledgerVars, NEW c \in EngineCommand, CloseOpened(c) PROVE CloseOpened(c)'
<1> HIDE DEF EngineCommand
<1>1. c.operation = "close_track" => c.signal_id \in SignalId
  BY CommandShape DEF Operation
<1>2. c.operation = "close_track" => trade'[c.signal_id] # Null
  <2> SUFFICES ASSUME c.operation = "close_track" PROVE trade'[c.signal_id] # Null
    OBVIOUS
  <2>1. PICK s \in SignalId : s = c.signal_id
    BY <1>1
  <2> QED BY <2>1, TradesStay DEF CloseOpened
<1> QED BY <1>2 DEF CloseOpened

\* A close is planned for an open track only.
LEMMA ProspectOpened ==
    ASSUME EngineInv, NEW c, Prospect(c) PROVE CloseOpened(c)'
<1> SUFFICES ASSUME c.operation = "close_track" PROVE trade'[c.signal_id] # Null
  BY DEF CloseOpened
<1>1. ~Quiet(c)
  BY DEF Quiet
<1>2. run.queue # <<>> /\ UNCHANGED ledgerVars /\ Plans(c)
  BY <1>1 DEF Prospect
<1>3. PICK v \in Variant : Leaves(v) /\ c = CloseCommand(v)
  <2>1. /\ ExpireCommand.operation = "transition_pending"
        /\ ActivateCommand.operation = "activate_signal"
        /\ ManageCommand.operation = "apply_management_decision"
    BY DEF ExpireCommand, ActivateCommand, ManageCommand, Command
  <2> QED BY <1>2, <2>1 DEF Plans
<1>4. TrackActive(Signal, v) /\ c.signal_id = Signal
  BY <1>3 DEF Leaves, CloseCommand, Command
<1> QED BY <1>2, <1>4, MonitoredSignal DEF ledgerVars, tradeVars

\* Every step of the engine keeps that.
LEMMA OpenedStep ==
    ASSUME WideColumns, EngineInv, ClosesOpened, [EngineNext]_vars PROVE ClosesOpened'
<1>0. [Next]_ledgerVars /\ IInv /\ late \subseteq EngineCommand /\ run.todo \in Seq(EngineCommand)
  BY StepOfLedger, Inherits DEF EngineInv, EngineTypeOK
<1> HIDE DEF EngineCommand
<1>1. ASSUME NEW c, Listed(c, run.todo) PROVE CloseOpened(c)'
  <2>1. c \in EngineCommand
    BY <1>0, <1>1 DEF Listed
  <2> QED BY <1>0, <1>1, <2>1, OpenedStays DEF ClosesOpened
<1>2. ASSUME NEW c, Listed(c, run'.todo) PROVE CloseOpened(c)'
  BY <1>1, <1>2, NextList, ProspectOpened
<1>3. ASSUME NEW c \in late' PROVE CloseOpened(c)'
  <2>1. CASE c \in late
    BY <1>0, <2>1, OpenedStays DEF ClosesOpened
  <2>2. CASE run.todo # <<>> /\ c = Prepared(Head(run.todo)) /\ UNCHANGED ledgerVars
    <3>1. PICK h \in EngineCommand : h = Head(run.todo) /\ Listed(h, run.todo)
      BY <1>0, <2>2 DEF Listed
    <3>2. c.operation = h.operation /\ c.signal_id = h.signal_id
      BY <2>2, <3>1 DEF Prepared
    <3>3. CloseOpened(h)'
      BY <1>1, <3>1
    <3> QED BY <3>2, <3>3 DEF CloseOpened
  <2> QED BY <2>1, <2>2, NextLate
<1> QED BY <1>2, <1>3 DEF ClosesOpened, Listed

\* Every signal came with its announcement.
Noticed == \A s \in Created : CreatedNotice(s) \in outbox

\* The outbox forgets no key.
LEMMA OutboxGrows ==
    ASSUME [Next]_ledgerVars PROVE outbox \subseteq outbox'
<1>1. CASE Create \/ Enqueue
  BY <1>1 DEF Create, Enqueue, CreateSignal, EnqueueNotification
<1>2. CASE Allocate \/ Expire \/ Advance \/ UNCHANGED ledgerVars
  BY <1>2 DEF Allocate, Expire, Advance, AllocateSignalId, TransitionPending, AdvanceCheckpoint,
       ledgerVars
<1>3. ASSUME NEW s, NEW fill, NEW at, NEW k, ActivateSignal(s, fill, at, k) PROVE outbox' = outbox
  BY <1>3 DEF ActivateSignal
<1>4. ASSUME NEW s, NEW v, NEW closing, NEW payload, NEW k, CloseTrack(s, v, closing, payload, k)
      PROVE  outbox' = outbox
  BY <1>4 DEF CloseTrack
<1>5. ASSUME NEW s, NEW a, NEW k, ApplyManagement(s, a, k) PROVE outbox' = outbox
  BY <1>5 DEF ApplyManagement
<1> QED BY <1>1, <1>2, <1>3, <1>4, <1>5 DEF Next, Activate, Close, Manage

\* A signal is created together with its message.
LEMMA NoticedKept ==
    ASSUME WideColumns, EngineInv, Noticed, NEW c \in EngineCommand, Keyed(c),
           Executes(c) \/ UNCHANGED ledgerVars
    PROVE  Noticed'
<1>1. outbox \subseteq outbox'
  BY ExecutesIsLedgerStep, OutboxGrows
<1> HIDE DEF EngineCommand
<1>2. ASSUME NEW s \in Created', s \notin Created PROVE CreatedNotice(s) \in outbox'
  <2>1. c.operation = "create_signal" /\ c.signal_id = s /\ CreateSignal(s, c.data, c.key)
    BY <1>2, NewBacked
  <2> QED BY <2>1 DEF CreateSignal, Keyed
<1> QED BY <1>1, <1>2 DEF Noticed, CreatedNotice, Notice

\* The message announces a signal that is there.
LEMMA NoticeTells ==
    ASSUME JournalTellsStatus, NoFalseAnnouncement, NEW s \in SignalId, CreatedNotice(s) \in outbox
    PROVE  status[s] # "ABSENT"
<1>1. PICK n : n = CreatedNotice(s) /\ n.action = "CREATED" /\ n.signal_id = s
  BY DEF CreatedNotice, Notice
<1>2. Announced(n)
  BY <1>1 DEF NoFalseAnnouncement
<1>3. PICK e \in event : e.signal_id = s /\ e.event_type = "SIGNAL_CREATED"
  BY <1>1, <1>2 DEF Announced
<1>4. Entry(e) \in Journal
  BY <1>3, JournalIs DEF JournalOf, IsTransition
<1>5. Entry(e) = [signal_id |-> s, event_type |-> "SIGNAL_CREATED"]
  BY <1>3 DEF Entry
<1>6. "SIGNAL_CREATED" \in Abstract!LifecycleEvent
  BY DEF Abstract!LifecycleEvent, Abstract!TransitionEvent
<1>7. "SIGNAL_CREATED" \in Abstract!Path[status[s]]
  BY <1>4, <1>5, <1>6 DEF JournalTellsStatus, Abstract!JournalTellsStatus
<1> QED BY <1>7 DEF Abstract!Path

\* No entry can open the signal any more: it has been opened, or the next
\* candle to be replayed lies behind its expiry.
Outlived(s) ==
    /\ status[s] # "ACTIVE"
    /\ status[s] = "PENDING" => terms[s].created_at + Expiry <= Resolved(s) + 1

\* What has outlived its chance does not get another one ...
LEMMA OutlivedKept ==
    ASSUME WideColumns, EngineInv, LedgerReplays, UNCHANGED <<clock, candles>>,
           NEW c \in EngineCommand, Keyed(c), Pending(c, {}),
           Executes(c) \/ UNCHANGED ledgerVars, NEW s \in Created, Outlived(s)
    PROVE  Outlived(s)'
<1> HIDE DEF EngineCommand
<1>1. CheckpointsKept(s) /\ Moved(s, c) /\ terms'[s] = terms[s]
  BY ExecutingReplays DEF LedgerReplays, Books
<1>2. /\ Resolved(s) \in Int /\ clock \in Int /\ terms[s] \in EngineTerm /\ MarketType
  BY <1>1, ResolvedIs
<1>3. terms[s].created_at \in Int /\ Expiry \in Int
  BY <1>2, FirstSafeOpenNat, EngineAssumption DEF Minute
<1>4. status'[s] # "ACTIVE"
  <2> SUFFICES ASSUME status'[s] = "ACTIVE" PROVE FALSE
    OBVIOUS
  <2>1. status[s] = "PENDING"
    BY StatusMoves DEF Outlived
  <2>2. c.operation = "activate_signal" /\ c.signal_id = s /\ Placed(c) /\ OpeningDue(c)
        /\ c.at = Resolved(s) + 1
    BY <2>1, StatusMoves
  <2>3. /\ Due(s) <= c.at /\ c.at < clock /\ ReplayTo(s, c.at - 1).status = "PENDING"
        /\ Entered(s, c.at).status = "ACTIVE"
    BY <2>2 DEF Placed, OpeningDue
  <2>4. MustExpire(terms[s], c.at)
    BY <1>2, <1>3, <2>1, <2>2 DEF Outlived, MustExpire
  <2>5. PICK i \in Int : i = c.at
    BY <1>2, <2>2
  <2>6. Entered(s, i).status = "EXPIRED"
    BY <1>2, <2>3, <2>4, <2>5, EnteredIs
  <2> QED BY <2>3, <2>5, <2>6
<1>5. status'[s] = "PENDING" => terms'[s].created_at + Expiry <= Resolved(s)' + 1
  <2>1. Resolved(s)' \in {Resolved(s), Resolved(s) + 1}
    BY <1>1 DEF Moved
  <2>2. status'[s] = "PENDING" => status[s] = "PENDING"
    BY StatusMoves
  <2> QED BY <1>1, <1>2, <1>3, <2>1, <2>2 DEF Outlived
<1> QED BY <1>4, <1>5 DEF Outlived

\* ... and time changes nothing about it.
LEMMA OutlivedRests ==
    ASSUME UNCHANGED ledgerVars
    PROVE  Created' = Created /\ \A s : Outlived(s)' <=> Outlived(s)
BY DEF ledgerVars, tradeVars, Created, Outlived, Resolved

\* Of two signals one can no longer open.
Supersedes == \A s, t \in Created : s = t \/ Outlived(s) \/ Outlived(t)

\* A signal is created only beside signals that have outlived theirs.
LEMMA SupersedesKept ==
    ASSUME WideColumns, EngineInv, LedgerReplays, Supersedes, UNCHANGED <<clock, candles>>,
           NEW c \in EngineCommand, Keyed(c), Pending(c, {}),
           Executes(c) \/ UNCHANGED ledgerVars,
           c.operation = "create_signal" => \A s \in Created : Outlived(s)
    PROVE  Supersedes'
<1> HIDE DEF EngineCommand
<1>1. \A s \in Created : Outlived(s) => Outlived(s)'
  BY OutlivedKept
<1>2. \A s \in Created' : s \in Created \/ (c.operation = "create_signal" /\ c.signal_id = s)
  BY NewBacked
<1> QED BY <1>1, <1>2 DEF Supersedes

----------------------------------------------------------------------------
(* What a run knows of the signals it admits another one beside.           *)

\* The run knows its bootstrap and has not yet decided on a new signal.
Looking(r) == r.phase \in {"collect", "entry", "exit", "manage"}

\* The run has the signal's creation in mind, and its trade if it is open.
SeenBy(s, r) ==
    /\ r.last \in Minute /\ terms[s].created_at <= r.last
    /\ terms[s].created_at < r.now /\ status[s] = "ACTIVE" => r.active \/ Queued(s, r.queue)

\* The commands that bring a new signal about.
Admission(c) == c.operation \in {"allocate_signal_id", "create_signal"}

\* A new signal comes first, after monitoring, and where nothing else can open.
AdmitsAlone(r) ==
    \A n \in 1..Len(r.todo) : Admission(r.todo[n]) =>
        n = 1 /\ r.phase = "report" /\ \A s \in Created : Outlived(s)

\* What a run knows of the signals there are.
RunKnows(r) ==
    /\ Looking(r) => \A s \in Created : SeenBy(s, r)
    /\ Monitoring(r) => r.now <= r.upto
    /\ AdmitsAlone(r)

\* A command about one candle, or a message, admits nothing.
LEMMA AboutNoAdmission ==
    ASSUME NEW q, NEW r, AllAbout(r.todo, q) PROVE AdmitsAlone(r)
<1>1. \A m \in 1..Len(r.todo) : About(r.todo[m], q)
  BY DEF AllAbout, Listed
<1> QED BY <1>1 DEF AdmitsAlone, Admission, About

\* A run that has not looked or is done need not know anything ...
LEMMA RestingKnows ==
    ASSUME NEW r, r.phase \in {"idle", "load", "record"}, NEW q, AllAbout(r.todo, q)
    PROVE  RunKnows(r)
BY AboutNoAdmission DEF RunKnows, Looking, Monitoring

\* ... nor one that has ended.
LEMMA EndedKnows ==
    ASSUME NEW r, r \in {Failed, Idle} PROVE RunKnows(r)
<1>0. /\ Failed.todo = <<>> /\ Failed.phase = "record" /\ Idle.todo = <<>> /\ Idle.phase = "idle"
  BY DEF Failed, Idle
<1>1. r.todo = <<>> /\ r.phase \in {"record", "idle"}
  BY <1>0
<1> QED BY <1>1, NothingAbout, RestingKnows

\* What each step that only plans leaves the run with.
LEMMA StartKnows ==
    ASSUME EngineInv, Start PROVE RunKnows(run')
<1> PICK r : r = run'
  OBVIOUS
<1>1. r.phase = "load" /\ r.todo = <<>>
  BY DEF Start, Idle
<1> QED BY <1>1, NothingAbout, RestingKnows

\* The bootstrap's history is as long as the ledger's.
LEMMA CreatedDated ==
    ASSUME EngineInv, NEW s \in Created
    PROVE  terms[s].created_at \in Minute /\ terms[s].created_at \in Int
<1>1. terms[s] \in EngineTerm
  BY DEF EngineInv, EngineTypeOK, TermsSound, IInv, StatusMatchesRows, Created
<1> QED BY <1>1, FirstSafeOpenNat, EngineAssumption DEF Minute

\* The last creation the bootstrap reports is the latest.
LEMMA LastIsLatest ==
    ASSUME EngineInv, NEW s \in Created
    PROVE  LastSignalAt \in Minute /\ terms[s].created_at <= LastSignalAt
<1>1. MaxMinute \in Nat /\ \A x \in Created : terms[x].created_at \in 0..MaxMinute
  BY CreatedDated, EngineAssumption DEF Minute
<1> DEFINE Ages == {MaxMinute - terms[x].created_at : x \in Created}
<1>2. Ages \in SUBSET Nat /\ Ages # {}
  BY <1>1
<1>3. PICK m \in Ages : \A k \in Ages : m <= k
  BY <1>2, LeastNumber
<1>4. PICK x \in Created : m = MaxMinute - terms[x].created_at
  BY <1>3
<1>5. \A t \in Created : terms[t].created_at <= terms[x].created_at
  <2> TAKE t \in Created
  <2>1. m <= MaxMinute - terms[t].created_at
    BY <1>3
  <2>2. terms[t].created_at \in Int /\ terms[x].created_at \in Int
    BY CreatedDated
  <2> QED BY <1>1, <1>4, <2>1, <2>2
<1> DEFINE latest == CHOOSE y \in Created :
                        \A t \in Created : terms[t].created_at <= terms[y].created_at
<1>6. latest \in Created /\ \A t \in Created : terms[t].created_at <= terms[latest].created_at
  BY <1>4, <1>5
<1>7. LastSignalAt = terms[latest].created_at
  BY DEF LastSignalAt
<1> HIDE DEF latest
<1> QED BY <1>1, <1>6, <1>7 DEF Minute

\* The bootstrap sees every signal there is.
LEMMA LoadKnows ==
    ASSUME EngineInv, Load PROVE RunKnows(run')
<1> PICK r : r = run'
  OBVIOUS
<1>1. PICK n \in 0..Cardinality(Monitored) : \E list \in [1..n -> Monitored] :
        /\ ListsMonitored(list)
        /\ run' = [run EXCEPT !.phase = "collect",
                           !.paused = paused,
                           !.queue = list,
                           !.last = LastSignalAt,
                           !.active = \E s \in SignalId : status[s] = "ACTIVE"]
  BY DEF Load
<1>2. PICK list \in [1..n -> Monitored] :
        /\ ListsMonitored(list)
        /\ run' = [run EXCEPT !.phase = "collect",
                           !.paused = paused,
                           !.queue = list,
                           !.last = LastSignalAt,
                           !.active = \E s \in SignalId : status[s] = "ACTIVE"]
  BY <1>1
<1>3. r.phase = "collect" /\ r.todo = <<>> /\ r.last = LastSignalAt
  BY <1>2 DEF EngineInv, EngineTypeOK, RunType, Load, Planning
<1>4. ~Monitoring(r) /\ RunProgress(r)
  BY <1>3, LoadProgress DEF Monitoring
<1>5. ASSUME NEW s \in Created PROVE SeenBy(s, r)
  <2>1. r.last \in Minute /\ terms[s].created_at <= r.last
    BY <1>3, LastIsLatest
  <2>2. terms[s].created_at < r.now /\ status[s] = "ACTIVE" => Queued(s, r.queue)
    BY <1>3, <1>4 DEF RunProgress, Progress, Unfinished
  <2> QED BY <2>1, <2>2 DEF SeenBy
<1> QED BY <1>3, <1>4, <1>5, NothingAbout, AboutNoAdmission DEF RunKnows

\* A run goes on knowing what it knew while it monitors.
LEMMA LookingKnows ==
    ASSUME RunKnows(run), Looking(run), NEW r, Looking(r) \/ r.phase = "report",
           r.last = run.last, r.now = run.now, r.active = run.active, r.queue = run.queue,
           Monitoring(r) => r.now <= r.upto, AdmitsAlone(r)
    PROVE  RunKnows(r)
BY DEF RunKnows, SeenBy

\* The snapshot is no older than the run.
LEMMA CollectKnows ==
    ASSUME EngineInv, RunKnows(run), Collect PROVE RunKnows(run')
<1> PICK r : r = run'
  OBVIOUS
<1>1. /\ run.phase = "collect" /\ r.phase = "entry" /\ r.todo = <<>> /\ r.upto = clock
      /\ r.last = run.last /\ r.now = run.now /\ r.active = run.active /\ r.queue = run.queue
  BY DEF EngineInv, EngineTypeOK, RunType, Collect, Planning
<1>2. run.now <= clock
  BY DEF EngineInv, EngineTypeOK, RunPlace
<1>3. Looking(run) /\ Looking(r)
  BY <1>1 DEF Looking
<1>4. AdmitsAlone(r)
  BY <1>1, NothingAbout, AboutNoAdmission
<1> QED BY <1>1, <1>2, <1>3, <1>4, LookingKnows

\* A run that plans a candle of its snapshot.
LEMMA PlannedKnows ==
    ASSUME RunKnows(run), run.phase \in {"entry", "exit", "manage"}, NEW r,
           r.phase \in {"entry", "exit", "manage"}, r.upto = run.upto, r.last = run.last,
           r.now = run.now, r.active = run.active, r.queue = run.queue, NEW q, AllAbout(r.todo, q)
    PROVE  RunKnows(r)
<1>1. Looking(run) /\ Looking(r) /\ Monitoring(run)
  BY DEF Looking, Monitoring
<1>2. r.now <= r.upto
  BY <1>1 DEF RunKnows
<1>3. AdmitsAlone(r)
  BY AboutNoAdmission
<1> QED BY <1>1, <1>2, <1>3, LookingKnows

\* Planning the first half of a candle changes nothing about that ...
LEMMA PlanEntryKnows ==
    ASSUME WideColumns, EngineInv, RunKnows(run), PlanEntry PROVE RunKnows(run')
<1> PICK r : r = run'
  OBVIOUS
<1>0. run.phase = "entry" /\ run.todo = <<>> /\ RunType(run)
  BY DEF PlanEntry, Planning, EngineInv, EngineTypeOK
<1>1. CASE run' = Failed
  BY <1>1, EndedKnows
<1>2. CASE run' = [run EXCEPT !.phase = "manage"]
  <2>1. /\ r.phase = "manage" /\ r.queue = run.queue /\ r.upto = run.upto /\ r.todo = <<>>
        /\ r.now = run.now /\ r.last = run.last /\ r.active = run.active
    BY <1>0, <1>2 DEF RunType
  <2> QED BY <1>0, <2>1, NothingAbout, PlannedKnows
<1>3. CASE run' = [run EXCEPT !.phase = "exit", !.actions = EntryActions, !.todo = EntryCommands]
  <2>0. PICK plan, acts : plan = EntryCommands /\ acts = EntryActions
    OBVIOUS
  <2>1. r = [run EXCEPT !.phase = "exit", !.actions = acts, !.todo = plan]
    BY <1>3, <2>0
  <2>2. /\ r.phase = "exit" /\ r.queue = run.queue /\ r.upto = run.upto /\ r.todo = plan
        /\ r.now = run.now /\ r.last = run.last /\ r.active = run.active
    BY <1>0, <2>1 DEF RunType
  <2>3. AllAbout(plan, run.cursor)
    BY <2>0, EntryAbout
  <2> QED BY <1>0, <2>2, <2>3, PlannedKnows
<1> QED BY <1>1, <1>2, <1>3 DEF PlanEntry

\* ... nor does planning the second half ...
LEMMA PlanExitKnows ==
    ASSUME WideColumns, EngineInv, RunKnows(run), PlanExit PROVE RunKnows(run')
<1> PICK r, plan : r = run' /\ plan = ExitCommands
  OBVIOUS
<1>0. /\ run.phase = "exit" /\ RunType(run) /\ run.queue # <<>> /\ run.cursor < clock
  BY Bounds DEF PlanExit, Planning, EngineInv, EngineTypeOK, RunPlace, RunType, Minute
<1>1. r = [run EXCEPT !.phase = "manage", !.actions = <<>>, !.todo = plan]
  BY DEF PlanExit
<1>2. /\ r.phase = "manage" /\ r.queue = run.queue /\ r.upto = run.upto /\ r.todo = plan
      /\ r.now = run.now /\ r.last = run.last /\ r.active = run.active
  BY <1>0, <1>1 DEF RunType
<1>3. AllAbout(plan, run.cursor)
  BY <1>0, ExitAbout
<1> QED BY <1>0, <1>2, <1>3, PlannedKnows

\* ... or the management of the candle.
LEMMA PlanManagementKnows ==
    ASSUME WideColumns, EngineInv, RunKnows(run), PlanManagement PROVE RunKnows(run')
<1> PICK r, plan, n : r = run' /\ plan = Decide(run.cursor) /\ n = run.cursor + 1
  OBVIOUS
<1>0. /\ run.phase = "manage" /\ run.todo = <<>> /\ RunType(run)
      /\ run.queue # <<>> /\ run.cursor < clock
  BY Bounds DEF PlanManagement, Planning, EngineInv, EngineTypeOK, RunPlace, RunType, Minute
<1>1. CASE run' = Failed
  BY <1>1, EndedKnows
<1>2. CASE /\ Managing
           /\ run' = [run EXCEPT !.phase = "entry", !.cursor = @ + 1, !.todo = Decide(run.cursor)]
  <2>1. r = [run EXCEPT !.phase = "entry", !.cursor = n, !.todo = plan]
    BY <1>2
  <2>2. /\ r.phase = "entry" /\ r.queue = run.queue /\ r.upto = run.upto /\ r.todo = plan
        /\ r.now = run.now /\ r.last = run.last /\ r.active = run.active
    BY <1>0, <2>1 DEF RunType
  <2>3. AllAbout(plan, run.cursor)
    BY <1>0, <1>2, DecideAbout DEF Managing
  <2> QED BY <1>0, <2>2, <2>3, PlannedKnows
<1>3. CASE run' = [run EXCEPT !.phase = "entry", !.cursor = @ + 1]
  <2>1. r = [run EXCEPT !.phase = "entry", !.cursor = n]
    BY <1>3
  <2>2. /\ r.phase = "entry" /\ r.queue = run.queue /\ r.upto = run.upto /\ r.todo = <<>>
        /\ r.now = run.now /\ r.last = run.last /\ r.active = run.active
    BY <1>0, <2>1 DEF RunType
  <2> QED BY <1>0, <2>2, NothingAbout, PlannedKnows
<1> QED BY <1>1, <1>2, <1>3 DEF PlanManagement

\* A signal that leaves the queue with an open trade is remembered.
LEMMA EndSignalKnows ==
    ASSUME EngineInv, RunKnows(run), EndSignal PROVE RunKnows(run')
<1> DEFINE first == IF run.upto > Window THEN run.upto - Window ELSE 0
           monitored == run.active \/ TrackActive(Signal, "MANAGED")
<1>1. run' = [run EXCEPT !.active = monitored, !.queue = Tail(run.queue), !.cursor = first]
      /\ run.todo = <<>> /\ run.phase = "entry" /\ RunType(run) /\ run.queue # <<>>
  BY DEF EndSignal, Planning, EngineInv, EngineTypeOK
<1> HIDE DEF first, monitored
<1>2. PICK r, tail, s : r = run' /\ tail = Tail(run.queue) /\ s = Head(run.queue)
  OBVIOUS
<1>3. /\ r.phase = "entry" /\ r.upto = run.upto /\ r.todo = <<>> /\ r.queue = tail
      /\ r.now = run.now /\ r.last = run.last /\ r.active = monitored
  BY <1>1, <1>2 DEF RunType
<1>4. /\ \A n \in 1..Len(run.queue) : n = 1 \/ (n - 1 \in 1..Len(tail) /\ run.queue[n] = tail[n - 1])
      /\ run.queue[1] = s
  <2>1. run.queue \in Seq(SignalId)
    BY Inherits DEF EngineInv
  <2>2. /\ Len(run.queue) \in Nat /\ Len(tail) = Len(run.queue) - 1 /\ s = run.queue[1]
        /\ \A n \in 1..Len(tail) : tail[n] = run.queue[n + 1]
    BY <1>1, <1>2, <2>1, HeadTailProperties, LenProperties
  <2>3. ASSUME NEW n \in 1..Len(run.queue), n # 1
        PROVE  n - 1 \in 1..Len(tail) /\ run.queue[n] = tail[n - 1]
    <3>1. n - 1 \in 1..Len(tail) /\ (n - 1) + 1 = n
      BY <2>2, <2>3
    <3> QED BY <2>2, <3>1
  <2> QED BY <2>2, <2>3
<1>5. Looking(run) /\ Looking(r) /\ Monitoring(run)
  BY <1>1, <1>3 DEF Looking, Monitoring
<1>6. ASSUME NEW x \in Created PROVE SeenBy(x, r)
  <2>1. SeenBy(x, run)
    BY <1>5 DEF RunKnows
  <2>2. Queued(x, run.queue) => Queued(x, tail) \/ x = s
    BY <1>4 DEF Queued
  <2>3. x = s /\ status[x] = "ACTIVE" => TrackActive(Signal, "MANAGED")
    BY <1>2, RowFacts DEF Signal
  <2>4. ASSUME terms[x].created_at < run.now, status[x] = "ACTIVE"
        PROVE  monitored \/ Queued(x, tail)
    <3>1. run.active \/ Queued(x, run.queue)
      BY <2>1, <2>4 DEF SeenBy
    <3>2. monitored \/ Queued(x, tail)
      BY <2>2, <2>3, <2>4, <3>1, Zenon DEF monitored
    <3> QED BY <3>2
  <2>5. /\ r.last \in Minute /\ terms[x].created_at <= r.last
    BY <1>3, <2>1 DEF SeenBy
  <2>6. terms[x].created_at < r.now /\ status[x] = "ACTIVE" => r.active \/ Queued(x, r.queue)
    BY <1>3, <2>4, Zenon
  <2> QED BY <2>5, <2>6 DEF SeenBy
<1>7. r.now <= r.upto
  BY <1>3, <1>5 DEF RunKnows
<1>8. AdmitsAlone(r)
  BY <1>3, NothingAbout, AboutNoAdmission
<1>9. RunKnows(r)
  BY <1>6, <1>7, <1>8 DEF RunKnows
<1> QED BY <1>2, <1>9

\* A report is no admission.
LEMMA ReportKnows ==
    ASSUME EngineInv, Report PROVE RunKnows(run')
<1> PICK r, todo : r = run' /\ todo = IF ~run.paused /\ run.now \in ReportMinutes
                                      THEN Enqueues(Null, run.now, <<"REPORT">>) ELSE <<>>
  OBVIOUS
<1>0. RunType(run)
  BY DEF EngineInv, EngineTypeOK
<1>1. r = [run EXCEPT !.phase = "record", !.todo = todo]
  BY DEF Report
<1>2. r.phase = "record" /\ r.todo = todo
  BY <1>0, <1>1 DEF RunType
<1>3. AllAbout(todo, 0)
  <2>1. CASE todo = <<>>
    BY <2>1, NothingAbout
  <2>2. CASE todo = Enqueues(Null, run.now, <<"REPORT">>)
    <3>1. <<"REPORT">> \in Seq(Announcement)
      BY DEF Announcement
    <3> QED BY <2>2, <3>1, SendsAbout
  <2> QED BY <2>1, <2>2
<1> QED BY <1>2, <1>3, RestingKnows

\* Where a run may admit a signal, none of the others can open any more: those
\* it monitored have caught up, and the cooldown is no shorter than an expiry.
LEMMA AdmissibleOutlived ==
    ASSUME WideColumns, Cooldown >= Expiry, EngineInv, LedgerReplays, RunProgress(run), RunKnows(run),
           run.phase = "entry", run.queue = <<>>, Admissible, NEW s \in Created
    PROVE  Outlived(s)
<1>1. Looking(run) /\ Monitoring(run)
  BY DEF Looking, Monitoring
<1>2. SeenBy(s, run) /\ run.now <= run.upto
  BY <1>1 DEF RunKnows
<1>3. run.last \in Minute /\ terms[s].created_at <= run.last
  BY <1>2 DEF SeenBy
<1>4. run.last # Null
  BY <1>3, NullAssumption DEF WideColumns
<1>5. /\ run.last \in Int /\ run.now \in Int /\ run.upto \in Int /\ terms[s].created_at \in Int
      /\ Cooldown \in Nat \ {0} /\ Expiry \in Int
  BY <1>3, Bounds, CreatedDated, EngineAssumption DEF Minute, EngineInv
<1>6. run.now - run.last >= Cooldown
  BY <1>4 DEF Admissible
<1>7. terms[s].created_at < run.now /\ terms[s].created_at + Expiry <= run.upto
  BY <1>2, <1>3, <1>5, <1>6
<1>8. ~Queued(s, run.queue)
  <2>1. \A n \in 1..Len(<<>>) : FALSE
    BY EmptySeq
  <2> QED BY <2>1 DEF Queued
<1>9. status[s] # "ACTIVE"
  BY <1>2, <1>7, <1>8 DEF SeenBy, Admissible
<1>10. status[s] = "PENDING" => run.upto <= Resolved(s) + 1
  BY <1>1, <1>7, <1>8 DEF RunProgress, Progress, Unfinished, CaughtUp
<1>11. Resolved(s) \in Int
  BY ResolvedIs DEF LedgerReplays, Books
<1> QED BY <1>5, <1>7, <1>9, <1>10, <1>11 DEF Outlived

\* Hence a new signal is admitted only beside signals that have outlived their chance.
LEMMA EvaluateKnows ==
    ASSUME WideColumns, Cooldown >= Expiry, EngineInv, LedgerReplays, RunProgress(run), RunKnows(run),
           Evaluate
    PROVE  RunKnows(run')
<1> PICK r : r = run'
  OBVIOUS
<1>0. run.todo = <<>> /\ RunType(run) /\ run.phase = "entry" /\ run.queue = <<>>
  BY DEF Evaluate, Planning, EngineInv, EngineTypeOK
<1>1. ASSUME r.phase = "report", r.upto = run.upto, r.now = run.now, AdmitsAlone(r)
      PROVE  RunKnows(r)
  <2>1. Monitoring(run) /\ ~Looking(r)
    BY <1>0, <1>1 DEF Monitoring, Looking
  <2> QED BY <1>1, <2>1 DEF RunKnows
<1>2. CASE run' = [run EXCEPT !.phase = "report"]
  <2>1. r.phase = "report" /\ r.upto = run.upto /\ r.todo = <<>> /\ r.now = run.now
    BY <1>0, <1>2 DEF RunType
  <2> QED BY <1>1, <2>1, NothingAbout, AboutNoAdmission
<1>3. ASSUME Admissible, NEW setup \in Setup, NEW aligned \in StartsAligned,
             run' = [run EXCEPT !.phase = "report",
                       !.todo = <<Command("allocate_signal_id", Null, run.now, DateOf[run.now],
                                          NewTerms(setup, aligned))>>]
      PROVE  RunKnows(r)
  <2>1. PICK c : c = Command("allocate_signal_id", Null, run.now, DateOf[run.now],
                             NewTerms(setup, aligned))
    OBVIOUS
  <2>2. r.phase = "report" /\ r.upto = run.upto /\ r.todo = <<c>> /\ r.now = run.now
    BY <1>0, <1>3, <2>1 DEF RunType
  <2>3. \A n \in 1..Len(<<c>>) : n = 1
    OBVIOUS
  <2>4. \A s \in Created : Outlived(s)
    BY <1>0, <1>3, AdmissibleOutlived
  <2>5. AdmitsAlone(r)
    BY <2>2, <2>3, <2>4 DEF AdmitsAlone
  <2> QED BY <1>1, <2>2, <2>5
<1> QED BY <1>2, <1>3 DEF Evaluate

\* Every planning step keeps what the run knows.
LEMMA PlanningKnows ==
    ASSUME WideColumns, Cooldown >= Expiry, EngineInv, LedgerReplays, RunProgress(run), RunKnows(run),
           \/ Start \/ Load \/ Collect \/ PlanEntry \/ PlanExit \/ PlanManagement \/ EndSignal
           \/ Evaluate \/ Report \/ Record
    PROVE  RunKnows(run')
<1>1. CASE Record
  BY <1>1, EndedKnows DEF Record
<1> QED BY <1>1, StartKnows, LoadKnows, CollectKnows, PlanEntryKnows, PlanExitKnows,
           PlanManagementKnows, EndSignalKnows, EvaluateKnows, ReportKnows

----------------------------------------------------------------------------
(* What a run knows, step by step.                                         *)

\* A command keeps what a run knows of a signal: a late activation of a signal
\* that has left the queue would lie behind the candles the run has replayed.
LEMMA ExecutingKnows ==
    ASSUME WideColumns, EngineInv, LedgerReplays, UNCHANGED <<clock, candles>>,
           NEW c \in EngineCommand, Keyed(c), Pending(c, {}),
           Executes(c) \/ UNCHANGED ledgerVars,
           NEW r, RunOK(r), RunProgress(r), RunKnows(r),
           Monitoring(r) /\ c.operation \in Moves => c.at < r.upto,
           c.operation = "create_signal" =>
              ~Looking(r) /\ \A n \in 1..Len(r.todo) : ~Admission(r.todo[n])
    PROVE  RunKnows(r)'
<1> HIDE DEF EngineCommand
<1>1. c.operation # "create_signal" => \A s \in Created' : s \in Created
  BY NewBacked
<1>2. ASSUME NEW s \in Created, SeenBy(s, r), Looking(r) PROVE SeenBy(s, r)'
  <2>1. CheckpointsKept(s) /\ terms'[s] = terms[s]
    BY ExecutingReplays DEF LedgerReplays, Books
  <2>2. Resolved(s) \in Int
    BY <2>1, ResolvedIs
  <2>3. ASSUME terms[s].created_at < r.now, status'[s] = "ACTIVE"
        PROVE  r.active \/ Queued(s, r.queue)
    <3>1. CASE status[s] = "ACTIVE"
      BY <1>2, <2>3, <3>1 DEF SeenBy
    <3>2. CASE status[s] # "ACTIVE"
      <4>1. status[s] = "PENDING"
        BY <2>3, <3>2, StatusMoves
      <4>2. c.operation = "activate_signal" /\ c.at = Resolved(s) + 1
        BY <2>3, <4>1, StatusMoves
      <4>3. Unfinished(s) /\ (r.phase = "collect" \/ Monitoring(r))
        BY <1>2, <4>1 DEF Unfinished, Looking, Monitoring
      <4>4. Queued(s, r.queue) \/ (Monitoring(r) /\ CaughtUp(s, r.upto))
        BY <2>3, <4>3 DEF RunProgress, Progress
      <4>5. r.upto \in Int
        BY DEF RunOK, RunType, Minute
      <4>6. Monitoring(r) /\ CaughtUp(s, r.upto) => FALSE
        BY <2>2, <4>2, <4>5 DEF CaughtUp, Moves, Operation
      <4> QED BY <4>4, <4>6
    <3> QED BY <3>1, <3>2
  <2> QED BY <1>2, <2>1, <2>3 DEF SeenBy, Queued
<1>3. Looking(r) => \A s \in Created' : SeenBy(s, r)'
  BY <1>1, <1>2 DEF RunKnows
<1>4. \A s \in Created : Outlived(s) => Outlived(s)'
  BY OutlivedKept
<1>5. AdmitsAlone(r)'
  BY <1>1, <1>4 DEF RunKnows, AdmitsAlone
<1> QED BY <1>3, <1>5 DEF RunKnows

\* While no command is executed a run knows what it knew.
LEMMA RestingKnown ==
    ASSUME UNCHANGED ledgerVars, NEW r, RunKnows(r) PROVE RunKnows(r)'
<1>1. Created' = Created /\ (\A s : Outlived(s)' <=> Outlived(s)) /\ terms' = terms /\ status' = status
  BY OutlivedRests DEF ledgerVars, tradeVars
<1>2. \A s : SeenBy(s, r)' <=> SeenBy(s, r)
  BY <1>1 DEF SeenBy, Queued
<1> QED BY <1>1, <1>2 DEF RunKnows, AdmitsAlone

\* A run that has failed or ended knows nothing.
LEMMA EndedKnown ==
    ASSUME run' \in {Failed, Idle} PROVE RunKnows(run)'
<1>1. /\ Failed.todo = <<>> /\ Failed.phase = "record" /\ Idle.todo = <<>> /\ Idle.phase = "idle"
  BY DEF Failed, Idle
<1>2. PICK r : r = run'
  OBVIOUS
<1>3. r.todo = <<>> /\ r.phase \in {"record", "idle"}
  BY <1>1, <1>2
<1>4. \A n \in 1..Len(r.todo) : FALSE
  BY <1>3, EmptySeq
<1>5. RunKnows(r)'
  BY <1>3, <1>4 DEF RunKnows, Looking, Monitoring, AdmitsAlone
<1> QED BY <1>2, <1>5

\* What the first command in line means to the run.
LEMMA HeadAdmits ==
    ASSUME EngineInv, AdmitsAlone(run), run.todo # <<>>, Admission(Head(run.todo))
    PROVE  run.phase = "report" /\ \A s \in Created : Outlived(s)
<1>1. run.todo \in Seq(EngineCommand)
  BY Inherits DEF EngineInv
<1> HIDE DEF EngineCommand
<1>2. 1 \in 1..Len(run.todo) /\ run.todo[1] = Head(run.todo)
  BY <1>1
<1> QED BY <1>2 DEF AdmitsAlone

\* After a command nothing is admitted but the signal just allocated.
LEMMA SentAdmits ==
    ASSUME WideColumns, EngineInv, LedgerReplays, UNCHANGED <<clock, candles>>, AdmitsAlone(run),
           run.todo # <<>>, NEW c \in EngineCommand, Keyed(c), Pending(c, {}), Executes(c),
           c.operation = Head(run.todo).operation, NEW r, r = AfterReply(c)
    PROVE  AdmitsAlone(r)'
<1> HIDE DEF EngineCommand
<1>0. RunType(run)
  BY DEF EngineInv, EngineTypeOK
<1>1. CASE c.operation = "allocate_signal_id"
  <2>1. PICK s, todo : s = <<c.key, sequence'[c.key]>> /\ todo = CreateCommands(s, c.data)
    OBVIOUS
  <2>2. r = [run EXCEPT !.todo = todo]
    BY <1>1, <2>1 DEF AfterReply
  <2>3. r.phase = run.phase /\ r.todo = todo
    BY <1>0, <2>2 DEF RunType
  <2>4. run.phase = "report" /\ \A x \in Created : Outlived(x)
    BY <1>1, HeadAdmits DEF Admission
  <2>5. \A x \in Created' : Outlived(x)'
    <3> SUFFICES ASSUME NEW x \in Created' PROVE Outlived(x)'
      OBVIOUS
    <3>1. x \in Created
      BY <1>1, NewBacked
    <3> QED BY <2>4, <3>1, OutlivedKept
  <2>6. PICK b : b = Command("enqueue_notification", s, run.now, CreatedNotice(s), Null)
    OBVIOUS
  <2>7. PICK a : a = Command("create_signal", s, run.now, CreatedNotice(s), c.data)
    OBVIOUS
  <2>8. b.operation = "enqueue_notification"
    BY <2>6 DEF Command
  <2>9. Len(todo) = 2 /\ todo[2] = b
    BY <2>1, <2>6, <2>7 DEF CreateCommands
  <2>10. \A n \in 1..Len(todo) : Admission(todo[n]) => n = 1
    BY <2>8, <2>9 DEF Admission
  <2> QED BY <2>3, <2>4, <2>5, <2>10 DEF AdmitsAlone
<1>2. CASE c.operation # "allocate_signal_id"
  <2>1. PICK list, tail : list = run.todo /\ tail = Tail(list)
    OBVIOUS
  <2>2. r.todo = tail
    BY <1>0, <1>2, <2>1 DEF AfterReply, RunType
  <2>3. list \in Seq(EngineCommand) /\ list # <<>>
    BY <2>1, Inherits DEF EngineInv
  <2>4. \A m \in 1..Len(tail) : m + 1 \in 1..Len(list) /\ m + 1 # 1 /\ tail[m] = list[m + 1]
    BY <2>1, <2>3
  <2>5. \A m \in 1..Len(tail) : ~Admission(tail[m])
    BY <2>1, <2>4 DEF AdmitsAlone
  <2> QED BY <2>2, <2>5 DEF AdmitsAlone
<1> QED BY <1>1, <1>2

\* A command of the run keeps what the run knows ...
LEMMA SendKnows ==
    ASSUME WideColumns, EngineInv, EngineInv', TruthInv, ReplayInv, RunProgress(run), RunKnows(run), Send
    PROVE  RunKnows(run)'
<1> PICK c : c = Prepared(Head(run.todo))
  OBVIOUS
<1>0. /\ run.todo # <<>> /\ Executes(c) /\ run' = IF Accepted(c) THEN AfterReply(c) ELSE Failed
      /\ UNCHANGED <<clock, candles, late>> /\ RunType(run) /\ RunOK(run)
  BY Inherits DEF Send, environment, EngineInv, EngineTypeOK
<1>1. /\ c \in EngineCommand /\ Keyed(c) /\ Pending(c, {}) /\ Likened(Head(run.todo), c)
      /\ run.todo \in Seq(EngineCommand) /\ LedgerReplays
  BY <1>0, HeadReplays
<1> HIDE DEF EngineCommand
<1>2. CASE ~Accepted(c)
  BY <1>0, <1>2, EndedKnown
<1>3. CASE Accepted(c)
  <2>1. PICK r, todo : r = AfterReply(c) /\ todo = r.todo
    OBVIOUS
  <2>2. run' = r
    BY <1>0, <1>3, <2>1
  <2>3. PICK b : b = [run EXCEPT !.todo = <<>>]
    OBVIOUS
  <2>4. PICK x : r = [run EXCEPT !.todo = x]
    BY <2>1 DEF AfterReply
  <2>5. /\ b.phase = run.phase /\ b.queue = run.queue /\ b.upto = run.upto /\ b.now = run.now
        /\ b.last = run.last /\ b.active = run.active /\ b.todo = <<>> /\ b.cursor = run.cursor
        /\ r.phase = b.phase /\ r.queue = b.queue /\ r.upto = b.upto /\ r.now = b.now
        /\ r.last = b.last /\ r.active = b.active
    BY <1>0, <2>3, <2>4 DEF RunType
  <2>6. RunOK(b)
    <3>1. <<>> \in Seq(EngineCommand)
      BY EmptySeq
    <3>2. RunType(b)
      BY <1>0, <2>3, <3>1 DEF RunType
    <3>3. QueueCreated(b) /\ RunPlace(b)
      BY <1>0, <2>5 DEF RunOK, QueueCreated, RunPlace
    <3> QED BY <3>2, <3>3 DEF RunOK
  <2>7. /\ Monitoring(b) <=> Monitoring(run)
        /\ Looking(b) <=> Looking(run)
    BY <2>5 DEF Monitoring, Looking
  <2>8. RunProgress(b)
    <3>1. \A s : Progress(s, run) => Progress(s, b)
      BY <2>5, <2>7 DEF Progress
    <3> QED BY <2>5, <2>7, <3>1, NothingAdmitted DEF RunProgress
  <2>9. RunKnows(b)
    <3>1. \A s : SeenBy(s, run) => SeenBy(s, b)
      BY <2>5 DEF SeenBy
    <3>2. AdmitsAlone(b)
      BY <2>5, NothingAbout, AboutNoAdmission
    <3> QED BY <2>5, <2>7, <3>1, <3>2 DEF RunKnows
  <2>10. Monitoring(b) /\ c.operation \in Moves => c.at < b.upto
    <3>1. PICK list : list = run.todo
      OBVIOUS
    <3>2. Admits(list, run.now) /\ (Monitoring(run) => Below(list, run.upto))
      BY <3>1 DEF RunProgress
    <3>3. Below(list, run.upto) /\ c.operation \in Moves => c.at < run.upto
      BY <1>0, <1>1, <3>1, <3>2, HeadDated
    <3> QED BY <2>5, <2>7, <3>2, <3>3
  <2>11. c.operation = "create_signal" => ~Looking(b) /\ \A n \in 1..Len(b.todo) : ~Admission(b.todo[n])
    <3>1. c.operation = "create_signal" => run.phase = "report"
      BY <1>0, <1>1, HeadAdmits DEF RunKnows, Admission, Likened
    <3>2. \A n \in 1..Len(<<>>) : FALSE
      BY EmptySeq
    <3> QED BY <2>5, <3>1, <3>2 DEF Looking
  <2>12. RunKnows(b)'
    BY <1>0, <1>1, <2>6, <2>8, <2>9, <2>10, <2>11, ExecutingKnows
  <2>13. AdmitsAlone(r)'
    BY <1>0, <1>1, <2>1, SentAdmits DEF RunKnows, Likened
  <2>14. RunKnows(r)'
    <3>1. /\ Monitoring(r) <=> Monitoring(b)
          /\ Looking(r) <=> Looking(b)
      BY <2>5 DEF Monitoring, Looking
    <3>2. \A s : SeenBy(s, b)' => SeenBy(s, r)'
      BY <2>5 DEF SeenBy
    <3> QED BY <2>5, <2>12, <2>13, <3>1, <3>2 DEF RunKnows, Monitoring, Looking
  <2> QED BY <2>2, <2>14
<1> QED BY <1>2, <1>3

\* ... and so does a late one, which never creates a signal.
LEMMA ArriveLateKnows ==
    ASSUME WideColumns, "create_signal" \notin LateOps, EngineInv, TruthInv, ReplayInv, SuccessInv,
           RunKnows(run), ArriveLate
    PROVE  RunKnows(run)'
<1>0. PICK c \in late : Executes(c) /\ late' = late \ {c} /\ UNCHANGED <<clock, candles, run>>
  BY DEF ArriveLate
<1>1. c \in EngineCommand /\ Keyed(c) /\ Pending(c, {}) /\ LedgerReplays
  <2> HIDE DEF EngineCommand
  <2> QED BY DEF EngineInv, EngineTypeOK, TruthInv, TruthfulLate, ReplayInv, PendingLate
<1> HIDE DEF EngineCommand
<1>2. PICK r : r = run
  OBVIOUS
<1>3. RunOK(r) /\ RunProgress(r) /\ RunKnows(r) /\ c.operation # "create_signal"
  BY <1>0, <1>2, Inherits DEF EngineInv, SuccessInv, LateKnown
<1>4. Monitoring(r) /\ c.operation \in Moves => c.at < r.upto
  BY <1>3 DEF RunProgress, LateBelow
<1>5. RunKnows(r)'
  BY <1>0, <1>1, <1>3, <1>4, ExecutingKnows
<1> QED BY <1>0, <1>2, <1>5

\* Every step keeps what the run knows.
LEMMA KnowsStep ==
    ASSUME WideColumns, "create_signal" \notin LateOps, Cooldown >= Expiry, EngineInv, EngineInv',
           TruthInv, ReplayInv, SuccessInv, RunKnows(run), [EngineNext]_vars
    PROVE  RunKnows(run)'
<1>0. RunProgress(run) /\ LedgerReplays
  BY DEF ReplayInv, SuccessInv
<1>1. ASSUME UNCHANGED ledgerVars, RunKnows(run') PROVE RunKnows(run)'
  <2>1. PICK r : r = run'
    OBVIOUS
  <2>2. RunKnows(r)'
    BY <1>1, <2>1, RestingKnown
  <2> QED BY <2>1, <2>2
<1>2. CASE \/ Start \/ Load \/ Collect \/ PlanEntry \/ PlanExit \/ PlanManagement \/ EndSignal
           \/ Evaluate \/ Report \/ Record
  <2>1. UNCHANGED ledgerVars
    BY <1>2 DEF Start, Load, Collect, PlanEntry, PlanExit, PlanManagement, EndSignal, Evaluate,
         Report, Record
  <2>2. RunKnows(run')
    BY <1>0, <1>2, PlanningKnows
  <2> QED BY <1>1, <2>1, <2>2
<1>3. CASE ReadFails \/ Kill \/ LoseReply \/ GiveUp
  <2>1. run' \in {Failed, Idle}
    BY <1>3 DEF ReadFails, Kill, LoseReply, GiveUp
  <2> QED BY <2>1, EndedKnown
<1>4. CASE Send
  BY <1>0, <1>4, SendKnows
<1>5. CASE ArriveLate
  BY <1>5, ArriveLateKnows
<1>6. CASE Tick \/ TogglePause \/ UNCHANGED vars
  <2>1. UNCHANGED <<ledgerVars, run>>
    BY <1>6 DEF Tick, TogglePause, vars, engineVars
  <2>2. RunKnows(run')
    BY <2>1
  <2> QED BY <1>1, <2>1, <2>2
<1> QED BY <1>2, <1>3, <1>4, <1>5, <1>6 DEF EngineNext, RunStep

\* What the books of all signals keep, so that no command meets a refusal.
Ready == Backing /\ Noticed /\ Supersedes

\* A command keeps them ...
LEMMA ReadyKept ==
    ASSUME WideColumns, EngineInv, LedgerReplays, Ready, UNCHANGED <<clock, candles>>,
           NEW c \in EngineCommand, Keyed(c), Pending(c, {}),
           Executes(c) \/ UNCHANGED ledgerVars,
           c.operation = "create_signal" => \A s \in Created : Outlived(s)
    PROVE  Ready'
<1> HIDE DEF EngineCommand
<1>1. Backing'
  BY BackingKept DEF Ready
<1>2. Noticed'
  BY NoticedKept DEF Ready
<1>3. Supersedes'
  BY SupersedesKept DEF Ready
<1> QED BY <1>1, <1>2, <1>3 DEF Ready

\* ... and so does time.
LEMMA ReadyRests ==
    ASSUME WideColumns, EngineInv, LedgerReplays, Ready, UNCHANGED ledgerVars,
           clock' \in Int, clock' >= clock, \A i \in 0..(clock - 1) : Candle(i)' = Candle(i)
    PROVE  Ready'
<1>1. Backing'
  BY BackingRests DEF Ready
<1>2. Created' = Created /\ \A s : Outlived(s)' <=> Outlived(s)
  BY OutlivedRests
<1>3. Noticed'
  <2>1. outbox' = outbox
    BY DEF ledgerVars
  <2>2. \A s : CreatedNotice(s)' = CreatedNotice(s)
    BY DEF CreatedNotice, Notice
  <2> QED BY <1>2, <2>1 DEF Ready, Noticed
<1>4. Supersedes'
  BY <1>2 DEF Ready, Supersedes
<1> QED BY <1>1, <1>3, <1>4 DEF Ready

\* So does every step of the engine.
LEMMA ReadyStep ==
    ASSUME WideColumns, "create_signal" \notin LateOps, EngineInv, TruthInv, ReplayInv, SuccessInv,
           RunKnows(run), Ready, [EngineNext]_vars
    PROVE  Ready'
<1>0. clock \in Int /\ LedgerReplays
  BY DEF EngineInv, EngineTypeOK, MarketType, Minute, ReplayInv
<1>1. ASSUME UNCHANGED <<ledgerVars, clock, candles>> PROVE Ready'
  <2>1. clock' \in Int /\ clock' >= clock /\ \A i \in 0..(clock - 1) : Candle(i)' = Candle(i)
    BY <1>0, <1>1 DEF Candle
  <2> QED BY <1>0, <1>1, <2>1, ReadyRests
<1>2. CASE \/ Start \/ Load \/ Collect \/ PlanEntry \/ PlanExit \/ PlanManagement \/ EndSignal
           \/ Evaluate \/ Report \/ Record
  <2>1. UNCHANGED <<ledgerVars, clock, candles>>
    BY <1>2 DEF Start, Load, Collect, PlanEntry, PlanExit, PlanManagement, EndSignal, Evaluate,
         Report, Record, environment
  <2> QED BY <1>1, <2>1
<1>3. CASE ReadFails \/ Kill \/ GiveUp \/ TogglePause \/ UNCHANGED vars
  <2>1. UNCHANGED <<ledgerVars, clock, candles>>
    BY <1>3 DEF ReadFails, Kill, GiveUp, TogglePause, vars, engineVars
  <2> QED BY <1>1, <2>1
<1>4. CASE Send \/ LoseReply
  <2>1. PICK c : c = Prepared(Head(run.todo))
    OBVIOUS
  <2>2. /\ run.todo # <<>> /\ (Executes(c) \/ UNCHANGED ledgerVars)
        /\ UNCHANGED <<clock, candles>>
    BY <1>4, <2>1 DEF Send, LoseReply, environment
  <2>3. c \in EngineCommand /\ Keyed(c) /\ Pending(c, {}) /\ Likened(Head(run.todo), c)
    BY <2>1, <2>2, HeadReplays
  <2> HIDE DEF EngineCommand
  <2>4. c.operation = "create_signal" => \A s \in Created : Outlived(s)
    BY <2>2, <2>3, HeadAdmits DEF RunKnows, Admission, Likened
  <2> QED BY <1>0, <2>2, <2>3, <2>4, ReadyKept
<1>5. CASE ArriveLate
  <2>1. PICK c \in late : Executes(c) /\ UNCHANGED <<clock, candles>>
    BY <1>5 DEF ArriveLate
  <2> HIDE DEF EngineCommand
  <2>2. c \in EngineCommand /\ Keyed(c) /\ Pending(c, {})
    BY DEF EngineInv, EngineTypeOK, TruthInv, TruthfulLate, ReplayInv, PendingLate
  <2>3. c.operation # "create_signal"
    BY DEF SuccessInv, LateKnown
  <2> QED BY <1>0, <2>1, <2>2, <2>3, ReadyKept
<1>6. CASE Tick
  <2>1. UNCHANGED ledgerVars /\ clock' = clock + 1
    BY <1>6 DEF Tick
  <2>2. \A i \in 0..(clock - 1) : Candle(i)' = Candle(i)
    <3>1. PICK x \in Candles[clock] : candles' = Append(candles, x)
      BY <1>6 DEF Tick
    <3>2. candles \in Seq(AnyCandle) /\ Len(candles) = clock
      BY DEF EngineInv, EngineTypeOK, MarketType
    <3>3. x \in AnyCandle
      BY <1>6, <3>1, Bounds DEF AnyCandle, Tick, EngineInv
    <3> HIDE DEF AnyCandle
    <3> QED BY <3>1, <3>2, <3>3 DEF Candle
  <2>3. clock' \in Int /\ clock' >= clock
    BY <1>0, <2>1
  <2> QED BY <1>0, <2>1, <2>2, <2>3, ReadyRests
<1> QED BY <1>2, <1>3, <1>4, <1>5, <1>6 DEF EngineNext, RunStep

\* The invariant that keeps the run going.
RefusalInv == Ready /\ ClosesOpened /\ RunKnows(run)

\* In the beginning nothing is created and nothing is under way.
LEMMA RefusalInit == EngineInit => RefusalInv
<1> SUFFICES ASSUME EngineInit PROVE RefusalInv
  OBVIOUS
<1>1. run = Idle /\ late = {} /\ receipt = {} /\ Created = {}
  BY DEF EngineInit, Init, Created
<1>2. \A n \in 1..Len(<<>>) : FALSE
  BY EmptySeq
<1>3. Ready
  BY <1>1 DEF Ready, Backing, ReceiptsNamed, Noticed, Supersedes
<1>4. ClosesOpened
  BY <1>1, <1>2 DEF ClosesOpened, Listed, Idle
<1>5. RunKnows(run)
  BY <1>1, EndedKnows
<1> QED BY <1>3, <1>4, <1>5 DEF RefusalInv

\* Every step keeps it.
LEMMA RefusalStep ==
    ASSUME WideColumns, "create_signal" \notin LateOps, Cooldown >= Expiry, EngineInv, EngineInv',
           TruthInv, ReplayInv, SuccessInv, RefusalInv, [EngineNext]_vars
    PROVE  RefusalInv'
<1>1. Ready'
  BY ReadyStep DEF RefusalInv
<1>2. ClosesOpened'
  BY OpenedStep DEF RefusalInv
<1>3. RunKnows(run)'
  BY KnowsStep DEF RefusalInv
<1> QED BY <1>1, <1>2, <1>3 DEF RefusalInv

\* The replay leaves PENDING once.
LEMMA OpensOnce ==
    ASSUME WideColumns, MarketType, NEW s, terms[s] \in EngineTerm,
           NEW i \in Int, Due(s) <= i, NEW j \in Int, i < j, j < clock,
           Entered(s, i).status # "PENDING"
    PROVE  ReplayTo(s, j - 1).status # "PENDING"
<1>1. i < clock /\ clock \in Int
  BY DEF MarketType, Minute
<1>2. Due(s) \in Nat
  BY FirstSafeOpenNat DEF Due
<1>3. Follows(Entered(s, i), Exited(s, i)) /\ Follows(Exited(s, i), ReplayTo(s, i))
  BY <1>1, CandleStates
<1>4. Follows(ReplayTo(s, i), ReplayTo(s, j - 1))
  BY <1>1, <1>2, ReplayFollows
<1> QED BY <1>3, <1>4 DEF Follows

\* A command that opens a signal or lets it lapse finds it PENDING, or its own receipt.
LEMMA OpeningFindsPending ==
    ASSUME WideColumns, EngineInv, LedgerReplays, Backing, NEW c \in EngineCommand, Keyed(c),
           Pending(c, {}), c.operation \in {"activate_signal", "transition_pending"},
           ~Duplicate(c.key, c.operation)
    PROVE  status[c.signal_id] = "PENDING"
<1> HIDE DEF EngineCommand
<1>0. PICK s, i : s = c.signal_id /\ i = c.at
  OBVIOUS
<1> SUFFICES ASSUME status[s] # "PENDING" PROVE FALSE
  BY <1>0
<1>1. Placed(c) /\ OpeningDue(c)
  BY DEF Pending, Moves, Operation
<1>2. /\ s \in Created /\ Due(s) <= i /\ i < clock /\ ReplayTo(s, i - 1).status = "PENDING"
      /\ c.operation = "activate_signal" => Entered(s, i).status = "ACTIVE"
      /\ c.operation = "transition_pending" => Entered(s, i).status = "EXPIRED"
  BY <1>0, <1>1 DEF Placed, OpeningDue
<1>3. PICK j \in Minute : OpenedAt(s, j)
  BY <1>2 DEF Backing, Backed
<1>4. MarketType /\ terms[s] \in EngineTerm /\ clock \in Int
  <2>1. CheckpointsKept(s)
    BY <1>2 DEF LedgerReplays, Books
  <2> QED BY <1>2, <2>1, ResolvedIs
<1>5. i \in Int /\ j \in Int
  BY <1>0, CommandShape DEF Minute
<1>6. Due(s) <= j /\ j < clock /\ ReplayTo(s, j - 1).status = "PENDING"
      /\ Entered(s, j).status \in {"ACTIVE", "EXPIRED"}
  BY <1>3 DEF OpenedAt
<1>7. ~(i < j)
  BY <1>2, <1>4, <1>5, <1>6, OpensOnce
<1>8. ~(j < i)
  BY <1>2, <1>4, <1>5, <1>6, OpensOnce
<1>9. j = i
  BY <1>5, <1>7, <1>8
<1>10. CASE c.operation = "activate_signal"
  <2>1. PICK k : k = CommandKey(s, i, "activate", "")
    OBVIOUS
  <2>2. c.key = k
    BY <1>0, <1>10, <2>1 DEF Keyed
  <2>3. Duplicate(k, "activate_signal")
    BY <1>2, <1>3, <1>9, <1>10, <2>1 DEF OpenedAt
  <2> QED BY <1>10, <2>2, <2>3
<1>11. CASE c.operation = "transition_pending"
  <2>1. PICK k : k = CommandKey(s, i, "expire", "")
    OBVIOUS
  <2>2. c.key = k
    BY <1>0, <1>11, <2>1 DEF Keyed
  <2>3. Duplicate(k, "transition_pending")
    BY <1>2, <1>3, <1>9, <1>11, <2>1 DEF OpenedAt
  <2> QED BY <1>11, <2>2, <2>3
<1> QED BY <1>10, <1>11

\* A command that activates a signal is the first of its candle's rows, and the
\* candle is not one on which it must expire.
LEMMA ActivatingAlone ==
    ASSUME WideColumns, EngineInv, LedgerReplays, Supersedes, NEW c \in EngineCommand,
           Pending(c, {}), c.operation = "activate_signal", status[c.signal_id] = "PENDING"
    PROVE  \A other \in SignalId : status[other] # "ACTIVE"
<1> HIDE DEF EngineCommand
<1>0. PICK s, i : s = c.signal_id /\ i = c.at
  OBVIOUS
<1>1. Placed(c) /\ OpeningDue(c)
  BY DEF Pending, Moves, Operation
<1>2. /\ s \in Created /\ Due(s) <= i /\ i < clock /\ i <= Resolved(s) + 1
      /\ ReplayTo(s, i - 1).status = "PENDING" /\ Entered(s, i).status = "ACTIVE"
      /\ status[s] = "PENDING"
  BY <1>0, <1>1 DEF Placed, OpeningDue
<1>3. Books(s) /\ i \in Int
  BY <1>0, <1>2, CommandShape DEF LedgerReplays
<1>4. MarketType /\ terms[s] \in EngineTerm
  BY <1>2, <1>3, ResolvedIs DEF Books
<1>5. i = Resolved(s) + 1
  BY <1>2, <1>3, OpeningPlace
<1>6. ~MustExpire(terms[s], i)
  BY <1>2, <1>3, <1>4, EnteredIs
<1>7. ~Outlived(s)
  <2>1. terms[s].created_at \in Int /\ Expiry \in Int /\ Resolved(s) \in Int
    BY <1>2, <1>3, CreatedDated, ResolvedIs, EngineAssumption DEF Books
  <2>2. ~(i >= terms[s].created_at + Expiry)
    BY <1>6 DEF MustExpire
  <2> QED BY <1>2, <1>3, <1>5, <2>1, <2>2 DEF Outlived
<1> SUFFICES ASSUME NEW other \in SignalId, status[other] = "ACTIVE" PROVE FALSE
  OBVIOUS
<1>8. other \in Created /\ other # s /\ ~Outlived(other)
  BY <1>2 DEF Created, Outlived
<1> QED BY <1>2, <1>7, <1>8 DEF Supersedes

\* A command that closes a track finds it open, or its own receipt.
LEMMA ClosingFindsOpen ==
    ASSUME WideColumns, EngineInv, LedgerReplays, Backing, NEW c \in EngineCommand, Keyed(c),
           Pending(c, {}), CloseOpened(c), c.operation = "close_track",
           ~Duplicate(c.key, c.operation)
    PROVE  TrackActive(c.signal_id, c.data.variant)
<1> HIDE DEF EngineCommand
<1>0. PICK s, i, v : s = c.signal_id /\ i = c.at /\ v = c.data.variant
  OBVIOUS
<1> SUFFICES ASSUME ~TrackActive(s, v) PROVE FALSE
  BY <1>0
<1>1. Placed(c) /\ CloseDue(c) /\ v \in Variant
  BY <1>0, CommandShape DEF Pending, Moves, Operation
<1>2. /\ s \in Created /\ Due(s) <= i /\ i < clock
      /\ IsOpen(Entered(s, i), v) /\ ~IsOpen(Exited(s, i), v)
      /\ c.data.closing = Exited(s, i).outcome[v]
  BY <1>0, <1>1 DEF Placed, CloseDue
<1>3. MarketType /\ terms[s] \in EngineTerm /\ clock \in Int
  <2>1. CheckpointsKept(s)
    BY <1>2 DEF LedgerReplays, Books
  <2> QED BY <1>2, <2>1, ResolvedIs
<1>4. trade[s] # Null
  BY <1>0 DEF CloseOpened
<1>5. outcome[s][v] # Null
  BY <1>1, <1>2, <1>4, RowFacts
<1>6. PICK j \in Minute : ClosedAt(s, v, j)
  BY <1>1, <1>2, <1>5 DEF Backing, Backed
<1>7. Due(s) <= j /\ j < clock /\ IsOpen(Entered(s, j), v) /\ ~IsOpen(Exited(s, j), v)
  BY <1>6 DEF ClosedAt
<1>8. i \in Int /\ j \in Int
  BY <1>0, CommandShape DEF Minute
<1>9. ASSUME NEW m \in Int, NEW n \in Int, Due(s) <= m, m < n, n < clock,
             IsOpen(Entered(s, m), v), ~IsOpen(Exited(s, m), v), IsOpen(Entered(s, n), v)
      PROVE  FALSE
  <2>1. m < clock /\ Due(s) <= n /\ m <= n - 1 /\ n - 1 < clock /\ n - 1 \in Int
    <3>1. Due(s) \in Nat
      BY <1>3, FirstSafeOpenNat DEF Due
    <3> QED BY <1>3, <1>9, <3>1
  <2>2. Exited(s, m).outcome[v] # Null
    BY <1>1, <1>3, <1>9, <2>1, ExitedIs
  <2>3. Follows(Exited(s, m), ReplayTo(s, n - 1))
    BY <1>3, <1>9, <2>1, Onward
  <2>4. ReplayTo(s, n - 1).outcome[v] # Null
    BY <1>1, <2>2, <2>3 DEF Follows
  <2>5. Entered(s, n).outcome[v] # Null
    BY <1>1, <1>3, <1>9, <2>1, <2>4, EnteredIs
  <2>6. Shaped(Entered(s, n))
    BY <1>3, <1>9, <2>1, CandleStates
  <2> QED BY <1>1, <1>9, <2>5, <2>6 DEF Shaped
<1>10. j = i
  BY <1>2, <1>7, <1>8, <1>9
<1>11. PICK k : k = CommandKey(s, i, v, c.data.closing.close_event)
  OBVIOUS
<1>12. c.key = k
  BY <1>0, <1>11 DEF Keyed
<1>13. Duplicate(k, "close_track")
  BY <1>2, <1>6, <1>10, <1>11 DEF ClosedAt
<1> QED BY <1>12, <1>13

\* A management decision finds its track open, or its own receipt.
LEMMA DecidingFindsOpen ==
    ASSUME WideColumns, EngineInv, LedgerReplays, NEW c \in EngineCommand, Keyed(c),
           Pending(c, {}), c.operation = "apply_management_decision",
           ~Duplicate(c.key, c.operation)
    PROVE  TrackActive(c.signal_id, "MANAGED")
<1> HIDE DEF EngineCommand
<1>0. PICK s, i : s = c.signal_id /\ i = c.at
  OBVIOUS
<1>1. Placed(c) /\ DecisionDue(c)
  BY DEF Pending, Moves, Operation
<1>2. /\ s \in Created /\ Due(s) <= i /\ i <= Resolved(s) /\ IsOpen(Exited(s, i), "MANAGED")
  BY <1>0, <1>1 DEF Placed, DecisionDue
<1>3. Books(s) /\ i \in Minute
  BY <1>0, <1>2, CommandShape DEF LedgerReplays
<1>4. c.key = ManagementKey(s, i)
  BY <1>0 DEF Keyed, ManagementKey
<1>5. ~DecidedOn(s, i)
  BY <1>4 DEF LedgerReplays, ReceiptsKept, Duplicate, DecidedOn, DecisionExists
<1>6. ~Settled(s)
  BY <1>2, <1>3, <1>5, DecidingPlace
<1> QED BY <1>0, <1>2, <1>3, <1>6, Unsettled

\* So no command of a run is refused.
LEMMA CommandAccepted ==
    ASSUME WideColumns, EngineInv, LedgerReplays, Ready, JournalTellsStatus, NoFalseAnnouncement,
           NEW c \in EngineCommand, Keyed(c), Pending(c, {}), CloseOpened(c)
    PROVE  Allowed(c) \/ Redundant(c)
<1> HIDE DEF EngineCommand
<1>0. Backing /\ Noticed /\ Supersedes /\ ReceiptsNamed
  BY DEF Ready, Backing
<1>1. ASSUME c.operation \in Operation, ~Duplicate(c.key, c.operation) PROVE KeyUnused(c.key)
  BY <1>0, <1>1, KeyIsFree
<1>2. ASSUME c.operation \in Operation, Duplicate(c.key, c.operation) PROVE Redundant(c)
  <2>1. c.operation # "create_signal"
    BY <1>2 DEF Operation
  <2> QED BY <1>2, <2>1, Zenon DEF Redundant
<1>3. CASE c.operation = "activate_signal"
  <2>1. c.operation \in Operation
    BY <1>3 DEF Operation
  <2>2. CASE Duplicate(c.key, c.operation)
    BY <1>2, <2>1, <2>2
  <2>3. CASE ~Duplicate(c.key, c.operation)
    <3>1. KeyUnused(c.key)
      BY <1>1, <2>1, <2>3
    <3>2. status[c.signal_id] = "PENDING"
      BY <1>0, <1>3, <2>3, OpeningFindsPending
    <3>3. \A other \in SignalId : status[other] # "ACTIVE"
      BY <1>0, <1>3, <3>2, ActivatingAlone
    <3>4. ActivateAllowed(c.signal_id, c.key)
      BY <3>1, <3>2, <3>3 DEF ActivateAllowed
    <3> QED BY <1>3, <3>4 DEF Allowed
  <2> QED BY <2>2, <2>3
<1>4. CASE c.operation = "transition_pending"
  <2>1. c.operation \in Operation
    BY <1>4 DEF Operation
  <2>2. CASE Duplicate(c.key, c.operation)
    BY <1>2, <2>1, <2>2
  <2>3. CASE ~Duplicate(c.key, c.operation)
    <3>1. KeyUnused(c.key)
      BY <1>1, <2>1, <2>3
    <3>2. status[c.signal_id] = "PENDING"
      BY <1>0, <1>4, <2>3, OpeningFindsPending
    <3>3. TransitionAllowed(c.signal_id, c.key)
      BY <3>1, <3>2 DEF TransitionAllowed
    <3> QED BY <1>4, <3>3 DEF Allowed
  <2> QED BY <2>2, <2>3
<1>5. CASE c.operation = "close_track"
  <2>1. c.operation \in Operation
    BY <1>5 DEF Operation
  <2>2. CASE Duplicate(c.key, c.operation)
    BY <1>2, <2>1, <2>2
  <2>3. CASE ~Duplicate(c.key, c.operation)
    <3>1. KeyUnused(c.key)
      BY <1>1, <2>1, <2>3
    <3>2. TrackActive(c.signal_id, c.data.variant)
      BY <1>0, <1>5, <2>3, ClosingFindsOpen
    <3>3. Placed(c)
      BY <2>1 DEF Pending, Moves
    <3>4. c.data.variant = "MANAGED" => status[c.signal_id] = "ACTIVE"
      BY <3>2, <3>3, RowFacts DEF Placed
    <3>5. CloseAllowed(c.signal_id, c.data.variant, c.key)
      BY <3>1, <3>2, <3>4 DEF CloseAllowed
    <3> QED BY <1>5, <3>5 DEF Allowed
  <2> QED BY <2>2, <2>3
<1>6. CASE c.operation = "apply_management_decision"
  <2>1. c.operation \in Operation
    BY <1>6 DEF Operation
  <2>2. CASE Duplicate(c.key, c.operation)
    BY <1>2, <2>1, <2>2
  <2>3. CASE ~Duplicate(c.key, c.operation)
    <3>1. KeyUnused(c.key)
      BY <1>1, <2>1, <2>3
    <3>2. TrackActive(c.signal_id, "MANAGED")
      BY <1>6, <2>3, DecidingFindsOpen
    <3>3. ManagementAllowed(c.signal_id, c.key)
      BY <3>1, <3>2 DEF ManagementAllowed
    <3> QED BY <1>6, <3>3 DEF Allowed
  <2> QED BY <2>2, <2>3
<1>7. CASE c.operation = "create_signal"
  <2>1. c.signal_id \in SignalId /\ c.key = CreatedNotice(c.signal_id)
    BY <1>7, CommandShape DEF Keyed
  <2>2. CASE status[c.signal_id] = "ABSENT"
    <3>1. c.key \notin outbox
      BY <2>1, <2>2, NoticeTells
    <3>2. CreateAllowed(c.signal_id, c.key)
      BY <2>2, <3>1 DEF CreateAllowed
    <3> QED BY <1>7, <3>2 DEF Allowed
  <2>3. CASE status[c.signal_id] # "ABSENT"
    <3>1. c.key \in outbox
      BY <1>0, <2>1, <2>3 DEF Noticed, Created
    <3>2. c.operation \notin Operation
      BY <1>7 DEF Operation
    <3> QED BY <1>7, <2>3, <3>1, <3>2 DEF Redundant
  <2> QED BY <2>2, <2>3
<1>8. CASE c.operation \notin Operation \cup {"create_signal"}
  BY <1>8 DEF Redundant
<1> QED BY <1>3, <1>4, <1>5, <1>6, <1>7, <1>8 DEF Operation

\* The next command of the run is such a command.
LEMMA NextAccepted ==
    ASSUME WideColumns, RefusedOps = {}, EngineInv, TruthInv, ReplayInv, RefusalInv, JournalTellsStatus
    PROVE  NoCommandRefused
<1> SUFFICES ASSUME run.todo # <<>> PROVE Accepted(Head(run.todo))
  BY DEF NoCommandRefused
<1>1. PICK c, list : c = Head(run.todo) /\ list = run.todo
  OBVIOUS
<1>2. list \in Seq(EngineCommand) /\ PendingList(list) /\ TruthfulList(list)
  BY <1>1, Inherits DEF EngineInv, ReplayInv, TruthInv
<1> HIDE DEF EngineCommand
<1>3. c \in EngineCommand /\ Pending(c, {})
  BY <1>1, <1>2, HeadPending
<1>4. 1 \in 1..Len(list) /\ c = list[1]
  BY <1>1, <1>2, HeadTailProperties, EmptySeq, LenProperties
<1>5. Keyed(c)
  BY <1>2, <1>4 DEF TruthfulList
<1>6. CloseOpened(c)
  <2>1. Listed(c, list)
    BY <1>4 DEF Listed
  <2> QED BY <1>1, <2>1 DEF RefusalInv, ClosesOpened
<1>7. LedgerReplays /\ Ready /\ NoFalseAnnouncement
  BY DEF ReplayInv, RefusalInv, TruthInv
<1>8. Allowed(c) \/ Redundant(c)
  BY <1>3, <1>5, <1>6, <1>7, CommandAccepted
<1> QED BY <1>1, <1>8 DEF Accepted

\* Where the route's schema lets every command through, no command of a run is
\* refused: each one a run sends is still possible, or was carried out before and
\* is recognised by its key.  In particular no activation meets a second ACTIVE
\* signal, although a signal is admitted on what the bootstrap read, while another
\* one can be pending.  It rests on the cooldown of signals/engine.py being no
\* shorter than the expiry (both four hours): a signal is created only when every
\* older one has reached its end or has lapsed at its next candle.
THEOREM NothingRefusedInWindow ==
    WideColumns /\ "create_signal" \notin LateOps /\ RefusedOps = {} /\ Cooldown >= Expiry =>
        (EngineSpec /\ []InWindow => []NoCommandRefused)
<1> SUFFICES ASSUME WideColumns, "create_signal" \notin LateOps, RefusedOps = {}, Cooldown >= Expiry
             PROVE  EngineSpec /\ []InWindow => []NoCommandRefused
  OBVIOUS
<1>1. EngineInit => SuccessInv /\ TruthInv /\ RefusalInv
  BY SuccessInit, TruthInit, RefusalInit
<1>2. EngineInv /\ TruthInv /\ [EngineNext]_vars => TruthInv'
  BY TruthStep
<1>3. EngineInv /\ EngineInv' /\ TruthInv /\ ReplayInv /\ SuccessInv /\ [EngineNext]_vars => SuccessInv'
  BY SuccessStep
<1>4. EngineInv /\ EngineInv' /\ TruthInv /\ ReplayInv /\ SuccessInv /\ RefusalInv /\ [EngineNext]_vars
        => RefusalInv'
  BY RefusalStep
<1>5. EngineInv /\ TruthInv /\ ReplayInv /\ RefusalInv /\ JournalTellsStatus => NoCommandRefused
  BY NextAccepted
<1>6. EngineSpec => []EngineInv
  BY EngineInvariance
<1>7. EngineSpec => []JournalTellsStatus
  <2>1. EngineSpec => Spec
    BY EngineImplementsLedger
  <2> QED BY <2>1, AuditTellsStatus, PTL
<1> QED BY <1>1, <1>2, <1>3, <1>4, <1>5, <1>6, <1>7, ReplayInvariance, PTL DEF EngineSpec

\* With a snapshot that holds the whole history this needs no condition on the
\* window: no behaviour of the engine has a command refused.
THEOREM NothingRefusedWithinOneWindow ==
    WideColumns /\ "create_signal" \notin LateOps /\ RefusedOps = {} /\ Cooldown >= Expiry
      /\ Window >= MaxMinute =>
        (EngineSpec => []NoCommandRefused)
<1> SUFFICES ASSUME WideColumns, "create_signal" \notin LateOps, RefusedOps = {}, Cooldown >= Expiry,
                    Window >= MaxMinute
             PROVE  EngineSpec => []NoCommandRefused
  OBVIOUS
<1>1. EngineSpec => []InWindow
  BY OneWindow
<1>2. EngineSpec /\ []InWindow => []NoCommandRefused
  BY NothingRefusedInWindow
<1> QED BY <1>1, <1>2, PTL
===========================================================================
