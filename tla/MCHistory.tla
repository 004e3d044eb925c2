----------------------------- MODULE MCHistory -----------------------------
(***************************************************************************)
(* The historical side: the archive builders, the risk timeline and the    *)
(* replay.  They are separate jobs that meet only in immutable files, so   *)
(* each is explored alone, beside the initial states of the others.        *)
(***************************************************************************)
EXTENDS ArchiveBuild, RiskTimeline, HistoricalRun

allHistoryVars == <<archiveVars, riskVars, replayVars>>

HistoryInit == ArchiveInit /\ RiskInit /\ ReplayInit

\* One of the two kinds of archive job is enough beside the others.
NoArchiveJob == ArchiveInit /\ kind = "minute"

HistoryNext ==
    \/ RiskInit /\ ReplayInit /\ ArchiveNext /\ UNCHANGED <<riskVars, replayVars>>
    \/ NoArchiveJob /\ ReplayInit /\ RiskNext /\ UNCHANGED <<archiveVars, replayVars>>
    \/ NoArchiveJob /\ RiskInit /\ ReplayNext /\ UNCHANGED <<archiveVars, riskVars>>

HistorySpec == HistoryInit /\ [][HistoryNext]_allHistoryVars

\* A month of three minutes and one of a single minute.
MCBounds == <<0, 3, 4>>

\* Two months of five boundaries; pages fetched long after.
MCCalendar == <<0, 5, 10>>

MCSchedules ==
    {[modified |-> k, events |-> E] :
        k \in {-1, 2, 7},
        E \in {{}} \cup {{[at |-> t, impact |-> i]} : t \in {1, 4, 6, 9}, i \in {"HIGH", "EXTREME"}}}

Headline(t, s, source, relevant, words, topics, tone) ==
    Item(source, t, t, s, TRUE, source, relevant, words, topics, tone)

\* A rate decision or a speech of the central bank; of the other source a hack, an
\* exchange's routine, or a ban that has nothing to do with the market.
MCHeadlines ==
    {{Headline(t, 1, "fed", TRUE, words, {"CENTRAL_BANK"}, {"positive"}), other} :
        t \in {1, 5}, words \in {{"rate"}, {}},
        other \in {Headline(u, s, "sec", TRUE, {"extreme"}, {"BITCOIN"}, tone) :
                        u \in {2, 6}, s \in {1, 2}, tone \in {{"positive"}, {"negative"}}}
                  \cup {Headline(u, s, "sec", TRUE, {}, {"EXCHANGE"}, {}) :
                            u \in {2, 6}, s \in {1, 2}}
                  \cup {Headline(2, 1, "sec", FALSE, {"high"}, {"REGULATORY"}, {"negative"})}}

\* Ten minutes; a quarter of an hour is two of them, a month four.
MCIntervals == [k \in {"15m", "1M"} |-> IF k = "15m" THEN 2 ELSE 4]

MCCandle(o, h, l, c) == [open |-> o, high |-> h, low |-> l, close |-> c]

\* In the entry zone; enters and stops; 1.5 R at the close; a gap below the
\* stop; reaches the target; back to the protected stop.
Quiet == MCCandle(10, 10, 10, 10)
Crash == MCCandle(10, 10, 6, 8)
Rises == MCCandle(10, 18, 10, 17)
Falls == MCCandle(6, 8, 6, 8)
Target == MCCandle(17, 21, 17, 20)
Returns == MCCandle(13, 14, 10, 12)

Deviating(base, D) == [i \in 0..9 |-> IF i \in DOMAIN D THEN D[i] ELSE base]

MCHistories ==
    {Deviating(Quiet, D) : D \in UNION {[{a, b} -> {NoCandle, Rises, Falls, Target, Returns}] :
                                            a \in {1, 4, 5, 7}, b \in 4..9}}
    \cup {Deviating(Crash, D) : D \in UNION {[{a} -> {NoCandle, Rises, Quiet, Target}] : a \in 4..9}}

MCNativeRanges == {<<-4, 4>>, <<0, 4>>}

MCSetups == {[side |-> "LONG", entry_low |-> 9, entry_high |-> 10, original_stop |-> 7,
              target |-> 20, cost |-> 1]}

MCRunRanges == {<<0, 10>>, <<3, 9>>}
=============================================================================
