------------------------------ MODULE NewsRisk ------------------------------
(***************************************************************************)
(* The news engine (news/engine.py): which stories and scheduled events    *)
(* block trading at an instant, and until when.  A headline is what the    *)
(* engine reads in it: its story (headlines the similarity test puts into  *)
(* one cluster), the grave words and the topics it names, and its tone.    *)
(* A topic of several words that only two headlines joined would spell is  *)
(* left out: it can make a cluster graver, never milder ("exchange outage" *)
(* brings the grave word "outage" with it).                                *)
(***************************************************************************)
EXTENDS Integers, Sequences, FiniteSets, FiniteSetsExt

CONSTANTS
    Lookback, ClockSkew,         \* NewsRiskPolicy, as numbers of boundaries
    HighWait, ExtremeWait,
    HighPre, HighPost, ExtremePre, ExtremePost,
    ContradictionSpan            \* six hours in the code

ASSUME PolicyAssumption ==
    /\ {Lookback, ClockSkew, HighWait, ExtremeWait, HighPre, HighPost, ExtremePre,
        ExtremePost, ContradictionSpan} \subseteq Nat
    /\ 0 < HighWait /\ HighWait <= ExtremeWait /\ ExtremeWait <= Lookback
    /\ 0 < ExtremePre /\ HighPre <= ExtremePre
    /\ 0 < ExtremePost /\ HighPost <= ExtremePost

Impacts == {"LOW", "MEDIUM", "HIGH", "EXTREME"}
Tones == SUBSET {"positive", "negative"}

\* The words _volatility looks for: of _EXTREME, of _HIGH, and those that make
\* central-bank news grave (fomc, rate, rates, decision).
GraveWords == {"extreme", "high", "rate"}

\* The checks of _category, in their order.
Topics == <<"ETF", "STABLECOIN", "INSOLVENCY", "EXCHANGE", "CENTRAL_BANK", "ECONOMIC",
            "REGULATORY", "GEOPOLITICAL", "INSTITUTIONAL", "BITCOIN">>

Category(topics) ==
    LET named == {n \in DOMAIN Topics : Topics[n] \in topics}
    IN  IF named = {} THEN "OTHER" ELSE Topics[Min(named)]

Volatility(words, category) ==
    IF "extreme" \in words THEN "EXTREME"
    ELSE IF \/ "high" \in words \/ category = "ETF"
            \/ category = "CENTRAL_BANK" /\ "rate" \in words THEN "HIGH"
    ELSE IF category # "OTHER" THEN "MEDIUM" ELSE "LOW"

Item(source, at, observed, story, official, domain, relevant, words, topics, tone) ==
    [source |-> source, at |-> at, observed |-> observed, story |-> story,
     official |-> official, domain |-> domain, relevant |-> relevant, words |-> words,
     topics |-> topics, tone |-> tone]

\* Relevant headlines of the last day; a publisher's clock may be ahead.
Usable(items, now) ==
    {i \in items : i.relevant /\ now - Lookback <= i.at /\ i.at <= now + ClockSkew}

\* A cluster is read as one text: all the words, and the first topic of them all.
Cluster(items) ==
    LET words == UNION {i.words : i \in items}
        topics == UNION {i.topics : i \in items}
    IN  [at        |-> Max({i.at : i \in items}),
         impact    |-> Volatility(words, Category(topics)),
         tone      |-> UNION {i.tone : i \in items},
         confirmed |-> (\E i \in items : i.official) \/ Cardinality({i.domain : i \in items}) >= 2]

Events(items) == {Cluster({i \in items : i.story = s}) : s \in {i.story : i \in items}}

Severe(event) == event.impact \in {"HIGH", "EXTREME"}

Wait(event) == IF event.impact = "EXTREME" THEN ExtremeWait ELSE HighWait
Pre(event) == IF event.impact = "EXTREME" THEN ExtremePre ELSE HighPre
Post(event) == IF event.impact = "EXTREME" THEN ExtremePost ELSE HighPost

\* Mutation: the block still holds at the instant it ends.
ActiveThroughEnd(scheduled, now) ==
    {e \in scheduled : Severe(e) /\ e.at - Pre(e) <= now /\ now <= e.at + Post(e)}

ActiveScheduled(scheduled, now) ==
    {e \in scheduled : Severe(e) /\ e.at - Pre(e) <= now /\ now < e.at + Post(e)}

\* The six hours only matter for confirmed news that contradicts itself.
Contradictory(confirmed, now) ==
    {e.tone : e \in {c \in confirmed : now - c.at <= ContradictionSpan /\ Cardinality(c.tone) = 1}}
        = {{"positive"}, {"negative"}}

Never == -1

\* When what blocks now will stop blocking.
Confirmed(items, now) == {e \in Events(Usable(items, now)) : e.confirmed /\ Severe(e)}

BlockEnds(items, scheduled, now) ==
    {e.at + Post(e) : e \in ActiveScheduled(scheduled, now)}
    \cup {e.at + Wait(e) : e \in {c \in Confirmed(items, now) : now < c.at + Wait(c)}}
    \cup (IF Contradictory(Confirmed(items, now), now) THEN {now + HighWait} ELSE {})

Assessment(items, scheduled, issues, now) ==
    LET ends == BlockEnds(items, scheduled, now)
    IN  [decision |-> IF (\E i \in issues : i.required) \/ ends # {} THEN "BLOCK"
                      ELSE IF issues # {}
                              \/ (\E e \in Events(Usable(items, now)) : Severe(e) /\ ~e.confirmed)
                      THEN "CAUTION" ELSE "CLEAR",
         until    |-> IF ends = {} THEN Never ELSE Max(ends)]
=============================================================================
