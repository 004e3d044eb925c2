---------------------------- MODULE RiskTimeline ----------------------------
(***************************************************************************)
(* The historical risk timeline: official pages become evidence            *)
(* (official_risk_fetch.py), evidence is loaded (risk_evidence.py), turned *)
(* into one decision per boundary (risk_derivation.py) and imported into   *)
(* the store the replay reads (risk_history.py).  The question is what the *)
(* replay knows at a boundary: nothing from the future, nothing less than  *)
(* was known, and a block wherever it may know too little.  Time is the    *)
(* number of the 15-minute boundary.                                       *)
(***************************************************************************)
EXTENDS NewsRisk, Sequences, SequencesExt

CONSTANTS
    Calendar,        \* month m covers the boundaries Calendar[m]..Calendar[m + 1] - 1
    NewsSource,      \* fed_monetary and sec_releases
    Schedules,       \* what a month's section of the BLS page may say
    Headlines,       \* what the news archives may hold
    Retrieved        \* when the pages were fetched

ASSUME CalendarAssumption ==
    /\ Calendar \in Seq(Nat) /\ Len(Calendar) >= 2 /\ Calendar[1] = 0
    /\ \A i, j \in 1..Len(Calendar) : i < j => Calendar[i] < Calendar[j]
    /\ Retrieved \in Nat

\* A section may state when it was modified.  Both news archives are official, and
\* what they hold is observed when it is published.
ASSUME PagesAssumption ==
    /\ \A section \in Schedules : /\ section.modified \in Int
                                  /\ \A e \in section.events : e.at \in Int /\ e.impact \in Impacts
    /\ \A news \in Headlines : \A i \in news : /\ i.source \in NewsSource /\ i.official
                                               /\ i.at \in Int /\ i.observed = i.at
                                               /\ i.words \subseteq GraveWords
                                               /\ i.topics \subseteq ToSet(Topics)

VARIABLES riskStage, sections, headlines, evidence, draftPoints, riskStore

riskVars == <<riskStage, sections, headlines, evidence, draftPoints, riskStore>>

Months == 1..(Len(Calendar) - 1)
CoverageEnd == Last(Calendar)
Boundary == 0..(CoverageEnd - 1)
Gap(source, a, b) == [source |-> source, start |-> a, end |-> b]

NoEvidence == [news |-> {}, scheduled |-> {}, gaps |-> {}]

RiskInit ==
    /\ riskStage = "fetch"
    /\ sections = <<>> /\ headlines = {}
    /\ evidence = NoEvidence
    /\ draftPoints = <<>> /\ riskStore = <<>>

----------------------------------------------------------------------------
(* Evidence. *)

\* A section without a date counts as known only since the page was fetched.
KnownSince(section) == IF section.modified = Never THEN Retrieved ELSE section.modified

LesserOf(a, b) == IF a < b THEN a ELSE b

\* Mutation: what a section said before it was last modified is not doubted.
GapUntilRetrieved(m, section) ==
    IF section.modified = Never /\ KnownSince(section) > Calendar[m]
    THEN {Gap("bls", Calendar[m], LesserOf(KnownSince(section), Calendar[m + 1]))} ELSE {}

SectionGap(m, section) ==
    IF KnownSince(section) > Calendar[m]
    THEN {Gap("bls", Calendar[m], LesserOf(KnownSince(section), Calendar[m + 1]))} ELSE {}

ScheduledRecords(pages) ==
    UNION {{[source |-> "bls", at |-> e.at, impact |-> e.impact, observed |-> KnownSince(pages[m])] :
                e \in pages[m].events} : m \in Months}

\* The archive begins and ends somewhere: what happened just outside is unknown.
EdgeGaps ==
    {Gap(s, 0, LesserOf(Lookback, CoverageEnd)) : s \in NewsSource}
    \cup {Gap("bls", 0, LesserOf(ExtremePost, CoverageEnd)),
          Gap("bls", IF CoverageEnd > ExtremePre THEN CoverageEnd - ExtremePre ELSE 0, CoverageEnd)}

\* What sorting by source and start, and joining the gaps of one source that
\* touch, comes to: the longest runs of boundaries a source does not cover.
Uncovered(gaps, source, c) == \E g \in gaps : g.source = source /\ g.start <= c /\ c < g.end

CoalesceGaps(gaps) ==
    {g \in [source : {h.source : h \in gaps}, start : Boundary, end : 1..CoverageEnd] :
        /\ g.start < g.end
        /\ \A c \in g.start..(g.end - 1) : Uncovered(gaps, g.source, c)
        /\ ~Uncovered(gaps, g.source, g.start - 1) /\ ~Uncovered(gaps, g.source, g.end)}

Gathered(pages, news) ==
    [news      |-> news,
     scheduled |-> ScheduledRecords(pages),
     gaps      |-> CoalesceGaps(EdgeGaps \cup UNION {SectionGap(m, pages[m]) : m \in Months})]

\* The builder's own check and HistoricalRiskEvidenceLoader.load: two releases of
\* one page at one time count as duplicates.
EvidenceAccepted(e) ==
    /\ \A s \in NewsSource : \E i \in e.news : i.source = s
    /\ e.scheduled # {}
    /\ \A i \in e.news : 0 <= i.at /\ i.at <= i.observed /\ i.observed < CoverageEnd
    /\ \A r \in e.scheduled : r.at \in Boundary
    /\ \A r, q \in e.scheduled : r.at = q.at => r = q
    /\ \A g \in e.gaps : /\ g.source \in NewsSource \cup {"bls"}
                         /\ 0 <= g.start /\ g.start < g.end /\ g.end <= CoverageEnd

----------------------------------------------------------------------------
(* Derivation. *)

VisibleNews(e, c) == {i \in e.news : i.observed <= c /\ c - Lookback <= i.at /\ i.at <= c}

\* Mutation: the calendar is read as if it had always been what it is.
VisibleWithForesight(e, c) ==
    LET window == Max({ExtremePre, ExtremePost})
    IN  {r \in e.scheduled : c - window <= r.at /\ r.at <= c + window}

VisibleScheduled(e, c) ==
    LET window == Max({ExtremePre, ExtremePost})
    IN  {r \in e.scheduled : r.observed <= c /\ c - window <= r.at /\ r.at <= c + window}

IssuesAt(e, c) ==
    {[source |-> g.source, required |-> TRUE] : g \in {h \in e.gaps : h.start <= c /\ c < h.end}}

Point(e, c) ==
    LET assessed == Assessment(VisibleNews(e, c), VisibleScheduled(e, c), IssuesAt(e, c), c)
    IN  [at |-> c, decision |-> assessed.decision, until |-> assessed.until,
         issues |-> IssuesAt(e, c),
         sources |-> {r.source : r \in VisibleNews(e, c)} \cup {r.source : r \in VisibleScheduled(e, c)},
         observed |-> {r.observed : r \in VisibleNews(e, c)}
                      \cup {r.observed : r \in VisibleScheduled(e, c)}]

PointAccepted(p, c) ==
    /\ p.at = c
    /\ p.until # Never => p.decision = "BLOCK" /\ p.until > c
    /\ p.sources \subseteq NewsSource \cup {"bls"}
    /\ \A o \in p.observed : o <= c
    /\ \A i \in p.issues : i.source \in NewsSource \cup {"bls"} /\ (i.required => p.decision = "BLOCK")

\* import_manifest: one point for every boundary, in order, or nothing at all.
ImportAccepted(points) ==
    /\ Len(points) = CoverageEnd
    /\ \A n \in DOMAIN points : PointAccepted(points[n], n - 1)

----------------------------------------------------------------------------
(* The pipeline. *)

Fetch ==
    /\ riskStage = "fetch"
    /\ \E pages \in [Months -> Schedules], news \in Headlines :
          sections' = pages /\ headlines' = news
    /\ riskStage' = "evidence"
    /\ UNCHANGED <<evidence, draftPoints, riskStore>>

\* The pages are normalised, written and loaded again before the manifest is
\* given its name.
PublishEvidence ==
    /\ riskStage = "evidence"
    /\ LET gathered == Gathered(sections, headlines)
       IN  IF EvidenceAccepted(gathered)
           THEN evidence' = gathered /\ riskStage' = "derive"
           ELSE riskStage' = "over" /\ UNCHANGED evidence
    /\ UNCHANGED <<sections, headlines, draftPoints, riskStore>>

Derive ==
    /\ riskStage = "derive"
    /\ draftPoints' = [n \in 1..CoverageEnd |-> Point(evidence, n - 1)]
    /\ riskStage' = "import"
    /\ UNCHANGED <<sections, headlines, evidence, riskStore>>

\* The draft is imported into a store of its own before it is given its name,
\* and into the replay's store later: one transaction each.
ImportRisk ==
    /\ riskStage = "import"
    /\ riskStore' = IF ImportAccepted(draftPoints) THEN draftPoints ELSE riskStore
    /\ riskStage' = "over"
    /\ UNCHANGED <<sections, headlines, evidence, draftPoints>>

\* The process is killed: what it left has no manifest, so nobody reads it.
KillRisk ==
    /\ riskStage # "over"
    /\ riskStage' = "over"
    /\ UNCHANGED <<sections, headlines, evidence, draftPoints, riskStore>>

RiskNext == Fetch \/ PublishEvidence \/ Derive \/ ImportRisk \/ KillRisk

RiskSpec == RiskInit /\ [][RiskNext]_riskVars

AssessmentAt(c) == riskStore[c + 1]

----------------------------------------------------------------------------
(* Properties. *)

\* A decision of the replay is the one the engine would have made then: from
\* all that was evidenced by the boundary, whatever was evidenced later, and
\* although it only looks through a window.
DecidedAsOfThen ==
    \A n \in DOMAIN draftPoints :
        LET c == n - 1
            then == Assessment({i \in evidence.news : i.observed <= c},
                               {r \in evidence.scheduled : r.observed <= c},
                               IssuesAt(evidence, c), c)
        IN  draftPoints[n].decision = then.decision /\ draftPoints[n].until = then.until

\* No boundary is open to trading within the risk window of a release the
\* calendar names, known then or only doubted.  (For windows inside the month:
\* the gap of a section starts with its month.)
ReleaseNeverSilent(c) ==
    \A m \in Months : \A e \in sections[m].events :
        /\ Severe(e) /\ e.at - Pre(e) >= Calendar[m] /\ e.at + Post(e) <= Calendar[m + 1]
        /\ e.at - Pre(e) <= c /\ c < e.at + Post(e)
        => AssessmentAt(c).decision = "BLOCK"

\* The wait that headline i, read alone, asks for at c.
AsksToWait(i, c) ==
    LET alone == Cluster({i})
    IN  i.relevant /\ Severe(alone) /\ i.at <= c /\ c < i.at + Wait(alone)

\* News of a rate decision, grave by its topic alone, is read as news of another
\* topic when a report of the same story names one that _category asks for first.
Obscured(i, c) ==
    /\ i.words \cap {"extreme", "high"} = {} /\ Category(i.topics) = "CENTRAL_BANK"
    /\ \E j \in Usable(VisibleNews(evidence, c), c) :
          j.story = i.story /\ j.topics \cap {"STABLECOIN", "INSOLVENCY", "EXCHANGE"} # {}

\* No boundary is open to trading within the window of a release or in the wait
\* after grave news, whatever is reported with it, but for a rate decision that
\* another report of its story obscures: there the code does not keep what
\* docs/news-risk.md:46-47 promises, and without the exception TLC refutes this.
RiskNeverSilent ==
    \A n \in DOMAIN riskStore :
        LET c == n - 1
        IN  /\ ReleaseNeverSilent(c)
            /\ \A i \in headlines :
                  AsksToWait(i, c) /\ ~Obscured(i, c) => AssessmentAt(c).decision = "BLOCK"

\* What the derivation writes its importer accepts: no evidence the loader let
\* through leads to a timeline the replay would refuse.
DerivedIsImportable == riskStage = "import" => ImportAccepted(draftPoints)
=============================================================================
