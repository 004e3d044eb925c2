---------------------------- MODULE ArchiveBuild ----------------------------
(***************************************************************************)
(* How a directory of Binance archives becomes a dataset: the builders of  *)
(* archive_fetch.py and monthly_dataset.py, their downloads with retries,  *)
(* the inspection that declares what is missing, and the loader of         *)
(* dataset.py, which reads the same files against that declaration with a  *)
(* scan of its own.  Time is in minutes.  A checksum is modelled by the    *)
(* content it is taken of.                                                 *)
(***************************************************************************)
EXTENDS Integers, Sequences, FiniteSets, SequencesExt

CONSTANTS
    Bounds,              \* month m covers the minutes Bounds[m]..Bounds[m + 1] - 1
    MaximumAttempts,     \* downloads of one archive: 3 in the code
    MaxBuilds            \* bound on how often the builder is started

ASSUME ArchiveAssumption ==
    /\ Len(Bounds) >= 2
    /\ \A i \in 1..Len(Bounds) : Bounds[i] \in Nat
    /\ \A i \in 1..(Len(Bounds) - 1) : Bounds[i] < Bounds[i + 1]
    /\ MaximumAttempts \in Nat \ {0} /\ MaxBuilds \in Nat

VARIABLES
    kind,        \* which builder: "minute" or "monthly"
    stage,       \* what the builder does next; "over" when none is running
    at,          \* the month it is at
    attempt,     \* the download it is at
    directory,   \* the output directory exists
    disk,        \* per month: "none", "part" or "file"
    content,     \* what the archive holds
    records,     \* the builder's records, in memory
    draft,       \* manifest.json.part, << >> when there is none
    manifest,    \* manifest.json, << >> when there is none
    builds

archiveVars == <<kind, stage, at, attempt, directory, disk, content, records, draft,
                 manifest, builds>>

Month == 1..(Len(Bounds) - 1)
MonthStart(m) == Bounds[m]
MonthEnd(m) == Bounds[m + 1]

\* A row closes at the last unit of its minute and satisfies the market contract
\* or not ("good", "bad"), or closes earlier within its minute, or elsewhere.
RowKind == {"good", "bad", "early", "elsewhere"}
Row(m) == [open : MonthStart(m)..MonthEnd(m), close : RowKind]

\* Not a ZIP of one CSV of twelve columns with aligned integer times.
Broken == <<[open |-> -1, close |-> "broken"]>>
Contents(m) ==
    {Broken} \cup (IF kind = "minute" THEN BoundedSeq(Row(m), MonthEnd(m) - MonthStart(m))
                   ELSE BoundedSeq([open : {MonthStart(m), MonthEnd(m)}, close : RowKind], 2))

NoContent == <<[open |-> -1, close |-> "none"]>>
Interval(a, b) == [start |-> a, end |-> b]

ArchiveInit ==
    /\ kind \in {"minute", "monthly"}
    /\ stage = "over" /\ at = 1 /\ attempt = 1
    /\ directory = FALSE
    /\ disk = [m \in Month |-> "none"]
    /\ content = [m \in Month |-> NoContent]
    /\ records = <<>> /\ draft = <<>> /\ manifest = <<>>
    /\ builds = 0

----------------------------------------------------------------------------
(* _inspect_archive: row by row, what is missing and what closes oddly. *)

\* A row closes at the last unit of its minute.
WellTimed(row) == row.close \in {"good", "bad"}

Anomaly(n, row) == [row |-> n, open |-> row.open, close |-> row.close]

\* The gaps are found in order; one that touches the last one extends it.
Join(missing, a, b) ==
    IF a >= b THEN missing
    ELSE IF missing # <<>> /\ a <= Last(missing).end
         THEN Append(Front(missing), Interval(Last(missing).start, b))
         ELSE Append(missing, Interval(a, b))

\* Mutation: a row that closes oddly leaves no gap.
InspectRowWithoutGap(s, n, row) ==
    [ok       |-> s.ok /\ row.open >= s.expected,
     expected |-> row.open + 1,
     missing  |-> Join(s.missing, s.expected, row.open),
     odd      |-> s.odd \cup (IF WellTimed(row) THEN {} ELSE {Anomaly(n, row)})]

InspectRow(s, n, row) ==
    [ok       |-> s.ok /\ row.open >= s.expected,
     expected |-> row.open + 1,
     missing  |-> Join(s.missing, s.expected, IF WellTimed(row) THEN row.open ELSE row.open + 1),
     odd      |-> s.odd \cup (IF WellTimed(row) THEN {} ELSE {Anomaly(n, row)})]

ScanStart(m) == [ok |-> TRUE, expected |-> MonthStart(m), missing |-> <<>>, odd |-> {}]

Scanned(m, rows) ==
    LET scan[n \in 0..Len(rows)] ==
            IF n = 0 THEN ScanStart(m) ELSE InspectRow(scan[n - 1], n, rows[n])
    IN  scan[Len(rows)]

InspectionAccepts(m, rows) ==
    /\ rows # Broken
    /\ Scanned(m, rows).ok
    /\ \A i \in DOMAIN rows : rows[i].open < MonthEnd(m)

Inspection(m, rows) ==
    LET s == Scanned(m, rows)
    IN  [sha |-> rows, start |-> MonthStart(m), end |-> MonthEnd(m), count |-> Len(rows),
         odd |-> s.odd, missing |-> Join(s.missing, s.expected, MonthEnd(m))]

\* The native monthly builder looks at no row: it records the checksum and the month.
NativeRecord(m, rows) == [sha |-> rows, start |-> MonthStart(m), end |-> MonthEnd(m)]

Record(m, rows) == IF kind = "minute" THEN Inspection(m, rows) ELSE NativeRecord(m, rows)

----------------------------------------------------------------------------
(* The manifest and the loader. *)

MissingMinutes(r) == UNION {r.missing[i].start..(r.missing[i].end - 1) : i \in DOMAIN r.missing}

\* ArchiveSpec.__post_init__ and _archive.
SpecAccepts(r) ==
    /\ r.count >= 1
    /\ \A i \in DOMAIN r.missing :
          /\ r.missing[i].start >= (IF i = 1 THEN r.start ELSE r.missing[i - 1].end)
          /\ r.missing[i].start < r.missing[i].end /\ r.missing[i].end <= r.end
    /\ \A a, b \in r.odd : a.row = b.row => a = b
    /\ \A a \in r.odd : /\ a.row \in 1..r.count
                        /\ a.close = "early"
                        /\ a.open \in MissingMinutes(r)
    /\ r.count = (r.end - r.start) - Cardinality(MissingMinutes(r)) + Cardinality(r.odd)

\* NativeMonthlyArchiveSpec.__post_init__: one month, and nothing about its rows.
NativeSpecAccepts(r) == \E m \in Month : r.start = MonthStart(m) /\ r.end = MonthEnd(m)

\* HistoricalDatasetManifest.__post_init__ and NativeMonthlyManifest.__post_init__.
ManifestAccepts(list) ==
    /\ list # <<>>
    /\ \A i \in DOMAIN list :
          IF kind = "minute" THEN SpecAccepts(list[i]) ELSE NativeSpecAccepts(list[i])
    /\ list[1].start = Bounds[1] /\ Last(list).end = Last(Bounds)
    /\ \A i \in 1..(Len(list) - 1) : list[i].end = list[i + 1].start

\* The intervals that end at or before `opened` are passed, one after another.
PassIntervals(s, missing, opened) ==
    LET passed == {i \in DOMAIN missing : i >= s.next /\ missing[i].end <= opened}
    IN  IF passed = {} THEN s
        ELSE [s EXCEPT
                !.ok = /\ @ /\ missing[s.next].start = s.expected
                       /\ \A i \in passed \ {s.next} : missing[i].start = missing[i - 1].end,
                !.expected = missing[Max(passed)].end,
                !.next = Max(passed) + 1]

\* One row of _iter_archive: an odd row inside its interval, or the next candle.
LoadRow(r, before, n, row) ==
    LET s == PassIntervals(before, r.missing, row.open)
        inside == /\ s.next \in DOMAIN r.missing
                  /\ r.missing[s.next].start <= row.open /\ row.open < r.missing[s.next].end
    IN  IF inside
        THEN [s EXCEPT !.ok = @ /\ Anomaly(n, row) \in r.odd, !.used = @ \cup {n}]
        ELSE [s EXCEPT !.ok = @ /\ row.open = s.expected /\ row.close = "good",
                       !.expected = @ + 1, !.candles = @ \cup {row.open}]

LoadStart(r) == [ok |-> TRUE, expected |-> r.start, next |-> 1, used |-> {}, candles |-> {}]

Loaded(r, rows) ==
    LET read[n \in 0..Len(rows)] ==
            IF n = 0 THEN LoadStart(r) ELSE LoadRow(r, read[n - 1], n, rows[n])
    IN  PassIntervals(read[Len(rows)], r.missing, r.end)

\* The native monthly loader: one row, which opens and closes with the month.
MonthlyAccepts(r, rows) ==
    Len(rows) = 1 /\ rows[1].open = r.start /\ rows[1].close = "good"

LoaderAccepts(r, rows) ==
    /\ rows = r.sha /\ rows # Broken
    /\ IF kind = "minute"
       THEN LET s == Loaded(r, rows)
            IN  /\ s.ok /\ s.expected = r.end /\ Len(rows) = r.count
                /\ s.used = {a.row : a \in r.odd}
       ELSE MonthlyAccepts(r, rows)

Candles(r, rows) == IF kind = "minute" THEN Loaded(r, rows).candles ELSE {r.start}

\* The parser reads the draft back as these records, or refuses it; then validate:
\* every archive and, of minutes, at least one candle in all of them together.
Validates(list) ==
    /\ ManifestAccepts(list)
    /\ \A m \in DOMAIN list : disk[m] = "file" /\ LoaderAccepts(list[m], content[m])
    /\ kind = "minute" => UNION {Candles(list[m], content[m]) : m \in DOMAIN list} # {}

----------------------------------------------------------------------------
(* The builder. *)

\* The builder refuses a directory that exists, also one a crash left behind.
Begins == ~directory

Begin ==
    /\ stage = "over" /\ builds < MaxBuilds
    /\ builds' = builds + 1
    /\ IF Begins
       THEN /\ stage' = "download" /\ at' = 1 /\ attempt' = 1 /\ records' = <<>>
            /\ directory' = TRUE
       ELSE UNCHANGED <<stage, at, attempt, records, directory>>
    /\ UNCHANGED <<kind, disk, content, draft, manifest>>

\* The archive arrives, whole or not; what is written is what is hashed.
Download ==
    /\ stage = "download"
    /\ \E rows \in Contents(at) : content' = [content EXCEPT ![at] = rows]
    /\ disk' = [disk EXCEPT ![at] = "part"]
    /\ stage' = "rename"
    /\ UNCHANGED <<kind, directory, at, attempt, records, draft, manifest, builds>>

\* A network error or a retryable status: the part is deleted and, within the
\* attempts, asked for again.  Every other error ends the build.
DownloadFails(retryable) ==
    /\ stage = "download"
    /\ IF retryable /\ attempt < MaximumAttempts
       THEN attempt' = attempt + 1 /\ UNCHANGED stage
       ELSE stage' = "over" /\ UNCHANGED attempt
    /\ UNCHANGED <<kind, directory, at, disk, content, records, draft, manifest, builds>>

Rename ==
    /\ stage = "rename"
    /\ disk' = [disk EXCEPT ![at] = "file"]
    /\ stage' = "inspect"
    /\ UNCHANGED <<kind, directory, at, attempt, content, records, draft, manifest, builds>>

Inspect ==
    /\ stage = "inspect"
    /\ IF kind = "monthly" \/ InspectionAccepts(at, content[at])
       THEN /\ records' = Append(records, Record(at, content[at]))
            /\ IF at + 1 \in Month
               THEN stage' = "download" /\ at' = at + 1 /\ attempt' = 1
               ELSE stage' = "manifest" /\ UNCHANGED <<at, attempt>>
       ELSE stage' = "over" /\ UNCHANGED <<at, attempt, records>>
    /\ UNCHANGED <<kind, directory, disk, content, draft, manifest, builds>>

WriteDraft ==
    /\ stage = "manifest"
    /\ draft' = records
    /\ stage' = "validate"
    /\ UNCHANGED <<kind, directory, at, attempt, disk, content, records, manifest, builds>>

\* Mutation: the loader is not asked.
ValidateNothing ==
    /\ stage = "validate"
    /\ stage' = "publish"
    /\ UNCHANGED <<kind, directory, at, attempt, disk, content, records, draft, manifest, builds>>

\* The loader reads the draft and the files, not what the builder remembers.
Validate ==
    /\ stage = "validate"
    /\ stage' = IF Validates(draft) THEN "publish" ELSE "over"
    /\ UNCHANGED <<kind, directory, at, attempt, disk, content, records, draft, manifest, builds>>

Publish ==
    /\ stage = "publish"
    /\ manifest' = draft /\ draft' = <<>>
    /\ stage' = "over"
    /\ UNCHANGED <<kind, directory, at, attempt, disk, content, records, builds>>

\* The process is killed: a part, files and a draft stay on the disk.
KillBuild ==
    /\ stage # "over"
    /\ \/ UNCHANGED disk
       \/ stage = "download" /\ disk' = [disk EXCEPT ![at] = "part"]
    /\ stage' = "over"
    /\ UNCHANGED <<kind, directory, at, attempt, content, records, draft, manifest, builds>>

ArchiveNext ==
    \/ Begin \/ Download \/ DownloadFails(TRUE) \/ DownloadFails(FALSE)
    \/ Rename \/ Inspect \/ WriteDraft \/ Validate \/ Publish \/ KillBuild

ArchiveSpec == ArchiveInit /\ [][ArchiveNext]_archiveVars

----------------------------------------------------------------------------
(* Properties. *)

Minutes(m) == MonthStart(m)..(MonthEnd(m) - 1)

\* The builder's scan and the loader's scan agree: what the inspection declares
\* of an archive, whatever is missing from it or closes early, is accepted by
\* the loader, and gives exactly the minutes with a good row.  (Rows outside the
\* market contract and an empty archive are refused by design.)
InspectedIsLoadable ==
    kind = "minute" =>
        \A m \in DOMAIN records :
            LET rows == content[m]
            IN  rows # <<>> /\ (\A i \in DOMAIN rows : rows[i].close \in {"good", "early"}) =>
                    /\ SpecAccepts(records[m]) /\ LoaderAccepts(records[m], rows)
                    /\ Candles(records[m], rows) =
                          {rows[i].open : i \in {j \in DOMAIN rows : rows[j].close = "good"}}

\* A manifest exists only beside a complete dataset: every archive is there and
\* loads, and every minute of the range is a candle or declared missing, not both;
\* a native archive is the one candle of its month.  Whatever was killed and
\* started again before and after.
PublishedIsComplete ==
    manifest # <<>> =>
        /\ Validates(manifest) /\ Len(manifest) = Len(Bounds) - 1
        /\ kind = "minute" => \A m \in Month :
              /\ Candles(manifest[m], content[m]) \cup MissingMinutes(manifest[m]) = Minutes(m)
              /\ Candles(manifest[m], content[m]) \cap MissingMinutes(manifest[m]) = {}
        /\ kind = "monthly" => \A m \in Month :
              /\ Len(content[m]) = 1
              /\ content[m][1].open = MonthStart(m) /\ content[m][1].close = "good"
=============================================================================
