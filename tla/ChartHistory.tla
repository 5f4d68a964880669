---------------------------- MODULE ChartHistory ----------------------------
(***************************************************************************)
(* The samples of a runtime page: the history its charts draw, and what it *)
(* sends to be archived.                                                   *)
(*                                                                         *)
(* The history of one tag that a runtime page keeps for its charts         *)
(* (shared/runtime-history.js): samples are ordered by their timestamps, a *)
(* later sample replaces one with its sequence number, or its timestamp    *)
(* where one of the two has no number, and the oldest ones make room.      *)
(*                                                                         *)
(* In the usual case a sample is appended without a search; what is needed *)
(* to know that is remembered with the history.  The number 0 stands for a *)
(* sample without a number.                                                *)
(***************************************************************************)
EXTENDS Naturals, Sequences

LOCAL INSTANCE SequencesExt
LOCAL INSTANCE FiniteSetsExt

CONSTANT MaxPoints      \* MAX_RUNTIME_HISTORY_POINTS

ASSUME LiveAssumption == MaxPoints \in Nat \ {0}

VARIABLES
    live,   \* the history: samples [at, seq]
    known   \* what is remembered of it: the greatest number it has seen since
            \* it was last searched

liveVars == <<live, known>>

\* slice(-limit)
Newest(points) == SubSeq(points, IF Len(points) > MaxPoints THEN Len(points) - MaxPoints + 1 ELSE 1, Len(points))

\* sort, which keeps the order of equal timestamps.
Ordered(points) ==
    LET Before(a, b) == points[a].at < points[b].at \/ (points[a].at = points[b].at /\ a < b)
        order == SetToSortSeq(DOMAIN points, Before)
    IN [k \in DOMAIN points |-> points[order[k]]]

\* inspectRuntimeHistory; the history is always ordered.
Inspected(points) == Max({0} \cup {points[k].seq : k \in DOMAIN points})

Same(old, new) == IF old.seq # 0 /\ new.seq # 0 THEN old.seq = new.seq ELSE old.at = new.at

\* The index of the sample that a new one replaces, or the next index.
Place(points, new) == Min({k \in DOMAIN points : Same(points[k], new)} \cup {Len(points) + 1})

\* The long way: search, replace or append, and sort.
Searched(points, new) ==
    LET k == Place(points, new)
    IN Ordered(SubSeq(points, 1, k - 1) \o <<new>> \o SubSeq(points, k + 1, Len(points)))

\* Mutant: only the timestamps are compared.
AppendsLater(new) == live = <<>> \/ new.at > live[Len(live)].at

\* canAppendInOrder
AppendsInOrder(new) ==
    \/ live = <<>>
    \/ /\ new.at > live[Len(live)].at
       /\ new.seq = 0 \/ known = 0 \/ new.seq > known

\* Mutant: the greatest number is not brought up to date.
ReceiveForgets(new) ==
    IF AppendsInOrder(new)
    THEN live' = Newest(Append(live, new)) /\ UNCHANGED known
    ELSE live' = Newest(Searched(live, new)) /\ known' = Inspected(Searched(live, new))

\* Mutant: a sample that came late stays where it was put.
ReceiveUnsorted(new) ==
    IF AppendsInOrder(new)
    THEN live' = Newest(Append(live, new)) /\ known' = Max({known, new.seq})
    ELSE LET k == Place(live, new)
             all == SubSeq(live, 1, k - 1) \o <<new>> \o SubSeq(live, k + 1, Len(live))
         IN live' = Newest(all) /\ known' = Inspected(all)

\* appendRuntimeHistory, for one sample.
Receive(new) ==
    IF AppendsInOrder(new)
    THEN live' = Newest(Append(live, new)) /\ known' = Max({known, new.seq})
    ELSE live' = Newest(Searched(live, new)) /\ known' = Inspected(Searched(live, new))

\* seedRuntimeHistory: what the archive had when the page was opened.
Seeded(points) ==
    /\ live = Newest(Ordered(points))
    /\ known = Inspected(Newest(Ordered(points)))

-----------------------------------------------------------------------------
\* The history is ordered and bounded; whenever a sample is appended without a
\* search, the search would have put it there as well.
LiveInv ==
    /\ Len(live) <= MaxPoints
    /\ \A j, k \in DOMAIN live : j < k => live[j].at <= live[k].at
    /\ \A k \in DOMAIN live : live[k].seq <= known
    /\ \A at \in 1..4, seq \in 0..4 :
         LET new == [at |-> at, seq |-> seq]
         IN AppendsInOrder(new) => Searched(live, new) = Append(live, new)

-----------------------------------------------------------------------------
(***************************************************************************)
(* How the runtime page of a Simulation project archives its samples       *)
(* (shared/runtime-history-archive-queue.js, the effect of                 *)
(* src/runtime/RuntimeApp.jsx that empties it, the POST of                 *)
(* api/_handlers/telemetry.js and api/_lib/chart-telemetry-store.js).  An  *)
(* archived value is known by its timestamp, that of its publication to    *)
(* ThingsBoard: it is queued when that POST has succeeded.  In the other   *)
(* projects the connector worker archives (module WorkerBuffers).          *)
(*                                                                         *)
(* Entries are sent in batches, which stay in the queue until the answer.  *)
(* A queue that is full drops its oldest entries, but never those in       *)
(* flight; the archive has no keys, so a batch that is sent twice is       *)
(* stored twice.  A call the page takes for lost may still be carried out. *)
(***************************************************************************)
CONSTANTS
    MaxTime,        \* bound on the clock
    MaxPending,     \* maxPending of the queue
    BatchSizes      \* 1000 entries at an interval, 200 when the page is hidden

ASSUME ArchiveAssumption ==
    /\ MaxTime \in Nat
    /\ MaxPending \in Nat \ {0}
    /\ BatchSizes \subseteq Nat \ {0}

VARIABLES
    entries,    \* the queue
    inFlight,   \* the batch that is being sent: its number and its length
    lastBatch,  \* the number of the last batch
    calls,      \* the calls that are under way
    archive,    \* how often each sample is stored
    dropped,    \* the samples the queue had no room for
    cleared,    \* the samples that were in the queue when the session ended
    resent,     \* the samples of calls that failed although they are or may be stored
    sent        \* the samples the page wants to be archived

archiveVars == <<entries, inFlight, lastBatch, calls, archive, dropped, cleared, resent, sent>>

NoBatch == [id |-> 0, count |-> 0]
Elements(s) == {s[k] : k \in DOMAIN s}
From(s, k) == SubSeq(s, k, Len(s))

\* Mutant: the oldest entries are dropped, whether in flight or not.
EnqueuedAnywhere(t) ==
    LET all == Append(entries, t)
        over == IF Len(all) > MaxPending THEN Len(all) - MaxPending ELSE 0
    IN [entries |-> From(all, 1 + over), dropped |-> Elements(SubSeq(all, 1, over))]

\* enqueue
Enqueued(t) ==
    LET all == Append(entries, t)
        over == IF Len(all) > MaxPending THEN Len(all) - MaxPending ELSE 0
        kept == inFlight.count
    IN [entries |-> SubSeq(all, 1, kept) \o From(all, kept + over + 1),
        dropped |-> Elements(SubSeq(all, kept + 1, kept + over))]

Enqueue(t) ==
    /\ entries' = Enqueued(t).entries
    /\ dropped' = dropped \cup Enqueued(t).dropped
    /\ sent' = sent \cup {t}
    /\ UNCHANGED <<inFlight, lastBatch, calls, archive, cleared, resent>>

\* flush: take a batch, unless one is in flight, and send it.
Flush(size) ==
    LET count == IF Len(entries) < size THEN Len(entries) ELSE size IN
    /\ inFlight = NoBatch /\ entries # <<>>
    /\ lastBatch' = lastBatch + 1
    /\ inFlight' = [id |-> lastBatch + 1, count |-> count]
    /\ calls' = calls \cup {[id |-> lastBatch + 1, samples |-> SubSeq(entries, 1, count), stage |-> "sent"]}
    /\ UNCHANGED <<entries, archive, dropped, cleared, resent, sent>>

\* The call is checked and its samples are inserted.
CallStored(c) ==
    /\ c.stage \in {"sent", "orphan"}
    /\ archive' = [t \in DOMAIN archive |-> archive[t] + (IF t \in Elements(c.samples) THEN 1 ELSE 0)]
    /\ calls' = (calls \ {c}) \cup (IF c.stage = "sent" THEN {[c EXCEPT !.stage = "stored"]} ELSE {})
    /\ UNCHANGED <<entries, inFlight, lastBatch, dropped, cleared, resent, sent>>

\* Mutant: the number of the batch is not compared.
CallAnsweredAny(c) ==
    /\ c.stage = "stored"
    /\ calls' = calls \ {c}
    /\ entries' = From(entries, inFlight.count + 1) /\ inFlight' = NoBatch
    /\ UNCHANGED <<lastBatch, archive, dropped, cleared, resent, sent>>

\* Its answer: acknowledge, which does nothing for a batch of the past.
CallAnswered(c) ==
    /\ c.stage = "stored"
    /\ calls' = calls \ {c}
    /\ IF c.id = inFlight.id
       THEN entries' = From(entries, inFlight.count + 1) /\ inFlight' = NoBatch
       ELSE UNCHANGED <<entries, inFlight>>
    /\ UNCHANGED <<lastBatch, archive, dropped, cleared, resent, sent>>

\* Mutant: a batch that failed is given up.
CallFailsForGood(c, orphan) ==
    /\ c.stage # "orphan"
    /\ calls' = (calls \ {c}) \cup (IF orphan /\ c.stage = "sent" THEN {[c EXCEPT !.stage = "orphan"]} ELSE {})
    /\ IF c.id = inFlight.id
       THEN entries' = From(entries, inFlight.count + 1) /\ inFlight' = NoBatch
       ELSE UNCHANGED <<entries, inFlight>>
    /\ resent' = IF orphan \/ c.stage = "stored" THEN resent \cup Elements(c.samples) ELSE resent
    /\ UNCHANGED <<lastBatch, archive, dropped, cleared, sent>>

\* The call fails, whatever it has done or, as an orphan, is still to do: retry.
CallFails(c, orphan) ==
    /\ c.stage # "orphan"
    /\ calls' = (calls \ {c}) \cup (IF orphan /\ c.stage = "sent" THEN {[c EXCEPT !.stage = "orphan"]} ELSE {})
    /\ inFlight' = IF c.id = inFlight.id THEN NoBatch ELSE inFlight
    /\ resent' = IF orphan \/ c.stage = "stored" THEN resent \cup Elements(c.samples) ELSE resent
    /\ UNCHANGED <<entries, lastBatch, archive, dropped, cleared, sent>>

\* The effect ends without a session to go on with: clear.
SessionEnds ==
    /\ entries # <<>>
    /\ entries' = <<>> /\ inFlight' = NoBatch
    /\ cleared' = cleared \cup Elements(entries)
    /\ UNCHANGED <<lastBatch, calls, archive, dropped, resent, sent>>

-----------------------------------------------------------------------------
\* A sample that is not archived is still in the queue, unless the queue had no
\* room for it or was cleared.
NothingForgotten ==
    \A t \in sent : archive[t] > 0 \/ t \in Elements(entries) \cup dropped \cup cleared

\* A sample is archived twice only if a call failed that stored it.
RepeatsExplained == \A t \in DOMAIN archive : archive[t] > 1 => t \in resent

\* The batch in flight is the head of the queue, whatever was dropped meanwhile.
BatchIsHead ==
    /\ \A c \in calls : c.id = inFlight.id => c.samples = SubSeq(entries, 1, inFlight.count)
    /\ inFlight # NoBatch => \E c \in calls : c.id = inFlight.id

ArchiveInv ==
    /\ Len(entries) <= MaxPending
    /\ NothingForgotten
    /\ RepeatsExplained
    /\ BatchIsHead

-----------------------------------------------------------------------------
(***************************************************************************)
(* A chart of the runtime page that is expanded, with its choice of time   *)
(* ranges (ExpandedChart and mergeHistoricalWithLive of                    *)
(* src/platform/RuntimeCanvas.jsx, shared/chart-time-range.js,             *)
(* readChartTelemetryRange of api/_lib/chart-telemetry-store.js).          *)
(*                                                                         *)
(* The archive is read for the range that is chosen, in buckets; answers   *)
(* are kept for a while.  What is drawn is the answer with the page's own  *)
(* samples of the time that may not be archived yet (both of them are told *)
(* of above).  One tag; times are numbers of a clock.                      *)
(***************************************************************************)

CONSTANTS
    Ranges,         \* the presets, CHART_RANGE_PRESETS
    Duration,       \* durationMs of a preset
    Resolution,     \* adaptiveChartResolution of a preset
    MinOverlap,     \* 30_000 of mergeHistoricalWithLive
    CacheFor,       \* 60_000 of selectRange
    ChartInstances  \* the instances a run covers

ASSUME ChartAssumption == \A r \in Ranges : Duration[r] > 0 /\ Resolution[r] > 0

VARIABLES
    now,        \* the clock
    number,     \* the sequence number of the source's last sample
    stamp,      \* sample -> the time it was published with, or 0
    replaced,   \* the samples that gave way to one with their number
    rangeId,    \* the range that is chosen, or "live"
    upper,      \* rangeBounds.to
    loaded,     \* loadedHistory: none, or the answer that is shown
    loading,
    failed,     \* historyError
    cache,      \* the answers that are kept
    reads,      \* the reads of the archive that are under way
    lastRead,   \* requestIdRef
    crossed,    \* a kept answer was chosen while a read was under way
    left        \* what may still happen

chartVars == <<rangeId, upper, loaded, loading, failed, cache, reads, lastRead, crossed>>
chartPageVars == <<liveVars, archiveVars, chartVars, now, number, stamp, replaced, left>>

NoAnswer == [range |-> "none", to |-> 0, buckets |-> {}, behind |-> FALSE, at |-> 0]
Times == 1..MaxTime

\* The archive numbers its samples by the clock: no number of a source.
Persisted(at) == [at |-> at, seq |-> 100 + at]

\* The page is opened at time 2: the archive has the samples 1 and 2 of an
\* earlier session, and tells of them unless it fails.
ChartInit ==
    /\ now = 2 /\ number = 0 /\ stamp = [t \in 1..2 |-> t] /\ replaced = {}
    /\ \/ Seeded(<<>>)
       \/ Seeded(<<Persisted(1), Persisted(2)>>)
    /\ entries = <<>> /\ inFlight = NoBatch /\ lastBatch = 0 /\ calls = {}
    /\ archive = [t \in Times |-> IF t <= 2 THEN 1 ELSE 0]
    /\ dropped = {} /\ cleared = {} /\ resent = {} /\ sent = {1, 2}
    /\ rangeId = "live" /\ upper = 0 /\ loaded = NoAnswer
    /\ loading = FALSE /\ failed = FALSE /\ crossed = FALSE
    /\ cache = [r \in Ranges |-> NoAnswer]
    /\ reads = {} /\ lastRead = 0
    /\ left \in ChartInstances

Uses(what) ==
    /\ left[what] > 0
    /\ left' = [left EXCEPT ![what] = @ - 1]

-----------------------------------------------------------------------------
(* Samples.                                                                *)

\* A value of the simulation is a sample of the page.
Sample ==
    /\ now < MaxTime
    /\ Uses("samples")
    /\ LET new == [at |-> now + 1, seq |-> number + 1] IN
       /\ Receive(new)
       /\ replaced' = replaced \cup {live[k].at : k \in {Place(live, new)} \cap DOMAIN live}
    /\ now' = now + 1 /\ number' = number + 1
    /\ stamp' = [t \in DOMAIN stamp \cup {now + 1} |-> IF t = now + 1 THEN 0 ELSE stamp[t]]
    /\ UNCHANGED <<archiveVars, chartVars>>

Unpublished == {t \in DOMAIN stamp : stamp[t] = 0}

\* drain: the POST of the values the page had at a time has succeeded; they are
\* an entry for the archive, at that time.
Published ==
    /\ \E at \in 1..now :
        /\ \E t \in Unpublished : t <= at
        /\ stamp' = [t \in DOMAIN stamp |-> IF t \in Unpublished /\ t <= at THEN at ELSE stamp[t]]
        /\ Enqueue(at)
    /\ UNCHANGED <<liveVars, chartVars, now, number, replaced, left>>

\* Time passes.
Pass ==
    /\ now < MaxTime
    /\ Uses("passes")
    /\ now' = now + 1
    /\ UNCHANGED <<liveVars, archiveVars, chartVars, number, stamp, replaced>>

\* The source starts again: its numbers do too.
SourceRestarts ==
    /\ number > 0
    /\ Uses("restarts")
    /\ number' = 0
    /\ UNCHANGED <<liveVars, archiveVars, chartVars, now, stamp, replaced>>

\* Samples of any order, with or without numbers (a stream of a connector).
Streamed ==
    /\ left["streamed"] > 0 /\ UNCHANGED left
    /\ \E at \in 1..3, seq \in 0..3 : Receive([at |-> at, seq |-> seq])
    /\ UNCHANGED <<archiveVars, chartVars, now, number, stamp, replaced>>

Archiving ==
    /\ \/ \E size \in BatchSizes : Flush(size) /\ Uses("flushes")
       \/ \E c \in calls : (CallStored(c) \/ CallAnswered(c)) /\ UNCHANGED left
       \/ \E c \in calls, orphan \in BOOLEAN : CallFails(c, orphan) /\ Uses("failures")
       \/ SessionEnds /\ Uses("ends")
    /\ UNCHANGED <<liveVars, chartVars, now, number, stamp, replaced>>

-----------------------------------------------------------------------------
(* The choice of a range.                                                  *)

Lower(r, to) == IF to > Duration[r] THEN to - Duration[r] ELSE 0
Overlap(r) == Max({MinOverlap, 2 * Resolution[r]})
Bucket(r, t) == (t \div Resolution[r]) * Resolution[r]

Abort == {[q EXCEPT !.aborted = TRUE] : q \in reads}
Current == {q \in reads : ~q.aborted}

\* Mutant: the read that is under way is not aborted.
SelectLiveOnly ==
    /\ rangeId' = "live" /\ upper' = 0 /\ loaded' = NoAnswer
    /\ loading' = FALSE /\ failed' = FALSE /\ crossed' = FALSE
    /\ UNCHANGED <<cache, lastRead, reads>>

\* selectRange('live')
SelectLive ==
    /\ rangeId' = "live" /\ upper' = 0 /\ loaded' = NoAnswer
    /\ loading' = FALSE /\ failed' = FALSE /\ crossed' = FALSE
    /\ reads' = Abort
    /\ UNCHANGED <<cache, lastRead>>

Kept(r) == cache[r] # NoAnswer /\ now - cache[r].at < CacheFor

\* A kept answer is shown; a read that is under way goes on.
SelectKept(r) ==
    /\ rangeId' = r /\ failed' = FALSE
    /\ loaded' = cache[r] /\ upper' = cache[r].to
    /\ loading' = FALSE
    /\ crossed' = (Current # {})
    /\ UNCHANGED <<cache, reads, lastRead>>

\* Mutant: the read gets the number before.
SelectReadPostfix(r) ==
    /\ rangeId' = r /\ upper' = now /\ failed' = FALSE
    /\ lastRead' = lastRead + 1
    /\ reads' = {[id |-> lastRead, range |-> r, to |-> now, aborted |-> FALSE,
                          stage |-> "sent", buckets |-> {}, behind |-> FALSE]} \cup Abort
    /\ loading' = TRUE /\ crossed' = FALSE
    /\ UNCHANGED <<cache, loaded>>

\* The archive is read; until it answers, the answer before is shown.
SelectRead(r) ==
    /\ rangeId' = r /\ upper' = now /\ failed' = FALSE
    /\ lastRead' = lastRead + 1
    /\ reads' = {[id |-> lastRead + 1, range |-> r, to |-> now, aborted |-> FALSE,
                          stage |-> "sent", buckets |-> {}, behind |-> FALSE]} \cup Abort
    /\ loading' = TRUE /\ crossed' = FALSE
    /\ UNCHANGED <<cache, loaded>>

Select ==
    /\ Uses("choices")
    /\ \/ SelectLive
       \/ \E r \in Ranges : IF Kept(r) THEN SelectKept(r) ELSE SelectRead(r)
       \/ rangeId # "live" /\ ~loading /\ SelectRead(rangeId)
    /\ UNCHANGED <<liveVars, archiveVars, now, number, stamp, replaced>>
-----------------------------------------------------------------------------
(* The reads of the archive.                                               *)

\* What became of a sample that is in no archive: it was dropped or cleared.
Lost == {t \in DOMAIN stamp : stamp[t] \in dropped \cup cleared}

\* The samples of the page that the archive should have by now.
Owed(r, to) ==
    {t \in DOMAIN stamp \ Lost :
        /\ Lower(r, to) <= t /\ t + Overlap(r) < to
        /\ t \in Unpublished \/ stamp[t] > to \/ archive[stamp[t]] = 0}

\* readChartTelemetryRange
ArchiveRead(q) ==
    /\ q.stage = "sent"
    /\ reads' = (reads \ {q}) \cup
         {[q EXCEPT !.stage = "read",
                    !.buckets = {Bucket(q.range, t) : t \in {t \in Times : archive[t] > 0 /\ Lower(q.range, q.to) <= t /\ t <= q.to}},
                    !.behind = Owed(q.range, q.to) # {}]}
    /\ UNCHANGED <<rangeId, upper, loaded, loading, failed, cache, lastRead, crossed, left>>

Answer(q) == [range |-> q.range, to |-> q.to, buckets |-> q.buckets, behind |-> q.behind, at |-> now]

\* Mutant: an answer is shown whatever has been chosen since.
ReadAnsweredLate(q) ==
    /\ q.stage = "read"
    /\ reads' = reads \ {q}
    /\ cache' = [cache EXCEPT ![q.range] = Answer(q)]
    /\ loaded' = Answer(q) /\ upper' = q.to
    /\ loading' = IF q.id = lastRead THEN FALSE ELSE loading
    /\ UNCHANGED <<rangeId, failed, lastRead, crossed, left>>

\* An answer is kept and shown, unless another read was sent or "live" chosen.
ReadAnswered(q) ==
    /\ q.stage = "read"
    /\ reads' = reads \ {q}
    /\ IF q.aborted \/ q.id # lastRead
       THEN UNCHANGED <<cache, loaded, upper>>
       ELSE /\ cache' = [cache EXCEPT ![q.range] = Answer(q)]
            /\ loaded' = Answer(q) /\ upper' = q.to
    /\ loading' = IF q.id = lastRead THEN FALSE ELSE loading
    /\ UNCHANGED <<rangeId, failed, lastRead, crossed, left>>

\* A read fails, always if it was aborted; "SESSION FALLBACK".
ReadFails(q) ==
    /\ IF q.aborted THEN UNCHANGED left ELSE Uses("failures")
    /\ reads' = reads \ {q}
    /\ IF q.aborted THEN UNCHANGED <<loaded, failed>>
       ELSE loaded' = NoAnswer /\ failed' = TRUE
    /\ loading' = IF q.id = lastRead THEN FALSE ELSE loading
    /\ UNCHANGED <<rangeId, upper, cache, lastRead, crossed>>

Reading ==
    /\ \E q \in reads : ArchiveRead(q) \/ ReadAnswered(q) \/ ReadFails(q)
    /\ UNCHANGED <<liveVars, archiveVars, now, number, stamp, replaced>>

ChartNext == Sample \/ Published \/ Pass \/ SourceRestarts \/ Streamed \/ Archiving \/ Select \/ Reading

-----------------------------------------------------------------------------
(* What is drawn.                                                          *)

\* Mutant: only samples after the answer are taken from the page.
MergedAfter ==
    LET fresh == {live[k].at : k \in {k \in DOMAIN live : live[k].at > loaded.to}}
    IN {[at |-> t, width |-> 1] : t \in fresh}
       \cup {[at |-> b, width |-> Resolution[loaded.range]] : b \in loaded.buckets \ fresh}

\* mergeHistoricalWithLive: of one timestamp the page's sample is drawn.
Merged ==
    LET fresh == {live[k].at : k \in {k \in DOMAIN live : live[k].at + Overlap(loaded.range) >= loaded.to}}
    IN {[at |-> t, width |-> 1] : t \in fresh}
       \cup {[at |-> b, width |-> Resolution[loaded.range]] : b \in loaded.buckets \ fresh}

Drawn == {p \in Merged : Cardinality({q \in Merged : q.at > p.at}) < MaxPoints}
Covered(t) == \E p \in Drawn : p.at <= t /\ t < p.at + p.width

\* activeRange.from: the range moves on with the page's samples.
LowerNow ==
    LET latest == IF live = <<>> THEN 0 ELSE live[Len(live)].at
        to == Max({upper, latest})
    IN Max({Lower(rangeId, upper), Lower(rangeId, to)})

\* One read is under way at most; the chart is loading only while it is, and
\* what it shows is the range that is chosen (or, as the code stands, that of a
\* read under way when a kept answer was chosen).
ShownIsChosen ==
    /\ Cardinality(Current) <= 1
    /\ loading => \E q \in Current : q.id = lastRead
    /\ failed => loaded = NoAnswer
    /\ loaded # NoAnswer => loaded.range = rangeId \/ loading \/ crossed

\* The chart has no hole: behind its oldest point, every sample of the page in the
\* range is drawn, at its time or at the time it was published with, unless it was
\* dropped, cleared or replaced, or the archive was behind by more than the overlap
\* when it was read.
NoHole ==
    loaded # NoAnswer /\ loaded.range = rangeId /\ ~loaded.behind =>
        \A t \in DOMAIN stamp \ (Lost \cup replaced) :
            LowerNow <= t /\ (\E p \in Drawn : p.at <= t) =>
                Covered(t) \/ (t \notin Unpublished /\ Covered(stamp[t]))

\* The charts of a runtime page: the histories are ordered and complete, the
\* archive gets every sample it has room for, what is shown is what was chosen
\* and has no hole.
ChartInv == LiveInv /\ ArchiveInv /\ ShownIsChosen /\ NoHole

-----------------------------------------------------------------------------
(* Of the run "pages": a short range in single samples and a long one in   *)
(* buckets of two.                                                         *)

MCDuration == [r \in Ranges |-> IF r = "short" THEN 4 ELSE 6]
MCResolution == [r \in Ranges |-> IF r = "short" THEN 1 ELSE 2]

Nothing ==
    [samples |-> 0, passes |-> 0, restarts |-> 0, streamed |-> 0, flushes |-> 0, failures |-> 0,
     ends |-> 0, choices |-> 0]

\* Samples of any order; a queue that overflows, with failures and the end of a
\* session; choices, one after the other; reads of an archive that is behind.
MCChartInstances == {
    [Nothing EXCEPT !.streamed = 1],
    [Nothing EXCEPT !.samples = 4, !.flushes = 2, !.failures = 1, !.ends = 1],
    [Nothing EXCEPT !.samples = 1, !.passes = 1, !.failures = 1, !.choices = 3],
    [Nothing EXCEPT !.samples = 2, !.passes = 1, !.flushes = 1, !.choices = 1],
    [Nothing EXCEPT !.samples = 3, !.restarts = 1, !.choices = 1]}
=============================================================================
