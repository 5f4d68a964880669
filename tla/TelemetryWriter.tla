-------------------------- MODULE TelemetryWriter --------------------------
(***************************************************************************)
(* server/connectors/telemetry-batch-writer.js: the bounded archive queue  *)
(* of numeric samples.  Samples are numbered in the order of their         *)
(* arrival.  Each action is what runs between two awaits.                  *)
(*                                                                         *)
(* Unlike CoalescingWriter, a flush that finds another one in progress     *)
(* returns at once, and close() makes three attempts whatever becomes of   *)
(* them.                                                                   *)
(***************************************************************************)
EXTENDS Integers, Sequences, SequencesExt

CONSTANTS
    BatchSize,      \* batchSize
    MaxQueue,       \* maxQueue
    MaxSamples      \* bound: samples offered

VARIABLES
    queue,      \* the samples waiting, oldest first
    batch,      \* the samples of the write in progress
    flushing,   \* a write is in progress
    backoff,    \* Date.now() < nextRetryAt
    closing,    \* where the call of close() stands
    attempt,    \* its loop counter
    accepted,   \* the number of samples enqueued
    archived,   \* the samples in the time-series collection
    dropped,    \* the samples dropped by an overflow
    disturbed   \* close() met a write in progress or a write has failed since,
                \* or more samples than its three attempts can take

writer == <<queue, batch, flushing, backoff>>
close  == <<closing, attempt>>
ghosts == <<accepted, archived, dropped>>
vars   == <<writer, close, ghosts, disturbed>>

Samples == 1..MaxSamples

Closed == closing # "open"

Init ==
    /\ queue = <<>>
    /\ batch = <<>>
    /\ flushing = FALSE
    /\ backoff = FALSE
    /\ closing = "open"
    /\ attempt = 0
    /\ accepted = 0
    /\ archived = {}
    /\ dropped = {}
    /\ disturbed = FALSE

Overflow(samples) == IF Len(samples) > MaxQueue THEN Len(samples) - MaxQueue ELSE 0

Kept(samples) == SubSeq(samples, Overflow(samples) + 1, Len(samples))

Dropped(samples) == ToSet(samples) \ ToSet(Kept(samples))

Least(a, b) == IF a < b THEN a ELSE b

\* flush() on this queue.
FlushWith(samples, force) ==
    IF ~flushing /\ samples # <<>> /\ (force \/ ~backoff)
    THEN /\ batch' = SubSeq(samples, 1, Least(BatchSize, Len(samples)))
         /\ queue' = SubSeq(samples, BatchSize + 1, Len(samples))
         /\ flushing' = TRUE
    ELSE queue' = samples /\ UNCHANGED <<batch, flushing>>

Enqueue ==
    LET samples == Append(queue, accepted + 1) IN
    /\ ~Closed
    /\ accepted < MaxSamples
    /\ accepted' = accepted + 1
    /\ dropped' = dropped \cup Dropped(samples)
    /\ IF Len(Kept(samples)) >= BatchSize
       THEN FlushWith(Kept(samples), FALSE)
       ELSE queue' = Kept(samples) /\ UNCHANGED <<batch, flushing>>
    /\ UNCHANGED <<backoff, close, archived, disturbed>>

\* Mutant: the timer leaves a batch that is not full.
TimerFlushFull ==
    /\ ~Closed
    /\ Len(queue) >= BatchSize
    /\ FlushWith(queue, FALSE)
    /\ UNCHANGED <<backoff, close, ghosts, disturbed>>

\* The interval timer; close() clears it.
TimerFlush ==
    /\ ~Closed
    /\ FlushWith(queue, FALSE)
    /\ UNCHANGED <<backoff, close, ghosts, disturbed>>

BackoffEnds ==
    /\ backoff
    /\ backoff' = FALSE
    /\ UNCHANGED <<queue, batch, flushing, close, ghosts, disturbed>>

WriteSucceeds ==
    /\ flushing
    /\ flushing' = FALSE
    /\ batch' = <<>>
    /\ archived' = archived \cup ToSet(batch)
    /\ backoff' = FALSE
    /\ UNCHANGED <<queue, close, accepted, dropped, disturbed>>

\* Mutant: the failed batch goes behind the samples that arrived meanwhile.
WriteFailsAppending(inserted) ==
    LET samples == queue \o batch IN
    /\ flushing
    /\ flushing' = FALSE
    /\ batch' = <<>>
    /\ archived' = archived \cup inserted
    /\ backoff' = TRUE
    /\ queue' = Kept(samples)
    /\ dropped' = dropped \cup Dropped(samples)
    /\ disturbed' = (disturbed \/ Closed)
    /\ UNCHANGED <<close, accepted>>

\* The unordered insert may have inserted any of its documents; all of them
\* go back to the queue and are inserted again.
WriteFails(inserted) ==
    LET samples == batch \o queue IN
    /\ flushing
    /\ flushing' = FALSE
    /\ batch' = <<>>
    /\ archived' = archived \cup inserted
    /\ backoff' = TRUE
    /\ queue' = Kept(samples)
    /\ dropped' = dropped \cup Dropped(samples)
    /\ disturbed' = (disturbed \/ Closed)
    /\ UNCHANGED <<close, accepted>>

-----------------------------------------------------------------------------
(* close(): an attempt that finds a write in progress is used up at once.  *)

\* Mutant: two attempts.
AttemptTwice(n) ==
    IF n < 2 /\ queue # <<>>
    THEN /\ attempt' = n + 1
         /\ closing' = IF flushing THEN "refused" ELSE "flushing"
         /\ FlushWith(queue, TRUE)
    ELSE closing' = "returned" /\ UNCHANGED <<attempt, queue, batch, flushing>>

Attempt(n) ==
    IF n < 3 /\ queue # <<>>
    THEN /\ attempt' = n + 1
         /\ closing' = IF flushing THEN "refused" ELSE "flushing"
         /\ FlushWith(queue, TRUE)
    ELSE closing' = "returned" /\ UNCHANGED <<attempt, queue, batch, flushing>>

Close ==
    /\ ~Closed
    /\ Attempt(0)
    /\ disturbed' = (flushing \/ Len(queue) > 3 * BatchSize)
    /\ UNCHANGED <<backoff, ghosts>>

\* Resumes after the flush it started, or at once after one it did not.
CloseResumes ==
    /\ \/ closing = "flushing" /\ ~flushing
       \/ closing = "refused"
    /\ Attempt(attempt)
    /\ UNCHANGED <<backoff, ghosts, disturbed>>

-----------------------------------------------------------------------------
Next ==
    \/ Enqueue
    \/ TimerFlush
    \/ BackoffEnds
    \/ WriteSucceeds
    \/ \E inserted \in SUBSET ToSet(batch) : WriteFails(inserted)
    \/ Close
    \/ CloseResumes

Spec == Init /\ [][Next]_vars

\* Timers run, writes end, and a collection that is written to again and
\* again accepts a batch some time.
ArchiveFairness ==
    /\ WF_vars(TimerFlush)
    /\ WF_vars(BackoffEnds)
    /\ WF_vars(\E inserted \in SUBSET ToSet(batch) : WriteFails(inserted) \/ WriteSucceeds)
    /\ SF_vars(WriteSucceeds)
    /\ WF_vars(CloseResumes)

-----------------------------------------------------------------------------
(***************************************************************************)
(* Properties.                                                             *)
(***************************************************************************)

TypeOK ==
    /\ queue \in Seq(Samples)
    /\ batch \in Seq(Samples)
    /\ Len(queue) <= MaxQueue
    /\ Len(batch) <= BatchSize
    /\ flushing \in BOOLEAN
    /\ backoff \in BOOLEAN
    /\ closing \in {"open", "flushing", "refused", "returned"}
    /\ attempt \in 0..3
    /\ accepted \in 0..MaxSamples
    /\ archived \subseteq Samples
    /\ dropped \subseteq Samples
    /\ disturbed \in BOOLEAN

\* Every sample the queue accepted is waiting, being written, archived or
\* counted as dropped: a failed write loses none.
NoSampleVanishes ==
    1..accepted \subseteq ToSet(queue) \cup ToSet(batch) \cup archived \cup dropped

\* What an overflow drops is older than everything still queued (ADR 0002:
\* the oldest archive samples go), also when a failed batch comes back while
\* the queue has already overflowed; and the queue stays in order of arrival.
DropsTheOldest ==
    /\ \A old \in dropped, s \in ToSet(queue) : old < s
    /\ \A i, j \in DOMAIN (batch \o queue) :
           i < j => (batch \o queue)[i] < (batch \o queue)[j]

\* close() archives the whole queue if it meets no write in progress, no more
\* than three batches and no failure.
UndisturbedCloseArchives ==
    closing = "returned" /\ ~disturbed =>
        1..accepted \subseteq archived \cup dropped

\* What holds of the archive's queue at every moment, with the types.
ArchiveInv == TypeOK /\ NoSampleVanishes /\ DropsTheOldest /\ UndisturbedCloseArchives

\* Every accepted sample is archived or dropped in time while the writer is
\* open: backoff, timer and full batches leave none behind.
SamplesAreArchived ==
    \A s \in Samples : accepted >= s ~> s \in archived \cup dropped \/ Closed
=============================================================================
