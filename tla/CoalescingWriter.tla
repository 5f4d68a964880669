-------------------------- MODULE CoalescingWriter --------------------------
(***************************************************************************)
(* server/connectors/coalescing-batch-writer.js: the worker's deferred     *)
(* persistence of the latest value per key (tag snapshots, connector and   *)
(* command health).  Producers enqueue, a timer flushes at most one batch  *)
(* at a time, a failed batch is merged back behind nothing newer, and      *)
(* close() drains with forced flushes.                                     *)
(*                                                                         *)
(* A value is the number of values its key has been given so far, so that  *)
(* larger is newer.  Each action is what runs between two awaits; timers   *)
(* and the ends of writes wait until the queued microtask has run.         *)
(***************************************************************************)
EXTENDS Integers, Sequences, FiniteSets, SequencesExt

CONSTANTS
    Keys,
    BatchSize,      \* batchSize
    MaxPending,     \* maxPending
    MaxValues       \* bound: values offered, of all keys

VARIABLES
    pending,    \* the Map of pending values, in insertion order
    batch,      \* the entries of the write in progress
    flush,      \* flushPromise: none, its write in progress, or its write over
    backoff,    \* Date.now() < nextRetryAt
    microtask,  \* a flush queued with queueMicrotask
    closing,    \* where the call of close() stands
    failedOnce, \* a write failed since close() last looked
    streak,     \* consecutiveFailures of close()
    offers,     \* the number of values accepted
    offered,    \* key -> the newest value accepted (0: none)
    stored,     \* key -> the value in the database
    dropped,    \* key -> the newest value dropped by an overflow
    failures    \* writes that failed since the last one that did not

writer == <<pending, batch, flush, backoff, microtask>>
close  == <<closing, failedOnce, streak>>
ghosts == <<offers, offered, stored, dropped, failures>>
vars   == <<writer, close, ghosts>>

Entry == [key : Keys, value : 1..MaxValues]

KeysOf(entries) == {entries[i].key : i \in DOMAIN entries}

\* The index in S that has n - 1 others before it.
Nth(S, n) == CHOOSE i \in S : Cardinality({j \in S : j <= i}) = n

\* The entries of other keys, in their order.
Without(entries, ks) ==
    LET others == {i \in DOMAIN entries : entries[i].key \notin ks}
    IN [n \in 1..Cardinality(others) |-> entries[Nth(others, n)]]

ValueIn(entries, k) == (CHOOSE e \in ToSet(entries) : e.key = k).value

Closed == closing # "open"

Init ==
    /\ pending = <<>>
    /\ batch = <<>>
    /\ flush = "none"
    /\ backoff = FALSE
    /\ microtask = FALSE
    /\ closing = "open"
    /\ failedOnce = FALSE
    /\ streak = 0
    /\ offered = [k \in Keys |-> 0]
    /\ stored = [k \in Keys |-> 0]
    /\ dropped = [k \in Keys |-> 0]
    /\ offers = 0
    /\ failures = 0

-----------------------------------------------------------------------------
(* The overflow goes from the oldest end.                                  *)

Least(a, b) == IF a < b THEN a ELSE b

Overflow(entries) == IF Len(entries) > MaxPending THEN Len(entries) - MaxPending ELSE 0

Trim(entries) == SubSeq(entries, Overflow(entries) + 1, Len(entries))

Lost(entries) ==
    LET gone == SubSeq(entries, 1, Overflow(entries)) IN
    [k \in Keys |-> IF k \in KeysOf(gone) /\ ValueIn(gone, k) > dropped[k]
                    THEN ValueIn(gone, k) ELSE dropped[k]]

\* flush() with this pending map: it joins a flush in progress, does nothing
\* without entries, and keeps to the backoff unless forced.
FlushWith(entries, force) ==
    IF flush = "none" /\ entries # <<>> /\ (force \/ ~backoff)
    THEN /\ batch' = SubSeq(entries, 1, Least(BatchSize, Len(entries)))
         /\ pending' = SubSeq(entries, BatchSize + 1, Len(entries))
         /\ flush' = "writing"
    ELSE /\ pending' = entries
         /\ UNCHANGED <<batch, flush>>

Enqueue(k) ==
    LET entries == Append(Without(pending, {k}), [key |-> k, value |-> offered[k] + 1]) IN
    /\ ~Closed
    /\ offers < MaxValues
    /\ offers' = offers + 1
    /\ offered' = [offered EXCEPT ![k] = @ + 1]
    /\ dropped' = Lost(entries)
    /\ IF Len(Trim(entries)) >= BatchSize
       THEN FlushWith(Trim(entries), FALSE)
       ELSE pending' = Trim(entries) /\ UNCHANGED <<batch, flush>>
    /\ UNCHANGED <<backoff, microtask, close, stored, failures>>

\* The interval timer; close() clears it.
TimerFlush ==
    /\ ~Closed
    /\ ~microtask
    /\ FlushWith(pending, FALSE)
    /\ UNCHANGED <<backoff, microtask, close, ghosts>>

MicrotaskFlush ==
    /\ microtask
    /\ microtask' = FALSE
    /\ FlushWith(pending, FALSE)
    /\ UNCHANGED <<backoff, close, ghosts>>

\* The clock reaches nextRetryAt.
BackoffEnds ==
    /\ backoff
    /\ backoff' = FALSE
    /\ UNCHANGED <<pending, batch, flush, microtask, close, ghosts>>

-----------------------------------------------------------------------------
(* The write of a batch.                                                   *)

StoredWith(ks) == [k \in Keys |-> IF k \in ks THEN ValueIn(batch, k) ELSE stored[k]]

WriteSucceeds ==
    /\ flush = "writing"
    /\ ~microtask
    /\ flush' = "written"
    /\ stored' = StoredWith(KeysOf(batch))
    /\ backoff' = FALSE
    /\ failures' = 0
    /\ UNCHANGED <<pending, batch, microtask, close, offers, offered, dropped>>

\* An unordered bulk write that fails may have applied any of its updates.
\* Mutants: the failed entries go behind newer ones; the batch is forgotten.
WriteFailsAppending(applied) ==
    LET restored == pending \o batch IN
    /\ flush = "writing"
    /\ ~microtask
    /\ flush' = "written"
    /\ stored' = StoredWith(applied)
    /\ pending' = Trim(restored)
    /\ dropped' = Lost(restored)
    /\ backoff' = TRUE
    /\ failedOnce' = TRUE
    /\ failures' = Least(failures + 1, 3)
    /\ UNCHANGED <<batch, microtask, closing, streak, offers, offered>>

WriteFailsForgetting(applied) ==
    /\ flush = "writing"
    /\ ~microtask
    /\ flush' = "written"
    /\ stored' = StoredWith(applied)
    /\ backoff' = TRUE
    /\ failedOnce' = TRUE
    /\ failures' = Least(failures + 1, 3)
    /\ UNCHANGED <<pending, batch, microtask, closing, streak, offers, offered, dropped>>

WriteFails(applied) ==
    LET restored == Without(batch, KeysOf(pending)) \o pending IN
    /\ flush = "writing"
    /\ ~microtask
    /\ flush' = "written"
    /\ stored' = StoredWith(applied)
    /\ pending' = Trim(restored)
    /\ dropped' = Lost(restored)
    /\ backoff' = TRUE
    /\ failedOnce' = TRUE
    /\ failures' = Least(failures + 1, 3)
    /\ UNCHANGED <<batch, microtask, closing, streak, offers, offered>>

\* The finally block of flush(), in a microtask of its own.
FlushSettles ==
    /\ flush = "written"
    /\ flush' = "none"
    /\ batch' = <<>>
    /\ microtask' = (microtask \/ (~Closed /\ Len(pending) >= BatchSize /\ ~backoff))
    /\ UNCHANGED <<pending, backoff, close, ghosts>>

-----------------------------------------------------------------------------
(* close(): each pass of its loop starts a forced flush in the same step   *)
(* as it looked at the map, and resumes when that flush has settled.       *)

DrainOrReturn(failuresInARow) ==
    /\ streak' = failuresInARow
    /\ IF pending = <<>> \/ failuresInARow = 3
       THEN /\ closing' = "returned"
            /\ UNCHANGED <<pending, batch, flush, failedOnce>>
       ELSE /\ closing' = "flushing"
            /\ failedOnce' = FALSE
            /\ FlushWith(pending, TRUE)
    /\ UNCHANGED <<backoff, microtask, ghosts>>

\* Mutant: the flush in progress is not awaited.
CloseAtOnce ==
    /\ ~Closed
    /\ DrainOrReturn(0)

Close ==
    /\ ~Closed
    /\ IF flush = "none"
       THEN DrainOrReturn(0)
       ELSE closing' = "waiting" /\ UNCHANGED <<writer, failedOnce, streak, ghosts>>

CloseResumes ==
    /\ closing = "waiting"
    /\ flush = "none"
    /\ DrainOrReturn(0)

\* Mutant: failures are not counted.
FlushNotCounted ==
    /\ closing = "flushing"
    /\ flush = "none"
    /\ DrainOrReturn(0)

FlushCounted ==
    /\ closing = "flushing"
    /\ flush = "none"
    /\ DrainOrReturn(IF failedOnce THEN streak + 1 ELSE 0)

-----------------------------------------------------------------------------
Next ==
    \/ \E k \in Keys : Enqueue(k)
    \/ TimerFlush
    \/ MicrotaskFlush
    \/ BackoffEnds
    \/ WriteSucceeds
    \/ \E applied \in SUBSET KeysOf(batch) : WriteFails(applied)
    \/ FlushSettles
    \/ Close
    \/ CloseResumes
    \/ FlushCounted

Spec == Init /\ [][Next]_vars

\* The event loop runs timers and continuations, and a write ends one way or
\* the other (the driver's timeouts): enough for close() to return.
WriteEnds == WriteSucceeds \/ \E applied \in SUBSET KeysOf(batch) : WriteFails(applied)

LoopFairness ==
    /\ WF_vars(TimerFlush)
    /\ WF_vars(MicrotaskFlush)
    /\ WF_vars(BackoffEnds)
    /\ WF_vars(WriteEnds)
    /\ WF_vars(FlushSettles)
    /\ WF_vars(CloseResumes)
    /\ WF_vars(FlushCounted)

CloseSpec == Spec /\ LoopFairness

\* A database that is written to again and again accepts a batch some time.
DatabaseRecovers == SF_vars(WriteSucceeds)

-----------------------------------------------------------------------------
(***************************************************************************)
(* Properties.                                                             *)
(***************************************************************************)

TypeOK ==
    /\ pending \in Seq(Entry)
    /\ batch \in Seq(Entry)
    /\ Len(pending) <= MaxPending
    /\ Len(batch) <= BatchSize
    /\ flush \in {"none", "writing", "written"}
    /\ backoff \in BOOLEAN
    /\ microtask \in BOOLEAN
    /\ closing \in {"open", "waiting", "flushing", "returned"}
    /\ failedOnce \in BOOLEAN
    /\ streak \in 0..3
    /\ failures \in 0..3
    /\ offers \in 0..MaxValues
    /\ \A f \in {offered, stored, dropped} : f \in [Keys -> 0..MaxValues]

\* The pending map holds one value per key, the newest one, although a failed
\* batch is merged back into a map that has moved on in the meantime.
PendingIsNewest ==
    /\ \A i \in DOMAIN pending : pending[i].value = offered[pending[i].key]
    /\ \A i, j \in DOMAIN pending : pending[i].key = pending[j].key => i = j

\* The newest value of every key is somewhere: waiting, being written,
\* stored, or counted as dropped by an overflow.  A failure loses nothing.
NewestIsNotLost ==
    \A k \in Keys : offered[k] > 0 =>
        \/ k \in KeysOf(pending)
        \/ flush = "writing" /\ k \in KeysOf(batch) /\ ValueIn(batch, k) = offered[k]
        \/ stored[k] = offered[k]
        \/ dropped[k] = offered[k]

\* The database never goes back to an older value: retries of a failed batch
\* that was partly applied, and values queued meanwhile, arrive in order.
StoredNeverGoesBack == [][\A k \in Keys : stored'[k] >= stored[k]]_stored

\* When close() has returned no write is in progress and nothing can start
\* one; values are left behind only if three writes in a row have failed.
CloseDrains ==
    closing = "returned" =>
        /\ flush = "none"
        /\ pending = <<>> \/ failures = 3

\* What holds of the writer at every moment, with the types.
WriterInv == TypeOK /\ PendingIsNewest /\ NewestIsNotLost /\ CloseDrains

\* If the database recovers, a key whose newest value is not stored yet is
\* caught up with, unless an overflow drops that value or the writer closes.
Behind(k) == stored[k] < offered[k] /\ dropped[k] < offered[k]

NewestIsStored ==
    DatabaseRecovers => \A k \in Keys : Behind(k) ~> ~Behind(k) \/ Closed

\* A call of close() returns, even if every write fails.
CloseTerminates == Closed ~> closing = "returned"
=============================================================================
