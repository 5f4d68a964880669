--------------------------- MODULE WorkerBuffers ---------------------------
(***************************************************************************)
(* What a connector worker holds back: the commands (KeyedTaskQueue), the  *)
(* samples of the chart archive (TelemetryWriter) and the latest value of  *)
(* each key that is to be stored (CoalescingWriter).  They share nothing   *)
(* but the process, so a behaviour uses one of them.                       *)
(***************************************************************************)
EXTENDS KeyedTaskQueue

CONSTANTS
    Buffers,        \* the buffers that are used
    SampleBatch,    \* of the archive
    MaxQueue,
    MaxSamples,
    ValueKeys,      \* of the writer
    ValueBatch,
    MaxPending,
    MaxValues

ASSUME BuffersAssumption ==
    /\ {SampleBatch, MaxQueue, ValueBatch, MaxPending} \subseteq Nat \ {0}
    /\ {MaxSamples, MaxValues} \subseteq Nat

VARIABLES
    buffer,     \* the buffer in use
    \* The archive's variables; see TelemetryWriter.
    samples, batch, flushing, backoff, ending, attempt, accepted, archived, dropped, disturbed,
    \* The writer's variables; see CoalescingWriter.
    pending, entries, flush, delay, microtask, draining, failedOnce, streak,
    offers, offered, stored, overflowed, failures

Archive == INSTANCE TelemetryWriter WITH
    BatchSize <- SampleBatch, queue <- samples, closing <- ending

Writer == INSTANCE CoalescingWriter WITH
    Keys <- ValueKeys, BatchSize <- ValueBatch, batch <- entries, backoff <- delay,
    closing <- draining, dropped <- overflowed

archiveVars == <<samples, batch, flushing, backoff, ending, attempt,
                 accepted, archived, dropped, disturbed>>
writerVars == <<pending, entries, flush, delay, microtask, draining, failedOnce, streak,
                offers, offered, stored, overflowed, failures>>
bufferVars == <<buffer, vars, archiveVars, writerVars>>

BuffersInit == buffer \in Buffers /\ Init /\ Archive!Init /\ Writer!Init

BuffersNext ==
    /\ \/ buffer = "queue" /\ Next /\ UNCHANGED <<archiveVars, writerVars>>
       \/ buffer = "archive" /\ Archive!Next /\ UNCHANGED <<vars, writerVars>>
       \/ buffer = "writer" /\ Writer!Next /\ UNCHANGED <<vars, archiveVars>>
    /\ UNCHANGED buffer

\* Timers fire; nothing is assumed of the tasks.
BuffersSpec ==
    /\ BuffersInit /\ [][BuffersNext]_bufferVars
    /\ WF_vars(CloseTimesOut)
    /\ Archive!ArchiveFairness
    /\ Writer!LoopFairness

-----------------------------------------------------------------------------
(***************************************************************************)
(* Properties.                                                             *)
(***************************************************************************)

\* What holds of each at every moment: books and capacity of the queue, no
\* sample lost unseen and the oldest first, the newest value of a key never
\* lost, and what each close() says or leaves behind.
BuffersInv == QueueInv /\ Archive!ArchiveInv /\ Writer!WriterInv

\* The database never goes back to an older value of a key.
StoredNeverGoesBack == Writer!StoredNeverGoesBack

\* Nothing that was accepted stays for good: tasks that settle leave the queue,
\* and samples are archived or counted as dropped unless the archive closes;
\* and a key whose newest value is not stored is caught up with.
BuffersDrain == AcceptedTasksLeave /\ Archive!SamplesAreArchived /\ Writer!NewestIsStored

\* A call of close() of the queue or the writer returns, whatever fails.
ClosesReturn == CloseReturns /\ Writer!CloseTerminates
=============================================================================
