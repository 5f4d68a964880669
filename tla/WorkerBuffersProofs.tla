------------------------ MODULE WorkerBuffersProofs -------------------------
(***************************************************************************)
(* Proofs about the three buffers of a worker: the keyed task queue        *)
(* implements SerialLanes and keeps its books; the archive's queue loses   *)
(* no sample unseen and drops the oldest first; and the writer of the      *)
(* latest values never takes a stored value back and forgets none.  What   *)
(* is inductive of the queue is told of its lines (what runs and what      *)
(* waits, per key), of the archive in terms of the sets and the order of   *)
(* the samples, of the writer in terms of where the newest value is.       *)
(***************************************************************************)
EXTENDS WorkerBuffers, FiniteSetTheorems, SequenceTheorems, TLAPS

-----------------------------------------------------------------------------
(* The lines of the queue: what runs and what waits, per key.              *)

lines == [k \in Keys |-> Line(k)]

\* A lane in which nothing runs has nothing waiting.
NoGap == \A k \in Keys : Running(k) = NoTask => q.lanes[k].waiting = <<>>

LEMMA LaneTypes ==
    ASSUME q \in Queue, NEW k \in Keys
    PROVE  /\ q.lanes[k] \in Lane
           /\ Running(k) \in Ids \cup {NoTask}
           /\ q.lanes[k].waiting \in Seq(Ids)
BY DEF Queue, Lane, Running

\* A line is empty, or the running task followed by the waiting ones.
LEMMA LineOf ==
    ASSUME q \in Queue, NoGap, NEW k \in Keys
    PROVE  /\ Line(k) \in Seq(Ids)
           /\ Line(k) = <<>> <=> Running(k) = NoTask
           /\ Running(k) = NoTask => q.lanes[k].waiting = <<>>
           /\ Running(k) # NoTask =>
                 /\ Running(k) \in Ids
                 /\ Head(Line(k)) = Running(k)
                 /\ Tail(Line(k)) = q.lanes[k].waiting
                 /\ Len(Line(k)) = Len(q.lanes[k].waiting) + 1
                 /\ Line(k) = <<Running(k)>> \o q.lanes[k].waiting
<1>. DEFINE w == q.lanes[k].waiting
            r == Running(k)
<1>1. r \in Ids \cup {NoTask} /\ w \in Seq(Ids)
    BY LaneTypes
<1>2. CASE r = NoTask
    BY <1>1, <1>2 DEF NoGap, Line
<1>3. CASE r # NoTask
    <2>1. r \in Ids /\ Line(k) = <<r>> \o w
        BY <1>1, <1>3 DEF Line
    <2>. HIDE DEF w, r
    <2>2. /\ <<r>> \o w \in Seq(Ids)
          /\ Len(<<r>> \o w) = Len(w) + 1
          /\ \A i \in 1..(Len(w) + 1) : (<<r>> \o w)[i] = IF i = 1 THEN r ELSE w[i - 1]
        BY <1>1, <2>1
    <2>3. Head(<<r>> \o w) = r /\ <<r>> \o w # <<>>
        BY <1>1, <2>1, <2>2
    <2>4. Tail(<<r>> \o w) = w
        <3>. DEFINE t == Tail(<<r>> \o w)
        <3>1. t \in Seq(Ids) /\ Len(t) = Len(w) /\ \A i \in 1..Len(w) : t[i] = w[i]
            BY <1>1, <2>2, <2>3
        <3>. HIDE DEF t
        <3>2. t = w
            BY <1>1, <3>1, SeqEqual
        <3>. QED  BY <3>2 DEF t
    <2>. QED  BY <1>1, <1>3, <2>1, <2>2, <2>3, <2>4 DEF w, r
<1>. QED  BY <1>2, <1>3

\* What startNext does to a queue record.
LEMMA StartNextEffect ==
    ASSUME NEW x \in Queue, NEW k \in Keys, NEW y, y = StartNext(x, k)
    PROVE  /\ y \in Queue
           /\ y.accepting = x.accepting
           /\ y.pendingIds = x.pendingIds
           /\ \A l \in Keys \ {k} : y.lanes[l] = x.lanes[l]
           /\ x.lanes[k].running # NoTask \/ x.lanes[k].waiting = <<>> => y = x
           /\ x.lanes[k].running = NoTask /\ x.lanes[k].waiting # <<>> =>
                 /\ y.active = x.active + 1
                 /\ y.queued = x.queued - 1
                 /\ y.lanes[k].running = Head(x.lanes[k].waiting)
                 /\ y.lanes[k].waiting = Tail(x.lanes[k].waiting)
<1>1. x.lanes[k] \in Lane /\ x.lanes[k].waiting \in Seq(Ids)
    BY DEF Queue, Lane
<1>2. CASE x.lanes[k].running # NoTask \/ x.lanes[k].waiting = <<>>
    BY <1>2 DEF StartNext
<1>3. CASE x.lanes[k].running = NoTask /\ x.lanes[k].waiting # <<>>
    <2>. DEFINE first == Head(x.lanes[k].waiting)
                rest == Tail(x.lanes[k].waiting)
                next == [running |-> first, waiting |-> rest]
    <2>1. first \in Ids /\ rest \in Seq(Ids)
        BY <1>1, <1>3, HeadTailProperties
    <2>2. y = [x EXCEPT !.queued = @ - 1, !.active = @ + 1, !.lanes[k] = next]
        BY <1>3 DEF StartNext
    <2>3. next \in Lane /\ next.running = first /\ next.waiting = rest
        BY <2>1 DEF Lane
    <2>. HIDE DEF next
    <2>4. /\ y.accepting = x.accepting /\ y.pendingIds = x.pendingIds
          /\ y.active = x.active + 1 /\ y.queued = x.queued - 1
        BY <2>2 DEF Queue
    <2>5. y.lanes = [x.lanes EXCEPT ![k] = next]
        BY <2>2 DEF Queue
    <2>6. y.lanes \in [Keys -> Lane] /\ y.lanes[k] = next
          /\ \A l \in Keys \ {k} : y.lanes[l] = x.lanes[l]
        BY <2>3, <2>5 DEF Queue
    <2>7. y \in Queue
        <3>. DEFINE a == x.queued - 1
                    b == x.active + 1
        <3>1. a \in Int /\ b \in Int
            BY DEF Queue
        <3>. DEFINE l == [x.lanes EXCEPT ![k] = next]
        <3>2. l \in [Keys -> Lane]
            BY <2>3 DEF Queue
        <3>3. y = [x EXCEPT !.queued = a, !.active = b, !.lanes = l]
            BY <2>2
        <3>. HIDE DEF a, b, l
        <3>. QED  BY <3>1, <3>2, <3>3 DEF Queue
    <2>. QED  BY <1>3, <2>3, <2>4, <2>6, <2>7
<1>. QED  BY <1>2, <1>3

\* Accepting a task: it becomes the last of its line, and runs if it is alone.
LEMMA EnqueueEffect ==
    ASSUME q \in Queue, NoGap, NEW k \in Keys, NEW id \in Ids, q' = Enqueue(q, k, id),
           NoTask \notin Ids
    PROVE  /\ q' \in Queue
           /\ NoGap'
           /\ lines' = [lines EXCEPT ![k] = Append(@, id)]
           /\ q'.accepting = q.accepting
           /\ q'.pendingIds = q.pendingIds \cup {id}
           /\ q'.active = IF lines[k] = <<>> THEN q.active + 1 ELSE q.active
           /\ q'.queued = IF lines[k] = <<>> THEN q.queued ELSE q.queued + 1
<1>. DEFINE w == q.lanes[k].waiting
            r == Running(k)
            longer == Append(w, id)
            added == [q EXCEPT !.lanes[k].waiting = Append(@, id),
                               !.queued           = @ + 1,
                               !.pendingIds       = @ \cup {id}]
<1>1. r \in Ids \cup {NoTask} /\ w \in Seq(Ids) /\ q.lanes[k] \in Lane
    BY LaneTypes
<1>2. q' = StartNext(added, k)
    BY DEF Enqueue
<1>3. longer \in Seq(Ids) /\ longer # <<>>
    <2>. HIDE DEF w
    <2>. QED  BY <1>1, AppendProperties
<1>4. /\ added.queued = q.queued + 1
      /\ added.active = q.active
      /\ added.pendingIds = q.pendingIds \cup {id}
      /\ added.accepting = q.accepting
    BY DEF Queue
<1>5. added.lanes = [q.lanes EXCEPT ![k].waiting = Append(@, id)]
    BY DEF Queue
<1>6. /\ added.lanes \in [Keys -> Lane]
      /\ added.lanes[k].running = r
      /\ added.lanes[k].waiting = longer
      /\ \A l \in Keys \ {k} : added.lanes[l] = q.lanes[l]
    <2>. DEFINE lane == [q.lanes[k] EXCEPT !.waiting = longer]
    <2>1. lane \in Lane /\ lane.running = r /\ lane.waiting = longer
        <3>. HIDE DEF longer
        <3>. QED  BY <1>1, <1>3 DEF Lane, Running
    <2>2. added.lanes = [q.lanes EXCEPT ![k] = lane]
        BY <1>5 DEF Queue
    <2>. HIDE DEF lane, added, longer, r
    <2>. QED  BY <2>1, <2>2 DEF Queue
<1>7. added \in Queue
    <2>. DEFINE a == q.queued + 1
                p == q.pendingIds \cup {id}
                l == [q.lanes EXCEPT ![k] = [q.lanes[k] EXCEPT !.waiting = longer]]
    <2>1. a \in Int /\ p \in SUBSET Ids
        BY DEF Queue
    <2>2. l \in [Keys -> Lane]
        <3>. HIDE DEF longer
        <3>. QED  BY <1>1, <1>3 DEF Queue, Lane
    <2>3. added = [q EXCEPT !.lanes = l, !.queued = a, !.pendingIds = p]
        OBVIOUS
    <2>. HIDE DEF a, p, l, added
    <2>. QED  BY <2>1, <2>2, <2>3 DEF Queue
<1>. HIDE DEF added
<1>8. /\ q' \in Queue
      /\ q'.accepting = q.accepting
      /\ q'.pendingIds = q.pendingIds \cup {id}
      /\ \A l \in Keys \ {k} : q'.lanes[l] = q.lanes[l]
    BY <1>2, <1>4, <1>6, <1>7, StartNextEffect
<1>. HIDE DEF longer
<1>9. /\ Line(k)' = Append(lines[k], id)
      /\ Running(k)' # NoTask
      /\ q'.active = IF lines[k] = <<>> THEN q.active + 1 ELSE q.active
      /\ q'.queued = IF lines[k] = <<>> THEN q.queued ELSE q.queued + 1
    <2>1. CASE r = NoTask
        <3>1. w = <<>> /\ lines[k] = <<>>
            BY <2>1, LineOf DEF lines
        <3>2. longer = <<id>>
            BY <3>1 DEF longer
        <3>3. /\ q'.active = added.active + 1 /\ q'.queued = added.queued - 1
              /\ q'.lanes[k].running = Head(longer) /\ q'.lanes[k].waiting = Tail(longer)
            <4>1. added.lanes[k].running = NoTask /\ added.lanes[k].waiting = longer
                BY <1>6, <2>1
            <4>. HIDE DEF w, r
            <4>2. /\ q'.active = added.active + 1
                  /\ q'.queued = added.queued - 1
                BY <1>2, <1>3, <1>7, <4>1, StartNextEffect
            <4>3. q'.lanes[k].running = Head(longer)
                BY <1>2, <1>3, <1>7, <4>1, StartNextEffect
            <4>4. q'.lanes[k].waiting = Tail(longer)
                BY <1>2, <1>3, <1>7, <4>1, StartNextEffect
            <4>. QED  BY <4>2, <4>3, <4>4
        <3>4. q'.lanes[k].running = id /\ q'.lanes[k].waiting = <<>>
            BY <3>2, <3>3
        <3>5. /\ Line(k)' = Append(lines[k], id)
              /\ Running(k)' # NoTask
            BY <3>1, <3>4 DEF Running, Line
        <3>6. q'.active = q.active + 1 /\ q'.queued = q.queued
            BY <1>4, <3>3 DEF Queue
        <3>. QED  BY <2>1, <3>1, <3>5, <3>6
    <2>2. CASE r # NoTask
        <3>1. q' = added
            BY <1>2, <1>6, <1>7, <2>2, StartNextEffect
        <3>2. Running(k)' = r /\ q'.lanes[k].waiting = longer
            BY <1>6, <3>1 DEF Running
        <3>3. lines[k] = <<r>> \o w /\ lines[k] # <<>> /\ r \in Ids
            BY <2>2, LineOf DEF lines
        <3>4. Line(k)' = <<r>> \o longer
            BY <2>2, <3>2 DEF Line, Running
        <3>5. <<r>> \o longer = Append(<<r>> \o w, id)
            <4>. HIDE DEF r, w
            <4>1. <<r>> \in Seq(Ids) /\ <<id>> \in Seq(Ids) /\ <<r>> \o w \in Seq(Ids)
                BY <1>1, <3>3
            <4>2. longer = w \o <<id>> /\ Append(<<r>> \o w, id) = (<<r>> \o w) \o <<id>>
                BY <1>1, <4>1, AppendIsConcat DEF longer
            <4>. QED  BY <1>1, <4>1, <4>2, ConcatAssociative
        <3>. QED  BY <1>4, <2>2, <3>1, <3>2, <3>3, <3>4, <3>5
    <2>. QED  BY <2>1, <2>2
<1>10. \A l \in Keys \ {k} :
           /\ Line(l)' = lines[l]
           /\ Running(l)' = NoTask => q'.lanes[l].waiting = <<>>
    BY <1>8 DEF lines, Line, Running, NoGap
<1>11. lines' = [lines EXCEPT ![k] = Append(@, id)]
  BY <1>9, <1>10 DEF lines
<1>12. NoGap'
    BY <1>9, <1>10 DEF NoGap
<1>. QED  BY <1>8, <1>9, <1>11, <1>12

\* Ending a task: its line moves up, and the next task of it runs.
LEMMA FinishEffect ==
    ASSUME q \in Queue, NoGap, NEW k \in Keys, q' = Finish(q, k), Running(k) # NoTask,
           NoTask \notin Ids
    PROVE  /\ q' \in Queue
           /\ NoGap'
           /\ lines' = [lines EXCEPT ![k] = Tail(@)]
           /\ q'.accepting = q.accepting
           /\ q'.pendingIds = q.pendingIds \ {Running(k)}
           /\ q'.active = IF Len(lines[k]) = 1 THEN q.active - 1 ELSE q.active
           /\ q'.queued = IF Len(lines[k]) = 1 THEN q.queued ELSE q.queued - 1
<1>. DEFINE w == q.lanes[k].waiting
            freed == [q EXCEPT !.active           = @ - 1,
                               !.pendingIds       = @ \ {q.lanes[k].running},
                               !.lanes[k].running = NoTask]
<1>1. w \in Seq(Ids) /\ q.lanes[k] \in Lane
    BY LaneTypes
<1>2. q' = StartNext(freed, k)
    BY DEF Finish
<1>3. /\ Tail(lines[k]) = w
      /\ Len(lines[k]) = Len(w) + 1
    BY LineOf DEF lines
<1>4. /\ freed.queued = q.queued
      /\ freed.active = q.active - 1
      /\ freed.pendingIds = q.pendingIds \ {Running(k)}
      /\ freed.accepting = q.accepting
    BY DEF Queue, Running
<1>. DEFINE lane == [q.lanes[k] EXCEPT !.running = NoTask]
            l == [q.lanes EXCEPT ![k] = lane]
<1>5. lane \in Lane /\ lane.running = NoTask /\ lane.waiting = w
    BY <1>1 DEF Lane
<1>6. /\ freed.lanes \in [Keys -> Lane]
      /\ freed.lanes[k].running = NoTask
      /\ freed.lanes[k].waiting = w
      /\ \A j \in Keys \ {k} : freed.lanes[j] = q.lanes[j]
    <2>1. freed.lanes = l
        BY DEF Queue
    <2>. HIDE DEF freed, lane
    <2>. QED  BY <1>5, <2>1 DEF Queue
<1>7. freed \in Queue
    <2>. DEFINE a == q.active - 1
                p == q.pendingIds \ {q.lanes[k].running}
    <2>1. a \in Int /\ p \in SUBSET Ids
        BY DEF Queue
    <2>2. l \in [Keys -> Lane]
        <3>. HIDE DEF lane
        <3>. QED  BY <1>5 DEF Queue
    <2>3. freed = [q EXCEPT !.active = a, !.pendingIds = p, !.lanes = l]
        OBVIOUS
    <2>. HIDE DEF a, p, l, freed
    <2>. QED  BY <2>1, <2>2, <2>3 DEF Queue
<1>. HIDE DEF freed
<1>8. /\ q' \in Queue
      /\ q'.accepting = q.accepting
      /\ q'.pendingIds = q.pendingIds \ {Running(k)}
      /\ \A j \in Keys \ {k} : q'.lanes[j] = q.lanes[j]
    BY <1>2, <1>4, <1>6, <1>7, StartNextEffect
<1>9. /\ Line(k)' = w
      /\ Running(k)' = NoTask => q'.lanes[k].waiting = <<>>
      /\ q'.active = IF Len(lines[k]) = 1 THEN q.active - 1 ELSE q.active
      /\ q'.queued = IF Len(lines[k]) = 1 THEN q.queued ELSE q.queued - 1
    <2>1. CASE w = <<>>
        <3>1. q' = freed
            BY <1>2, <1>6, <1>7, <2>1, StartNextEffect
        <3>2. Len(lines[k]) = 1
            BY <1>3, <2>1
        <3>3. Running(k)' = NoTask /\ q'.lanes[k].waiting = w
            BY <1>6, <3>1 DEF Running
        <3>. QED  BY <1>4, <2>1, <3>1, <3>2, <3>3 DEF Line
    <2>2. CASE w # <<>>
        <3>1. freed.lanes[k].waiting # <<>>
            BY <1>6, <2>2
        <3>2. Len(lines[k]) # 1
            <4>. HIDE DEF w
            <4>. QED  BY <1>1, <1>3, <2>2, EmptySeq
        <3>. HIDE DEF w
        <3>3. /\ q'.active = freed.active + 1
              /\ q'.queued = freed.queued - 1
            BY <1>2, <1>6, <1>7, <3>1, StartNextEffect
        <3>4. q'.lanes[k].running = Head(w)
            BY <1>2, <1>6, <1>7, <3>1, StartNextEffect
        <3>5. q'.lanes[k].waiting = Tail(w)
            BY <1>2, <1>6, <1>7, <3>1, StartNextEffect
        <3>6. Head(w) \in Ids /\ w = <<Head(w)>> \o Tail(w)
            BY <1>1, <2>2
        <3>7. Line(k)' = w /\ Running(k)' # NoTask
            BY <3>4, <3>5, <3>6 DEF Line, Running
        <3>8. q'.active = q.active /\ q'.queued = q.queued - 1
            BY <1>4, <3>3 DEF Queue
        <3>. QED  BY <3>2, <3>7, <3>8
    <2>. QED  BY <2>1, <2>2
<1>10. \A j \in Keys \ {k} :
           /\ Line(j)' = lines[j]
           /\ Running(j)' = NoTask => q'.lanes[j].waiting = <<>>
    BY <1>8 DEF lines, Line, Running, NoGap
<1>11. lines' = [lines EXCEPT ![k] = Tail(@)]
  BY <1>3, <1>9, <1>10 DEF lines
<1>12. NoGap'
    BY <1>9, <1>10 DEF NoGap
<1>. QED  BY <1>8, <1>9, <1>11, <1>12

\* Closing with cancelPending: the lines are cut after their first task.
LEMMA CancelEffect ==
    ASSUME q \in Queue, NoGap, q' = CancelWaiting(StopAccepting(q)), NoTask \notin Ids
    PROVE  /\ NoGap'
           /\ lines' = [k \in Keys |-> IF lines[k] = <<>> THEN <<>> ELSE <<Head(lines[k])>>]
           /\ \A k \in Keys : Running(k)' = Running(k)
           /\ q'.accepting = FALSE
           /\ q'.pendingIds = q.pendingIds \ UNION {Waiting(q.lanes[k]) : k \in Keys}
           /\ q'.active = q.active
           /\ q'.queued = q.queued - Cardinality(Entries(q))
           /\ q.queued = Cardinality(Entries(q)) => q' \in Queue
<1>. DEFINE x == StopAccepting(q)
            cut == [k \in Keys |-> [q.lanes[k] EXCEPT !.waiting = <<>>]]
            p == q.pendingIds \ UNION {Waiting(q.lanes[k]) : k \in Keys}
            n == q.queued - Cardinality(Entries(q))
<1>1. x = [q EXCEPT !.accepting = FALSE]
    BY DEF StopAccepting
<1>2. x.queued = q.queued /\ x.pendingIds = q.pendingIds /\ x.lanes = q.lanes /\ x.active = q.active
      /\ x.accepting = FALSE /\ x \in Queue
    BY <1>1 DEF Queue
<1>3. Entries(x) = Entries(q)
    BY <1>2 DEF Entries
<1>4. q' = [x EXCEPT !.queued = n, !.pendingIds = p, !.lanes = cut]
    BY <1>2, <1>3 DEF CancelWaiting
<1>. HIDE DEF x
<1>5. \A k \in Keys : cut[k] \in Lane /\ cut[k].running = Running(k) /\ cut[k].waiting = <<>>
    <2>. SUFFICES ASSUME NEW k \in Keys
                  PROVE  cut[k] \in Lane /\ cut[k].running = Running(k) /\ cut[k].waiting = <<>>
        OBVIOUS
    <2>1. q.lanes[k] \in Lane /\ <<>> \in Seq(Ids)
        BY LaneTypes
    <2>2. cut[k] = [q.lanes[k] EXCEPT !.waiting = <<>>]
        OBVIOUS
    <2>. HIDE DEF cut
    <2>. QED  BY <2>1, <2>2 DEF Lane, Running
<1>6. cut \in [Keys -> Lane]
    BY <1>5
<1>. HIDE DEF cut, p, n
<1>7. /\ q'.accepting = FALSE /\ q'.active = q.active /\ q'.queued = n
      /\ q'.pendingIds = p /\ q'.lanes = cut
    BY <1>2, <1>4 DEF Queue
<1>8. \A k \in Keys : Running(k)' = Running(k) /\ q'.lanes[k].waiting = <<>>
    BY <1>5, <1>7 DEF Running
<1>9. \A k \in Keys : Line(k)' = IF lines[k] = <<>> THEN <<>> ELSE <<Head(lines[k])>>
    <2>. SUFFICES ASSUME NEW k \in Keys
                  PROVE  Line(k)' = IF lines[k] = <<>> THEN <<>> ELSE <<Head(lines[k])>>
        OBVIOUS
    <2>1. Line(k)' = IF Running(k) = NoTask THEN <<>> ELSE <<Running(k)>> \o <<>>
        BY <1>8 DEF Line
    <2>2. Running(k) # NoTask => Running(k) \in Ids /\ Head(lines[k]) = Running(k)
        BY LineOf DEF lines
    <2>3. lines[k] = <<>> <=> Running(k) = NoTask
        BY LineOf DEF lines
    <2>. HIDE DEF lines
    <2>4. Running(k) # NoTask => <<Running(k)>> \o <<>> = <<Running(k)>>
      BY <2>2, ConcatEmptySeq
    <2>. QED  BY <2>1, <2>2, <2>3, <2>4
<1>10. lines' = [k \in Keys |-> IF lines[k] = <<>> THEN <<>> ELSE <<Head(lines[k])>>]
    BY <1>9 DEF lines
<1>11. q.queued = Cardinality(Entries(q)) => q' \in Queue
    <2>1. q.queued = Cardinality(Entries(q)) => n \in Int
        BY DEF n, Queue
    <2>2. p \in SUBSET Ids
        BY DEF p, Queue
    <2>. QED  BY <1>2, <1>4, <1>6, <2>1, <2>2 DEF Queue
<1>. QED  BY <1>7, <1>8, <1>10, <1>11 DEF NoGap, n, p

-----------------------------------------------------------------------------
(* Counting over lines: their heads are the running tasks, the others the  *)
(* queued entries, and in lines without a repeated id the two together are *)
(* as many as the ids.                                                     *)

InLines(f) == UNION {{f[k][i] : i \in DOMAIN f[k]} : k \in Keys}

Busy(f) == {k \in Keys : f[k] # <<>>}

Behind(f) == UNION {{k} \X (1..(Len(f[k]) - 1)) : k \in Keys}

NoRepeats(f) ==
    \A k, l \in Keys :
        \A i \in 1..Len(f[k]), j \in 1..Len(f[l]) : f[k][i] = f[l][j] => k = l /\ i = j

LEMMA InBehind ==
    ASSUME NEW f, NEW p
    PROVE  p \in Behind(f) <=> \E k \in Keys : \E i \in 1..(Len(f[k]) - 1) : p = <<k, i>>
BY DEF Behind

LEMMA InInLines ==
    ASSUME NEW f \in [Keys -> Seq(Ids)], NEW x
    PROVE  x \in InLines(f) <=> \E k \in Keys : \E i \in 1..Len(f[k]) : f[k][i] = x
BY DEF InLines

\* The tasks of lines without repeats are counted lane by lane.
LEMMA Counting ==
    ASSUME NEW f \in [Keys -> Seq(Ids)], NoRepeats(f),
           IsFiniteSet(Busy(f)), IsFiniteSet(Behind(f))
    PROVE  /\ IsFiniteSet(InLines(f))
           /\ Cardinality(InLines(f)) = Cardinality(Busy(f)) + Cardinality(Behind(f))
<1>. DEFINE Last == {<<k, Len(f[k])>> : k \in Busy(f)}
            at(p) == f[p[1]][p[2]]
            Places == Last \cup Behind(f)
<1>1. \A k \in Keys : f[k] \in Seq(Ids) /\ Len(f[k]) \in Nat /\ (f[k] # <<>> <=> Len(f[k]) > 0)
    BY EmptySeq
<1>2. IsFiniteSet(Last) /\ Cardinality(Last) = Cardinality(Busy(f))
    <2>. DEFINE g == [k \in Busy(f) |-> <<k, Len(f[k])>>]
    <2>1. g \in Bijection(Busy(f), Last)
        BY DEF Bijection, Injection, Surjection, IsInjective
    <2>2. ExistsBijection(Busy(f), Last)
        BY <2>1 DEF ExistsBijection
    <2>. QED  BY <2>2, FS_Bijection
<1>3. Last \cap Behind(f) = {}
    BY <1>1, InBehind
<1>4. IsFiniteSet(Places) /\ Cardinality(Places) = Cardinality(Busy(f)) + Cardinality(Behind(f))
    <2>1. Cardinality(Last \cap Behind(f)) = 0
        BY <1>3, FS_EmptySet
    <2>2. /\ IsFiniteSet(Places)
          /\ Cardinality(Places) =
                Cardinality(Last) + Cardinality(Behind(f)) - Cardinality(Last \cap Behind(f))
        BY <1>2, FS_Union
    <2>3. Cardinality(Busy(f)) \in Nat /\ Cardinality(Behind(f)) \in Nat
        BY FS_CardinalityType
    <2>. QED  BY <1>2, <2>1, <2>2, <2>3
<1>5. \A p : p \in Places <=> \E k \in Keys : \E i \in 1..Len(f[k]) : p = <<k, i>>
    <2>1. \A p : p \in Last <=> \E k \in Keys : Len(f[k]) > 0 /\ p = <<k, Len(f[k])>>
        BY <1>1 DEF Busy
    <2>2. \A k \in Keys : \A i \in 1..Len(f[k]) : i = Len(f[k]) \/ i \in 1..(Len(f[k]) - 1)
        BY <1>1
    <2>3. \A k \in Keys : \A i \in 1..(Len(f[k]) - 1) : i \in 1..Len(f[k])
        BY <1>1
    <2>4. \A k \in Keys : Len(f[k]) > 0 => Len(f[k]) \in 1..Len(f[k])
        BY <1>1
    <2>. HIDE DEF Last
    <2>5. ASSUME NEW p \in Places PROVE \E k \in Keys : \E i \in 1..Len(f[k]) : p = <<k, i>>
        BY <2>1, <2>3, <2>4, InBehind
    <2>6. ASSUME NEW k \in Keys, NEW i \in 1..Len(f[k]) PROVE <<k, i>> \in Places
        BY <1>1, <2>1, <2>2, InBehind
    <2>. QED  BY <2>5, <2>6
<1>. HIDE DEF Places
<1>6. ExistsBijection(Places, InLines(f))
    <2>. DEFINE g == [p \in Places |-> at(p)]
    <2>1. \A p \in Places : g[p] \in InLines(f)
        BY <1>5, InInLines
    <2>2. \A p, r \in Places : g[p] = g[r] => p = r
        BY <1>5 DEF NoRepeats
    <2>3. ASSUME NEW x \in InLines(f) PROVE \E p \in Places : g[p] = x
        <3>1. PICK k \in Keys : \E i \in 1..Len(f[k]) : f[k][i] = x
            BY InInLines
        <3>2. PICK i \in 1..Len(f[k]) : f[k][i] = x
            BY <3>1
        <3>3. <<k, i>> \in Places
            BY <1>5
        <3>. QED  BY <3>2, <3>3
    <2>4. g \in [Places -> InLines(f)]
        BY <2>1
    <2>. HIDE DEF g
    <2>5. g \in Bijection(Places, InLines(f))
        BY <2>2, <2>3, <2>4 DEF Bijection, Injection, Surjection, IsInjective
    <2>. QED  BY <2>5 DEF ExistsBijection
<1>. QED  BY <1>4, <1>6, FS_Bijection

LEMMA OneMore ==
    ASSUME NEW S, NEW x, NEW T, IsFiniteSet(S), x \notin S, T = S \cup {x}
    PROVE  IsFiniteSet(T) /\ Cardinality(T) = Cardinality(S) + 1
BY FS_AddElement

LEMMA OneLess ==
    ASSUME NEW S, NEW x, NEW T, IsFiniteSet(S), x \in S, T = S \ {x}
    PROVE  IsFiniteSet(T) /\ Cardinality(T) = Cardinality(S) - 1
BY FS_RemoveElement

\* A task joins the end of a line, or the first of a line leaves it.
Joined(f, k, id) == [f EXCEPT ![k] = Append(f[k], id)]

Moved(f, k) == [f EXCEPT ![k] = Tail(f[k])]

LEMMA JoinsLine ==
    ASSUME NEW f \in [Keys -> Seq(Ids)], NEW k \in Keys, NEW id \in Ids,
           NEW g, g = Joined(f, k, id), NoRepeats(f), id \notin InLines(f),
           IsFiniteSet(Busy(f)), IsFiniteSet(Behind(f))
    PROVE  /\ g \in [Keys -> Seq(Ids)]
           /\ NoRepeats(g)
           /\ InLines(g) = InLines(f) \cup {id}
           /\ IsFiniteSet(Busy(g)) /\ IsFiniteSet(Behind(g))
           /\ f[k] = <<>> =>
                 /\ Cardinality(Busy(g)) = Cardinality(Busy(f)) + 1
                 /\ Cardinality(Behind(g)) = Cardinality(Behind(f))
           /\ f[k] # <<>> =>
                 /\ Cardinality(Busy(g)) = Cardinality(Busy(f))
                 /\ Cardinality(Behind(g)) = Cardinality(Behind(f)) + 1
<1>. DEFINE n == Len(f[k])
<1>1. \A l \in Keys : f[l] \in Seq(Ids) /\ Len(f[l]) \in Nat /\ (f[l] # <<>> <=> Len(f[l]) > 0)
    BY EmptySeq
<1>2. /\ g[k] \in Seq(Ids)
      /\ Len(g[k]) = n + 1
      /\ g[k][n + 1] = id
      /\ \A i \in 1..n : g[k][i] = f[k][i]
      /\ g[k] # <<>>
  BY <1>1, AppendProperties DEF Joined
<1>3. \A l \in Keys \ {k} : g[l] = f[l]
    BY DEF Joined
<1>4. g \in [Keys -> Seq(Ids)]
  BY <1>1, <1>2, <1>3 DEF Joined
<1>5. n \in Nat
    BY <1>1
<1>. HIDE DEF n
<1>6. \A l \in Keys : \A i \in 1..Len(g[l]) :
          (l = k /\ i = n + 1) \/ (i \in 1..Len(f[l]) /\ g[l][i] = f[l][i])
    BY <1>2, <1>3, <1>5 DEF n
<1>7. \A l \in Keys : \A i \in 1..Len(f[l]) :
          i \in 1..Len(g[l]) /\ g[l][i] = f[l][i] /\ f[l][i] # id
    BY <1>2, <1>3, <1>5, InInLines DEF n
<1>8. n + 1 \in 1..Len(g[k])
    BY <1>2, <1>5
<1>9. NoRepeats(g)
    <2>. SUFFICES ASSUME NEW l \in Keys, NEW j \in Keys,
                         NEW i \in 1..Len(g[l]), NEW h \in 1..Len(g[j]), g[l][i] = g[j][h]
                  PROVE  l = j /\ i = h
        BY DEF NoRepeats
    <2>1. \/ l = k /\ i = n + 1 /\ g[l][i] = id
          \/ i \in 1..Len(f[l]) /\ g[l][i] = f[l][i] /\ f[l][i] # id
        BY <1>2, <1>6, <1>7
    <2>2. \/ j = k /\ h = n + 1 /\ g[j][h] = id
          \/ h \in 1..Len(f[j]) /\ g[j][h] = f[j][h] /\ f[j][h] # id
        BY <1>2, <1>6, <1>7
    <2>. QED  BY <2>1, <2>2 DEF NoRepeats
<1>10. InLines(g) = InLines(f) \cup {id}
    <2>1. ASSUME NEW x \in InLines(g) PROVE x \in InLines(f) \cup {id}
        <3>1. PICK l \in Keys : \E i \in 1..Len(g[l]) : g[l][i] = x
            BY <1>4, InInLines
        <3>. QED  BY <1>2, <1>6, <3>1, InInLines
    <2>2. ASSUME NEW x \in InLines(f) PROVE x \in InLines(g)
        <3>1. PICK l \in Keys : \E i \in 1..Len(f[l]) : f[l][i] = x
            BY InInLines
        <3>2. \E i \in 1..Len(g[l]) : g[l][i] = x
            BY <1>7, <3>1
        <3>. QED  BY <1>4, <3>2, InInLines
    <2>3. id \in InLines(g)
        BY <1>2, <1>4, <1>8, InInLines
    <2>. QED  BY <2>1, <2>2, <2>3
<1>11. CASE f[k] = <<>>
    <2>1. n = 0
        BY <1>1, <1>5, <1>11 DEF n
    <2>2. Busy(g) = Busy(f) \cup {k} /\ k \notin Busy(f)
        BY <1>2, <1>3, <1>11 DEF Busy
    <2>3. Behind(g) = Behind(f)
        <3>1. 1..(Len(g[k]) - 1) = {} /\ 1..(Len(f[k]) - 1) = {}
          BY <1>2, <2>1 DEF n
        <3>2. \A l \in Keys : 1..(Len(g[l]) - 1) = 1..(Len(f[l]) - 1)
            BY <1>3, <3>1
        <3>. QED  BY <3>2 DEF Behind
    <2>4. IsFiniteSet(Busy(g)) /\ Cardinality(Busy(g)) = Cardinality(Busy(f)) + 1
        BY <2>2, OneMore
    <2>. QED  BY <1>4, <1>9, <1>10, <1>11, <2>3, <2>4
<1>12. CASE f[k] # <<>>
    <2>1. n > 0
        BY <1>1, <1>12 DEF n
    <2>2. Busy(g) = Busy(f)
        BY <1>2, <1>3, <1>12 DEF Busy
    <2>3. Behind(g) = Behind(f) \cup {<<k, n>>}
        <3>1. \A l \in Keys \ {k} : 1..(Len(g[l]) - 1) = 1..(Len(f[l]) - 1)
            BY <1>3
        <3>2. 1..(Len(g[k]) - 1) = (1..(n - 1)) \cup {n}
            BY <1>2, <1>5, <2>1
        <3>3. ASSUME NEW p \in Behind(g) PROVE p \in Behind(f) \cup {<<k, n>>}
            <4>1. PICK l \in Keys : \E i \in 1..(Len(g[l]) - 1) : p = <<l, i>>
                BY InBehind
            <4>2. PICK i \in 1..(Len(g[l]) - 1) : p = <<l, i>>
                BY <4>1
            <4>3. i \in 1..(Len(f[l]) - 1) \/ (l = k /\ i = n)
                BY <3>1, <3>2, <4>2 DEF n
            <4>. QED  BY <4>2, <4>3, InBehind
        <3>4. ASSUME NEW p \in Behind(f) \cup {<<k, n>>} PROVE p \in Behind(g)
            <4>1. CASE p = <<k, n>>
              BY <3>2, <4>1, InBehind
            <4>2. CASE p \in Behind(f)
                <5>1. PICK l \in Keys : \E i \in 1..(Len(f[l]) - 1) : p = <<l, i>>
                    BY <4>2, InBehind
                <5>2. 1..(Len(f[l]) - 1) \subseteq 1..(Len(g[l]) - 1)
                    BY <3>1, <3>2 DEF n
                <5>. QED  BY <5>1, <5>2, InBehind
            <4>. QED  BY <4>1, <4>2
        <3>. QED  BY <3>3, <3>4
    <2>4. <<k, n>> \notin Behind(f)
      BY <1>5, InBehind DEF n
    <2>5. IsFiniteSet(Behind(g)) /\ Cardinality(Behind(g)) = Cardinality(Behind(f)) + 1
        BY <2>3, <2>4, OneMore
    <2>. QED  BY <1>4, <1>9, <1>10, <1>12, <2>2, <2>5
<1>. QED  BY <1>11, <1>12

LEMMA MovesUp ==
    ASSUME NEW f \in [Keys -> Seq(Ids)], NEW k \in Keys, NEW g,
           f[k] # <<>>, g = Moved(f, k), NoRepeats(f),
           IsFiniteSet(Busy(f)), IsFiniteSet(Behind(f))
    PROVE  /\ g \in [Keys -> Seq(Ids)]
           /\ NoRepeats(g)
           /\ InLines(g) = InLines(f) \ {Head(f[k])}
           /\ IsFiniteSet(Busy(g)) /\ IsFiniteSet(Behind(g))
           /\ Len(f[k]) = 1 =>
                 /\ Cardinality(Busy(g)) = Cardinality(Busy(f)) - 1
                 /\ Cardinality(Behind(g)) = Cardinality(Behind(f))
           /\ Len(f[k]) # 1 =>
                 /\ Cardinality(Busy(g)) = Cardinality(Busy(f))
                 /\ Cardinality(Behind(g)) = Cardinality(Behind(f)) - 1
<1>. DEFINE n == Len(f[k])
<1>1. \A l \in Keys : f[l] \in Seq(Ids) /\ Len(f[l]) \in Nat /\ (f[l] # <<>> <=> Len(f[l]) > 0)
    BY EmptySeq
<1>2. /\ g[k] \in Seq(Ids)
      /\ Len(g[k]) = n - 1
      /\ \A i \in 1..(n - 1) : g[k][i] = f[k][i + 1]
  BY <1>1, HeadTailProperties DEF Moved
<1>3. \A l \in Keys \ {k} : g[l] = f[l]
    BY DEF Moved
<1>4. g \in [Keys -> Seq(Ids)]
  BY <1>1, <1>2, <1>3 DEF Moved
<1>5. n \in Nat /\ n > 0 /\ Head(f[k]) = f[k][1]
    BY <1>1
<1>. HIDE DEF n
<1>. DEFINE at(l, i) == IF l = k THEN i + 1 ELSE i
<1>6. \A l \in Keys : \A i \in 1..Len(g[l]) : at(l, i) \in 1..Len(f[l]) /\ g[l][i] = f[l][at(l, i)]
    BY <1>1, <1>2, <1>3, <1>5 DEF n
<1>7. NoRepeats(g)
    <2>. SUFFICES ASSUME NEW l \in Keys, NEW j \in Keys,
                         NEW i \in 1..Len(g[l]), NEW h \in 1..Len(g[j]), g[l][i] = g[j][h]
                  PROVE  l = j /\ i = h
        BY DEF NoRepeats
    <2>1. /\ at(l, i) \in 1..Len(f[l]) /\ at(j, h) \in 1..Len(f[j])
          /\ f[l][at(l, i)] = f[j][at(j, h)]
        BY <1>6
    <2>2. i \in Int /\ h \in Int
        BY <1>1, <1>2, <1>3
    <2>3. l = j /\ at(l, i) = at(j, h)
        <3>. HIDE DEF at
        <3>. QED  BY <2>1 DEF NoRepeats
    <2>. QED  BY <2>2, <2>3
<1>8. InLines(g) = InLines(f) \ {Head(f[k])}
    <2>1. ASSUME NEW x \in InLines(g) PROVE x \in InLines(f) \ {Head(f[k])}
        <3>1. PICK l \in Keys : \E i \in 1..Len(g[l]) : g[l][i] = x
            BY <1>4, InInLines
        <3>2. PICK i \in 1..Len(g[l]) : g[l][i] = x
            BY <3>1
        <3>3. at(l, i) \in 1..Len(f[l]) /\ f[l][at(l, i)] = x
            BY <1>6, <3>2
        <3>4. x \in InLines(f)
            BY <3>3, InInLines
        <3>5. x # f[k][1]
            <4>1. ~(l = k /\ at(l, i) = 1)
                OBVIOUS
            <4>2. 1 \in 1..Len(f[k])
                BY <1>5 DEF n
            <4>. HIDE DEF at
            <4>. QED  BY <3>3, <4>1, <4>2 DEF NoRepeats
        <3>. QED  BY <1>5, <3>4, <3>5
    <2>2. ASSUME NEW x \in InLines(f), x # f[k][1] PROVE x \in InLines(g)
        <3>1. PICK l \in Keys : \E i \in 1..Len(f[l]) : f[l][i] = x
            BY InInLines
        <3>2. PICK i \in 1..Len(f[l]) : f[l][i] = x
            BY <3>1
        <3>3. CASE l = k
            <4>1. i - 1 \in 1..Len(g[k]) /\ g[k][i - 1] = x
                BY <1>2, <1>5, <2>2, <3>2, <3>3 DEF n
            <4>. QED  BY <1>4, <4>1, InInLines
        <3>4. CASE l # k
            BY <1>3, <1>4, <3>2, <3>4, InInLines
        <3>. QED  BY <3>3, <3>4
    <2>. QED  BY <1>5, <2>1, <2>2
<1>9. CASE n = 1
    <2>1. Busy(g) = Busy(f) \ {k} /\ k \in Busy(f)
      BY <1>2, <1>9, EmptySeq, <1>3 DEF Busy
    <2>2. Behind(g) = Behind(f)
        <3>1. 1..(Len(g[k]) - 1) = {} /\ 1..(Len(f[k]) - 1) = {}
          BY <1>2, <1>9 DEF n
        <3>2. \A l \in Keys : 1..(Len(g[l]) - 1) = 1..(Len(f[l]) - 1)
            BY <1>3, <3>1
        <3>. QED  BY <3>2 DEF Behind
    <2>3. IsFiniteSet(Busy(g)) /\ Cardinality(Busy(g)) = Cardinality(Busy(f)) - 1
        BY <2>1, OneLess
    <2>. QED  BY <1>4, <1>7, <1>8, <1>9, <2>2, <2>3 DEF n
<1>10. CASE n # 1
    <2>1. Busy(g) = Busy(f)
        <3>1. g[k] # <<>>
            <4>1. Len(g[k]) > 0
                BY <1>2, <1>5, <1>10
            <4>2. Len(<<>>) = 0
                OBVIOUS
            <4>3. ~(0 > 0)
                OBVIOUS
            <4>. QED  BY <4>1, <4>2, <4>3, Zenon
        <3>. QED  BY <1>3, <3>1 DEF Busy
    <2>2. Behind(g) = Behind(f) \ {<<k, n - 1>>} /\ <<k, n - 1>> \in Behind(f)
        <3>1. \A l \in Keys \ {k} : 1..(Len(g[l]) - 1) = 1..(Len(f[l]) - 1)
            BY <1>3
        <3>2. 1..(Len(g[k]) - 1) = (1..(n - 1)) \ {n - 1} /\ n - 1 \in 1..(n - 1)
            BY <1>2, <1>5, <1>10
        <3>3. ASSUME NEW p \in Behind(g) PROVE p \in Behind(f) \ {<<k, n - 1>>}
            <4>1. PICK l \in Keys : \E i \in 1..(Len(g[l]) - 1) : p = <<l, i>>
                BY InBehind
            <4>2. PICK i \in 1..(Len(g[l]) - 1) : p = <<l, i>>
                BY <4>1
            <4>3. i \in 1..(Len(f[l]) - 1) /\ ~(l = k /\ i = n - 1)
                BY <3>1, <3>2, <4>2 DEF n
            <4>. QED  BY <4>2, <4>3, InBehind
        <3>4. ASSUME NEW p \in Behind(f), p # <<k, n - 1>> PROVE p \in Behind(g)
            <4>1. PICK l \in Keys : \E i \in 1..(Len(f[l]) - 1) : p = <<l, i>>
                BY InBehind
            <4>2. PICK i \in 1..(Len(f[l]) - 1) : p = <<l, i>>
                BY <4>1
            <4>3. i \in 1..(Len(g[l]) - 1)
                BY <3>1, <3>2, <3>4, <4>2 DEF n
            <4>. QED  BY <4>2, <4>3, InBehind
        <3>5. <<k, n - 1>> \in Behind(f)
            BY <3>2, InBehind DEF n
        <3>. QED  BY <3>3, <3>4, <3>5
    <2>3. IsFiniteSet(Behind(g)) /\ Cardinality(Behind(g)) = Cardinality(Behind(f)) - 1
        BY <2>2, OneLess
    <2>. QED  BY <1>4, <1>7, <1>8, <1>10, <2>1, <2>3 DEF n
<1>. QED  BY <1>9, <1>10

\* Lines cut after their first tasks.
Cut(f) == [k \in Keys |-> IF f[k] = <<>> THEN <<>> ELSE <<Head(f[k])>>]

LEMMA CutLines ==
    ASSUME NEW f \in [Keys -> Seq(Ids)], NEW g, g = Cut(f), NoRepeats(f)
    PROVE  /\ g \in [Keys -> Seq(Ids)]
           /\ NoRepeats(g)
           /\ Busy(g) = Busy(f)
           /\ Behind(g) = {}
           /\ \A x : x \in InLines(g) <=>
                    x \in InLines(f) /\ \A k \in Keys : \A i \in 2..Len(f[k]) : f[k][i] # x
           /\ \A k \in Keys : f[k] # <<>> => g[k] # <<>> /\ Head(g[k]) = Head(f[k])
<1>1. \A k \in Keys : f[k] \in Seq(Ids) /\ Len(f[k]) \in Nat /\ (f[k] # <<>> <=> Len(f[k]) > 0)
    BY EmptySeq
<1>2. \A k \in Keys : f[k] # <<>> =>
          /\ Head(f[k]) = f[k][1] /\ f[k][1] \in Ids
          /\ g[k] = <<f[k][1]>> /\ g[k] \in Seq(Ids) /\ g[k] # <<>>
          /\ Len(g[k]) = 1 /\ g[k][1] = f[k][1] /\ Head(g[k]) = f[k][1]
    BY <1>1 DEF Cut
<1>3. \A k \in Keys : f[k] = <<>> => g[k] = <<>> /\ g[k] \in Seq(Ids) /\ Len(g[k]) = 0
    BY DEF Cut
<1>4. g \in [Keys -> Seq(Ids)]
  BY <1>2, <1>3 DEF Cut
<1>5. \A k \in Keys : \A i \in 1..Len(g[k]) : i = 1 /\ 1 \in 1..Len(f[k]) /\ g[k][i] = f[k][1]
    <2>. SUFFICES ASSUME NEW k \in Keys, NEW i \in 1..Len(g[k])
                  PROVE  i = 1 /\ 1 \in 1..Len(f[k]) /\ g[k][i] = f[k][1]
        OBVIOUS
    <2>1. f[k] # <<>>
        BY <1>3
    <2>2. Len(g[k]) = 1 /\ g[k][1] = f[k][1] /\ Len(f[k]) \in Nat /\ Len(f[k]) > 0
        BY <1>1, <1>2, <2>1
    <2>. QED  BY <2>2
<1>6. NoRepeats(g)
    <2>. SUFFICES ASSUME NEW l \in Keys, NEW j \in Keys,
                         NEW i \in 1..Len(g[l]), NEW h \in 1..Len(g[j]), g[l][i] = g[j][h]
                  PROVE  l = j /\ i = h
        BY DEF NoRepeats
    <2>1. i = 1 /\ h = 1 /\ 1 \in 1..Len(f[l]) /\ 1 \in 1..Len(f[j]) /\ f[l][1] = f[j][1]
        BY <1>5
    <2>. QED  BY <2>1 DEF NoRepeats
<1>7. Busy(g) = Busy(f)
    BY <1>2, <1>3 DEF Busy
<1>8. Behind(g) = {}
    <2>1. ASSUME NEW k \in Keys PROVE 1..(Len(g[k]) - 1) = {}
        <3>1. Len(g[k]) = 0 \/ Len(g[k]) = 1
            BY <1>2, <1>3
        <3>2. 1..(0 - 1) = {} /\ 1..(1 - 1) = {}
            OBVIOUS
        <3>. QED  BY <3>1, <3>2
    <2>. QED  BY <2>1, InBehind
<1>9. ASSUME NEW x \in InLines(g)
      PROVE  x \in InLines(f) /\ \A k \in Keys : \A i \in 2..Len(f[k]) : f[k][i] # x
  BY <1>4, InInLines, <1>5, <1>1 DEF NoRepeats
<1>10. ASSUME NEW x \in InLines(f), \A k \in Keys : \A i \in 2..Len(f[k]) : f[k][i] # x
       PROVE  x \in InLines(g)
    <2>1. PICK l \in Keys : \E i \in 1..Len(f[l]) : f[l][i] = x
        BY InInLines
    <2>2. PICK i \in 1..Len(f[l]) : f[l][i] = x
        BY <2>1
    <2>3. i = 1
        BY <1>1, <1>10, <2>2
    <2>4. f[l] # <<>>
        BY <1>1, <2>2
    <2>5. 1 \in 1..Len(g[l]) /\ g[l][1] = x
        BY <1>2, <2>2, <2>3, <2>4
    <2>. QED  BY <1>4, <2>5, InInLines
<1>. QED  BY <1>2, <1>4, <1>6, <1>7, <1>8, <1>9, <1>10

-----------------------------------------------------------------------------
(* The invariant of the queue.  What is inductive is told of the lines: no *)
(* id stands in them twice, which makes the counters, the set of ids and   *)
(* the lanes agree whatever happens to one of them.                        *)

BeganRuns == \A id \in began : \E k \in Keys : lines[k] # <<>> /\ Head(lines[k]) = id

QueueTypes ==
    /\ q \in Queue
    /\ began \in SUBSET Ids
    /\ closing \in {"open", "waiting", "returned"}
    /\ timedOut \in BOOLEAN

Counted ==
    /\ IsFiniteSet(Busy(lines)) /\ IsFiniteSet(Behind(lines))
    /\ q.active = Cardinality(Busy(lines))
    /\ q.queued = Cardinality(Behind(lines))
    /\ q.pendingIds = InLines(lines)

QueueIInv ==
    /\ QueueTypes
    /\ NoGap
    /\ NoRepeats(lines)
    /\ Counted
    /\ BeganRuns
    /\ q.accepting <=> closing = "open"
    /\ CleanCloseIsQuiet
    /\ WithinCapacity

LEMMA LinesType == q \in Queue /\ NoGap => lines \in [Keys -> Seq(Ids)]
BY LineOf DEF lines

\* The lanes hold what stands in the lines.
LEMMA LanesHold ==
    ASSUME q \in Queue, NoGap
    PROVE  /\ {k \in Keys : Running(k) # NoTask} = Busy(lines)
           /\ Entries(q) = Behind(lines)
           /\ \A k \in Keys : Waiting(q.lanes[k]) = {lines[k][i] : i \in 2..Len(lines[k])}
           /\ UNION {HeldIds(k) : k \in Keys} = InLines(lines)
<1>1. \A k \in Keys : lines[k] = Line(k)
    BY DEF lines
<1>2. {k \in Keys : Running(k) # NoTask} = Busy(lines)
    BY <1>1, LineOf DEF Busy
<1>3. ASSUME NEW k \in Keys
      PROVE  /\ DOMAIN q.lanes[k].waiting = 1..(Len(lines[k]) - 1)
             /\ Waiting(q.lanes[k]) = {lines[k][i] : i \in 2..Len(lines[k])}
             /\ HeldIds(k) = {lines[k][i] : i \in DOMAIN lines[k]}
    <2>. DEFINE w == q.lanes[k].waiting
                r == Running(k)
    <2>1. w \in Seq(Ids) /\ r \in Ids \cup {NoTask}
        BY LaneTypes
    <2>2. CASE r = NoTask
        <3>1. w = <<>> /\ lines[k] = <<>>
            BY <1>1, <2>2, LineOf
        <3>2. Len(lines[k]) = 0 /\ DOMAIN w = {} /\ DOMAIN lines[k] = {}
            BY <3>1
        <3>3. 1..(Len(lines[k]) - 1) = {} /\ 2..Len(lines[k]) = {}
            BY <3>2
        <3>. QED  BY <2>2, <3>2, <3>3 DEF Waiting, HeldIds
    <2>3. CASE r # NoTask
        <3>1. lines[k] = <<r>> \o w /\ r \in Ids
            BY <1>1, <2>3, LineOf
        <3>. HIDE DEF w, r, lines
        <3>2. /\ Len(w) \in Nat /\ DOMAIN w = 1..Len(w)
              /\ Len(lines[k]) = Len(w) + 1
              /\ lines[k][1] = r
              /\ \A i \in 1..Len(w) : lines[k][i + 1] = w[i]
              /\ DOMAIN lines[k] = 1..(Len(w) + 1)
            BY <2>1, <3>1
        <3>3. {w[i] : i \in 1..Len(w)} = {lines[k][i] : i \in 2..(Len(w) + 1)}
            <4>1. \A i \in 1..Len(w) : i + 1 \in 2..(Len(w) + 1)
                BY <3>2
            <4>2. \A i \in 2..(Len(w) + 1) : i - 1 \in 1..Len(w) /\ lines[k][i] = w[i - 1]
                BY <3>2
            <4>3. ASSUME NEW i \in 1..Len(w) PROVE w[i] \in {lines[k][j] : j \in 2..(Len(w) + 1)}
              BY <3>2, <4>1
            <4>. QED  BY <4>2, <4>3
        <3>4. {lines[k][i] : i \in 1..(Len(w) + 1)} = {r} \cup {lines[k][i] : i \in 2..(Len(w) + 1)}
          BY <3>2
        <3>5. Waiting(q.lanes[k]) = {w[i] : i \in DOMAIN w}
            BY DEF Waiting, w
        <3>6. HeldIds(k) = Waiting(q.lanes[k]) \cup {r}
            BY <2>3 DEF HeldIds, r
        <3>7. Len(lines[k]) - 1 = Len(w)
            BY <3>2
        <3>8. DOMAIN w = 1..(Len(lines[k]) - 1) /\ DOMAIN lines[k] = 1..Len(lines[k])
            BY <3>2, <3>7
        <3>9. Waiting(q.lanes[k]) = {lines[k][i] : i \in 2..Len(lines[k])}
            BY <3>2, <3>3, <3>5
        <3>10. HeldIds(k) = {lines[k][i] : i \in DOMAIN lines[k]}
            BY <3>2, <3>4, <3>6, <3>9
        <3>. QED  BY <3>8, <3>9, <3>10 DEF w
    <2>. QED  BY <2>2, <2>3
<1>4. Entries(q) = Behind(lines)
    BY <1>3 DEF Entries, Behind
<1>. QED  BY <1>2, <1>3, <1>4 DEF InLines

LEMMA QueueHolds == QueueIInv => QueueInv
<1>. SUFFICES ASSUME QueueIInv PROVE QueueInv
    OBVIOUS
<1>1. q \in Queue /\ NoGap /\ lines \in [Keys -> Seq(Ids)]
    BY LinesType DEF QueueIInv, QueueTypes
<1>2. q.active \in Nat /\ q.queued \in Nat
    BY FS_CardinalityType DEF QueueIInv, Counted
<1>3. TypeOK
    BY <1>2 DEF QueueIInv, QueueTypes, TypeOK
<1>4. Pending(q) = Cardinality(q.pendingIds)
    BY <1>1, Counting DEF QueueIInv, Counted, Pending
<1>5. Bookkeeping
    BY <1>1, <1>4, LanesHold DEF QueueIInv, Counted, Bookkeeping, NoGap
<1>. QED  BY <1>3, <1>5 DEF QueueIInv, QueueInv

LEMMA QueueInit == Init => QueueIInv
<1>. SUFFICES ASSUME Init PROVE QueueIInv
    OBVIOUS
<1>1. q = EmptyQueue /\ began = {} /\ closing = "open" /\ timedOut = FALSE
    BY DEF Init
<1>2. EmptyLane \in Lane /\ EmptyLane.running = NoTask /\ EmptyLane.waiting = <<>>
    BY DEF EmptyLane, Lane
<1>3. /\ q.accepting = TRUE /\ q.active = 0 /\ q.queued = 0 /\ q.pendingIds = {}
      /\ \A k \in Keys : q.lanes[k] = EmptyLane
    BY <1>1 DEF EmptyQueue
<1>4. q \in Queue
    BY <1>1, <1>2 DEF EmptyQueue, Queue
<1>5. \A k \in Keys : Running(k) = NoTask /\ Line(k) = <<>>
    BY <1>2, <1>3 DEF Running, Line
<1>6. \A k \in Keys : lines[k] = <<>> /\ Len(lines[k]) = 0
    BY <1>5 DEF lines
<1>7. Busy(lines) = {} /\ NoRepeats(lines)
    BY <1>6 DEF Busy, NoRepeats
<1>8. Behind(lines) = {}
  BY <1>6, InBehind
<1>9. InLines(lines) = {}
    BY <1>6 DEF InLines
<1>10. Counted
    BY <1>3, <1>7, <1>8, <1>9, FS_EmptySet DEF Counted
<1>11. NoGap
    BY <1>2, <1>3 DEF NoGap
<1>12. WithinCapacity
    BY <1>3, QueueAssumption DEF WithinCapacity, Pending
<1>. QED  BY <1>1, <1>3, <1>4, <1>7, <1>10, <1>11, <1>12
    DEF QueueIInv, QueueTypes, BeganRuns, CleanCloseIsQuiet

\* What each step does to the lines.
LEMMA EnqueueMoves ==
    ASSUME QueueIInv, NEW k \in Keys, NEW id \in Ids, EnqueueTask(k, id)
    PROVE  QueueIInv' /\ lines' = [lines EXCEPT ![k] = Append(@, id)]
<1>1. q \in Queue /\ NoGap /\ NoRepeats(lines) /\ lines \in [Keys -> Seq(Ids)]
    BY LinesType DEF QueueIInv, QueueTypes
<1>2. q' = Enqueue(q, k, id) /\ UNCHANGED <<began, closing, timedOut>>
    BY DEF EnqueueTask
<1>3. q.accepting /\ Pending(q) < Capacity /\ id \notin q.pendingIds
    BY DEF EnqueueTask, CanEnqueue
<1>4. /\ q' \in Queue
      /\ NoGap'
      /\ lines' = [lines EXCEPT ![k] = Append(@, id)]
      /\ q'.accepting = q.accepting
      /\ q'.pendingIds = q.pendingIds \cup {id}
      /\ q'.active = IF lines[k] = <<>> THEN q.active + 1 ELSE q.active
      /\ q'.queued = IF lines[k] = <<>> THEN q.queued ELSE q.queued + 1
    BY <1>1, <1>2, EnqueueEffect, QueueAssumption
<1>5. id \notin InLines(lines)
    BY <1>3 DEF QueueIInv, Counted
<1>6. PICK g : g = lines'
    OBVIOUS
<1>7. PICK f : f = lines
    OBVIOUS
<1>19. /\ f \in [Keys -> Seq(Ids)] /\ NoRepeats(f) /\ id \notin InLines(f)
       /\ IsFiniteSet(Busy(f)) /\ IsFiniteSet(Behind(f))
    BY <1>1, <1>5, <1>7 DEF QueueIInv, Counted
<1>8. /\ f \in [Keys -> Seq(Ids)]
      /\ q.active = Cardinality(Busy(f)) /\ q.queued = Cardinality(Behind(f))
      /\ q.pendingIds = InLines(f)
      /\ \A i \in began : \E l \in Keys : f[l] # <<>> /\ Head(f[l]) = i
    BY <1>1, <1>5, <1>7 DEF QueueIInv, Counted, BeganRuns
<1>9. /\ g = Joined(f, k, id)
      /\ g[k] = Append(f[k], id)
      /\ \A l \in Keys \ {k} : g[l] = f[l]
    BY <1>4, <1>6, <1>7, <1>19 DEF Joined
<1>10. NoRepeats(g)
    BY <1>9, <1>19, JoinsLine
<1>20. InLines(g) = InLines(f) \cup {id}
    BY <1>9, <1>19, JoinsLine
<1>21. IsFiniteSet(Busy(g)) /\ IsFiniteSet(Behind(g))
    BY <1>9, <1>19, JoinsLine
<1>11. /\ q'.active = Cardinality(Busy(g))
       /\ q'.queued = Cardinality(Behind(g))
    <2>1. CASE f[k] = <<>>
      BY <1>9, <1>19, <2>1, JoinsLine, <1>4, <1>7, <1>8
    <2>2. CASE f[k] # <<>>
      BY <1>9, <1>19, <2>2, JoinsLine, <1>4, <1>7, <1>8
    <2>. QED  BY <2>1, <2>2
<1>12. Counted'
    BY <1>4, <1>6, <1>8, <1>11, <1>20, <1>21 DEF Counted
<1>13. BeganRuns'
    <2>1. \A l \in Keys : f[l] # <<>> => g[l] # <<>> /\ Head(g[l]) = Head(f[l])
        <3>. SUFFICES ASSUME NEW l \in Keys, f[l] # <<>>
                      PROVE  g[l] # <<>> /\ Head(g[l]) = Head(f[l])
            OBVIOUS
        <3>1. CASE l # k
            BY <1>9, <3>1
        <3>2. CASE l = k
          BY <1>8, <1>9, <3>2, HeadTailAppend, AppendProperties
        <3>. QED  BY <3>1, <3>2
    <2>. QED  BY <1>2, <1>6, <1>8, <2>1 DEF BeganRuns
<1>14. Pending(q)' <= Capacity
  BY <1>1, QueueAssumption, <1>4, <1>3 DEF Queue, Pending
<1>15. NoRepeats(lines)'
    BY <1>6, <1>10
<1>16. QueueTypes'
    BY <1>2, <1>4 DEF QueueIInv, QueueTypes
<1>17. CleanCloseIsQuiet'
    BY <1>2, <1>3 DEF QueueIInv, CleanCloseIsQuiet
<1>18. q'.accepting <=> closing' = "open"
    BY <1>2, <1>4 DEF QueueIInv
<1>. QED  BY <1>4, <1>12, <1>13, <1>14, <1>15, <1>16, <1>17, <1>18 DEF QueueIInv, WithinCapacity

\* Nothing runs in lines without a first task.
LEMMA IdleIsQuiet ==
    ASSUME NEW f, NEW b, IsFiniteSet(Busy(f)), Cardinality(Busy(f)) = 0,
           \A id \in b : \E k \in Keys : f[k] # <<>> /\ Head(f[k]) = id
    PROVE  b = {}
BY FS_EmptySet DEF Busy

LEMMA EndMoves ==
    ASSUME QueueIInv, NEW k \in Keys, EndTask(k)
    PROVE  /\ QueueIInv'
           /\ lines' = [lines EXCEPT ![k] = Tail(@)]
           /\ lines[k] # <<>> /\ Head(lines[k]) = Running(k)
<1>1. q \in Queue /\ NoGap /\ NoRepeats(lines) /\ lines \in [Keys -> Seq(Ids)]
    BY LinesType DEF QueueIInv, QueueTypes
<1>2. /\ q' = Finish(q, k) /\ Running(k) # NoTask /\ Running(k) \in began
      /\ began' = began \ {Running(k)} /\ timedOut' = timedOut
      /\ closing' = IF closing = "waiting" /\ IsIdle(q') THEN "returned" ELSE closing
    BY DEF EndTask
<1>3. /\ q' \in Queue
      /\ NoGap'
      /\ lines' = [lines EXCEPT ![k] = Tail(@)]
      /\ q'.accepting = q.accepting
      /\ q'.pendingIds = q.pendingIds \ {Running(k)}
      /\ q'.active = IF Len(lines[k]) = 1 THEN q.active - 1 ELSE q.active
      /\ q'.queued = IF Len(lines[k]) = 1 THEN q.queued ELSE q.queued - 1
    BY <1>1, <1>2, FinishEffect, QueueAssumption
<1>4. lines[k] # <<>> /\ Head(lines[k]) = Running(k)
    BY <1>1, <1>2, LineOf DEF lines
<1>5. PICK g : g = lines'
    OBVIOUS
<1>6. PICK f : f = lines
    OBVIOUS
<1>7. /\ f \in [Keys -> Seq(Ids)] /\ NoRepeats(f)
      /\ IsFiniteSet(Busy(f)) /\ IsFiniteSet(Behind(f))
      /\ f[k] # <<>> /\ Head(f[k]) = Running(k)
    BY <1>1, <1>4, <1>6 DEF QueueIInv, Counted
<1>8. /\ q.active = Cardinality(Busy(f)) /\ q.queued = Cardinality(Behind(f))
      /\ q.pendingIds = InLines(f)
      /\ \A i \in began : \E l \in Keys : f[l] # <<>> /\ Head(f[l]) = i
    BY <1>6 DEF QueueIInv, Counted, BeganRuns
<1>9. /\ g = Moved(f, k)
      /\ \A l \in Keys \ {k} : g[l] = f[l]
    BY <1>3, <1>5, <1>6, <1>7 DEF Moved
<1>10. NoRepeats(g)
    BY <1>7, <1>9, MovesUp
<1>11. InLines(g) = InLines(f) \ {Running(k)}
    BY <1>7, <1>9, MovesUp
<1>12. IsFiniteSet(Busy(g)) /\ IsFiniteSet(Behind(g))
    BY <1>7, <1>9, MovesUp
<1>13. /\ q'.active = Cardinality(Busy(g))
       /\ q'.queued = Cardinality(Behind(g))
    <2>1. CASE Len(f[k]) = 1
      BY <1>7, <1>9, <2>1, MovesUp, <1>3, <1>6, <1>8
    <2>2. CASE Len(f[k]) # 1
      BY <1>7, <1>9, <2>2, MovesUp, <1>3, <1>6, <1>8
    <2>. QED  BY <2>1, <2>2
<1>14. Counted'
    BY <1>3, <1>5, <1>8, <1>11, <1>12, <1>13 DEF Counted
<1>15. \A i \in began' : \E l \in Keys : g[l] # <<>> /\ Head(g[l]) = i
    BY <1>2, <1>7, <1>8, <1>9
<1>16. BeganRuns'
    BY <1>5, <1>15 DEF BeganRuns
<1>17. Pending(q)' <= Capacity
  BY <1>1, QueueAssumption, <1>3 DEF Queue, Pending, QueueIInv, WithinCapacity
<1>18. NoRepeats(lines)'
    BY <1>5, <1>10
<1>19. QueueTypes'
    BY <1>2, <1>3 DEF QueueIInv, QueueTypes
<1>20. ~(closing = "returned" /\ ~timedOut)
    BY <1>2 DEF QueueIInv, CleanCloseIsQuiet
<1>21. IsIdle(q') => began' = {}
    BY <1>12, <1>13, <1>15, IdleIsQuiet DEF IsIdle
<1>22. CleanCloseIsQuiet'
    BY <1>2, <1>20, <1>21 DEF CleanCloseIsQuiet
<1>23. q'.accepting <=> closing' = "open"
    BY <1>2, <1>3 DEF QueueIInv
<1>. QED  BY <1>3, <1>4, <1>14, <1>16, <1>17, <1>18, <1>19, <1>22, <1>23
    DEF QueueIInv, WithinCapacity

LEMMA BeginMoves ==
    ASSUME QueueIInv, NEW k \in Keys, BeginTask(k)
    PROVE  /\ QueueIInv'
           /\ lines' = lines
           /\ lines[k] # <<>> /\ Head(lines[k]) = Running(k)
<1>1. q \in Queue /\ NoGap
    BY DEF QueueIInv, QueueTypes
<1>2. /\ UNCHANGED <<q, closing, timedOut>> /\ Running(k) # NoTask
      /\ began' = began \cup {Running(k)}
    BY DEF BeginTask
<1>3. lines[k] # <<>> /\ Head(lines[k]) = Running(k) /\ Running(k) \in Ids
    BY <1>1, <1>2, LineOf DEF lines
<1>4. lines' = lines
    BY <1>2 DEF lines, Line, Running
<1>5. QueueTypes'
    BY <1>2, <1>3 DEF QueueIInv, QueueTypes
<1>6. BeganRuns'
    BY <1>2, <1>3, <1>4 DEF QueueIInv, BeganRuns
<1>7. ~(closing = "returned" /\ ~timedOut)
    <2>1. q.active # 0
        <3>1. k \in Busy(lines)
            BY <1>3 DEF Busy
        <3>2. IsFiniteSet(Busy(lines)) /\ q.active = Cardinality(Busy(lines))
            BY DEF QueueIInv, Counted
        <3>. QED  BY <3>1, <3>2, FS_EmptySet
    <2>. QED  BY <2>1 DEF QueueIInv, CleanCloseIsQuiet, IsIdle
<1>8. CleanCloseIsQuiet'
    BY <1>2, <1>7 DEF CleanCloseIsQuiet
<1>9. NoGap' /\ WithinCapacity' /\ (q'.accepting <=> closing' = "open")
    BY <1>2 DEF QueueIInv, NoGap, Running, WithinCapacity, Pending
<1>10. Counted' /\ NoRepeats(lines)'
    BY <1>2, <1>4 DEF QueueIInv, Counted
<1>. QED  BY <1>3, <1>4, <1>5, <1>6, <1>8, <1>9, <1>10 DEF QueueIInv

LEMMA CloseMoves ==
    ASSUME QueueIInv, NEW cancelPending \in BOOLEAN, Close(cancelPending)
    PROVE  /\ QueueIInv'
           /\ lines' = lines \/ lines' = Cut(lines)
           /\ closing = "open" /\ q'.accepting = FALSE
<1>1. q \in Queue /\ NoGap /\ NoRepeats(lines) /\ lines \in [Keys -> Seq(Ids)]
    BY LinesType DEF QueueIInv, QueueTypes
<1>2. /\ closing = "open" /\ UNCHANGED <<began, timedOut>>
      /\ q' = IF cancelPending THEN CancelWaiting(StopAccepting(q)) ELSE StopAccepting(q)
      /\ closing' = IF IsIdle(q') THEN "returned" ELSE "waiting"
    BY DEF Close
<1>3. PICK f : f = lines
    OBVIOUS
<1>4. PICK g : g = lines'
    OBVIOUS
<1>5. /\ f \in [Keys -> Seq(Ids)] /\ NoRepeats(f)
      /\ IsFiniteSet(Busy(f)) /\ IsFiniteSet(Behind(f))
      /\ q.active = Cardinality(Busy(f)) /\ q.queued = Cardinality(Behind(f))
      /\ q.pendingIds = InLines(f)
      /\ \A i \in began : \E l \in Keys : f[l] # <<>> /\ Head(f[l]) = i
    BY <1>1, <1>3 DEF QueueIInv, Counted, BeganRuns
\* What either branch leaves behind.
<1>6. /\ q' \in Queue /\ q'.accepting = FALSE /\ NoGap'
      /\ g = f \/ g = Cut(f)
      /\ NoRepeats(g)
      /\ IsFiniteSet(Busy(g)) /\ IsFiniteSet(Behind(g))
      /\ q'.active = Cardinality(Busy(g)) /\ q'.queued = Cardinality(Behind(g))
      /\ q'.pendingIds = InLines(g)
      /\ \A i \in began : \E l \in Keys : g[l] # <<>> /\ Head(g[l]) = i
      /\ q'.active = q.active /\ q'.queued <= q.queued
    <2>1. CASE ~cancelPending
        <3>1. q' = [q EXCEPT !.accepting = FALSE]
            BY <1>2, <2>1 DEF StopAccepting
        <3>2. /\ q' \in Queue /\ q'.accepting = FALSE
              /\ q'.active = q.active /\ q'.queued = q.queued
              /\ q'.pendingIds = q.pendingIds /\ q'.lanes = q.lanes
            BY <1>1, <3>1 DEF Queue
        <3>3. g = f
            BY <1>3, <1>4, <3>2 DEF lines, Line, Running
        <3>4. NoGap'
            BY <1>1, <3>2 DEF NoGap, Running
        <3>5. q'.queued <= q.queued
            BY <1>1, <3>2 DEF Queue
        <3>. QED  BY <1>5, <3>2, <3>3, <3>4, <3>5
    <2>2. CASE cancelPending
        <3>1. q' = CancelWaiting(StopAccepting(q))
            BY <1>2, <2>2
        <3>2. Entries(q) = Behind(f)
            BY <1>1, <1>3, LanesHold
        <3>3. \A k \in Keys : Waiting(q.lanes[k]) = {f[k][i] : i \in 2..Len(f[k])}
            BY <1>1, <1>3, LanesHold
        <3>4. /\ q' \in Queue /\ q'.accepting = FALSE /\ NoGap'
              /\ q'.active = q.active /\ q'.queued = q.queued - Cardinality(Entries(q))
              /\ q'.pendingIds = q.pendingIds \ UNION {Waiting(q.lanes[k]) : k \in Keys}
            BY <1>1, <1>5, <3>1, <3>2, CancelEffect, QueueAssumption
        <3>5. g = Cut(f)
            BY <1>1, <1>3, <1>4, <3>1, CancelEffect, QueueAssumption DEF Cut
        <3>6. q.queued \in Int
            BY <1>1 DEF Queue
        <3>7. NoRepeats(g) /\ Busy(g) = Busy(f) /\ Behind(g) = {}
            BY <1>5, <3>5, CutLines
        <3>8. \A x : x \in InLines(g) <=>
                  x \in InLines(f) /\ \A k \in Keys : \A i \in 2..Len(f[k]) : f[k][i] # x
            BY <1>5, <3>5, CutLines
        <3>9. \A k \in Keys : f[k] # <<>> => g[k] # <<>> /\ Head(g[k]) = Head(f[k])
            BY <1>5, <3>5, CutLines
        <3>10. q'.queued = 0 /\ Cardinality(Behind(g)) = 0 /\ IsFiniteSet(Behind(g))
            BY <1>5, <3>2, <3>4, <3>6, <3>7, FS_EmptySet
        <3>11. \A x : x \in UNION {Waiting(q.lanes[k]) : k \in Keys} <=>
                   \E k \in Keys : \E i \in 2..Len(f[k]) : f[k][i] = x
            <4>1. \A x : \A k \in Keys :
                      x \in Waiting(q.lanes[k]) <=> \E i \in 2..Len(f[k]) : f[k][i] = x
                BY <3>3
            <4>2. \A x : x \in UNION {Waiting(q.lanes[k]) : k \in Keys} <=>
                      \E k \in Keys : x \in Waiting(q.lanes[k])
                OBVIOUS
            <4>. QED  BY <4>1, <4>2, Zenon
        <3>12. q'.pendingIds = InLines(g)
            <4>. DEFINE gone == UNION {Waiting(q.lanes[k]) : k \in Keys}
            <4>1. \A x : x \in gone <=> \E k \in Keys : \E i \in 2..Len(f[k]) : f[k][i] = x
                BY <3>11
            <4>2. q'.pendingIds = InLines(f) \ gone
                BY <1>5, <3>4
            <4>. HIDE DEF gone
            <4>3. \A x : x \in InLines(f) \ gone <=> x \in InLines(g)
                BY <3>8, <4>1, Zenon
            <4>. QED  BY <4>2, <4>3
        <3>13. q'.queued <= q.queued
          BY <1>5, FS_CardinalityType, <3>10
        <3>14. \A i \in began : \E l \in Keys : g[l] # <<>> /\ Head(g[l]) = i
            BY <1>5, <3>9
        <3>. QED  BY <1>5, <3>4, <3>5, <3>7, <3>10, <3>12, <3>13, <3>14
    <2>. QED  BY <2>1, <2>2
<1>7. Counted' /\ NoRepeats(lines)' /\ BeganRuns'
    BY <1>2, <1>4, <1>6 DEF Counted, BeganRuns
<1>8. Pending(q)' <= Capacity
  BY <1>1, <1>6, QueueAssumption DEF Queue, QueueIInv, WithinCapacity, Pending
<1>9. QueueTypes'
    BY <1>2, <1>6 DEF QueueIInv, QueueTypes
<1>10. IsIdle(q') => began' = {}
    BY <1>2, <1>6, IdleIsQuiet DEF IsIdle
<1>11. CleanCloseIsQuiet'
    BY <1>2, <1>10 DEF CleanCloseIsQuiet
<1>12. q'.accepting <=> closing' = "open"
    BY <1>2, <1>6
<1>. QED  BY <1>2, <1>3, <1>4, <1>6, <1>7, <1>8, <1>9, <1>11, <1>12 DEF QueueIInv, WithinCapacity

LEMMA TimeoutMoves ==
    ASSUME QueueIInv, UNCHANGED q, UNCHANGED began,
           CloseTimesOut \/ UNCHANGED <<closing, timedOut>>
    PROVE  QueueIInv' /\ lines' = lines
<1>1. lines' = lines
    BY DEF lines, Line, Running
<1>2. /\ QueueTypes' /\ CleanCloseIsQuiet'
      /\ q'.accepting <=> closing' = "open"
    BY DEF QueueIInv, QueueTypes, CleanCloseIsQuiet, CloseTimesOut
<1>3. NoGap' /\ WithinCapacity'
    BY DEF QueueIInv, NoGap, Running, WithinCapacity, Pending
<1>4. Counted' /\ NoRepeats(lines)' /\ BeganRuns'
    BY <1>1 DEF QueueIInv, Counted, BeganRuns
<1>. QED  BY <1>1, <1>2, <1>3, <1>4 DEF QueueIInv

LEMMA QueueStep == QueueIInv /\ [Next]_vars => QueueIInv'
<1>. SUFFICES ASSUME QueueIInv, [Next]_vars PROVE QueueIInv'
    OBVIOUS
<1>1. ASSUME NEW k \in Keys, NEW id \in Ids, EnqueueTask(k, id) PROVE QueueIInv'
    BY <1>1, EnqueueMoves
<1>2. ASSUME NEW k \in Keys, BeginTask(k) PROVE QueueIInv'
    BY <1>2, BeginMoves
<1>3. ASSUME NEW k \in Keys, EndTask(k) PROVE QueueIInv'
    BY <1>3, EndMoves
<1>4. ASSUME NEW cancelPending \in BOOLEAN, Close(cancelPending) PROVE QueueIInv'
    BY <1>4, CloseMoves
<1>5. CASE CloseTimesOut
    BY <1>5, TimeoutMoves DEF CloseTimesOut
<1>6. CASE UNCHANGED vars
    BY <1>6, TimeoutMoves DEF vars
<1>. QED  BY <1>1, <1>2, <1>3, <1>4, <1>5, <1>6 DEF Next

-----------------------------------------------------------------------------
(* The queue implements the serial lanes: each step on the lanes, the ids  *)
(* and the counters is the step of the same name on the lines.             *)

LEMMA LanesInit == Init => Lanes!Init
<1>. SUFFICES ASSUME Init PROVE Lanes!Init
    OBVIOUS
<1>1. /\ q.accepting = TRUE /\ began = {}
      /\ \A k \in Keys : Running(k) = NoTask /\ q.lanes[k].waiting = <<>>
    BY DEF Init, EmptyQueue, EmptyLane, Running
<1>2. \A k \in Keys : Line(k) = <<>>
    BY <1>1 DEF Line
<1>. QED  BY <1>1, <1>2 DEF Lanes!Init

LEMMA LanesStep == QueueIInv /\ [Next]_vars => [Lanes!Next]_(Lanes!vars)
<1>. SUFFICES ASSUME QueueIInv, [Next]_vars PROVE [Lanes!Next]_(Lanes!vars)
    OBVIOUS
<1>1. ASSUME NEW k \in Keys, NEW id \in Ids, EnqueueTask(k, id) PROVE Lanes!Accept(k, id)
    <2>1. lines' = [lines EXCEPT ![k] = Append(@, id)]
        BY <1>1, EnqueueMoves
    <2>2. q.accepting /\ Pending(q) < Capacity /\ id \notin q.pendingIds
        BY <1>1 DEF EnqueueTask, CanEnqueue
    <2>3. began' = began /\ q'.accepting = q.accepting
        BY <1>1, EnqueueEffect, QueueAssumption DEF EnqueueTask, QueueIInv, QueueTypes
    <2>4. Lanes!Held = q.pendingIds
        BY DEF Lanes!Held, Lanes!InLine, QueueIInv, Counted, InLines, lines
    <2>5. Lanes!Cardinality(Lanes!Held) = Pending(q)
      BY QueueHolds, <2>4 DEF QueueInv, Bookkeeping, Lanes!Cardinality, Cardinality
    <2>. QED  BY <2>1, <2>2, <2>3, <2>4, <2>5 DEF Lanes!Accept, lines
<1>2. ASSUME NEW k \in Keys, BeginTask(k) PROVE Lanes!Begin(k)
  BY <1>2, BeginMoves DEF BeginTask, Lanes!Begin, lines
<1>3. ASSUME NEW k \in Keys, EndTask(k) PROVE Lanes!End(k)
    <2>1. lines' = [lines EXCEPT ![k] = Tail(@)] /\ lines[k] # <<>> /\ Head(lines[k]) = Running(k)
        BY <1>3, EndMoves
    <2>2. q'.accepting = q.accepting
        BY <1>3, FinishEffect, QueueAssumption DEF EndTask, QueueIInv, QueueTypes
    <2>. QED  BY <1>3, <2>1, <2>2 DEF EndTask, Lanes!End, lines
<1>4. ASSUME NEW cancelPending \in BOOLEAN, Close(cancelPending) PROVE Lanes!Close
  BY <1>4, CloseMoves DEF QueueIInv, Close, Lanes!Close, lines, Cut
<1>5. ASSUME CloseTimesOut \/ UNCHANGED vars PROVE UNCHANGED Lanes!vars
  BY <1>5, TimeoutMoves DEF CloseTimesOut, vars, Lanes!vars, lines
<1>. QED  BY <1>1, <1>2, <1>3, <1>4, <1>5 DEF Next, Lanes!Next

-----------------------------------------------------------------------------
(* The invariant of the archive.  Waiting and being written, the samples   *)
(* stand in one increasing sequence; dropped ones are older than those     *)
(* that wait, and also than the batch being written unless the queue is    *)
(* full, in which case a batch that comes back is dropped whole.           *)

In(s) == Archive!ToSet(s)

Increasing(s) == \A i, j \in 1..Len(s) : i < j => s[i] < s[j]

Before(S, T) == \A x \in S, y \in T : x < y

Ordered(x, b, writing, old) ==
    /\ x \in Seq(Nat) /\ b \in Seq(Nat) /\ old \subseteq Nat
    /\ Len(x) <= MaxQueue /\ Len(b) <= SampleBatch
    /\ Increasing(x) /\ Increasing(b)
    /\ Before(In(b), In(x)) /\ Before(old, In(x))
    /\ writing => Before(old, In(b)) \/ Len(x) = MaxQueue
    /\ ~writing => b = <<>>

\* Three attempts empty a queue of at most three batches.
AttemptsSuffice ==
    ~disturbed =>
        /\ ending # "refused"
        /\ ending = "flushing" =>
              /\ attempt = 1 => Len(samples) <= 2 * SampleBatch
              /\ attempt = 2 => Len(samples) <= SampleBatch
              /\ attempt = 3 => samples = <<>>
              /\ attempt # 0
        /\ ending = "returned" => samples = <<>> /\ batch = <<>>

ArchiveTypes ==
    /\ flushing \in BOOLEAN /\ backoff \in BOOLEAN /\ disturbed \in BOOLEAN
    /\ ending \in {"open", "flushing", "refused", "returned"}
    /\ attempt \in 0..3
    /\ accepted \in 0..MaxSamples

ArchiveIInv ==
    /\ ArchiveTypes
    /\ Ordered(samples, batch, flushing, dropped)
    /\ In(samples) \cup In(batch) \cup archived \cup dropped = 1..accepted
    /\ AttemptsSuffice

LEMMA InSeq ==
    ASSUME NEW S, NEW s \in Seq(S), NEW y
    PROVE  /\ y \in In(s) <=> \E i \in 1..Len(s) : s[i] = y
           /\ y \in In(s) => y \in S
BY DEF In, Archive!ToSet

LEMMA InEmpty == In(<<>>) = {}
BY DEF In, Archive!ToSet

\* Increasing sequences put end to end.
LEMMA Chained ==
    ASSUME NEW a \in Seq(Nat), NEW b \in Seq(Nat), Increasing(a), Increasing(b),
           Before(In(a), In(b)), NEW y, y = a \o b
    PROVE  /\ y \in Seq(Nat) /\ Len(y) = Len(a) + Len(b)
           /\ Increasing(y)
           /\ In(y) = In(a) \cup In(b)
<1>. DEFINE n == Len(a)
            m == Len(b)
<1>1. n \in Nat /\ m \in Nat
    OBVIOUS
<1>2. /\ y \in Seq(Nat) /\ Len(y) = n + m
      /\ \A i \in 1..(n + m) : y[i] = IF i <= n THEN a[i] ELSE b[i - n]
    BY ConcatProperties
<1>. HIDE DEF n, m
<1>3. \A i \in 1..n : a[i] \in In(a) /\ a[i] \in Nat /\ i \in 1..(n + m) /\ y[i] = a[i]
    BY <1>1, <1>2, InSeq DEF n
<1>4. \A i \in 1..m : b[i] \in In(b) /\ b[i] \in Nat /\ i + n \in 1..(n + m) /\ y[i + n] = b[i]
    <2>. SUFFICES ASSUME NEW i \in 1..m
                  PROVE  b[i] \in In(b) /\ b[i] \in Nat /\ i + n \in 1..(n + m) /\ y[i + n] = b[i]
        OBVIOUS
    <2>1. b[i] \in In(b) /\ b[i] \in Nat
        BY InSeq DEF m
    <2>2. i + n \in 1..(n + m) /\ ~(i + n <= n) /\ (i + n) - n = i
        BY <1>1
    <2>. QED  BY <1>2, <2>1, <2>2
<1>5. \A i \in 1..(n + m) : i \in 1..n \/ (i - n \in 1..m /\ i = (i - n) + n)
    BY <1>1
<1>6. Increasing(y)
    <2>. SUFFICES ASSUME NEW i \in 1..(n + m), NEW j \in 1..(n + m), i < j PROVE y[i] < y[j]
        BY <1>2 DEF Increasing
    <2>1. CASE j \in 1..n
        BY <1>1, <1>3, <2>1 DEF Increasing, n
    <2>2. CASE i \in 1..n /\ j \notin 1..n
      BY <1>3, <1>4, <1>5, <2>2 DEF Before
    <2>3. CASE i \notin 1..n
        <3>1. i - n \in 1..m /\ j - n \in 1..m /\ i - n < j - n
            BY <1>1, <2>3
        <3>2. y[i] = b[i - n] /\ y[j] = b[j - n]
            <4>1. (i - n) + n = i /\ (j - n) + n = j
                BY <1>1
            <4>. QED  BY <1>4, <3>1, <4>1
        <3>. QED  BY <3>1, <3>2 DEF Increasing, m
    <2>. QED  BY <1>1, <2>1, <2>2, <2>3
<1>7. ASSUME NEW e \in In(y) PROVE e \in In(a) \cup In(b)
    <2>1. PICK i \in 1..(n + m) : y[i] = e
        BY <1>2, <1>7, InSeq
    <2>. QED  BY <1>3, <1>4, <1>5, <2>1
<1>8. ASSUME NEW e \in In(a) \cup In(b) PROVE e \in In(y)
    <2>1. CASE e \in In(a)
        <3>1. PICK i \in 1..n : a[i] = e
            BY <2>1, InSeq DEF n
        <3>. QED  BY <1>2, <1>3, <3>1, InSeq
    <2>2. CASE e \in In(b)
        <3>1. PICK i \in 1..m : b[i] = e
            BY <2>2, InSeq DEF m
        <3>. QED  BY <1>2, <1>4, <3>1, InSeq
    <2>. QED  BY <2>1, <2>2
<1>. QED  BY <1>2, <1>6, <1>7, <1>8 DEF n, m

\* An increasing sequence in two parts.
First(x, m) == SubSeq(x, 1, m)

After(x, m) == SubSeq(x, m + 1, Len(x))

LEMMA Parted ==
    ASSUME NEW x \in Seq(Nat), Increasing(x), NEW m \in 0..Len(x),
           NEW a, a = First(x, m), NEW b, b = After(x, m)
    PROVE  /\ a \in Seq(Nat) /\ Len(a) = m /\ Increasing(a)
           /\ b \in Seq(Nat) /\ Len(b) = Len(x) - m /\ Increasing(b)
           /\ In(x) = In(a) \cup In(b)
           /\ Before(In(a), In(b))
<1>. DEFINE n == Len(x)
<1>1. n \in Nat /\ m \in Nat /\ m <= n /\ \A i \in 1..n : x[i] \in Nat
    OBVIOUS
<1>2. a \in Seq(Nat) /\ Len(a) = m /\ \A i \in 1..m : a[i] = x[i]
  BY <1>1, SubSeqProperties DEF First
<1>3. b \in Seq(Nat) /\ Len(b) = n - m /\ \A i \in 1..(n - m) : b[i] = x[i + m]
  BY <1>1, SubSeqProperties DEF After
<1>. HIDE DEF n
<1>4. \A i \in 1..m : i \in 1..n
    BY <1>1
<1>5. \A i \in 1..(n - m) : i + m \in 1..n /\ m < i + m
    BY <1>1
<1>6. \A i, j \in 1..n : i < j => x[i] < x[j]
    BY DEF Increasing, n
<1>7. Increasing(a)
    BY <1>2, <1>4, <1>6 DEF Increasing
<1>8. Increasing(b)
    <2>. SUFFICES ASSUME NEW i \in 1..(n - m), NEW j \in 1..(n - m), i < j PROVE b[i] < b[j]
        BY <1>3 DEF Increasing
    <2>1. i + m < j + m
        BY <1>1
    <2>. QED  BY <1>3, <1>5, <1>6, <2>1
<1>9. Before(In(a), In(b))
    <2>. SUFFICES ASSUME NEW d \in In(a), NEW e \in In(b) PROVE d < e
        BY DEF Before
    <2>1. PICK i \in 1..m : a[i] = d
        BY <1>2, InSeq
    <2>2. PICK j \in 1..(n - m) : b[j] = e
        BY <1>3, InSeq
    <2>3. i < j + m
        BY <1>1
    <2>4. x[i] = d
        BY <1>2, <2>1
    <2>5. x[j + m] = e
        BY <1>3, <2>2
    <2>. QED  BY <1>4, <1>5, <1>6, <2>3, <2>4, <2>5
<1>10. ASSUME NEW e \in In(x) PROVE e \in In(a) \cup In(b)
    <2>1. PICK i \in 1..n : x[i] = e
        BY InSeq DEF n
    <2>2. CASE i <= m
        <3>1. i \in 1..m
            BY <1>1, <2>2
        <3>. QED  BY <1>2, <2>1, <3>1, InSeq
    <2>3. CASE ~(i <= m)
        <3>1. i - m \in 1..(n - m) /\ (i - m) + m = i
            BY <1>1, <2>3
        <3>2. b[i - m] = e
            BY <1>3, <2>1, <3>1
        <3>. QED  BY <1>3, <3>1, <3>2, InSeq
    <2>. QED  BY <2>2, <2>3
<1>11. ASSUME NEW e \in In(a) \cup In(b) PROVE e \in In(x)
    <2>1. CASE e \in In(a)
      BY <1>2, <2>1, InSeq, <1>4 DEF n
    <2>2. CASE e \in In(b)
        <3>1. PICK i \in 1..(n - m) : b[i] = e
            BY <1>3, <2>2, InSeq
        <3>. QED  BY <1>3, <1>5, <3>1, InSeq DEF n
    <2>. QED  BY <2>1, <2>2
<1>. QED  BY <1>2, <1>3, <1>7, <1>8, <1>9, <1>10, <1>11 DEF n

\* What the queue keeps of too many samples.
LEMMA KeptEffect ==
    ASSUME NEW x \in Seq(Nat), Increasing(x), MaxQueue \in Nat,
           NEW y, y = Archive!Kept(x), NEW d, d = Archive!Dropped(x)
    PROVE  /\ y \in Seq(Nat) /\ Increasing(y) /\ Len(y) <= MaxQueue
           /\ In(x) = In(y) \cup d
           /\ Before(d, In(y)) /\ d \subseteq In(x)
           /\ Len(x) <= MaxQueue => y = x /\ d = {}
           /\ Len(x) > MaxQueue => Len(y) = MaxQueue
<1>. DEFINE m == Archive!Overflow(x)
            a == First(x, m)
<1>1. m \in 0..Len(x) /\ Len(x) \in Nat /\ m = IF Len(x) > MaxQueue THEN Len(x) - MaxQueue ELSE 0
    BY DEF Archive!Overflow
<1>2. y = After(x, m)
    BY DEF Archive!Kept, After
<1>3. d = In(x) \ In(y)
    BY DEF Archive!Dropped, In
<1>. HIDE DEF m
<1>4. /\ y \in Seq(Nat) /\ Len(y) = Len(x) - m /\ Increasing(y)
      /\ In(x) = In(a) \cup In(y)
      /\ Before(In(a), In(y))
    <2>1. a = First(x, m) /\ m \in 0..Len(x)
        BY <1>1
    <2>. HIDE DEF a
    <2>2. y \in Seq(Nat) /\ Len(y) = Len(x) - m /\ Increasing(y)
        BY <1>2, <2>1, Parted
    <2>3. In(x) = In(a) \cup In(y)
        BY <1>2, <2>1, Parted
    <2>4. Before(In(a), In(y))
        BY <1>2, <2>1, Parted
    <2>. QED  BY <2>2, <2>3, <2>4
<1>5. d \subseteq In(a)
    BY <1>3, <1>4
<1>6. Before(d, In(y))
    BY <1>4, <1>5 DEF Before
<1>7. Len(y) <= MaxQueue /\ (Len(x) > MaxQueue => Len(y) = MaxQueue)
    BY <1>1, <1>4
<1>8. ASSUME Len(x) <= MaxQueue PROVE y = x /\ d = {}
    <2>1. m = 0
        BY <1>1, <1>8
    <2>2. y = x
        BY <1>2, <2>1, SubSeqFull DEF After
    <2>. QED  BY <1>3, <2>2
<1>. QED  BY <1>3, <1>4, <1>6, <1>7, <1>8

\* The samples that are not archived, wherever they are.
Seen(x, b, old) == In(x) \cup In(b) \cup old

\* A sample that arrives.
Newer(n, x, b, old) == \A e \in Seen(x, b, old) : e < n

Extends(z, x, n) ==
    z \in Seq(Nat) /\ Len(z) = Len(x) + 1 /\ Increasing(z) /\ In(z) = In(x) \cup {n}

LEMMA Extended ==
    ASSUME NEW x \in Seq(Nat), Increasing(x), NEW n \in Nat, \A e \in In(x) : e < n,
           NEW z, z = Append(x, n)
    PROVE  Extends(z, x, n)
<1>2. In(<<n>>) = {n} /\ Increasing(<<n>>) /\ <<n>> \in Seq(Nat) /\ Len(<<n>>) = 1
    <2>1. <<n>> \in Seq(Nat) /\ Len(<<n>>) = 1 /\ <<n>>[1] = n
        OBVIOUS
    <2>2. In(<<n>>) = {n}
        <3>1. PICK t \in Seq(Nat) : t = <<n>> /\ Len(t) = 1 /\ t[1] = n
            BY <2>1
        <3>2. \A e : e \in In(t) <=> \E i \in 1..Len(t) : t[i] = e
            BY InSeq
        <3>3. \A e : e \in In(t) <=> e = n
            BY <3>1, <3>2
        <3>. QED  BY <3>1, <3>3
    <2>. QED  BY <2>1, <2>2 DEF Increasing
<1>4. z = x \o <<n>>
    BY AppendIsConcat
<1>5. Before(In(x), In(<<n>>))
    BY <1>2 DEF Before
<1>6. /\ z \in Seq(Nat) /\ Len(z) = Len(x) + Len(<<n>>) /\ Increasing(z)
      /\ In(z) = In(x) \cup In(<<n>>)
    BY <1>2, <1>4, <1>5, Chained
<1>. QED  BY <1>2, <1>6 DEF Extends

LEMMA Arrives ==
    ASSUME NEW x, NEW b, NEW w \in BOOLEAN, NEW old, Ordered(x, b, w, old), MaxQueue \in Nat,
           NEW n \in Nat, Newer(n, x, b, old), NEW z, Extends(z, x, n)
    PROVE  /\ Ordered(Archive!Kept(z), b, w, old \cup Archive!Dropped(z))
           /\ Seen(Archive!Kept(z), b, old \cup Archive!Dropped(z)) = Seen(x, b, old) \cup {n}
<1>. DEFINE y == Archive!Kept(z)
            d == Archive!Dropped(z)
<1>0. \A e \in In(x) \cup In(b) \cup old : e < n
    BY DEF Newer, Seen
<1>1. x \in Seq(Nat) /\ b \in Seq(Nat) /\ Increasing(x) /\ Increasing(b) /\ old \subseteq Nat
    BY DEF Ordered
<1>6. z \in Seq(Nat) /\ Len(z) = Len(x) + 1 /\ Increasing(z) /\ In(z) = In(x) \cup {n}
    BY DEF Extends
<1>7. y = Archive!Kept(z) /\ d = Archive!Dropped(z)
    OBVIOUS
<1>. HIDE DEF y, d
<1>8. y \in Seq(Nat) /\ Increasing(y) /\ Len(y) <= MaxQueue
    BY <1>6, <1>7, KeptEffect
<1>9. In(z) = In(y) \cup d
    BY <1>6, <1>7, KeptEffect
<1>10. Before(d, In(y)) /\ d \subseteq In(z)
    BY <1>6, <1>7, KeptEffect
<1>11. /\ Len(z) <= MaxQueue => y = z /\ d = {}
       /\ Len(z) > MaxQueue => Len(y) = MaxQueue
    BY <1>6, <1>7, KeptEffect
<1>12. Before(In(b), In(y))
    BY <1>0, <1>6, <1>9 DEF Ordered, Before
<1>13. Before(old, In(y))
    BY <1>0, <1>6, <1>9 DEF Ordered, Before
<1>14. Before(old \cup d, In(y))
    BY <1>10, <1>13 DEF Before
<1>15. old \cup d \subseteq Nat
  BY <1>6, InSeq, <1>1, <1>10
<1>16. w => Before(old \cup d, In(b)) \/ Len(y) = MaxQueue
    <2>1. CASE Len(z) <= MaxQueue
        <3>1. d = {} /\ Len(x) # MaxQueue
            BY <1>1, <1>6, <1>11, <2>1
        <3>. QED  BY <3>1 DEF Ordered
    <2>2. CASE ~(Len(z) <= MaxQueue)
      BY <1>6, <1>11, <2>2
    <2>. QED  BY <2>1, <2>2
<1>17. Ordered(y, b, w, old \cup d)
    BY <1>8, <1>12, <1>14, <1>15, <1>16 DEF Ordered
<1>18. Seen(y, b, old \cup d) = Seen(x, b, old) \cup {n}
    BY <1>6, <1>9 DEF Seen
<1>. QED  BY <1>17, <1>18 DEF y, d

\* A flush that takes the first batch of the queue.
LEMMA PartedAt ==
    ASSUME NEW x \in Seq(Nat), Increasing(x), NEW m \in 0..Len(x)
    PROVE  /\ In(x) = In(First(x, m)) \cup In(After(x, m))
           /\ Before(In(First(x, m)), In(After(x, m)))
<1>. DEFINE a == First(x, m)
            b == After(x, m)
<1>1. a = First(x, m) /\ b = After(x, m)
    OBVIOUS
<1>. HIDE DEF a, b
<1>2. In(x) = In(a) \cup In(b)
    BY <1>1, Parted
<1>3. Before(In(a), In(b))
    BY <1>1, Parted
<1>. QED  BY <1>2, <1>3 DEF a, b

LEMMA Lengths ==
    ASSUME NEW n \in Nat, NEW s \in Nat, NEW m, m = IF s < n THEN s ELSE n
    PROVE  n - m = (IF n > s THEN n - s ELSE 0) /\ m <= s /\ m <= n /\ n - m <= n
OBVIOUS

LEMMA TakenAt ==
    ASSUME NEW x, NEW old, Ordered(x, <<>>, FALSE, old), MaxQueue \in Nat, SampleBatch \in Nat,
           NEW m \in 0..Len(x), m = IF SampleBatch < Len(x) THEN SampleBatch ELSE Len(x),
           NEW b, b = First(x, m), NEW y, y = After(x, m)
    PROVE  /\ Ordered(y, b, TRUE, old)
           /\ In(y) \cup In(b) = In(x)
           /\ Len(y) = IF Len(x) > SampleBatch THEN Len(x) - SampleBatch ELSE 0
<1>1. x \in Seq(Nat) /\ Increasing(x) /\ old \subseteq Nat /\ Len(x) \in Nat /\ Len(x) <= MaxQueue
    BY DEF Ordered
<1>5. b \in Seq(Nat) /\ Len(b) = m /\ Increasing(b)
    BY <1>1, Parted
<1>6. y \in Seq(Nat) /\ Len(y) = Len(x) - m /\ Increasing(y)
    BY <1>1, Parted
<1>7. In(x) = In(b) \cup In(y)
    BY <1>1, PartedAt
<1>8. Before(In(b), In(y))
    BY <1>1, PartedAt
<1>9. Before(old, In(b)) /\ Before(old, In(y))
    BY <1>7 DEF Ordered, Before
<1>10. /\ Len(y) = IF Len(x) > SampleBatch THEN Len(x) - SampleBatch ELSE 0
       /\ Len(b) <= SampleBatch /\ Len(y) <= Len(x)
    <2>1. PICK n \in Nat : n = Len(x)
        BY <1>1
    <2>2. m = IF SampleBatch < n THEN SampleBatch ELSE n
        BY <2>1
    <2>3. n - m = (IF n > SampleBatch THEN n - SampleBatch ELSE 0) /\ m <= SampleBatch /\ n - m <= n
        BY <2>2, Lengths
    <2>. QED  BY <1>5, <1>6, <2>1, <2>3
<1>11. Len(y) <= MaxQueue
    BY <1>1, <1>6, <1>10
<1>. QED  BY <1>1, <1>5, <1>6, <1>7, <1>8, <1>9, <1>10, <1>11 DEF Ordered

LEMMA Taken ==
    ASSUME NEW x, NEW old, Ordered(x, <<>>, FALSE, old), MaxQueue \in Nat, SampleBatch \in Nat,
           NEW b, b = SubSeq(x, 1, Archive!Least(SampleBatch, Len(x))),
           NEW y, y = SubSeq(x, SampleBatch + 1, Len(x))
    PROVE  /\ Ordered(y, b, TRUE, old)
           /\ In(y) \cup In(b) = In(x)
           /\ Len(y) = IF Len(x) > SampleBatch THEN Len(x) - SampleBatch ELSE 0
<1>1. Len(x) \in Nat
    BY DEF Ordered
<1>2. PICK m \in 0..Len(x) : m = IF SampleBatch < Len(x) THEN SampleBatch ELSE Len(x)
    BY <1>1
<1>3. b = First(x, m)
    BY <1>2 DEF Archive!Least, First
<1>4. y = After(x, m)
    <2>1. CASE SampleBatch < Len(x)
        BY <1>2, <2>1 DEF After
    <2>2. CASE ~(SampleBatch < Len(x))
      BY <1>1, <1>2, <2>2, SubSeqEmpty DEF After
    <2>. QED  BY <2>1, <2>2
<1>5. Ordered(y, b, TRUE, old)
    BY <1>2, <1>3, <1>4, TakenAt, Zenon
<1>7. In(y) \cup In(b) = In(x)
    <2>1. x \in Seq(Nat) /\ Increasing(x)
        BY DEF Ordered
    <2>2. In(x) = In(b) \cup In(y)
        <3>1. In(x) = In(First(x, m)) \cup In(After(x, m))
            BY <2>1, PartedAt
        <3>. QED  BY <1>3, <1>4, <3>1, Zenon
    <2>. QED  BY <2>2
<1>6. Len(y) = IF Len(x) > SampleBatch THEN Len(x) - SampleBatch ELSE 0
    BY <1>2, <1>3, <1>4, TakenAt, Zenon
<1>. QED  BY <1>5, <1>6, <1>7

\* A batch that comes back.
Returned(z, x, b, old) ==
    Seen(Archive!Kept(z), <<>>, old \cup Archive!Dropped(z)) = Seen(x, b, old)

LEMMA ComesBack ==
    ASSUME NEW x, NEW b, NEW old, Ordered(x, b, TRUE, old),
           MaxQueue \in Nat, SampleBatch \in Nat, NEW z, z = b \o x
    PROVE  /\ Ordered(Archive!Kept(z), <<>>, FALSE, old \cup Archive!Dropped(z))
           /\ Returned(z, x, b, old)
<1>. DEFINE y == Archive!Kept(z)
            d == Archive!Dropped(z)
<1>1. /\ x \in Seq(Nat) /\ b \in Seq(Nat) /\ Increasing(x) /\ Increasing(b) /\ old \subseteq Nat
      /\ Before(In(b), In(x)) /\ Before(old, In(x))
    BY DEF Ordered
<1>3. z \in Seq(Nat) /\ Len(z) = Len(b) + Len(x) /\ Increasing(z) /\ In(z) = In(b) \cup In(x)
    BY <1>1, Chained
<1>4. y = Archive!Kept(z) /\ d = Archive!Dropped(z)
    OBVIOUS
<1>. HIDE DEF y, d
<1>5. y \in Seq(Nat) /\ Increasing(y) /\ Len(y) <= MaxQueue
    BY <1>3, <1>4, KeptEffect
<1>6. In(z) = In(y) \cup d /\ Before(d, In(y)) /\ d \subseteq In(z)
    BY <1>3, <1>4, KeptEffect
<1>7. Before(old, In(y))
    <2>1. CASE Before(old, In(b))
        BY <1>1, <1>3, <1>6, <2>1 DEF Before
    <2>2. CASE Len(x) = MaxQueue
        <3>1. y = x
            <4>. DEFINE m == Archive!Overflow(z)
            <4>1. Len(x) \in Nat /\ Len(b) \in Nat /\ m = Len(b)
                BY <1>1, <1>3, <2>2 DEF Archive!Overflow
            <4>2. y = SubSeq(z, Len(b) + 1, Len(b) + Len(x))
                BY <1>3, <1>4, <4>1 DEF Archive!Kept
            <4>. HIDE DEF m
            <4>3. \A i \in (Len(b) + 1)..(Len(b) + Len(x)) : z[i] \in Nat
                BY <1>3, <4>1
            <4>4. /\ Len(y) = Len(x)
                  /\ \A i \in 1..Len(x) : y[i] = z[Len(b) + i]
                <5>1. Len(b) + 1 \in Int /\ Len(b) + Len(x) \in Int
                    BY <4>1
                <5>2. /\ Len(y) = IF Len(b) + 1 <= Len(b) + Len(x)
                                  THEN Len(b) + Len(x) - (Len(b) + 1) + 1 ELSE 0
                      /\ \A i \in 1..(Len(b) + Len(x) - (Len(b) + 1) + 1) :
                             y[i] = z[Len(b) + 1 + i - 1]
                    BY <4>2, <4>3, <5>1, SubSeqProperties
                <5>3. \A i \in 1..Len(x) : i \in 1..(Len(b) + Len(x) - (Len(b) + 1) + 1)
                    BY <4>1
                <5>4. \A i \in 1..Len(x) : Len(b) + 1 + i - 1 = Len(b) + i
                    BY <4>1
                <5>5. Len(y) = Len(x)
                    BY <4>1, <5>2
                <5>. QED  BY <5>2, <5>3, <5>4, <5>5, Zenon
            <4>5. \A i \in 1..Len(x) : z[Len(b) + i] = x[i]
                <5>. SUFFICES ASSUME NEW i \in 1..Len(x) PROVE z[Len(b) + i] = x[i]
                    OBVIOUS
                <5>1. /\ Len(b) + i \in 1..(Len(b) + Len(x)) /\ ~(Len(b) + i <= Len(b))
                      /\ (Len(b) + i) - Len(b) = i
                    BY <4>1
                <5>. QED  BY <1>1, <5>1, ConcatProperties
            <4>. QED  BY <1>1, <1>5, <4>4, <4>5, SeqEqual
        <3>. QED  BY <1>1, <3>1
    <2>. QED  BY <2>1, <2>2 DEF Ordered
<1>8. Before(old \cup d, In(y))
    BY <1>6, <1>7 DEF Before
<1>9. old \cup d \subseteq Nat
  BY <1>3, InSeq, <1>1, <1>6
<1>10. Ordered(y, <<>>, FALSE, old \cup d)
  BY InEmpty, <1>1, <1>5, <1>8, <1>9 DEF Increasing, Before, Ordered
<1>11. Seen(y, <<>>, old \cup d) = Seen(x, b, old)
    BY <1>3, <1>6, InEmpty DEF Seen
<1>. QED  BY <1>10, <1>11 DEF y, d, Returned

\* What a flush of the queue x does, whether it starts or not.
LEMMA FlushEffect ==
    ASSUME NEW x, NEW old, NEW force \in BOOLEAN, flushing \in BOOLEAN,
           MaxQueue \in Nat, SampleBatch \in Nat,
           Ordered(x, batch, flushing, old), Archive!FlushWith(x, force)
    PROVE  /\ Ordered(samples', batch', flushing', old)
           /\ In(samples') \cup In(batch') = In(x) \cup In(batch)
           /\ flushing' \in BOOLEAN
           /\ force /\ ~flushing /\ x # <<>> =>
                  Len(samples') = IF Len(x) > SampleBatch THEN Len(x) - SampleBatch ELSE 0
<1>1. CASE ~flushing /\ x # <<>> /\ (force \/ ~backoff)
    <2>1. /\ batch' = SubSeq(x, 1, Archive!Least(SampleBatch, Len(x)))
          /\ samples' = SubSeq(x, SampleBatch + 1, Len(x))
          /\ flushing' = TRUE
        BY <1>1 DEF Archive!FlushWith
    <2>2. PICK b : b = batch'
        OBVIOUS
    <2>3. PICK y : y = samples'
        OBVIOUS
    <2>4. batch = <<>> /\ Ordered(x, <<>>, FALSE, old)
        BY <1>1 DEF Ordered
    <2>5. Ordered(y, b, TRUE, old)
        BY <2>1, <2>2, <2>3, <2>4, Taken
    <2>6. In(y) \cup In(b) = In(x)
        BY <2>1, <2>2, <2>3, <2>4, Taken
    <2>7. Len(y) = IF Len(x) > SampleBatch THEN Len(x) - SampleBatch ELSE 0
        BY <2>1, <2>2, <2>3, <2>4, Taken
    <2>8. Ordered(samples', batch', flushing', old)
        BY <2>1, <2>2, <2>3, <2>5
    <2>9. In(samples') \cup In(batch') = In(x) \cup In(batch)
        BY <2>2, <2>3, <2>4, <2>6, InEmpty
    <2>. QED  BY <2>1, <2>3, <2>7, <2>8, <2>9
<1>2. CASE ~(~flushing /\ x # <<>> /\ (force \/ ~backoff))
  BY <1>2 DEF Archive!FlushWith
<1>. QED  BY <1>1, <1>2

LEMMA ArchiveInit == Archive!Init => ArchiveIInv
<1>. SUFFICES ASSUME Archive!Init PROVE ArchiveIInv
    OBVIOUS
<1>1. /\ samples = <<>> /\ batch = <<>> /\ flushing = FALSE /\ backoff = FALSE /\ ending = "open"
      /\ attempt = 0 /\ accepted = 0 /\ archived = {} /\ dropped = {} /\ disturbed = FALSE
    BY DEF Archive!Init
<1>2. MaxSamples \in Nat /\ MaxQueue \in Nat /\ SampleBatch \in Nat
    BY BuffersAssumption
<1>3. <<>> \in Seq(Nat) /\ Len(<<>>) = 0 /\ Increasing(<<>>)
    BY DEF Increasing
<1>4. Ordered(samples, batch, flushing, dropped)
    BY <1>1, <1>2, <1>3, InEmpty DEF Ordered, Before
<1>5. 1..accepted = {}
    BY <1>1
<1>6. In(samples) \cup In(batch) \cup archived \cup dropped = 1..accepted
    BY <1>1, <1>5, InEmpty
<1>7. ArchiveTypes
    <2>1. accepted \in 0..MaxSamples /\ attempt \in 0..3
        BY <1>1, <1>2
    <2>. QED  BY <1>1, <2>1 DEF ArchiveTypes
<1>8. AttemptsSuffice
    BY <1>1 DEF AttemptsSuffice
<1>. QED  BY <1>4, <1>6, <1>7, <1>8 DEF ArchiveIInv

\* The samples accepted so far, wherever they are.
Accounted == In(samples) \cup In(batch) \cup archived \cup dropped = 1..accepted

LEMMA AcceptStep == ArchiveIInv /\ Archive!Enqueue => ArchiveIInv'
<1>. SUFFICES ASSUME ArchiveIInv, Archive!Enqueue PROVE ArchiveIInv'
    OBVIOUS
<1>. DEFINE n == accepted + 1
<1>1. MaxSamples \in Nat /\ MaxQueue \in Nat /\ SampleBatch \in Nat
    BY BuffersAssumption
<1>2. /\ ending = "open" /\ accepted < MaxSamples /\ accepted' = n
      /\ dropped' = dropped \cup Archive!Dropped(Append(samples, n))
      /\ \/ Archive!FlushWith(Archive!Kept(Append(samples, n)), FALSE)
         \/ /\ samples' = Archive!Kept(Append(samples, n))
            /\ UNCHANGED <<batch, flushing>>
      /\ UNCHANGED <<backoff, ending, attempt, archived, disturbed>>
    BY DEF Archive!Enqueue, Archive!Closed, Archive!close
<1>3. /\ ArchiveTypes /\ Ordered(samples, batch, flushing, dropped) /\ Accounted
    BY DEF ArchiveIInv, Accounted
<1>4. accepted \in Nat /\ n \in Nat /\ n \in 0..MaxSamples /\ flushing \in BOOLEAN
    BY <1>1, <1>2, <1>3 DEF ArchiveTypes
<1>5. \A e \in In(samples) \cup In(batch) \cup dropped : e < n
    BY <1>3, <1>4 DEF Accounted
<1>6. 1..n = (1..accepted) \cup {n}
    BY <1>4
<1>7. PICK x : x = samples
    OBVIOUS
<1>8. PICK z : z = Append(x, n)
    OBVIOUS
<1>. DEFINE y == Archive!Kept(z)
            d == Archive!Dropped(z)
<1>. HIDE DEF n
<1>10. Ordered(x, batch, flushing, dropped) /\ Newer(n, x, batch, dropped)
    BY <1>3, <1>5, <1>7 DEF Seen, Newer
<1>9. Extends(z, x, n)
  BY <1>10, <1>4, <1>8, Extended DEF Ordered, Seen, Newer
<1>11. Ordered(y, batch, flushing, dropped \cup d)
    BY <1>1, <1>4, <1>9, <1>10, Arrives
<1>12. Seen(y, batch, dropped \cup d) = Seen(x, batch, dropped) \cup {n}
    BY <1>1, <1>4, <1>9, <1>10, Arrives
<1>13. /\ dropped' = dropped \cup d
       /\ \/ Archive!FlushWith(y, FALSE)
          \/ /\ samples' = y
             /\ UNCHANGED <<batch, flushing>>
    BY <1>2, <1>7, <1>8 DEF n
<1>. HIDE DEF y, d
<1>14. /\ Ordered(samples', batch', flushing', dropped')
       /\ In(samples') \cup In(batch') = In(y) \cup In(batch)
       /\ flushing' \in BOOLEAN
    <2>1. CASE Archive!FlushWith(y, FALSE)
      BY <1>1, <1>4, <1>11, <2>1, FlushEffect, <1>13
    <2>2. CASE samples' = y /\ UNCHANGED <<batch, flushing>>
        BY <1>4, <1>11, <1>13, <2>2
    <2>. QED  BY <1>13, <2>1, <2>2
<1>15. Accounted'
    <2>1. In(samples)' = In(samples') /\ In(batch)' = In(batch')
        BY DEF In, Archive!ToSet
    <2>2. accepted' = n /\ archived' = archived
        BY <1>2
    <2>3. In(x) \cup In(batch) \cup archived \cup dropped = 1..accepted
        BY <1>3, <1>7 DEF Accounted
    <2>. QED  BY <1>6, <1>12, <1>13, <1>14, <2>1, <2>2, <2>3 DEF Accounted, Seen
<1>16. ArchiveTypes'
    BY <1>2, <1>3, <1>4, <1>14 DEF ArchiveTypes
<1>17. AttemptsSuffice'
    BY <1>2 DEF AttemptsSuffice
<1>18. Ordered(samples, batch, flushing, dropped)'
    BY <1>14 DEF Ordered, Increasing, Before, In, Archive!ToSet
<1>. QED  BY <1>15, <1>16, <1>17, <1>18 DEF ArchiveIInv, Accounted

\* A flush of the samples that wait keeps their books.
LEMMA FlushKeeps ==
    ASSUME ArchiveTypes, Ordered(samples, batch, flushing, dropped), Accounted,
           NEW force \in BOOLEAN, Archive!FlushWith(samples, force),
           UNCHANGED <<accepted, archived, dropped>>
    PROVE  /\ Ordered(samples, batch, flushing, dropped)'
           /\ Accounted'
           /\ flushing' \in BOOLEAN
           /\ force /\ ~flushing /\ samples # <<>> =>
                  Len(samples') = IF Len(samples) > SampleBatch THEN Len(samples) - SampleBatch ELSE 0
<1>1. MaxQueue \in Nat /\ SampleBatch \in Nat /\ flushing \in BOOLEAN
    BY BuffersAssumption DEF ArchiveTypes
<1>2. PICK x : x = samples
    OBVIOUS
<1>3. Ordered(x, batch, flushing, dropped) /\ Archive!FlushWith(x, force)
    BY <1>2
<1>4. /\ Ordered(samples', batch', flushing', dropped)
      /\ In(samples') \cup In(batch') = In(x) \cup In(batch)
      /\ flushing' \in BOOLEAN
      /\ force /\ ~flushing /\ x # <<>> =>
             Len(samples') = IF Len(x) > SampleBatch THEN Len(x) - SampleBatch ELSE 0
    BY <1>1, <1>3, FlushEffect
<1>5. Ordered(samples, batch, flushing, dropped)'
    BY <1>4 DEF Ordered, Increasing, Before, In, Archive!ToSet
<1>6. Accounted'
  BY <1>2, <1>4 DEF In, Archive!ToSet, Accounted
<1>. QED  BY <1>2, <1>4, <1>5, <1>6

LEMMA Parts == ArchiveIInv <=>
    ArchiveTypes /\ Ordered(samples, batch, flushing, dropped) /\ Accounted /\ AttemptsSuffice
BY DEF ArchiveIInv, Accounted

LEMMA TimerStep == ArchiveIInv /\ Archive!TimerFlush => ArchiveIInv'
<1>. SUFFICES ASSUME ArchiveIInv, Archive!TimerFlush PROVE ArchiveIInv'
    OBVIOUS
<1>1. /\ ending = "open" /\ Archive!FlushWith(samples, FALSE)
      /\ UNCHANGED <<backoff, ending, attempt, accepted, archived, dropped, disturbed>>
    BY DEF Archive!TimerFlush, Archive!Closed, Archive!close, Archive!ghosts
<1>2. ArchiveTypes /\ Ordered(samples, batch, flushing, dropped) /\ Accounted
    BY Parts
<1>3. Ordered(samples, batch, flushing, dropped)' /\ Accounted' /\ flushing' \in BOOLEAN
    BY <1>1, <1>2, FlushKeeps
<1>4. ArchiveTypes'
    BY <1>1, <1>2, <1>3 DEF ArchiveTypes
<1>5. AttemptsSuffice'
    BY <1>1 DEF AttemptsSuffice
<1>. QED  BY <1>3, <1>4, <1>5, Parts DEF ArchiveIInv, Accounted

LEMMA SucceedStep == ArchiveIInv /\ Archive!WriteSucceeds => ArchiveIInv'
<1>. SUFFICES ASSUME ArchiveIInv, Archive!WriteSucceeds PROVE ArchiveIInv'
    OBVIOUS
<1>1. /\ flushing /\ flushing' = FALSE /\ batch' = <<>> /\ backoff' = FALSE
      /\ archived' = archived \cup In(batch)
      /\ UNCHANGED <<samples, ending, attempt, accepted, dropped, disturbed>>
    BY DEF Archive!WriteSucceeds, Archive!close, In
<1>2. ArchiveTypes /\ Ordered(samples, batch, flushing, dropped) /\ Accounted /\ AttemptsSuffice
    BY Parts
<1>3. In(samples)' = In(samples) /\ In(batch)' = {}
    BY <1>1, InEmpty DEF In, Archive!ToSet
<1>4. Accounted'
    BY <1>1, <1>2, <1>3 DEF Accounted
<1>5. Ordered(samples, batch, flushing, dropped)'
  BY BuffersAssumption, <1>2, InEmpty, <1>1, <1>3 DEF Increasing, Before, Ordered
<1>6. ArchiveTypes'
    BY <1>1, <1>2 DEF ArchiveTypes
<1>7. AttemptsSuffice'
    BY <1>1, <1>2 DEF AttemptsSuffice
<1>. QED  BY <1>4, <1>5, <1>6, <1>7 DEF ArchiveIInv, Accounted

LEMMA FailStep ==
    ASSUME ArchiveIInv, NEW inserted \in SUBSET In(batch), Archive!WriteFails(inserted)
    PROVE  ArchiveIInv'
<1>. DEFINE z == batch \o samples
            y == Archive!Kept(z)
            d == Archive!Dropped(z)
<1>1. /\ flushing /\ flushing' = FALSE /\ batch' = <<>> /\ backoff' = TRUE
      /\ archived' = archived \cup inserted
      /\ samples' = y /\ dropped' = dropped \cup d
      /\ disturbed' = (disturbed \/ ending # "open")
      /\ UNCHANGED <<ending, attempt, accepted>>
    BY DEF Archive!WriteFails, Archive!close, Archive!Closed
<1>2. ArchiveTypes /\ Ordered(samples, batch, flushing, dropped) /\ Accounted /\ AttemptsSuffice
    BY Parts
<1>3. Ordered(samples, batch, TRUE, dropped) /\ MaxQueue \in Nat /\ SampleBatch \in Nat
    BY <1>1, <1>2, BuffersAssumption DEF Ordered
<1>4. z = batch \o samples
    OBVIOUS
<1>. HIDE DEF z
<1>5. Ordered(y, <<>>, FALSE, dropped \cup d)
    BY <1>3, <1>4, ComesBack
<1>6. Seen(y, <<>>, dropped \cup d) = Seen(samples, batch, dropped)
    <2>1. Returned(z, samples, batch, dropped)
        BY <1>3, <1>4, ComesBack
    <2>. QED  BY <2>1 DEF Returned
<1>. HIDE DEF y, d
<1>7. Ordered(samples', batch', flushing', dropped')
    BY <1>1, <1>5
<1>8. Ordered(samples, batch, flushing, dropped)'
    BY <1>7 DEF Ordered, Increasing, Before, In, Archive!ToSet
<1>9. Accounted'
  BY <1>1, <1>2, <1>6 DEF In, Archive!ToSet, Accounted, Seen
<1>10. ArchiveTypes'
    BY <1>1, <1>2 DEF ArchiveTypes
<1>11. AttemptsSuffice'
    BY <1>1, <1>2 DEF AttemptsSuffice
<1>. QED  BY <1>8, <1>9, <1>10, <1>11 DEF ArchiveIInv, Accounted

\* An attempt of close(), the n-th after as many earlier ones.
LEMMA AttemptKeeps ==
    ASSUME ArchiveTypes, Ordered(samples, batch, flushing, dropped), Accounted,
           NEW n \in 0..3, Archive!Attempt(n),
           UNCHANGED <<backoff, accepted, archived, dropped>>, disturbed' \in BOOLEAN,
           ~disturbed' => ~flushing /\ Len(samples) <= (3 - n) * SampleBatch
    PROVE  ArchiveIInv'
<1>. DEFINE l == Len(samples)
<1>1. SampleBatch \in Nat /\ flushing \in BOOLEAN /\ l \in Nat /\ samples \in Seq(Nat)
    BY BuffersAssumption DEF ArchiveTypes, Ordered
<1>2. CASE n < 3 /\ samples # <<>>
    <2>1. /\ attempt' = n + 1
          /\ ending' = IF flushing THEN "refused" ELSE "flushing"
          /\ Archive!FlushWith(samples, TRUE)
        BY <1>2 DEF Archive!Attempt
    <2>2. /\ Ordered(samples, batch, flushing, dropped)' /\ Accounted' /\ flushing' \in BOOLEAN
          /\ ~flushing => Len(samples') = IF l > SampleBatch THEN l - SampleBatch ELSE 0
        BY <1>2, <2>1, FlushKeeps
    <2>3. ArchiveTypes'
      BY <1>2, <2>1, <2>2 DEF ArchiveTypes
    <2>4. ~disturbed' => ending' = "flushing" /\ Len(samples') <= (2 - n) * SampleBatch
        <3>. SUFFICES ASSUME ~disturbed' PROVE Len(samples') <= (2 - n) * SampleBatch
            BY <2>1
        <3>1. /\ Len(samples') = IF l > SampleBatch THEN l - SampleBatch ELSE 0
              /\ l <= (3 - n) * SampleBatch
            BY <2>2
        <3>. HIDE DEF l
        <3>2. CASE n = 0
            BY <1>1, <3>1, <3>2
        <3>3. CASE n = 1
            BY <1>1, <3>1, <3>3
        <3>4. CASE n = 2
            BY <1>1, <3>1, <3>4
        <3>. QED  BY <1>2, <3>2, <3>3, <3>4
    <2>5. AttemptsSuffice'
        <3>. SUFFICES ASSUME ~disturbed' PROVE AttemptsSuffice'
            BY DEF AttemptsSuffice
        <3>1. ending' = "flushing" /\ Len(samples') <= (2 - n) * SampleBatch
            BY <2>4
        <3>2. samples' \in Seq(Nat)
            BY <2>2 DEF Ordered
        <3>3. Len(samples') \in Nat /\ (Len(samples') = 0 <=> samples' = <<>>)
            BY <3>2, EmptySeq
        <3>4. CASE n = 0
            BY <1>1, <2>1, <3>1, <3>4 DEF AttemptsSuffice
        <3>5. CASE n = 1
            BY <1>1, <2>1, <3>1, <3>5 DEF AttemptsSuffice
        <3>6. CASE n = 2
          BY <1>1, <3>1, <3>3, <3>6, <2>1 DEF AttemptsSuffice
        <3>. QED  BY <1>2, <3>4, <3>5, <3>6
    <2>. QED  BY <2>2, <2>3, <2>5 DEF ArchiveIInv, Accounted
<1>3. CASE ~(n < 3 /\ samples # <<>>)
    <2>1. ending' = "returned" /\ UNCHANGED <<attempt, samples, batch, flushing>>
        BY <1>3 DEF Archive!Attempt
    <2>2. Ordered(samples, batch, flushing, dropped)' /\ Accounted'
        <3>1. Ordered(samples, batch, flushing, dropped)'
            BY <2>1 DEF Ordered, Increasing, Before, In, Archive!ToSet
        <3>2. Accounted'
            BY <2>1 DEF Accounted, In, Archive!ToSet
        <3>. QED  BY <3>1, <3>2
    <2>3. ArchiveTypes'
        BY <2>1 DEF ArchiveTypes
    <2>4. ~disturbed' => samples = <<>> /\ batch = <<>>
        <3>. SUFFICES ASSUME ~disturbed' PROVE samples = <<>> /\ batch = <<>>
            OBVIOUS
        <3>1. batch = <<>>
            BY DEF Ordered
        <3>2. n = 3 => l = 0
            <4>. HIDE DEF l
            <4>1. n = 3 => l <= 0
                BY <1>1 DEF l
            <4>. QED  BY <1>1, <4>1
        <3>3. l = 0 => samples = <<>>
            BY <1>1, EmptySeq
        <3>. QED  BY <1>3, <3>1, <3>2, <3>3
    <2>5. AttemptsSuffice'
        BY <2>1, <2>4 DEF AttemptsSuffice
    <2>. QED  BY <2>2, <2>3, <2>5 DEF ArchiveIInv, Accounted
<1>. QED  BY <1>2, <1>3

LEMMA ArchiveStep == ArchiveIInv /\ [Archive!Next]_archiveVars => ArchiveIInv'
<1>. SUFFICES ASSUME ArchiveIInv, [Archive!Next]_archiveVars PROVE ArchiveIInv'
    OBVIOUS
<1>1. ArchiveTypes /\ Ordered(samples, batch, flushing, dropped) /\ Accounted /\ AttemptsSuffice
    BY Parts
<1>2. CASE Archive!Enqueue
    BY <1>2, AcceptStep
<1>3. CASE Archive!TimerFlush
    BY <1>3, TimerStep
<1>4. CASE Archive!WriteSucceeds
    BY <1>4, SucceedStep
<1>5. ASSUME NEW inserted \in SUBSET In(batch), Archive!WriteFails(inserted) PROVE ArchiveIInv'
    BY <1>5, FailStep
<1>6. CASE Archive!Close
    <2>1. /\ Archive!Attempt(0) /\ UNCHANGED <<backoff, accepted, archived, dropped>>
          /\ disturbed' = (flushing \/ Len(samples) > 3 * SampleBatch)
        BY <1>6 DEF Archive!Close, Archive!ghosts
    <2>2. Len(samples) \in Nat /\ SampleBatch \in Nat
        BY <1>1, BuffersAssumption DEF Ordered
    <2>3. ~disturbed' => ~flushing /\ Len(samples) <= (3 - 0) * SampleBatch
        <3>1. ~(Len(samples) > 3 * SampleBatch) => Len(samples) <= (3 - 0) * SampleBatch
            BY <2>2
        <3>. QED  BY <2>1, <3>1, Zenon
    <2>4. disturbed' \in BOOLEAN
        BY <2>1, Zenon
    <2>. QED  BY <1>1, <2>1, <2>3, <2>4, AttemptKeeps
<1>7. CASE Archive!CloseResumes
    <2>1. /\ (ending = "flushing" /\ ~flushing) \/ ending = "refused"
          /\ Archive!Attempt(attempt)
          /\ UNCHANGED <<backoff, accepted, archived, dropped, disturbed>>
        BY <1>7 DEF Archive!CloseResumes, Archive!ghosts
    <2>2. /\ Len(samples) \in Nat /\ SampleBatch \in Nat /\ attempt \in 0..3
          /\ samples = <<>> => Len(samples) = 0
        BY <1>1, BuffersAssumption DEF Ordered, ArchiveTypes
    <2>3. ~disturbed => ~flushing /\ ending = "flushing"
        BY <1>1, <2>1 DEF AttemptsSuffice
    <2>4. ~disturbed => Len(samples) <= (3 - attempt) * SampleBatch
        <3>. SUFFICES ASSUME ~disturbed PROVE Len(samples) <= (3 - attempt) * SampleBatch
            OBVIOUS
        <3>1. CASE attempt = 1
            BY <1>1, <2>2, <2>3, <3>1 DEF AttemptsSuffice
        <3>2. CASE attempt = 2
            BY <1>1, <2>2, <2>3, <3>2 DEF AttemptsSuffice
        <3>3. CASE attempt = 3
            BY <1>1, <2>2, <2>3, <3>3 DEF AttemptsSuffice
        <3>. QED  BY <1>1, <2>2, <2>3, <3>1, <3>2, <3>3 DEF AttemptsSuffice
    <2>5. disturbed' \in BOOLEAN /\ disturbed' = disturbed
        BY <1>1, <2>1 DEF ArchiveTypes
    <2>. QED  BY <1>1, <2>1, <2>2, <2>3, <2>4, <2>5, AttemptKeeps
<1>8. CASE Archive!BackoffEnds \/ UNCHANGED archiveVars
    <2>1. /\ UNCHANGED <<samples, batch, flushing, ending, attempt>>
          /\ UNCHANGED <<accepted, archived, dropped, disturbed>>
          /\ backoff' \in BOOLEAN
        BY <1>1, <1>8 DEF Archive!BackoffEnds, Archive!close, Archive!ghosts, archiveVars,
            ArchiveTypes
    <2>2. /\ Ordered(samples, batch, flushing, dropped)' /\ Accounted'
          /\ ArchiveTypes' /\ AttemptsSuffice'
        BY <1>1, <2>1 DEF Ordered, Increasing, Before, Accounted, In, Archive!ToSet, ArchiveTypes,
                          AttemptsSuffice
    <2>. QED  BY <2>2 DEF ArchiveIInv, Accounted
<1>. QED  BY <1>2, <1>3, <1>4, <1>5, <1>6, <1>7, <1>8 DEF Archive!Next, In

LEMMA SeqOver ==
    ASSUME NEW T, NEW s \in Seq(Nat), \A i \in 1..Len(s) : s[i] \in T
    PROVE  s \in Seq(T)
OBVIOUS

LEMMA ArchiveHolds == ArchiveIInv => Archive!ArchiveInv
<1>. SUFFICES ASSUME ArchiveIInv PROVE Archive!ArchiveInv
    OBVIOUS
<1>1. ArchiveTypes /\ Ordered(samples, batch, flushing, dropped) /\ Accounted /\ AttemptsSuffice
    BY Parts
<1>2. /\ samples \in Seq(Nat) /\ batch \in Seq(Nat) /\ Increasing(samples) /\ Increasing(batch)
      /\ Before(In(batch), In(samples)) /\ Before(dropped, In(samples))
    BY <1>1 DEF Ordered
<1>3. accepted \in Nat /\ 1..accepted \subseteq 1..MaxSamples
    BY <1>1, BuffersAssumption DEF ArchiveTypes
<1>4. /\ In(samples) \subseteq 1..MaxSamples /\ In(batch) \subseteq 1..MaxSamples
      /\ archived \subseteq 1..MaxSamples /\ dropped \subseteq 1..MaxSamples
    BY <1>1, <1>3 DEF Accounted
<1>5. samples \in Seq(1..MaxSamples) /\ batch \in Seq(1..MaxSamples)
    <2>1. ASSUME NEW s \in Seq(Nat), In(s) \subseteq 1..MaxSamples PROVE s \in Seq(1..MaxSamples)
      BY <2>1, InSeq, SeqOver
    <2>. QED  BY <1>2, <1>4, <2>1
<1>6. Archive!TypeOK
    BY <1>1, <1>4, <1>5 DEF Archive!TypeOK, Archive!Samples, ArchiveTypes, Ordered
<1>7. Archive!NoSampleVanishes
    BY <1>1 DEF Archive!NoSampleVanishes, Accounted, In
<1>8. Archive!DropsTheOldest
    <2>1. PICK z : z = batch \o samples
        OBVIOUS
    <2>2. z \in Seq(Nat) /\ Increasing(z)
        BY <1>2, <2>1, Chained
    <2>3. \A i, j \in DOMAIN z : i < j => z[i] < z[j]
        BY <2>2 DEF Increasing
    <2>. QED  BY <1>2, <2>1, <2>3 DEF Archive!DropsTheOldest, Before, In
<1>9. Archive!UndisturbedCloseArchives
  BY <1>1, InEmpty DEF AttemptsSuffice, Archive!UndisturbedCloseArchives, Accounted
<1>. QED  BY <1>6, <1>7, <1>8, <1>9 DEF Archive!ArchiveInv

-----------------------------------------------------------------------------
(* The writer of the latest values.                                        *)

LEMMA SameCardinality == \A S : Writer!Cardinality(S) = Cardinality(S)
BY DEF Writer!Cardinality, Cardinality

\* The members of a set of places, by their rank.
LEMMA Ranked ==
    ASSUME NEW m \in Nat, NEW S \in SUBSET (1..m)
    PROVE  /\ IsFiniteSet(S) /\ Cardinality(S) \in Nat /\ Cardinality(S) <= m
           /\ \A n \in 1..Cardinality(S) : Writer!Nth(S, n) \in S
           /\ \A i \in S : \E n \in 1..Cardinality(S) : Writer!Nth(S, n) = i
           /\ \A n, l \in 1..Cardinality(S) : Writer!Nth(S, n) = Writer!Nth(S, l) => n = l
<1>. DEFINE upTo(i) == {j \in S : j <= i}
            c == Cardinality(S)
            r == [i \in S |-> Cardinality(upTo(i))]
<1>1. IsFiniteSet(S) /\ c \in Nat /\ c <= m
    <2>1. IsFiniteSet(1..m) /\ Cardinality(1..m) = m
        BY FS_Interval
    <2>. QED  BY <2>1, FS_Subset, FS_CardinalityType
<1>2. \A i \in S : IsFiniteSet(upTo(i)) /\ r[i] \in Nat /\ r[i] <= c
    <2>. TAKE i \in S
    <2>1. upTo(i) \in SUBSET S
        OBVIOUS
    <2>. QED  BY <1>1, <2>1, FS_Subset, FS_CardinalityType
<1>3. \A i \in S : r[i] \in 1..c
    <2>. TAKE i \in S
    <2>1. i \in upTo(i)
        OBVIOUS
    <2>2. r[i] # 0
        BY <1>2, <2>1, FS_EmptySet
    <2>. QED  BY <1>1, <1>2, <2>2
<1>4. \A i, j \in S : i < j => r[i] < r[j]
    <2>. SUFFICES ASSUME NEW i \in S, NEW j \in S, i < j PROVE r[i] < r[j]
        OBVIOUS
    <2>1. upTo(i) \in SUBSET upTo(j) /\ j \in upTo(j) /\ j \notin upTo(i)
        <3>1. \A k \in S : k \in Int
            OBVIOUS
        <3>2. \A k \in S : k <= i => k <= j
            BY <3>1
        <3>3. j <= j /\ ~(j <= i)
            BY <3>1
        <3>. QED  BY <3>2, <3>3
    <2>2. upTo(i) # upTo(j)
        BY <2>1
    <2>3. /\ Cardinality(upTo(i)) <= Cardinality(upTo(j))
          /\ Cardinality(upTo(j)) = Cardinality(upTo(i)) => upTo(j) = upTo(i)
        BY <1>2, <2>1, FS_Subset
    <2>. QED  BY <1>2, <2>2, <2>3
<1>5. \A i, j \in S : r[i] = r[j] => i = j
    <2>. SUFFICES ASSUME NEW i \in S, NEW j \in S, r[i] = r[j] PROVE i = j
        OBVIOUS
    <2>1. i \in Int /\ j \in Int /\ r[i] \in Int
        BY <1>2
    <2>2. ~(i < j) /\ ~(j < i)
        BY <1>4, <2>1
    <2>. QED  BY <2>1, <2>2
<1>. HIDE DEF r
<1>6. r \in [S -> 1..c]
    BY <1>3 DEF r
<1>7. \A n \in 1..c : \E i \in S : r[i] = n
    <2>1. r \in Injection(S, 1..c)
        BY <1>5, <1>6 DEF Injection, IsInjective
    <2>2. IsFiniteSet(1..c) /\ Cardinality(1..c) = c
        BY <1>1, FS_Interval
    <2>3. r \in Surjection(S, 1..c)
        BY <2>1, <2>2, FS_Injection
    <2>. QED  BY <2>3 DEF Surjection
<1>8. \A n \in 1..c : Writer!Nth(S, n) \in S /\ r[Writer!Nth(S, n)] = n
    <2>. TAKE n \in 1..c
    <2>1. Writer!Nth(S, n) = CHOOSE i \in S : r[i] = n
      BY SameCardinality DEF r, Writer!Nth
    <2>. QED  BY <1>7, <2>1
<1>. QED  BY <1>1, <1>3, <1>5, <1>8

LEMMA KeysIn ==
    ASSUME NEW S, NEW x \in Seq(S), NEW k
    PROVE  k \in Writer!KeysOf(x) <=> \E i \in 1..Len(x) : x[i].key = k
BY DEF Writer!KeysOf

\* A map from keys to values, as a sequence of entries.
OneEach(x) == \A i, j \in 1..Len(x) : x[i].key = x[j].key => i = j

\* y is what remains of x without some keys.
Remains(y, x, ks) ==
    /\ Len(y) <= Len(x)
    /\ OneEach(y)
    /\ \A n \in 1..Len(y) : y[n].key \notin ks
    /\ \A n \in 1..Len(y) : \E i \in 1..Len(x) : y[n] = x[i]
    /\ \A i \in 1..Len(x) : x[i].key \notin ks => \E n \in 1..Len(y) : y[n] = x[i]

LEMMA WithoutEffect ==
    ASSUME NEW x \in Seq(Writer!Entry), OneEach(x), NEW ks, NEW y, y = Writer!Without(x, ks)
    PROVE  y \in Seq(Writer!Entry) /\ Remains(y, x, ks)
<1>. DEFINE m == Len(x)
            others == {i \in 1..m : x[i].key \notin ks}
            c == Cardinality(others)
            at(n) == Writer!Nth(others, n)
<1>1. m \in Nat /\ others \in SUBSET (1..m) /\ DOMAIN x = 1..m /\ \A i \in 1..m : x[i] \in Writer!Entry
    OBVIOUS
<1>2. y = [n \in 1..c |-> x[at(n)]]
    BY <1>1, SameCardinality DEF Writer!Without
<1>3. \A i \in 1..m : i \in others <=> x[i].key \notin ks
    OBVIOUS
<1>4. /\ c \in Nat /\ c <= m
      /\ \A n \in 1..c : at(n) \in others
      /\ \A i \in others : \E n \in 1..c : at(n) = i
      /\ \A n, l \in 1..c : at(n) = at(l) => n = l
    <2>. HIDE DEF others
    <2>. QED  BY <1>1, Ranked
<1>5. \A i \in others : i \in 1..m
    OBVIOUS
<1>. HIDE DEF others, at
<1>6. \A n \in 1..c : y[n] = x[at(n)] /\ at(n) \in 1..m /\ x[at(n)].key \notin ks
    BY <1>2, <1>3, <1>4, <1>5
<1>7. y \in Seq(Writer!Entry) /\ Len(y) = c
    <2>1. \A n \in 1..c : x[at(n)] \in Writer!Entry
        BY <1>1, <1>6
    <2>2. y \in [1..c -> Writer!Entry]
        BY <1>2, <2>1
    <2>. HIDE DEF c
    <2>. QED  BY <1>4, <2>2
<1>. HIDE DEF c, m
<1>8. OneEach(y)
    <2>. SUFFICES ASSUME NEW n \in 1..c, NEW l \in 1..c, y[n].key = y[l].key PROVE n = l
        BY <1>7 DEF OneEach
    <2>1. at(n) = at(l)
        BY <1>6 DEF OneEach, m
    <2>. QED  BY <1>4, <2>1
<1>9. \A i \in 1..m : x[i].key \notin ks => \E n \in 1..c : y[n] = x[i]
    BY <1>3, <1>4, <1>6
<1>. QED  BY <1>4, <1>6, <1>7, <1>8, <1>9 DEF m, Remains

\* Without one key.
LEMMA WithoutOne ==
    ASSUME NEW S, NEW x \in Seq(S), OneEach(x), NEW k, NEW y, y = Writer!Without(x, {k})
    PROVE  Len(y) >= Len(x) - 1
<1>. DEFINE m == Len(x)
            others == {i \in 1..m : x[i].key \notin {k}}
            c == Cardinality(others)
<1>1. m \in Nat /\ DOMAIN x = 1..m
    OBVIOUS
<1>2. y = [n \in 1..c |-> x[Writer!Nth(others, n)]]
    BY <1>1, SameCardinality DEF Writer!Without
<1>3. IsFiniteSet(1..m) /\ Cardinality(1..m) = m
    BY <1>1, FS_Interval
<1>4. c \in Nat /\ c >= m - 1
    <2>1. CASE \E i \in 1..m : x[i].key = k
        <3>1. PICK i \in 1..m : x[i].key = k
            BY <2>1
        <3>2. others = (1..m) \ {i}
            BY <3>1 DEF OneEach
        <3>. HIDE DEF others, m
        <3>3. Cardinality((1..m) \ {i}) = m - 1
            BY <1>1, <1>3, FS_RemoveElement
        <3>4. c = m - 1 /\ c \in Nat
          BY <1>3, FS_RemoveElement, <3>2, <3>3, FS_CardinalityType
        <3>. QED  BY <1>1, <3>4
    <2>2. CASE ~(\E i \in 1..m : x[i].key = k)
        <3>1. others = 1..m
            BY <2>2
        <3>. HIDE DEF others, m
        <3>2. c = m
            BY <1>3, <3>1
        <3>. QED  BY <1>1, <3>2
    <2>. QED  BY <2>1, <2>2
<1>. HIDE DEF c, others
<1>5. Len(y) = c
    BY <1>2, <1>4
<1>. QED  BY <1>4, <1>5 DEF m

\* a and b are the parts of x before and after a place.
Halves(x, m, a, b) ==
    /\ Len(a) = m /\ \A i \in 1..m : a[i] = x[i]
    /\ Len(b) = Len(x) - m
    /\ \A i \in 1..(Len(x) - m) : b[i] = x[i + m] /\ i + m \in 1..Len(x)
    /\ \A i \in 1..Len(x) : \/ i \in 1..m
                            \/ i - m \in 1..(Len(x) - m) /\ b[i - m] = x[i]

LEMMA InTwo ==
    ASSUME NEW x \in Seq(Writer!Entry), NEW m \in 0..Len(x),
           NEW a, a = SubSeq(x, 1, m), NEW b, b = SubSeq(x, m + 1, Len(x))
    PROVE  a \in Seq(Writer!Entry) /\ b \in Seq(Writer!Entry) /\ Halves(x, m, a, b)
<1>. DEFINE n == Len(x)
<1>1. n \in Nat /\ m \in Nat /\ m <= n /\ \A i \in 1..n : x[i] \in Writer!Entry
    OBVIOUS
<1>2. a \in Seq(Writer!Entry) /\ Len(a) = m /\ \A i \in 1..m : a[i] = x[i]
  BY <1>1, SubSeqProperties
<1>3. b \in Seq(Writer!Entry) /\ Len(b) = n - m /\ \A i \in 1..(n - m) : b[i] = x[i + m]
  BY <1>1, SubSeqProperties
<1>. HIDE DEF n
<1>4. \A i \in 1..(n - m) : i + m \in 1..n
    BY <1>1
<1>5. \A i \in 1..n : i \in 1..m \/ (i - m \in 1..(n - m) /\ (i - m) + m = i)
    BY <1>1
<1>6. \A i \in 1..n : i \in 1..m \/ (i - m \in 1..(n - m) /\ b[i - m] = x[i])
    <2>. TAKE i \in 1..n
    <2>1. CASE i - m \in 1..(n - m) /\ (i - m) + m = i
      BY <1>3, <2>1
    <2>. QED  BY <1>5, <2>1
<1>. QED  BY <1>2, <1>3, <1>4, <1>6 DEF n, Halves

\* A part of a map.
LEMMA PartOfMap ==
    ASSUME NEW S, NEW x \in Seq(S), OneEach(x), NEW y \in Seq(S), NEW m \in Nat,
           \A i \in 1..Len(y) : i + m \in 1..Len(x) /\ y[i] = x[i + m]
    PROVE  OneEach(y)
<1>. SUFFICES ASSUME NEW i \in 1..Len(y), NEW j \in 1..Len(y), y[i].key = y[j].key PROVE i = j
    BY DEF OneEach
<1>1. i + m = j + m
    BY DEF OneEach
<1>. QED  BY <1>1

LEMMA ValueIsThere ==
    ASSUME NEW S, NEW x \in Seq(S), OneEach(x), NEW i \in 1..Len(x)
    PROVE  Writer!ValueIn(x, x[i].key) = x[i].value
BY DEF Writer!ToSet, OneEach, Writer!ValueIn

LEMMA EntryShape ==
    /\ \A e \in Writer!Entry : e.key \in ValueKeys /\ e.value \in Nat /\ e.value > 0 /\ e.value <= MaxValues
    /\ Writer!Entry \subseteq [key : ValueKeys, value : Nat]
    /\ MaxPending \in Nat /\ MaxPending > 0 /\ ValueBatch \in Nat /\ ValueBatch > 0 /\ MaxValues \in Nat
BY BuffersAssumption DEF Writer!Entry

\* What an overflow leaves, and the values it costs.
Trimmed(y, e, x, d) ==
    /\ Len(y) <= MaxPending /\ Len(y) <= Len(x) /\ OneEach(y)
    /\ Len(x) >= MaxPending => Len(y) = MaxPending
    /\ \A i \in 1..Len(y) : /\ i + (Len(x) - Len(y)) \in 1..Len(x)
                            /\ y[i] = x[i + (Len(x) - Len(y))]
    /\ e \in [ValueKeys -> Nat]
    /\ \A k \in ValueKeys : /\ e[k] >= d[k]
                            /\ \/ e[k] = d[k]
                               \/ \E i \in 1..Len(x) : x[i].key = k /\ e[k] = x[i].value
    /\ \A i \in 1..Len(x) : \/ \E j \in 1..Len(y) : y[j] = x[i]
                            \/ e[x[i].key] >= x[i].value

LEMMA TrimEffect ==
    ASSUME NEW x \in Seq(Writer!Entry), OneEach(x), overflowed \in [ValueKeys -> Nat],
           NEW y, y = Writer!Trim(x), NEW e, e = Writer!Lost(x)
    PROVE  y \in Seq(Writer!Entry) /\ Trimmed(y, e, x, overflowed)
<1>. DEFINE n == Len(x)
            m == Writer!Overflow(x)
            gone == SubSeq(x, 1, m)
<1>1. n \in Nat /\ m = IF n > MaxPending THEN n - MaxPending ELSE 0
    BY DEF Writer!Overflow
<1>. HIDE DEF n, m
<1>2. m \in 0..n /\ m \in Nat /\ n - m <= MaxPending /\ (n >= MaxPending => n - m = MaxPending)
    BY <1>1, EntryShape
<1>3. y = SubSeq(x, m + 1, n)
    BY DEF Writer!Trim, m, n
<1>4. /\ gone \in Seq(Writer!Entry) /\ Len(gone) = m /\ \A i \in 1..m : gone[i] = x[i]
      /\ y \in Seq(Writer!Entry) /\ Len(y) = n - m
      /\ \A i \in 1..(n - m) : y[i] = x[i + m] /\ i + m \in 1..n
      /\ \A i \in 1..n : \/ i \in 1..m
                         \/ i - m \in 1..(n - m) /\ y[i - m] = x[i]
    <2>1. m \in 0..Len(x) /\ y = SubSeq(x, m + 1, Len(x)) /\ gone = SubSeq(x, 1, m)
        BY <1>2, <1>3 DEF n
    <2>. HIDE DEF gone
    <2>2. gone \in Seq(Writer!Entry) /\ y \in Seq(Writer!Entry) /\ Halves(x, m, gone, y)
        BY <2>1, InTwo
    <2>. QED  BY <2>2 DEF n, Halves
<1>5. n - Len(y) = m
    BY <1>1, <1>2, <1>4
<1>6. OneEach(y)
    <2>1. \A i \in 1..Len(y) : i + m \in 1..Len(x) /\ y[i] = x[i + m]
        BY <1>4 DEF n
    <2>2. m \in Nat
        BY <1>2
    <2>. QED  BY <1>4, <2>1, <2>2, PartOfMap
<1>7. e = [k \in ValueKeys |-> IF k \in Writer!KeysOf(gone) /\ Writer!ValueIn(gone, k) > overflowed[k]
                               THEN Writer!ValueIn(gone, k) ELSE overflowed[k]]
    BY DEF Writer!Lost, m
<1>. HIDE DEF gone
<1>8. \A i \in 1..m : i \in 1..n
    BY <1>1, <1>2
<1>9. OneEach(gone)
    BY <1>4, <1>8 DEF OneEach, n
<1>10. \A i \in 1..n : x[i].key \in ValueKeys /\ x[i].value \in Nat
    BY EntryShape DEF n
<1>11. \A i \in 1..m : Writer!ValueIn(gone, x[i].key) = x[i].value /\ x[i].key \in Writer!KeysOf(gone)
    <2>. TAKE i \in 1..m
    <2>1. Writer!ValueIn(gone, gone[i].key) = gone[i].value
        BY <1>4, <1>9, ValueIsThere
    <2>2. gone[i].key \in Writer!KeysOf(gone)
        BY <1>4, KeysIn
    <2>. QED  BY <1>4, <2>1, <2>2
<1>12. ASSUME NEW k \in ValueKeys
       PROVE  /\ e[k] \in Nat /\ e[k] >= overflowed[k]
              /\ \/ e[k] = overflowed[k]
                 \/ \E i \in 1..n : x[i].key = k /\ e[k] = x[i].value
    <2>1. CASE k \in Writer!KeysOf(gone)
        <3>1. PICK i \in 1..m : gone[i].key = k
            BY <1>4, <2>1, KeysIn
        <3>2. x[i].key = k
            BY <1>4, <3>1
        <3>3. Writer!ValueIn(gone, k) = x[i].value /\ x[i].value \in Nat
            BY <1>8, <1>10, <1>11, <3>2
        <3>4. e[k] = IF x[i].value > overflowed[k] THEN x[i].value ELSE overflowed[k]
            BY <1>7, <2>1, <3>3
        <3>. QED  BY <1>8, <3>2, <3>3, <3>4
    <2>2. CASE k \notin Writer!KeysOf(gone)
      BY <1>7, <2>2
    <2>. QED  BY <2>1, <2>2
<1>13. ASSUME NEW i \in 1..m PROVE e[x[i].key] >= x[i].value
  BY <1>8, <1>10, <1>7, <1>11
<1>14. e \in [ValueKeys -> Nat]
  BY <1>7, <1>12
<1>15. Len(y) <= n
    BY <1>1, <1>2, <1>4
<1>16. \A i \in 1..n : (\E j \in 1..Len(y) : y[j] = x[i]) \/ e[x[i].key] >= x[i].value
    BY <1>4, <1>13
<1>17. \A i \in 1..Len(y) : i + (n - Len(y)) \in 1..n /\ y[i] = x[i + (n - Len(y))]
    BY <1>4, <1>5
<1>18. Len(y) <= MaxPending /\ (n >= MaxPending => Len(y) = MaxPending)
    BY <1>2, <1>4
<1>. QED  BY <1>4, <1>6, <1>12, <1>14, <1>15, <1>16, <1>17, <1>18 DEF n, Trimmed

\* The books of the writer: p waits, b is written while fl says so; o, s and d
\* are the newest value offered, stored and dropped of each key, n all offers.
Held(p, o) ==
    /\ p \in Seq(Writer!Entry) /\ Len(p) <= MaxPending
    /\ OneEach(p)
    /\ \A i \in 1..Len(p) : p[i].value = o[p[i].key]

Waits(k, p) == \E i \in 1..Len(p) : p[i].key = k

InFlight(p, b, fl, o, s) ==
    /\ b \in Seq(Writer!Entry) /\ Len(b) <= ValueBatch
    /\ fl = "writing" =>
          /\ OneEach(b)
          /\ \A i \in 1..Len(b) :
                /\ s[b[i].key] <= b[i].value /\ b[i].value <= o[b[i].key]
                /\ \/ Waits(b[i].key, p) \/ b[i].value = o[b[i].key]
                   \/ Len(p) = MaxPending

Somewhere(k, p, b, fl, o, s, d) ==
    \/ Waits(k, p)
    \/ fl = "writing" /\ \E i \in 1..Len(b) : b[i].key = k /\ b[i].value = o[k]
    \/ s[k] = o[k]
    \/ d[k] = o[k]

Marks(o, s, d, n) ==
    /\ n \in Nat /\ n <= MaxValues
    /\ o \in [ValueKeys -> Nat] /\ s \in [ValueKeys -> Nat] /\ d \in [ValueKeys -> Nat]
    /\ \A k \in ValueKeys : o[k] <= n /\ s[k] <= o[k] /\ d[k] <= o[k]

Books(p, b, fl, o, s, d, n) ==
    /\ Held(p, o) /\ InFlight(p, b, fl, o, s) /\ Marks(o, s, d, n)
    /\ \A k \in ValueKeys : o[k] > 0 => Somewhere(k, p, b, fl, o, s, d)

\* A value arrives for a key, in the place of the one that waits.
Arrival(p, k, o) == Append(Writer!Without(p, {k}), [key |-> k, value |-> o[k] + 1])

Raised(o, k) == [o EXCEPT ![k] = o[k] + 1]

Arrived(z, p, k, u) ==
    /\ OneEach(z) /\ Len(z) >= Len(p)
    /\ \A i \in 1..Len(z) : z[i].value = u[z[i].key]
    /\ Waits(k, z)
    /\ \A l : Waits(l, p) => Waits(l, z)

LEMMA ArrivalEffect ==
    ASSUME NEW p, NEW o, NEW s, NEW d, NEW n, Held(p, o), Marks(o, s, d, n), n < MaxValues,
           NEW k \in ValueKeys, NEW z, z = Arrival(p, k, o),
           NEW u, u = Raised(o, k)
    PROVE  z \in Seq(Writer!Entry) /\ Arrived(z, p, k, u)
<1>. DEFINE w == Writer!Without(p, {k})
            e == [key |-> k, value |-> o[k] + 1]
            m == Len(w)
<1>0. p \in Seq(Writer!Entry) /\ OneEach(p) /\ w = Writer!Without(p, {k})
    BY DEF Held
<1>. HIDE DEF w
<1>1. /\ w \in Seq(Writer!Entry) /\ m <= Len(p) /\ OneEach(w)
      /\ \A i \in 1..m : w[i].key \notin {k}
      /\ \A i \in 1..m : \E j \in 1..Len(p) : w[i] = p[j]
      /\ \A j \in 1..Len(p) : p[j].key \notin {k} => \E i \in 1..m : w[i] = p[j]
    <2>1. PICK ks : ks = {k}
        OBVIOUS
    <2>2. w \in Seq(Writer!Entry) /\ Remains(w, p, ks)
        BY <1>0, <2>1, WithoutEffect
    <2>. QED  BY <2>1, <2>2 DEF Remains
<1>2. m >= Len(p) - 1 /\ m \in Nat /\ Len(p) \in Nat
    <2>1. m >= Len(p) - 1
        BY <1>0, WithoutOne
    <2>. QED  BY <1>0, <1>1, <2>1
<1>3. o[k] \in Nat /\ o[k] <= n /\ n \in Nat /\ MaxValues \in Nat
    BY EntryShape DEF Marks
<1>4. e \in Writer!Entry /\ e.key = k /\ e.value = o[k] + 1
  BY <1>3 DEF Writer!Entry
<1>5. u[k] = o[k] + 1 /\ \A l \in ValueKeys : l # k => u[l] = o[l]
    BY DEF Marks, Raised
<1>6. z = Append(w, e)
    BY DEF Arrival, w
<1>. HIDE DEF e
<1>7. /\ z \in Seq(Writer!Entry) /\ Len(z) = m + 1 /\ z[m + 1] = e
      /\ \A i \in 1..m : z[i] = w[i]
    BY <1>1, <1>4, <1>6
<1>. HIDE DEF m
<1>8. \A i \in 1..(m + 1) : i = m + 1 \/ i \in 1..m
    BY <1>2
<1>9. \A i \in 1..m : i \in 1..(m + 1)
    BY <1>2
<1>10. m + 1 \in 1..(m + 1) /\ m + 1 >= Len(p)
    BY <1>2
<1>11. \A i \in 1..m : z[i].key # k /\ z[i] = w[i]
    BY <1>1, <1>7
<1>12. OneEach(z)
    <2>. SUFFICES ASSUME NEW i \in 1..(m + 1), NEW j \in 1..(m + 1), z[i].key = z[j].key PROVE i = j
        BY <1>7 DEF OneEach
    <2>1. CASE i = m + 1
        BY <1>4, <1>7, <1>8, <1>11, <2>1
    <2>2. CASE j = m + 1
        BY <1>4, <1>7, <1>8, <1>11, <2>2
    <2>3. CASE i \in 1..m /\ j \in 1..m
      BY <1>11, <2>3, <1>1 DEF OneEach, m
    <2>. QED  BY <1>8, <2>1, <2>2, <2>3
<1>13. \A i \in 1..(m + 1) : z[i].value = u[z[i].key]
    <2>. SUFFICES ASSUME NEW i \in 1..(m + 1) PROVE z[i].value = u[z[i].key]
        OBVIOUS
    <2>1. CASE i = m + 1
        BY <1>4, <1>5, <1>7, <2>1
    <2>2. CASE i \in 1..m
        <3>1. PICK j \in 1..Len(p) : w[i] = p[j]
            BY <1>1, <2>2
        <3>2. p[j].value = o[p[j].key] /\ p[j].key \in ValueKeys
            BY EntryShape DEF Held
        <3>3. z[i] = p[j] /\ p[j].key # k
            BY <1>11, <2>2, <3>1
        <3>. QED  BY <1>5, <3>2, <3>3
    <2>. QED  BY <1>8, <2>1, <2>2
<1>14. Waits(k, z)
    BY <1>4, <1>7, <1>10 DEF Waits
<1>15. ASSUME NEW l, Waits(l, p) PROVE Waits(l, z)
    <2>1. PICK j \in 1..Len(p) : p[j].key = l
        BY <1>15 DEF Waits
    <2>2. CASE l = k
        BY <1>14, <2>2
    <2>3. CASE l # k
      BY <1>1, <2>1, <2>3, <1>7, <1>9 DEF Waits
    <2>. QED  BY <2>2, <2>3
<1>16. Len(z) >= Len(p)
    BY <1>7, <1>10
<1>. QED  BY <1>7, <1>12, <1>13, <1>14, <1>15, <1>16 DEF Arrived

LEMMA BooksArrive ==
    ASSUME NEW p, NEW b, NEW fl, NEW o, NEW s, NEW n, NEW k \in ValueKeys,
           Books(p, b, fl, o, s, overflowed, n), n < MaxValues,
           NEW z, z = Arrival(p, k, o), NEW y, y = Writer!Trim(z), NEW e, e = Writer!Lost(z),
           NEW u, u = Raised(o, k)
    PROVE  Books(y, b, fl, u, s, e, n + 1) /\ y # <<>>
<1>1. Held(p, o) /\ InFlight(p, b, fl, o, s) /\ Marks(o, s, overflowed, n)
    BY DEF Books
<1>2. /\ z \in Seq(Writer!Entry) /\ OneEach(z) /\ Len(z) >= Len(p)
      /\ \A i \in 1..Len(z) : z[i].value = u[z[i].key]
      /\ Waits(k, z)
      /\ \A l : Waits(l, p) => Waits(l, z)
  BY <1>1, ArrivalEffect DEF Arrived
<1>3. /\ y \in Seq(Writer!Entry) /\ Len(y) <= MaxPending /\ Len(y) <= Len(z) /\ OneEach(y)
      /\ Len(z) >= MaxPending => Len(y) = MaxPending
      /\ \A i \in 1..Len(y) : /\ i + (Len(z) - Len(y)) \in 1..Len(z)
                              /\ y[i] = z[i + (Len(z) - Len(y))]
      /\ e \in [ValueKeys -> Nat]
      /\ \A l \in ValueKeys : /\ e[l] >= overflowed[l]
                              /\ \/ e[l] = overflowed[l]
                                 \/ \E i \in 1..Len(z) : z[i].key = l /\ e[l] = z[i].value
      /\ \A i \in 1..Len(z) : \/ \E j \in 1..Len(y) : y[j] = z[i]
                              \/ e[z[i].key] >= z[i].value
    <2>1. overflowed \in [ValueKeys -> Nat]
        BY <1>1 DEF Marks
    <2>2. y \in Seq(Writer!Entry) /\ Trimmed(y, e, z, overflowed)
        BY <1>2, <2>1, TrimEffect
    <2>. QED  BY <2>2 DEF Trimmed
<1>4. /\ n \in Nat /\ \A l \in ValueKeys : o[l] \in Nat /\ s[l] \in Nat /\ overflowed[l] \in Nat
      /\ \A l \in ValueKeys : o[l] <= n /\ s[l] <= o[l] /\ overflowed[l] <= o[l]
      /\ u[k] = o[k] + 1 /\ \A l \in ValueKeys : l # k => u[l] = o[l]
      /\ u \in [ValueKeys -> Nat]
    BY <1>1 DEF Marks, Raised
<1>5. \A l \in ValueKeys : u[l] \in Nat /\ u[l] >= o[l] /\ u[l] <= n + 1
    <2>. TAKE l \in ValueKeys
    <2>1. CASE l = k
        BY <1>4, <2>1
    <2>2. CASE l # k
        BY <1>4, <2>2
    <2>. QED  BY <2>1, <2>2
<1>6. \A l \in ValueKeys : e[l] \in Nat /\ e[l] <= u[l]
    <2>. SUFFICES ASSUME NEW l \in ValueKeys PROVE e[l] \in Nat /\ e[l] <= u[l]
        OBVIOUS
    <2>1. CASE e[l] = overflowed[l]
      BY <1>4, <1>5, <2>1
    <2>2. CASE \E i \in 1..Len(z) : z[i].key = l /\ e[l] = z[i].value
      BY <1>2, <2>2, <1>5
    <2>. QED  BY <1>3, <2>1, <2>2
<1>7. Marks(u, s, e, n + 1)
  BY <1>4, EntryShape, <1>5, <1>1, <1>3, <1>6 DEF Marks
<1>8. Held(y, u)
    <2>1. \A i \in 1..Len(y) : y[i].value = u[y[i].key]
        <3>. SUFFICES ASSUME NEW i \in 1..Len(y) PROVE y[i].value = u[y[i].key]
            OBVIOUS
        <3>1. PICK j \in 1..Len(z) : y[i] = z[j]
            BY <1>3
        <3>. QED  BY <1>2, <3>1
    <2>. QED  BY <1>3, <2>1 DEF Held
<1>9. \A l : Waits(l, z) => Waits(l, y) \/ Len(y) = MaxPending
    <2>. SUFFICES ASSUME NEW l, Waits(l, z), Len(y) # MaxPending PROVE Waits(l, y)
        OBVIOUS
    <2>1. Len(z) < MaxPending /\ Len(z) \in Nat /\ Len(y) \in Nat
        BY <1>2, <1>3, EntryShape
    <2>2. PICK i \in 1..Len(z) : z[i].key = l
        BY DEF Waits
    <2>3. Writer!Trim(z) = SubSeq(z, 1, Len(z))
        <3>1. Writer!Overflow(z) = 0
            BY <2>1, EntryShape DEF Writer!Overflow
        <3>2. Writer!Trim(z) = SubSeq(z, 0 + 1, Len(z))
            BY <3>1 DEF Writer!Trim
        <3>. QED  BY <3>2
    <2>4. y = z
        BY <1>2, <2>3
    <2>. QED  BY <2>4
<1>10. ASSUME fl = "writing", NEW i \in 1..Len(b)
       PROVE  /\ s[b[i].key] <= b[i].value /\ b[i].value <= u[b[i].key]
              /\ \/ Waits(b[i].key, y) \/ b[i].value = u[b[i].key]
                 \/ Len(y) = MaxPending
    <2>. DEFINE l == b[i].key
    <2>1. b[i] \in Writer!Entry /\ l \in ValueKeys /\ b[i].value \in Nat
        BY <1>1, EntryShape DEF InFlight
    <2>2. /\ s[l] <= b[i].value /\ b[i].value <= o[l]
          /\ Waits(l, p) \/ b[i].value = o[l] \/ Len(p) = MaxPending
        BY <1>1, <1>10 DEF InFlight
    <2>3. b[i].value <= u[l]
        BY <1>4, <1>5, <2>1, <2>2
    <2>4. Waits(l, y) \/ b[i].value = u[l] \/ Len(y) = MaxPending
        <3>1. CASE Waits(l, p) \/ l = k
            BY <1>2, <1>9, <3>1
        <3>2. CASE b[i].value = o[l] /\ l # k
            BY <1>4, <2>1, <3>2
        <3>3. CASE Len(p) = MaxPending
          BY <1>2, <3>3, <1>3
        <3>. QED  BY <2>2, <3>1, <3>2, <3>3
    <2>. QED  BY <2>2, <2>3, <2>4
<1>11. InFlight(y, b, fl, u, s)
    BY <1>1, <1>10 DEF InFlight
<1>12. \A l \in ValueKeys : Waits(l, z) => Waits(l, y) \/ e[l] = u[l]
    <2>. SUFFICES ASSUME NEW l \in ValueKeys, Waits(l, z) PROVE Waits(l, y) \/ e[l] = u[l]
        OBVIOUS
    <2>1. PICK i \in 1..Len(z) : z[i].key = l
        BY DEF Waits
    <2>2. CASE \E j \in 1..Len(y) : y[j] = z[i]
        BY <2>1, <2>2 DEF Waits
    <2>3. CASE e[z[i].key] >= z[i].value
      BY <1>2, <2>1, <1>5, <1>6, <2>3
    <2>. QED  BY <1>3, <2>2, <2>3
<1>13. ASSUME NEW l \in ValueKeys, u[l] > 0 PROVE Somewhere(l, y, b, fl, u, s, e)
    <2>1. CASE Waits(l, z)
        BY <1>12, <2>1 DEF Somewhere
    <2>2. CASE ~Waits(l, z)
        <3>1. l # k /\ u[l] = o[l] /\ ~Waits(l, p)
            BY <1>2, <1>4, <2>2
        <3>2. Somewhere(l, p, b, fl, o, s, overflowed)
            BY <1>13, <3>1 DEF Books
        <3>3. CASE overflowed[l] = o[l]
          BY <1>3, <1>4, <1>5, <1>6, <3>1, <3>3 DEF Somewhere
        <3>. QED  BY <3>1, <3>2, <3>3 DEF Somewhere
    <2>. QED  BY <2>1, <2>2
<1>14. y # <<>>
    <2>1. Waits(k, y) \/ Len(y) = MaxPending
        BY <1>2, <1>9
    <2>2. Waits(k, y) => y # <<>>
        BY DEF Waits
    <2>3. Len(y) = MaxPending => y # <<>>
        BY EntryShape
    <2>. QED  BY <2>1, <2>2, <2>3
<1>. QED  BY <1>7, <1>8, <1>11, <1>13, <1>14 DEF Books

\* A flush takes the first entries.
LEMMA BooksTake ==
    ASSUME NEW p, NEW b, NEW fl, NEW o, NEW s, NEW d, NEW n, Books(p, b, fl, o, s, d, n), fl # "writing",
           NEW c, c = SubSeq(p, 1, Writer!Least(ValueBatch, Len(p))),
           NEW y, y = SubSeq(p, ValueBatch + 1, Len(p))
    PROVE  Books(y, c, "writing", o, s, d, n)
<1>. DEFINE m == Writer!Least(ValueBatch, Len(p))
            l == Len(p)
<1>1. Held(p, o) /\ Marks(o, s, d, n) /\ p \in Seq(Writer!Entry) /\ OneEach(p)
    BY DEF Books, Held
<1>2. l \in Nat /\ ValueBatch \in Nat /\ m \in 0..l /\ m <= ValueBatch /\ m = IF ValueBatch < l THEN ValueBatch ELSE l
    BY <1>1, EntryShape DEF Writer!Least
<1>3. y = SubSeq(p, m + 1, l)
    <2>1. CASE ValueBatch < l
        BY <1>2, <2>1
    <2>2. CASE ~(ValueBatch < l)
        <3>1. \A q1 \in Nat : q1 >= l + 1 => SubSeq(p, q1, l) = <<>>
            <4>. SUFFICES ASSUME NEW q1 \in Nat, q1 >= l + 1 PROVE SubSeq(p, q1, l) = <<>>
                OBVIOUS
            <4>0. q1 \in Int /\ l \in Int /\ ~(q1 <= l)
                BY <1>2
            <4>1. \A i \in q1..l : p[i] \in Writer!Entry
                BY <4>0
            <4>2. SubSeq(p, q1, l) \in Seq(Writer!Entry) /\ Len(SubSeq(p, q1, l)) = 0
                BY <4>0, <4>1, SubSeqProperties
            <4>. QED  BY <4>2, EmptySeq
        <3>2. ValueBatch + 1 \in Nat /\ ValueBatch + 1 >= l + 1 /\ m + 1 \in Nat /\ m + 1 >= l + 1
            BY <1>2, <2>2
        <3>. QED  BY <3>1, <3>2
    <2>. QED  BY <2>1, <2>2
<1>. HIDE DEF m, l
<1>4. /\ c \in Seq(Writer!Entry) /\ Len(c) = m /\ \A i \in 1..m : c[i] = p[i]
      /\ y \in Seq(Writer!Entry) /\ Len(y) = l - m
      /\ \A i \in 1..(l - m) : y[i] = p[i + m] /\ i + m \in 1..l
      /\ \A i \in 1..l : \/ i \in 1..m
                         \/ i - m \in 1..(l - m) /\ y[i - m] = p[i]
    <2>1. m \in 0..Len(p) /\ c = SubSeq(p, 1, m) /\ y = SubSeq(p, m + 1, Len(p))
        BY <1>2, <1>3 DEF l, m
    <2>2. c \in Seq(Writer!Entry) /\ y \in Seq(Writer!Entry) /\ Halves(p, m, c, y)
        BY <1>1, <2>1, InTwo
    <2>. QED  BY <2>2 DEF l, Halves
<1>5. \A i \in 1..m : i \in 1..l
    BY <1>2
<1>6. \A i \in 1..l : p[i].value = o[p[i].key] /\ p[i].key \in ValueKeys /\ p[i].value \in Nat
    BY <1>1, EntryShape DEF Held, l
<1>7. OneEach(y)
    <2>1. \A i \in 1..Len(y) : i + m \in 1..Len(p) /\ y[i] = p[i + m]
        BY <1>4 DEF l
    <2>2. m \in Nat
        BY <1>2
    <2>. QED  BY <1>1, <1>4, <2>1, <2>2, PartOfMap
<1>8. OneEach(c)
    BY <1>1, <1>4, <1>5 DEF OneEach, l
<1>9. Held(y, o)
    <2>1. Len(y) <= MaxPending
        <3>1. l <= MaxPending
            BY <1>1 DEF Held, l
        <3>2. m \in Nat /\ MaxPending \in Nat /\ Len(y) = l - m
            BY <1>2, <1>4, EntryShape
        <3>3. \A a1, a2, a3 \in Nat : a1 <= a3 => a1 - a2 <= a3
            OBVIOUS
        <3>4. l - m <= MaxPending
            BY <1>2, <3>1, <3>2, <3>3
        <3>. QED  BY <3>2, <3>4
    <2>2. \A i \in 1..Len(y) : y[i].value = o[y[i].key]
        <3>. SUFFICES ASSUME NEW i \in 1..(l - m) PROVE y[i].value = o[y[i].key]
            BY <1>4
        <3>1. i + m \in 1..l /\ y[i] = p[i + m]
            BY <1>4
        <3>2. p[i + m].value = o[p[i + m].key]
            BY <1>6, <3>1
        <3>. QED  BY <3>1, <3>2
    <2>. QED  BY <1>4, <1>7, <2>1, <2>2 DEF Held
<1>10. InFlight(y, c, "writing", o, s)
    <2>1. \A i \in 1..Len(c) : /\ s[c[i].key] <= c[i].value /\ c[i].value <= o[c[i].key]
                               /\ c[i].value = o[c[i].key]
        <3>. SUFFICES ASSUME NEW i \in 1..m
                      PROVE  /\ s[c[i].key] <= c[i].value /\ c[i].value <= o[c[i].key]
                             /\ c[i].value = o[c[i].key]
            BY <1>4
        <3>1. c[i].value = o[c[i].key] /\ c[i].key \in ValueKeys /\ c[i].value \in Nat
            BY <1>4, <1>5, <1>6
        <3>2. s[c[i].key] \in Nat /\ s[c[i].key] <= o[c[i].key]
            BY <1>1, <3>1 DEF Marks
        <3>3. c[i].value <= c[i].value
            <4>1. \A v \in Nat : v <= v
                OBVIOUS
            <4>. QED  BY <3>1, <4>1
        <3>. QED  BY <3>1, <3>2, <3>3
    <2>. QED  BY <1>2, <1>4, <1>8, <2>1 DEF InFlight
<1>11. ASSUME NEW k \in ValueKeys, o[k] > 0 PROVE Somewhere(k, y, c, "writing", o, s, d)
    <2>1. Somewhere(k, p, b, fl, o, s, d)
        BY <1>11 DEF Books
    <2>2. CASE Waits(k, p)
        <3>1. PICK i \in 1..l : p[i].key = k
            BY <2>2 DEF Waits, l
        <3>2. CASE i \in 1..m
            BY <1>4, <1>6, <3>1, <3>2 DEF Somewhere
        <3>3. CASE i - m \in 1..(l - m) /\ y[i - m] = p[i]
            BY <1>4, <3>1, <3>3 DEF Somewhere, Waits
        <3>. QED  BY <1>4, <3>2, <3>3
    <2>. QED  BY <2>1, <2>2 DEF Somewhere
<1>. QED  BY <1>1, <1>9, <1>10, <1>11 DEF Books

\* A write that applies some of its batch stores no older value.
Applied(b, s, ks) == [k \in ValueKeys |-> IF k \in ks THEN Writer!ValueIn(b, k) ELSE s[k]]

LEMMA AppliedEffect ==
    ASSUME NEW p, NEW b, NEW o, NEW s, NEW d, NEW n,
           InFlight(p, b, "writing", o, s), Marks(o, s, d, n),
           NEW ks \in SUBSET Writer!KeysOf(b), NEW t, t = Applied(b, s, ks)
    PROVE  /\ Marks(o, t, d, n)
           /\ \A k \in ValueKeys : t[k] >= s[k]
           /\ \A i \in 1..Len(b) : b[i].key \in ks => t[b[i].key] = b[i].value
           /\ \A k \in ValueKeys : k \notin ks => t[k] = s[k]
<1>1. b \in Seq(Writer!Entry) /\ OneEach(b)
    BY DEF InFlight
<1>2. \A i \in 1..Len(b) : Writer!ValueIn(b, b[i].key) = b[i].value /\ b[i] \in Writer!Entry
    BY <1>1, ValueIsThere
<1>3. \A i \in 1..Len(b) : b[i].key \in ks => t[b[i].key] = b[i].value
    BY <1>2, EntryShape DEF Applied
<1>4. \A k \in ValueKeys : k \notin ks => t[k] = s[k]
    BY DEF Applied
<1>5. ASSUME NEW k \in ValueKeys PROVE t[k] \in Nat /\ s[k] <= t[k] /\ t[k] <= o[k]
    <2>1. o[k] \in Nat /\ s[k] \in Nat /\ s[k] <= o[k]
        BY DEF Marks
    <2>2. CASE k \in ks
      BY <1>1, <2>2, KeysIn, <1>2, <1>3, EntryShape DEF InFlight
    <2>3. CASE k \notin ks
        BY <1>4, <2>1, <2>3
    <2>. QED  BY <2>2, <2>3
<1>6. t \in [ValueKeys -> Nat]
  BY <1>5 DEF Applied
<1>7. Marks(o, t, d, n)
    BY <1>5, <1>6 DEF Marks
<1>8. \A k \in ValueKeys : t[k] >= s[k]
    BY <1>5, <1>6 DEF Marks
<1>. QED  BY <1>3, <1>4, <1>7, <1>8

\* A failed batch goes in front of what waits, but for the keys that wait.
Merge(b, p) == Writer!Without(b, Writer!KeysOf(p)) \o p

Merged(z, p, b, o) ==
    /\ OneEach(z) /\ Len(z) >= Len(p)
    /\ \A i \in 1..Len(z) :
          /\ z[i].value <= o[z[i].key]
          /\ \/ z[i].value = o[z[i].key]
             \/ Len(p) = MaxPending /\ i <= Len(z) - MaxPending
    /\ \A k \in ValueKeys :
          \/ Waits(k, p)
          \/ \E i \in 1..Len(b) : b[i].key = k /\ b[i].value = o[k]
          => \E j \in 1..Len(z) : z[j].key = k /\ z[j].value = o[k]

LEMMA MergeEffect ==
    ASSUME NEW p, NEW b, NEW o, NEW s, NEW d, NEW n, Held(p, o), InFlight(p, b, "writing", o, s),
           Marks(o, s, d, n), NEW z, z = Merge(b, p)
    PROVE  z \in Seq(Writer!Entry) /\ Merged(z, p, b, o)
<1>. DEFINE w == Writer!Without(b, Writer!KeysOf(p))
            m == Len(w)
            l == Len(p)
<1>1. /\ p \in Seq(Writer!Entry) /\ OneEach(p) /\ l <= MaxPending
      /\ \A i \in 1..l : p[i].value = o[p[i].key] /\ p[i].key \in ValueKeys
      /\ b \in Seq(Writer!Entry) /\ OneEach(b)
    BY EntryShape DEF Held, InFlight
<1>2. w = Writer!Without(b, Writer!KeysOf(p)) /\ z = w \o p
    BY DEF Merge
<1>. HIDE DEF w
<1>3. w \in Seq(Writer!Entry) /\ Remains(w, b, Writer!KeysOf(p))
  BY <1>1, <1>2, WithoutEffect
<1>4. \A k : k \in Writer!KeysOf(p) <=> Waits(k, p)
    BY <1>1, KeysIn DEF Waits
<1>5. /\ OneEach(w)
      /\ \A i \in 1..m : ~Waits(w[i].key, p)
      /\ \A i \in 1..m : \E j \in 1..Len(b) : w[i] = b[j]
      /\ \A j \in 1..Len(b) : ~Waits(b[j].key, p) => \E i \in 1..m : w[i] = b[j]
    BY <1>3, <1>4 DEF Remains
<1>6. m \in Nat /\ l \in Nat
    BY <1>1, <1>3
<1>7. /\ z \in Seq(Writer!Entry) /\ Len(z) = m + l
      /\ \A i \in 1..(m + l) : z[i] = IF i <= m THEN w[i] ELSE p[i - m]
    BY <1>1, <1>2, <1>3, ConcatProperties
<1>. HIDE DEF m, l
<1>8. \A i \in 1..m : i \in 1..(m + l) /\ z[i] = w[i]
    BY <1>6, <1>7
<1>9. \A i \in 1..l : i + m \in 1..(m + l) /\ z[i + m] = p[i]
    <2>. TAKE i \in 1..l
    <2>1. i + m \in 1..(m + l) /\ ~(i + m <= m) /\ (i + m) - m = i
        BY <1>6
    <2>. QED  BY <1>7, <2>1
<1>10. \A i \in 1..(m + l) : i \in 1..m \/ (i - m \in 1..l /\ z[i] = p[i - m])
    <2>. TAKE i \in 1..(m + l)
    <2>1. i \in 1..m \/ (i - m \in 1..l /\ ~(i <= m))
        BY <1>6
    <2>. QED  BY <1>7, <2>1
<1>11. OneEach(z)
    <2>. SUFFICES ASSUME NEW i \in 1..(m + l), NEW j \in 1..(m + l), z[i].key = z[j].key PROVE i = j
        BY <1>7 DEF OneEach
    <2>1. CASE i \in 1..m /\ j \in 1..m
      BY <1>8, <2>1, <1>5 DEF OneEach, m
    <2>2. CASE i \in 1..m /\ (j - m \in 1..l /\ z[j] = p[j - m])
      BY <1>8, <2>2, <1>5 DEF Waits, l
    <2>3. CASE j \in 1..m /\ (i - m \in 1..l /\ z[i] = p[i - m])
        BY <1>5, <1>8, <2>3 DEF Waits, l
    <2>4. CASE (i - m \in 1..l /\ z[i] = p[i - m]) /\ (j - m \in 1..l /\ z[j] = p[j - m])
      BY <1>1, <2>4, <1>6 DEF OneEach, l
    <2>. QED  BY <1>10, <2>1, <2>2, <2>3, <2>4
<1>12. ASSUME NEW i \in 1..(m + l)
       PROVE  /\ z[i].value <= o[z[i].key]
              /\ \/ z[i].value = o[z[i].key]
                 \/ Len(p) = MaxPending /\ i <= Len(z) - MaxPending
    <2>1. CASE i \in 1..m
        <3>1. PICK j \in 1..Len(b) : w[i] = b[j]
            BY <1>5, <2>1
        <3>2. z[i] = b[j] /\ ~Waits(b[j].key, p)
            BY <1>5, <1>8, <2>1, <3>1
        <3>3. /\ b[j].value <= o[b[j].key]
              /\ b[j].value = o[b[j].key] \/ Len(p) = MaxPending
            BY <3>2 DEF InFlight
        <3>4. Len(p) = MaxPending => i <= Len(z) - MaxPending
            <4>. SUFFICES ASSUME l = MaxPending PROVE i <= Len(z) - MaxPending
                BY DEF l
            <4>. QED  BY <1>6, <1>7, <2>1
        <3>. QED  BY <3>2, <3>3, <3>4
    <2>2. CASE i - m \in 1..l /\ z[i] = p[i - m]
      BY <1>1, <2>2 DEF Marks
    <2>. QED  BY <1>10, <2>1, <2>2
<1>13. ASSUME NEW k \in ValueKeys,
              Waits(k, p) \/ \E i \in 1..Len(b) : b[i].key = k /\ b[i].value = o[k]
       PROVE  \E j \in 1..Len(z) : z[j].key = k /\ z[j].value = o[k]
    <2>1. CASE Waits(k, p)
      BY <2>1, <1>1, <1>7, <1>9 DEF Waits, l
    <2>2. CASE ~Waits(k, p)
      BY <1>13, <2>2, <1>5, <1>7, <1>8
    <2>. QED  BY <2>1, <2>2
<1>14. Len(z) >= Len(p)
    BY <1>6, <1>7 DEF l
<1>. QED  BY <1>7, <1>11, <1>12, <1>13, <1>14 DEF Merged

LEMMA BooksFail ==
    ASSUME NEW p, NEW b, NEW o, NEW s, NEW n, Books(p, b, "writing", o, s, overflowed, n),
           NEW ks \in SUBSET Writer!KeysOf(b), NEW t, t = Applied(b, s, ks),
           NEW z, z = Merge(b, p), NEW y, y = Writer!Trim(z), NEW e, e = Writer!Lost(z)
    PROVE  Books(y, b, "written", o, t, e, n) /\ \A k \in ValueKeys : t[k] >= s[k]
<1>1. Held(p, o) /\ InFlight(p, b, "writing", o, s) /\ Marks(o, s, overflowed, n)
    BY DEF Books
<1>2. z \in Seq(Writer!Entry) /\ Merged(z, p, b, o)
    BY <1>1, MergeEffect
<1>3. y \in Seq(Writer!Entry) /\ Trimmed(y, e, z, overflowed)
  BY <1>1, <1>2, TrimEffect DEF Marks, Merged
<1>4. Marks(o, t, overflowed, n) /\ \A k \in ValueKeys : t[k] >= s[k]
    BY <1>1, AppliedEffect
<1>5. \A k \in ValueKeys : /\ o[k] \in Nat /\ s[k] \in Nat /\ t[k] \in Nat /\ overflowed[k] \in Nat
                           /\ e[k] \in Nat /\ overflowed[k] <= o[k] /\ t[k] <= o[k]
    BY <1>1, <1>3, <1>4 DEF Marks, Trimmed
<1>6. \A k \in ValueKeys : e[k] <= o[k] /\ e[k] >= overflowed[k]
    <2>. SUFFICES ASSUME NEW k \in ValueKeys PROVE e[k] <= o[k] /\ e[k] >= overflowed[k]
        OBVIOUS
    <2>1. CASE e[k] = overflowed[k]
        BY <1>3, <1>5, <2>1 DEF Trimmed
    <2>2. CASE \E i \in 1..Len(z) : z[i].key = k /\ e[k] = z[i].value
        BY <1>2, <1>3, <2>2 DEF Merged, Trimmed
    <2>. QED  BY <1>3, <2>1, <2>2 DEF Trimmed
<1>7. Marks(o, t, e, n)
    BY <1>3, <1>4, <1>6 DEF Marks, Trimmed
<1>8. Held(y, o)
    <2>1. \A i \in 1..Len(y) : y[i].value = o[y[i].key]
        <3>. SUFFICES ASSUME NEW i \in 1..Len(y) PROVE y[i].value = o[y[i].key]
            OBVIOUS
        <3>. DEFINE j == i + (Len(z) - Len(y))
        <3>1. j \in 1..Len(z) /\ y[i] = z[j]
            BY <1>3 DEF Trimmed
        <3>2. \/ z[j].value = o[z[j].key]
              \/ Len(p) = MaxPending /\ j <= Len(z) - MaxPending
            BY <1>2, <3>1 DEF Merged
        <3>3. ~(Len(p) = MaxPending /\ j <= Len(z) - MaxPending)
            <4>. SUFFICES ASSUME Len(p) = MaxPending PROVE ~(j <= Len(z) - MaxPending)
                OBVIOUS
            <4>1. Len(z) >= MaxPending
                BY <1>2 DEF Merged
            <4>2. Len(y) = MaxPending
                BY <1>3, <4>1 DEF Trimmed
            <4>3. Len(z) \in Nat /\ Len(y) \in Nat
                BY <1>2, <1>3
            <4>. QED  BY <4>2, <4>3
        <3>. HIDE DEF j
        <3>. QED  BY <3>1, <3>2, <3>3
    <2>. QED  BY <1>3, <2>1 DEF Held, Trimmed
<1>9. InFlight(y, b, "written", o, t)
    BY <1>1 DEF InFlight
<1>10. ASSUME NEW k \in ValueKeys, o[k] > 0 PROVE Somewhere(k, y, b, "written", o, t, e)
    <2>1. Somewhere(k, p, b, "writing", o, s, overflowed)
        BY <1>10 DEF Books
    <2>2. CASE Waits(k, p) \/ \E i \in 1..Len(b) : b[i].key = k /\ b[i].value = o[k]
        <3>1. PICK j \in 1..Len(z) : z[j].key = k /\ z[j].value = o[k]
            BY <1>2, <2>2 DEF Merged
        <3>2. CASE \E i \in 1..Len(y) : y[i] = z[j]
            BY <3>1, <3>2 DEF Somewhere, Waits
        <3>3. CASE e[z[j].key] >= z[j].value
          BY <1>5, <1>6, <3>1, <3>3 DEF Somewhere
        <3>. QED  BY <1>3, <3>2, <3>3 DEF Trimmed
    <2>3. CASE s[k] = o[k]
      BY <1>4, <1>5, <2>3 DEF Somewhere
    <2>4. CASE overflowed[k] = o[k]
      BY <1>5, <1>6, <2>4 DEF Somewhere
    <2>. QED  BY <2>1, <2>2, <2>3, <2>4 DEF Somewhere
<1>. QED  BY <1>4, <1>7, <1>8, <1>9, <1>10 DEF Books

LEMMA BooksSucceed ==
    ASSUME NEW p, NEW b, NEW o, NEW s, NEW d, NEW n, Books(p, b, "writing", o, s, d, n),
           NEW t, t = Applied(b, s, Writer!KeysOf(b))
    PROVE  Books(p, b, "written", o, t, d, n) /\ \A k \in ValueKeys : t[k] >= s[k]
<1>1. Held(p, o) /\ InFlight(p, b, "writing", o, s) /\ Marks(o, s, d, n)
    BY DEF Books
<1>2. PICK ks : ks = Writer!KeysOf(b)
    OBVIOUS
<1>3. /\ Marks(o, t, d, n) /\ \A k \in ValueKeys : t[k] >= s[k]
      /\ \A i \in 1..Len(b) : b[i].key \in ks => t[b[i].key] = b[i].value
    BY <1>1, <1>2, AppliedEffect
<1>4. \A i \in 1..Len(b) : t[b[i].key] = b[i].value
  BY <1>1, <1>2, KeysIn, <1>3 DEF InFlight
<1>5. \A k \in ValueKeys : s[k] = o[k] => t[k] = o[k]
    BY <1>1, <1>3 DEF Marks
<1>6. \A k \in ValueKeys : o[k] > 0 => Somewhere(k, p, b, "written", o, t, d)
    BY <1>4, <1>5 DEF Books, Somewhere
<1>7. InFlight(p, b, "written", o, t)
    BY <1>1 DEF InFlight
<1>. QED  BY <1>1, <1>3, <1>6, <1>7 DEF Books

LEMMA BooksSettle ==
    ASSUME NEW p, NEW b, NEW fl, NEW o, NEW s, NEW d, NEW n, Books(p, b, fl, o, s, d, n), fl # "writing"
    PROVE  Books(p, <<>>, "none", o, s, d, n)
BY EntryShape DEF Books, InFlight, Somewhere

WriterFlags ==
    /\ flush \in {"none", "writing", "written"}
    /\ delay \in BOOLEAN /\ microtask \in BOOLEAN /\ failedOnce \in BOOLEAN
    /\ draining \in {"open", "waiting", "flushing", "returned"}
    /\ streak \in 0..3 /\ failures \in 0..3

WriterBooks == Books(pending, entries, flush, offered, stored, overflowed, offers)

\* A queued flush has something to join or to take until close() is called;
\* close() has counted no more failures in a row than there were.
WriterCloses ==
    /\ microtask => \/ flush = "writing"
                    \/ flush = "none" /\ draining = "open" /\ pending # <<>>
    /\ draining = "returned" => /\ flush = "none"
                                /\ pending = <<>> \/ failures = 3
    /\ draining = "flushing" => /\ streak < 3
                                /\ flush = "writing" => ~failedOnce /\ streak <= failures
                                /\ failedOnce => streak + 1 <= failures

WriterIInv == WriterFlags /\ WriterBooks /\ WriterCloses

LEMMA WriterInit == Writer!Init => WriterIInv
<1>. SUFFICES ASSUME Writer!Init PROVE WriterIInv
    OBVIOUS
<1>1. /\ pending = <<>> /\ entries = <<>> /\ flush = "none" /\ delay = FALSE /\ microtask = FALSE
      /\ draining = "open" /\ failedOnce = FALSE /\ streak = 0 /\ offers = 0 /\ failures = 0
      /\ offered = [k \in ValueKeys |-> 0] /\ stored = [k \in ValueKeys |-> 0]
      /\ overflowed = [k \in ValueKeys |-> 0]
    BY DEF Writer!Init
<1>2. <<>> \in Seq(Writer!Entry) /\ Len(<<>>) = 0 /\ OneEach(<<>>)
    BY DEF OneEach
<1>3. Held(pending, offered) /\ InFlight(entries, entries, flush, offered, stored)
    BY <1>1, <1>2, EntryShape DEF Held, InFlight
<1>4. InFlight(pending, entries, flush, offered, stored)
    BY <1>1, <1>3
<1>5. Marks(offered, stored, overflowed, offers)
    BY <1>1, EntryShape DEF Marks
<1>6. \A k \in ValueKeys : ~(offered[k] > 0)
    BY <1>1
<1>7. WriterBooks
    BY <1>3, <1>4, <1>5, <1>6 DEF WriterBooks, Books
<1>8. WriterFlags
    <2>1. streak \in 0..3 /\ failures \in 0..3
        BY <1>1
    <2>. QED  BY <1>1, <2>1 DEF WriterFlags
<1>9. WriterCloses
    BY <1>1 DEF WriterCloses
<1>. QED  BY <1>7, <1>8, <1>9 DEF WriterIInv

LEMMA WriterFlush ==
    ASSUME NEW x, NEW o, NEW s, NEW d, NEW n, NEW force,
           Books(x, entries, flush, o, s, d, n), Writer!FlushWith(x, force)
    PROVE  /\ Books(pending', entries', flush', o, s, d, n)
           /\ \/ flush' = flush /\ pending' = x
              \/ flush = "none" /\ flush' = "writing"
           /\ flush = "none" /\ x # <<>> /\ force => flush' = "writing"
<1>1. CASE flush = "none" /\ x # <<>> /\ (force \/ ~delay)
  BY <1>1, BooksTake DEF Writer!FlushWith
<1>2. CASE ~(flush = "none" /\ x # <<>> /\ (force \/ ~delay))
  BY <1>2 DEF Writer!FlushWith
<1>. QED  BY <1>1, <1>2

\* What a step that may start a flush, and leaves close() alone, preserves.
LEMMA FlagsKept ==
    ASSUME WriterFlags, WriterCloses, UNCHANGED <<draining, failedOnce, streak, failures>>,
           delay' \in BOOLEAN, microtask' \in BOOLEAN, microtask' => microtask,
           \/ flush' = flush /\ (pending = <<>> => pending' = <<>> \/ draining = "open")
                             /\ (pending # <<>> => pending' # <<>>)
           \/ flush = "none" /\ flush' = "writing" /\ draining = "open"
    PROVE  WriterFlags' /\ WriterCloses'
BY DEF WriterFlags, WriterCloses

LEMMA OfferStep ==
    ASSUME WriterIInv, NEW k \in ValueKeys, Writer!Enqueue(k)
    PROVE  WriterIInv' /\ stored' = stored
<1>1. PICK p : p = pending
    OBVIOUS
<1>2. PICK u : u = Raised(offered, k)
    OBVIOUS
<1>3. PICK z : z = Arrival(p, k, offered)
    OBVIOUS
<1>4. PICK y : y = Writer!Trim(z)
    OBVIOUS
<1>5. PICK e : e = Writer!Lost(z)
    OBVIOUS
<1>6. /\ draining = "open" /\ offers < MaxValues /\ offers' = offers + 1
      /\ offered' = u /\ overflowed' = e
      /\ \/ Writer!FlushWith(y, FALSE)
         \/ pending' = y /\ UNCHANGED <<entries, flush>>
      /\ UNCHANGED <<delay, microtask, draining, failedOnce, streak, stored, failures>>
    BY <1>1, <1>2, <1>3, <1>4, <1>5 DEF Writer!Enqueue, Writer!Closed, Writer!close, Arrival, Raised
<1>7. Books(p, entries, flush, offered, stored, overflowed, offers)
    BY <1>1 DEF WriterIInv, WriterBooks
<1>8. Books(y, entries, flush, u, stored, e, offers + 1) /\ y # <<>>
  BY <1>2, <1>3, <1>6, <1>7, <1>4, <1>5, BooksArrive
<1>9. /\ Books(pending', entries', flush', u, stored, e, offers + 1)
      /\ \/ flush' = flush /\ pending' = y
         \/ flush = "none" /\ flush' = "writing"
  BY <1>8, WriterFlush, <1>6
<1>10. WriterBooks'
    BY <1>6, <1>9 DEF WriterBooks
<1>11. WriterFlags' /\ WriterCloses'
  BY <1>6, <1>8, <1>9, FlagsKept DEF WriterIInv, WriterFlags
<1>. QED  BY <1>6, <1>10, <1>11 DEF WriterIInv

LEMMA WriterParts ==
    ASSUME WriterIInv
    PROVE  /\ WriterFlags /\ WriterCloses /\ delay \in BOOLEAN /\ microtask \in BOOLEAN
           /\ Books(pending, entries, flush, offered, stored, overflowed, offers)
           /\ \A k \in ValueKeys : stored[k] >= stored[k]
BY DEF WriterIInv, WriterBooks, Books, WriterFlags, Marks

LEMMA PendingFlush ==
    ASSUME WriterIInv, NEW force, Writer!FlushWith(pending, force),
           UNCHANGED <<offered, stored, overflowed, offers>>
    PROVE  /\ WriterBooks'
           /\ \/ flush' = flush /\ pending' = pending
              \/ flush = "none" /\ flush' = "writing"
           /\ flush = "none" /\ pending # <<>> /\ force => flush' = "writing"
BY WriterParts, WriterFlush DEF WriterBooks

LEMMA WriterTimerStep == WriterIInv /\ Writer!TimerFlush => WriterIInv' /\ stored' = stored
<1>. SUFFICES ASSUME WriterIInv, Writer!TimerFlush PROVE WriterIInv' /\ stored' = stored
    OBVIOUS
<1>1. /\ draining = "open" /\ Writer!FlushWith(pending, FALSE)
      /\ UNCHANGED <<delay, microtask, draining, failedOnce, streak,
                     offers, offered, stored, overflowed, failures>>
    BY DEF Writer!TimerFlush, Writer!Closed, Writer!close, Writer!ghosts
<1>2. /\ WriterBooks'
      /\ \/ flush' = flush /\ pending' = pending
         \/ flush = "none" /\ flush' = "writing"
    BY <1>1, PendingFlush
<1>3. WriterFlags /\ WriterCloses /\ delay \in BOOLEAN /\ microtask \in BOOLEAN
    BY WriterParts
<1>4. WriterFlags' /\ WriterCloses'
    BY <1>1, <1>2, <1>3, FlagsKept
<1>. QED  BY <1>1, <1>2, <1>4 DEF WriterIInv

LEMMA MicrotaskStep == WriterIInv /\ Writer!MicrotaskFlush => WriterIInv' /\ stored' = stored
<1>. SUFFICES ASSUME WriterIInv, Writer!MicrotaskFlush PROVE WriterIInv' /\ stored' = stored
    OBVIOUS
<1>1. /\ microtask /\ microtask' = FALSE /\ Writer!FlushWith(pending, FALSE)
      /\ UNCHANGED <<delay, draining, failedOnce, streak,
                     offers, offered, stored, overflowed, failures>>
    BY DEF Writer!MicrotaskFlush, Writer!close, Writer!ghosts
<1>2. /\ WriterBooks'
      /\ \/ flush' = flush /\ pending' = pending
         \/ flush = "none" /\ flush' = "writing"
    BY <1>1, PendingFlush
<1>3. WriterFlags /\ WriterCloses /\ delay \in BOOLEAN
    BY WriterParts
<1>4. flush = "none" => draining = "open"
    BY <1>1, <1>3 DEF WriterCloses
<1>5. WriterFlags' /\ WriterCloses'
    BY <1>1, <1>2, <1>3, <1>4, FlagsKept
<1>. QED  BY <1>1, <1>2, <1>5 DEF WriterIInv

LEMMA DelayStep == WriterIInv /\ Writer!BackoffEnds => WriterIInv' /\ stored' = stored
<1>. SUFFICES ASSUME WriterIInv, Writer!BackoffEnds PROVE WriterIInv' /\ stored' = stored
    OBVIOUS
<1>1. /\ delay' = FALSE
      /\ UNCHANGED <<pending, entries, flush, microtask, draining, failedOnce, streak,
                     offers, offered, stored, overflowed, failures>>
    BY DEF Writer!BackoffEnds, Writer!close, Writer!ghosts
<1>2. WriterBooks' /\ WriterCloses' /\ WriterFlags'
    BY <1>1 DEF WriterIInv, WriterBooks, WriterCloses, WriterFlags
<1>. QED  BY <1>1, <1>2 DEF WriterIInv

LEMMA WrittenStep ==
    WriterIInv /\ Writer!WriteSucceeds => WriterIInv' /\ \A k \in ValueKeys : stored'[k] >= stored[k]
<1>. SUFFICES ASSUME WriterIInv, Writer!WriteSucceeds
              PROVE  WriterIInv' /\ \A k \in ValueKeys : stored'[k] >= stored[k]
    OBVIOUS
<1>1. /\ flush = "writing" /\ ~microtask /\ flush' = "written" /\ delay' = FALSE /\ failures' = 0
      /\ stored' = Applied(entries, stored, Writer!KeysOf(entries))
      /\ UNCHANGED <<pending, entries, microtask, draining, failedOnce, streak,
                     offers, offered, overflowed>>
    BY DEF Writer!WriteSucceeds, Writer!StoredWith, Writer!close, Applied
<1>2. Books(pending, entries, "writing", offered, stored, overflowed, offers)
    BY <1>1, WriterParts
<1>3. PICK t : t = stored'
    OBVIOUS
<1>4. /\ Books(pending, entries, "written", offered, t, overflowed, offers)
      /\ \A k \in ValueKeys : t[k] >= stored[k]
    BY <1>1, <1>2, <1>3, BooksSucceed
<1>5. WriterBooks'
    BY <1>1, <1>3, <1>4 DEF WriterBooks
<1>6. WriterFlags' /\ WriterCloses'
    <2>1. WriterFlags /\ WriterCloses
        BY WriterParts
    <2>2. WriterFlags'
        <3>1. failures' \in 0..3
            BY <1>1
        <3>. QED  BY <1>1, <2>1, <3>1 DEF WriterFlags
    <2>3. WriterCloses'
        BY <1>1, <2>1 DEF WriterCloses
    <2>. QED  BY <2>2, <2>3
<1>. QED  BY <1>3, <1>4, <1>5, <1>6 DEF WriterIInv

LEMMA WriteFailsStep ==
    ASSUME WriterIInv, NEW ks \in SUBSET Writer!KeysOf(entries), Writer!WriteFails(ks)
    PROVE  WriterIInv' /\ \A k \in ValueKeys : stored'[k] >= stored[k]
<1>1. PICK p : p = pending
    OBVIOUS
<1>2. PICK z : z = Merge(entries, p)
    OBVIOUS
<1>3. /\ flush = "writing" /\ ~microtask /\ flush' = "written" /\ delay' = TRUE
      /\ failedOnce' = TRUE /\ failures' = Writer!Least(failures + 1, 3)
      /\ stored' = Applied(entries, stored, ks)
      /\ pending' = Writer!Trim(z) /\ overflowed' = Writer!Lost(z)
      /\ UNCHANGED <<entries, microtask, draining, streak, offers, offered>>
    BY <1>1, <1>2 DEF Writer!WriteFails, Writer!StoredWith, Applied, Merge
<1>4. Books(p, entries, "writing", offered, stored, overflowed, offers)
    BY <1>1, <1>3, WriterParts
<1>5. PICK t : t = stored'
    OBVIOUS
<1>6. PICK y : y = pending'
    OBVIOUS
<1>7. PICK e : e = overflowed'
    OBVIOUS
<1>8. /\ Books(y, entries, "written", offered, t, e, offers)
      /\ \A k \in ValueKeys : t[k] >= stored[k]
    BY <1>2, <1>3, <1>4, <1>5, <1>6, <1>7, BooksFail
<1>9. WriterBooks'
    BY <1>3, <1>5, <1>6, <1>7, <1>8 DEF WriterBooks
<1>10. WriterFlags' /\ WriterCloses'
  BY WriterParts, <1>3 DEF WriterFlags, Writer!Least, WriterCloses
<1>. QED  BY <1>5, <1>8, <1>9, <1>10 DEF WriterIInv

LEMMA SettlesStep == WriterIInv /\ Writer!FlushSettles => WriterIInv' /\ stored' = stored
<1>. SUFFICES ASSUME WriterIInv, Writer!FlushSettles PROVE WriterIInv' /\ stored' = stored
    OBVIOUS
<1>1. /\ flush = "written" /\ flush' = "none" /\ entries' = <<>>
      /\ microtask' = (microtask \/ (draining = "open" /\ Len(pending) >= ValueBatch /\ ~delay))
      /\ UNCHANGED <<pending, delay, draining, failedOnce, streak,
                     offers, offered, stored, overflowed, failures>>
    BY DEF Writer!FlushSettles, Writer!Closed, Writer!close, Writer!ghosts
<1>2. /\ WriterFlags /\ WriterCloses
      /\ Books(pending, entries, flush, offered, stored, overflowed, offers)
    BY WriterParts
<1>3. Books(pending, <<>>, "none", offered, stored, overflowed, offers)
  BY <1>1, <1>2, BooksSettle
<1>4. WriterBooks'
    BY <1>1, <1>3 DEF WriterBooks
<1>5. ~microtask
    BY <1>1, <1>2 DEF WriterCloses
<1>6. microtask' \in BOOLEAN /\ (microtask' => draining = "open" /\ pending # <<>>)
    <2>1. microtask' => draining = "open" /\ Len(pending) >= ValueBatch
        BY <1>1, <1>5
    <2>2. microtask' \in BOOLEAN
        BY <1>1, <1>5
    <2>3. Len(<<>>) = 0 /\ ~(0 >= ValueBatch)
        BY EntryShape
    <2>4. Len(pending) >= ValueBatch => pending # <<>>
        BY <2>3
    <2>. QED  BY <2>1, <2>2, <2>4
<1>7. WriterFlags'
    BY <1>1, <1>2, <1>6 DEF WriterFlags
<1>8. WriterCloses'
    BY <1>1, <1>2, <1>6 DEF WriterCloses
<1>. QED  BY <1>1, <1>4, <1>7, <1>8 DEF WriterIInv

\* A pass of the loop of close(), after n failures in a row.
LEMMA PassStep ==
    ASSUME WriterIInv, NEW n \in 0..3, Writer!DrainOrReturn(n), flush = "none",
           n <= failures, n = 0 \/ ~microtask
    PROVE  WriterIInv' /\ stored' = stored
<1>1. /\ streak' = n
      /\ UNCHANGED <<delay, microtask, offers, offered, stored, overflowed, failures>>
    BY DEF Writer!DrainOrReturn, Writer!ghosts
<1>2. WriterFlags /\ WriterCloses /\ WriterBooks
    BY DEF WriterIInv
<1>3. CASE pending = <<>> \/ n = 3
    <2>1. draining' = "returned" /\ UNCHANGED <<pending, entries, flush, failedOnce>>
        BY <1>3 DEF Writer!DrainOrReturn
    <2>2. WriterBooks'
        BY <1>1, <1>2, <2>1 DEF WriterBooks
    <2>3. WriterFlags'
        BY <1>1, <1>2, <2>1 DEF WriterFlags
    <2>4. pending = <<>> \/ failures = 3
        BY <1>2, <1>3 DEF WriterFlags
    <2>5. CASE ~microtask
        BY <1>1, <2>1, <2>2, <2>3, <2>4, <2>5 DEF WriterIInv, WriterCloses
    <2>6. CASE microtask
      BY <1>2, <2>6, <1>3 DEF WriterCloses
    <2>. QED  BY <2>5, <2>6
<1>4. CASE ~(pending = <<>> \/ n = 3)
    <2>1. draining' = "flushing" /\ failedOnce' = FALSE /\ Writer!FlushWith(pending, TRUE)
        BY <1>4 DEF Writer!DrainOrReturn
    <2>2. WriterBooks' /\ flush' = "writing"
        BY <1>1, <1>4, <2>1, PendingFlush
    <2>3. WriterFlags'
        BY <1>1, <1>2, <2>1, <2>2 DEF WriterFlags
    <2>4. n < 3
        BY <1>4
    <2>5. WriterCloses'
        BY <1>1, <2>1, <2>2, <2>4 DEF WriterCloses
    <2>. QED  BY <1>1, <2>2, <2>3, <2>5 DEF WriterIInv
<1>. QED  BY <1>3, <1>4

LEMMA WriterCloseStep == WriterIInv /\ Writer!Close => WriterIInv' /\ stored' = stored
<1>. SUFFICES ASSUME WriterIInv, Writer!Close PROVE WriterIInv' /\ stored' = stored
    OBVIOUS
<1>1. WriterFlags /\ WriterCloses /\ WriterBooks
    BY DEF WriterIInv
<1>2. CASE flush = "none"
  BY <1>2, <1>1, PassStep DEF Writer!Close, WriterFlags
<1>3. CASE flush # "none"
    <2>1. /\ draining = "open" /\ draining' = "waiting"
          /\ UNCHANGED <<pending, entries, flush, delay, microtask, failedOnce, streak,
                         offers, offered, stored, overflowed, failures>>
        BY <1>3 DEF Writer!Close, Writer!Closed, Writer!writer, Writer!ghosts
    <2>2. WriterBooks'
        BY <1>1, <2>1 DEF WriterBooks
    <2>3. WriterFlags' /\ WriterCloses'
        BY <1>1, <1>3, <2>1 DEF WriterFlags, WriterCloses
    <2>. QED  BY <2>1, <2>2, <2>3 DEF WriterIInv
<1>. QED  BY <1>2, <1>3

LEMMA ResumesStep == WriterIInv /\ Writer!CloseResumes => WriterIInv' /\ stored' = stored
<1>. SUFFICES ASSUME WriterIInv, Writer!CloseResumes PROVE WriterIInv' /\ stored' = stored
    OBVIOUS
<1>1. draining = "waiting" /\ flush = "none" /\ Writer!DrainOrReturn(0)
    BY DEF Writer!CloseResumes
<1>2. 0 \in 0..3 /\ 0 <= failures /\ ~microtask
    BY <1>1 DEF WriterIInv, WriterFlags, WriterCloses
<1>. QED  BY <1>1, <1>2, PassStep

LEMMA CountedStep == WriterIInv /\ Writer!FlushCounted => WriterIInv' /\ stored' = stored
<1>. SUFFICES ASSUME WriterIInv, Writer!FlushCounted PROVE WriterIInv' /\ stored' = stored
    OBVIOUS
<1>. DEFINE n == IF failedOnce THEN streak + 1 ELSE 0
<1>1. draining = "flushing" /\ flush = "none" /\ Writer!DrainOrReturn(n)
    BY DEF Writer!FlushCounted
<1>2. /\ ~microtask /\ streak \in 0..3 /\ streak < 3 /\ failures \in 0..3
      /\ failedOnce => streak + 1 <= failures
    BY <1>1 DEF WriterIInv, WriterFlags, WriterCloses
<1>3. n \in 0..3 /\ n <= failures
    BY <1>2
<1>. HIDE DEF n
<1>. QED  BY <1>1, <1>2, <1>3, PassStep

LEMMA WriterStep ==
    WriterIInv /\ [Writer!Next]_writerVars =>
        WriterIInv' /\ \A k \in ValueKeys : stored'[k] >= stored[k]
<1>. SUFFICES ASSUME WriterIInv, [Writer!Next]_writerVars
              PROVE  WriterIInv' /\ \A k \in ValueKeys : stored'[k] >= stored[k]
    OBVIOUS
<1>0. \A k \in ValueKeys : stored[k] >= stored[k]
    BY WriterParts
<1>1. CASE \E k \in ValueKeys : Writer!Enqueue(k)
    BY <1>0, <1>1, OfferStep
<1>2. CASE Writer!TimerFlush
    BY <1>0, <1>2, WriterTimerStep
<1>3. CASE Writer!MicrotaskFlush
    BY <1>0, <1>3, MicrotaskStep
<1>4. CASE Writer!BackoffEnds
    BY <1>0, <1>4, DelayStep
<1>5. CASE Writer!WriteSucceeds
    BY <1>5, WrittenStep
<1>6. CASE \E ks \in SUBSET Writer!KeysOf(entries) : Writer!WriteFails(ks)
    BY <1>6, WriteFailsStep
<1>7. CASE Writer!FlushSettles
    BY <1>0, <1>7, SettlesStep
<1>8. CASE Writer!Close
    BY <1>0, <1>8, WriterCloseStep
<1>9. CASE Writer!CloseResumes
    BY <1>0, <1>9, ResumesStep
<1>10. CASE Writer!FlushCounted
    BY <1>0, <1>10, CountedStep
<1>11. CASE UNCHANGED writerVars
  BY <1>11, <1>0 DEF writerVars, WriterIInv, WriterBooks, WriterFlags, WriterCloses
<1>. QED
    BY <1>1, <1>2, <1>3, <1>4, <1>5, <1>6, <1>7, <1>8, <1>9, <1>10, <1>11 DEF Writer!Next

LEMMA WriterHolds == WriterIInv => Writer!WriterInv
<1>. SUFFICES ASSUME WriterIInv PROVE Writer!WriterInv
    OBVIOUS
<1>1. /\ WriterFlags /\ WriterCloses
      /\ Held(pending, offered) /\ InFlight(pending, entries, flush, offered, stored)
      /\ Marks(offered, stored, overflowed, offers)
      /\ \A k \in ValueKeys : offered[k] > 0 =>
            Somewhere(k, pending, entries, flush, offered, stored, overflowed)
    BY DEF WriterIInv, WriterBooks, Books
<1>2. pending \in Seq(Writer!Entry) /\ entries \in Seq(Writer!Entry)
    BY <1>1 DEF Held, InFlight
<1>3. DOMAIN pending = 1..Len(pending) /\ DOMAIN entries = 1..Len(entries)
    BY <1>2
<1>4. \A f \in {offered, stored, overflowed} : f \in [ValueKeys -> 0..MaxValues]
  BY <1>1, EntryShape DEF Marks
<1>5. Writer!TypeOK
    <2>1. offers \in 0..MaxValues
        BY <1>1, EntryShape DEF Marks
    <2>. QED  BY <1>1, <1>2, <1>4, <2>1 DEF Writer!TypeOK, WriterFlags, Held, InFlight
<1>6. Writer!PendingIsNewest
    BY <1>1, <1>3 DEF Writer!PendingIsNewest, Held, OneEach
<1>7. Writer!NewestIsNotLost
    <2>. SUFFICES ASSUME NEW k \in ValueKeys, offered[k] > 0
                  PROVE  \/ k \in Writer!KeysOf(pending)
                         \/ /\ flush = "writing" /\ k \in Writer!KeysOf(entries)
                            /\ Writer!ValueIn(entries, k) = offered[k]
                         \/ stored[k] = offered[k]
                         \/ overflowed[k] = offered[k]
        BY DEF Writer!NewestIsNotLost
    <2>1. Somewhere(k, pending, entries, flush, offered, stored, overflowed)
        BY <1>1
    <2>2. CASE Waits(k, pending)
      BY <1>2, <2>2, KeysIn DEF Waits
    <2>3. CASE flush = "writing" /\ \E i \in 1..Len(entries) : entries[i].key = k /\ entries[i].value = offered[k]
      BY <2>3, <1>1, <1>2, ValueIsThere, KeysIn DEF InFlight
    <2>. QED  BY <2>1, <2>2, <2>3 DEF Somewhere
<1>8. Writer!CloseDrains
    BY <1>1 DEF Writer!CloseDrains, WriterCloses
<1>. QED  BY <1>5, <1>6, <1>7, <1>8 DEF Writer!WriterInv

-----------------------------------------------------------------------------
(* The three buffers.                                                      *)

BuffersIInv == QueueIInv /\ ArchiveIInv /\ WriterIInv

LEMMA BuffersInitially == BuffersInit => BuffersIInv
BY QueueInit, ArchiveInit, WriterInit DEF BuffersInit, BuffersIInv

\* A step of one buffer leaves the others alone.
LEMMA OneBuffer ==
    [BuffersNext]_bufferVars => [Next]_vars /\ [Archive!Next]_archiveVars /\ [Writer!Next]_writerVars
BY DEF BuffersNext, bufferVars

LEMMA BuffersStep == BuffersIInv /\ [BuffersNext]_bufferVars => BuffersIInv'
BY OneBuffer, QueueStep, ArchiveStep, WriterStep DEF BuffersIInv

LEMMA BuffersInvariant == BuffersSpec => []BuffersIInv
<1>1. BuffersInit => BuffersIInv
    BY BuffersInitially
<1>2. BuffersIInv /\ [BuffersNext]_bufferVars => BuffersIInv'
    BY BuffersStep
<1>. QED  BY <1>1, <1>2, PTL DEF BuffersSpec

\* For any capacities, keys and tasks and any number of samples and values: the
\* counters, the set of ids and the lanes of keyed-task-queue.js agree, it stays
\* within its capacity and a clean close() is quiet; telemetry-batch-writer.js
\* loses no sample unseen, drops the oldest first, keeps the rest in order, and
\* archives everything in a close() that nothing disturbs; and the newest value
\* of a key in coalescing-batch-writer.js is waiting, being written, stored or
\* counted as dropped, and its close() leaves nothing running behind.
THEOREM BuffersAreSafe == BuffersSpec => []BuffersInv
<1>1. BuffersIInv => BuffersInv
    BY QueueHolds, ArchiveHolds, WriterHolds DEF BuffersIInv, BuffersInv
<1>. QED  BY <1>1, BuffersInvariant, PTL

\* Failed and partly applied bulk writes, retries and overflows included,
\* coalescing-batch-writer.js never stores an older value over a newer one.
THEOREM NoOlderValueIsStored == BuffersSpec => StoredNeverGoesBack
<1>1. BuffersIInv /\ [BuffersNext]_bufferVars => [\A k \in ValueKeys : stored'[k] >= stored[k]]_stored
    BY OneBuffer, WriterStep DEF BuffersIInv
<1>. QED  BY <1>1, BuffersInvariant, PTL DEF BuffersSpec, StoredNeverGoesBack, Writer!StoredNeverGoesBack

\* The keyed task queue implements the serial lanes: tasks of a key run one at
\* a time in the order of their acceptance, each once unless close() drops it.
THEOREM QueueImplementsSerialLanes == BuffersSpec => ImplementsSerialLanes
<1>1. BuffersInit => Lanes!Init
    BY LanesInit DEF BuffersInit
<1>2. BuffersIInv /\ [BuffersNext]_bufferVars => [Lanes!Next]_(Lanes!vars)
    BY OneBuffer, LanesStep DEF BuffersIInv
<1>. QED  BY <1>1, <1>2, BuffersInvariant, PTL DEF BuffersSpec, ImplementsSerialLanes, Lanes!Spec
=============================================================================
