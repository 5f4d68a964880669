----------------------------- MODULE DataPlane -----------------------------
(***************************************************************************)
(* The self-hosted runtime's processes: the connector worker, forked and   *)
(* watched by ManagedConnectorWorker, whose samples and command states     *)
(* reach the server over IPC (runtime-ipc.js) and go to the stream hub and *)
(* to the mirror, a Rust process fed and watched by RustShadowWorker; and  *)
(* the server's shutdown (server/index.js).  Samples of a tag are numbered *)
(* in the order they are published.  Time is left to choice; the growing   *)
(* delays between restarts are not modelled.                               *)
(***************************************************************************)
EXTENDS Naturals, Sequences, SequencesExt

CONSTANTS
    PlaneTags,
    MaxPending,     \* tags the sink and the mirror keep between two flushes
    MaxOutbound,    \* frames that wait for the mirror's pipe
    PlaneBounds     \* bounds: how often what may happen does

ASSUME PlaneAssumption ==
    /\ {MaxPending, MaxOutbound} \subseteq Nat \ {0}
    /\ PlaneBounds \subseteq [{"samples", "commands", "beats", "exits", "errors", "breaks"} -> Nat]

VARIABLES
    sink,       \* IpcRuntimeEventSink in the worker process
    wire,       \* the IPC messages on their way to the server
    worker,     \* ManagedConnectorWorker
    mirror,     \* RustShadowWorker
    rust,       \* what the mirror's process has been told
    hub,        \* tag -> the last sample published to the streams
    server,     \* where the shutdown of the server stands
    newest,     \* tag -> the last sample published in any worker
    evicted,    \* samples pushed out of a full map
    cut,        \* something was lost uncounted: an exit, a frame given up
    budget

planeVars == <<sink, wire, worker, mirror, rust, hub, server, newest, evicted, cut, budget>>

EmptySink   == [pending |-> <<>>, timer |-> FALSE, dropped |-> 0]
EmptyMirror == [child |-> "none", restart |-> FALSE, pending |-> <<>>, flush |-> FALSE, dropped |-> 0,
                outbound |-> <<>>, blocked |-> FALSE, accepted |-> <<>>, stopping |-> FALSE]

PlaneInit ==
    /\ sink = EmptySink
    /\ wire = <<>>
    /\ worker = [child |-> "none", run |-> 0, health |-> 0, restart |-> FALSE, stopping |-> FALSE]
    /\ mirror = EmptyMirror
    /\ rust = [seen |-> [t \in PlaneTags |-> 0], got |-> <<>>, dropped |-> 0]
    /\ hub = [t \in PlaneTags |-> 0]
    /\ server = "starting"
    /\ newest = [t \in PlaneTags |-> 0]
    /\ evicted = 0
    /\ cut = FALSE
    /\ budget \in PlaneBounds

Spends(what) ==
    /\ budget[what] > 0
    /\ budget' = [budget EXCEPT ![what] = @ - 1]

-----------------------------------------------------------------------------
(* A map of pending samples, and the frames of the mirror.                 *)

\* A sample replaces the one of its tag where that stands; a new tag pushes
\* the oldest out of a full map.
Put(pending, s) ==
    LET at == {i \in DOMAIN pending : pending[i].tag = s.tag}
        full == Len(pending) >= MaxPending
    IN
    IF at # {} THEN [pending |-> [i \in DOMAIN pending |-> IF i \in at THEN s ELSE pending[i]], out |-> 0]
    ELSE [pending |-> Append(IF full THEN Tail(pending) ELSE pending, s), out |-> IF full THEN 1 ELSE 0]

PutAll(pending, samples) ==
    LET after[n \in 0..Len(samples)] ==
            IF n = 0 THEN [pending |-> pending, out |-> 0]
            ELSE LET put == Put(after[n - 1].pending, samples[n])
                 IN [pending |-> put.pending, out |-> after[n - 1].out + put.out]
    IN after[Len(samples)]

\* about: the command, or the run of the process whose health it is.
Frame(kind, samples, dropped, about) ==
    [kind |-> kind, samples |-> samples, dropped |-> dropped, about |-> about]

Telemetry(samples, dropped) == Frame("telemetry", samples, dropped, 0)

\* The samples of a tag among others, and the last of them.
OfTag(samples, t) == {i \in DOMAIN samples : samples[i].tag = t}
Latest(samples, t) == samples[Max(OfTag(samples, t))]

\* The last sample of each tag once the frames have been seen as well.
Seen(seen, frames) ==
    [t \in PlaneTags |->
        LET with == {i \in DOMAIN frames : OfTag(frames[i].samples, t) # {}}
        IN IF with = {} THEN seen[t] ELSE Latest(frames[Max(with)].samples, t).seq]

\* The commands that frames are about, and the drops they report.
Commands(frames) ==
    LET upto[n \in 0..Len(frames)] ==
            IF n = 0 THEN <<>>
            ELSE IF frames[n].kind = "command" THEN Append(upto[n - 1], frames[n].about) ELSE upto[n - 1]
    IN upto[Len(frames)]

Drops(frames) ==
    LET upto[n \in 0..Len(frames)] == IF n = 0 THEN 0 ELSE upto[n - 1] + frames[n].dropped
    IN upto[Len(frames)]

\* What the process knows once it has been given the frames.
Told(known, frames) ==
    [seen |-> Seen(known.seen, frames), got |-> known.got \o Commands(frames), dropped |-> known.dropped + Drops(frames)]

\* #drainOutbound: frames are written until a write reports that the pipe is
\* full, which any may do.
Drained(m) ==
    /\ m.child = "running"
    /\ IF m.blocked \/ m.outbound = <<>> THEN mirror' = m /\ UNCHANGED rust
       ELSE \E n \in DOMAIN m.outbound, full \in BOOLEAN :
                /\ n < Len(m.outbound) => full
                /\ rust' = Told(rust, SubSeq(m.outbound, 1, n))
                /\ mirror' = [m EXCEPT !.outbound = SubSeq(@, n + 1, Len(@)), !.blocked = full]

\* A frame that finds the outbound queue full takes the place of the oldest
\* telemetry.  Mutant: of the oldest frame.
RoomAtHead(m) == [m EXCEPT !.outbound = IF Len(@) >= MaxOutbound THEN Tail(@) ELSE @]

Room(m) ==
    LET telemetry == {i \in DOMAIN m.outbound : m.outbound[i].kind = "telemetry"} IN
    IF Len(m.outbound) < MaxOutbound \/ telemetry = {} THEN m
    ELSE [m EXCEPT !.outbound = RemoveAt(@, CHOOSE i \in telemetry : \A j \in telemetry : i <= j)]

\* #enqueue: refused if the pipe is gone or only commands wait.
Enqueue(m, frame) ==
    LET room == Room(m) IN
    IF m.child # "running" \/ Len(room.outbound) >= MaxOutbound
    THEN mirror' = m /\ cut' = TRUE /\ UNCHANGED rust
    ELSE /\ Drained([room EXCEPT !.outbound = Append(@, frame),
                                 !.accepted = IF frame.kind = "command" THEN Append(@, frame.about) ELSE @])
         /\ cut' = (cut \/ room # m)

\* #flushTelemetry.
Flush(m) ==
    LET rest == [m EXCEPT !.flush = FALSE, !.pending = <<>>, !.dropped = 0] IN
    IF m.pending = <<>> THEN mirror' = [m EXCEPT !.flush = FALSE] /\ UNCHANGED <<rust, cut>>
    ELSE Enqueue(rest, Telemetry(m.pending, m.dropped))

-----------------------------------------------------------------------------
(* The worker process.                                                     *)

WorkerRuns == worker.child = "running"

\* publish of a sample.
Publish(t) ==
    LET s == [tag |-> t, seq |-> newest[t] + 1]
        put == Put(sink.pending, s)
    IN
    /\ WorkerRuns
    /\ Spends("samples")
    /\ newest' = [newest EXCEPT ![t] = s.seq]
    /\ sink' = [pending |-> put.pending, timer |-> TRUE, dropped |-> sink.dropped + put.out]
    /\ evicted' = evicted + put.out
    /\ UNCHANGED <<wire, worker, mirror, rust, hub, server, cut>>

Batch == IF sink.pending = <<>> THEN <<>> ELSE <<Telemetry(sink.pending, sink.dropped)>>

SinkFlush ==
    /\ WorkerRuns
    /\ sink.timer
    /\ wire' = wire \o Batch
    /\ sink' = EmptySink
    /\ UNCHANGED <<worker, mirror, rust, hub, server, newest, evicted, cut, budget>>

\* publishCommand and #publishHealth send at once; a health frame bears the
\* run of its process.
SendCommand ==
    /\ WorkerRuns
    /\ Spends("commands")
    /\ wire' = Append(wire, Frame("command", <<>>, 0, budget.commands))
    /\ UNCHANGED <<sink, worker, mirror, rust, hub, server, newest, evicted, cut>>

SendHealth ==
    /\ WorkerRuns
    /\ Spends("beats")
    /\ wire' = Append(wire, Frame("health", <<>>, 0, worker.run))
    /\ UNCHANGED <<sink, worker, mirror, rust, hub, server, newest, evicted, cut>>

\* The process ends by itself, when what it has sent may still arrive, or as
\* it is told to, with its sink flushed.  #handleExit restarts it after a
\* delay.  Mutant: only if it has failed.
WorkerExitsForGood ==
    /\ WorkerRuns
    /\ \/ Spends("exits") /\ (\E n \in 0..Len(wire) : wire' = SubSeq(wire, 1, n)) /\ cut' = TRUE
       \/ worker.stopping /\ wire' = wire \o Batch /\ UNCHANGED <<budget, cut>>
    /\ sink' = EmptySink
    /\ \E failed \in BOOLEAN :
           worker' = [worker EXCEPT !.child = "none", !.health = 0, !.restart = failed /\ ~worker.stopping]
    /\ UNCHANGED <<mirror, rust, hub, server, newest, evicted>>

WorkerExits ==
    /\ WorkerRuns
    /\ \/ Spends("exits") /\ (\E n \in 0..Len(wire) : wire' = SubSeq(wire, 1, n)) /\ cut' = TRUE
       \/ worker.stopping /\ wire' = wire \o Batch /\ UNCHANGED <<budget, cut>>
    /\ sink' = EmptySink
    /\ worker' = [worker EXCEPT !.child = "none", !.health = 0, !.restart = ~worker.stopping]
    /\ UNCHANGED <<mirror, rust, hub, server, newest, evicted>>

-----------------------------------------------------------------------------
(* The server.                                                             *)

\* #spawn.  A process that cannot be started reports an error and no exit.
\* Mutant: the health of the process before stays.
SpawnKeepingHealth ==
    worker' = [worker EXCEPT !.child = "running", !.run = @ + 1, !.restart = FALSE]

SpawnWorker ==
    worker' = [worker EXCEPT !.child = "running", !.run = @ + 1, !.restart = FALSE, !.health = 0]

SpawnFails ==
    /\ Spends("errors")
    /\ worker' = [worker EXCEPT !.child = "error", !.run = @ + 1, !.restart = FALSE, !.health = 0]

SpawnMirror ==
    LET fresh == [mirror EXCEPT !.child = "running", !.restart = FALSE, !.blocked = FALSE, !.accepted = <<>>] IN
    \E full \in BOOLEAN :       \* the ping is written first
        mirror' = [fresh EXCEPT !.blocked = full]

\* httpServer.listen starts the mirror, if its binary is there, and the worker.
Listen ==
    /\ server = "starting"
    /\ server' = "up"
    /\ SpawnMirror \/ UNCHANGED mirror
    /\ (SpawnWorker /\ UNCHANGED budget) \/ SpawnFails
    /\ UNCHANGED <<sink, wire, rust, hub, newest, evicted, cut>>

RestartWorker ==
    /\ worker.restart
    /\ (SpawnWorker /\ UNCHANGED budget) \/ SpawnFails
    /\ UNCHANGED <<sink, mirror, rust, hub, server, newest, evicted>>
    /\ wire' = <<>>                   \* what has not arrived by now is lost
    /\ cut' = (cut \/ wire # <<>>)

\* routeRuntimeIpcMessage: telemetry is published and mirrored.
Receive ==
    LET f == Head(wire)
        put == PutAll(mirror.pending, f.samples)
    IN
    /\ wire # <<>>
    /\ wire' = Tail(wire)
    /\ CASE f.kind = "health" ->
              worker' = [worker EXCEPT !.health = f.about] /\ UNCHANGED <<mirror, rust, hub, evicted, cut>>
         [] f.kind = "command" ->
              /\ IF mirror.child = "none" THEN UNCHANGED <<mirror, rust, cut>> ELSE Enqueue(mirror, f)
              /\ UNCHANGED <<worker, hub, evicted>>
         [] f.kind = "telemetry" ->
              /\ hub' = Seen(hub, <<f>>)
              /\ IF mirror.child = "none" THEN cut' = TRUE /\ UNCHANGED <<mirror, evicted>>
                 ELSE /\ mirror' = [mirror EXCEPT !.pending = put.pending, !.flush = TRUE,
                                                  !.dropped = @ + put.out + f.dropped]
                      /\ evicted' = evicted + put.out
                      /\ UNCHANGED cut
              /\ UNCHANGED <<worker, rust>>
    /\ UNCHANGED <<sink, server, newest, budget>>

MirrorFlush ==
    /\ mirror.flush
    /\ Flush(mirror)
    /\ UNCHANGED <<sink, wire, worker, hub, server, newest, evicted, budget>>

\* The pipe has room again.
PipeDrains ==
    /\ mirror.child = "running"
    /\ mirror.blocked
    /\ Drained([mirror EXCEPT !.blocked = FALSE])
    /\ UNCHANGED <<sink, wire, worker, hub, server, newest, evicted, cut, budget>>

\* The pipe breaks while the process is still there.
PipeBreaks ==
    /\ mirror.child = "running"
    /\ Spends("breaks")
    /\ mirror' = [mirror EXCEPT !.child = "deaf"]
    /\ UNCHANGED <<sink, wire, worker, rust, hub, server, newest, evicted, cut>>

\* #handleExit: everything that waits is given up.  Mutant: but what waits
\* to be written.
MirrorExitsKeeping ==
    /\ mirror.child # "none"
    /\ mirror.stopping \/ budget.exits > 0
    /\ budget' = IF mirror.stopping THEN budget ELSE [budget EXCEPT !.exits = @ - 1]
    /\ mirror' = [mirror EXCEPT !.child = "none", !.restart = ~mirror.stopping, !.pending = <<>>, !.dropped = 0]
    /\ cut' = TRUE
    /\ rust' = [rust EXCEPT !.got = <<>>]
    /\ UNCHANGED <<sink, wire, worker, hub, server, newest, evicted>>

MirrorExits ==
    /\ mirror.child # "none"
    /\ mirror.stopping \/ budget.exits > 0
    /\ budget' = IF mirror.stopping THEN budget ELSE [budget EXCEPT !.exits = @ - 1]
    /\ mirror' = [EmptyMirror EXCEPT !.flush = mirror.flush, !.blocked = mirror.blocked,
                                     !.restart = ~mirror.stopping, !.stopping = mirror.stopping]
    /\ cut' = TRUE
    /\ rust' = [rust EXCEPT !.got = <<>>]
    /\ UNCHANGED <<sink, wire, worker, hub, server, newest, evicted>>

\* The restart succeeds, or spawn throws and nothing tries again.
RestartMirror ==
    /\ mirror.restart
    /\ \/ SpawnMirror /\ UNCHANGED budget
       \/ Spends("errors") /\ mirror' = [mirror EXCEPT !.restart = FALSE]
    /\ UNCHANGED <<sink, wire, worker, rust, hub, server, newest, evicted, cut>>

-----------------------------------------------------------------------------
(* The shutdown: worker, mirror and hub are closed one after the other.    *)

\* close() of the worker.  Mutant: the restart that is scheduled stays.
CloseWorkerOnly ==
    /\ server = "up"
    /\ server' = "closing worker"
    /\ worker' = [worker EXCEPT !.stopping = TRUE]
    /\ UNCHANGED <<sink, wire, mirror, rust, hub, newest, evicted, cut, budget>>

CloseWorker ==
    /\ server = "up"
    /\ server' = "closing worker"
    /\ worker' = [worker EXCEPT !.stopping = TRUE, !.restart = FALSE]
    /\ UNCHANGED <<sink, wire, mirror, rust, hub, newest, evicted, cut, budget>>

\* It returns when the child has gone, or kills it when its time is up.
\* Mutant: it waits for the exit alone.
CloseWorkerReturnsOnExit ==
    /\ server = "closing worker"
    /\ worker.child = "none"
    /\ server' = "close mirror"
    /\ UNCHANGED <<worker, sink, wire, cut, mirror, rust, hub, newest, evicted, budget>>

CloseWorkerReturns ==
    /\ server = "closing worker"
    /\ IF worker.child = "none" THEN UNCHANGED <<worker, sink, wire, cut>>
       ELSE /\ worker' = [worker EXCEPT !.child = "none"]
            /\ sink' = EmptySink
            /\ wire' = <<>>
            /\ cut' = TRUE
    /\ server' = "close mirror"
    /\ UNCHANGED <<mirror, rust, hub, newest, evicted, budget>>

\* close() of the mirror: what is pending is flushed, then it is told to end,
\* past the frames that wait.
CloseMirror ==
    /\ server = "close mirror"
    /\ server' = "closing mirror"
    /\ Flush([mirror EXCEPT !.stopping = TRUE, !.restart = FALSE])
    /\ UNCHANGED <<sink, wire, worker, hub, newest, evicted, budget>>

CloseMirrorReturns ==
    /\ server = "closing mirror"
    /\ server' = "done"
    /\ mirror' = [mirror EXCEPT !.child = "none"]
    /\ UNCHANGED <<sink, wire, worker, rust, hub, newest, evicted, cut, budget>>

-----------------------------------------------------------------------------
PlaneNext ==
    \/ \E t \in PlaneTags : Publish(t)
    \/ SinkFlush \/ SendCommand \/ SendHealth \/ WorkerExits
    \/ Listen \/ RestartWorker \/ Receive
    \/ MirrorFlush \/ PipeDrains \/ PipeBreaks \/ MirrorExits \/ RestartMirror
    \/ CloseWorker \/ CloseWorkerReturns \/ CloseMirror \/ CloseMirrorReturns

\* Timers fire, messages arrive, the awaits of the shutdown end.
PlaneTimers == Listen \/ RestartWorker \/ SinkFlush \/ MirrorFlush \/ Receive
PlaneCloses == CloseWorkerReturns \/ CloseMirror \/ CloseMirrorReturns

-----------------------------------------------------------------------------
(***************************************************************************)
(* Properties.                                                             *)
(***************************************************************************)

PlaneTypeOK ==
    /\ worker.child \in {"none", "running", "error"}
    /\ mirror.child \in {"none", "running", "deaf"}
    /\ server \in {"starting", "up", "closing worker", "close mirror", "closing mirror", "done"}
    /\ {hub[t] : t \in PlaneTags} \cup {rust.seen[t] : t \in PlaneTags} \subseteq Nat
    /\ Len(sink.pending) <= MaxPending /\ Len(mirror.pending) <= MaxPending
    /\ Len(mirror.outbound) <= MaxOutbound

\* The worker counts as ready by the word of the process that runs now, also
\* when the last message of its predecessor arrives after its exit.
HealthIsOfThisRun == WorkerRuns => worker.health \in {0, worker.run}

\* The samples on a way, in batches: those of frames, and those that pend.
Way(frames, pending) == Append([i \in DOMAIN frames |-> frames[i].samples], pending)

\* On the whole way a later sample of a tag never overtakes an earlier one,
\* through two maps that replace samples in place, frames that are given up
\* and restarts: the streams and the mirror never fall back to an old value.
Ascending(start, way) ==
    \A i \in DOMAIN way : \A a \in DOMAIN way[i] :
        LET s == way[i][a] IN
        /\ s.seq > start[s.tag]
        /\ \A j \in 1..i : \A b \in DOMAIN way[j] :
               (j < i \/ b < a) /\ way[j][b].tag = s.tag => way[j][b].seq < s.seq

OrderIsKept ==
    /\ Ascending(hub, Way(wire, sink.pending))
    /\ Ascending(rust.seen, Way(mirror.outbound, mirror.pending))

\* Each status the mirror has accepted is written to its process or waits to
\* be, in order: telemetry gives way, and a new process gets none of the old.
CommandsGoThrough == mirror.accepted = rust.got \o Commands(mirror.outbound)

\* What waits is waited for: a map has its timer, the outbound queue the
\* drain of a pipe that was full.
NothingIsForgotten ==
    /\ sink.pending # <<>> => sink.timer
    /\ mirror.pending # <<>> => mirror.flush
    /\ mirror.child = "running" /\ mirror.outbound # <<>> => mirror.blocked

\* The drops reported to the mirror's process, and to be reported, are those
\* of both maps, unless an exit or a frame given up took some along.
DropsAreCounted ==
    ~cut => evicted = sink.dropped + Drops(wire) + mirror.dropped + Drops(mirror.outbound) + rust.dropped

\* After the shutdown nothing runs and nothing is about to be started.
NothingLeft ==
    server \in {"close mirror", "closing mirror", "done"} => worker.child = "none" /\ ~worker.restart

\* What holds of the processes and their timers at every moment.
PlaneInv == HealthIsOfThisRun /\ NothingIsForgotten /\ NothingLeft

\* What holds of the samples, statuses and counts on their way, with the types.
FlowInv == PlaneTypeOK /\ OrderIsKept /\ CommandsGoThrough /\ DropsAreCounted

\* A worker that has gone is started again, and a shutdown comes to its end.
WorkerReturns == server = "up" /\ worker.child = "none" ~> server # "up" \/ worker.child # "none"

PlaneShutsDown == server = "closing worker" ~> server = "done"
=============================================================================
