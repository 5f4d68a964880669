----------------------- MODULE RuntimeSimulationProofs -----------------------
(***************************************************************************)
(* The answers of the Simulation Bridge, the values its pages publish and  *)
(* the commands of a Simulation project: that BridgeInv holds for every    *)
(* number of pages and RPCs, TelemetryInv for any changes, failures and    *)
(* writers, and ControlInv for any pages, recipe and buttons.              *)
(*                                                                         *)
(* What is known of an RPC only grows (Onward): its record, its first      *)
(* answer, its telemetry.  So what a request has read about it stays true  *)
(* while the request waits (Placed, Completes), and a step disturbs only   *)
(* the request that takes it and the RPC it is about.  As long as no call  *)
(* fails and no claim expires, who sends holds the claim (SendsWithClaim), *)
(* the claim is for the stage that comes next (ClaimFits), and a stage     *)
(* whose message has gone is over or its claim keeps others away           *)
(* (StageIsPast).  A page asks only when it has no answer to deliver       *)
(* (Minds), so that it applies no RPC twice (Remembers).                   *)
(***************************************************************************)
EXTENDS RuntimeSimulation, FiniteSetTheorems, SequenceTheorems, WellFoundedInduction, TLAPS

Bounds == [rpcs : Nat, pages : SUBSET Responders, takeovers : Nat, lapses : Nat, claims : Nat,
           failures : Nat, breaks : Nat, deaths : Nat, closes : Nat]
Statuses == {"none", "received", "published", "responded"}
Request == [pc : {"none", "lease", "find", "adopt", "poll", "record", "read", "store",
                  "claim", "send", "advance", "unclaim"},
            page : Responders \cup {None}, asks : BOOLEAN, rpc : Rpcs \cup {0}, found : Rpcs \cup {0},
            answer : Answers \cup {None}, status : Statuses, again : BOOLEAN]

BridgeTyped ==
    /\ BridgeTypeOK
    /\ budget \in Bounds /\ 1..budget.rpcs \subseteq Rpcs
    /\ work \in [Slots -> Request]
    /\ applied \in [Responders -> [Rpcs -> Nat]]
    /\ asked \in Nat /\ asked <= budget.rpcs
    /\ telemetry \in [Rpcs -> Seq(Answers \cup {None})]
    /\ response \in [Rpcs -> Seq(Answers \cup {None})]

Fallback(i) == <<"fallback", i>> \in events
Repeats(i) == <<"repeat", i>> \in events
Forgotten(i) == <<"forgotten", i>> \in events
Recorded(i) == rpc[i].status # "none"

\* An RPC without a record has left no trace.
Fresh(i) ==
    /\ rpc[i].status = "none" => rpc[i].answer = None /\ telemetry[i] = <<>> /\ response[i] = <<>>
    /\ i > asked => rpc[i].status = "none"

\* A request that is worked on: whose it is, and which RPC it is about.
Placed(s) ==
    LET w == work[s] IN
    /\ IF w.pc = "none" THEN w = NoWork ELSE w.page \in Responders /\ s \in {w.page, Orphan}
    /\ w.again => w.asks
    /\ w.pc \in {"poll", "record"} => w.asks
    /\ w.pc \in {"read", "store"} => ~w.asks
    /\ w.pc \in {"lease", "read", "store"} /\ ~w.asks => w.answer # None
    /\ w.pc = "record" => w.rpc \in 1..asked /\ rpc[w.rpc].status = "none"
    /\ w.pc = "adopt" => w.found \in Rpcs /\ w.status \in {"received", "published"}
    /\ w.pc \in {"claim", "send", "advance", "unclaim"} \/ (w.pc # "none" /\ ~w.asks) =>
           w.rpc \in Rpcs /\ Recorded(w.rpc)

\* What a request that completes an RPC knows of it.
Completes(s) ==
    LET w == work[s] IN
    /\ w.pc \in {"claim", "send", "advance", "unclaim"} =>
           /\ w.status \in {"received", "published", "responded"}
           /\ w.status # "received" => rpc[w.rpc].status \in {"published", "responded"}
           /\ w.status = "responded" => w.pc = "claim" /\ ~w.asks
    /\ w.pc \in {"claim", "send", "advance"} => Fallback(w.rpc) \/ rpc[w.rpc].answer # None
    /\ w.pc \in {"send", "advance"} => Fallback(w.rpc) \/ w.answer = rpc[w.rpc].answer
    /\ w.pc = "advance" /\ w.status = "received" =>
           Fallback(w.rpc) \/ w.rpc \in Quiet \/ telemetry[w.rpc] # <<>>

Reported(i) ==
    rpc[i].status \in {"published", "responded"} =>
        \/ Fallback(i)
        \/ rpc[i].answer # None /\ (i \in Quiet \/ telemetry[i] # <<>>)

\* An RPC that was polled is recorded by one request.
PolledOnce ==
    \A s, t \in Slots : s # t /\ work[s].pc = "record" /\ work[t].pc = "record" => work[s].rpc # work[t].rpc

\* A claim is for the stage that comes next.
ClaimFits(i) ==
    /\ rpc[i].stage # "none" => rpc[i].status \in {"received", "published"} /\ rpc[i].stage = StageOf(rpc[i].status)
    /\ rpc[i].lapsed => Repeats(i)

\* Who sends has the claim, as long as nothing made a repetition possible.
SendsWithClaim(s) ==
    /\ work[s].pc \in {"send", "advance"} => Repeats(work[s].rpc) \/ Holds(s)
    /\ work[s].pc = "unclaim" => Repeats(work[s].rpc)

About(i, pc) == \E s \in Slots : work[s].pc = pc /\ work[s].rpc = i

\* A stage whose message has gone is over, or its claim keeps others from it.
StageIsPast(i) ==
    \/ Repeats(i)
    \/ /\ Len(telemetry[i]) <= 1 /\ Len(response[i]) <= 1
       /\ telemetry[i] # <<>> =>
              \/ rpc[i].status \in {"published", "responded"}
              \/ rpc[i].stage = "telemetry" /\ ~About(i, "send")
       /\ response[i] # <<>> =>
              \/ rpc[i].status = "responded"
              \/ rpc[i].stage = "response" /\ ~About(i, "send")

\* A page that is open asks unless it has an answer to deliver, and knows what
\* it has applied.
Minds(p) ==
    /\ responder[p].pending # 0 => Recorded(responder[p].pending)
    /\ responder[p].open /\ work[p].pc # "none" => (work[p].asks <=> responder[p].pending = 0)
    /\ responder[p].open /\ work[p].pc = "lease" /\ ~work[p].asks => work[p].rpc = responder[p].pending

Remembers(p, i) ==
    \/ Forgotten(i)
    \/ /\ applied[p][i] <= 1
       /\ applied[p][i] = 1 /\ responder[p].open => i \in responder[p].processed \/ responder[p].pending = i

\* The inductive invariant: the types, what holds of RPCs and requests, and
\* what holds of the pages.
Dealings ==
    /\ \A i \in Rpcs : Fresh(i) /\ Reported(i) /\ ClaimFits(i) /\ StageIsPast(i)
    /\ \A s \in Slots : Placed(s) /\ Completes(s) /\ SendsWithClaim(s)
    /\ PolledOnce
    /\ OneAnswer
    /\ TelemetryFirst

Pages == \A p \in Responders : Minds(p) /\ \A i \in Rpcs : Remembers(p, i)

BridgeIInv == BridgeTyped /\ Dealings /\ Pages

LEMMA BridgeSafe == BridgeIInv => BridgeInv
<1> SUFFICES ASSUME BridgeIInv PROVE BridgeInv
  OBVIOUS
<1>1. SentOnce
  <2> SUFFICES ASSUME NEW i \in Rpcs PROVE Repeats(i) \/ (Len(telemetry[i]) <= 1 /\ Len(response[i]) <= 1)
    BY DEF SentOnce, Repeats
  <2> QED BY DEF BridgeIInv, Dealings, StageIsPast
<1>2. AppliedOnce
  <2> SUFFICES ASSUME NEW i \in Rpcs, NEW p \in Responders PROVE Forgotten(i) \/ applied[p][i] <= 1
    BY DEF AppliedOnce, Forgotten
  <2> QED BY DEF BridgeIInv, Pages, Remembers
<1> QED BY <1>1, <1>2 DEF BridgeIInv, BridgeTyped, Dealings, BridgeInv

LEMMA BridgeBegins == BridgeInit => BridgeIInv
<1> SUFFICES ASSUME BridgeInit PROVE BridgeIInv
  OBVIOUS
<1> USE DEF BridgeInit
<1>1. BridgeTyped
  <2>1. BridgeTypeOK
    BY BridgeAssumption DEF BridgeTypeOK, NoRpc, Slots, Answers
  <2>2. budget \in Bounds /\ 1..budget.rpcs \subseteq Rpcs
    BY BridgeAssumption DEF Bounds
  <2>3. work \in [Slots -> Request]
    BY DEF Request, NoWork, Statuses
  <2> QED BY <2>1, <2>2, <2>3 DEF BridgeTyped, Bounds
<1>2. \A i \in Rpcs : Fresh(i) /\ Reported(i) /\ ClaimFits(i) /\ StageIsPast(i)
  BY DEF Fresh, Reported, ClaimFits, StageIsPast, NoRpc
<1>3. \A s \in Slots : Placed(s) /\ Completes(s) /\ SendsWithClaim(s)
  BY DEF Placed, Completes, SendsWithClaim, NoWork
<1>4. PolledOnce
  BY DEF PolledOnce, NoWork
<1>5. OneAnswer /\ TelemetryFirst
  <2>1. ToSet(<<>>) = {}
    BY DEF ToSet
  <2>2. \A i \in Rpcs : telemetry[i] = <<>> /\ response[i] = <<>>
    OBVIOUS
  <2> HIDE DEF BridgeInit
  <2>3. OneAnswer
    BY <2>1, <2>2 DEF OneAnswer
  <2> QED BY <2>2, <2>3 DEF TelemetryFirst
<1>6. Pages
  <2> SUFFICES ASSUME NEW p \in Responders PROVE Minds(p) /\ \A i \in Rpcs : Remembers(p, i)
    BY DEF Pages
  <2>1. p \in Slots
    BY DEF Slots
  <2>2. Minds(p)
    BY <2>1 DEF Minds, NoWork
  <2>3. \A i \in Rpcs : Remembers(p, i)
    BY DEF Remembers
  <2> QED BY <2>2, <2>3
<1> QED BY <1>1, <1>2, <1>3, <1>4, <1>5, <1>6 DEF BridgeIInv, Dealings

-----------------------------------------------------------------------------
(* What steps have in common.                                              *)

\* What is known of RPCs only grows.
Onward ==
    /\ events \subseteq events'
    /\ asked' \in Nat /\ asked <= asked'
    /\ \A i \in Rpcs :
          /\ rpc[i].status # "none" => rpc'[i].status # "none"
          /\ rpc[i].status \in {"published", "responded"} => rpc'[i].status \in {"published", "responded"}
          /\ rpc[i].answer # None => rpc'[i].answer = rpc[i].answer
          /\ telemetry[i] # <<>> => telemetry'[i] # <<>>

LEMMA PolledAreRpcs == BridgeIInv => 1..asked \subseteq Rpcs /\ asked \in Nat
<1> SUFFICES ASSUME BridgeIInv PROVE 1..asked \subseteq Rpcs /\ asked \in Nat
  OBVIOUS
<1>1. budget.rpcs \in Nat /\ 1..budget.rpcs \subseteq Rpcs
  BY DEF BridgeIInv, BridgeTyped, Bounds
<1>2. asked \in Nat /\ asked <= budget.rpcs
  BY DEF BridgeIInv, BridgeTyped
<1>3. 1..asked \subseteq 1..budget.rpcs
  BY <1>1, <1>2
<1> QED BY <1>1, <1>2, <1>3

\* A request that a step leaves alone stays what it was.
LEMMA OthersGoOn ==
    ASSUME BridgeIInv, Onward, NEW t \in Slots, work'[t] = work[t],
           work[t].pc = "record" => rpc'[work[t].rpc].status = "none"
    PROVE  Placed(t)' /\ Completes(t)'
<1> DEFINE w == work[t]
<1>0. w \in Request /\ Placed(t) /\ Completes(t) /\ asked \in Nat
  BY DEF BridgeIInv, BridgeTyped, Dealings
<1>1. Placed(t)'
  BY <1>0 DEF Placed, Onward, Recorded, Request
<1>2. w.pc \in {"claim", "send", "advance", "unclaim"} => w.rpc \in Rpcs
  BY <1>0 DEF Placed
<1>3. Completes(t)'
  BY <1>0, <1>2 DEF Completes, Onward, Fallback
<1> QED BY <1>1, <1>3

\* Most steps of a request note who deals with an RPC, or its answer, and send
\* nothing: only the request itself has to be looked at.
NotedAt(j) ==
    /\ rpc'[j].status = rpc[j].status
    /\ rpc'[j].stage = rpc[j].stage
    /\ rpc'[j].by = rpc[j].by
    /\ rpc'[j].lapsed = rpc[j].lapsed
    /\ rpc'[j].answer # rpc[j].answer => rpc[j].answer = None /\ Recorded(j)

LEMMA NotedIsOnward ==
    ASSUME BridgeIInv, \A j \in Rpcs : NotedAt(j), telemetry' = telemetry,
           events \subseteq events', asked' \in Nat, asked <= asked'
    PROVE  Onward
BY DEF Onward, NotedAt

LEMMA Noted ==
    ASSUME BridgeIInv, \A j \in Rpcs : NotedAt(j), UNCHANGED <<telemetry, response>>,
           events \subseteq events', asked' \in Nat, asked <= asked',
           NEW s \in Slots, \A t \in Slots \ {s} : work'[t] = work[t],
           work'[s].pc \notin {"send", "advance", "unclaim"},
           work'[s].pc = "record" => \A t \in Slots \ {s} : work[t].pc = "record" => work[t].rpc # work'[s].rpc,
           Placed(s)', Completes(s)'
    PROVE  Dealings'
<1>0. Dealings /\ Onward
  BY NotedIsOnward DEF BridgeIInv
<1>1. ASSUME NEW i \in Rpcs PROVE Fresh(i)' /\ Reported(i)' /\ ClaimFits(i)' /\ StageIsPast(i)'
  <2>0. Fresh(i) /\ Reported(i) /\ ClaimFits(i) /\ StageIsPast(i) /\ NotedAt(i) /\ i \in Nat /\ asked \in Nat
    BY <1>0, BridgeAssumption DEF Dealings, BridgeIInv, BridgeTyped
  <2>1. Fresh(i)'
    BY <2>0 DEF Fresh, NotedAt, Recorded
  <2>2. Reported(i)'
    BY <2>0 DEF Reported, NotedAt, Fallback
  <2>3. ClaimFits(i)'
    BY <2>0 DEF ClaimFits, NotedAt, Repeats, StageOf
  <2>4. About(i, "send")' => About(i, "send")
    BY DEF About
  <2>5. StageIsPast(i)'
    BY <2>0, <2>4 DEF StageIsPast, NotedAt, Repeats
  <2> QED BY <2>1, <2>2, <2>3, <2>5
<1>2. ASSUME NEW t \in Slots PROVE Placed(t)' /\ Completes(t)' /\ SendsWithClaim(t)'
  <2>1. CASE t = s
    BY <2>1 DEF SendsWithClaim
  <2>2. CASE t # s
    <3>0. work'[t] = work[t] /\ Placed(t) /\ SendsWithClaim(t) /\ asked \in Nat
      BY <2>2, <1>0 DEF Dealings, BridgeIInv, BridgeTyped
    <3>1. work[t].pc = "record" => work[t].rpc \in Rpcs /\ rpc[work[t].rpc].status = "none"
      BY <1>0, PolledAreRpcs, <3>0 DEF Placed
    <3>2. Placed(t)' /\ Completes(t)'
      BY <3>0, <3>1, <1>0, OthersGoOn DEF NotedAt
    <3>3. work[t].pc \in {"send", "advance"} => work[t].rpc \in Rpcs
      BY <3>0 DEF Placed
    <3>4. SendsWithClaim(t)'
      BY <3>0, <3>3 DEF SendsWithClaim, Repeats, Holds, NotedAt
    <3> QED BY <3>2, <3>4
  <2> QED BY <2>1, <2>2
<1>3. PolledOnce'
  BY <1>0 DEF PolledOnce, Dealings
<1>4. OneAnswer'
  BY <1>0 DEF OneAnswer, Dealings, NotedAt
<1>5. TelemetryFirst'
  BY <1>0 DEF TelemetryFirst, Dealings
<1> QED BY <1>1, <1>2, <1>3, <1>4, <1>5 DEF Dealings

\* The pages, as long as none gets an answer.
LEMMA PagesWait ==
    ASSUME BridgeIInv, Onward, UNCHANGED <<responder, applied>>,
           \A p \in Responders :
               \/ work'[p].pc = "none"
               \/ /\ work[p].pc # "none"
                  /\ work'[p].asks = work[p].asks
                  /\ work'[p].pc = "lease" => work'[p] = work[p]
    PROVE  Pages'
<1> SUFFICES ASSUME NEW p \in Responders PROVE Minds(p)' /\ \A i \in Rpcs : Remembers(p, i)'
  BY DEF Pages
<1>0. Minds(p) /\ (\A i \in Rpcs : Remembers(p, i)) /\ responder[p].pending \in Rpcs \cup {0}
  BY DEF BridgeIInv, Pages, BridgeTyped, BridgeTypeOK
<1>1. Minds(p)'
  BY <1>0 DEF Minds, Onward, Recorded
<1>2. \A i \in Rpcs : Remembers(p, i)'
  BY <1>0 DEF Remembers, Forgotten, Onward
<1> QED BY <1>1, <1>2

\* A result reaches its page: the request is over.
GetsWell(s, result, i) ==
    /\ result \in {"request", "ok", "standby", "error", "null"}
    /\ result = "request" => work[s].asks /\ i \in Rpcs /\ rpc'[i].status # "none"
    /\ result = "ok" => ~work[s].asks
    /\ result = "standby" => work[s].pc = "lease" /\ (work[s].asks \/ <<"forgotten", work[s].rpc>> \in events')

\* What the pages know once they got something, with its type.
PagesTyped ==
    /\ responder \in [Responders -> [open : BOOLEAN, pending : Rpcs \cup {0}, processed : SUBSET Rpcs]]
    /\ applied \in [Responders -> [Rpcs -> Nat]]

LEMMA PagesGet ==
    ASSUME BridgeIInv, Onward, NEW s \in Slots, NEW result, NEW i, work[s].pc # "none",
           Gets(s, result, i), GetsWell(s, result, i)
    PROVE  /\ work' = [work EXCEPT ![s] = NoWork]
           /\ PagesTyped'
           /\ Pages'
<1>p. PICK p : p = work[s].page
  OBVIOUS
<1>0. /\ PagesTyped
      /\ work \in [Slots -> Request]
      /\ p \in Responders /\ s \in {p, Orphan}
      /\ \A q \in Responders : Minds(q) /\ \A j \in Rpcs : Remembers(q, j)
  BY <1>p DEF BridgeIInv, BridgeTyped, BridgeTypeOK, PagesTyped, Dealings, Placed, Pages
<1>1. work' = [work EXCEPT ![s] = NoWork]
  BY DEF Gets
<1>2. CASE UNCHANGED <<responder, applied>>
  BY <1>0, <1>2, <1>1, PagesWait DEF PagesTyped, Slots, NoWork
<1>3. CASE ~UNCHANGED <<responder, applied>>
  <2>1. s = p /\ s # Orphan /\ responder[p].open
    BY <1>p, <1>0, <1>3 DEF Gets
  <2>2. \/ result = "request" /\ i \notin responder[p].processed /\ GetsRequest(p, i)
        \/ result = "ok" /\ GetsOk(p)
        \/ result = "standby" /\ GetsStandby(p)
    BY <2>1, <1>3, <1>p DEF Gets, GetsRequest, GetsOk, GetsStandby, GetsWell
  <2>3. Minds(p) /\ work[p].pc # "none" /\ (work[p].asks <=> responder[p].pending = 0)
    BY <1>0, <2>1 DEF Minds
  <2>4. work'[p].pc = "none"
    BY <1>0, <1>1, <2>1 DEF NoWork
  <2>5. PagesTyped' /\ \A q \in Responders \ {p} : responder'[q] = responder[q] /\ applied'[q] = applied[q]
    <3>1. CASE result = "request" /\ GetsRequest(p, i) /\ i \notin responder[p].processed
      <4>1. i \in Rpcs
        BY <3>1 DEF GetsWell
      <4> DEFINE new == [responder[p] EXCEPT !.pending = i]
      <4> DEFINE times == [applied[p] EXCEPT ![i] = applied[p][i] + 1]
      <4>2. new \in [open : BOOLEAN, pending : Rpcs \cup {0}, processed : SUBSET Rpcs]
        BY <4>1, <1>0 DEF PagesTyped
      <4>3. times \in [Rpcs -> Nat]
        BY <4>1, <1>0 DEF PagesTyped
      <4>4. responder' = [responder EXCEPT ![p] = new] /\ applied' = [applied EXCEPT ![p] = times]
        BY <3>1, <1>0 DEF GetsRequest, PagesTyped
      <4> HIDE DEF new, times
      <4> QED BY <4>2, <4>3, <4>4, <1>0 DEF PagesTyped
    <3>2. CASE result = "ok" /\ GetsOk(p)
      <4>1. responder[p].pending \in Rpcs
        BY <3>2, <1>0, <2>1, <2>3 DEF GetsWell, PagesTyped
      <4> DEFINE new == [open |-> responder[p].open, pending |-> 0,
                       processed |-> responder[p].processed \cup {responder[p].pending}]
      <4>2. new \in [open : BOOLEAN, pending : Rpcs \cup {0}, processed : SUBSET Rpcs]
        BY <4>1, <1>0 DEF PagesTyped
      <4>3. responder' = [responder EXCEPT ![p] = new] /\ applied' = applied
        BY <3>2 DEF GetsOk
      <4> HIDE DEF new
      <4> QED BY <4>2, <4>3, <1>0 DEF PagesTyped
    <3>3. CASE result = "standby" /\ GetsStandby(p)
      <4> DEFINE new == [responder[p] EXCEPT !.pending = 0]
      <4>2. new \in [open : BOOLEAN, pending : Rpcs \cup {0}, processed : SUBSET Rpcs]
        BY <1>0 DEF PagesTyped
      <4>3. responder' = [responder EXCEPT ![p] = new] /\ applied' = applied
        BY <3>3 DEF GetsStandby
      <4> HIDE DEF new
      <4> QED BY <4>2, <4>3, <1>0 DEF PagesTyped
    <3> QED BY <2>2, <3>1, <3>2, <3>3
  <2>6. ASSUME NEW q \in Responders \ {p} PROVE Minds(q)' /\ \A j \in Rpcs : Remembers(q, j)'
    <3>1. Minds(q) /\ (\A j \in Rpcs : Remembers(q, j)) /\ responder[q].pending \in Rpcs \cup {0}
      BY <1>0 DEF PagesTyped
    <3>2. work'[q] = work[q] /\ responder'[q] = responder[q] /\ applied'[q] = applied[q]
      BY <1>0, <1>1, <2>1, <2>5 DEF Slots
    <3>3. Minds(q)'
      BY <3>1, <3>2 DEF Minds, Onward, Recorded
    <3>4. \A j \in Rpcs : Remembers(q, j)'
      BY <3>1, <3>2 DEF Remembers, Forgotten, Onward
    <3> QED BY <3>3, <3>4
  <2>7. Minds(p)'
    <3>1. CASE result = "request" /\ GetsRequest(p, i) /\ i \notin responder[p].processed
      BY <3>1, <1>0, <2>4 DEF GetsRequest, PagesTyped, Minds, Recorded, GetsWell
    <3>2. CASE GetsOk(p) \/ GetsStandby(p)
      BY <3>2, <1>0, <2>4 DEF GetsOk, GetsStandby, PagesTyped, Minds
    <3> QED BY <2>2, <3>1, <3>2
  <2>8. ASSUME NEW j \in Rpcs PROVE Remembers(p, j)'
    <3>0. Remembers(p, j) /\ (Forgotten(j) => Forgotten(j)') /\ j # 0 /\ applied[p][j] \in Nat
      BY <1>0, BridgeAssumption DEF Forgotten, Onward, PagesTyped
    <3>1. CASE result = "request" /\ GetsRequest(p, i) /\ i \notin responder[p].processed
      <4>1. work[p].asks /\ responder[p].pending = 0
        BY <3>1, <2>1, <2>3 DEF GetsWell
      <4>2. /\ applied'[p][j] = IF j = i THEN applied[p][j] + 1 ELSE applied[p][j]
            /\ responder'[p].pending = i
            /\ responder'[p].processed = responder[p].processed
        BY <3>1, <1>0 DEF GetsRequest, PagesTyped
      <4>3. ~Forgotten(j) => applied[p][j] <= 1 /\ (applied[p][j] = 1 => j \in responder[p].processed)
        BY <3>0, <4>1, <2>1 DEF Remembers
      <4> QED BY <3>0, <3>1, <4>2, <4>3 DEF Remembers
    <3>2. CASE result = "ok" /\ GetsOk(p)
      BY <3>2, <1>0, <3>0 DEF GetsOk, PagesTyped, Remembers
    <3>3. CASE result = "standby" /\ GetsStandby(p)
      <4>1. /\ applied' = applied
            /\ responder'[p].open = responder[p].open
            /\ responder'[p].processed = responder[p].processed
        BY <3>3, <1>0 DEF GetsStandby, PagesTyped
      <4>2. responder[p].pending = j => Forgotten(j)'
        BY <3>3, <3>0, <2>1, <2>3, <1>p DEF GetsWell, Minds, Forgotten
      <4> QED BY <3>0, <4>1, <4>2 DEF Remembers
    <3> QED BY <2>2, <3>1, <3>2, <3>3
  <2>9. Pages'
    BY <2>7, <2>8, <2>6 DEF Pages
  <2> QED BY <1>1, <2>5, <2>9
<1> QED BY <1>2, <1>3

\* The types of what is not a page's and not a request.
RpcRecord == [status : Statuses, owner : Responders \cup {None}, answer : Answers \cup {None},
              stage : {"none", "telemetry", "response"}, by : Slots \cup {None}, lapsed : BOOLEAN]
Held ==
    /\ lease \in [owner : Responders \cup {None}, lapsed : BOOLEAN]
    /\ rpc \in [Rpcs -> RpcRecord]
    /\ received \in Seq(Rpcs)
    /\ budget \in Bounds /\ 1..budget.rpcs \subseteq Rpcs
    /\ asked \in Nat /\ asked <= budget.rpcs
    /\ telemetry \in [Rpcs -> Seq(Answers \cup {None})]
    /\ response \in [Rpcs -> Seq(Answers \cup {None})]

LEMMA TypedIs == BridgeTyped <=> Held /\ PagesTyped /\ work \in [Slots -> Request]
BY DEF BridgeTyped, BridgeTypeOK, Held, PagesTyped, RpcRecord, Statuses

LEMMA TypedWillBe ==
    ASSUME Held', PagesTyped', work' \in [Slots -> Request], Dealings', Pages'
    PROVE  BridgeIInv'
BY DEF BridgeTyped, BridgeTypeOK, Held, PagesTyped, RpcRecord, Statuses, BridgeIInv

\* What is known of a request at work.
LEMMA AtWork ==
    ASSUME BridgeIInv, NEW s \in Slots
    PROVE  /\ Held /\ PagesTyped /\ work \in [Slots -> Request] /\ work[s] \in Request
           /\ Placed(s) /\ Completes(s) /\ SendsWithClaim(s)
           /\ work[s].pc # "none" => work[s].page \in Responders
BY TypedIs DEF BridgeIInv, Dealings, Placed

\* A request ends and its result reaches the page.
LEMMA Delivers ==
    ASSUME BridgeIInv, NEW s \in Slots, NEW result, NEW i, work[s].pc # "none",
           Gets(s, result, i), GetsWell(s, result, i),
           \A j \in Rpcs : NotedAt(j), UNCHANGED <<telemetry, response>>,
           events \subseteq events', asked' \in Nat, asked <= asked'
    PROVE  work' \in [Slots -> Request] /\ PagesTyped' /\ Dealings' /\ Pages'
<1>1. Onward
  BY NotedIsOnward
<1>2. work' = [work EXCEPT ![s] = NoWork] /\ PagesTyped' /\ Pages'
  BY <1>1, PagesGet
<1>3. NoWork \in Request
  BY DEF NoWork, Request, Statuses
<1>4. work' \in [Slots -> Request] /\ work'[s] = NoWork /\ \A t \in Slots \ {s} : work'[t] = work[t]
  BY <1>2, <1>3, AtWork
<1>5. Placed(s)' /\ Completes(s)'
  BY <1>4 DEF Placed, Completes, NoWork
<1>6. work'[s].pc = "none"
  BY <1>4 DEF NoWork
<1>7. Dealings'
  BY <1>4, <1>5, <1>6, Noted
<1> QED BY <1>2, <1>4, <1>7

\* A request goes on to something else than a call of ThingsBoard's.
LEMMA MovesOn ==
    ASSUME BridgeIInv, NEW s \in Slots, NEW w \in Request, work[s].pc # "none",
           work' = [work EXCEPT ![s] = w], UNCHANGED <<responder, applied>>,
           w.asks = work[s].asks, w.pc \notin {"lease", "send", "advance", "unclaim"},
           w.pc = "record" => \A t \in Slots \ {s} : work[t].pc = "record" => work[t].rpc # w.rpc,
           Placed(s)', Completes(s)',
           \A j \in Rpcs : NotedAt(j), UNCHANGED <<telemetry, response>>,
           events \subseteq events', asked' \in Nat, asked <= asked'
    PROVE  work' \in [Slots -> Request] /\ PagesTyped' /\ Dealings' /\ Pages'
BY NotedIsOnward, AtWork, Noted, PagesWait DEF PagesTyped, Slots

-----------------------------------------------------------------------------
(* The steps.                                                              *)

LEMMA AskStep ==
    ASSUME BridgeIInv, NEW p \in Responders, Ask(p)
    PROVE  BridgeIInv'
<1> DEFINE i == responder[p].pending
<1>0. /\ Held /\ PagesTyped /\ work \in [Slots -> Request] /\ p \in Slots
      /\ Minds(p) /\ responder[p].open /\ i \in Rpcs \cup {0} /\ work[p].pc = "none"
  <2>1. p \in Slots
    BY DEF Slots
  <2>2. Held /\ PagesTyped /\ work \in [Slots -> Request]
    BY <2>1, AtWork
  <2>3. responder[p].open /\ work[p].pc = "none"
    BY DEF Ask, NoWork
  <2>4. i \in Rpcs \cup {0}
    BY <2>2 DEF PagesTyped
  <2> QED BY <2>1, <2>2, <2>3, <2>4 DEF BridgeIInv, Pages
<1> DEFINE first == i = 0
<1> DEFINE w == [NoWork EXCEPT !.pc = "lease", !.page = p, !.asks = first, !.rpc = i,
                               !.answer = IF i = 0 THEN None ELSE <<p, applied[p][i]>>]
<1>1. /\ w \in Request /\ w.pc = "lease" /\ w.page = p /\ w.asks = (i = 0) /\ w.rpc = i /\ ~w.again
      /\ (i # 0 => w.answer # None)
  <2>1. i # 0 => <<p, applied[p][i]>> \in Answers
    BY <1>0 DEF PagesTyped, Answers
  <2>2. i # 0 => <<p, applied[p][i]>> # None
    BY <2>1, BridgeAssumption
  <2>3. first \in BOOLEAN /\ first = (i = 0)
    OBVIOUS
  <2> HIDE DEF first
  <2>4. w \in Request
    BY <1>0, <2>1, <2>3 DEF Request, Statuses, NoWork
  <2>5. w.pc = "lease" /\ w.page = p /\ w.asks = first /\ w.rpc = i /\ ~w.again
    BY DEF NoWork
  <2>6. i # 0 => w.answer # None
    BY <2>2 DEF NoWork
  <2> QED BY <2>3, <2>4, <2>5, <2>6
<1>2. work' = [work EXCEPT ![p] = w]
  BY DEF Ask
<1>3. work' \in [Slots -> Request] /\ work'[p] = w /\ \A t \in Slots \ {p} : work'[t] = work[t]
  BY <1>0, <1>1, <1>2
<1>4. UNCHANGED <<rpc, telemetry, response, events, asked, responder, applied>> /\ asked \in Nat
  BY <1>0 DEF Ask, Held
<1>5. i # 0 => i \in Rpcs /\ Recorded(i)
  BY <1>0 DEF Minds
<1> HIDE DEF w
<1>6. Placed(p)' /\ Completes(p)'
  BY <1>1, <1>3, <1>4, <1>5 DEF Placed, Completes, Recorded
<1>7. \A j \in Rpcs : NotedAt(j)
  BY <1>4 DEF NotedAt
<1>8. Dealings'
  BY <1>0, <1>1, <1>3, <1>4, <1>6, <1>7, Noted
<1>9. Pages'
  <2> SUFFICES ASSUME NEW q \in Responders PROVE Minds(q)' /\ \A j \in Rpcs : Remembers(q, j)'
    BY DEF Pages
  <2>1. Minds(q) /\ \A j \in Rpcs : Remembers(q, j)
    BY DEF BridgeIInv, Pages
  <2>2. \A j \in Rpcs : Remembers(q, j)'
    BY <2>1, <1>4 DEF Remembers, Forgotten
  <2>3. Minds(q)'
    BY <2>1, <1>1, <1>3, <1>4 DEF Minds, Recorded, Slots
  <2> QED BY <2>2, <2>3
<1>10. Held' /\ PagesTyped'
  BY <1>0 DEF Held, PagesTyped, Ask
<1> QED BY <1>3, <1>8, <1>9, <1>10, TypedWillBe

\* acquireSimulationResponderLease.
LEMMA AcquireStep ==
    ASSUME BridgeIInv, NEW s \in Slots, AcquireBridge(s)
    PROVE  BridgeIInv'
<1>0. /\ Held /\ PagesTyped /\ work[s] \in Request /\ work[s].pc = "lease"
      /\ Placed(s) /\ work[s].page \in Responders
  BY AtWork DEF AcquireBridge
<1>1. /\ UNCHANGED <<rpc, telemetry, response, asked>> /\ asked \in Nat
      /\ events \subseteq events'
  BY <1>0 DEF AcquireBridge, Held
<1>2. \A j \in Rpcs : NotedAt(j)
  BY <1>1 DEF NotedAt
<1>3. Held'
  <2>1. lease' \in [owner : Responders \cup {None}, lapsed : BOOLEAN]
    <3>1. CASE lease.owner = work[s].page \/ lease.lapsed
      <4>1. lease' = [owner |-> work[s].page, lapsed |-> FALSE]
        BY <3>1 DEF AcquireBridge
      <4> QED BY <4>1, <1>0
    <3>2. CASE ~(lease.owner = work[s].page \/ lease.lapsed)
      BY <3>2, <1>0 DEF AcquireBridge, Held
    <3> QED BY <3>1, <3>2
  <2>2. UNCHANGED <<received, budget>>
    BY DEF AcquireBridge
  <2> QED BY <1>0, <1>1, <2>1, <2>2 DEF Held
<1>4. work' \in [Slots -> Request] /\ PagesTyped' /\ Dealings' /\ Pages'
  <2>1. CASE lease.owner = work[s].page \/ lease.lapsed
    <3> DEFINE w == [work[s] EXCEPT !.pc = IF work[s].asks THEN "find" ELSE "read"]
    <3>1. work' = [work EXCEPT ![s] = w] /\ UNCHANGED <<responder, applied>>
      BY <2>1 DEF AcquireBridge, To
    <3>2. /\ w \in Request /\ w.pc \in {"find", "read"} /\ (w.pc = "read" <=> ~work[s].asks)
          /\ w.page = work[s].page /\ w.asks = work[s].asks /\ w.again = work[s].again
          /\ w.rpc = work[s].rpc /\ w.answer = work[s].answer
      BY <1>0 DEF Request
    <3> HIDE DEF w
    <3>3. work'[s] = w
      BY <3>1, AtWork
    <3>4. Placed(s)' /\ Completes(s)'
      BY <3>2, <3>3, <1>0, <1>1 DEF Placed, Completes, Recorded
    <3>5. UNCHANGED <<telemetry, response>> /\ asked' \in Nat /\ asked <= asked'
      BY <1>1
    <3>6. work[s].pc # "none" /\ w.pc \notin {"lease", "send", "advance", "unclaim"} /\ w.pc # "record"
      BY <1>0, <3>2
    <3> QED BY <1>1, <1>2, <3>1, <3>2, <3>4, <3>5, <3>6, MovesOn
  <2>2. CASE ~(lease.owner = work[s].page \/ lease.lapsed)
    <3>1. Gets(s, "standby", 0) /\ (work[s].asks \/ <<"forgotten", work[s].rpc>> \in events')
      BY <2>2 DEF AcquireBridge
    <3>2. GetsWell(s, "standby", 0)
      BY <3>1, <1>0 DEF GetsWell
    <3> QED BY <1>0, <1>1, <1>2, <3>1, <3>2, Delivers
  <2> QED BY <2>1, <2>2
<1> QED BY <1>3, <1>4, TypedWillBe

\* findPendingSimulationRpc: of the positions of what is unfinished one is the first.
LEMMA OldestIsUnfinished ==
    ASSUME BridgeIInv, Unfinished # {}
    PROVE  Oldest \in Rpcs /\ rpc[Oldest].status \in {"received", "published"}
<1>1. received \in Seq(Rpcs)
  BY DEF BridgeIInv, BridgeTyped, BridgeTypeOK
<1>2. Unfinished \subseteq DOMAIN received /\ Unfinished \subseteq Nat
  BY <1>1 DEF Unfinished
<1>3. PICK k \in Unfinished : \A n \in Unfinished : ~(<<n, k>> \in OpToRel(<, Nat))
  BY <1>2, NatLessThanWellFounded, WFMin, Zenon
<1>4. \A n \in Unfinished : k <= n
  <2>1. \A n \in Unfinished : ~(n < k)
    BY <1>2, <1>3 DEF OpToRel
  <2> QED BY <1>2, <2>1
<1> DEFINE first == CHOOSE m \in Unfinished : \A n \in Unfinished : m <= n
<1>5. first \in Unfinished
  BY <1>4
<1>6. Oldest = received[first]
  BY DEF Oldest
<1> HIDE DEF first
<1>7. received[first] \in Rpcs
  BY <1>1, <1>2, <1>5
<1>8. rpc[received[first]].status \in {"received", "published"}
  BY <1>5 DEF Unfinished
<1> QED BY <1>6, <1>7, <1>8

LEMMA FoundSteps ==
    ASSUME BridgeIInv, NEW s \in Slots, work[s].pc \in {"find", "adopt"},
           NEW i \in Rpcs, NEW status \in {"received", "published"}, rpc[i].status = status,
           Found(s, i, status),
           \A j \in Rpcs : NotedAt(j), UNCHANGED <<telemetry, response, asked>>
    PROVE  work' \in [Slots -> Request] /\ PagesTyped' /\ Dealings' /\ Pages'
<1>0. /\ work[s] \in Request /\ Placed(s) /\ work[s].page \in Responders /\ asked \in Nat
      /\ Reported(i) /\ NotedAt(i)
  BY AtWork DEF Held, BridgeIInv, Dealings
<1>1. events \subseteq events'
  BY DEF Found
<1>2. CASE work[s].asks /\ status = "received"
  <2>1. Gets(s, "request", i)
    BY <1>2 DEF Found
  <2>2. GetsWell(s, "request", i)
    BY <1>0, <1>2 DEF GetsWell, NotedAt
  <2> QED BY <1>0, <1>1, <2>1, <2>2, Delivers
<1>3. CASE ~(work[s].asks /\ status = "received")
  <2> DEFINE w == [work[s] EXCEPT !.pc = IF work[s].again THEN "poll" ELSE "claim", !.rpc = i, !.status = status]
  <2>1. work' = [work EXCEPT ![s] = w] /\ UNCHANGED <<responder, applied>>
    BY <1>3 DEF Found
  <2>2. ~work[s].asks => <<"fallback", i>> \in events' \/ rpc[i].answer # None
    BY <1>3 DEF Found
  <2>3. /\ w \in Request /\ w.pc \in {"poll", "claim"} /\ (w.pc = "poll" => work[s].again)
        /\ w.page = work[s].page /\ w.asks = work[s].asks /\ w.again = work[s].again
        /\ w.rpc = i /\ w.status = status
    BY <1>0 DEF Request, Statuses
  <2> HIDE DEF w
  <2>4. work'[s] = w
    BY <2>1, AtWork
  <2>5. Placed(s)'
    BY <2>3, <2>4, <1>0 DEF Placed, Recorded, NotedAt
  <2>6. rpc'[i].status = status /\ (<<"fallback", i>> \in events' \/ rpc'[i].answer # None)
    BY <2>2, <1>0, <1>1, <1>3 DEF NotedAt, Reported, Fallback
  <2>7. Completes(s)'
    BY <2>3, <2>4, <2>6 DEF Completes, Fallback
  <2>8. work[s].pc # "none" /\ asked' \in Nat /\ asked <= asked'
    BY <1>0
  <2> QED BY <1>1, <2>1, <2>3, <2>5, <2>7, <2>8, MovesOn
<1> QED BY <1>2, <1>3

LEMMA FoundNoneSteps ==
    ASSUME BridgeIInv, NEW s \in Slots, work[s].pc \in {"find", "adopt"}, FoundNone(s),
           UNCHANGED <<rpc, telemetry, response, asked>>
    PROVE  work' \in [Slots -> Request] /\ PagesTyped' /\ Dealings' /\ Pages'
<1>0. /\ work[s] \in Request /\ Placed(s) /\ work[s].page \in Responders /\ asked \in Nat
      /\ \A j \in Rpcs : NotedAt(j)
  BY AtWork DEF Held, NotedAt
<1>1. events' = events
  BY DEF FoundNone
<1>2. CASE ~work[s].asks
  <2>1. Gets(s, "error", 0)
    BY <1>2 DEF FoundNone
  <2>2. GetsWell(s, "error", 0)
    BY DEF GetsWell
  <2> QED BY <1>0, <1>1, <2>1, <2>2, Delivers
<1>3. CASE work[s].asks
  <2> DEFINE w == [work[s] EXCEPT !.pc = "poll"]
  <2>1. work' = [work EXCEPT ![s] = w] /\ UNCHANGED <<responder, applied>>
    BY <1>3 DEF FoundNone, To
  <2>3. /\ w \in Request /\ w.pc = "poll" /\ w.page = work[s].page /\ w.asks = work[s].asks
        /\ w.again = work[s].again
    BY <1>0 DEF Request
  <2> HIDE DEF w
  <2>4. work'[s] = w
    BY <2>1, AtWork
  <2>5. Placed(s)' /\ Completes(s)'
    BY <2>3, <2>4, <1>0, <1>3 DEF Placed, Completes
  <2>6. work[s].pc # "none" /\ asked' \in Nat /\ asked <= asked' /\ events \subseteq events'
    BY <1>0, <1>1
  <2> QED BY <1>0, <2>1, <2>3, <2>5, <2>6, MovesOn
<1> QED BY <1>2, <1>3

LEMMA FindStep ==
    ASSUME BridgeIInv, NEW s \in Slots, FindPending(s)
    PROVE  BridgeIInv'
<1>0. /\ Held /\ work[s] \in Request /\ Placed(s) /\ work[s].page \in Responders /\ work[s].pc = "find"
  BY AtWork DEF FindPending
<1>1. UNCHANGED <<lease, rpc, received, asked, telemetry, response, budget>> /\ asked \in Nat
  BY <1>0 DEF FindPending, Held
<1>2. Held'
  BY <1>0, <1>1 DEF Held
<1>3. \A j \in Rpcs : NotedAt(j)
  BY <1>1 DEF NotedAt
<1>4. work' \in [Slots -> Request] /\ PagesTyped' /\ Dealings' /\ Pages'
  <2>1. CASE Unfinished = {}
    BY <2>1, <1>0, <1>1, FoundNoneSteps DEF FindPending
  <2>2. CASE Unfinished # {} /\ rpc[Oldest].owner = work[s].page
    BY <2>2, OldestIsUnfinished, <1>0, <1>1, <1>3, FoundSteps DEF FindPending
  <2>3. CASE Unfinished # {} /\ rpc[Oldest].owner # work[s].page
    <3>1. PICK i \in Rpcs : i = Oldest /\ rpc[i].status \in {"received", "published"}
      BY <2>3, OldestIsUnfinished
    <3> DEFINE w == [work[s] EXCEPT !.pc = "adopt", !.found = i, !.status = rpc[i].status]
    <3>2. work' = [work EXCEPT ![s] = w] /\ UNCHANGED <<responder, applied, events>>
      BY <2>3, <3>1 DEF FindPending
    <3>3. /\ w \in Request /\ w.pc = "adopt" /\ w.page = work[s].page /\ w.asks = work[s].asks
          /\ w.again = work[s].again /\ w.rpc = work[s].rpc /\ w.found = i /\ w.status = rpc[i].status
      BY <3>1, <1>0 DEF Request, Statuses
    <3> HIDE DEF w
    <3>4. work'[s] = w
      BY <3>2, AtWork
    <3>5. Placed(s)' /\ Completes(s)'
      BY <3>1, <3>3, <3>4, <1>0, <1>1 DEF Placed, Completes, Recorded
    <3>6. work[s].pc # "none" /\ asked' \in Nat /\ asked <= asked' /\ events \subseteq events'
      BY <1>0, <1>1, <3>2
    <3> QED BY <1>1, <1>3, <3>2, <3>3, <3>5, <3>6, MovesOn
  <2> QED BY <2>1, <2>2, <2>3
<1> QED BY <1>2, <1>4, TypedWillBe

LEMMA AdoptStep ==
    ASSUME BridgeIInv, NEW s \in Slots, AdoptPending(s)
    PROVE  BridgeIInv'
<1>p. PICK i : i = work[s].found
  OBVIOUS
<1>0. /\ Held /\ work[s] \in Request /\ Placed(s) /\ work[s].page \in Responders /\ work[s].pc = "adopt"
      /\ i \in Rpcs /\ work[s].status \in {"received", "published"}
  BY <1>p, AtWork DEF AdoptPending, Placed
<1>1. UNCHANGED <<lease, received, asked, telemetry, response, budget>> /\ asked \in Nat
  BY <1>0 DEF AdoptPending, Held
<1>2. CASE rpc[i].status = work[s].status
  <2>1. rpc' = [rpc EXCEPT ![i] = [@ EXCEPT !.owner = work[s].page]] /\ Found(s, i, rpc[i].status)
    BY <1>p, <1>2 DEF AdoptPending
  <2>2. rpc' \in [Rpcs -> RpcRecord] /\ \A j \in Rpcs : NotedAt(j)
    <3> DEFINE new == [rpc[i] EXCEPT !.owner = work[s].page]
    <3>1. rpc' = [rpc EXCEPT ![i] = new]
      BY <2>1
    <3>2. /\ new \in RpcRecord /\ new.status = rpc[i].status /\ new.stage = rpc[i].stage
          /\ new.by = rpc[i].by /\ new.lapsed = rpc[i].lapsed /\ new.answer = rpc[i].answer
      BY <1>0 DEF Held, RpcRecord
    <3> HIDE DEF new
    <3> QED BY <3>1, <3>2, <1>0 DEF Held, NotedAt
  <2>3. Held'
    BY <1>0, <1>1, <2>2 DEF Held
  <2>4. work' \in [Slots -> Request] /\ PagesTyped' /\ Dealings' /\ Pages'
    BY <1>0, <1>1, <1>2, <2>1, <2>2, FoundSteps
  <2> QED BY <2>3, <2>4, TypedWillBe
<1>3. CASE rpc[i].status # work[s].status
  BY <1>p, <1>3, <1>0, <1>1, FoundNoneSteps, TypedWillBe DEF AdoptPending, Held
<1> QED BY <1>2, <1>3

\* pollDeviceRpc.
LEMMA PollStep ==
    ASSUME BridgeIInv, NEW s \in Slots, PollDevice(s)
    PROVE  BridgeIInv'
<1>0. /\ Held /\ work[s] \in Request /\ Placed(s) /\ work[s].page \in Responders /\ work[s].pc = "poll"
      /\ work[s].asks /\ asked \in Nat
  BY AtWork DEF PollDevice, Placed, Held
<1>1. /\ UNCHANGED <<lease, rpc, received, telemetry, response, events, budget>>
      /\ \A j \in Rpcs : NotedAt(j)
  BY DEF PollDevice, NotedAt
<1>2. CASE Gets(s, "null", 0) /\ asked' = asked
  <2>1. GetsWell(s, "null", 0)
    BY DEF GetsWell
  <2>2. Held'
    BY <1>0, <1>1, <1>2 DEF Held
  <2> QED BY <1>0, <1>1, <1>2, <2>1, <2>2, Delivers, TypedWillBe
<1>3. CASE ~(Gets(s, "null", 0) /\ asked' = asked)
  <2> DEFINE w == [work[s] EXCEPT !.pc = "record", !.rpc = asked + 1]
  <2>1. /\ asked < budget.rpcs /\ asked' = asked + 1
        /\ work' = [work EXCEPT ![s] = w] /\ UNCHANGED <<responder, applied>>
    BY <1>3 DEF PollDevice
  <2>2. budget.rpcs \in Nat /\ 1..budget.rpcs \subseteq Rpcs
    BY <1>0 DEF Held, Bounds
  <2>3. asked + 1 \in Rpcs
    BY <1>0, <2>1, <2>2
  <2>4. rpc[asked + 1].status = "none"
    BY <2>3, <1>0 DEF BridgeIInv, Dealings, Fresh
  <2>5. /\ w \in Request /\ w.pc = "record" /\ w.page = work[s].page /\ w.asks = work[s].asks
        /\ w.again = work[s].again /\ w.rpc = asked + 1
    BY <2>3, <1>0 DEF Request
  <2> HIDE DEF w
  <2>6. work'[s] = w
    BY <2>1, AtWork
  <2>7. Placed(s)'
    <3>1. w.rpc \in 1..asked'
      BY <2>1, <2>5, <1>0
    <3>2. rpc'[w.rpc].status = "none"
      BY <2>4, <2>5, <1>1
    <3> QED BY <3>1, <3>2, <2>5, <2>6, <1>0 DEF Placed
  <2>8. Completes(s)'
    BY <2>5, <2>6 DEF Completes
  <2>9. \A t \in Slots \ {s} : work[t].pc = "record" => work[t].rpc # w.rpc
    BY <2>5, <1>0 DEF BridgeIInv, Dealings, Placed
  <2>10. asked' \in Nat /\ asked <= asked' /\ events \subseteq events' /\ work[s].pc # "none"
    BY <1>0, <1>1, <2>1
  <2>11. Held'
    BY <1>0, <1>1, <2>1, <2>2 DEF Held
  <2>12. work' \in [Slots -> Request] /\ PagesTyped' /\ Dealings' /\ Pages'
    BY <2>5, <1>1, <2>1, <2>7, <2>8, <2>9, <2>10, MovesOn
  <2> QED BY <2>11, <2>12, TypedWillBe
<1> QED BY <1>2, <1>3

\* storeSimulationRpcCompletion: its read, and its conditional update.
LEMMA ReadStep ==
    ASSUME BridgeIInv, NEW s \in Slots, ReadRpc(s)
    PROVE  BridgeIInv'
<1>p. PICK i : i = work[s].rpc
  OBVIOUS
<1>0. /\ Held /\ work[s] \in Request /\ Placed(s) /\ work[s].page \in Responders /\ work[s].pc = "read"
      /\ ~work[s].asks /\ i \in Rpcs /\ Recorded(i) /\ ~work[s].again /\ Reported(i) /\ work[s].answer # None
  BY <1>p, AtWork DEF ReadRpc, Placed, BridgeIInv, Dealings
<1>1. /\ UNCHANGED <<lease, received, responder, applied, asked, telemetry, response, events, budget>>
      /\ asked \in Nat
  BY <1>0 DEF ReadRpc, Held
<1>2. PICK w \in Request :
          /\ work' = [work EXCEPT ![s] = w]
          /\ w.page = work[s].page /\ w.asks = work[s].asks /\ w.again = work[s].again
          /\ w.answer = work[s].answer /\ w.rpc = i
          /\ \/ w.pc = "store" /\ rpc' = rpc
             \/ /\ w.pc = "claim" /\ w.status = rpc[i].status
                /\ rpc[i].status = "responded" \/ rpc[i].answer # None
                /\ rpc' = [rpc EXCEPT ![i] = [@ EXCEPT !.owner = work[s].page]]
  <2>1. CASE rpc[i].status = "responded" \/ rpc[i].answer # None
    <3> DEFINE w == [work[s] EXCEPT !.pc = "claim", !.rpc = i, !.status = rpc[i].status]
    <3>1. /\ work' = [work EXCEPT ![s] = w]
          /\ rpc' = [rpc EXCEPT ![i] = [@ EXCEPT !.owner = work[s].page]]
      BY <1>p, <2>1 DEF ReadRpc, Sees
    <3>2. /\ w \in Request /\ w.page = work[s].page /\ w.asks = work[s].asks /\ w.again = work[s].again
          /\ w.answer = work[s].answer /\ w.rpc = i /\ w.pc = "claim" /\ w.status = rpc[i].status
      BY <1>0 DEF Held, Request, RpcRecord
    <3> QED BY <2>1, <3>1, <3>2
  <2>2. CASE ~(rpc[i].status = "responded" \/ rpc[i].answer # None)
    <3> DEFINE w == [work[s] EXCEPT !.pc = "store"]
    <3>1. work' = [work EXCEPT ![s] = w] /\ rpc' = rpc
      BY <1>p, <2>2 DEF ReadRpc, To
    <3>2. /\ w \in Request /\ w.page = work[s].page /\ w.asks = work[s].asks /\ w.again = work[s].again
          /\ w.answer = work[s].answer /\ w.rpc = i /\ w.pc = "store"
      BY <1>p, <1>0 DEF Request
    <3> QED BY <3>1, <3>2
  <2> QED BY <2>1, <2>2
<1>3. rpc' \in [Rpcs -> RpcRecord] /\ (\A j \in Rpcs : NotedAt(j)) /\ rpc'[i].answer = rpc[i].answer
  <2>1. CASE rpc' = rpc
    BY <2>1, <1>0 DEF Held, NotedAt
  <2>2. CASE rpc' # rpc
    <3> DEFINE new == [rpc[i] EXCEPT !.owner = work[s].page]
    <3>1. rpc' = [rpc EXCEPT ![i] = new]
      BY <1>2, <2>2
    <3>2. /\ new \in RpcRecord /\ new.status = rpc[i].status /\ new.stage = rpc[i].stage
          /\ new.by = rpc[i].by /\ new.lapsed = rpc[i].lapsed /\ new.answer = rpc[i].answer
      BY <1>0 DEF Held, RpcRecord
    <3> HIDE DEF new
    <3> QED BY <3>1, <3>2, <1>0 DEF Held, NotedAt
  <2> QED BY <2>1, <2>2
<1>4. Held'
  BY <1>0, <1>1, <1>3 DEF Held
<1>5. work'[s] = w
  BY <1>2, AtWork
<1>6. rpc'[i].status = rpc[i].status
  BY <1>0, <1>3 DEF NotedAt
<1>7. Placed(s)'
  BY <1>0, <1>2, <1>5, <1>6 DEF Placed, Recorded
<1>8. Completes(s)'
  <2>1. CASE w.pc = "store"
    BY <2>1, <1>5 DEF Completes
  <2>2. CASE w.pc = "claim"
    <3>1. w.status \in {"received", "published", "responded"}
      BY <2>2, <1>0, <1>2 DEF Held, RpcRecord, Statuses, Recorded
    <3>2. Fallback(i)' \/ rpc'[i].answer # None
      BY <2>2, <1>0, <1>1, <1>2, <1>3 DEF Reported, Fallback
    <3> QED BY <2>2, <3>1, <3>2, <1>0, <1>2, <1>5, <1>6 DEF Completes, Fallback
  <2> QED BY <1>2, <2>1, <2>2
<1>9. work' \in [Slots -> Request] /\ PagesTyped' /\ Dealings' /\ Pages'
  <2>1. /\ UNCHANGED <<telemetry, response>> /\ UNCHANGED <<responder, applied>>
        /\ asked' \in Nat /\ asked <= asked' /\ events \subseteq events'
        /\ work[s].pc # "none" /\ w.pc \notin {"lease", "send", "advance", "unclaim"} /\ w.pc # "record"
    BY <1>0, <1>1, <1>2
  <2> QED BY <2>1, <1>2, <1>3, <1>7, <1>8, MovesOn
<1> QED BY <1>4, <1>9, TypedWillBe

LEMMA StoreStep ==
    ASSUME BridgeIInv, NEW s \in Slots, StoreAnswer(s)
    PROVE  BridgeIInv'
<1>p. PICK i : i = work[s].rpc
  OBVIOUS
<1>0. /\ Held /\ work[s] \in Request /\ Placed(s) /\ work[s].page \in Responders /\ work[s].pc = "store"
      /\ ~work[s].asks /\ i \in Rpcs /\ Recorded(i) /\ ~work[s].again /\ work[s].answer # None
  BY <1>p, AtWork DEF StoreAnswer, Placed
<1>1. /\ UNCHANGED <<lease, received, responder, applied, asked, telemetry, response, events, budget>>
      /\ asked \in Nat
  BY <1>0 DEF StoreAnswer, Held
<1>2. CASE rpc[i].status = "received" /\ rpc[i].answer = None
  <2> DEFINE new == [rpc[i] EXCEPT !.owner = work[s].page, !.answer = work[s].answer]
  <2> DEFINE w == [work[s] EXCEPT !.pc = "claim", !.rpc = i, !.status = rpc[i].status]
  <2>1. work' = [work EXCEPT ![s] = w] /\ rpc' = [rpc EXCEPT ![i] = new]
    BY <1>p, <1>2 DEF StoreAnswer, Sees
  <2>2. /\ w \in Request /\ w.page = work[s].page /\ w.asks = work[s].asks /\ w.again = work[s].again
        /\ w.answer = work[s].answer /\ w.rpc = i /\ w.pc = "claim" /\ w.status = "received"
    BY <1>0, <1>2 DEF Request, Statuses
  <2>3. /\ new \in RpcRecord /\ new.status = rpc[i].status /\ new.stage = rpc[i].stage
        /\ new.by = rpc[i].by /\ new.lapsed = rpc[i].lapsed /\ new.answer = work[s].answer
    <3>1. rpc[i] \in RpcRecord /\ work[s].answer \in Answers \cup {None}
      BY <1>0 DEF Held, Request
    <3> QED BY <3>1, <1>0 DEF RpcRecord
  <2> HIDE DEF new, w
  <2>4. /\ rpc' \in [Rpcs -> RpcRecord] /\ (\A j \in Rpcs : NotedAt(j))
        /\ rpc'[i].answer # None /\ rpc'[i].status = "received"
    BY <2>1, <2>3, <1>0, <1>2 DEF Held, NotedAt
  <2>5. work'[s] = w
    BY <2>1, AtWork
  <2>6. Placed(s)' /\ Completes(s)'
    BY <2>2, <2>4, <2>5, <1>0 DEF Placed, Completes, Recorded
  <2>7. /\ UNCHANGED <<telemetry, response>> /\ UNCHANGED <<responder, applied>>
        /\ asked' \in Nat /\ asked <= asked' /\ events \subseteq events'
        /\ work[s].pc # "none" /\ w.pc \notin {"lease", "send", "advance", "unclaim"} /\ w.pc # "record"
    BY <1>0, <1>1, <2>2
  <2>8. work' \in [Slots -> Request] /\ PagesTyped' /\ Dealings' /\ Pages'
    BY <2>1, <2>2, <2>4, <2>6, <2>7, MovesOn
  <2>9. Held'
    BY <1>0, <1>1, <2>4 DEF Held
  <2> QED BY <2>8, <2>9, TypedWillBe
<1>3. CASE ~(rpc[i].status = "received" /\ rpc[i].answer = None)
  <2> DEFINE w == [work[s] EXCEPT !.pc = "find"]
  <2>1. work' = [work EXCEPT ![s] = w] /\ rpc' = rpc
    BY <1>p, <1>3 DEF StoreAnswer, To
  <2>2. /\ w \in Request /\ w.page = work[s].page /\ w.asks = work[s].asks /\ w.again = work[s].again
        /\ w.answer = work[s].answer /\ w.rpc = i /\ w.pc = "find"
    BY <1>p, <1>0 DEF Request
  <2> HIDE DEF w
  <2>5. work'[s] = w
    BY <2>1, AtWork
  <2>6. Placed(s)' /\ Completes(s)'
    BY <2>1, <2>2, <2>5, <1>0 DEF Placed, Completes, Recorded
  <2>7. /\ UNCHANGED <<telemetry, response>> /\ UNCHANGED <<responder, applied>>
        /\ asked' \in Nat /\ asked <= asked' /\ events \subseteq events'
        /\ work[s].pc # "none" /\ w.pc \notin {"lease", "send", "advance", "unclaim"} /\ w.pc # "record"
        /\ \A j \in Rpcs : NotedAt(j)
    BY <1>0, <1>1, <2>1, <2>2 DEF NotedAt
  <2>8. work' \in [Slots -> Request] /\ PagesTyped' /\ Dealings' /\ Pages'
    BY <2>1, <2>2, <2>6, <2>7, MovesOn
  <2>9. Held'
    BY <1>0, <1>1, <2>1 DEF Held
  <2> QED BY <2>8, <2>9, TypedWillBe
<1> QED BY <1>2, <1>3

-----------------------------------------------------------------------------
(* Steps that change the record of an RPC, or tell ThingsBoard of it.      *)

\* What holds of one RPC.
RpcFine(i) ==
    /\ Fresh(i) /\ Reported(i) /\ ClaimFits(i) /\ StageIsPast(i)
    /\ Fallback(i) \/ ToSet(telemetry[i]) \cup ToSet(response[i]) \subseteq {rpc[i].answer} \ {None}
    /\ i \in Quiet \/ Fallback(i) \/ (response[i] # <<>> => telemetry[i] # <<>>)

RequestFine(s) == Placed(s) /\ Completes(s) /\ SendsWithClaim(s)

LEMMA RpcIsFine == ASSUME BridgeIInv, NEW i \in Rpcs PROVE RpcFine(i)
BY DEF BridgeIInv, Dealings, RpcFine, OneAnswer, TelemetryFirst, Fallback

LEMMA AllAreFine ==
    ASSUME \A i \in Rpcs : RpcFine(i)', \A s \in Slots : RequestFine(s)', PolledOnce'
    PROVE  Dealings'
BY DEF RpcFine, OneAnswer, TelemetryFirst, Fallback, Dealings, RequestFine

\* A step that deals with RPC i leaves the others as they are.
LEMMA OtherRpcsStay ==
    ASSUME BridgeIInv, NEW j \in Rpcs, rpc'[j] = rpc[j], telemetry'[j] = telemetry[j],
           response'[j] = response[j], events \subseteq events', asked' \in Nat, asked <= asked',
           About(j, "send")' => About(j, "send")
    PROVE  RpcFine(j)'
<1>0. RpcFine(j) /\ j \in Nat /\ asked \in Nat
  BY RpcIsFine, BridgeAssumption DEF BridgeIInv, BridgeTyped
<1>1. Fresh(j)'
  BY <1>0 DEF RpcFine, Fresh
<1>2. Reported(j)' /\ ClaimFits(j)'
  BY <1>0 DEF RpcFine, Reported, ClaimFits, Fallback, Repeats, StageOf
<1>3. StageIsPast(j)'
  BY <1>0 DEF RpcFine, StageIsPast, Repeats
<1> QED BY <1>0, <1>1, <1>2, <1>3 DEF RpcFine, Fallback

\* So it does with the requests at work, as long as it does not take RPC i
\* from under one of them.
LEMMA OtherRequestsStay ==
    ASSUME BridgeIInv, Onward, NEW i \in Rpcs, \A j \in Rpcs \ {i} : rpc'[j] = rpc[j],
           NEW t \in Slots, work'[t] = work[t],
           work[t].pc = "record" => work[t].rpc # i \/ rpc'[i].status = "none",
           work[t].pc \in {"send", "advance"} /\ work[t].rpc = i =>
               Repeats(i)' \/ (rpc'[i].stage = rpc[i].stage /\ rpc'[i].by = rpc[i].by)
    PROVE  RequestFine(t)'
<1>0. work[t] \in Request /\ Placed(t) /\ SendsWithClaim(t)
  BY AtWork
<1>1. work[t].pc = "record" => work[t].rpc \in Rpcs /\ rpc[work[t].rpc].status = "none"
  BY <1>0, PolledAreRpcs DEF Placed
<1>2. Placed(t)' /\ Completes(t)'
  BY <1>1, OthersGoOn
<1>3. work[t].pc \in {"send", "advance", "unclaim"} => work[t].rpc \in Rpcs
  BY <1>0 DEF Placed
<1>4. ASSUME work[t].pc \in {"send", "advance"} PROVE Repeats(work[t].rpc)' \/ Holds(t)'
  BY <1>0, <1>3, <1>4 DEF SendsWithClaim, Repeats, Onward, Holds
<1>5. work[t].pc = "unclaim" => Repeats(work[t].rpc)'
  BY <1>0 DEF SendsWithClaim, Repeats, Onward
<1>6. SendsWithClaim(t)'
  BY <1>4, <1>5 DEF SendsWithClaim, Repeats
<1> QED BY <1>2, <1>6 DEF RequestFine

\* recordSimulationRpc.
LEMMA RecordStep ==
    ASSUME BridgeIInv, NEW s \in Slots, RecordRpc(s)
    PROVE  BridgeIInv'
<1>p. PICK i : i = work[s].rpc
  OBVIOUS
<1>0. /\ Held /\ work \in [Slots -> Request] /\ Placed(s) /\ work[s].page \in Responders /\ work[s].pc = "record"
      /\ work[s].asks /\ asked \in Nat /\ i \in 1..asked /\ rpc[i].status = "none"
  BY <1>p, AtWork DEF RecordRpc, Placed, Held
<1>1. i \in Rpcs
  BY <1>0, PolledAreRpcs
<1>2. /\ UNCHANGED <<lease, asked, telemetry, response, events, budget>>
      /\ Gets(s, "request", i) /\ received' = Append(received, i)
  BY <1>p DEF RecordRpc
<1> DEFINE new == [NoRpc EXCEPT !.status = "received", !.owner = work[s].page]
<1>3. rpc' = [rpc EXCEPT ![i] = new]
  BY <1>p DEF RecordRpc
<1>4. /\ new \in RpcRecord
      /\ new.status = "received" /\ new.answer = None /\ new.stage = "none" /\ ~new.lapsed
  BY <1>0 DEF RpcRecord, Statuses, NoRpc
<1> HIDE DEF new
<1>5. /\ rpc' \in [Rpcs -> RpcRecord] /\ \A j \in Rpcs \ {i} : rpc'[j] = rpc[j]
      /\ rpc'[i].status = "received" /\ rpc'[i].answer = None /\ rpc'[i].stage = "none" /\ ~rpc'[i].lapsed
  BY <1>0, <1>1, <1>3, <1>4 DEF Held
<1>6. RpcFine(i)
  BY <1>1, RpcIsFine
<1>7. Onward
  BY <1>0, <1>2, <1>5, <1>6 DEF Onward, RpcFine, Fresh
<1>8. GetsWell(s, "request", i)
  BY <1>0, <1>1, <1>5 DEF GetsWell
<1>9. work' = [work EXCEPT ![s] = NoWork] /\ PagesTyped' /\ Pages'
  BY <1>0, <1>2, <1>7, <1>8, PagesGet
<1>10. work' \in [Slots -> Request] /\ work'[s] = NoWork /\ \A t \in Slots \ {s} : work'[t] = work[t]
  BY <1>0, <1>9 DEF NoWork, Request, Statuses
<1>11. \A j \in Rpcs : About(j, "send")' => About(j, "send")
  BY <1>10 DEF About, NoWork
<1>12. RpcFine(i)'
  <2>1. telemetry'[i] = <<>> /\ response'[i] = <<>>
    BY <1>0, <1>2, <1>6 DEF RpcFine, Fresh
  <2>2. Fresh(i)' /\ Reported(i)' /\ ClaimFits(i)'
    BY <1>0, <1>1, <1>2, <1>5, BridgeAssumption DEF Fresh, Reported, ClaimFits
  <2>3. StageIsPast(i)'
    BY <2>1 DEF StageIsPast
  <2>4. ToSet(telemetry[i])' = {} /\ ToSet(response[i])' = {}
    BY <2>1 DEF ToSet
  <2> QED BY <2>1, <2>2, <2>3, <2>4 DEF RpcFine
<1>13. \A j \in Rpcs : RpcFine(j)'
  BY <1>0, <1>2, <1>5, <1>11, OtherRpcsStay, <1>12
<1>14. ASSUME NEW t \in Slots PROVE RequestFine(t)'
  <2>1. CASE t = s
    BY <2>1, <1>10 DEF RequestFine, Placed, Completes, SendsWithClaim, NoWork
  <2>2. CASE t # s
    <3>1. work[t].pc = "record" => work[t].rpc # i
      BY <2>2, <1>p, <1>0 DEF BridgeIInv, Dealings, PolledOnce
    <3>2. work[t].pc \in {"send", "advance"} => work[t].rpc # i
      BY <1>0, AtWork DEF Placed, Recorded
    <3> QED BY <2>2, <3>1, <3>2, <1>1, <1>5, <1>7, <1>10, OtherRequestsStay
  <2> QED BY <2>1, <2>2
<1>15. PolledOnce'
  BY <1>10 DEF PolledOnce, BridgeIInv, Dealings, NoWork
<1>16. Dealings'
  BY <1>13, <1>14, <1>15, AllAreFine
<1>17. Held'
  BY <1>0, <1>1, <1>2, <1>5 DEF Held
<1> QED BY <1>9, <1>10, <1>16, <1>17, TypedWillBe

\* A request goes on, whatever it does next.
LEMMA Proceeds ==
    ASSUME BridgeIInv, Onward, NEW s \in Slots, NEW w \in Request, work[s].pc # "none",
           work' = [work EXCEPT ![s] = w], UNCHANGED <<responder, applied>>,
           w.asks = work[s].asks, w.pc # "lease"
    PROVE  /\ work' \in [Slots -> Request] /\ work'[s] = w
           /\ \A t \in Slots \ {s} : work'[t] = work[t]
           /\ PagesTyped' /\ Pages'
BY AtWork, PagesWait DEF PagesTyped, Slots

\* A request ends, whatever its result.
LEMMA Ends ==
    ASSUME BridgeIInv, Onward, NEW s \in Slots, NEW result, NEW i, work[s].pc # "none",
           Gets(s, result, i), GetsWell(s, result, i)
    PROVE  /\ work' \in [Slots -> Request] /\ work'[s] = NoWork
           /\ \A t \in Slots \ {s} : work'[t] = work[t]
           /\ PagesTyped' /\ Pages'
<1>1. work' = [work EXCEPT ![s] = NoWork] /\ PagesTyped' /\ Pages'
  BY PagesGet
<1>2. NoWork \in Request
  BY DEF NoWork, Request, Statuses
<1> QED BY <1>1, <1>2, AtWork

\* A request that is no request any more has nothing to be fine about.
LEMMA OverIsFine == ASSUME NEW s \in Slots, work'[s] = NoWork PROVE RequestFine(s)'
BY DEF RequestFine, Placed, Completes, SendsWithClaim, NoWork

\* A request deals with one RPC.
LEMMA DealsWithOne ==
    ASSUME BridgeIInv, Onward, NEW s \in Slots, NEW i \in Rpcs, Recorded(i),
           \A j \in Rpcs \ {i} : UNCHANGED <<rpc[j], telemetry[j], response[j]>>,
           \A t \in Slots \ {s} : work'[t] = work[t],
           work'[s].pc # "record", work'[s].pc = "send" => work'[s].rpc = i,
           \A t \in Slots \ {s} : work[t].pc \in {"send", "advance"} /\ work[t].rpc = i =>
               Repeats(i)' \/ (rpc'[i].stage = rpc[i].stage /\ rpc'[i].by = rpc[i].by),
           RpcFine(i)', RequestFine(s)'
    PROVE  Dealings'
<1>1. \A j \in Rpcs : RpcFine(j)'
  BY OtherRpcsStay DEF About, Onward
<1>2. \A t \in Slots : RequestFine(t)'
  BY AtWork, OtherRequestsStay DEF Placed, Recorded
<1>3. PolledOnce'
  BY DEF PolledOnce, BridgeIInv, Dealings
<1> QED BY <1>1, <1>2, <1>3, AllAreFine

\* A claim is free, or a repetition is possible.
LEMMA ClaimsMeet ==
    ASSUME BridgeIInv, NEW s \in Slots, NEW t \in Slots, s # t, Holds(s) \/ rpc[work[s].rpc].stage = "none",
           work[t].pc \in {"send", "advance"}, work[t].rpc = work[s].rpc
    PROVE  Repeats(work[s].rpc)
BY AtWork DEF SendsWithClaim, Holds, StageOf

\* claimSimulationRpcStage.
LEMMA ClaimStep ==
    ASSUME BridgeIInv, NEW s \in Slots, ClaimStage(s)
    PROVE  BridgeIInv'
<1>p. PICK i : i = work[s].rpc
  OBVIOUS
<1>0. /\ Held /\ work[s] \in Request /\ Placed(s) /\ Completes(s) /\ work[s].page \in Responders
      /\ work[s].pc = "claim" /\ i \in Rpcs /\ Recorded(i) /\ asked \in Nat
      /\ work[s].status \in {"received", "published", "responded"}
  BY <1>p, AtWork DEF ClaimStage, Placed, Completes, Held
<1>1. UNCHANGED <<lease, received, asked, telemetry, response, events, budget>>
  BY DEF ClaimStage
<1>2. CASE work[s].status = "responded" \/ ~Claimable(i, work[s].status, work[s].page)
  <2>1. PICK result \in {"ok", "error"} : Gets(s, result, 0) /\ rpc' = rpc /\ (result = "ok" => ~work[s].asks)
    BY <1>p, <1>0, <1>2 DEF ClaimStage, Completes
  <2>2. GetsWell(s, result, 0)
    BY <2>1 DEF GetsWell
  <2>3. \A j \in Rpcs : NotedAt(j)
    BY <2>1 DEF NotedAt
  <2>4. Held'
    BY <1>0, <1>1, <2>1 DEF Held
  <2>5. work' \in [Slots -> Request] /\ PagesTyped' /\ Dealings' /\ Pages'
    BY <1>0, <1>1, <2>1, <2>2, <2>3, Delivers
  <2> QED BY <2>4, <2>5, TypedWillBe
<1>3. CASE work[s].status # "responded" /\ Claimable(i, work[s].status, work[s].page)
  <2> DEFINE new == [rpc[i] EXCEPT !.stage = StageOf(work[s].status), !.by = s, !.lapsed = FALSE]
  <2> DEFINE w == [work[s] EXCEPT !.pc = "send", !.answer = rpc[i].answer]
  <2>1. rpc' = [rpc EXCEPT ![i] = new] /\ work' = [work EXCEPT ![s] = w] /\ UNCHANGED <<responder, applied>>
    BY <1>p, <1>3 DEF ClaimStage
  <2>2. /\ rpc[i].status = work[s].status /\ work[s].status \in {"received", "published"}
        /\ rpc[i].stage = "none" \/ rpc[i].lapsed
    BY <1>0, <1>3 DEF Claimable
  <2>3. /\ new \in RpcRecord /\ new.status = rpc[i].status /\ new.stage = StageOf(work[s].status)
        /\ new.by = s /\ ~new.lapsed /\ new.answer = rpc[i].answer
    BY <1>0, <2>2 DEF Held, RpcRecord, StageOf
  <2>4. /\ w \in Request /\ w.page = work[s].page /\ w.asks = work[s].asks /\ w.again = work[s].again
        /\ w.answer = rpc[i].answer /\ w.rpc = i /\ w.pc = "send" /\ w.status = work[s].status
    BY <1>p, <1>0 DEF Request, Held, RpcRecord
  <2> HIDE DEF new, w
  <2>5. rpc' \in [Rpcs -> RpcRecord] /\ rpc'[i] = new /\ \A j \in Rpcs \ {i} : rpc'[j] = rpc[j]
    BY <2>1, <2>3, <1>0 DEF Held
  <2>6. Onward
    BY <1>0, <1>1, <2>3, <2>5 DEF Onward
  <2>7. /\ work' \in [Slots -> Request] /\ work'[s] = w /\ \A t \in Slots \ {s} : work'[t] = work[t]
        /\ PagesTyped' /\ Pages'
    BY <1>0, <2>1, <2>4, <2>6, Proceeds
  <2>8. RpcFine(i) /\ (~Repeats(i) => rpc[i].stage = "none")
    BY <1>0, <2>2, RpcIsFine DEF RpcFine, ClaimFits
  <2>9. RpcFine(i)'
    <3>1. Fresh(i)' /\ Reported(i)' /\ ClaimFits(i)'
      BY <1>0, <1>1, <2>2, <2>3, <2>5, <2>8 DEF RpcFine, Fresh, Reported, ClaimFits, Fallback, Recorded
    <3>2. StageIsPast(i)'
      BY <1>1, <2>2, <2>3, <2>5, <2>8 DEF StageIsPast, Repeats, RpcFine
    <3> QED BY <1>1, <2>3, <2>5, <2>8, <3>1, <3>2 DEF RpcFine, Fallback
  <2>10. RequestFine(s)'
    <3>1. Placed(s)'
      BY <1>0, <2>3, <2>4, <2>5, <2>7 DEF Placed, Recorded
    <3>2. Completes(s)'
      BY <1>p, <1>0, <1>1, <2>2, <2>3, <2>4, <2>5, <2>7 DEF Completes, Fallback
    <3>3. Holds(s)'
      BY <2>3, <2>4, <2>5, <2>7 DEF Holds
    <3> QED BY <2>4, <2>7, <3>1, <3>2, <3>3 DEF RequestFine, SendsWithClaim
  <2>11. ASSUME NEW t \in Slots \ {s}, work[t].pc \in {"send", "advance"}, work[t].rpc = i PROVE Repeats(i)'
    BY <1>p, <2>8, <2>11, ClaimsMeet, <1>1 DEF Repeats
  <2>12. Dealings'
    <3>1. \A j \in Rpcs \ {i} : UNCHANGED <<rpc[j], telemetry[j], response[j]>>
      BY <1>1, <2>5
    <3>2. work'[s].pc # "record" /\ work'[s].rpc = i
      BY <2>4, <2>7
    <3> QED BY <1>0, <2>6, <2>7, <2>9, <2>10, <2>11, <3>1, <3>2, DealsWithOne
  <2>13. Held'
    BY <1>0, <1>1, <2>5 DEF Held
  <2> QED BY <2>7, <2>12, <2>13, TypedWillBe
<1> QED BY <1>2, <1>3

\* A lane that grows by one has one more, and the same others.
LEMMA Appended ==
    ASSUME NEW S, NEW q \in Seq(S), NEW a \in S
    PROVE  /\ Append(q, a) \in Seq(S) /\ Append(q, a) # <<>> /\ Len(Append(q, a)) = Len(q) + 1
           /\ ToSet(Append(q, a)) = ToSet(q) \cup {a}
<1>1. /\ Append(q, a) \in Seq(S) /\ Append(q, a) # <<>> /\ Len(Append(q, a)) = Len(q) + 1
      /\ Len(q) \in Nat
  OBVIOUS
<1>2. \A k \in 1..Len(q) + 1 : Append(q, a)[k] = IF k = Len(q) + 1 THEN a ELSE q[k]
  OBVIOUS
<1>3. ToSet(Append(q, a)) = ToSet(q) \cup {a}
  BY <1>1, <1>2 DEF ToSet
<1> QED BY <1>1, <1>3

\* What a request that is not suspected of a repetition sends is the first
\* message of its stage.
LEMMA SendsFirst ==
    ASSUME BridgeIInv, NEW s \in Slots, work[s].pc = "send", ~Repeats(work[s].rpc)
    PROVE  /\ Holds(s) /\ response[work[s].rpc] = <<>>
           /\ work[s].status = "received" => telemetry[work[s].rpc] = <<>> /\ rpc[work[s].rpc].stage = "telemetry"
           /\ work[s].status = "published" =>
                  rpc[work[s].rpc].status = "published" /\ rpc[work[s].rpc].stage = "response"
           /\ \A t \in Slots \ {s} : ~(work[t].pc = "send" /\ work[t].rpc = work[s].rpc)
<1>p. PICK i : i = work[s].rpc
  OBVIOUS
<1>0. /\ Completes(s) /\ SendsWithClaim(s) /\ i \in Rpcs
  BY <1>p, AtWork DEF Placed
<1>1. Holds(s) /\ work[s].status \in {"received", "published"}
  BY <1>0 DEF SendsWithClaim, Completes
<1>2. ClaimFits(i) /\ StageIsPast(i)
  BY <1>0, RpcIsFine DEF RpcFine
<1>3. About(i, "send")
  BY <1>p DEF About
<1>4. /\ rpc[i].status \in {"received", "published"} /\ rpc[i].stage = StageOf(rpc[i].status)
      /\ rpc[i].stage = StageOf(work[s].status)
  BY <1>p, <1>1, <1>2 DEF ClaimFits, Holds, StageOf
<1>5. rpc[i].status = work[s].status
  BY <1>1, <1>4 DEF StageOf
<1>6. response[i] = <<>> /\ (rpc[i].status = "received" => telemetry[i] = <<>>)
  BY <1>p, <1>2, <1>3, <1>4 DEF StageIsPast
<1>7. \A t \in Slots \ {s} : ~(work[t].pc = "send" /\ work[t].rpc = work[s].rpc)
  BY <1>1, ClaimsMeet
<1> QED BY <1>p, <1>1, <1>4, <1>5, <1>6, <1>7 DEF StageOf

LEMMA CostsKeep ==
    ASSUME Held, NEW what \in {"takeovers", "lapses", "claims", "failures", "breaks", "deaths", "closes"}, Costs(what)
    PROVE  budget' \in Bounds /\ budget'.rpcs = budget.rpcs
<1>1. budget \in Bounds /\ budget[what] \in Nat /\ budget[what] > 0
  BY DEF Held, Costs, Bounds
<1> DEFINE less == budget[what] - 1
<1>2. less \in Nat
  BY <1>1
<1>3. budget' = [budget EXCEPT ![what] = less]
  BY DEF Costs
<1> HIDE DEF less
<1> QED BY <1>1, <1>2, <1>3 DEF Bounds

\* publishDeviceTelemetry and respondDeviceRpc.
LEMMA SendStep ==
    ASSUME BridgeIInv, NEW s \in Slots, Send(s)
    PROVE  BridgeIInv'
<1>p. PICK i : i = work[s].rpc
  OBVIOUS
<1>0. /\ Held /\ work[s] \in Request /\ Placed(s) /\ Completes(s) /\ SendsWithClaim(s)
      /\ work[s].page \in Responders /\ work[s].pc = "send" /\ i \in Rpcs /\ Recorded(i) /\ asked \in Nat
      /\ work[s].status \in {"received", "published"} /\ work[s].answer \in Answers \cup {None}
  BY <1>p, AtWork DEF Send, Placed, Completes, Held, Request
<1>1. UNCHANGED <<lease, rpc, received, responder, applied, asked>>
  BY DEF Send
<1>2. RpcFine(i)
  BY <1>0, RpcIsFine
<1>3. PICK tele \in Seq(Answers \cup {None}), resp \in Seq(Answers \cup {None}) :
          /\ telemetry' = [telemetry EXCEPT ![i] = tele] /\ response' = [response EXCEPT ![i] = resp]
          /\ \/ tele = telemetry[i] /\ resp = response[i] /\ ~Sent(s)
             \/ tele = telemetry[i] /\ resp = response[i] /\ Sent(s)
                /\ work[s].status = "received" /\ (work[s].answer = None \/ i \in Quiet)
             \/ tele = Append(telemetry[i], work[s].answer) /\ resp = response[i]
                /\ work[s].status = "received" /\ work[s].answer # None
             \/ tele = telemetry[i] /\ resp = Append(response[i], work[s].answer)
                /\ work[s].status = "published"
  BY <1>0, <1>p, Appended DEF Held, Send, Sent
<1>4. PICK w \in Request :
          /\ work' = [work EXCEPT ![s] = w]
          /\ w.page = work[s].page /\ w.asks = work[s].asks /\ w.again = work[s].again /\ w.rpc = i
          /\ w.answer = work[s].answer /\ w.status = work[s].status
          /\ \/ w.pc = "advance" /\ Sent(s) /\ events' = events /\ budget' = budget
             \/ w.pc = "unclaim" /\ Costs("failures") /\ events' = events \cup {<<"repeat", i>>}
  <2>1. CASE To(s, "advance") /\ Sent(s) /\ events' = events /\ budget' = budget
    <3> DEFINE w == [work[s] EXCEPT !.pc = "advance"]
    <3>1. work' = [work EXCEPT ![s] = w]
      BY <2>1 DEF To
    <3>2. /\ w \in Request /\ w.page = work[s].page /\ w.asks = work[s].asks /\ w.again = work[s].again
          /\ w.rpc = i /\ w.answer = work[s].answer /\ w.status = work[s].status /\ w.pc = "advance"
      BY <1>p, <1>0 DEF Request
    <3> QED BY <2>1, <3>1, <3>2
  <2>2. CASE To(s, "unclaim") /\ Costs("failures") /\ events' = events \cup {<<"repeat", i>>}
    <3> DEFINE w == [work[s] EXCEPT !.pc = "unclaim"]
    <3>1. work' = [work EXCEPT ![s] = w]
      BY <2>2 DEF To
    <3>2. /\ w \in Request /\ w.page = work[s].page /\ w.asks = work[s].asks /\ w.again = work[s].again
          /\ w.rpc = i /\ w.answer = work[s].answer /\ w.status = work[s].status /\ w.pc = "unclaim"
      BY <1>p, <1>0 DEF Request
    <3> QED BY <2>2, <3>1, <3>2
  <2> QED BY <1>p, <2>1, <2>2 DEF Send
<1>5. events \subseteq events' /\ (w.pc = "unclaim" => Repeats(i)')
  BY <1>4 DEF Repeats
<1>6. /\ telemetry[i] \in Seq(Answers \cup {None}) /\ response[i] \in Seq(Answers \cup {None})
      /\ telemetry'[i] = tele /\ response'[i] = resp
      /\ \A j \in Rpcs \ {i} : UNCHANGED <<rpc[j], telemetry[j], response[j]>>
  BY <1>0, <1>1, <1>3 DEF Held
<1>7. /\ tele = Append(telemetry[i], work[s].answer) =>
             tele # <<>> /\ Len(tele) = Len(telemetry[i]) + 1 /\ ToSet(tele) = ToSet(telemetry[i]) \cup {work[s].answer}
      /\ resp = Append(response[i], work[s].answer) =>
             resp # <<>> /\ Len(resp) = Len(response[i]) + 1 /\ ToSet(resp) = ToSet(response[i]) \cup {work[s].answer}
  <2> DEFINE S == Answers \cup {None}
  <2>1. telemetry[i] \in Seq(S) /\ response[i] \in Seq(S) /\ work[s].answer \in S
    BY <1>0, <1>6
  <2> HIDE DEF S
  <2>2. /\ Append(telemetry[i], work[s].answer) # <<>>
        /\ Len(Append(telemetry[i], work[s].answer)) = Len(telemetry[i]) + 1
        /\ ToSet(Append(telemetry[i], work[s].answer)) = ToSet(telemetry[i]) \cup {work[s].answer}
    BY <2>1, Appended
  <2>3. /\ Append(response[i], work[s].answer) # <<>>
        /\ Len(Append(response[i], work[s].answer)) = Len(response[i]) + 1
        /\ ToSet(Append(response[i], work[s].answer)) = ToSet(response[i]) \cup {work[s].answer}
    BY <2>1, Appended
  <2> QED BY <2>2, <2>3, Zenon
<1>8. telemetry[i] # <<>> => tele # <<>>
  BY <1>3, <1>7
<1>9. Onward
  BY <1>0, <1>1, <1>5, <1>6, <1>8 DEF Onward
<1>10. /\ work' \in [Slots -> Request] /\ work'[s] = w /\ \A t \in Slots \ {s} : work'[t] = work[t]
       /\ PagesTyped' /\ Pages'
  BY <1>0, <1>1, <1>4, <1>9, Proceeds
<1>11. Fallback(i)' \/ (rpc[i].answer # None /\ work[s].answer = rpc[i].answer)
  BY <1>p, <1>0, <1>5 DEF Completes, Fallback
<1>12. RpcFine(i)'
  <2>1. Fresh(i)' /\ Reported(i)' /\ ClaimFits(i)'
    BY <1>0, <1>1, <1>2, <1>5, <1>6, <1>8 DEF RpcFine, Fresh, Reported, ClaimFits, Fallback, Recorded, Repeats
  <2>2. StageIsPast(i)'
    <3>1. CASE ~Repeats(i)'
      <4>1. ~Repeats(i) /\ w.pc = "advance" /\ Sent(s)
        BY <3>1, <1>4, <1>5 DEF Repeats
      <4>2. /\ response[i] = <<>>
            /\ work[s].status = "received" => telemetry[i] = <<>> /\ rpc[i].stage = "telemetry"
            /\ work[s].status = "published" => rpc[i].status = "published" /\ rpc[i].stage = "response"
            /\ \A t \in Slots \ {s} : ~(work[t].pc = "send" /\ work[t].rpc = i)
        BY <4>1, <1>p, <1>0, SendsFirst
      <4>3. ~About(i, "send")'
        BY <4>1, <4>2, <1>10 DEF About
      <4>4. Len(<<>>) = 0 /\ Len(telemetry[i]) \in Nat
        BY <1>6
      <4>5. StageIsPast(i)
        BY <1>2 DEF RpcFine
      <4>6. CASE work[s].status = "received"
        <5>1. Len(tele) <= 1 /\ resp = <<>>
          BY <4>1, <4>2, <4>4, <4>6, <1>3, <1>7
        <5> QED BY <5>1, <4>2, <4>3, <4>4, <4>6, <1>1, <1>6 DEF StageIsPast
      <4>7. CASE work[s].status = "published"
        <5>1. Len(resp) <= 1 /\ tele = telemetry[i]
          <6>1. resp = Append(response[i], work[s].answer) /\ tele = telemetry[i]
            BY <4>1, <4>7, <1>3
          <6>2. Len(response[i]) = 0
            BY <4>2, <4>4
          <6> QED BY <6>1, <6>2, <1>7
        <5>2. Len(telemetry[i]) <= 1
          BY <4>1, <4>5 DEF StageIsPast
        <5> QED BY <5>1, <5>2, <4>2, <4>3, <4>7, <1>1, <1>6 DEF StageIsPast
      <4> QED BY <4>6, <4>7, <1>0
    <3>2. CASE Repeats(i)'
      BY <3>2 DEF StageIsPast
    <3> QED BY <3>1, <3>2
  <2>3. Fallback(i)' \/ ToSet(telemetry[i])' \cup ToSet(response[i])' \subseteq {rpc'[i].answer} \ {None}
    BY <1>2, <1>5, <1>3, <1>7, <1>1, <1>6, <1>11 DEF RpcFine, Fallback
  <2>4. i \in Quiet \/ Fallback(i)' \/ (response'[i] # <<>> => telemetry'[i] # <<>>)
    <3>1. CASE resp = response[i]
      BY <3>1, <1>2, <1>5, <1>6, <1>8 DEF RpcFine, Fallback
    <3>2. CASE work[s].status = "published"
      <4>1. rpc[i].status \in {"published", "responded"}
        BY <3>2, <1>p, <1>0 DEF Completes
      <4> QED BY <4>1, <1>2, <1>5, <1>6, <1>8 DEF RpcFine, Reported, Fallback
    <3> QED BY <1>3, <3>1, <3>2
  <2> QED BY <2>1, <2>2, <2>3, <2>4 DEF RpcFine, Fallback
<1>13. RequestFine(s)'
  <2>1. Placed(s)'
    BY <1>0, <1>1, <1>4, <1>10 DEF Placed, Recorded
  <2>2. Completes(s)'
    <3>1. Completes(s)
      BY <1>0
    <3>2. w.pc = "advance" /\ w.status = "received" => Fallback(i)' \/ i \in Quiet \/ tele # <<>>
      BY <1>3, <1>4, <1>7, <1>11
    <3>3. w.status # "received" => rpc[i].status \in {"published", "responded"}
      BY <1>p, <1>0, <1>4 DEF Completes
    <3> QED BY <3>2, <3>3, <1>0, <1>1, <1>4, <1>6, <1>10, <1>11 DEF Completes, Fallback
  <2>3. SendsWithClaim(s)'
    BY <1>p, <1>0, <1>1, <1>4, <1>5, <1>10 DEF SendsWithClaim, Repeats, Holds
  <2> QED BY <2>1, <2>2, <2>3 DEF RequestFine
<1>14. Dealings'
  BY <1>4, <1>10, <1>1, <1>0, <1>6, <1>9, <1>12, <1>13, DealsWithOne
<1>15. Held'
  BY <1>0, <1>4, CostsKeep, <1>3, <1>1 DEF Held
<1> QED BY <1>10, <1>14, <1>15, TypedWillBe

\* What the record of an RPC is that a holder has let go of.
LEMMA LetGo ==
    ASSUME NEW x \in RpcRecord
    PROVE  /\ Unclaimed(x) \in RpcRecord /\ Unclaimed(x).status = x.status /\ Unclaimed(x).answer = x.answer
           /\ Unclaimed(x).stage = "none" /\ ~Unclaimed(x).lapsed
BY DEF Unclaimed, RpcRecord

\* advanceSimulationRpcStage.
LEMMA AdvanceStep ==
    ASSUME BridgeIInv, NEW s \in Slots, Advance(s)
    PROVE  BridgeIInv'
<1>p. PICK i : i = work[s].rpc
  OBVIOUS
<1>d. PICK done : done = After(StageOf(work[s].status))
  OBVIOUS
<1>0. /\ Held /\ work[s] \in Request /\ Placed(s) /\ Completes(s) /\ SendsWithClaim(s)
      /\ work[s].page \in Responders /\ work[s].pc = "advance" /\ i \in Rpcs /\ Recorded(i) /\ asked \in Nat
      /\ work[s].status \in {"received", "published"}
  BY <1>p, AtWork DEF Advance, Placed, Completes, Held
<1>1. /\ UNCHANGED <<lease, received, asked, telemetry, response, events, budget>>
      /\ rpc[i] \in RpcRecord /\ RpcFine(i)
  BY <1>0, RpcIsFine DEF Advance, Held
<1>2. \/ /\ done = "published" /\ work[s].status = "received"
      \/ /\ done = "responded" /\ work[s].status = "published"
  BY <1>d, <1>0 DEF After, StageOf
\* Its stage is over.
<1>3. CASE Holds(s)
  <2> DEFINE open == Unclaimed(rpc[i])
  <2> DEFINE new == [open EXCEPT !.status = done]
  <2>1. rpc' = [rpc EXCEPT ![i] = new]
    BY <1>p, <1>d, <1>3 DEF Advance
  <2>2. /\ open \in RpcRecord /\ open.answer = rpc[i].answer /\ open.stage = "none" /\ ~open.lapsed
    BY <1>1, LetGo
  <2> HIDE DEF open
  <2>3. /\ new \in RpcRecord /\ new.status = done /\ new.answer = rpc[i].answer
        /\ new.stage = "none" /\ ~new.lapsed
    BY <1>2, <2>2 DEF RpcRecord, Statuses
  <2> HIDE DEF new
  <2>4. /\ rpc' \in [Rpcs -> RpcRecord] /\ rpc'[i] = new
        /\ \A j \in Rpcs \ {i} : UNCHANGED <<rpc[j], telemetry[j], response[j]>>
    BY <2>1, <2>3, <1>0, <1>1 DEF Held
  <2>5. Onward
    BY <2>3, <2>4, <1>0, <1>1, <1>2 DEF Onward
  <2>6. rpc[i].status = work[s].status /\ rpc[i].stage = StageOf(rpc[i].status)
    BY <1>p, <1>0, <1>1, <1>3 DEF RpcFine, ClaimFits, Holds, StageOf
  <2>7. RpcFine(i)'
    <3>1. Fresh(i)' /\ ClaimFits(i)'
      BY <2>3, <2>4, <1>0, <1>1, <1>2 DEF RpcFine, Fresh, ClaimFits, Recorded
    <3>2. Reported(i)'
      <4>1. Fallback(i) \/ (rpc[i].answer # None /\ (i \in Quiet \/ telemetry[i] # <<>>))
        BY <1>p, <1>0, <1>1, <1>2, <2>6 DEF RpcFine, Reported, Completes
      <4> QED BY <4>1, <2>3, <2>4, <1>1 DEF Reported, Fallback
    <3>3. StageIsPast(i)'
      BY <1>1, <2>6, <1>2, <2>3, <2>4 DEF RpcFine, StageIsPast, StageOf, Repeats
    <3> QED BY <3>1, <3>2, <3>3, <2>3, <2>4, <1>1 DEF RpcFine, Fallback
  <2>8. ASSUME NEW t \in Slots \ {s}, work[t].pc \in {"send", "advance"}, work[t].rpc = i PROVE Repeats(i)'
    BY <1>p, <1>3, <2>8, ClaimsMeet, <1>1 DEF Repeats
  <2>9. Held'
    BY <1>0, <1>1, <2>4 DEF Held
  <2>10. CASE done = "responded" /\ ~work[s].asks
    <3>1. Gets(s, "ok", 0)
      BY <1>d, <1>3, <2>10 DEF Advance
    <3>2. GetsWell(s, "ok", 0)
      BY <2>10 DEF GetsWell
    <3>3. /\ work' \in [Slots -> Request] /\ work'[s] = NoWork /\ \A t \in Slots \ {s} : work'[t] = work[t]
          /\ PagesTyped' /\ Pages'
      BY <1>0, <2>5, <3>1, <3>2, Ends
    <3>4. RequestFine(s)' /\ work'[s].pc = "none"
      BY <3>3, OverIsFine DEF NoWork
    <3>5. Dealings'
      BY <1>0, <2>4, <2>5, <2>7, <2>8, <3>3, <3>4, DealsWithOne
    <3> QED BY <2>9, <3>3, <3>5, TypedWillBe
  <2>11. CASE done = "published" \/ work[s].asks
    <3>1. PICK w \in Request :
              /\ work' = [work EXCEPT ![s] = w] /\ UNCHANGED <<responder, applied>>
              /\ w.page = work[s].page /\ w.asks = work[s].asks /\ w.rpc = i
              /\ w.again => w.asks
              /\ \/ w.pc = "claim" /\ done = "published" /\ w.status = "published"
                 \/ w.pc = "find" /\ w.asks
      <4>1. CASE done = "published"
        <5> DEFINE w == [work[s] EXCEPT !.pc = "claim", !.status = done]
        <5>1. work' = [work EXCEPT ![s] = w] /\ UNCHANGED <<responder, applied>>
          BY <1>d, <1>3, <4>1 DEF Advance
        <5>2. /\ w \in Request /\ w.page = work[s].page /\ w.asks = work[s].asks /\ w.rpc = i
              /\ w.pc = "claim" /\ w.status = "published" /\ (w.again => w.asks)
          BY <1>p, <1>0, <4>1 DEF Request, Statuses, Placed
        <5> QED BY <4>1, <5>1, <5>2
      <4>2. CASE done = "responded"
        <5> DEFINE w == [work[s] EXCEPT !.pc = "find", !.again = TRUE]
        <5>1. work' = [work EXCEPT ![s] = w] /\ UNCHANGED <<responder, applied>>
          BY <1>d, <1>3, <2>11, <4>2 DEF Advance
        <5>2. /\ w \in Request /\ w.page = work[s].page /\ w.asks = work[s].asks /\ w.rpc = i
              /\ w.pc = "find" /\ w.asks
          BY <1>p, <1>0, <2>11, <4>2 DEF Request
        <5> QED BY <5>1, <5>2
      <4> QED BY <1>2, <4>1, <4>2
    <3>2. /\ work' \in [Slots -> Request] /\ work'[s] = w /\ \A t \in Slots \ {s} : work'[t] = work[t]
          /\ PagesTyped' /\ Pages'
      BY <1>0, <2>5, <3>1, Proceeds
    <3>3. Placed(s)'
      BY <1>0, <1>2, <2>3, <2>4, <3>1, <3>2 DEF Placed, Recorded
    <3>4. Completes(s)'
      BY <1>p, <1>0, <1>1, <2>3, <2>4, <3>1, <3>2 DEF Completes, Fallback
    <3>5. RequestFine(s)' /\ work'[s].pc \in {"claim", "find"}
      BY <3>1, <3>2, <3>3, <3>4 DEF RequestFine, SendsWithClaim
    <3>6. Dealings'
      BY <1>0, <2>4, <2>5, <2>7, <2>8, <3>2, <3>5, DealsWithOne
    <3> QED BY <2>9, <3>2, <3>6, TypedWillBe
  <2> QED BY <1>2, <2>10, <2>11
\* The claim is another's by now.
<1>4. CASE ~Holds(s)
  <2>1. rpc' = rpc /\ \A j \in Rpcs : NotedAt(j)
    BY <1>4 DEF Advance, NotedAt
  <2>2. Held'
    BY <1>0, <1>1, <2>1 DEF Held
  <2>3. CASE ~work[s].asks
    <3>1. Gets(s, "error", 0)
      BY <1>4, <2>3 DEF Advance
    <3>2. GetsWell(s, "error", 0)
      BY DEF GetsWell
    <3>3. work' \in [Slots -> Request] /\ PagesTyped' /\ Dealings' /\ Pages'
      BY <1>0, <1>1, <2>1, <3>1, <3>2, Delivers
    <3> QED BY <2>2, <3>3, TypedWillBe
  <2>4. CASE work[s].asks
    <3> DEFINE w == [work[s] EXCEPT !.pc = "find", !.again = TRUE]
    <3>1. work' = [work EXCEPT ![s] = w] /\ UNCHANGED <<responder, applied>>
      BY <1>4, <2>4 DEF Advance
    <3>2. /\ w \in Request /\ w.page = work[s].page /\ w.asks = work[s].asks /\ w.pc = "find" /\ w.asks
      BY <1>0, <2>4 DEF Request
    <3> HIDE DEF w
    <3>3. work'[s] = w
      BY <3>1, AtWork
    <3>4. Placed(s)' /\ Completes(s)'
      BY <1>0, <3>2, <3>3 DEF Placed, Completes
    <3>5. /\ events \subseteq events' /\ asked' \in Nat /\ asked <= asked' /\ UNCHANGED <<telemetry, response>>
          /\ work[s].pc # "none" /\ w.pc \notin {"lease", "send", "advance", "unclaim"} /\ w.pc # "record"
      BY <1>0, <1>1, <3>2
    <3>6. work' \in [Slots -> Request] /\ PagesTyped' /\ Dealings' /\ Pages'
      BY <2>1, <3>1, <3>2, <3>4, <3>5, MovesOn
    <3> QED BY <2>2, <3>6, TypedWillBe
  <2> QED BY <2>3, <2>4
<1> QED BY <1>3, <1>4

\* releaseSimulationRpcStage.
LEMMA ReleaseStep ==
    ASSUME BridgeIInv, NEW s \in Slots, ReleaseStage(s)
    PROVE  BridgeIInv'
<1>p. PICK i : i = work[s].rpc
  OBVIOUS
<1>0. /\ Held /\ work[s] \in Request /\ Placed(s) /\ Repeats(i) /\ work[s].page \in Responders
      /\ work[s].pc = "unclaim" /\ i \in Rpcs /\ Recorded(i) /\ asked \in Nat
  BY <1>p, AtWork DEF ReleaseStage, Placed, SendsWithClaim, Held
<1>1. /\ UNCHANGED <<lease, received, asked, telemetry, response, events, budget>>
      /\ rpc[i] \in RpcRecord /\ RpcFine(i) /\ Gets(s, "error", 0)
  BY <1>0, RpcIsFine DEF ReleaseStage, Held
<1>2. /\ rpc' \in [Rpcs -> RpcRecord]
      /\ \A j \in Rpcs \ {i} : UNCHANGED <<rpc[j], telemetry[j], response[j]>>
      /\ rpc'[i].status = rpc[i].status /\ rpc'[i].answer = rpc[i].answer
      /\ rpc'[i] = rpc[i] \/ (rpc'[i].stage = "none" /\ ~rpc'[i].lapsed)
  <2>1. CASE Holds(s)
    <3> DEFINE new == Unclaimed(rpc[i])
    <3>1. rpc' = [rpc EXCEPT ![i] = new]
      BY <1>p, <2>1 DEF ReleaseStage
    <3>2. /\ new \in RpcRecord /\ new.status = rpc[i].status /\ new.answer = rpc[i].answer
          /\ new.stage = "none" /\ ~new.lapsed
      BY <1>1, LetGo
    <3> HIDE DEF new
    <3> QED BY <3>1, <3>2, <1>0, <1>1 DEF Held
  <2>2. CASE ~Holds(s)
    BY <2>2, <1>0, <1>1 DEF ReleaseStage, Held
  <2> QED BY <2>1, <2>2
<1>3. Onward
  BY <1>0, <1>1, <1>2 DEF Onward
<1>4. GetsWell(s, "error", 0)
  BY DEF GetsWell
<1>5. /\ work' \in [Slots -> Request] /\ work'[s] = NoWork /\ \A t \in Slots \ {s} : work'[t] = work[t]
      /\ PagesTyped' /\ Pages'
  BY <1>0, <1>1, <1>3, <1>4, Ends
<1>6. RpcFine(i)'
  <2>1. Repeats(i)'
    BY <1>0, <1>1 DEF Repeats
  <2>2. Fresh(i)' /\ Reported(i)' /\ ClaimFits(i)'
    BY <1>0, <1>1, <1>2, <2>1 DEF RpcFine, Fresh, Reported, ClaimFits, Recorded, Fallback
  <2> QED BY <1>1, <1>2, <2>1, <2>2 DEF RpcFine, StageIsPast, Fallback
<1>7. RequestFine(s)' /\ work'[s].pc = "none"
  BY <1>5, OverIsFine DEF NoWork
<1>8. Dealings'
  BY <1>0, <1>1, <1>2, <1>3, <1>5, <1>6, <1>7, DealsWithOne DEF Repeats
<1>9. Held'
  BY <1>0, <1>1, <1>2 DEF Held
<1> QED BY <1>5, <1>8, <1>9, TypedWillBe

-----------------------------------------------------------------------------
(* What happens around them.                                               *)

\* A step of the lease's or of a page's that no request and no RPC notices.
LEMMA Unnoticed ==
    ASSUME BridgeIInv, UNCHANGED <<rpc, work, asked, telemetry, response, events>>
    PROVE  Dealings' /\ Onward
<1>1. Dealings /\ asked \in Nat
  BY DEF BridgeIInv, BridgeTyped
<1>2. Onward
  BY <1>1 DEF Onward
<1>3. ASSUME NEW i \in Rpcs PROVE RpcFine(i)'
  BY <1>1, <1>3, RpcIsFine
     DEF RpcFine, Fresh, Reported, ClaimFits, StageIsPast, Fallback, Repeats, About, StageOf
<1>4. ASSUME NEW t \in Slots PROVE RequestFine(t)'
  BY <1>1, <1>4 DEF Dealings, RequestFine, Placed, Completes, SendsWithClaim, Holds, Recorded, Fallback, Repeats
<1>5. PolledOnce'
  BY <1>1 DEF Dealings, PolledOnce
<1> QED BY <1>2, <1>3, <1>4, <1>5, AllAreFine

LEMMA HeldIs == BridgeIInv => Held /\ PagesTyped /\ work \in [Slots -> Request]
BY TypedIs DEF BridgeIInv

LEMMA CloseStep ==
    ASSUME BridgeIInv, NEW p \in Responders, CloseBridge(p)
    PROVE  BridgeIInv'
<1>0. Held /\ PagesTyped /\ work \in [Slots -> Request]
  BY HeldIs
<1>1. UNCHANGED <<rpc, received, work, applied, asked, telemetry, response, events>>
  BY DEF CloseBridge
<1>2. Dealings' /\ Onward
  BY <1>1, Unnoticed
<1> DEFINE new == [responder[p] EXCEPT !.open = FALSE, !.pending = 0]
<1>3. responder' = [responder EXCEPT ![p] = new]
  BY DEF CloseBridge
<1>4. /\ new \in [open : BOOLEAN, pending : Rpcs \cup {0}, processed : SUBSET Rpcs]
      /\ ~new.open /\ new.pending = 0
  BY <1>0 DEF PagesTyped
<1> HIDE DEF new
<1>5. PagesTyped' /\ responder'[p] = new /\ \A q \in Responders \ {p} : responder'[q] = responder[q]
  BY <1>0, <1>1, <1>3, <1>4 DEF PagesTyped
<1>6. ASSUME NEW q \in Responders PROVE Minds(q)' /\ \A j \in Rpcs : Remembers(q, j)'
  <2>1. Minds(q) /\ \A j \in Rpcs : Remembers(q, j)
    BY DEF BridgeIInv, Pages
  <2>2. CASE q = p
    BY <1>4, <1>5, <2>1, <2>2, <1>1 DEF Minds, Remembers, Forgotten
  <2>3. CASE q # p
    BY <2>1, <2>3, <1>1, <1>5 DEF Minds, Recorded, Remembers, Forgotten
  <2> QED BY <2>2, <2>3
<1>7. Pages'
  BY <1>6 DEF Pages
<1>8. lease' \in [owner : Responders \cup {None}, lapsed : BOOLEAN]
  <2>1. lease' = lease \/ lease' = [owner |-> None, lapsed |-> TRUE]
    BY DEF CloseBridge
  <2>2. lease \in [owner : Responders \cup {None}, lapsed : BOOLEAN]
    BY <1>0 DEF Held
  <2>3. [owner |-> None, lapsed |-> TRUE] \in [owner : Responders \cup {None}, lapsed : BOOLEAN]
    OBVIOUS
  <2> QED BY <2>1, <2>2, <2>3, Zenon
<1>9. Held'
  BY <1>0, CostsKeep, <1>1, <1>8 DEF CloseBridge, Held
<1>10. work' \in [Slots -> Request]
  BY <1>0, <1>1
<1> QED BY <1>2, <1>5, <1>7, <1>9, <1>10, TypedWillBe

\* The lease changes, and what may still happen.
LEMMA LeaseStep ==
    ASSUME BridgeIInv, (\E p \in Responders : Takeover(p)) \/ LeaseLapses \/ LeaseEnds
    PROVE  BridgeIInv'
<1>0. Held /\ PagesTyped /\ work \in [Slots -> Request]
  BY HeldIs
<1>1. UNCHANGED <<rpc, received, work, responder, applied, asked, telemetry, response, events>>
  BY DEF Takeover, LeaseLapses, LeaseEnds, LeaseExpires
<1>2. Dealings' /\ Onward
  BY <1>1, Unnoticed
<1>3. lease' \in [owner : Responders \cup {None}, lapsed : BOOLEAN]
  <2>1. CASE LeaseExpires
    BY <1>0, <2>1 DEF Held, LeaseExpires
  <2>2. CASE \E p \in Responders : Takeover(p)
    BY <2>2 DEF Takeover
  <2> QED BY <2>1, <2>2 DEF LeaseLapses, LeaseEnds
<1>4. budget' \in Bounds /\ budget'.rpcs = budget.rpcs
  BY <1>0, CostsKeep DEF Held, Takeover, LeaseLapses, LeaseEnds
<1>5. Held'
  BY <1>0, <1>1, <1>3, <1>4 DEF Held
<1>6. PagesTyped' /\ work' \in [Slots -> Request]
  BY <1>0, <1>1 DEF PagesTyped
<1>7. \A p \in Responders :
          \/ work'[p].pc = "none"
          \/ /\ work[p].pc # "none"
             /\ work'[p].asks = work[p].asks
             /\ work'[p].pc = "lease" => work'[p] = work[p]
  BY <1>1
<1>8. UNCHANGED <<responder, applied>>
  BY <1>1
<1>9. Pages'
  BY <1>2, <1>7, <1>8, PagesWait
<1> QED BY <1>2, <1>5, <1>6, <1>9, TypedWillBe

\* A claim expires: from then on a repetition is possible.
LEMMA ClaimExpiryStep ==
    ASSUME BridgeIInv, NEW i \in Rpcs, ClaimLapses(i) \/ ClaimEnds(i)
    PROVE  BridgeIInv'
<1>0. Held /\ PagesTyped /\ work \in [Slots -> Request] /\ RpcFine(i) /\ rpc[i] \in RpcRecord /\ asked \in Nat
  BY HeldIs, RpcIsFine DEF Held
<1>1. /\ UNCHANGED <<lease, received, work, responder, applied, asked, telemetry, response>>
      /\ events' = events \cup {<<"repeat", i>>} /\ rpc[i].stage # "none"
  BY DEF ClaimLapses, ClaimEnds, ClaimExpires
<1> DEFINE new == [rpc[i] EXCEPT !.lapsed = TRUE]
<1>2. rpc' = [rpc EXCEPT ![i] = new]
  BY DEF ClaimLapses, ClaimEnds, ClaimExpires
<1>3. /\ new \in RpcRecord /\ new.status = rpc[i].status /\ new.answer = rpc[i].answer
      /\ new.stage = rpc[i].stage /\ new.by = rpc[i].by
  BY <1>0 DEF RpcRecord
<1> HIDE DEF new
<1>4. /\ rpc' \in [Rpcs -> RpcRecord] /\ rpc'[i] = new
      /\ \A j \in Rpcs \ {i} : UNCHANGED <<rpc[j], telemetry[j], response[j]>>
  BY <1>0, <1>1, <1>2, <1>3 DEF Held
<1>5. Repeats(i)' /\ events \subseteq events'
  BY <1>1 DEF Repeats
<1>6. Onward
  BY <1>0, <1>1, <1>3, <1>4 DEF Onward
<1>7. RpcFine(i)'
  <2>1. Fresh(i)' /\ Reported(i)' /\ ClaimFits(i)'
    BY <1>0, <1>1, <1>3, <1>4, <1>5 DEF RpcFine, Fresh, Reported, ClaimFits, Fallback
  <2> QED BY <1>0, <1>1, <1>3, <1>4, <1>5, <2>1 DEF RpcFine, StageIsPast, Fallback
<1>8. \A j \in Rpcs : RpcFine(j)'
  BY <1>1, <1>0, <1>4, <1>5, OtherRpcsStay, <1>7 DEF About
<1>9. \A t \in Slots : RequestFine(t)'
  <2>1. ASSUME NEW t \in Slots PROVE RequestFine(t)'
    <3>1. work[t].pc = "record" => work[t].rpc # i
      BY <1>0, <1>1, AtWork DEF RpcFine, ClaimFits, Placed
    <3> QED BY <1>1, <1>3, <1>4, <1>6, <3>1, OtherRequestsStay
  <2> QED BY <2>1
<1>10. PolledOnce'
  BY <1>1 DEF PolledOnce, BridgeIInv, Dealings
<1>11. Dealings'
  BY <1>8, <1>9, <1>10, AllAreFine
<1>12. Held'
  BY <1>0, CostsKeep, <1>1, <1>4 DEF Held, ClaimLapses, ClaimEnds
<1>13. PagesTyped' /\ work' \in [Slots -> Request]
  BY <1>0, <1>1 DEF PagesTyped
<1>14. Pages'
  BY <1>1, <1>6, PagesWait
<1> QED BY <1>11, <1>12, <1>13, <1>14, TypedWillBe

\* A request loses its page, or stops: claims change hands, or have none.
LEMMA Reheld ==
    ASSUME BridgeIInv, NEW from \in Slots, NEW to \in Slots \cup {None}, rpc' = Rehold(from, to)
    PROVE  /\ rpc' \in [Rpcs -> RpcRecord]
           /\ \A j \in Rpcs :
                 /\ rpc'[j].status = rpc[j].status /\ rpc'[j].stage = rpc[j].stage
                 /\ rpc'[j].lapsed = rpc[j].lapsed /\ rpc'[j].answer = rpc[j].answer
                 /\ rpc'[j].by = IF rpc[j].by = from THEN to ELSE rpc[j].by
<1>0. rpc \in [Rpcs -> RpcRecord]
  BY HeldIs DEF Held
<1> DEFINE new(j) == IF rpc[j].by = from THEN [rpc[j] EXCEPT !.by = to] ELSE rpc[j]
<1>1. rpc' = [j \in Rpcs |-> new(j)]
  BY DEF Rehold
<1>2. ASSUME NEW j \in Rpcs
      PROVE  /\ new(j) \in RpcRecord
             /\ new(j).status = rpc[j].status /\ new(j).stage = rpc[j].stage
             /\ new(j).lapsed = rpc[j].lapsed /\ new(j).answer = rpc[j].answer
             /\ new(j).by = IF rpc[j].by = from THEN to ELSE rpc[j].by
  BY <1>0 DEF RpcRecord
<1> HIDE DEF new
<1> QED BY <1>1, <1>2

\* What such a step leaves of the RPCs.
LEMMA RpcsOutlive ==
    ASSUME BridgeIInv, NEW from \in Slots, NEW to \in Slots \cup {None}, rpc' = Rehold(from, to),
           UNCHANGED <<asked, telemetry, response>>, events \subseteq events', NEW i \in Rpcs,
           About(i, "send")' => About(i, "send")
    PROVE  RpcFine(i)' /\ Onward
<1>0. RpcFine(i) /\ asked \in Nat
  BY RpcIsFine, HeldIs DEF Held
<1>1. \A j \in Rpcs :
          /\ rpc'[j].status = rpc[j].status /\ rpc'[j].stage = rpc[j].stage
          /\ rpc'[j].lapsed = rpc[j].lapsed /\ rpc'[j].answer = rpc[j].answer
  BY Reheld
<1>2. Onward
  BY <1>0, <1>1 DEF Onward
<1>3. Fresh(i)' /\ Reported(i)' /\ ClaimFits(i)'
  BY <1>0, <1>1 DEF RpcFine, Fresh, Reported, ClaimFits, Fallback, Repeats, StageOf
<1>4. StageIsPast(i)'
  BY <1>0, <1>1 DEF RpcFine, StageIsPast, Repeats
<1> QED BY <1>0, <1>1, <1>2, <1>3, <1>4 DEF RpcFine, Fallback

LEMMA BreakStep ==
    ASSUME BridgeIInv, NEW p \in Responders, Break(p)
    PROVE  BridgeIInv'
<1>0. /\ Held /\ PagesTyped /\ work \in [Slots -> Request]
      /\ p \in Slots /\ Orphan \in Slots /\ p # Orphan
  BY HeldIs, BridgeAssumption DEF Slots
<1>1. /\ UNCHANGED <<lease, received, responder, applied, asked, telemetry, response, events>>
      /\ rpc' = Rehold(p, Orphan) /\ work[Orphan] = NoWork
  BY DEF Break
<1>2. /\ work' \in [Slots -> Request] /\ work'[p] = NoWork /\ work'[Orphan] = work[p]
      /\ \A t \in Slots \ {p, Orphan} : work'[t] = work[t]
  BY <1>0 DEF NoWork, Request, Statuses, Break
<1>3. /\ rpc' \in [Rpcs -> RpcRecord]
      /\ \A j \in Rpcs :
            /\ rpc'[j].status = rpc[j].status /\ rpc'[j].stage = rpc[j].stage
            /\ rpc'[j].lapsed = rpc[j].lapsed /\ rpc'[j].answer = rpc[j].answer
            /\ rpc'[j].by = IF rpc[j].by = p THEN Orphan ELSE rpc[j].by
  BY <1>0, <1>1, Reheld
<1>4. \A i \in Rpcs : About(i, "send")' => About(i, "send")
  BY <1>0, <1>2 DEF About, NoWork
<1>5. ASSUME NEW i \in Rpcs PROVE RpcFine(i)'
  BY <1>0, <1>1, <1>4, RpcsOutlive
<1>6. Onward
  BY <1>0, <1>1, <1>3 DEF Onward, Held
\* The request that goes on is the page's.
<1>7. ASSUME NEW t \in Slots, NEW u \in Slots, work'[t] = work[u], t = u \/ (t = Orphan /\ u = p), t # p
      PROVE  RequestFine(t)'
  <2>0. Placed(u) /\ Completes(u) /\ SendsWithClaim(u) /\ work[u] \in Request /\ asked \in Nat
    BY <1>0, AtWork DEF Held
  <2>1. work[u].pc \in {"record"} => work[u].rpc \in Rpcs
    BY <2>0, PolledAreRpcs DEF Placed
  <2>2. Placed(t)'
    BY <2>0, <2>1, <1>0, <1>1, <1>3, <1>7 DEF Placed, Recorded
  <2>3. work[u].pc \in {"claim", "send", "advance", "unclaim"} => work[u].rpc \in Rpcs
    BY <2>0 DEF Placed
  <2>4. Completes(t)'
    BY <2>0, <2>3, <1>1, <1>3, <1>7 DEF Completes, Fallback
  <2>5. Holds(u) /\ work[u].rpc \in Rpcs => Holds(t)'
    BY <1>3, <1>7 DEF Holds
  <2>6. SendsWithClaim(t)'
    BY <2>0, <2>3, <2>5, <1>1, <1>7 DEF SendsWithClaim, Repeats
  <2> QED BY <2>2, <2>4, <2>6 DEF RequestFine
<1>8. ASSUME NEW t \in Slots PROVE RequestFine(t)'
  BY <1>2, OverIsFine, <1>0, <1>7
<1>9. PolledOnce'
  BY <1>0, <1>2 DEF BridgeIInv, Dealings, PolledOnce, NoWork
<1>10. Dealings'
  BY <1>5, <1>8, <1>9, AllAreFine
<1>11. Pages'
  BY <1>2, BridgeAssumption, <1>1, <1>6, PagesWait DEF NoWork, Slots
<1>12. Held'
  BY <1>0, CostsKeep, <1>1, <1>3 DEF Break, Held
<1>13. PagesTyped'
  BY <1>0, <1>1 DEF PagesTyped
<1> QED BY <1>2, <1>10, <1>11, <1>12, <1>13, TypedWillBe

LEMMA DieStep ==
    ASSUME BridgeIInv, NEW s \in Slots, Die(s)
    PROVE  BridgeIInv'
<1>0. Held /\ PagesTyped /\ work \in [Slots -> Request]
  BY HeldIs
<1>1. /\ UNCHANGED <<lease, received, responder, applied, asked, telemetry, response>>
      /\ rpc' = Rehold(s, None) /\ events \subseteq events'
  BY DEF Die
<1>2. /\ work' \in [Slots -> Request] /\ work'[s] = NoWork /\ \A t \in Slots \ {s} : work'[t] = work[t]
  BY <1>0 DEF NoWork, Request, Statuses, Die
<1>3. /\ rpc' \in [Rpcs -> RpcRecord]
      /\ \A j \in Rpcs :
            /\ rpc'[j].status = rpc[j].status /\ rpc'[j].stage = rpc[j].stage
            /\ rpc'[j].lapsed = rpc[j].lapsed /\ rpc'[j].answer = rpc[j].answer
            /\ rpc'[j].by = IF rpc[j].by = s THEN None ELSE rpc[j].by
  BY <1>1, Reheld
<1>4. \A i \in Rpcs : About(i, "send")' => About(i, "send")
  BY <1>2 DEF About, NoWork
<1>5. ASSUME NEW i \in Rpcs PROVE RpcFine(i)'
  BY <1>1, <1>4, RpcsOutlive
<1>6. Onward
  BY <1>0, <1>1, <1>3 DEF Onward, Held
<1>7. ASSUME NEW t \in Slots PROVE RequestFine(t)'
  <2>1. CASE t = s
    BY <2>1, <1>2, OverIsFine
  <2>2. CASE t # s
    <3>0. Placed(t) /\ SendsWithClaim(t) /\ work'[t] = work[t]
      BY <2>2, <1>2, AtWork
    <3>1. work[t].pc = "record" => rpc'[work[t].rpc].status = "none"
      BY <3>0, PolledAreRpcs, <1>3 DEF Placed
    <3>2. Placed(t)' /\ Completes(t)'
      BY <3>0, <3>1, <1>6, OthersGoOn
    <3>3. work[t].pc \in {"send", "advance"} => work[t].rpc \in Rpcs
      BY <3>0 DEF Placed
    <3>4. SendsWithClaim(t)'
      BY <2>2, <3>0, <3>3, <1>1, <1>3 DEF SendsWithClaim, Holds, Repeats
    <3> QED BY <3>2, <3>4 DEF RequestFine
  <2> QED BY <2>1, <2>2
<1>8. PolledOnce'
  BY <1>2 DEF PolledOnce, BridgeIInv, Dealings, NoWork
<1>9. Dealings'
  BY <1>5, <1>7, <1>8, AllAreFine
<1>10. Pages'
  BY <1>2, <1>1, <1>6, PagesWait DEF NoWork, Slots
<1>11. Held'
  BY <1>0, CostsKeep, <1>1, <1>3 DEF Die, Held
<1>12. PagesTyped'
  BY <1>0, <1>1 DEF PagesTyped
<1> QED BY <1>2, <1>9, <1>10, <1>11, <1>12, TypedWillBe

-----------------------------------------------------------------------------
(* The theorem.                                                            *)

LEMMA BridgeGoesOn == BridgeIInv /\ [BridgeNext]_bridgeVars => BridgeIInv'
<1> SUFFICES ASSUME BridgeIInv, [BridgeNext]_bridgeVars PROVE BridgeIInv'
  OBVIOUS
<1>1. CASE UNCHANGED bridgeVars
  BY <1>1, Unnoticed, HeldIs, PagesWait, TypedWillBe DEF bridgeVars, Held, PagesTyped
<1>2. ASSUME NEW p \in Responders, Ask(p) \/ CloseBridge(p) \/ Takeover(p) \/ Break(p)
      PROVE  BridgeIInv'
  BY <1>2, AskStep, CloseStep, LeaseStep, BreakStep
<1>3. ASSUME NEW s \in Slots, BridgeStep(s) PROVE BridgeIInv'
  BY <1>3, AcquireStep, FindStep, AdoptStep, PollStep, RecordStep, ReadStep, StoreStep, ClaimStep,
     SendStep, AdvanceStep, ReleaseStep
     DEF BridgeStep
<1>4. ASSUME NEW s \in Slots, Die(s) PROVE BridgeIInv'
  BY <1>4, DieStep
<1>5. CASE LeaseLapses \/ LeaseEnds
  BY <1>5, LeaseStep
<1>6. ASSUME NEW i \in Rpcs, ClaimLapses(i) \/ ClaimEnds(i) PROVE BridgeIInv'
  BY <1>6, ClaimExpiryStep
<1> QED BY <1>1, <1>2, <1>3, <1>4, <1>5, <1>6 DEF BridgeNext

\* The bridge keeps its promises to ThingsBoard and to the operator, however
\* many pages, RPCs, breaks, stops, takeovers and expiries there are: one story
\* of every RPC, its telemetry before its response, nothing twice without a
\* failure or an expiry, and no RPC applied twice by a page that kept its lease.
THEOREM RpcsAreSafe == BridgeSpec => []BridgeInv
<1>1. BridgeInit /\ [][BridgeNext]_bridgeVars => []BridgeIInv
  BY BridgeBegins, BridgeGoesOn, PTL
<1>2. BridgeIInv => BridgeInv
  BY BridgeSafe
<1> QED BY <1>1, <1>2, PTL DEF BridgeSpec

(***************************************************************************)
(* The values a page publishes.  An ordered change keeps its place in the  *)
(* queue (InTurn); what the queue is done with was told, the last of it no *)
(* later than what the page believes to be published (Upto).  A drain      *)
(* drops only what equals that belief, so it was told; and a request or an *)
(* answer makes its value the belief only when it was told last (Tells).   *)
(***************************************************************************)

JobRecord == [kind : {"steady", "ordered"}, value : Values, turn : Nat]
RequestRecord == [stage : {"none", "sent", "checked", "published", "stored"}, value : Values, at : Nat, told : {FALSE}]
AnswerRecord == [stage : {"none", "kept", "checked", "published", "stored"}, value : Values, at : Nat, told : BOOLEAN]

\* The changes of owes that are not in the queue.
DoneOf(queue, owes) == {k \in DOMAIN owes : \A i \in DOMAIN queue : queue[i].turn # k}

\* The queue has its ordered changes in their order, and none before one it is
\* done with.
InTurn(queue, owes) ==
    /\ \A i \in DOMAIN queue : queue[i].kind = "steady" => queue[i].turn = 0
    /\ \A i \in DOMAIN queue : queue[i].turn = 0
           \/ (queue[i].turn \in DOMAIN owes /\ queue[i].value = owes[queue[i].turn])
    /\ \A i, n \in DOMAIN queue : i < n /\ queue[n].turn # 0 => queue[i].turn < queue[n].turn
    /\ \A i \in DOMAIN queue, k \in DoneOf(queue, owes) : queue[i].turn = 0 \/ k < queue[i].turn

TellsAt(tells, k) == IF k = 0 THEN 0 ELSE tells[k]

\* The changes of D were told in order, the last of them up to place p, where
\* `known` was told.
Embeds(at, p, D, owes, tells, known) ==
    /\ at \in [D -> 0..Len(tells)]
    /\ p \in 0..Len(tells)
    /\ \A k \in D : TellsAt(tells, at[k]) = owes[k] /\ at[k] <= p
    /\ \A k, n \in D : k <= n => at[k] <= at[n]
    /\ TellsAt(tells, p) = known
Upto(queue, owes, tells, known) == \E at, p : Embeds(at, p, DoneOf(queue, owes), owes, tells, known)

\* What a request or an answer has told, and what nobody else has told since.
Tells ==
    /\ request.at <= clock /\ answer.at <= clock /\ upstream.at <= clock
    /\ Busy /\ answer # Nothing => request.at # answer.at
    /\ answer.stage \in {"published", "stored"} => answer.told
    /\ answer # Nothing /\ upstream.at = answer.at => answer.told
    /\ answer.told => answer.at <= upstream.at
    /\ ~blurred =>
           /\ request.stage \in {"sent", "checked"} => upstream.at < request.at
           /\ Busy /\ answer.told => answer.at < request.at
           /\ request.stage \in {"published", "stored"} => TellsAt(shown, Len(shown)) = request.value
           /\ answer.told /\ upstream.at = answer.at => TellsAt(shown, Len(shown)) = answer.value

TelemetryTyped ==
    /\ value \in Values /\ published \in Values /\ snapshot \in Values
    /\ jobs \in Seq(JobRecord) /\ Len(jobs) <= MaxPending
    /\ owed \in Seq(Values) /\ shown \in Seq(Values)
    /\ upstream \in [value : Values, at : Nat]
    /\ request \in RequestRecord /\ answer \in AnswerRecord
    /\ clock \in Nat /\ blurred \in BOOLEAN
    /\ Busy => request.stage # "none" /\ jobs # <<>> /\ jobs[1].value = request.value
    /\ answer = Nothing \/ answer.stage # "none"

TelemetryIInv ==
    /\ TelemetryTyped
    /\ InTurn(jobs, owed)
    /\ Tells
    /\ ~blurred => Upto(jobs, owed, shown, published)

\* Of numbers there is a least.
LEMMA Least ==
    ASSUME NEW T, T \subseteq Nat, T # {}
    PROVE  \E n \in T : \A m \in T : n <= m
<1>1. IsWellFoundedOn(OpToRel(<, Nat), Nat)
  BY NatLessThanWellFounded
<1>2. \E n \in T : \A m \in T : ~(<<m, n>> \in OpToRel(<, Nat))
  BY <1>1, WFMin, Zenon
<1>3. \A m, n \in Nat : m < n => <<m, n>> \in OpToRel(<, Nat)
  BY DEF OpToRel
<1>4. PICK n \in T : \A m \in T : ~(<<m, n>> \in OpToRel(<, Nat))
  BY <1>2
<1>5. \A m \in T : ~(m < n) /\ m \in Nat /\ n \in Nat
  BY <1>3, <1>4
<1>6. \A m \in T : n <= m
  BY <1>5
<1> QED BY <1>4, <1>6

\* What is done besides was told at p.
LEMMA MoreDone ==
    ASSUME NEW D, NEW E, NEW owes, NEW tells \in Seq(Values), NEW at, NEW p, NEW known,
           Embeds(at, p, D, owes, tells, known), D \subseteq E, E \subseteq Nat,
           \A k \in E \ D : owes[k] = known /\ \A n \in D : n < k
    PROVE  \E a, q : Embeds(a, q, E, owes, tells, known)
<1>. DEFINE a == [k \in E |-> IF k \in D THEN at[k] ELSE p]
<1>0. Len(tells) \in Nat
  OBVIOUS
<1>1. a \in [E -> 0..Len(tells)] /\ p \in 0..Len(tells)
  BY DEF Embeds
<1>2. \A k \in E : a[k] = (IF k \in D THEN at[k] ELSE p) /\ a[k] \in Nat /\ p \in Nat
  BY <1>0, <1>1
<1>3. \A k \in E : TellsAt(tells, a[k]) = owes[k] /\ a[k] <= p
  BY <1>2 DEF Embeds
<1>4. \A k, n \in E : k <= n => a[k] <= a[n]
  <2>. SUFFICES ASSUME NEW k \in E, NEW n \in E, k <= n PROVE a[k] <= a[n]
    OBVIOUS
  <2>1. CASE n \in D
    BY <2>1 DEF Embeds
  <2>2. CASE n \notin D
    BY <2>2, <1>3
  <2> QED BY <2>1, <2>2
<1>5. TellsAt(tells, p) = known
  BY DEF Embeds
<1>. HIDE DEF a
<1>6. Embeds(a, p, E, owes, tells, known)
  BY <1>1, <1>3, <1>4, <1>5 DEF Embeds
<1> QED BY <1>6

\* A queue without its first jobs.
LEMMA Shorter ==
    ASSUME NEW queue \in Seq(JobRecord), NEW owes \in Seq(Values), NEW m \in 1..Len(queue) + 1,
           InTurn(queue, owes)
    PROVE  LET after == SubSeq(queue, m, Len(queue)) IN
           /\ after \in Seq(JobRecord)
           /\ Len(after) = Len(queue) + 1 - m
           /\ \A i \in 1..Len(after) : after[i] = queue[m + i - 1]
           /\ InTurn(after, owes)
           /\ DoneOf(queue, owes) \subseteq DoneOf(after, owes)
           /\ \A k \in DoneOf(after, owes) \ DoneOf(queue, owes) :
                  /\ \E i \in 1..(m - 1) : queue[i].turn = k /\ owes[k] = queue[i].value
                  /\ \A n \in DoneOf(queue, owes) : n < k
<1>. DEFINE after == SubSeq(queue, m, Len(queue))
<1>1. Len(queue) \in Nat /\ Len(owes) \in Nat /\ DOMAIN queue = 1..Len(queue) /\ DOMAIN owes = 1..Len(owes)
  OBVIOUS
<1>2. /\ after \in Seq(JobRecord) /\ Len(after) = Len(queue) + 1 - m
      /\ \A i \in 1..Len(after) : after[i] = queue[m + i - 1]
  BY <1>1
<1>. HIDE DEF after
<1>3. DOMAIN after = 1..Len(after) /\ \A i \in DOMAIN after : m + i - 1 \in DOMAIN queue /\ after[i] = queue[m + i - 1]
  BY <1>1, <1>2
<1>4. \A i \in DOMAIN queue : queue[i].turn \in Nat
  <2>1. \A i \in DOMAIN queue : queue[i] \in JobRecord
    BY <1>1
  <2> QED BY <2>1 DEF JobRecord
<1>5. DoneOf(queue, owes) \subseteq DoneOf(after, owes)
  BY <1>3 DEF DoneOf
<1>6. ASSUME NEW k \in DoneOf(after, owes) \ DoneOf(queue, owes)
      PROVE  /\ \E i \in 1..(m - 1) : queue[i].turn = k /\ owes[k] = queue[i].value
             /\ \A n \in DoneOf(queue, owes) : n < k
  <2>1. k \in DOMAIN owes /\ k # 0
    BY <1>1, <1>6 DEF DoneOf
  <2>2. PICK i \in DOMAIN queue : queue[i].turn = k
    BY <1>6, <2>1 DEF DoneOf
  <2>3. i < m
    <3>1. SUFFICES ASSUME i >= m PROVE FALSE
      BY <1>1
    <3>2. i - m + 1 \in DOMAIN after /\ after[i - m + 1] = queue[i]
      BY <1>1, <1>2, <1>3, <3>1
    <3> QED BY <2>2, <3>2, <1>6 DEF DoneOf
  <2>4. owes[k] = queue[i].value /\ \A n \in DoneOf(queue, owes) : n < k
    BY <2>1, <2>2 DEF InTurn
  <2> QED BY <1>1, <2>2, <2>3, <2>4
<1>7. InTurn(after, owes)
  <2>1. \A i \in DOMAIN after : after[i].turn = 0
            \/ (after[i].turn \in DOMAIN owes /\ after[i].value = owes[after[i].turn])
    BY <1>3 DEF InTurn
  <2>2. \A i, n \in DOMAIN after : i < n /\ after[n].turn # 0 => after[i].turn < after[n].turn
    <3>. SUFFICES ASSUME NEW i \in DOMAIN after, NEW n \in DOMAIN after, i < n, after[n].turn # 0
                  PROVE  after[i].turn < after[n].turn
      OBVIOUS
    <3>1. m + i - 1 < m + n - 1
      BY <1>3
    <3> QED BY <1>3, <3>1 DEF InTurn
  <2>3. \A i \in DOMAIN after, k \in DoneOf(after, owes) : after[i].turn = 0 \/ k < after[i].turn
    <3>. SUFFICES ASSUME NEW i \in DOMAIN after, NEW k \in DoneOf(after, owes), after[i].turn # 0
                  PROVE  k < after[i].turn
      OBVIOUS
    <3>1. CASE k \in DoneOf(queue, owes)
      BY <1>3, <3>1 DEF InTurn
    <3>2. CASE k \notin DoneOf(queue, owes)
      <4>1. PICK j \in 1..(m - 1) : queue[j].turn = k
        BY <1>6, <3>2
      <4>2. j \in DOMAIN queue /\ j < m + i - 1
        BY <1>1, <1>2, <1>3
      <4> QED BY <1>3, <4>1, <4>2 DEF InTurn
    <3> QED BY <3>1, <3>2
  <2>4. \A i \in DOMAIN after : after[i].kind = "steady" => after[i].turn = 0
    BY <1>3 DEF InTurn
  <2> QED BY <2>1, <2>2, <2>3, <2>4 DEF InTurn
<1> QED BY <1>2, <1>5, <1>6, <1>7 DEF after

\* What a drain drops is what is known to be published.
LEMMA Dropped ==
    ASSUME NEW queue \in Seq(JobRecord), NEW known
    PROVE  \E m \in 1..Len(queue) + 1 :
               /\ Leftover(queue, known) = SubSeq(queue, m, Len(queue))
               /\ \A i \in 1..(m - 1) : queue[i].value = known
<1>. DEFINE news == {k \in DOMAIN queue : queue[k].value # known}
<1>1. Len(queue) \in Nat /\ DOMAIN queue = 1..Len(queue)
  OBVIOUS
<1>2. CASE news = {}
  <2>1. SubSeq(queue, Len(queue) + 1, Len(queue)) = <<>>
    BY <1>1
  <2>2. Leftover(queue, known) = <<>>
    BY <1>2 DEF Leftover
  <2>. DEFINE m == Len(queue) + 1
  <2>3. m \in 1..Len(queue) + 1 /\ \A i \in 1..(m - 1) : queue[i].value = known
    BY <1>1, <1>2
  <2>4. Leftover(queue, known) = SubSeq(queue, m, Len(queue))
    BY <2>1, <2>2
  <2>. HIDE DEF m
  <2> QED BY <2>3, <2>4, Zenon
<1>3. CASE news # {}
  <2>1. news \subseteq Nat
    BY <1>1
  <2>2. \E k \in news : \A n \in news : k <= n
    BY <1>3, <2>1, Least
  <2>. DEFINE m == CHOOSE k \in news : \A n \in news : k <= n
  <2>3. m \in news /\ \A n \in news : m <= n
    BY <2>2
  <2>4. Leftover(queue, known) = SubSeq(queue, m, Len(queue))
    BY <1>3 DEF Leftover
  <2>. HIDE DEF m
  <2>5. m \in 1..Len(queue) + 1 /\ \A i \in 1..(m - 1) : queue[i].value = known
    BY <1>1, <2>3
  <2> QED BY <2>4, <2>5, Zenon
<1> QED BY <1>2, <1>3, Zenon

\* A drain keeps the order, and what it drops was told.
LEMMA LeftoverKeeps ==
    ASSUME NEW queue \in Seq(JobRecord), NEW owes \in Seq(Values), NEW tells \in Seq(Values), NEW known,
           InTurn(queue, owes)
    PROVE  LET left == Leftover(queue, known) IN
           /\ left \in Seq(JobRecord) /\ Len(left) <= Len(queue)
           /\ InTurn(left, owes)
           /\ Upto(queue, owes, tells, known) => Upto(left, owes, tells, known)
<1>1. PICK m \in 1..Len(queue) + 1 :
               /\ Leftover(queue, known) = SubSeq(queue, m, Len(queue))
               /\ \A i \in 1..(m - 1) : queue[i].value = known
  BY Dropped
<1>. DEFINE left == Leftover(queue, known)
<1>2. /\ left \in Seq(JobRecord) /\ Len(left) = Len(queue) + 1 - m
      /\ InTurn(left, owes)
      /\ DoneOf(queue, owes) \subseteq DoneOf(left, owes)
      /\ \A k \in DoneOf(left, owes) \ DoneOf(queue, owes) :
             /\ \E i \in 1..(m - 1) : queue[i].turn = k /\ owes[k] = queue[i].value
             /\ \A n \in DoneOf(queue, owes) : n < k
  BY <1>1, Shorter
<1>. HIDE DEF left
<1>3. Len(left) <= Len(queue)
  BY <1>2
<1>4. \A k \in DoneOf(left, owes) \ DoneOf(queue, owes) : owes[k] = known /\ \A n \in DoneOf(queue, owes) : n < k
  BY <1>1, <1>2
<1>5. DoneOf(left, owes) \subseteq Nat
  BY DEF DoneOf
<1>6. ASSUME Upto(queue, owes, tells, known) PROVE Upto(left, owes, tells, known)
  BY <1>6, <1>2, <1>4, <1>5, MoreDone DEF Upto
<1> QED BY <1>2, <1>3, <1>6 DEF left

\* A drain after the queue has become `queue`.
LEMMA DrainKeeps ==
    ASSUME TelemetryTyped, NEW may \in BOOLEAN, NEW queue \in Seq(JobRecord), Len(queue) <= MaxPending,
           NEW owes \in Seq(Values), NEW known, InTurn(queue, owes), Drain(queue, known, may)
    PROVE  \E left \in Seq(JobRecord), r \in RequestRecord, c \in {clock, clock + 1} :
               /\ jobs' = left /\ Len(left) <= MaxPending
               /\ request' = r /\ clock' = c
               /\ InTurn(left, owes)
               /\ Upto(queue, owes, shown, known) => Upto(left, owes, shown, known)
               /\ ~may => left = queue /\ r = request /\ c = clock
               /\ may => \/ r = Nothing /\ c = clock
                         \/ /\ c = clock + 1 /\ r.stage = "sent" /\ r.at = c
                            /\ left # <<>> /\ left[1].value = r.value
<1>1. CASE ~may
  <2>1. jobs' = queue /\ request' = request /\ clock' = clock
    BY <1>1 DEF Drain
  <2>2. request \in RequestRecord
    BY DEF TelemetryTyped
  <2> QED BY <1>1, <2>1, <2>2, Zenon
<1>2. CASE may
  <2>. DEFINE left == Leftover(queue, known)
              sent == [stage |-> "sent", value |-> left[1].value, at |-> clock + 1, told |-> FALSE]
              r == IF left = <<>> THEN Nothing ELSE sent
              c == IF left = <<>> THEN clock ELSE clock + 1
  <2>1. /\ left \in Seq(JobRecord) /\ Len(left) <= Len(queue) /\ InTurn(left, owes)
        /\ Upto(queue, owes, shown, known) => Upto(left, owes, shown, known)
    BY LeftoverKeeps DEF TelemetryTyped
  <2>2. jobs' = left /\ request' = r /\ clock' = c
    BY <1>2 DEF Drain
  <2>. HIDE DEF left
  <2>3. left # <<>> => left[1] \in JobRecord
    BY <2>1
  <2>4. left # <<>> => left[1].value \in Values
    BY <2>3 DEF JobRecord
  <2>5. Len(left) <= MaxPending
    BY <2>1, TelemetryAssumption
  <2>6. r \in RequestRecord /\ c \in {clock, clock + 1}
    BY <2>4 DEF TelemetryTyped, RequestRecord, Nothing, Values
  <2>7. \/ r = Nothing /\ c = clock
        \/ /\ c = clock + 1 /\ r.stage = "sent" /\ r.at = c
           /\ left # <<>> /\ left[1].value = r.value
    OBVIOUS
  <2>. HIDE DEF r, c
  <2> QED BY <1>2, <2>1, <2>2, <2>5, <2>6, <2>7, Zenon
<1> QED BY <1>1, <1>2, Zenon

\* A change that is accepted.
LEMMA EnqueuedKeeps ==
    ASSUME TelemetryTyped, InTurn(jobs, owed), NEW kind \in {"steady", "ordered"}, NEW v \in Values, Accepted(kind),
           NEW owes, owes = IF kind = "ordered" THEN Append(owed, v) ELSE owed
    PROVE  LET queue == Enqueued(kind, v) IN
           /\ owes \in Seq(Values)
           /\ queue \in Seq(JobRecord) /\ Len(queue) <= MaxPending
           /\ InTurn(queue, owes)
           /\ Upto(jobs, owed, shown, published) => Upto(queue, owes, shown, published)
           /\ Busy => queue # <<>> /\ queue[1].value = request.value
<1>. DEFINE queue == Enqueued(kind, v)
            job == Job(kind, v)
<1>1. /\ Len(jobs) \in Nat /\ DOMAIN jobs = 1..Len(jobs) /\ Len(owed) \in Nat /\ DOMAIN owed = 1..Len(owed)
      /\ \A i \in DOMAIN jobs : jobs[i] \in JobRecord
      /\ jobs \in Seq(JobRecord) /\ owed \in Seq(Values)
  BY DEF TelemetryTyped
<1>2. \A i \in DOMAIN jobs : jobs[i].turn \in Nat /\ jobs[i].value \in Values
  BY <1>1 DEF JobRecord
<1>3. CASE Merges(kind)
  <2>1. /\ kind = "steady" /\ owes = owed /\ jobs # <<>> /\ jobs[Len(jobs)].kind = "steady" /\ ~InFlight(Len(jobs))
        /\ queue = [jobs EXCEPT ![Len(jobs)].value = v]
    BY <1>3 DEF Merges, Enqueued
  <2>. DEFINE last == [jobs[Len(jobs)] EXCEPT !.value = v]
  <2>2. last \in JobRecord /\ last.turn = 0 /\ last.kind = "steady" /\ jobs[Len(jobs)].turn = 0
    <3>1. Len(jobs) \in DOMAIN jobs
      BY <1>1, <2>1
    <3>2. jobs[Len(jobs)] \in JobRecord /\ jobs[Len(jobs)].kind = "steady" /\ jobs[Len(jobs)].turn = 0
      BY <1>1, <2>1, <3>1 DEF InTurn
    <3> QED BY <3>2 DEF JobRecord
  <2>3. queue = [jobs EXCEPT ![Len(jobs)] = last]
    BY <2>1
  <2>. HIDE DEF last, queue
  <2>4. /\ queue \in Seq(JobRecord) /\ Len(queue) = Len(jobs) /\ DOMAIN queue = DOMAIN jobs
        /\ \A i \in DOMAIN jobs : queue[i] = IF i = Len(jobs) THEN last ELSE jobs[i]
    <3>1. Len(jobs) \in 1..Len(jobs)
      BY <1>1, <2>1
    <3> QED BY <1>1, <2>2, <2>3, <3>1, ExceptSeq
  <2>5. \A i \in DOMAIN queue : queue[i].turn = jobs[i].turn
    BY <2>2, <2>4
  <2>6. DoneOf(queue, owes) = DoneOf(jobs, owed)
    BY <2>1, <2>4, <2>5 DEF DoneOf
  <2>7. InTurn(queue, owes)
    BY <2>2, <2>4, <2>1, <2>5, <2>6 DEF InTurn
  <2>8. Upto(jobs, owed, shown, published) => Upto(queue, owes, shown, published)
    BY <2>1, <2>6 DEF Upto
  <2>9. Busy => queue # <<>> /\ queue[1].value = request.value
    BY <1>1, <2>1, <2>4 DEF InFlight, Busy, TelemetryTyped
  <2> QED BY <1>1, <2>1, <2>4, <2>7, <2>8, <2>9 DEF TelemetryTyped, queue
<1>4. CASE ~Merges(kind)
  <2>1. Len(jobs) < MaxPending /\ queue = Append(jobs, job)
    BY <1>4 DEF Accepted, Enqueued
  <2>2. /\ job \in JobRecord /\ job.kind = kind /\ job.value = v
        /\ job.turn = IF kind = "ordered" THEN Len(owed) + 1 ELSE 0
    BY <1>1 DEF Job, JobRecord
  <2>. HIDE DEF job, queue
  <2>3. /\ queue \in Seq(JobRecord) /\ Len(queue) = Len(jobs) + 1 /\ DOMAIN queue = 1..(Len(jobs) + 1)
        /\ \A i \in DOMAIN jobs : queue[i] = jobs[i]
        /\ queue[Len(jobs) + 1] = job
    BY <1>1, <2>1, <2>2
  <2>4. /\ owes \in Seq(Values) /\ \A k \in DOMAIN owed : k \in DOMAIN owes /\ owes[k] = owed[k]
        /\ kind = "ordered" => DOMAIN owes = 1..(Len(owed) + 1) /\ owes[Len(owed) + 1] = v
        /\ kind # "ordered" => owes = owed
    <3>1. CASE kind = "ordered"
      BY <3>1, <1>1
    <3>2. CASE kind # "ordered"
      BY <1>1, <3>2
    <3> QED BY <3>1, <3>2
  <2>5. DoneOf(queue, owes) = DoneOf(jobs, owed)
    <3>1. ASSUME NEW k \in DoneOf(queue, owes) PROVE k \in DoneOf(jobs, owed)
      <4>1. k \in DOMAIN owed
        <5>1. k \in DOMAIN owes /\ k # job.turn
          BY <1>1, <2>3, <3>1 DEF DoneOf
        <5>2. CASE kind = "ordered"
          BY <2>2, <2>4, <5>1, <5>2, <1>1
        <5>3. CASE kind # "ordered"
          BY <2>4, <5>1, <5>3
        <5> QED BY <5>2, <5>3
      <4> QED BY <1>1, <2>3, <3>1, <4>1 DEF DoneOf
    <3>2. ASSUME NEW k \in DoneOf(jobs, owed) PROVE k \in DoneOf(queue, owes)
      <4>1. k \in DOMAIN owed /\ k # job.turn
        BY <1>1, <2>2, <3>2 DEF DoneOf
      <4>2. \A i \in DOMAIN queue : i \in DOMAIN jobs \/ i = Len(jobs) + 1
        BY <1>1, <2>3
      <4> QED BY <2>3, <2>4, <3>2, <4>1, <4>2 DEF DoneOf
    <3> QED BY <3>1, <3>2
  <2>6. \A i \in DOMAIN queue : i \in DOMAIN jobs \/ i = Len(jobs) + 1
    BY <1>1, <2>3
  <2>7. InTurn(queue, owes)
    <3>1. \A i \in DOMAIN queue : queue[i].kind = "steady" => queue[i].turn = 0
      BY <2>2, <2>3, <2>6 DEF InTurn
    <3>2. \A i \in DOMAIN queue : queue[i].turn = 0
              \/ (queue[i].turn \in DOMAIN owes /\ queue[i].value = owes[queue[i].turn])
      <4>1. \A i \in DOMAIN jobs : jobs[i].turn = 0
                \/ (jobs[i].turn \in DOMAIN owes /\ jobs[i].value = owes[jobs[i].turn])
        BY <2>4 DEF InTurn
      <4>2. job.turn = 0 \/ (job.turn \in DOMAIN owes /\ job.value = owes[job.turn])
        <5>1. CASE kind = "ordered"
          BY <1>1, <2>2, <5>1, <2>4
        <5>2. CASE kind # "ordered"
          BY <2>2, <5>2
        <5> QED BY <5>1, <5>2
      <4> QED BY <2>3, <2>6, <4>1, <4>2
    <3>3. \A i, n \in DOMAIN queue : i < n /\ queue[n].turn # 0 => queue[i].turn < queue[n].turn
      <4>. SUFFICES ASSUME NEW i \in DOMAIN queue, NEW n \in DOMAIN queue, i < n, queue[n].turn # 0
                    PROVE  queue[i].turn < queue[n].turn
        OBVIOUS
      <4>1. i \in DOMAIN jobs /\ queue[i] = jobs[i]
        BY <1>1, <2>3
      <4>2. CASE n \in DOMAIN jobs
        BY <2>3, <4>1, <4>2 DEF InTurn
      <4>3. CASE n = Len(jobs) + 1
        BY <1>1, <1>2, <2>2, <2>3, <4>1, <4>3 DEF InTurn
      <4> QED BY <2>6, <4>2, <4>3
    <3>4. \A i \in DOMAIN queue, k \in DoneOf(queue, owes) : queue[i].turn = 0 \/ k < queue[i].turn
      <4>1. \A k \in DoneOf(jobs, owed) : k \in 1..Len(owed)
        BY <1>1 DEF DoneOf
      <4> QED BY <1>1, <2>2, <2>3, <2>5, <2>6, <4>1 DEF InTurn
    <3> QED BY <3>1, <3>2, <3>3, <3>4 DEF InTurn
  <2>8. ASSUME Upto(jobs, owed, shown, published) PROVE Upto(queue, owes, shown, published)
    <3>1. PICK at, p : Embeds(at, p, DoneOf(jobs, owed), owed, shown, published)
      BY <2>8 DEF Upto
    <3>2. \A k \in DoneOf(jobs, owed) : owes[k] = owed[k]
      BY <2>4 DEF DoneOf
    <3>3. Embeds(at, p, DoneOf(queue, owes), owes, shown, published)
      BY <2>5, <3>1, <3>2 DEF Embeds
    <3> QED BY <3>3 DEF Upto
  <2>9. Busy => queue # <<>> /\ queue[1].value = request.value
    BY <1>1, <2>3 DEF TelemetryTyped
  <2>10. Len(queue) <= MaxPending
    BY <1>1, <2>1, <2>3, TelemetryAssumption
  <2> QED BY <2>3, <2>4, <2>7, <2>8, <2>9, <2>10 DEF queue
<1> QED BY <1>3, <1>4

\* What was told last is what is known from now on.
LEMMA KnownAnew ==
    ASSUME NEW queue, NEW owes \in Seq(Values), NEW tells \in Seq(Values), NEW known, NEW new,
           TellsAt(tells, Len(tells)) = new, Upto(queue, owes, tells, known)
    PROVE  Upto(queue, owes, tells, new)
<1>. DEFINE D == DoneOf(queue, owes)
<1>1. PICK at, p : Embeds(at, p, D, owes, tells, known)
  BY DEF Upto
<1>2. Len(tells) \in Nat /\ \A k \in D : at[k] \in 0..Len(tells)
  BY <1>1 DEF Embeds
<1>. HIDE DEF D
<1>3. Embeds(at, Len(tells), D, owes, tells, new)
  BY <1>1, <1>2 DEF Embeds
<1> QED BY <1>3 DEF Upto, D

\* One more value is told.
LEMMA TellingKeeps ==
    ASSUME NEW queue, NEW owes \in Seq(Values), NEW tells \in Seq(Values), NEW known, NEW v \in Values,
           Upto(queue, owes, tells, known)
    PROVE  Upto(queue, owes, Append(tells, v), known)
<1>. DEFINE D == DoneOf(queue, owes)
            more == Append(tells, v)
<1>1. PICK at, p : Embeds(at, p, D, owes, tells, known)
  BY DEF Upto
<1>2. Len(tells) \in Nat /\ Len(more) = Len(tells) + 1 /\ \A k \in 1..Len(tells) : more[k] = tells[k]
  OBVIOUS
<1>3. \A k \in 0..Len(tells) : k \in 0..Len(more) /\ TellsAt(more, k) = TellsAt(tells, k)
  BY <1>2 DEF TellsAt
<1>. HIDE DEF D, more
<1>4. at \in [D -> 0..Len(more)] /\ \A k \in D : at[k] \in 0..Len(tells)
  BY <1>1, <1>3 DEF Embeds
<1>5. Embeds(at, p, D, owes, more, known)
  BY <1>1, <1>3, <1>4 DEF Embeds
<1> QED BY <1>5 DEF Upto, D, more

\* The first job is done.
LEMMA JobDone ==
    ASSUME TelemetryTyped, InTurn(jobs, owed), Busy
    PROVE  /\ Tail(jobs) \in Seq(JobRecord) /\ Len(Tail(jobs)) <= MaxPending
           /\ InTurn(Tail(jobs), owed)
           /\ TellsAt(shown, Len(shown)) = request.value /\ Upto(jobs, owed, shown, published)
                  => Upto(Tail(jobs), owed, shown, request.value)
<1>1. /\ jobs \in Seq(JobRecord) /\ jobs # <<>> /\ jobs[1].value = request.value /\ Len(jobs) \in Nat
      /\ owed \in Seq(Values) /\ shown \in Seq(Values) /\ Len(jobs) <= MaxPending
  BY DEF TelemetryTyped
<1>0. PICK m \in 1..Len(jobs) + 1 : m = 2
  BY <1>1
<1>. DEFINE after == SubSeq(jobs, m, Len(jobs))
<1>2. Tail(jobs) = after
  BY <1>0, <1>1, TailIsSubSeq
<1>3. /\ after \in Seq(JobRecord) /\ Len(after) = Len(jobs) + 1 - m
      /\ InTurn(after, owed)
      /\ DoneOf(jobs, owed) \subseteq DoneOf(after, owed)
      /\ \A k \in DoneOf(after, owed) \ DoneOf(jobs, owed) :
             /\ \E i \in 1..(m - 1) : jobs[i].turn = k /\ owed[k] = jobs[i].value
             /\ \A n \in DoneOf(jobs, owed) : n < k
  BY <1>1, Shorter
<1>. HIDE DEF after
<1>4. Len(after) <= MaxPending
  BY <1>0, <1>1, <1>3, TelemetryAssumption
<1>5. ASSUME TellsAt(shown, Len(shown)) = request.value, Upto(jobs, owed, shown, published)
      PROVE  Upto(after, owed, shown, request.value)
  <2>1. Upto(jobs, owed, shown, request.value)
    BY <1>1, <1>5, KnownAnew
  <2>2. PICK at, p : Embeds(at, p, DoneOf(jobs, owed), owed, shown, request.value)
    BY <2>1 DEF Upto
  <2>3. \A k \in DoneOf(after, owed) \ DoneOf(jobs, owed) :
            owed[k] = request.value /\ \A n \in DoneOf(jobs, owed) : n < k
    BY <1>0, <1>1, <1>3
  <2>4. DoneOf(after, owed) \subseteq Nat
    BY <1>1 DEF DoneOf
  <2>5. \E a, q : Embeds(a, q, DoneOf(after, owed), owed, shown, request.value)
    BY <1>1, <1>3, <2>2, <2>3, <2>4, MoreDone
  <2> QED BY <2>5 DEF Upto
<1> QED BY <1>2, <1>3, <1>4, <1>5

\* The invariant holds at first.
LEMMA TelemetryBegins == TelemetryInit => TelemetryIInv
<1>. SUFFICES ASSUME TelemetryInit PROVE TelemetryIInv
  OBVIOUS
<1>1. TelemetryTyped
  <2>1. Nothing \in RequestRecord /\ Nothing \in AnswerRecord
    BY DEF RequestRecord, AnswerRecord, Nothing, Values
  <2>2. 0 \in Values /\ [value |-> 0, at |-> 0] \in [value : Values, at : Nat]
    BY DEF Values
  <2>3. jobs \in Seq(JobRecord) /\ Len(jobs) <= MaxPending /\ owed \in Seq(Values) /\ shown \in Seq(Values)
    BY TelemetryAssumption DEF TelemetryInit
  <2> QED BY <2>1, <2>2, <2>3 DEF TelemetryInit, TelemetryTyped, Busy
<1>2. InTurn(jobs, owed)
  BY DEF TelemetryInit, InTurn
<1>3. Tells
  BY DEF TelemetryInit, Tells, Nothing, Busy
<1>4. Upto(jobs, owed, shown, published)
  <2>1. DoneOf(jobs, owed) = {} /\ shown = <<>> /\ published = 0
    BY DEF TelemetryInit, DoneOf
  <2>2. Embeds([k \in {} |-> 0], 0, {}, owed, <<>>, 0)
    BY DEF Embeds, TellsAt
  <2> QED BY <2>1, <2>2 DEF Upto
<1> QED BY <1>1, <1>2, <1>3, <1>4 DEF TelemetryIInv

\* A step that leaves the queue, the belief and what was told.
LEMMA QueueStays ==
    ASSUME TelemetryIInv, UNCHANGED <<jobs, owed>>
    PROVE  /\ InTurn(jobs, owed)'
           /\ UNCHANGED <<shown, published>> /\ (~blurred' => ~blurred) => (~blurred => Upto(jobs, owed, shown, published))'
BY DEF TelemetryIInv

\* What the step keeps.
LEMMA RpcAppliedKeeps ==
    ASSUME TelemetryIInv, NEW v \in Values, RpcApplied(v)
    PROVE  TelemetryIInv'
<1>1. TelemetryTyped'
  <2>1. /\ request \in RequestRecord /\ answer \in AnswerRecord /\ Nothing \in RequestRecord /\ Nothing \in AnswerRecord
        /\ clock \in Nat /\ blurred \in BOOLEAN /\ request.value \in Values /\ answer.value \in Values
    BY DEF TelemetryIInv, TelemetryTyped, RequestRecord, AnswerRecord, Nothing, Values
  <2>2. request' \in RequestRecord
    BY <2>1 DEF RpcApplied, RequestRecord
  <2>3. answer' \in AnswerRecord /\ clock' \in Nat /\ blurred' \in BOOLEAN
    BY <2>1 DEF RpcApplied, AnswerRecord, Nothing
  <2>4. Busy' => request'.stage # "none" /\ Busy /\ request'.value = request.value
    BY <2>1 DEF RpcApplied, RequestRecord, Busy, Nothing, TelemetryIInv, TelemetryTyped
  <2>5. answer' = Nothing \/ answer'.stage # "none"
    BY <2>1 DEF RpcApplied, AnswerRecord, Nothing, TelemetryIInv, TelemetryTyped
  <2> QED BY <2>1, <2>2, <2>3, <2>4, <2>5 DEF TelemetryIInv, TelemetryTyped, RpcApplied
<1>2. Tells'
  BY DEF TelemetryIInv, TelemetryTyped, Tells, RpcApplied, RequestRecord, AnswerRecord, Nothing, Busy
<1>3. InTurn(jobs, owed)' /\ (~blurred => Upto(jobs, owed, shown, published))'
  BY QueueStays DEF RpcApplied
<1> QED BY <1>1, <1>2, <1>3 DEF TelemetryIInv

\* What the step keeps.
LEMMA TelemetryCheckedKeeps ==
    ASSUME TelemetryIInv, TelemetryChecked
    PROVE  TelemetryIInv'
<1>1. TelemetryTyped'
  <2>1. /\ request \in RequestRecord /\ answer \in AnswerRecord /\ Nothing \in RequestRecord /\ Nothing \in AnswerRecord
        /\ clock \in Nat /\ blurred \in BOOLEAN /\ request.value \in Values /\ answer.value \in Values
    BY DEF TelemetryIInv, TelemetryTyped, RequestRecord, AnswerRecord, Nothing, Values
  <2>2. request' \in RequestRecord
    BY <2>1 DEF TelemetryChecked, RequestRecord
  <2>3. answer' \in AnswerRecord /\ clock' \in Nat /\ blurred' \in BOOLEAN
    BY <2>1 DEF TelemetryChecked, AnswerRecord, Nothing
  <2>4. Busy' => request'.stage # "none" /\ Busy /\ request'.value = request.value
    BY <2>1 DEF TelemetryChecked, RequestRecord, Busy, Nothing, TelemetryIInv, TelemetryTyped
  <2>5. answer' = Nothing \/ answer'.stage # "none"
    BY <2>1 DEF TelemetryChecked, AnswerRecord, Nothing, TelemetryIInv, TelemetryTyped
  <2> QED BY <2>1, <2>2, <2>3, <2>4, <2>5 DEF TelemetryIInv, TelemetryTyped, TelemetryChecked
<1>2. Tells'
  BY DEF TelemetryIInv, TelemetryTyped, Tells, TelemetryChecked, RequestRecord, AnswerRecord, Nothing, Busy
<1>3. InTurn(jobs, owed)' /\ (~blurred => Upto(jobs, owed, shown, published))'
  BY QueueStays DEF TelemetryChecked
<1> QED BY <1>1, <1>2, <1>3 DEF TelemetryIInv

\* What the step keeps.
LEMMA TelemetryStoredKeeps ==
    ASSUME TelemetryIInv, TelemetryStored
    PROVE  TelemetryIInv'
<1>1. TelemetryTyped'
  <2>1. /\ request \in RequestRecord /\ answer \in AnswerRecord /\ Nothing \in RequestRecord /\ Nothing \in AnswerRecord
        /\ clock \in Nat /\ blurred \in BOOLEAN /\ request.value \in Values /\ answer.value \in Values
    BY DEF TelemetryIInv, TelemetryTyped, RequestRecord, AnswerRecord, Nothing, Values
  <2>2. request' \in RequestRecord
    BY <2>1 DEF TelemetryStored, RequestRecord
  <2>3. answer' \in AnswerRecord /\ clock' \in Nat /\ blurred' \in BOOLEAN
    BY <2>1 DEF TelemetryStored, AnswerRecord, Nothing
  <2>4. Busy' => request'.stage # "none" /\ Busy /\ request'.value = request.value
    BY <2>1 DEF TelemetryStored, RequestRecord, Busy, Nothing, TelemetryIInv, TelemetryTyped
  <2>5. answer' = Nothing \/ answer'.stage # "none"
    BY <2>1 DEF TelemetryStored, AnswerRecord, Nothing, TelemetryIInv, TelemetryTyped
  <2> QED BY <2>1, <2>2, <2>3, <2>4, <2>5 DEF TelemetryIInv, TelemetryTyped, TelemetryStored
<1>2. Tells'
  BY DEF TelemetryIInv, TelemetryTyped, Tells, TelemetryStored, RequestRecord, AnswerRecord, Nothing, Busy
<1>3. InTurn(jobs, owed)' /\ (~blurred => Upto(jobs, owed, shown, published))'
  BY QueueStays DEF TelemetryStored
<1> QED BY <1>1, <1>2, <1>3 DEF TelemetryIInv

\* What the step keeps.
LEMMA TelemetryFailsKeeps ==
    ASSUME TelemetryIInv, TelemetryFails
    PROVE  TelemetryIInv'
<1>1. TelemetryTyped'
  BY DEF TelemetryIInv, TelemetryTyped, RequestRecord, AnswerRecord, Nothing, Values, TelemetryFails,
     Busy
<1>2. Tells'
  BY DEF TelemetryIInv, TelemetryTyped, Tells, TelemetryFails, RequestRecord, AnswerRecord, Nothing, Busy
<1>3. InTurn(jobs, owed)' /\ (~blurred => Upto(jobs, owed, shown, published))'
  BY QueueStays DEF TelemetryFails
<1> QED BY <1>1, <1>2, <1>3 DEF TelemetryIInv

\* What the step keeps.
LEMMA AnswerCheckedKeeps ==
    ASSUME TelemetryIInv, AnswerChecked
    PROVE  TelemetryIInv'
<1>1. TelemetryTyped'
  <2>1. /\ request \in RequestRecord /\ answer \in AnswerRecord /\ Nothing \in RequestRecord /\ Nothing \in AnswerRecord
        /\ clock \in Nat /\ blurred \in BOOLEAN /\ request.value \in Values /\ answer.value \in Values
    BY DEF TelemetryIInv, TelemetryTyped, RequestRecord, AnswerRecord, Nothing, Values
  <2>2. request' \in RequestRecord
    BY <2>1 DEF AnswerChecked, RequestRecord
  <2>3. answer' \in AnswerRecord /\ clock' \in Nat /\ blurred' \in BOOLEAN
    BY <2>1 DEF AnswerChecked, AnswerRecord, Nothing
  <2>4. Busy' => request'.stage # "none" /\ Busy /\ request'.value = request.value
    BY <2>1 DEF AnswerChecked, RequestRecord, Busy, Nothing, TelemetryIInv, TelemetryTyped
  <2>5. answer' = Nothing \/ answer'.stage # "none"
    BY <2>1 DEF AnswerChecked, AnswerRecord, Nothing, TelemetryIInv, TelemetryTyped
  <2> QED BY <2>1, <2>2, <2>3, <2>4, <2>5 DEF TelemetryIInv, TelemetryTyped, AnswerChecked
<1>2. Tells'
  BY DEF TelemetryIInv, TelemetryTyped, Tells, AnswerChecked, RequestRecord, AnswerRecord, Nothing, Busy
<1>3. InTurn(jobs, owed)' /\ (~blurred => Upto(jobs, owed, shown, published))'
  BY QueueStays DEF AnswerChecked
<1> QED BY <1>1, <1>2, <1>3 DEF TelemetryIInv

\* What the step keeps.
LEMMA AnswerStoredKeeps ==
    ASSUME TelemetryIInv, AnswerStored
    PROVE  TelemetryIInv'
<1>1. TelemetryTyped'
  BY DEF TelemetryIInv, TelemetryTyped, RequestRecord, AnswerRecord, Nothing, Values, AnswerStored, Busy
<1>2. Tells'
  BY DEF TelemetryIInv, TelemetryTyped, Tells, AnswerStored, RequestRecord, AnswerRecord, Nothing, Busy
<1>3. InTurn(jobs, owed)' /\ (~blurred => Upto(jobs, owed, shown, published))'
  BY QueueStays DEF AnswerStored
<1> QED BY <1>1, <1>2, <1>3 DEF TelemetryIInv

\* What the step keeps.
LEMMA AnswerFailsKeeps ==
    ASSUME TelemetryIInv, AnswerFails
    PROVE  TelemetryIInv'
<1>1. TelemetryTyped'
  BY DEF TelemetryIInv, TelemetryTyped, RequestRecord, AnswerRecord, Nothing, Values, AnswerFails, Busy
<1>2. Tells'
  BY DEF TelemetryIInv, TelemetryTyped, Tells, AnswerFails, RequestRecord, AnswerRecord, Nothing, Busy
<1>3. InTurn(jobs, owed)' /\ (~blurred => Upto(jobs, owed, shown, published))'
  BY QueueStays DEF AnswerFails
<1> QED BY <1>1, <1>2, <1>3 DEF TelemetryIInv

\* What the step keeps.
LEMMA LeaseLostKeeps ==
    ASSUME TelemetryIInv, LeaseLost
    PROVE  TelemetryIInv'
<1>1. TelemetryTyped'
  <2>1. /\ request \in RequestRecord /\ answer \in AnswerRecord /\ Nothing \in RequestRecord /\ Nothing \in AnswerRecord
        /\ clock \in Nat /\ blurred \in BOOLEAN /\ request.value \in Values /\ answer.value \in Values
    BY DEF TelemetryIInv, TelemetryTyped, RequestRecord, AnswerRecord, Nothing, Values
  <2>2. request' \in RequestRecord
    BY <2>1 DEF LeaseLost, RequestRecord
  <2>3. answer' \in AnswerRecord /\ clock' \in Nat /\ blurred' \in BOOLEAN
    BY <2>1 DEF LeaseLost, AnswerRecord, Nothing
  <2>4. Busy' => request'.stage # "none" /\ Busy /\ request'.value = request.value
    BY <2>1 DEF LeaseLost, RequestRecord, Busy, Nothing, TelemetryIInv, TelemetryTyped
  <2>5. answer' = Nothing \/ answer'.stage # "none"
    BY <2>1 DEF LeaseLost, AnswerRecord, Nothing, TelemetryIInv, TelemetryTyped
  <2> QED BY <2>1, <2>2, <2>3, <2>4, <2>5 DEF TelemetryIInv, TelemetryTyped, LeaseLost
<1>2. Tells'
  BY DEF TelemetryIInv, TelemetryTyped, Tells, LeaseLost, RequestRecord, AnswerRecord, Nothing, Busy
<1>3. InTurn(jobs, owed)' /\ (~blurred => Upto(jobs, owed, shown, published))'
  BY QueueStays DEF LeaseLost
<1> QED BY <1>1, <1>2, <1>3 DEF TelemetryIInv

\* What the step keeps.
LEMMA LeaseReturnsKeeps ==
    ASSUME TelemetryIInv, LeaseReturns
    PROVE  TelemetryIInv'
<1>1. TelemetryTyped'
  <2>1. /\ request \in RequestRecord /\ answer \in AnswerRecord /\ Nothing \in RequestRecord /\ Nothing \in AnswerRecord
        /\ clock \in Nat /\ blurred \in BOOLEAN /\ request.value \in Values /\ answer.value \in Values
    BY DEF TelemetryIInv, TelemetryTyped, RequestRecord, AnswerRecord, Nothing, Values
  <2>2. request' \in RequestRecord
    BY <2>1 DEF LeaseReturns, RequestRecord
  <2>3. answer' \in AnswerRecord /\ clock' \in Nat /\ blurred' \in BOOLEAN
    BY <2>1 DEF LeaseReturns, AnswerRecord, Nothing
  <2>4. Busy' => request'.stage # "none" /\ Busy /\ request'.value = request.value
    BY <2>1 DEF LeaseReturns, RequestRecord, Busy, Nothing, TelemetryIInv, TelemetryTyped
  <2>5. answer' = Nothing \/ answer'.stage # "none"
    BY <2>1 DEF LeaseReturns, AnswerRecord, Nothing, TelemetryIInv, TelemetryTyped
  <2> QED BY <2>1, <2>2, <2>3, <2>4, <2>5 DEF TelemetryIInv, TelemetryTyped, LeaseReturns
<1>2. Tells'
  BY DEF TelemetryIInv, TelemetryTyped, Tells, LeaseReturns, RequestRecord, AnswerRecord, Nothing, Busy
<1>3. InTurn(jobs, owed)' /\ (~blurred => Upto(jobs, owed, shown, published))'
  BY QueueStays DEF LeaseReturns
<1> QED BY <1>1, <1>2, <1>3 DEF TelemetryIInv

\* What the step keeps.
LEMMA PollTellsKeeps ==
    ASSUME TelemetryIInv, PollTells
    PROVE  TelemetryIInv'
<1>1. TelemetryTyped'
  <2>1. /\ request \in RequestRecord /\ answer \in AnswerRecord /\ Nothing \in RequestRecord /\ Nothing \in AnswerRecord
        /\ clock \in Nat /\ blurred \in BOOLEAN /\ request.value \in Values /\ answer.value \in Values
    BY DEF TelemetryIInv, TelemetryTyped, RequestRecord, AnswerRecord, Nothing, Values
  <2>2. request' \in RequestRecord
    BY <2>1 DEF PollTells, RequestRecord
  <2>3. answer' \in AnswerRecord /\ clock' \in Nat /\ blurred' \in BOOLEAN
    BY <2>1 DEF PollTells, AnswerRecord, Nothing
  <2>4. Busy' => request'.stage # "none" /\ Busy /\ request'.value = request.value
    BY <2>1 DEF PollTells, RequestRecord, Busy, Nothing, TelemetryIInv, TelemetryTyped
  <2>5. answer' = Nothing \/ answer'.stage # "none"
    BY <2>1 DEF PollTells, AnswerRecord, Nothing, TelemetryIInv, TelemetryTyped
  <2> QED BY <2>1, <2>2, <2>3, <2>4, <2>5 DEF TelemetryIInv, TelemetryTyped, PollTells
<1>2. Tells'
  BY DEF TelemetryIInv, TelemetryTyped, Tells, PollTells, RequestRecord, AnswerRecord, Nothing, Busy
<1>3. InTurn(jobs, owed)' /\ (~blurred => Upto(jobs, owed, shown, published))'
  BY QueueStays DEF PollTells
<1> QED BY <1>1, <1>2, <1>3 DEF TelemetryIInv

\* What was told last.
LEMMA ToldLast ==
    ASSUME NEW tells \in Seq(Values), NEW v \in Values
    PROVE  Append(tells, v) \in Seq(Values) /\ TellsAt(Append(tells, v), Len(Append(tells, v))) = v
BY DEF TellsAt

\* What the steps of requests and answers are about.
LEMMA Facts ==
    ASSUME TelemetryTyped
    PROVE  /\ request \in RequestRecord /\ answer \in AnswerRecord /\ Nothing \in RequestRecord /\ Nothing \in AnswerRecord
           /\ clock \in Nat /\ blurred \in BOOLEAN /\ upstream.at \in Nat
           /\ request.value \in Values /\ answer.value \in Values /\ request.at \in Nat /\ answer.at \in Nat
           /\ owed \in Seq(Values) /\ shown \in Seq(Values) /\ jobs \in Seq(JobRecord)
BY DEF TelemetryTyped, RequestRecord, AnswerRecord, Nothing, Values

\* A value is told, of a request, an answer, or by another page.
LEMMA ToldKeeps ==
    ASSUME TelemetryIInv, NEW v \in Values, NEW t \in Nat, Told(v, t), UNCHANGED <<jobs, owed, published>>,
           ~blurred' => ~blurred
    PROVE  /\ shown' \in Seq(Values) /\ TellsAt(shown', Len(shown')) = v
           /\ upstream' \in [value : Values, at : Nat]
           /\ upstream'.at = IF t >= upstream.at THEN t ELSE upstream.at
           /\ InTurn(jobs, owed)' /\ (~blurred => Upto(jobs, owed, shown, published))'
BY Facts, ToldLast, TellingKeeps DEF TelemetryIInv, Told, TelemetryTyped

\* What the step keeps.
LEMMA TelemetryPublishedKeeps ==
    ASSUME TelemetryIInv, TelemetryPublished
    PROVE  TelemetryIInv'
<1>1. TelemetryTyped /\ Tells /\ request.stage = "checked" /\ Busy
  BY DEF TelemetryIInv, TelemetryPublished, Busy, Nothing
<1>2. /\ Told(request.value, request.at) /\ request' = [request EXCEPT !.stage = "published"]
      /\ UNCHANGED <<value, published, jobs, answer, active, holder, snapshot, owed, clock, blurred, rest>>
  BY DEF TelemetryPublished
<1>3. /\ shown' \in Seq(Values) /\ TellsAt(shown', Len(shown')) = request.value
      /\ upstream' \in [value : Values, at : Nat]
      /\ upstream'.at = IF request.at >= upstream.at THEN request.at ELSE upstream.at
      /\ InTurn(jobs, owed)' /\ (~blurred => Upto(jobs, owed, shown, published))'
  BY <1>1, <1>2, Facts, ToldKeeps
<1>4. request' \in RequestRecord /\ request'.stage = "published" /\ request'.value = request.value /\ request'.at = request.at
  BY <1>1, <1>2, Facts DEF RequestRecord
<1>5. TelemetryTyped'
  BY <1>1, <1>2, <1>3, <1>4 DEF TelemetryTyped, Busy
<1>6. Tells'
  BY <1>1, <1>2, <1>3, <1>4, Facts DEF Tells, Busy, Nothing
<1> QED BY <1>3, <1>5, <1>6 DEF TelemetryIInv

\* What the step keeps.
LEMMA AnswerPublishedKeeps ==
    ASSUME TelemetryIInv, AnswerPublished
    PROVE  TelemetryIInv'
<1>1. TelemetryTyped /\ Tells /\ answer.stage = "checked" /\ answer # Nothing
  BY DEF TelemetryIInv, AnswerPublished, Nothing
<1>2. /\ answer' = [answer EXCEPT !.stage = "published", !.told = TRUE]
      /\ blurred' = (blurred \/ Busy)
      /\ UNCHANGED <<value, published, jobs, request, active, holder, snapshot, owed, clock, rest>>
  BY DEF AnswerPublished
<1>3. /\ answer' \in AnswerRecord /\ answer'.stage = "published" /\ answer'.value = answer.value
      /\ answer'.at = answer.at /\ answer'.told
  BY <1>1, <1>2, Facts DEF AnswerRecord
<1>4. CASE answer.told
  <2>1. UNCHANGED <<shown, upstream>>
    BY <1>4 DEF AnswerPublished
  <2>2. TelemetryTyped'
    BY <1>1, <1>2, <1>3, <2>1 DEF TelemetryTyped, Busy
  <2>3. Tells'
    BY <1>1, <1>2, <1>3, <1>4, <2>1, Facts DEF Tells, Busy, Nothing
  <2>4. InTurn(jobs, owed)' /\ (~blurred => Upto(jobs, owed, shown, published))'
    BY <1>2, <2>1, QueueStays
  <2> QED BY <2>2, <2>3, <2>4 DEF TelemetryIInv
<1>5. CASE ~answer.told
  <2>1. Told(answer.value, answer.at)
    BY <1>5 DEF AnswerPublished
  <2>2. /\ shown' \in Seq(Values) /\ TellsAt(shown', Len(shown')) = answer.value
        /\ upstream' \in [value : Values, at : Nat]
        /\ upstream'.at = IF answer.at >= upstream.at THEN answer.at ELSE upstream.at
        /\ InTurn(jobs, owed)' /\ (~blurred => Upto(jobs, owed, shown, published))'
    BY <1>1, <1>2, <2>1, Facts, ToldKeeps
  <2>3. TelemetryTyped'
    BY <1>1, <1>2, <1>3, <2>2 DEF TelemetryTyped, Busy
  <2>4. Tells'
    <3>1. /\ UNCHANGED <<request, clock>> /\ (blurred' <=> blurred \/ Busy) /\ answer'.at = answer.at /\ answer'.told
          /\ answer'.value = answer.value /\ (Busy' <=> Busy)
      BY <1>2, <1>3 DEF Busy
    <3>2. /\ request.at <= clock /\ answer.at <= clock /\ upstream.at <= clock
          /\ Busy => request.at # answer.at
          /\ answer.at \in Nat /\ upstream.at \in Nat /\ clock \in Nat
      BY <1>1, Facts DEF Tells
    <3>3. upstream'.at <= clock /\ answer.at <= upstream'.at
      BY <2>2, <3>2
    <3>4. ~Busy => request.stage = "none"
      BY DEF Busy, Nothing
    <3>5. TellsAt(shown, Len(shown))' = answer.value
      BY <2>2 DEF TellsAt
    <3> QED BY <3>1, <3>2, <3>3, <3>4, <3>5 DEF Tells
  <2> QED BY <2>2, <2>3, <2>4 DEF TelemetryIInv
<1> QED BY <1>4, <1>5

\* What the step keeps.
LEMMA OtherPublishesKeeps ==
    ASSUME TelemetryIInv, NEW v \in Values, OtherPublishes(v)
    PROVE  TelemetryIInv'
BY Facts, ToldKeeps DEF TelemetryIInv, OtherPublishes, TelemetryTyped, Busy, Tells, Nothing

\* What the step keeps.
LEMMA AnswerDeliveredKeeps ==
    ASSUME TelemetryIInv, AnswerDelivered
    PROVE  TelemetryIInv'
<1>1. TelemetryTyped /\ Tells /\ answer.stage = "stored" /\ answer # Nothing /\ InTurn(jobs, owed)
      /\ (~blurred => Upto(jobs, owed, shown, published))
  BY DEF TelemetryIInv, AnswerDelivered, Nothing
<1>2. /\ published' = answer.value /\ answer' = Nothing /\ blurred' = (blurred \/ Busy \/ upstream.at # answer.at)
      /\ UNCHANGED <<value, jobs, request, holder, upstream, snapshot, shown, owed, clock, rest>>
  BY DEF AnswerDelivered
<1>3. TelemetryTyped'
  BY <1>1, <1>2, Facts DEF TelemetryTyped, Busy
<1>4. Tells'
  BY <1>1, <1>2, Facts DEF Tells, Busy, Nothing
<1>5. InTurn(jobs', owed')
  BY <1>1, <1>2
<1>6. ~blurred' => TellsAt(shown, Len(shown)) = answer.value /\ ~blurred
  BY <1>1, <1>2 DEF Tells
<1>7. ~blurred' => Upto(jobs, owed, shown, answer.value)
  BY <1>1, <1>6, Facts, KnownAnew
<1>8. ~blurred' => Upto(jobs', owed', shown', published')
  BY <1>2, <1>7
<1> QED BY <1>3, <1>4, <1>5, <1>8 DEF TelemetryIInv

\* A drain, with what the step does besides.
LEMMA DrainedKeeps ==
    ASSUME TelemetryIInv, NEW queue \in Seq(JobRecord), Len(queue) <= MaxPending, NEW owes \in Seq(Values),
           NEW known \in Values, NEW may \in BOOLEAN, InTurn(queue, owes), Drain(queue, known, may),
           ~blurred => Upto(queue, owes, shown, known),
           ~may => (Busy => queue # <<>> /\ queue[1].value = request.value),
           may => ~Busy \/ request.stage = "stored",
           owed' = owes, published' = known, value' \in Values, UNCHANGED <<answer, upstream, snapshot, shown, blurred>>
    PROVE  TelemetryIInv'
<1>1. TelemetryTyped /\ Tells
  BY DEF TelemetryIInv
<1>2. PICK left \in Seq(JobRecord), r \in RequestRecord, c \in {clock, clock + 1} :
               /\ jobs' = left /\ Len(left) <= MaxPending
               /\ request' = r /\ clock' = c
               /\ InTurn(left, owes)
               /\ Upto(queue, owes, shown, known) => Upto(left, owes, shown, known)
               /\ ~may => left = queue /\ r = request /\ c = clock
               /\ may => \/ r = Nothing /\ c = clock
                         \/ /\ c = clock + 1 /\ r.stage = "sent" /\ r.at = c
                            /\ left # <<>> /\ left[1].value = r.value
  BY <1>1, DrainKeeps
<1>3. InTurn(jobs', owed')
  BY <1>2
<1>4. ~blurred' => Upto(jobs', owed', shown', published')
  BY <1>2
<1>5. c \in Nat
  BY <1>1, Facts
<1>6. TelemetryTyped'
  BY <1>1, <1>2, <1>5 DEF TelemetryTyped, Busy
<1>7. Tells'
  <2>1. CASE r = request /\ c = clock
    BY <1>1, <1>2, <2>1 DEF Tells, Busy
  <2>2. CASE r = Nothing /\ c = clock
    BY <1>1, <1>2, <2>2, Facts DEF Tells, Busy, Nothing
  <2>3. CASE c = clock + 1 /\ r.stage = "sent" /\ r.at = c
    BY <1>1, <1>2, <2>3, Facts DEF Tells
  <2> QED BY <1>2, <2>1, <2>2, <2>3
<1> QED BY <1>3, <1>4, <1>6, <1>7 DEF TelemetryIInv

\* What the step keeps.
LEMMA TelemetryAnsweredKeeps ==
    ASSUME TelemetryIInv, TelemetryAnswered
    PROVE  TelemetryIInv'
<1>1. TelemetryTyped /\ Tells /\ InTurn(jobs, owed) /\ (~blurred => Upto(jobs, owed, shown, published))
      /\ request.stage = "stored" /\ Busy
  BY DEF TelemetryIInv, TelemetryAnswered, Busy, Nothing
<1>2. /\ published' = request.value /\ Drain(Tail(jobs), request.value, TRUE)
      /\ UNCHANGED <<value, answer, holder, upstream, snapshot, shown, owed, blurred, rest>>
  BY DEF TelemetryAnswered
<1>3. /\ Tail(jobs) \in Seq(JobRecord) /\ Len(Tail(jobs)) <= MaxPending
      /\ InTurn(Tail(jobs), owed)
      /\ TellsAt(shown, Len(shown)) = request.value /\ Upto(jobs, owed, shown, published)
             => Upto(Tail(jobs), owed, shown, request.value)
  BY <1>1, JobDone
<1>4. ~blurred => Upto(Tail(jobs), owed, shown, request.value)
  BY <1>1, <1>3 DEF Tells
<1>5. value' \in Values
  BY <1>1, <1>2 DEF TelemetryTyped
<1> QED BY <1>1, <1>2, <1>3, <1>4, <1>5, Facts, DrainedKeeps

\* What the step keeps.
LEMMA ChangeKeeps ==
    ASSUME TelemetryIInv, NEW v \in Values, NEW kind \in {"steady", "ordered"},
           UNCHANGED <<published, answer, upstream, snapshot, shown, blurred>>, value' \in Values,
           owed' = IF kind = "ordered" /\ Accepted(kind) THEN Append(owed, v) ELSE owed,
           IF Accepted(kind) THEN Drain(Enqueued(kind, v), published, MayDrain)
           ELSE UNCHANGED <<jobs, request, clock>>
    PROVE  TelemetryIInv'
<1>1. TelemetryTyped /\ Tells /\ InTurn(jobs, owed) /\ (~blurred => Upto(jobs, owed, shown, published))
  BY DEF TelemetryIInv
<1>2. CASE Accepted(kind)
  <2>. DEFINE queue == Enqueued(kind, v)
              owes == IF kind = "ordered" THEN Append(owed, v) ELSE owed
              may == IF MayDrain THEN TRUE ELSE FALSE
  <2>1. /\ owes \in Seq(Values)
        /\ queue \in Seq(JobRecord) /\ Len(queue) <= MaxPending
        /\ InTurn(queue, owes)
        /\ Upto(jobs, owed, shown, published) => Upto(queue, owes, shown, published)
        /\ Busy => queue # <<>> /\ queue[1].value = request.value
    BY <1>1, <1>2, EnqueuedKeeps
  <2>2. Drain(queue, published, may) /\ owed' = owes
    BY <1>2 DEF Drain
  <2>3. may => ~Busy
    BY DEF MayDrain
  <2>4. may \in BOOLEAN /\ published \in Values
    BY <1>1 DEF TelemetryTyped
  <2>. HIDE DEF queue, owes, may
  <2> QED BY <1>1, <2>1, <2>2, <2>3, <2>4, DrainedKeeps
<1>3. CASE ~Accepted(kind)
  BY <1>3, <1>1, QueueStays DEF TelemetryTyped, Busy, Tells, TelemetryIInv
<1> QED BY <1>2, <1>3

\* Every step keeps the invariant.
LEMMA TelemetryKeeps == TelemetryIInv /\ [TelemetryNext]_telemetryVars => TelemetryIInv'
<1>. SUFFICES ASSUME TelemetryIInv, [TelemetryNext]_telemetryVars PROVE TelemetryIInv'
  OBVIOUS
<1>0. TelemetryTyped /\ Tells /\ InTurn(jobs, owed) /\ (~blurred => Upto(jobs, owed, shown, published))
  BY DEF TelemetryIInv
<1>1. CASE UNCHANGED telemetryVars
  BY <1>0, <1>1, QueueStays DEF TelemetryTyped, Busy, telemetryVars, Tells, TelemetryIInv
<1>2. ASSUME NEW v \in Values, NEW kind \in {"steady", "ordered"}, Change(v, kind) PROVE TelemetryIInv'
  BY <1>2, ChangeKeeps DEF Change
<1>3. CASE Publish
  <2>1. /\ Drain(Enqueued("steady", value), published, MayDrain)
        /\ UNCHANGED <<value, published, answer, upstream, snapshot, shown, owed, blurred>> /\ value \in Values
    BY <1>0, <1>3 DEF Publish, TelemetryTyped
  <2>2. CASE Accepted("steady")
    BY <2>1, <2>2, ChangeKeeps
  <2>3. CASE ~Accepted("steady")
    <3>. DEFINE may == IF MayDrain THEN TRUE ELSE FALSE
    <3>1. Enqueued("steady", value) = jobs
      BY <2>3 DEF Enqueued, Accepted
    <3>2. Drain(jobs, published, may) /\ may \in BOOLEAN
      BY <2>1, <3>1 DEF Drain
    <3>3. /\ jobs \in Seq(JobRecord) /\ Len(jobs) <= MaxPending /\ owed \in Seq(Values) /\ published \in Values
          /\ (Busy => jobs # <<>> /\ jobs[1].value = request.value)
      BY <1>0 DEF TelemetryTyped
    <3>4. may => ~Busy
      BY DEF MayDrain
    <3>5. owed' = owed /\ published' = published /\ value' \in Values /\ UNCHANGED <<answer, upstream, snapshot, shown, blurred>>
      BY <2>1
    <3>. HIDE DEF may
    <3> QED BY <1>0, <3>2, <3>3, <3>4, <3>5, DrainedKeeps
  <2> QED BY <2>2, <2>3
<1>4. CASE RequestStep \/ TelemetryFails
  BY <1>4, TelemetryCheckedKeeps, TelemetryPublishedKeeps, TelemetryStoredKeeps, TelemetryAnsweredKeeps, TelemetryFailsKeeps
     DEF RequestStep
<1>5. CASE AnswerStep \/ AnswerFails
  BY <1>5, AnswerCheckedKeeps, AnswerPublishedKeeps, AnswerStoredKeeps, AnswerDeliveredKeeps, AnswerFailsKeeps DEF AnswerStep
<1>6. CASE (\E v \in Values : RpcApplied(v) \/ OtherPublishes(v)) \/ LeaseLost \/ LeaseReturns \/ PollTells
  BY <1>6, RpcAppliedKeeps, OtherPublishesKeeps, LeaseLostKeeps, LeaseReturnsKeeps, PollTellsKeeps
<1> QED BY <1>1, <1>2, <1>3, <1>4, <1>5, <1>6 DEF TelemetryNext

\* The invariant implies what the run checks.
LEMMA TelemetryHolds == TelemetryIInv => TelemetryInv
<1>. SUFFICES ASSUME TelemetryIInv PROVE TelemetryInv
  OBVIOUS
<1>1. TelemetryTyped /\ InTurn(jobs, owed) /\ (~blurred => Upto(jobs, owed, shown, published))
  BY DEF TelemetryIInv
<1>2. TelemetryTypeOK
  <2>. DEFINE Records == [kind : {"steady", "ordered"}, value : Values, turn : 0..Len(owed)]
  <2>1. /\ jobs \in Seq(JobRecord) /\ owed \in Seq(Values) /\ DOMAIN owed = 1..Len(owed) /\ Len(owed) \in Nat
        /\ DOMAIN jobs = 1..Len(jobs) /\ Len(jobs) \in Nat
    BY <1>1 DEF TelemetryTyped
  <2>2. ASSUME NEW i \in DOMAIN jobs PROVE jobs[i] \in Records
    <3>1. jobs[i] \in JobRecord /\ (jobs[i].turn = 0 \/ jobs[i].turn \in DOMAIN owed)
      BY <1>1, <2>1 DEF InTurn
    <3>2. jobs[i].turn \in 0..Len(owed)
      BY <2>1, <3>1
    <3> QED BY <3>1, <3>2 DEF JobRecord
  <2>3. jobs \in [1..Len(jobs) -> Records]
    BY <2>1, <2>2
  <2>. HIDE DEF Records
  <2>4. jobs \in Seq(Records)
    BY <2>1, <2>3
  <2> QED BY <1>1, <2>4 DEF TelemetryTypeOK, TelemetryTyped, Records
<1>3. PulsesAreSeen
  BY <1>1 DEF Upto, DoneOf, Done, Embeds, TellsAt, ShownAt, PulsesAreSeen
<1> QED BY <1>2, <1>3 DEF TelemetryInv

\* A page's ordered changes: for any changes, RPCs, failures, takeovers and
\* other writers, no pulse is merged away or dropped before ThingsBoard was told
\* of it, in order, unless the page's belief was upset
\* (simulation-telemetry-queue.js, the drain of RuntimeApp.jsx).
THEOREM PulsesReachThingsBoard == TelemetrySpec => []TelemetryInv
<1>1. TelemetryInit => TelemetryIInv
  BY TelemetryBegins
<1>2. TelemetryIInv /\ [TelemetryNext]_telemetryVars => TelemetryIInv'
  BY TelemetryKeeps
<1>3. TelemetryIInv => TelemetryInv
  BY TelemetryHolds
<1> QED BY <1>1, <1>2, <1>3, PTL DEF TelemetrySpec

-----------------------------------------------------------------------------
(***************************************************************************)
(* The commands of a Simulation project.  The documents and the calls that *)
(* wait for them fit (DocsIInv); an AUTO command is in the hands of one    *)
(* call, or of one page that waits, and its steps so far are those before  *)
(* the next (RunsIInv); what the only page shows is what the documents     *)
(* say, but for the call that is about to change it (ShownIInv).           *)
(***************************************************************************)
Document(u) ==
    [user : {u[p] : p \in DOMAIN u}, of : Buttons \cup {"shifter"},
     status : {"requested", "authorized", "dispatched", "acknowledged"},
     value : Modes \cup {"on", "off"}, op : Nat, run : Nat, step : Nat, audited : BOOLEAN, late : BOOLEAN]

Stages == {"done", "read", "create", "authorized", "audit", "dispatched", "acknowledged", "conclude",
           "check", "record", "answered"}

HttpCall(u) ==
    [pc : Stages, page : ControlPages \cup {Nobody}, user : {u[p] : p \in DOMAIN u} \cup {Nobody},
     what : {"none", "shift", "start", "press", "step"}, of : Buttons \cup {"shifter", "none"},
     arg : Modes \cup {"none"}, op : Nat, run : Nat, step : Nat, doc : Nat,
     value : Modes \cup {"on", "off", "none"}, ok : BOOLEAN]

RunRecord == [op : Nat, id : Nat, step : Nat, waits : BOOLEAN]

Lights == [Buttons -> {"on", "off"}]
Pendings == SUBSET (Buttons \cup {"shifter"})
View == [mode : Modes, lit : Lights, pending : Pendings, run : RunRecord]

\* The outcome of a call is stored; its document has been created.
Concluded(x) == x.pc = "conclude" \/ (x.pc = "answered" /\ x.ok)

Saved(x) ==
    /\ x.what \in {"shift", "press"}
    /\ x.pc \in {"authorized", "audit", "dispatched", "acknowledged"} \/ Concluded(x)

\* What a call under way is like.
Shaped(u, x) ==
    /\ x.page \in DOMAIN u \cup {Nobody} /\ x.user \in {u[p] : p \in DOMAIN u}
    /\ x.page # Nobody => x.user = u[x.page]
    /\ x.pc = "answered" => x.page # Nobody
    /\ \/ x.what = "shift" /\ x.of = "shifter" /\ x.arg \in Modes /\ x.pc \notin {"check", "record"}
       \/ x.what = "press" /\ x.of \in Buttons /\ x.pc \notin {"check", "record"}
       \/ x.what = "start" /\ x.of = "shifter" /\ x.pc \in {"check", "conclude", "answered"}
       \/ /\ x.what = "step" /\ x.step \in DOMAIN Recipe /\ x.of = Recipe[x.step].button
          /\ x.pc \in {"check", "record", "conclude", "answered"}

\* A call and its document.
Describes(h, x) ==
    /\ x.pc = "create" \/ Saved(x) =>
           (x.what = "shift" /\ x.value = x.arg) \/ (x.what = "press" /\ x.value \in {"on", "off"})
    /\ x.what = "step" /\ Concluded(x) => x.value = Recipe[x.step].value
    /\ Saved(x) =>
           /\ x.doc \in DOMAIN h
           /\ h[x.doc].user = x.user /\ h[x.doc].of = x.of /\ h[x.doc].value = x.value /\ h[x.doc].step = 0
           /\ h[x.doc].status = "acknowledged" <=> Concluded(x)
           /\ x.pc \in {"dispatched", "acknowledged"} \/ Concluded(x) => h[x.doc].audited

Sound(u, h, x) == IF x.pc # "done" THEN Shaped(u, x) /\ Describes(h, x) ELSE x = NoCall

Served(u, h, c) ==
    /\ c \in Seq(HttpCall(u))
    /\ \A i \in DOMAIN c : Sound(u, h, c[i])
    /\ \A i, j \in DOMAIN c : Saved(c[i]) /\ Saved(c[j]) /\ c[i].doc = c[j].doc => i = j

Plain(d) ==
    /\ d.of = "shifter" => d.value \in Modes /\ d.step = 0
    /\ d.of # "shifter" => d.value \in {"on", "off"}
    /\ d.step > 0 => d.status = "acknowledged"
    /\ d.status = "acknowledged" /\ d.step = 0 => d.audited

Booked(u, h) == h \in Seq(Document(u)) /\ \A j \in DOMAIN h : Plain(h[j])

DocsIInv ==
    /\ "users" \in DOMAIN supply /\ OpenPages \subseteq ControlPages
    /\ Booked(supply.users, history) /\ Served(supply.users, history, calls)
    /\ screen \in [ControlPages -> View]
    /\ crossed \subseteq Buttons /\ strayed \in BOOLEAN

-----------------------------------------------------------------------------
\* The steps of an AUTO command.
Taken(h, o) == {l \in DOMAIN h : h[l].step > 0 /\ h[l].op = o}

Follows(h, o, r, k) ==
    /\ Cardinality(Taken(h, o)) + 1 = k
    /\ \A l \in Taken(h, o) : h[l].step < k /\ h[l].run = r

Granted(h, o, u) ==
    /\ o \in DOMAIN h /\ h[o].status = "acknowledged"
    /\ h[o].of = "shifter" /\ h[o].value = "auto" /\ h[o].user = u

Superseded(h, o, u) ==
    \E a \in DOMAIN h : a > o /\ h[a].status = "acknowledged" /\ h[a].of = "shifter" /\ h[a].user = u

\* A call has the steps before its own behind it.
Backed(h, x) ==
    /\ x.what = "shift" /\ Saved(x) => Taken(h, x.doc) = {}
    /\ x.what \in {"start", "step"} => Granted(h, x.op, x.user)
    /\ x.what = "start" => Taken(h, x.op) = {}
    /\ x.what = "step" /\ x.pc \in {"check", "record"} => Follows(h, x.op, x.run, x.step)
    /\ x.what = "step" /\ Concluded(x) => Follows(h, x.op, x.run, x.step + 1)
    /\ x.what = "step" /\ x.pc = "record" => \A l \in Taken(h, x.op) : ~h[l].late

Goes(h, u, p, r) ==
    r # NoRun => /\ p \in DOMAIN u /\ Granted(h, r.op, u[p]) /\ r.step \in DOMAIN Recipe
                 /\ r.waits => Follows(h, r.op, r.id, r.step)

\* An AUTO command is in the hands of one call or of one page that waits.
Bearing(x) == (x.what = "shift" /\ Saved(x)) \/ x.what \in {"start", "step"}
Borne(x) == IF x.what = "shift" THEN x.doc ELSE x.op

OneBears(c, s) ==
    /\ \A i, j \in DOMAIN c : Bearing(c[i]) /\ Bearing(c[j]) /\ Borne(c[i]) = Borne(c[j]) => i = j
    /\ \A p, q \in ControlPages : s[p].run.waits /\ s[q].run.waits /\ s[p].run.op = s[q].run.op => p = q
    /\ \A p \in ControlPages, i \in DOMAIN c : s[p].run.waits /\ Bearing(c[i]) => s[p].run.op # Borne(c[i])

\* A page waits for its step and for its shifter.
Minded(c, s) ==
    \A i \in DOMAIN c :
        c[i].page # Nobody =>
            /\ c[i].what = "step" =>
                  s[c[i].page].run = [op |-> c[i].op, id |-> c[i].run, step |-> c[i].step, waits |-> FALSE]
            /\ c[i].of = "shifter" =>
                  /\ "shifter" \in s[c[i].page].pending
                  /\ \A j \in DOMAIN c : c[j].page = c[i].page /\ c[j].of = "shifter" => i = j

Shown(s) == \A p \in ControlPages : s[p].run # NoRun => s[p].mode = "auto" /\ "shifter" \notin s[p].pending

\* The runs there are, each with its AUTO command.
Pairs(h, c, s) ==
    {<<h[j].run, h[j].op>> : j \in {l \in DOMAIN h : h[l].step > 0}}
    \cup {<<c[i].run, c[i].op>> : i \in {l \in DOMAIN c : c[l].what = "step"}}
    \cup {<<s[p].run.id, s[p].run.op>> : p \in {q \in ControlPages : s[q].run # NoRun}}

OneRun(c, P) ==
    /\ \A a, b \in P : a[1] = b[1] => a[2] = b[2]
    /\ \A a \in P : a[1] \in DOMAIN c /\ c[a[1]].pc = "done"

InOrder(h) ==
    \A j \in DOMAIN h : h[j].step > 0 =>
        LET before == {l \in Taken(h, h[j].op) : l < j} IN
        /\ Cardinality(before) + 1 = h[j].step
        /\ \A l \in before : h[l].step < h[j].step /\ h[l].run = h[j].run
        /\ h[j].op < j /\ Granted(h, h[j].op, h[j].user)
        /\ h[j].late => /\ Superseded(h, h[j].op, h[j].user)
                        /\ \A l \in DOMAIN h : h[l].step > 0 /\ h[l].run = h[j].run => l <= j

RunsIInv ==
    /\ \A i \in DOMAIN calls : Backed(history, calls[i])
    /\ \A p \in ControlPages : Goes(history, supply.users, p, screen[p].run)
    /\ OneBears(calls, screen) /\ Minded(calls, screen) /\ Shown(screen)
    /\ OneRun(calls, Pairs(history, calls, screen))
    /\ InOrder(history)

-----------------------------------------------------------------------------
\* The commands that say what a button's value is, and what the mode is.
Telling(h, b) == {j \in DOMAIN h : h[j].status = "acknowledged" /\ (h[j].of = b \/ h[j].value = "reset")}
LitBy(h, b) ==
    LET j == LatestOf(Telling(h, b)) IN IF j = 0 \/ h[j].value = "reset" THEN "off" ELSE h[j].value

Shifts(h) == {j \in DOMAIN h : h[j].status = "acknowledged" /\ h[j].of = "shifter"}
ModeBy(h) == LET j == LatestOf(Shifts(h)) IN IF j = 0 THEN "manual" ELSE h[j].value

\* What the page shows is what is kept, but for the call that changes it.
ModeIsKept(h, c, s) ==
    /\ (\A i \in DOMAIN c : c[i].of # "shifter") => s.mode = ModeBy(h)
    /\ \A i \in DOMAIN c : c[i].what = "shift" =>
          IF Concluded(c[i]) THEN ModeBy(h) = c[i].arg
          ELSE s.mode = ModeBy(h) /\ (Saved(c[i]) => \A j \in Shifts(h) : j < c[i].doc)
    /\ \A i \in DOMAIN c : c[i].what = "start" /\ (c[i].pc = "answered" => c[i].ok) => ModeBy(h) = "auto"

Final(x) == IF x.what = "shift" THEN "off" ELSE x.value

LitIsKept(h, c, s, b) ==
    /\ (\A i \in DOMAIN c : b \notin Affects(c[i])) => s.lit[b] = LitBy(h, b)
    /\ \A i \in DOMAIN c : b \in Affects(c[i]) =>
          /\ \A j \in DOMAIN c : b \in Affects(c[j]) => i = j
          /\ c[i].page # Nobody
          /\ IF Concluded(c[i]) THEN LitBy(h, b) = Final(c[i])
             ELSE s.lit[b] = LitBy(h, b) /\ (Saved(c[i]) => \A j \in Telling(h, b) : j < c[i].doc)

ShownIInv(p) ==
    /\ \A i \in DOMAIN calls : calls[i].what \in {"shift", "start", "press"} => calls[i].page = p
    /\ ModeIsKept(history, calls, screen[p])
    /\ \A b \in Buttons \ crossed : LitIsKept(history, calls, screen[p], b)

ControlIInv ==
    /\ DocsIInv
    /\ RunsIInv
    /\ \A p \in ControlPages : OpenPages = {p} /\ ~strayed => ShownIInv(p)

-----------------------------------------------------------------------------
\* Sequences that change at one place, or grow.
LEMMA Changed ==
    ASSUME NEW S, NEW q \in Seq(S), NEW i \in DOMAIN q, NEW a \in S
    PROVE  /\ [q EXCEPT ![i] = a] \in Seq(S) /\ DOMAIN [q EXCEPT ![i] = a] = DOMAIN q
           /\ Len([q EXCEPT ![i] = a]) = Len(q)
           /\ [q EXCEPT ![i] = a][i] = a
           /\ \A j \in DOMAIN q : j # i => [q EXCEPT ![i] = a][j] = q[j]
OBVIOUS

LEMMA Grown ==
    ASSUME NEW S, NEW q \in Seq(S), NEW a \in S
    PROVE  /\ Append(q, a) \in Seq(S) /\ DOMAIN Append(q, a) = DOMAIN q \cup {Len(q) + 1}
           /\ Len(q) \in Nat /\ Len(q) + 1 \notin DOMAIN q /\ DOMAIN q \subseteq Nat
           /\ \A j \in DOMAIN q : j <= Len(q) /\ j > 0
           /\ Append(q, a)[Len(q) + 1] = a
           /\ \A j \in DOMAIN q : Append(q, a)[j] = q[j]
OBVIOUS

LEMMA Mapped ==
    ASSUME NEW S, NEW q \in Seq(S), NEW f, DOMAIN f = DOMAIN q, f = [j \in DOMAIN q |-> f[j]], \A j \in DOMAIN q : f[j] \in S
    PROVE  f \in Seq(S) /\ Len(f) = Len(q)
OBVIOUS

\* What a call is for never changes.
Kin(y, x) ==
    /\ y.user = x.user /\ y.what = x.what /\ y.of = x.of /\ y.arg = x.arg
    /\ y.op = x.op /\ y.run = x.run /\ y.step = x.step

LEMMA Reached ==
    ASSUME NEW u, NEW x \in HttpCall(u), NEW pc \in Stages
    PROVE  LET y == [x EXCEPT !.pc = pc] IN
           /\ y \in HttpCall(u) /\ Kin(y, x)
           /\ y.pc = pc /\ y.page = x.page /\ y.doc = x.doc /\ y.value = x.value /\ y.ok = x.ok
BY DEF HttpCall, Kin

\* A call is closed, or nobody waits for it any more, or nothing happens to it.
Fades(y, x) ==
    y = NoCall \/ (/\ x.pc # "done" /\ Kin(y, x) /\ y.pc = x.pc /\ y.doc = x.doc /\ y.value = x.value /\ y.ok = x.ok
                   /\ y.page \in {x.page, Nobody} /\ (x.pc = "answered" => y.page = x.page))

LEMMA NoCallIs ==
    /\ \A u : NoCall \in HttpCall(u)
    /\ NoCall.pc = "done" /\ NoCall.page = Nobody /\ NoCall.what = "none" /\ NoCall.of = "none"
    /\ ~Saved(NoCall) /\ ~Concluded(NoCall) /\ ~Bearing(NoCall)
BY DEF NoCall, HttpCall, Stages, Saved, Concluded, Bearing

LEMMA GivenUpFades ==
    ASSUME NEW u, NEW h, NEW x \in HttpCall(u), Sound(u, h, x)
    PROVE  GivenUp(x) \in HttpCall(u) /\ Fades(GivenUp(x), x) /\ Fades(x, x) /\ GivenUp(x).page = Nobody
<1>1. CASE x.pc = "done"
  BY <1>1, NoCallIs DEF Sound, GivenUp, NoCall, Fades
<1>2. CASE x.pc = "answered"
  BY <1>2, NoCallIs DEF Fades, Kin, GivenUp
<1>3. CASE x.pc # "done" /\ x.pc # "answered"
  BY <1>3 DEF GivenUp, Fades, Kin, HttpCall
<1> QED BY <1>1, <1>2, <1>3

LEMMA FadedIsSound ==
    ASSUME NEW u, NEW h, NEW x \in HttpCall(u), NEW y \in HttpCall(u), Sound(u, h, x), Fades(y, x)
    PROVE  /\ Sound(u, h, y)
           /\ Saved(y) => Saved(x) /\ y.doc = x.doc
           /\ Bearing(y) => Bearing(x) /\ Borne(y) = Borne(x)
           /\ y # NoCall => Kin(y, x) /\ y.pc = x.pc /\ y.doc = x.doc /\ y.value = x.value /\ y.ok = x.ok
<1>1. CASE y = NoCall
  BY <1>1, NoCallIs DEF Sound
<1>2. CASE y # NoCall
  <2>1. /\ x.pc # "done" /\ Kin(y, x) /\ y.pc = x.pc /\ y.doc = x.doc /\ y.value = x.value /\ y.ok = x.ok
        /\ y.page \in {x.page, Nobody} /\ (x.pc = "answered" => y.page = x.page)
    BY <1>2 DEF Fades
  <2>2. Shaped(u, x) /\ Describes(h, x)
    BY <2>1 DEF Sound
  <2>3. (Saved(y) <=> Saved(x)) /\ (Concluded(y) <=> Concluded(x)) /\ (Bearing(y) <=> Bearing(x)) /\ Borne(y) = Borne(x)
    BY <2>1 DEF Saved, Concluded, Bearing, Borne, Kin
  <2>4. Shaped(u, y)
    BY <2>1, <2>2 DEF Shaped, Kin
  <2>5. Describes(h, y)
    BY <2>1, <2>2, <2>3 DEF Describes, Kin
  <2> QED BY <2>1, <2>3, <2>4, <2>5 DEF Sound
<1> QED BY <1>1, <1>2

\* Calls that fade, that are added, and one that goes on with its document.
LEMMA ServedFades ==
    ASSUME NEW u, NEW h, NEW c, Served(u, h, c), NEW d \in Seq(HttpCall(u)), DOMAIN d = DOMAIN c,
           \A i \in DOMAIN c : Fades(d[i], c[i])
    PROVE  Served(u, h, d)
BY FadedIsSound DEF Served

LEMMA ServedAdds ==
    ASSUME NEW u, NEW h, NEW c, Served(u, h, c), NEW x \in HttpCall(u), Sound(u, h, x), ~Saved(x)
    PROVE  Served(u, h, Append(c, x))
<1>. DEFINE n == Len(c) + 1
            d == Append(c, x)
<1>1. /\ c \in Seq(HttpCall(u)) /\ \A i \in DOMAIN c : Sound(u, h, c[i])
      /\ \A i, j \in DOMAIN c : Saved(c[i]) /\ Saved(c[j]) /\ c[i].doc = c[j].doc => i = j
  BY DEF Served
<1>2. d \in Seq(HttpCall(u)) /\ DOMAIN d = DOMAIN c \cup {n} /\ d[n] = x /\ \A j \in DOMAIN c : d[j] = c[j]
  BY <1>1, Grown
<1>. HIDE DEF n, d
<1>3. \A i \in DOMAIN d : Sound(u, h, d[i])
  BY <1>1, <1>2
<1>4. \A i, j \in DOMAIN d : Saved(d[i]) /\ Saved(d[j]) /\ d[i].doc = d[j].doc => i = j
  BY <1>1, <1>2
<1> QED BY <1>2, <1>3, <1>4 DEF Served, d

LEMMA DescribedStill ==
    ASSUME NEW u, NEW h, NEW g, NEW x, Sound(u, h, x), Saved(x) => x.doc \in DOMAIN g /\ g[x.doc] = h[x.doc]
    PROVE  Sound(u, g, x)
BY DEF Sound, Describes

LEMMA ServedMoves ==
    ASSUME NEW u, NEW h, NEW c, Served(u, h, c), NEW i \in DOMAIN c, NEW y \in HttpCall(u), NEW g, Sound(u, g, y),
           \A j \in DOMAIN c : j # i /\ Saved(c[j]) =>
               /\ Saved(y) => c[j].doc # y.doc
               /\ c[j].doc \in DOMAIN h => c[j].doc \in DOMAIN g /\ g[c[j].doc] = h[c[j].doc]
    PROVE  Served(u, g, [c EXCEPT ![i] = y])
<1>. DEFINE d == [c EXCEPT ![i] = y]
<1>1. /\ c \in Seq(HttpCall(u)) /\ \A j \in DOMAIN c : Sound(u, h, c[j])
      /\ \A k, j \in DOMAIN c : Saved(c[k]) /\ Saved(c[j]) /\ c[k].doc = c[j].doc => k = j
  BY DEF Served
<1>2. d \in Seq(HttpCall(u)) /\ DOMAIN d = DOMAIN c /\ d[i] = y /\ \A j \in DOMAIN c : j # i => d[j] = c[j]
  BY <1>1, Changed
<1>. HIDE DEF d
<1>3. ASSUME NEW j \in DOMAIN d PROVE Sound(u, g, d[j])
  BY <1>2, <1>1, NoCallIs, DescribedStill DEF Sound, Describes
<1>4. \A k, j \in DOMAIN d : Saved(d[k]) /\ Saved(d[j]) /\ d[k].doc = d[j].doc => k = j
  BY <1>1, <1>2
<1> QED BY <1>2, <1>3, <1>4 DEF Served, d

\* Documents are added, or one of them changes.
LEMMA BookedAdds ==
    ASSUME NEW u, NEW h, Booked(u, h), NEW d \in Document(u), Plain(d)
    PROVE  Booked(u, Append(h, d))
BY Grown DEF Booked

LEMMA BookedMoves ==
    ASSUME NEW u, NEW h, Booked(u, h), NEW k \in DOMAIN h, NEW d \in Document(u), Plain(d)
    PROVE  Booked(u, [h EXCEPT ![k] = d])
BY Changed DEF Booked

-----------------------------------------------------------------------------
LEMMA RecipeIs ==
    ASSUME NEW k \in DOMAIN Recipe
    PROVE  Recipe[k].button \in Buttons /\ Recipe[k].value \in {"on", "off"} /\ Recipe[k].button # "shifter"
<1>. DEFINE R == [button : Buttons, value : {"on", "off"}]
<1>1. Recipe \in Seq(R)
  BY ControlAssumption
<1>. HIDE DEF R
<1>2. Recipe[k] \in R
  BY <1>1
<1>3. Recipe[k].button \in Buttons /\ Recipe[k].value \in {"on", "off"}
  BY <1>2 DEF R
<1> QED BY <1>3, ControlAssumption

LEMMA CallIs ==
    ASSUME DocsIInv, NEW i \in DOMAIN calls
    PROVE  /\ calls[i] \in HttpCall(supply.users) /\ Sound(supply.users, history, calls[i])
           /\ calls \in Seq(HttpCall(supply.users)) /\ Served(supply.users, history, calls)
           /\ Booked(supply.users, history) /\ history \in Seq(Document(supply.users))
BY DEF DocsIInv, Served, Booked

LEMMA AffectsButtons ==
    ASSUME NEW u, NEW h, NEW x \in HttpCall(u), Sound(u, h, x)
    PROVE  Affects(x) \subseteq Buttons /\ (x.what = "step" => x.of \in Buttons)
BY RecipeIs, NoCallIs DEF Affects, Sound, Shaped

\* The calls that a page gives up.
Left(c, js) == [i \in DOMAIN c |-> IF i \in js THEN GivenUp(c[i]) ELSE c[i]]

LEMMA LeftFades ==
    ASSUME NEW u, NEW h, NEW c, Served(u, h, c), NEW js
    PROVE  /\ Left(c, js) \in Seq(HttpCall(u)) /\ DOMAIN Left(c, js) = DOMAIN c /\ Len(Left(c, js)) = Len(c)
           /\ \A i \in DOMAIN c : /\ Fades(Left(c, js)[i], c[i])
                                  /\ i \in js => Left(c, js)[i].page = Nobody
                                  /\ i \notin js => Left(c, js)[i] = c[i]
           /\ Served(u, h, Left(c, js))
<1>. DEFINE f == Left(c, js)
<1>1. /\ c \in Seq(HttpCall(u)) /\ \A i \in DOMAIN c : c[i] \in HttpCall(u) /\ Sound(u, h, c[i])
  BY DEF Served
<1>2. DOMAIN f = DOMAIN c /\ \A i \in DOMAIN c : f[i] = IF i \in js THEN GivenUp(c[i]) ELSE c[i]
  BY DEF Left
<1>3. \A i \in DOMAIN c : f[i] \in HttpCall(u) /\ Fades(f[i], c[i]) /\ (i \in js => f[i].page = Nobody)
  BY <1>1, <1>2, GivenUpFades
<1>4. f = [i \in DOMAIN c |-> f[i]]
  BY DEF Left
<1>. HIDE DEF f
<1>5. f \in Seq(HttpCall(u)) /\ Len(f) = Len(c)
  BY <1>1, <1>2, <1>3, <1>4, Mapped
<1>6. Served(u, h, f)
  BY <1>2, <1>3, <1>5, ServedFades
<1> QED BY <1>2, <1>3, <1>5, <1>6 DEF f

LEMMA CrossedIs ==
    ASSUME DocsIInv, NEW x \in HttpCall(supply.users), Sound(supply.users, history, x), NEW js, Sends(x, js),
           \A i \in js : i \in DOMAIN calls /\ calls[i].what = "step"
    PROVE  /\ calls' = Append(Left(calls, js), x) /\ crossed' \subseteq Buttons
           /\ \A b \in Buttons \ crossed' :
                  /\ b \notin crossed /\ \A i \in js : calls[i].of # b
                  /\ b \in Affects(x) => \A i \in DOMAIN calls : calls[i].pc # "done" => b \notin Affects(calls[i])
BY CallIs, AffectsButtons DEF Sends, Left, Underway, DocsIInv

LEMMA SpendsUsers ==
    ASSUME "users" \in DOMAIN supply, NEW what \in {"shifts", "presses", "losses", "cuts", "reloads"}, Spends(what)
    PROVE  supply'.users = supply.users /\ "users" \in DOMAIN supply'
BY DEF Spends

LEMMA UsersStay ==
    ASSUME "users" \in DOMAIN supply, ControlNext
    PROVE  supply'.users = supply.users /\ "users" \in DOMAIN supply'
<1>1. CASE supply' = supply
  BY <1>1
<1>2. CASE \E what \in {"shifts", "presses", "losses", "cuts", "reloads"} : Spends(what)
  BY <1>2, SpendsUsers
<1>3. supply' = supply \/ \E what \in {"shifts", "presses", "losses", "cuts", "reloads"} : Spends(what)
  <2>1. ASSUME NEW i \in DOMAIN calls,
               \/ ReceiveAnswer(i) \/ ReadCommands(i) \/ CreateCommand(i) \/ SaveCommand(i)
               \/ AuditAuthorization(i) \/ AuditConclusion(i) \/ CheckActive(i) \/ AcknowledgeStep(i)
        PROVE  supply' = supply
    BY <2>1 DEF ReceiveAnswer, ReadCommands, CreateCommand, SaveCommand, AuditAuthorization, AuditConclusion,
                CheckActive, AcknowledgeStep
  <2>2. ASSUME NEW p \in OpenPages, PostStep(p) PROVE supply' = supply
    BY <2>2 DEF PostStep
  <2>3. ASSUME NEW i \in DOMAIN calls, LoseCall(i) \/ FailCall(i) PROVE Spends("losses") \/ Spends("cuts")
    BY <2>3 DEF LoseCall, FailCall
  <2>4. ASSUME NEW p \in OpenPages, Reload(p) PROVE Spends("reloads")
    BY <2>4 DEF Reload
  <2>5. ASSUME NEW p \in OpenPages, NEW m \in Modes, ShiftMode(p, m) PROVE Spends("shifts")
    BY <2>5 DEF ShiftMode
  <2>6. ASSUME NEW p \in OpenPages, NEW b \in Buttons, Press(p, b) PROVE Spends("presses")
    BY <2>6 DEF Press
  <2> QED BY <2>1, <2>2, <2>3, <2>4, <2>5, <2>6 DEF ControlNext, ControlSteps
<1> QED BY <1>1, <1>2, <1>3

-----------------------------------------------------------------------------
(* What a page shows.                                                      *)

LEMMA Viewed ==
    ASSUME NEW s \in [ControlPages -> View], NEW p \in ControlPages, NEW v \in View
    PROVE  /\ [s EXCEPT ![p] = v] \in [ControlPages -> View] /\ [s EXCEPT ![p] = v][p] = v
           /\ \A q \in ControlPages : q # p => [s EXCEPT ![p] = v][q] = s[q]
OBVIOUS

LEMMA NoRunIs ==
    NoRun \in RunRecord /\ ~NoRun.waits /\ NoRun.op = 0 /\ NoRun.step = 0
BY DEF NoRun, RunRecord

LEMMA ViewIs ==
    ASSUME NEW v \in View
    PROVE  /\ v.mode \in Modes /\ v.lit \in [Buttons -> {"on", "off"}]
           /\ v.pending \subseteq Buttons \cup {"shifter"} /\ v.run \in RunRecord
BY DEF View, Lights, Pendings

LEMMA ViewQ ==
    ASSUME NEW v \in View, NEW q \in Pendings
    PROVE  LET w == [v EXCEPT !.pending = q] IN
           w \in View /\ w.mode = v.mode /\ w.lit = v.lit /\ w.pending = q /\ w.run = v.run
BY DEF View

LEMMA ViewR ==
    ASSUME NEW v \in View, NEW r \in RunRecord
    PROVE  LET w == [v EXCEPT !.run = r] IN
           w \in View /\ w.mode = v.mode /\ w.lit = v.lit /\ w.pending = v.pending /\ w.run = r
BY DEF View

LEMMA FailureShows ==
    ASSUME NEW v \in View, NEW x
    PROVE  /\ AfterFailure(v, x) \in View
           /\ AfterFailure(v, x).mode = v.mode /\ AfterFailure(v, x).lit = v.lit
           /\ x.what = "step" => AfterFailure(v, x).run = NoRun /\ AfterFailure(v, x).pending = v.pending
           /\ x.what # "step" => /\ AfterFailure(v, x).run = v.run
                                 /\ AfterFailure(v, x).pending = v.pending \ {IF x.what = "start" THEN "shifter" ELSE x.of}
<1>1. CASE x.what = "step"
  BY <1>1, ViewR, NoRunIs DEF AfterFailure
<1>2. CASE x.what # "step"
  <2>. DEFINE q == v.pending \ {IF x.what = "start" THEN "shifter" ELSE x.of}
  <2>1. AfterFailure(v, x) = [v EXCEPT !.pending = q]
    BY <1>2 DEF AfterFailure
  <2>2. q \in Pendings
    BY ViewIs DEF Lights, Pendings
  <2>. HIDE DEF q
  <2>3. LET w == [v EXCEPT !.pending = q] IN
              w \in View /\ w.mode = v.mode /\ w.lit = v.lit /\ w.pending = q /\ w.run = v.run
    BY <2>2, ViewQ
  <2>4. AfterFailure(v, x) \in View /\ AfterFailure(v, x).mode = v.mode /\ AfterFailure(v, x).lit = v.lit
        /\ AfterFailure(v, x).pending = q /\ AfterFailure(v, x).run = v.run
    BY <2>1, <2>3
  <2> QED BY <1>2, <2>4 DEF q
<1> QED BY <1>1, <1>2

LEMMA ShiftShows ==
    ASSUME NEW v \in View, NEW x, x.arg \in Modes
    PROVE  /\ AfterShift(v, x) \in View /\ AfterShift(v, x).mode = x.arg /\ AfterShift(v, x).run = v.run
           /\ AfterShift(v, x).pending = v.pending \ {"shifter"}
           /\ AfterShift(v, x).lit = IF x.arg = "reset" THEN [b \in Buttons |-> "off"] ELSE v.lit
<1>. DEFINE q == v.pending \ {"shifter"}
            l == IF x.arg = "reset" THEN [b \in Buttons |-> "off"] ELSE v.lit
            m == x.arg
<1>1. AfterShift(v, x) = [v EXCEPT !.mode = m, !.pending = q, !.lit = l]
  BY DEF AfterShift
<1>2. q \in Pendings /\ l \in Lights /\ m \in Modes
  BY ViewIs DEF Lights, Pendings
<1>. HIDE DEF q, l, m
<1>3. LET w == [v EXCEPT !.mode = m, !.pending = q, !.lit = l] IN
              w \in View /\ w.mode = m /\ w.lit = l /\ w.pending = q /\ w.run = v.run
  BY <1>2 DEF View
<1>4. AfterShift(v, x) \in View /\ AfterShift(v, x).mode = m /\ AfterShift(v, x).lit = l
      /\ AfterShift(v, x).pending = q /\ AfterShift(v, x).run = v.run
  BY <1>1, <1>3
<1> QED BY <1>4 DEF q, l, m

LEMMA StartShows ==
    ASSUME NEW v \in View, NEW x, x.op \in Nat, NEW i \in Nat
    PROVE  LET r == [op |-> x.op, id |-> i, step |-> 1, waits |-> TRUE] IN
           /\ AfterStart(v, x, i) \in View /\ AfterStart(v, x, i).mode = "auto" /\ AfterStart(v, x, i).lit = v.lit
           /\ AfterStart(v, x, i).pending = v.pending \ {"shifter"} /\ AfterStart(v, x, i).run = r
<1>. DEFINE q == v.pending \ {"shifter"}
            r == [op |-> x.op, id |-> i, step |-> 1, waits |-> TRUE]
            m == "auto"
<1>1. AfterStart(v, x, i) = [v EXCEPT !.mode = m, !.pending = q, !.run = r]
  BY DEF AfterStart
<1>2. q \in Pendings /\ m \in Modes /\ r \in RunRecord /\ v.lit \in Lights
  BY ViewIs DEF Lights, Pendings, Modes, RunRecord
<1>. HIDE DEF q, r, m
<1>3. LET w == [v EXCEPT !.mode = m, !.pending = q, !.run = r] IN
              w \in View /\ w.mode = m /\ w.lit = v.lit /\ w.pending = q /\ w.run = r
  BY <1>2 DEF View
<1>4. AfterStart(v, x, i) \in View /\ AfterStart(v, x, i).mode = m /\ AfterStart(v, x, i).lit = v.lit
      /\ AfterStart(v, x, i).pending = q /\ AfterStart(v, x, i).run = r
  BY <1>1, <1>3
<1> QED BY <1>4 DEF q, r, m

LEMMA PressShows ==
    ASSUME NEW v \in View, NEW x, x.of \in Buttons, x.value \in {"on", "off"}
    PROVE  /\ AfterPress(v, x) \in View /\ AfterPress(v, x).mode = v.mode /\ AfterPress(v, x).run = v.run
           /\ AfterPress(v, x).pending = v.pending \ {x.of}
           /\ AfterPress(v, x).lit[x.of] = x.value
           /\ \A b \in Buttons : b # x.of => AfterPress(v, x).lit[b] = v.lit[b]
<1>. DEFINE q == v.pending \ {x.of}
            l == [v.lit EXCEPT ![x.of] = x.value]
<1>1. AfterPress(v, x) = [v EXCEPT !.lit = l, !.pending = q]
  BY DEF AfterPress
<1>2. q \in Pendings /\ l \in Lights
      /\ l[x.of] = x.value /\ \A b \in Buttons : b # x.of => l[b] = v.lit[b]
  BY ViewIs DEF Lights, Pendings
<1>. HIDE DEF q, l
<1>3. LET w == [v EXCEPT !.lit = l, !.pending = q] IN
              w \in View /\ w.mode = v.mode /\ w.lit = l /\ w.pending = q /\ w.run = v.run
  BY <1>2 DEF View
<1>4. AfterPress(v, x) \in View /\ AfterPress(v, x).mode = v.mode /\ AfterPress(v, x).lit = l
      /\ AfterPress(v, x).pending = q /\ AfterPress(v, x).run = v.run
  BY <1>1, <1>3
<1> QED BY <1>2, <1>4 DEF q

LEMMA StepShows ==
    ASSUME NEW v \in View, NEW x, x.of \in Buttons, x.value \in {"on", "off"}, x.step \in Nat
    PROVE  LET r == IF x.step = Len(Recipe) THEN NoRun ELSE [v.run EXCEPT !.step = x.step + 1, !.waits = TRUE] IN
           /\ AfterStep(v, x) \in View /\ AfterStep(v, x).mode = v.mode /\ AfterStep(v, x).run = r
           /\ AfterStep(v, x).pending = v.pending \ {x.of}
           /\ AfterStep(v, x).lit[x.of] = x.value
           /\ \A b \in Buttons : b # x.of => AfterStep(v, x).lit[b] = v.lit[b]
<1>. DEFINE q == v.pending \ {x.of}
            l == [v.lit EXCEPT ![x.of] = x.value]
            r == IF x.step = Len(Recipe) THEN NoRun ELSE [v.run EXCEPT !.step = x.step + 1, !.waits = TRUE]
<1>1. AfterStep(v, x) = [v EXCEPT !.lit = l, !.pending = q, !.run = r]
  BY DEF AfterStep
<1>2. q \in Pendings /\ l \in Lights
      /\ l[x.of] = x.value /\ \A b \in Buttons : b # x.of => l[b] = v.lit[b]
  BY ViewIs DEF Lights, Pendings
<1>3. r \in RunRecord
  <2>1. v.run \in RunRecord /\ x.step + 1 \in Nat
    BY ViewIs DEF Lights, Pendings
  <2> QED BY <2>1, NoRunIs DEF RunRecord
<1>. HIDE DEF q, l, r
<1>4. LET w == [v EXCEPT !.lit = l, !.pending = q, !.run = r] IN
              w \in View /\ w.mode = v.mode /\ w.lit = l /\ w.pending = q /\ w.run = r
  BY <1>2, <1>3 DEF View
<1>5. AfterStep(v, x) \in View /\ AfterStep(v, x).mode = v.mode /\ AfterStep(v, x).lit = l
      /\ AfterStep(v, x).pending = q /\ AfterStep(v, x).run = r
  BY <1>1, <1>4
<1> QED BY <1>2, <1>5 DEF q, r

\* Of some places in a sequence there is a last one.
LEMMA LastOf ==
    ASSUME NEW S, NEW h \in Seq(S), NEW js, js \subseteq DOMAIN h, js # {}
    PROVE  LatestOf(js) \in js /\ \A j \in js : j <= LatestOf(js)
<1>. DEFINE L == Len(h)
            T == {L - j : j \in js}
<1>1. L \in Nat /\ DOMAIN h = 1..L /\ \A j \in js : j \in Nat /\ j <= L /\ L - j \in Nat
  OBVIOUS
<1>2. T \subseteq Nat /\ T # {}
  BY <1>1
<1>3. PICK n \in T : \A m \in T : n <= m
  BY <1>2, Least
<1>4. PICK k \in js : n = L - k
  BY <1>3
<1>5. \A j \in js : k >= j
  <2>. TAKE j \in js
  <2>1. L - k <= L - j
    BY <1>3, <1>4
  <2> QED BY <1>1, <2>1
<1>6. Max(js) \in js /\ \A j \in js : Max(js) >= j
  BY <1>5 DEF Max
<1>7. LatestOf(js) = Max(js)
  BY DEF LatestOf
<1> QED BY <1>1, <1>6, <1>7

LEMMA KeptIs ==
    ASSUME NEW u, NEW h, Booked(u, h)
    PROVE  ModeBy(h) \in Modes /\ \A b \in Buttons : LitBy(h, b) \in {"on", "off"}
<1>1. h \in Seq(Document(u)) /\ \A j \in DOMAIN h : Plain(h[j]) /\ h[j] \in Document(u)
  BY DEF Booked
<1>2. ModeBy(h) \in Modes
  <2>1. CASE Shifts(h) = {}
    BY <2>1 DEF ModeBy, LatestOf, Modes
  <2>2. CASE Shifts(h) # {}
    <3>. DEFINE j == LatestOf(Shifts(h))
    <3>1. j \in Shifts(h)
      BY <1>1, <2>2, LastOf DEF Shifts
    <3>2. j \in DOMAIN h /\ h[j].of = "shifter" /\ h[j].value \in Modes
      BY <1>1, <3>1 DEF Shifts, Plain
    <3> QED BY <3>2 DEF ModeBy, Modes
  <2> QED BY <2>1, <2>2
<1>3. ASSUME NEW b \in Buttons PROVE LitBy(h, b) \in {"on", "off"}
  <2>1. CASE Telling(h, b) = {}
    BY <2>1 DEF LitBy, LatestOf
  <2>2. CASE Telling(h, b) # {}
    <3>. DEFINE j == LatestOf(Telling(h, b))
    <3>1. j \in Telling(h, b)
      BY <1>1, <2>2, LastOf DEF Telling
    <3>2. j \in DOMAIN h /\ (h[j].of = b \/ h[j].value = "reset") /\ b # "shifter"
      BY <3>1, ControlAssumption DEF Telling
    <3>3. h[j].value = "reset" \/ h[j].value \in {"on", "off"}
      BY <1>1, <3>2 DEF Plain
    <3> QED BY <3>3 DEF LitBy
  <2> QED BY <2>1, <2>2
<1> QED BY <1>2, <1>3

LEMMA RestoredIs ==
    ASSUME Booked(supply.users, history)
    PROVE  /\ Restored \in View
           /\ Restored.mode = ModeBy(history) /\ Restored.pending = {} /\ Restored.run = NoRun
           /\ \A b \in Buttons : Restored.lit[b] = LitBy(history, b)
<1>1. KeptMode = ModeBy(history) /\ \A b \in Buttons : Kept(b) = LitBy(history, b)
  BY DEF KeptMode, ModeBy, Kept, LitBy, Acknowledged, Shifts, Telling
<1>2. ModeBy(history) \in Modes /\ \A b \in Buttons : LitBy(history, b) \in {"on", "off"}
  BY KeptIs
<1> QED BY <1>1, <1>2, NoRunIs DEF Restored, View, Lights, Pendings

-----------------------------------------------------------------------------
(* What each action does to the calls, and that their documents stay in    *)
(* order.                                                                  *)

\* One call goes on, and the others stay.
Moves(i, y) ==
    /\ y \in HttpCall(supply.users)
    /\ calls' \in Seq(HttpCall(supply.users)) /\ DOMAIN calls' = DOMAIN calls
    /\ calls'[i] = y
    /\ \A j \in DOMAIN calls : j # i => calls'[j] = calls[j]

LEMMA MovesIs ==
    ASSUME DocsIInv, NEW i \in DOMAIN calls, NEW y \in HttpCall(supply.users), calls' = [calls EXCEPT ![i] = y]
    PROVE  Moves(i, y)
BY CallIs, Changed DEF Moves

\* The response to a call.
AnswerTo(x, ok) == IF x.page = Nobody THEN NoCall ELSE [x EXCEPT !.pc = "answered", !.ok = ok]

LEMMA AnswerIs ==
    ASSUME NEW u, NEW h, NEW x \in HttpCall(u), Sound(u, h, x), x.pc \notin {"done", "answered"},
           NEW ok \in BOOLEAN, ok => x.pc = "conclude"
    PROVE  LET y == AnswerTo(x, ok) IN
           /\ y \in HttpCall(u) /\ Sound(u, h, y)
           /\ y # NoCall => /\ Kin(y, x) /\ y.pc = "answered" /\ y.page = x.page /\ x.page # Nobody
                            /\ y.doc = x.doc /\ y.value = x.value /\ y.ok = ok
           /\ Saved(y) => Saved(x) /\ y.doc = x.doc
           /\ y = NoCall <=> x.page = Nobody
<1>1. CASE x.page = Nobody
  BY <1>1, NoCallIs DEF AnswerTo, Sound
<1>2. CASE x.page # Nobody
  <2>. DEFINE y == [x EXCEPT !.pc = "answered", !.ok = ok]
  <2>0. AnswerTo(x, ok) = y
    BY <1>2 DEF AnswerTo
  <2>1. /\ y \in HttpCall(u) /\ Kin(y, x)
        /\ y.pc = "answered" /\ y.page = x.page /\ y.doc = x.doc /\ y.value = x.value /\ y.ok = ok
    BY DEF HttpCall, Kin, Stages
  <2>. HIDE DEF y
  <2>2. Shaped(u, x) /\ Describes(h, x)
    BY DEF Sound
  <2>3. (Concluded(y) <=> ok) /\ (ok => Concluded(x)) /\ (Saved(y) => Saved(x))
    BY <2>1 DEF Concluded, Saved, Kin
  <2>4. Shaped(u, y)
    BY <1>2, <2>1, <2>2 DEF Shaped, Kin
  <2>5. Describes(h, y)
    BY <2>1, <2>3, <2>2 DEF Saved, Kin, Describes
  <2>6. y # NoCall
    BY <2>1, NoCallIs
  <2> QED BY <1>2, <2>0, <2>1, <2>3, <2>4, <2>5, <2>6 DEF Sound
<1> QED BY <1>1, <1>2

LEMMA RespondsIs ==
    ASSUME DocsIInv, NEW i \in DOMAIN calls, calls[i].pc \notin {"done", "answered"},
           NEW ok \in BOOLEAN, ok => calls[i].pc = "conclude", Responds(i, ok)
    PROVE  /\ Moves(i, AnswerTo(calls[i], ok))
           /\ Served(supply.users, history, calls')
<1>. DEFINE y == AnswerTo(calls[i], ok)
            u == supply.users
<1>1. calls[i] \in HttpCall(u) /\ Sound(u, history, calls[i]) /\ Served(u, history, calls)
  BY CallIs
<1>2. calls' = [calls EXCEPT ![i] = y]
  BY DEF Responds, AnswerTo
<1>3. y \in HttpCall(u) /\ Sound(u, history, y) /\ (Saved(y) => Saved(calls[i]) /\ y.doc = calls[i].doc)
  BY <1>1, AnswerIs
<1>. HIDE DEF y
<1>4. Moves(i, y)
  BY <1>2, <1>3, MovesIs
<1>5. \A j \in DOMAIN calls : j # i /\ Saved(calls[j]) /\ Saved(y) => calls[j].doc # y.doc
  BY <1>1, <1>3 DEF Served
<1>6. Served(u, history, [calls EXCEPT ![i] = y])
  BY <1>1, <1>3, <1>5, ServedMoves
<1> QED BY <1>2, <1>4, <1>6 DEF y, u

\* Nothing but the calls and the documents changes.
LEMMA DocsMove ==
    ASSUME DocsIInv, UNCHANGED <<screen, crossed>>, supply'.users = supply.users, "users" \in DOMAIN supply',
           strayed' \in BOOLEAN, Booked(supply.users, history'), Served(supply.users, history', calls')
    PROVE  DocsIInv'
BY DEF DocsIInv, OpenPages

LEMMA DocsShow ==
    ASSUME DocsIInv, NEW p \in ControlPages, NEW v \in View, Shows(p, v), crossed' \subseteq Buttons, strayed' \in BOOLEAN,
           supply'.users = supply.users, "users" \in DOMAIN supply',
           UNCHANGED history, Served(supply.users, history, calls')
    PROVE  /\ DocsIInv'
           /\ screen'[p] = v /\ \A q \in ControlPages : q # p => screen'[q] = screen[q]
BY Viewed DEF DocsIInv, Shows, OpenPages

LEMMA AuditConclusionDoes ==
    ASSUME DocsIInv, NEW i \in DOMAIN calls, AuditConclusion(i)
    PROVE  /\ DocsIInv' /\ Moves(i, AnswerTo(calls[i], TRUE)) /\ calls[i].pc = "conclude"
           /\ UNCHANGED <<history, screen, crossed, supply, strayed>>
BY RespondsIs, DocsMove DEF AuditConclusion, DocsIInv

LEMMA FailCallDoes ==
    ASSUME DocsIInv, NEW i \in DOMAIN calls, FailCall(i)
    PROVE  /\ DocsIInv' /\ Moves(i, AnswerTo(calls[i], FALSE)) /\ calls[i].pc \notin {"answered", "done"}
           /\ UNCHANGED <<history, screen, crossed>> /\ supply'.users = supply.users /\ strayed' = TRUE
BY RespondsIs, SpendsUsers, DocsMove DEF FailCall, DocsIInv

\* A call goes on to its next stage.
LEMMA GoesOn ==
    ASSUME DocsIInv, NEW i \in DOMAIN calls, NEW y \in HttpCall(supply.users), calls' = [calls EXCEPT ![i] = y],
           Sound(supply.users, history, y), Saved(y) => Saved(calls[i]) /\ y.doc = calls[i].doc,
           UNCHANGED <<history, screen, crossed, supply, strayed>>
    PROVE  DocsIInv' /\ Moves(i, y)
<1>1. Served(supply.users, history, calls)
  BY CallIs
<1>2. \A j \in DOMAIN calls : j # i /\ Saved(calls[j]) /\ Saved(y) => calls[j].doc # y.doc
  BY <1>1 DEF Served
<1>3. Served(supply.users, history, calls')
  BY <1>1, <1>2, ServedMoves
<1> QED BY <1>3, MovesIs, DocsMove DEF DocsIInv

LEMMA CheckActiveDoes ==
    ASSUME DocsIInv, NEW i \in DOMAIN calls, CheckActive(i)
    PROVE  /\ DocsIInv' /\ calls[i].pc = "check" /\ UNCHANGED <<history, screen, crossed, supply, strayed>>
           /\ \/ ~IsActive(calls[i]) /\ Moves(i, AnswerTo(calls[i], FALSE))
              \/ /\ IsActive(calls[i])
                 /\ \E y : /\ Moves(i, y) /\ Kin(y, calls[i]) /\ y.page = calls[i].page
                           /\ y.pc = IF calls[i].what = "start" THEN "conclude" ELSE "record"
<1>. DEFINE x == calls[i]
            u == supply.users
<1>1. x.pc = "check" /\ UNCHANGED <<history, screen, crossed, supply, strayed>>
  BY DEF CheckActive
<1>2. CASE ~IsActive(x)
  BY <1>2, <1>1, RespondsIs, DocsMove DEF CheckActive, DocsIInv
<1>3. CASE IsActive(x)
  <2>. DEFINE pc == IF x.what = "start" THEN "conclude" ELSE "record"
              y == [x EXCEPT !.pc = pc]
  <2>1. x \in HttpCall(u) /\ Sound(u, history, x) /\ x.what \in {"start", "step"}
    BY <1>1, CallIs DEF Sound, Shaped
  <2>2. calls' = [calls EXCEPT ![i] = y]
    BY <1>3 DEF CheckActive, Reaches
  <2>3. pc \in Stages
    BY DEF Stages
  <2>4. y \in HttpCall(u) /\ Kin(y, x) /\ y.page = x.page /\ y.pc = pc
    BY <2>1, <2>3, Reached
  <2>. HIDE DEF y
  <2>5. ~Saved(y)
    BY <2>1, <2>4 DEF Saved, Kin
  <2>6. Shaped(u, x) /\ Describes(history, x)
    BY <1>1, <2>1 DEF Sound
  <2>7. Shaped(u, y)
    BY <1>1, <2>1, <2>4, <2>6 DEF Shaped, Kin
  <2>8. Describes(history, y)
    BY <2>1, <2>4, <2>5 DEF Describes, Concluded, Kin
  <2>9. Sound(u, history, y)
    BY <2>4, <2>7, <2>8 DEF Sound
  <2>10. DocsIInv' /\ Moves(i, y)
    BY <1>1, <2>2, <2>4, <2>5, <2>9, GoesOn
  <2> QED BY <1>1, <1>3, <2>4, <2>10
<1> QED BY <1>2, <1>3

LEMMA EvaluatedIs ==
    ASSUME DocsIInv, NEW i \in DOMAIN calls, calls[i].what \in {"shift", "press"}, calls[i].pc # "done"
    PROVE  (calls[i].what = "shift" => Evaluated(calls[i]) = calls[i].arg /\ calls[i].arg \in Modes)
           /\ (calls[i].what = "press" => /\ Evaluated(calls[i]) \in {"on", "off"} /\ calls[i].of \in Buttons)
BY CallIs DEF Evaluated, Sound, Shaped

LEMMA ReadCommandsDoes ==
    ASSUME DocsIInv, NEW i \in DOMAIN calls, ReadCommands(i)
    PROVE  /\ DocsIInv' /\ calls[i].pc = "read" /\ calls[i].what \in {"shift", "press"}
           /\ UNCHANGED <<history, screen, crossed, supply, strayed>>
           /\ \/ Moves(i, AnswerTo(calls[i], FALSE))
              \/ \E y : Moves(i, y) /\ Kin(y, calls[i]) /\ y.page = calls[i].page /\ y.pc = "create"
<1>. DEFINE x == calls[i]
            u == supply.users
<1>1. x.pc = "read" /\ UNCHANGED <<history, screen, crossed, supply, strayed>>
  BY DEF ReadCommands
<1>2. x \in HttpCall(u) /\ Sound(u, history, x) /\ x.what \in {"shift", "press"}
  BY <1>1, CallIs DEF Sound, Shaped
<1>3. CASE Responds(i, FALSE)
  BY <1>1, <1>3, RespondsIs, <1>2, DocsMove DEF DocsIInv
<1>4. CASE calls' = [calls EXCEPT ![i] = [x EXCEPT !.pc = "create", !.value = Evaluated(x)]]
  <2>. DEFINE v == Evaluated(x)
              y == [x EXCEPT !.pc = "create", !.value = v]
  <2>1. (x.what = "shift" => v = x.arg /\ x.arg \in Modes) /\ (x.what = "press" => v \in {"on", "off"})
    BY <1>1, <1>2, EvaluatedIs
  <2>. HIDE DEF v
  <2>2. v \in Modes \cup {"on", "off", "none"} /\ "create" \in Stages
    BY <1>2, <2>1 DEF Stages
  <2>3. y \in HttpCall(u) /\ Kin(y, x) /\ y.page = x.page /\ y.pc = "create" /\ y.value = v
    BY <1>2, <2>2 DEF HttpCall, Kin
  <2>4. calls' = [calls EXCEPT ![i] = y]
    BY <1>4 DEF v
  <2>. HIDE DEF y
  <2>5. ~Saved(y) /\ ~Concluded(y)
    BY <2>3 DEF Saved, Concluded
  <2>6. Shaped(u, y)
    BY <1>1, <1>2, <2>3 DEF Sound, Shaped, Kin
  <2>7. Describes(history, y)
    BY <1>2, <2>1, <2>3, <2>5 DEF Describes, Kin
  <2>8. Sound(u, history, y)
    BY <2>3, <2>6, <2>7 DEF Sound
  <2>9. DocsIInv' /\ Moves(i, y)
    BY <1>1, <2>3, <2>4, <2>5, <2>8, GoesOn
  <2> QED BY <1>1, <1>2, <2>3, <2>9
<1> QED BY <1>3, <1>4 DEF ReadCommands

\* A document is added, or one gets another status.
Files(d) ==
    /\ d \in Document(supply.users)
    /\ history' \in Seq(Document(supply.users)) /\ Len(history) \in Nat /\ DOMAIN history \subseteq Nat
    /\ DOMAIN history' = DOMAIN history \cup {Len(history) + 1} /\ Len(history) + 1 \notin DOMAIN history
    /\ history'[Len(history) + 1] = d
    /\ \A j \in DOMAIN history : history'[j] = history[j] /\ j <= Len(history)

Alike(d, e) ==
    /\ d.user = e.user /\ d.of = e.of /\ d.value = e.value /\ d.op = e.op
    /\ d.run = e.run /\ d.step = e.step /\ d.late = e.late

Marks(k, d) ==
    /\ d \in Document(supply.users) /\ k \in DOMAIN history /\ Alike(d, history[k])
    /\ history' \in Seq(Document(supply.users)) /\ DOMAIN history' = DOMAIN history
    /\ history'[k] = d
    /\ \A j \in DOMAIN history : j # k => history'[j] = history[j]

LEMMA FilesIs ==
    ASSUME DocsIInv, NEW d \in Document(supply.users), history' = Append(history, d)
    PROVE  Files(d)
BY Grown DEF DocsIInv, Booked, Files

\* Only an acknowledged document is not in its last state.
LEMMA FilesServed ==
    ASSUME DocsIInv, NEW i \in DOMAIN calls, NEW y \in HttpCall(supply.users), calls' = [calls EXCEPT ![i] = y],
           NEW d \in Document(supply.users), Plain(d), history' = Append(history, d),
           Sound(supply.users, history', y), Saved(y) => y.doc = Len(history) + 1,
           UNCHANGED <<screen, crossed, supply, strayed>>
    PROVE  DocsIInv' /\ Moves(i, y) /\ Files(d)
<1>. DEFINE u == supply.users
<1>1. /\ Served(u, history, calls) /\ Booked(u, history) /\ \A j \in DOMAIN calls : Sound(u, history, calls[j])
  BY DEF DocsIInv, Served
<1>2. Files(d) /\ Booked(u, history')
  BY <1>1, FilesIs, BookedAdds
<1>3. \A j \in DOMAIN calls : Saved(calls[j]) => calls[j].doc \in DOMAIN history
  BY <1>1, NoCallIs DEF Sound, Describes
<1>4. \A j \in DOMAIN calls : j # i /\ Saved(calls[j]) =>
          /\ Saved(y) => calls[j].doc # y.doc
          /\ calls[j].doc \in DOMAIN history => calls[j].doc \in DOMAIN history' /\ history'[calls[j].doc] = history[calls[j].doc]
  BY <1>2, <1>3 DEF Files
<1>5. Served(u, history', [calls EXCEPT ![i] = y])
  BY <1>1, <1>4, ServedMoves
<1> QED BY <1>2, <1>5, MovesIs, DocsMove DEF DocsIInv

LEMMA CreateCommandDoes ==
    ASSUME DocsIInv, NEW i \in DOMAIN calls, CreateCommand(i)
    PROVE  /\ DocsIInv' /\ calls[i].pc = "create" /\ calls[i].what \in {"shift", "press"}
           /\ UNCHANGED <<screen, crossed, supply, strayed>>
           /\ \E y, d : /\ Moves(i, y) /\ Kin(y, calls[i]) /\ y.page = calls[i].page
                        /\ y.pc = "authorized" /\ y.doc = Len(history) + 1 /\ y.value = calls[i].value
                        /\ Files(d) /\ d.status = "requested" /\ d.step = 0 /\ d.of = calls[i].of
<1>. DEFINE x == calls[i]
            u == supply.users
            n == Len(history) + 1
            y == [x EXCEPT !.pc = "authorized", !.doc = n]
            d == Requested(x)
<1>1. /\ x.pc = "create" /\ history' = Append(history, d) /\ calls' = [calls EXCEPT ![i] = y]
      /\ UNCHANGED <<screen, crossed, supply, strayed>>
  BY DEF CreateCommand
<1>2. /\ x \in HttpCall(u) /\ Shaped(u, x) /\ Describes(history, x) /\ x.what \in {"shift", "press"}
      /\ history \in Seq(Document(u))
  BY <1>1, CallIs DEF Sound, Shaped
<1>3. n \in Nat /\ "authorized" \in Stages
  BY <1>2, Grown DEF Stages
<1>. HIDE DEF n
<1>4. /\ y \in HttpCall(u) /\ Kin(y, x) /\ y.page = x.page /\ y.pc = "authorized"
      /\ y.doc = n /\ y.value = x.value
  BY <1>2, <1>3 DEF HttpCall, Kin
<1>5. /\ d.user = x.user /\ d.of = x.of /\ d.status = "requested" /\ d.value = x.value /\ d.step = 0
      /\ d.op = 0 /\ d.run = 0 /\ d.audited = FALSE /\ d.late = FALSE
      /\ d = [user |-> d.user, of |-> d.of, status |-> d.status, value |-> d.value, op |-> d.op,
              run |-> d.run, step |-> d.step, audited |-> d.audited, late |-> d.late]
  BY DEF Requested
<1>. HIDE DEF y, d, x
<1>6. /\ x.what = "shift" => x.value = x.arg /\ x.arg \in Modes /\ x.of = "shifter"
      /\ x.what = "press" => x.value \in {"on", "off"} /\ x.of \in Buttons /\ x.of # "shifter"
      /\ x.user \in {u[p] : p \in DOMAIN u}
  BY <1>1, <1>2, ControlAssumption DEF Shaped, Describes
<1>7. d \in Document(u)
  <2>1. d.of \in Buttons \cup {"shifter"} /\ d.value \in Modes \cup {"on", "off"}
    BY <1>5, <1>6, <1>2
  <2>2. d.user \in {u[p] : p \in DOMAIN u}
    BY <1>5, <1>6
  <2>3. d.op \in Nat /\ d.run \in Nat /\ d.step \in Nat
    BY <1>5
  <2>4. d.audited \in BOOLEAN
    BY <1>5
  <2>5. d.late \in BOOLEAN
    BY <1>5
  <2>6. d.status \in {"requested", "authorized", "dispatched", "acknowledged"}
    BY <1>5
  <2> QED BY <1>5, <2>1, <2>2, <2>3, <2>4, <2>5, <2>6 DEF Document
<1>8. Plain(d)
  BY <1>2, <1>5, <1>6 DEF Plain
<1>9. Files(d)
  BY <1>1, <1>7, FilesIs
<1>10. Sound(u, history', y)
  <2>1. Shaped(u, y)
    BY <1>1, <1>2, <1>4 DEF Shaped, Kin
  <2>2. ~Concluded(y) /\ y.pc # "create"
    BY <1>4 DEF Concluded
  <2>3. y.doc \in DOMAIN history' /\ history'[y.doc] = d
    BY <1>4, <1>9 DEF Files, n
  <2>4. Describes(history', y)
    BY <1>2, <1>4, <1>5, <1>6, <2>2, <2>3 DEF Describes, Kin
  <2> QED BY <1>4, <2>1, <2>4 DEF Sound
<1>11. DocsIInv' /\ Moves(i, y)
  BY <1>1, <1>4, <1>7, <1>8, <1>10, FilesServed DEF n
<1> QED BY <1>1, <1>2, <1>4, <1>5, <1>9, <1>11 DEF n, x

LEMMA MarksServed ==
    ASSUME DocsIInv, NEW i \in DOMAIN calls, NEW y \in HttpCall(supply.users), calls' = [calls EXCEPT ![i] = y],
           Saved(calls[i]), NEW d \in Document(supply.users), Plain(d), Alike(d, history[calls[i].doc]),
           history' = [history EXCEPT ![calls[i].doc] = d],
           Sound(supply.users, history', y), y.doc = calls[i].doc,
           UNCHANGED <<screen, crossed, supply, strayed>>
    PROVE  DocsIInv' /\ Moves(i, y) /\ Marks(y.doc, d)
<1>. DEFINE u == supply.users
            k == calls[i].doc
<1>1. /\ Served(u, history, calls) /\ Booked(u, history) /\ \A j \in DOMAIN calls : Sound(u, history, calls[j])
      /\ history \in Seq(Document(u))
  BY DEF DocsIInv, Served, Booked
<1>2. k \in DOMAIN history
  BY <1>1, NoCallIs DEF Sound, Describes
<1>3. Marks(y.doc, d) /\ Booked(u, history')
  BY <1>1, <1>2, BookedMoves, Changed DEF Marks
<1>4. \A j \in DOMAIN calls : j # i /\ Saved(calls[j]) => calls[j].doc # k
  BY <1>1 DEF Served
<1>5. \A j \in DOMAIN calls : j # i /\ Saved(calls[j]) =>
          /\ Saved(y) => calls[j].doc # y.doc
          /\ calls[j].doc \in DOMAIN history => calls[j].doc \in DOMAIN history' /\ history'[calls[j].doc] = history[calls[j].doc]
  BY <1>3, <1>4 DEF Marks
<1>6. Served(u, history', [calls EXCEPT ![i] = y])
  BY <1>1, <1>5, ServedMoves
<1> QED BY <1>3, <1>6, MovesIs, DocsMove DEF DocsIInv

LEMMA SaveCommandDoes ==
    ASSUME DocsIInv, NEW i \in DOMAIN calls, SaveCommand(i)
    PROVE  /\ DocsIInv' /\ calls[i].pc \in {"authorized", "dispatched", "acknowledged"} /\ Saved(calls[i])
           /\ UNCHANGED <<screen, crossed, supply, strayed>>
           /\ \E y, d : /\ Moves(i, y) /\ Kin(y, calls[i]) /\ y.page = calls[i].page /\ y.doc = calls[i].doc
                        /\ y.value = calls[i].value /\ Saved(y)
                        /\ IF calls[i].pc = "acknowledged" THEN Concluded(y) ELSE y.pc \in {"audit", "acknowledged"}
                        /\ Marks(y.doc, d) /\ d.status = calls[i].pc /\ d.step = 0
                        /\ history[y.doc].status # "acknowledged"
<1>. DEFINE x == calls[i]
            u == supply.users
            e == history[x.doc]
            d == [e EXCEPT !.status = x.pc]
            pc == IF x.pc = "authorized" THEN "audit" ELSE IF x.pc = "dispatched" THEN "acknowledged"
                  ELSE "conclude"
            y == [x EXCEPT !.pc = pc]
<1>1. /\ x.pc \in {"authorized", "dispatched", "acknowledged"} /\ calls' = [calls EXCEPT ![i] = y]
      /\ UNCHANGED <<screen, crossed, supply, strayed>>
  BY DEF SaveCommand, Reaches
<1>2. /\ x \in HttpCall(u) /\ Shaped(u, x) /\ Describes(history, x) /\ x.what \in {"shift", "press"}
      /\ history \in Seq(Document(u)) /\ Booked(u, history)
  BY <1>1, CallIs DEF Sound, Shaped
<1>3. pc \in Stages
  BY DEF Stages
<1>4. y \in HttpCall(u) /\ Kin(y, x) /\ y.page = x.page /\ y.pc = pc /\ y.doc = x.doc /\ y.value = x.value
  BY <1>2, <1>3, Reached
<1>5. Saved(x) /\ ~Concluded(x)
  BY <1>1, <1>2 DEF Saved, Concluded
<1>6. /\ x.doc \in DOMAIN history /\ e.user = x.user /\ e.of = x.of /\ e.value = x.value /\ e.step = 0
      /\ e.status # "acknowledged" /\ (x.pc # "authorized" => e.audited)
  BY <1>1, <1>2, <1>5 DEF Describes
<1>7. e \in Document(u) /\ Plain(e)
  BY <1>2, <1>6 DEF Booked
<1>8. history' = [history EXCEPT ![x.doc] = d]
  BY <1>2, <1>6 DEF SaveCommand
<1>. HIDE DEF e
<1>9. d \in Document(u) /\ Alike(d, e) /\ d.status = x.pc /\ d.audited = e.audited
  BY <1>1, <1>7 DEF Document, Alike
<1>. HIDE DEF d, y
<1>10. Plain(d)
  BY <1>1, <1>6, <1>7, <1>9 DEF Plain, Alike
<1>11. Saved(y) /\ (Concluded(y) <=> x.pc = "acknowledged") /\ y.pc # "create"
  BY <1>1, <1>2, <1>4 DEF Saved, Concluded, Kin
<1>12. Sound(u, history', y)
  <2>1. Shaped(u, y)
    BY <1>1, <1>2, <1>4 DEF Shaped, Kin
  <2>2. y.doc \in DOMAIN history' /\ history'[y.doc] = d
    BY <1>2, <1>4, <1>6, <1>8, <1>9, Changed
  <2>3. y.pc \in {"dispatched", "acknowledged"} \/ Concluded(y) => x.pc # "authorized"
    BY <1>1, <1>4, <1>11
  <2>4. Describes(history', y)
    BY <1>2, <1>4, <1>5, <1>6, <1>9, <1>11, <2>2, <2>3 DEF Describes, Kin, Alike
  <2> QED BY <1>1, <1>4, <2>1, <2>4 DEF Sound
<1>13. DocsIInv' /\ Moves(i, y) /\ Marks(y.doc, d)
  BY <1>1, <1>4, <1>5, <1>8, <1>9, <1>10, <1>12, MarksServed DEF e
<1>14. IF x.pc = "acknowledged" THEN Concluded(y) ELSE y.pc \in {"audit", "acknowledged"}
  BY <1>1, <1>4, <1>11
<1> QED BY <1>1, <1>4, <1>5, <1>6, <1>9, <1>11, <1>13, <1>14 DEF Alike, e

LEMMA AuditAuthorizationDoes ==
    ASSUME DocsIInv, NEW i \in DOMAIN calls, AuditAuthorization(i)
    PROVE  /\ DocsIInv' /\ calls[i].pc = "audit" /\ Saved(calls[i])
           /\ UNCHANGED <<screen, crossed, supply, strayed>>
           /\ \E y, d : /\ Moves(i, y) /\ Kin(y, calls[i]) /\ y.page = calls[i].page /\ y.doc = calls[i].doc
                        /\ y.value = calls[i].value /\ Saved(y) /\ y.pc = "dispatched"
                        /\ Marks(y.doc, d) /\ d.status = history[y.doc].status /\ d.step = 0
                        /\ history[y.doc].status # "acknowledged"
<1>. DEFINE x == calls[i]
            u == supply.users
            e == history[x.doc]
            d == [e EXCEPT !.audited = TRUE]
            y == [x EXCEPT !.pc = "dispatched"]
<1>1. x.pc = "audit" /\ calls' = [calls EXCEPT ![i] = y] /\ UNCHANGED <<screen, crossed, supply, strayed>>
  BY DEF AuditAuthorization, Reaches
<1>2. /\ x \in HttpCall(u) /\ Shaped(u, x) /\ Describes(history, x) /\ x.what \in {"shift", "press"}
      /\ history \in Seq(Document(u)) /\ Booked(u, history)
  BY <1>1, CallIs DEF Sound, Shaped
<1>3. "dispatched" \in Stages
  BY DEF Stages
<1>4. y \in HttpCall(u) /\ Kin(y, x) /\ y.page = x.page /\ y.pc = "dispatched" /\ y.doc = x.doc /\ y.value = x.value
  BY <1>2, <1>3, Reached
<1>5. Saved(x) /\ ~Concluded(x)
  BY <1>1, <1>2 DEF Saved, Concluded
<1>6. /\ x.doc \in DOMAIN history /\ e.user = x.user /\ e.of = x.of /\ e.value = x.value /\ e.step = 0
      /\ e.status # "acknowledged"
  BY <1>1, <1>2, <1>5 DEF Describes
<1>7. e \in Document(u) /\ Plain(e)
  BY <1>2, <1>6 DEF Booked
<1>8. history' = [history EXCEPT ![x.doc] = d]
  BY <1>2, <1>6 DEF AuditAuthorization
<1>. HIDE DEF e
<1>9. d \in Document(u) /\ Alike(d, e) /\ d.status = e.status /\ d.audited = TRUE
  BY <1>1, <1>7 DEF Document, Alike
<1>. HIDE DEF d, y
<1>10. Plain(d)
  BY <1>1, <1>6, <1>7, <1>9 DEF Plain, Alike
<1>11. Saved(y) /\ ~Concluded(y) /\ y.pc # "create"
  BY <1>1, <1>2, <1>4 DEF Saved, Concluded, Kin
<1>12. Sound(u, history', y)
  <2>1. Shaped(u, y)
    BY <1>1, <1>2, <1>4 DEF Shaped, Kin
  <2>2. y.doc \in DOMAIN history' /\ history'[y.doc] = d
    BY <1>2, <1>4, <1>6, <1>8, <1>9, Changed
  <2>4. Describes(history', y)
    BY <1>2, <1>4, <1>5, <1>6, <1>9, <1>11, <2>2 DEF Describes, Kin, Alike
  <2> QED BY <1>1, <1>4, <2>1, <2>4 DEF Sound
<1>13. DocsIInv' /\ Moves(i, y) /\ Marks(y.doc, d)
  BY <1>1, <1>4, <1>5, <1>8, <1>9, <1>10, <1>12, MarksServed DEF e
<1> QED BY <1>1, <1>4, <1>5, <1>6, <1>9, <1>11, <1>13 DEF Alike, e

LEMMA AcknowledgeStepDoes ==
    ASSUME DocsIInv, NEW i \in DOMAIN calls, AcknowledgeStep(i)
    PROVE  /\ DocsIInv' /\ calls[i].pc = "record" /\ calls[i].what = "step" /\ calls[i].step \in DOMAIN Recipe
           /\ UNCHANGED <<screen, crossed, supply, strayed>>
           /\ \E y, d : /\ Moves(i, y) /\ Kin(y, calls[i]) /\ y.page = calls[i].page /\ y.pc = "conclude"
                        /\ y.value = Recipe[calls[i].step].value
                        /\ Files(d) /\ d.status = "acknowledged" /\ d.user = calls[i].user /\ d.of = calls[i].of
                        /\ d.of \in Buttons /\ d.op = calls[i].op /\ d.run = calls[i].run /\ d.step = calls[i].step
                        /\ d.value = y.value /\ d.value \in {"on", "off"} /\ d.late = ~IsActive(calls[i])
<1>. DEFINE x == calls[i]
            u == supply.users
            v == Recipe[x.step].value
            late == ~IsActive(x)
            y == [x EXCEPT !.pc = "conclude", !.value = v]
            d == [user |-> x.user, of |-> x.of, status |-> "acknowledged", value |-> v,
                  op |-> x.op, run |-> x.run, step |-> x.step, audited |-> FALSE, late |-> late]
<1>1. /\ x.pc = "record" /\ history' = Append(history, d) /\ calls' = [calls EXCEPT ![i] = y]
      /\ UNCHANGED <<screen, crossed, supply, strayed>>
  BY DEF AcknowledgeStep, PlannedStep
<1>2. /\ x \in HttpCall(u) /\ Shaped(u, x) /\ x.what = "step" /\ history \in Seq(Document(u))
  BY <1>1, CallIs DEF Sound, Shaped
<1>3. x.step \in DOMAIN Recipe /\ x.of = Recipe[x.step].button /\ x.user \in {u[p] : p \in DOMAIN u}
  BY <1>2 DEF Shaped
<1>4. x.of \in Buttons /\ v \in {"on", "off"} /\ x.of # "shifter"
  BY <1>3, RecipeIs
<1>5. x.step \in Nat /\ x.op \in Nat /\ x.run \in Nat
  BY <1>2 DEF HttpCall
<1>6. late \in BOOLEAN /\ "conclude" \in Stages
  BY DEF Stages
<1>. HIDE DEF late, v
<1>7. y \in HttpCall(u) /\ Kin(y, x) /\ y.page = x.page /\ y.pc = "conclude" /\ y.value = v
  BY <1>2, <1>4, <1>6 DEF HttpCall, Kin
<1>8. d \in Document(u)
  BY <1>3, <1>4, <1>5, <1>6 DEF Document
<1>9. /\ d.user = x.user /\ d.of = x.of /\ d.status = "acknowledged" /\ d.value = v
      /\ d.op = x.op /\ d.run = x.run /\ d.step = x.step /\ d.late = late
  OBVIOUS
<1>. HIDE DEF y, d
<1>10. x.step > 0
  BY <1>3, ControlAssumption
<1>11. Plain(d)
  BY <1>4, <1>5, <1>9, <1>10 DEF Plain
<1>12. Sound(u, history', y)
  BY <1>2, <1>7 DEF Shaped, Kin, Saved, Describes, v, Sound
<1>13. ~Saved(y)
  BY <1>2, <1>7 DEF Saved, Kin
<1>14. DocsIInv' /\ Moves(i, y) /\ Files(d)
  BY <1>1, <1>7, <1>8, <1>11, <1>12, <1>13, FilesServed
<1> QED BY <1>1, <1>2, <1>3, <1>4, <1>7, <1>9, <1>14 DEF v, late

-----------------------------------------------------------------------------
\* Calls fade; one may be added.
Fade == /\ calls' \in Seq(HttpCall(supply.users)) /\ DOMAIN calls' = DOMAIN calls
        /\ \A j \in DOMAIN calls : Fades(calls'[j], calls[j])

Adds(n, z) ==
    /\ z \in HttpCall(supply.users) /\ Sound(supply.users, history, z) /\ ~Saved(z)
    /\ calls' \in Seq(HttpCall(supply.users)) /\ DOMAIN calls' = DOMAIN calls \cup {n} /\ n \notin DOMAIN calls
    /\ n \in Nat /\ calls'[n] = z
    /\ \A j \in DOMAIN calls : Fades(calls'[j], calls[j])

LEMMA FadeIs ==
    ASSUME DocsIInv, NEW d \in Seq(HttpCall(supply.users)), DOMAIN d = DOMAIN calls,
           \A j \in DOMAIN calls : Fades(d[j], calls[j]), calls' = d
    PROVE  Fade /\ Served(supply.users, history, calls')
BY ServedFades DEF DocsIInv, Fade

LEMMA AddsIs ==
    ASSUME DocsIInv, NEW d \in Seq(HttpCall(supply.users)), DOMAIN d = DOMAIN calls, Len(d) = Len(calls),
           \A j \in DOMAIN calls : Fades(d[j], calls[j]),
           NEW z \in HttpCall(supply.users), Sound(supply.users, history, z), ~Saved(z), calls' = Append(d, z)
    PROVE  /\ Adds(Len(calls) + 1, z) /\ Served(supply.users, history, calls')
           /\ \A j \in DOMAIN calls : calls'[j] = d[j]
BY ServedFades, ServedAdds, Grown DEF DocsIInv, Adds

\* A call is closed.
LEMMA ClosedIs ==
    ASSUME DocsIInv, NEW i \in DOMAIN calls
    PROVE  /\ Closed(i) \in Seq(HttpCall(supply.users)) /\ DOMAIN Closed(i) = DOMAIN calls /\ Len(Closed(i)) = Len(calls)
           /\ Closed(i)[i] = NoCall /\ \A j \in DOMAIN calls : j # i => Closed(i)[j] = calls[j]
           /\ \A j \in DOMAIN calls : Fades(Closed(i)[j], calls[j])
BY CallIs, NoCallIs, Changed, GivenUpFades DEF Closed, Fades

LEMMA AskForRunDoes ==
    ASSUME DocsIInv, NEW i \in DOMAIN calls, calls[i].pc = "answered", calls[i].ok, AskForRun(i),
           UNCHANGED <<history, supply, crossed>>
    PROVE  /\ DocsIInv' /\ calls[i].what = "shift" /\ calls[i].arg = "auto" /\ calls[i].page # Nobody
           /\ Concluded(calls[i]) /\ Saved(calls[i])
           /\ UNCHANGED <<screen, strayed>>
           /\ calls'[i] = NoCall /\ \A j \in DOMAIN calls : j # i => calls'[j] = calls[j]
           /\ \E n, z : /\ Adds(n, z) /\ z.pc = "check" /\ z.page = calls[i].page /\ z.user = calls[i].user
                        /\ z.what = "start" /\ z.of = "shifter" /\ z.op = calls[i].doc
<1>. DEFINE x == calls[i]
            u == supply.users
            z == [NoCall EXCEPT !.pc = "check", !.page = x.page, !.user = x.user,
                                !.what = "start", !.of = "shifter", !.op = x.doc]
<1>1. /\ x.what = "shift" /\ x.arg = "auto" /\ calls' = Append(Closed(i), z) /\ UNCHANGED <<screen, strayed>>
  BY DEF AskForRun
<1>2. /\ x \in HttpCall(u) /\ Shaped(u, x) /\ Describes(history, x)
  BY CallIs DEF Sound
<1>3. Concluded(x) /\ Saved(x) /\ x.page # Nobody
  BY <1>1, <1>2 DEF Concluded, Saved, Shaped
<1>4. x.page \in ControlPages \cup {Nobody} /\ x.user \in {u[p] : p \in DOMAIN u} /\ x.doc \in Nat /\ x.page \in DOMAIN u \cup {Nobody}
      /\ (x.page # Nobody => x.user = u[x.page])
  BY <1>2 DEF HttpCall, Shaped
<1>5. /\ z.pc = "check" /\ z.page = x.page /\ z.user = x.user /\ z.what = "start" /\ z.of = "shifter" /\ z.op = x.doc
      /\ z \in HttpCall(u)
  <2>1. NoCall \in HttpCall(u)
    BY NoCallIs
  <2>. HIDE DEF x
  <2> QED BY <1>4, <2>1 DEF HttpCall, Stages
<1>. HIDE DEF z, x
<1>6. z \in HttpCall(u)
  BY <1>5
<1>7. ~Saved(z) /\ ~Concluded(z)
  BY <1>5 DEF Saved, Concluded
<1>8. Sound(u, history, z)
  BY <1>4, <1>5, <1>7 DEF Sound, Shaped, Describes
<1>9. /\ Adds(Len(calls) + 1, z) /\ Served(u, history, calls')
      /\ \A j \in DOMAIN calls : calls'[j] = Closed(i)[j]
  BY <1>1, <1>6, <1>7, <1>8, ClosedIs, AddsIs
<1>10. calls'[i] = NoCall /\ \A j \in DOMAIN calls : j # i => calls'[j] = calls[j]
  BY <1>9, ClosedIs
<1>11. DocsIInv'
  BY <1>1, <1>9, DocsMove DEF DocsIInv
<1> QED BY <1>1, <1>3, <1>5, <1>9, <1>10, <1>11 DEF x

LEMMA TakeAnswerDoes ==
    ASSUME DocsIInv, NEW i \in DOMAIN calls, calls[i].pc = "answered", TakeAnswer(i),
           UNCHANGED <<history, supply, crossed>>
    PROVE  LET x == calls[i] IN
           /\ DocsIInv' /\ ~(x.ok /\ x.what = "shift" /\ x.arg = "auto")
           /\ Fade /\ calls'[i] = NoCall /\ \A j \in DOMAIN calls : j # i => calls'[j] = calls[j]
           /\ x.page \in ControlPages
           /\ screen'[x.page] = IF ~x.ok THEN AfterFailure(screen[x.page], x)
                                ELSE IF x.what = "shift" THEN AfterShift(screen[x.page], x)
                                ELSE IF x.what = "start" THEN AfterStart(screen[x.page], x, i)
                                ELSE IF x.what = "press" THEN AfterPress(screen[x.page], x)
                                ELSE AfterStep(screen[x.page], x)
           /\ \A q \in ControlPages : q # x.page => screen'[q] = screen[q]
           /\ strayed' = (strayed \/ (~x.ok /\ x.what = "start"))
<1>. DEFINE x == calls[i]
            u == supply.users
            s == screen[x.page]
            w == IF ~x.ok THEN AfterFailure(s, x)
                 ELSE IF x.what = "shift" THEN AfterShift(s, x)
                 ELSE IF x.what = "start" THEN AfterStart(s, x, i)
                 ELSE IF x.what = "press" THEN AfterPress(s, x) ELSE AfterStep(s, x)
<1>1. /\ ~(x.ok /\ x.what = "shift" /\ x.arg = "auto") /\ calls' = Closed(i) /\ Shows(x.page, w)
      /\ strayed' = (strayed \/ (~x.ok /\ x.what = "start"))
  BY DEF TakeAnswer
<1>2. /\ x \in HttpCall(u) /\ Shaped(u, x) /\ Describes(history, x) /\ x.page # Nobody
  BY CallIs DEF Sound, Shaped
<1>3. x.page \in ControlPages /\ x.op \in Nat /\ x.step \in Nat /\ i \in Nat /\ x.ok \in BOOLEAN
  <2>1. calls \in Seq(HttpCall(u))
    BY CallIs
  <2>2. i \in Nat
    BY <2>1, Grown, NoCallIs
  <2> QED BY <1>2, <2>2 DEF HttpCall
<1>4. s \in View
  BY <1>3 DEF DocsIInv
<1>5. w \in View
  <2>1. CASE ~x.ok
    BY <2>1, <1>4, FailureShows
  <2>2. CASE x.ok /\ x.what = "shift"
    BY <2>2, <1>2, <1>4, ShiftShows DEF Shaped
  <2>3. CASE x.ok /\ x.what = "start"
    BY <2>3, <1>3, <1>4, StartShows
  <2>4. CASE x.ok /\ x.what = "press"
    BY <2>4, <1>2, <1>4, PressShows DEF Concluded, Saved, Shaped, Describes
  <2>5. CASE x.ok /\ x.what = "step"
    BY <2>5, <1>2, RecipeIs, <1>3, <1>4, StepShows DEF Concluded, Shaped, Describes
  <2>6. x.what \in {"shift", "start", "press", "step"}
    BY <1>2 DEF Shaped
  <2> QED BY <2>1, <2>2, <2>3, <2>4, <2>5, <2>6
<1>. HIDE DEF w
<1>6. Fade /\ Served(u, history, calls')
  BY <1>1, ClosedIs, FadeIs
<1>7. strayed' \in BOOLEAN
  BY <1>1 DEF DocsIInv
<1>8. /\ DocsIInv' /\ screen'[x.page] = w /\ \A q \in ControlPages : q # x.page => screen'[q] = screen[q]
  BY <1>1, <1>3, <1>5, <1>6, <1>7, DocsShow DEF DocsIInv
<1>9. calls'[i] = NoCall /\ \A j \in DOMAIN calls : j # i => calls'[j] = calls[j]
  BY <1>1, ClosedIs
<1> QED BY <1>1, <1>3, <1>6, <1>8, <1>9 DEF w

LEMMA LoseCallDoes ==
    ASSUME DocsIInv, NEW i \in DOMAIN calls, LoseCall(i)
    PROVE  LET x == calls[i] IN
           /\ DocsIInv' /\ x.pc # "done" /\ x.page \in ControlPages
           /\ Fade /\ calls'[i].page = Nobody /\ \A j \in DOMAIN calls : j # i => calls'[j] = calls[j]
           /\ screen'[x.page] = AfterFailure(screen[x.page], x)
           /\ \A q \in ControlPages : q # x.page => screen'[q] = screen[q]
           /\ strayed' = TRUE /\ supply'.users = supply.users /\ UNCHANGED <<history, crossed>>
<1>. DEFINE x == calls[i]
            u == supply.users
            w == AfterFailure(screen[x.page], x)
            y == GivenUp(x)
<1>1. /\ x.pc # "done" /\ x.page # Nobody /\ Spends("losses") /\ calls' = [calls EXCEPT ![i] = y]
      /\ Shows(x.page, w) /\ strayed' = TRUE /\ UNCHANGED <<history, crossed>>
  BY DEF LoseCall
<1>2. x \in HttpCall(u) /\ Sound(u, history, x) /\ calls \in Seq(HttpCall(u))
  BY CallIs
<1>3. x.page \in ControlPages
  BY <1>1, <1>2 DEF HttpCall
<1>4. w \in View
  BY <1>3, FailureShows DEF DocsIInv
<1>5. y \in HttpCall(u) /\ Fades(y, x) /\ y.page = Nobody
  BY <1>2, GivenUpFades
<1>. HIDE DEF w, y
<1>6. calls' \in Seq(HttpCall(u)) /\ DOMAIN calls' = DOMAIN calls /\ calls'[i] = y /\ \A j \in DOMAIN calls : j # i => calls'[j] = calls[j]
  BY <1>1, <1>2, <1>5, Changed
<1>7. \A j \in DOMAIN calls : Fades(calls[j], calls[j])
  BY CallIs, GivenUpFades
<1>8. Fade /\ Served(u, history, calls')
  BY <1>5, <1>6, <1>7, FadeIs
<1>9. crossed' \subseteq Buttons /\ strayed' \in BOOLEAN /\ supply'.users = supply.users /\ "users" \in DOMAIN supply'
  BY <1>1, SpendsUsers DEF DocsIInv
<1>10. DocsIInv' /\ screen'[x.page] = w /\ \A q \in ControlPages : q # x.page => screen'[q] = screen[q]
  BY <1>1, <1>3, <1>4, <1>8, <1>9, DocsShow
<1> QED BY <1>1, <1>3, <1>5, <1>6, <1>8, <1>9, <1>10 DEF w

LEMMA ReloadDoes ==
    ASSUME DocsIInv, NEW p \in OpenPages, Reload(p)
    PROVE  /\ DocsIInv' /\ p \in ControlPages
           /\ Fade /\ \A j \in DOMAIN calls : IF calls[j].page = p THEN calls'[j].page = Nobody ELSE calls'[j] = calls[j]
           /\ screen'[p] = Restored /\ \A q \in ControlPages : q # p => screen'[q] = screen[q]
           /\ strayed' = (strayed \/ \E j \in DOMAIN calls : calls[j].page = p)
           /\ supply'.users = supply.users /\ UNCHANGED <<history, crossed>>
<1>. DEFINE u == supply.users
            js == CallsOf(p)
<1>1. /\ Spends("reloads") /\ Shows(p, Restored) /\ strayed' = (strayed \/ js # {}) /\ UNCHANGED <<history, crossed>>
      /\ calls' = Left(calls, js)
  BY DEF Reload, Left
<1>2. p \in ControlPages /\ Served(u, history, calls) /\ Booked(u, history)
  BY DEF DocsIInv
<1>3. \A j \in DOMAIN calls : j \in js <=> calls[j].page = p
  BY DEF CallsOf
<1>4. js # {} <=> \E j \in DOMAIN calls : calls[j].page = p
  BY DEF CallsOf
<1>. HIDE DEF js
<1>5. /\ Left(calls, js) \in Seq(HttpCall(u)) /\ DOMAIN Left(calls, js) = DOMAIN calls
      /\ \A j \in DOMAIN calls : /\ Fades(Left(calls, js)[j], calls[j])
                                 /\ j \in js => Left(calls, js)[j].page = Nobody
                                 /\ j \notin js => Left(calls, js)[j] = calls[j]
  BY <1>2, LeftFades
<1>6. Fade /\ Served(u, history, calls')
  BY <1>1, <1>5, FadeIs
<1>7. crossed' \subseteq Buttons /\ strayed' \in BOOLEAN /\ supply'.users = supply.users /\ "users" \in DOMAIN supply'
  BY <1>1, SpendsUsers DEF DocsIInv
<1>8. DocsIInv' /\ screen'[p] = Restored /\ \A q \in ControlPages : q # p => screen'[q] = screen[q]
  BY <1>1, <1>2, <1>6, <1>7, RestoredIs, DocsShow
<1> QED BY <1>1, <1>2, <1>3, <1>4, <1>5, <1>6, <1>7, <1>8

\* A request of a page is sent.
LEMMA SendsIs ==
    ASSUME DocsIInv, NEW z \in HttpCall(supply.users), Sound(supply.users, history, z), ~Saved(z), NEW js, Sends(z, js),
           \A j \in js : j \in DOMAIN calls /\ calls[j].what = "step"
    PROVE  /\ Adds(Len(calls) + 1, z) /\ Served(supply.users, history, calls') /\ crossed' \subseteq Buttons
           /\ \A j \in DOMAIN calls : IF j \in js THEN calls'[j].page = Nobody ELSE calls'[j] = calls[j]
           /\ \A b \in Buttons \ crossed' :
                  /\ b \notin crossed /\ \A j \in js : calls[j].of # b
                  /\ b \in Affects(z) => \A j \in DOMAIN calls : calls[j].pc # "done" => b \notin Affects(calls[j])
<1>. DEFINE u == supply.users
            d == Left(calls, js)
<1>1. Served(u, history, calls)
  BY DEF DocsIInv
<1>2. /\ d \in Seq(HttpCall(u)) /\ DOMAIN d = DOMAIN calls /\ Len(d) = Len(calls)
      /\ \A j \in DOMAIN calls : /\ Fades(d[j], calls[j])
                                 /\ j \in js => d[j].page = Nobody
                                 /\ j \notin js => d[j] = calls[j]
  BY <1>1, LeftFades
<1>3. /\ calls' = Append(d, z) /\ crossed' \subseteq Buttons
      /\ \A b \in Buttons \ crossed' :
             /\ b \notin crossed /\ \A j \in js : calls[j].of # b
             /\ b \in Affects(z) => \A j \in DOMAIN calls : calls[j].pc # "done" => b \notin Affects(calls[j])
  BY CrossedIs
<1>. HIDE DEF d
<1>4. /\ Adds(Len(calls) + 1, z) /\ Served(u, history, calls') /\ \A j \in DOMAIN calls : calls'[j] = d[j]
  BY <1>2, <1>3, AddsIs
<1> QED BY <1>2, <1>3, <1>4

LEMMA ShiftModeDoes ==
    ASSUME DocsIInv, NEW p \in OpenPages, NEW m \in Modes, ShiftMode(p, m)
    PROVE  /\ DocsIInv' /\ p \in ControlPages /\ p # Nobody /\ "shifter" \notin screen[p].pending /\ m # screen[p].mode
           /\ screen'[p].mode = screen[p].mode /\ screen'[p].lit = screen[p].lit /\ screen'[p].run = NoRun
           /\ screen'[p].pending = screen[p].pending \cup {"shifter"}
           /\ \A q \in ControlPages : q # p => screen'[q] = screen[q]
           /\ \A j \in DOMAIN calls :
                  IF calls[j].page = p /\ calls[j].what = "step" THEN calls'[j].page = Nobody ELSE calls'[j] = calls[j]
           /\ supply'.users = supply.users /\ UNCHANGED <<history, strayed>>
           /\ \E n, z : /\ Adds(n, z) /\ z.pc = "read" /\ z.page = p /\ z.user = supply.users[p]
                        /\ z.what = "shift" /\ z.of = "shifter" /\ z.arg = m
                        /\ \A b \in Buttons \ crossed' :
                               /\ b \notin crossed
                               /\ \A j \in DOMAIN calls : calls[j].page = p /\ calls[j].what = "step" => calls[j].of # b
                               /\ b \in Affects(z) =>
                                      \A j \in DOMAIN calls : calls[j].pc # "done" => b \notin Affects(calls[j])
<1>. DEFINE u == supply.users
            q == screen[p].pending \cup {"shifter"}
            w == [screen[p] EXCEPT !.run = NoRun, !.pending = q]
            js == StepsOf(p)
            z == [NoCall EXCEPT !.pc = "read", !.page = p, !.user = supply.users[p],
                                !.what = "shift", !.of = "shifter", !.arg = m]
<1>1. /\ "shifter" \notin screen[p].pending /\ m # screen[p].mode /\ Spends("shifts") /\ Shows(p, w) /\ Sends(z, js)
      /\ UNCHANGED <<history, strayed>>
  BY DEF ShiftMode
<1>2. p \in ControlPages /\ p \in DOMAIN u /\ p # Nobody /\ screen[p] \in View
  BY ControlAssumption DEF DocsIInv, OpenPages
<1>3. q \in Pendings
  BY <1>2, ViewIs DEF Pendings
<1>. HIDE DEF q
<1>4. /\ w \in View /\ w.mode = screen[p].mode /\ w.lit = screen[p].lit /\ w.run = NoRun /\ w.pending = q
  BY <1>2, <1>3, NoRunIs DEF View
<1>. HIDE DEF w
<1>5. /\ z.pc = "read" /\ z.page = p /\ z.user = u[p] /\ z.what = "shift" /\ z.of = "shifter" /\ z.arg = m
      /\ z \in HttpCall(u)
  BY NoCallIs, <1>2 DEF HttpCall, Stages
<1>. HIDE DEF z
<1>6. ~Saved(z) /\ ~Concluded(z)
  BY <1>5 DEF Saved, Concluded
<1>7. Sound(u, history, z)
  BY <1>2, <1>5, <1>6 DEF Sound, Shaped, Describes
<1>8. \A j \in DOMAIN calls : j \in js <=> calls[j].page = p /\ calls[j].what = "step"
  BY DEF StepsOf
<1>9. \A j \in js : j \in DOMAIN calls
  BY DEF StepsOf
<1>. HIDE DEF js
<1>10. /\ Adds(Len(calls) + 1, z) /\ Served(u, history, calls') /\ crossed' \subseteq Buttons
       /\ \A j \in DOMAIN calls : IF j \in js THEN calls'[j].page = Nobody ELSE calls'[j] = calls[j]
       /\ \A b \in Buttons \ crossed' :
              /\ b \notin crossed /\ \A j \in js : calls[j].of # b
              /\ b \in Affects(z) => \A j \in DOMAIN calls : calls[j].pc # "done" => b \notin Affects(calls[j])
  BY <1>1, <1>5, <1>6, <1>7, <1>8, <1>9, SendsIs
<1>11. strayed' \in BOOLEAN /\ supply'.users = supply.users /\ "users" \in DOMAIN supply' /\ UNCHANGED history
  BY <1>1, SpendsUsers DEF DocsIInv
<1>12. DocsIInv' /\ screen'[p] = w /\ \A r \in ControlPages : r # p => screen'[r] = screen[r]
  BY <1>1, <1>2, <1>4, <1>10, <1>11, DocsShow
<1>13. \A b \in Buttons \ crossed' :
           /\ b \notin crossed
           /\ \A j \in DOMAIN calls : calls[j].page = p /\ calls[j].what = "step" => calls[j].of # b
           /\ b \in Affects(z) => \A j \in DOMAIN calls : calls[j].pc # "done" => b \notin Affects(calls[j])
  BY <1>8, <1>10
<1>14. \A j \in DOMAIN calls :
           IF calls[j].page = p /\ calls[j].what = "step" THEN calls'[j].page = Nobody ELSE calls'[j] = calls[j]
  BY <1>8, <1>10
<1> QED BY <1>1, <1>2, <1>4, <1>5, <1>10, <1>11, <1>12, <1>13, <1>14 DEF q

LEMMA PressDoes ==
    ASSUME DocsIInv, NEW p \in OpenPages, NEW b \in Buttons, Press(p, b)
    PROVE  /\ DocsIInv' /\ p \in ControlPages /\ p # Nobody /\ screen[p].mode = "manual"
           /\ screen'[p].mode = screen[p].mode /\ screen'[p].lit = screen[p].lit /\ screen'[p].run = screen[p].run
           /\ screen'[p].pending = screen[p].pending \cup {b}
           /\ \A q \in ControlPages : q # p => screen'[q] = screen[q]
           /\ \A j \in DOMAIN calls : calls'[j] = calls[j]
           /\ supply'.users = supply.users /\ UNCHANGED <<history, strayed>>
           /\ \E n, z : /\ Adds(n, z) /\ z.pc = "read" /\ z.page = p /\ z.what = "press" /\ z.of = b
                        /\ \A a \in Buttons \ crossed' :
                               /\ a \notin crossed
                               /\ a \in Affects(z) =>
                                      \A j \in DOMAIN calls : calls[j].pc # "done" => a \notin Affects(calls[j])
<1>. DEFINE u == supply.users
            q == screen[p].pending \cup {b}
            w == [screen[p] EXCEPT !.pending = q]
            z == [NoCall EXCEPT !.pc = "read", !.page = p, !.user = supply.users[p], !.what = "press", !.of = b]
<1>1. /\ screen[p].mode = "manual" /\ Spends("presses") /\ Shows(p, w) /\ Sends(z, {})
      /\ UNCHANGED <<history, strayed>>
  BY DEF Press
<1>2. p \in ControlPages /\ p \in DOMAIN u /\ p # Nobody /\ screen[p] \in View
  BY ControlAssumption DEF DocsIInv, OpenPages
<1>3. q \in Pendings
  BY <1>2, ViewIs DEF Pendings
<1>. HIDE DEF q
<1>4. /\ w \in View /\ w.mode = screen[p].mode /\ w.lit = screen[p].lit /\ w.run = screen[p].run /\ w.pending = q
  BY <1>2, <1>3, ViewQ
<1>. HIDE DEF w
<1>5. /\ z.pc = "read" /\ z.page = p /\ z.user = u[p] /\ z.what = "press" /\ z.of = b /\ z \in HttpCall(u)
  BY NoCallIs, <1>2 DEF HttpCall, Stages
<1>. HIDE DEF z
<1>6. ~Saved(z) /\ ~Concluded(z)
  BY <1>5 DEF Saved, Concluded
<1>7. Sound(u, history, z)
  BY <1>2, <1>5, <1>6 DEF Sound, Shaped, Describes
<1>10. /\ Adds(Len(calls) + 1, z) /\ Served(u, history, calls') /\ crossed' \subseteq Buttons
       /\ \A j \in DOMAIN calls : calls'[j] = calls[j]
       /\ \A a \in Buttons \ crossed' :
              /\ a \notin crossed
              /\ a \in Affects(z) => \A j \in DOMAIN calls : calls[j].pc # "done" => a \notin Affects(calls[j])
  BY <1>1, <1>5, <1>6, <1>7, SendsIs
<1>11. strayed' \in BOOLEAN /\ supply'.users = supply.users /\ "users" \in DOMAIN supply' /\ UNCHANGED history
  BY <1>1, SpendsUsers DEF DocsIInv
<1>12. DocsIInv' /\ screen'[p] = w /\ \A r \in ControlPages : r # p => screen'[r] = screen[r]
  BY <1>1, <1>2, <1>4, <1>10, <1>11, DocsShow
<1> QED BY <1>1, <1>2, <1>4, <1>5, <1>10, <1>11, <1>12 DEF q

LEMMA PostStepDoes ==
    ASSUME DocsIInv, NEW p \in OpenPages, PostStep(p), screen[p].run.step \in DOMAIN Recipe
    PROVE  LET r == screen[p].run IN
           /\ DocsIInv' /\ p \in ControlPages /\ p # Nobody /\ r.waits
           /\ screen'[p].mode = screen[p].mode /\ screen'[p].lit = screen[p].lit
           /\ screen'[p].run = [op |-> r.op, id |-> r.id, step |-> r.step, waits |-> FALSE]
           /\ screen'[p].pending = screen[p].pending
           /\ \A q \in ControlPages : q # p => screen'[q] = screen[q]
           /\ \A j \in DOMAIN calls : calls'[j] = calls[j]
           /\ UNCHANGED <<history, strayed, supply>>
           /\ \E n, z : /\ Adds(n, z) /\ z.pc = "check" /\ z.page = p /\ z.user = supply.users[p] /\ z.what = "step"
                        /\ z.op = r.op /\ z.run = r.id /\ z.step = r.step
                        /\ \A a \in Buttons \ crossed' :
                               /\ a \notin crossed
                               /\ a \in Affects(z) =>
                                      \A j \in DOMAIN calls : calls[j].pc # "done" => a \notin Affects(calls[j])
<1>. DEFINE u == supply.users
            r == screen[p].run
            k == [r EXCEPT !.waits = FALSE]
            w == [screen[p] EXCEPT !.run = k]
            z == [NoCall EXCEPT !.pc = "check", !.page = p, !.user = supply.users[p],
                                !.what = "step", !.of = Recipe[r.step].button, !.op = r.op,
                                !.run = r.id, !.step = r.step]
<1>1. /\ r.waits /\ Shows(p, w) /\ Sends(z, {}) /\ UNCHANGED <<history, strayed, supply>>
  BY DEF PostStep
<1>2. p \in ControlPages /\ p \in DOMAIN u /\ p # Nobody /\ screen[p] \in View
  BY ControlAssumption DEF DocsIInv, OpenPages
<1>3. r \in RunRecord
  BY <1>2, ViewIs
<1>4. k \in RunRecord /\ k = [op |-> r.op, id |-> r.id, step |-> r.step, waits |-> FALSE]
  <2>. HIDE DEF r
  <2>1. k \in RunRecord /\ k.op = r.op /\ k.id = r.id /\ k.step = r.step /\ k.waits = FALSE
    BY <1>3 DEF RunRecord
  <2>. HIDE DEF k
  <2>2. k = [op |-> k.op, id |-> k.id, step |-> k.step, waits |-> k.waits]
    BY <2>1 DEF RunRecord
  <2> QED BY <2>1, <2>2
<1>. HIDE DEF k
<1>5. /\ w \in View /\ w.mode = screen[p].mode /\ w.lit = screen[p].lit /\ w.run = k /\ w.pending = screen[p].pending
  BY <1>2, <1>4, ViewR
<1>. HIDE DEF w
<1>6. Recipe[r.step].button \in Buttons /\ r.op \in Nat /\ r.id \in Nat /\ r.step \in Nat
  BY <1>3, RecipeIs DEF RunRecord
<1>7. /\ z.pc = "check" /\ z.page = p /\ z.user = u[p] /\ z.what = "step" /\ z.of = Recipe[r.step].button /\ z.op = r.op
      /\ z.run = r.id /\ z.step = r.step /\ z \in HttpCall(u)
  <2>1. NoCall \in HttpCall(u)
    BY NoCallIs
  <2>2. u[p] \in {u[x] : x \in DOMAIN u}
    BY <1>2
  <2>. HIDE DEF r
  <2> QED BY <1>2, <1>6, <2>1, <2>2 DEF HttpCall, Stages
<1>. HIDE DEF z
<1>8. ~Saved(z) /\ ~Concluded(z)
  BY <1>7 DEF Saved, Concluded
<1>9. Sound(u, history, z)
  BY <1>2, <1>7, <1>8 DEF Sound, Shaped, Describes
<1>10. /\ Adds(Len(calls) + 1, z) /\ Served(u, history, calls') /\ crossed' \subseteq Buttons
       /\ \A j \in DOMAIN calls : calls'[j] = calls[j]
       /\ \A a \in Buttons \ crossed' :
              /\ a \notin crossed
              /\ a \in Affects(z) => \A j \in DOMAIN calls : calls[j].pc # "done" => a \notin Affects(calls[j])
  BY <1>1, <1>7, <1>8, <1>9, SendsIs
<1>11. strayed' \in BOOLEAN /\ supply'.users = supply.users /\ "users" \in DOMAIN supply' /\ UNCHANGED history
  BY <1>1 DEF DocsIInv
<1>12. DocsIInv' /\ screen'[p] = w /\ \A q \in ControlPages : q # p => screen'[q] = screen[q]
  BY <1>1, <1>2, <1>5, <1>10, <1>11, DocsShow
<1> QED BY <1>1, <1>2, <1>4, <1>5, <1>7, <1>10, <1>12

-----------------------------------------------------------------------------
(* Documents are never taken back: what is known of the steps of a command *)
(* stays true until one more is taken.                                     *)
Keeps(h, g) ==
    /\ DOMAIN h \subseteq DOMAIN g
    /\ \A j \in DOMAIN h : Alike(g[j], h[j]) /\ (h[j].status = "acknowledged" => g[j].status = "acknowledged")
    /\ \A j \in DOMAIN g \ DOMAIN h : g[j].step = 0

LEMMA KeepsTaken ==
    ASSUME NEW h, NEW g, Keeps(h, g), NEW o
    PROVE  /\ Taken(g, o) = Taken(h, o)
           /\ \A l \in Taken(h, o) : g[l].step = h[l].step /\ g[l].run = h[l].run /\ g[l].late = h[l].late
BY DEF Keeps, Alike, Taken

LEMMA KeepsFollows ==
    ASSUME NEW h, NEW g, Keeps(h, g)
    PROVE  /\ \A o, r, k : Follows(h, o, r, k) => Follows(g, o, r, k)
           /\ \A o, u : Granted(h, o, u) => Granted(g, o, u)
           /\ \A o, u : Superseded(h, o, u) => Superseded(g, o, u)
BY KeepsTaken DEF Follows, Granted, Keeps, Alike, Superseded

LEMMA KeepsOrder ==
    ASSUME NEW h, NEW g, Keeps(h, g), InOrder(h)
    PROVE  InOrder(g)
<1>. SUFFICES ASSUME NEW j \in DOMAIN g, g[j].step > 0
              PROVE  LET before == {l \in Taken(g, g[j].op) : l < j} IN
                     /\ Cardinality(before) + 1 = g[j].step
                     /\ \A l \in before : g[l].step < g[j].step /\ g[l].run = g[j].run
                     /\ g[j].op < j /\ Granted(g, g[j].op, g[j].user)
                     /\ g[j].late => /\ Superseded(g, g[j].op, g[j].user)
                                     /\ \A l \in DOMAIN g : g[l].step > 0 /\ g[l].run = g[j].run => l <= j
  BY DEF InOrder
<1>1. j \in DOMAIN h /\ h[j].step > 0 /\ Alike(g[j], h[j])
  BY DEF Keeps, Alike
<1>2. /\ g[j].op = h[j].op /\ g[j].step = h[j].step /\ g[j].run = h[j].run /\ g[j].user = h[j].user /\ g[j].late = h[j].late
  BY <1>1 DEF Alike
<1>. DEFINE before == {l \in Taken(h, h[j].op) : l < j}
<1>3. /\ Cardinality(before) + 1 = h[j].step
      /\ \A l \in before : h[l].step < h[j].step /\ h[l].run = h[j].run
      /\ h[j].op < j /\ Granted(h, h[j].op, h[j].user)
      /\ h[j].late => /\ Superseded(h, h[j].op, h[j].user)
                      /\ \A l \in DOMAIN h : h[l].step > 0 /\ h[l].run = h[j].run => l <= j
  BY <1>1 DEF InOrder
<1>4. Taken(g, g[j].op) = Taken(h, h[j].op)
      /\ \A l \in Taken(h, h[j].op) : g[l].step = h[l].step /\ g[l].run = h[l].run
  BY <1>2, KeepsTaken
<1>5. {l \in Taken(g, g[j].op) : l < j} = before
  BY <1>4
<1>6. \A l \in before : g[l].step < g[j].step /\ g[l].run = g[j].run
  BY <1>2, <1>3, <1>4
<1>7. Granted(g, g[j].op, g[j].user) /\ (g[j].late => Superseded(g, g[j].op, g[j].user))
  BY <1>2, <1>3, KeepsFollows
<1>8. ASSUME g[j].late, NEW l \in DOMAIN g, g[l].step > 0, g[l].run = g[j].run PROVE l <= j
  BY <1>8, <1>2, <1>3 DEF Keeps, Alike
<1>. HIDE DEF before
<1> QED BY <1>2, <1>3, <1>5, <1>6, <1>7, <1>8

LEMMA KeepsBacked ==
    ASSUME NEW h, NEW g, Keeps(h, g), NEW x, Backed(h, x)
    PROVE  Backed(g, x)
BY KeepsTaken, KeepsFollows DEF Backed

LEMMA KeepsGoes ==
    ASSUME NEW h, NEW g, Keeps(h, g), NEW u, NEW p, NEW r, Goes(h, u, p, r)
    PROVE  Goes(g, u, p, r)
BY KeepsFollows DEF Goes

LEMMA KeepsPairs ==
    ASSUME NEW h, NEW g, Keeps(h, g), NEW c, NEW s
    PROVE  Pairs(g, c, s) = Pairs(h, c, s)
BY DEF Keeps, Alike, Pairs

\* A document that is marked or filed.
LEMMA MarksKeeps ==
    ASSUME NEW k, NEW d, Marks(k, d), history[k].status = "acknowledged" => d.status = "acknowledged"
    PROVE  Keeps(history, history')
BY DEF Marks, Keeps, Alike

LEMMA FilesKeeps ==
    ASSUME NEW d, Files(d), d.step = 0
    PROVE  Keeps(history, history')
BY DEF Files, Keeps, Alike

LEMMA SameKeeps ==
    ASSUME NEW h
    PROVE  Keeps(h, h)
BY DEF Keeps, Alike

-----------------------------------------------------------------------------
\* A call stays what it is, though nobody may wait for it any more.
Stays(y, x) == y = NoCall \/ (x.pc # "done" /\ Kin(y, x) /\ y.page \in {x.page, Nobody})

LEMMA FadesStays ==
    ASSUME NEW u, NEW h, NEW x \in HttpCall(u), NEW y \in HttpCall(u), Sound(u, h, x), Fades(y, x)
    PROVE  /\ Stays(y, x) /\ (Bearing(y) => Bearing(x) /\ Borne(y) = Borne(x)) /\ (x.pc = "done" => y.pc = "done")
           /\ \A g : Backed(g, x) => Backed(g, y)
BY FadedIsSound, NoCallIs DEF Backed, Stays, Fades, Saved, Concluded, Kin

LEMMA StaysBears ==
    ASSUME NEW c, NEW d, NEW s, DOMAIN d = DOMAIN c, OneBears(c, s), Minded(c, s),
           \A j \in DOMAIN c : d[j] = c[j] \/ Stays(d[j], c[j]),
           \A j \in DOMAIN c : Bearing(d[j]) => Bearing(c[j]) /\ Borne(d[j]) = Borne(c[j])
    PROVE  OneBears(d, s) /\ Minded(d, s)
BY NoCallIs DEF OneBears, Stays, Kin, Minded

\* What one page shows changes.
LEMMA PageBears ==
    ASSUME NEW c, NEW s, NEW t, NEW p \in ControlPages, \A q \in ControlPages : q # p => t[q] = s[q],
           OneBears(c, s), Minded(c, s), \A i \in DOMAIN c : c[i].page \in ControlPages \cup {Nobody},
           t[p].run.waits => /\ \A q \in ControlPages : q # p /\ s[q].run.waits => s[q].run.op # t[p].run.op
                             /\ \A i \in DOMAIN c : Bearing(c[i]) => t[p].run.op # Borne(c[i]),
           \A i \in DOMAIN c : c[i].page = p /\ p # Nobody =>
               /\ c[i].what = "step" => t[p].run = s[p].run
               /\ c[i].of = "shifter" /\ "shifter" \in s[p].pending => "shifter" \in t[p].pending
    PROVE  OneBears(c, t) /\ Minded(c, t)
BY DEF OneBears, Minded

\* A call is added.
LEMMA AddBears ==
    ASSUME NEW c, NEW d, NEW s, NEW n, NEW z, DOMAIN d = DOMAIN c \cup {n}, n \notin DOMAIN c, d[n] = z,
           \A j \in DOMAIN c : d[j] = c[j], OneBears(c, s), Minded(c, s),
           Bearing(z) => /\ \A i \in DOMAIN c : Bearing(c[i]) => Borne(c[i]) # Borne(z)
                         /\ \A q \in ControlPages : s[q].run.waits => s[q].run.op # Borne(z),
           z.page # Nobody =>
               /\ z.what = "step" => s[z.page].run = [op |-> z.op, id |-> z.run, step |-> z.step, waits |-> FALSE]
               /\ z.of = "shifter" => /\ "shifter" \in s[z.page].pending
                                      /\ \A j \in DOMAIN c : ~(c[j].page = z.page /\ c[j].of = "shifter")
    PROVE  OneBears(d, s) /\ Minded(d, s)
<1>1. OneBears(d, s)
  BY DEF OneBears
<1>2. ASSUME NEW i \in DOMAIN d, d[i].page # Nobody
      PROVE  /\ d[i].what = "step" =>
                   s[d[i].page].run = [op |-> d[i].op, id |-> d[i].run, step |-> d[i].step, waits |-> FALSE]
             /\ d[i].of = "shifter" =>
                   /\ "shifter" \in s[d[i].page].pending
                   /\ \A j \in DOMAIN d : d[j].page = d[i].page /\ d[j].of = "shifter" => i = j
  <2>1. CASE i = n
    BY <1>2, <2>1
  <2>2. CASE i # n
    BY <2>2, <1>2 DEF Minded
  <2> QED BY <2>1, <2>2
<1> QED BY <1>1, <1>2 DEF Minded

\* The runs there are.
LEMMA OneRunKeeps ==
    ASSUME NEW c, NEW d, NEW P, NEW Q, OneRun(c, P), Q \subseteq P, DOMAIN c \subseteq DOMAIN d,
           \A j \in DOMAIN c : c[j].pc = "done" => d[j].pc = "done"
    PROVE  OneRun(d, Q)
BY DEF OneRun

LEMMA FewerPairs ==
    ASSUME NEW h, NEW c, NEW d, NEW s, NEW t,
           \A i \in DOMAIN d : d[i].what = "step" => <<d[i].run, d[i].op>> \in Pairs(h, c, s),
           \A p \in ControlPages : t[p].run # NoRun => <<t[p].run.id, t[p].run.op>> \in Pairs(h, c, s)
    PROVE  Pairs(h, d, t) \subseteq Pairs(h, c, s)
BY DEF Pairs

LEMMA CallPairs ==
    ASSUME NEW h, NEW c, NEW s, NEW i \in DOMAIN c, c[i].what = "step"
    PROVE  <<c[i].run, c[i].op>> \in Pairs(h, c, s)
BY DEF Pairs

LEMMA PagePairs ==
    ASSUME NEW h, NEW c, NEW s, NEW p \in ControlPages, s[p].run # NoRun
    PROVE  <<s[p].run.id, s[p].run.op>> \in Pairs(h, c, s)
BY DEF Pairs

LEMMA StaysPairs ==
    ASSUME NEW h, NEW c, NEW d, NEW s, DOMAIN d = DOMAIN c, OneRun(c, Pairs(h, c, s)),
           \A j \in DOMAIN c : d[j] = c[j] \/ Stays(d[j], c[j])
    PROVE  OneRun(d, Pairs(h, d, s)) /\ Pairs(h, d, s) \subseteq Pairs(h, c, s)
BY NoCallIs, FewerPairs, CallPairs, PagePairs, OneRunKeeps DEF Stays, Kin

-----------------------------------------------------------------------------
\* What is known of the runs, of one call.
LEMMA RunsIs ==
    ASSUME DocsIInv, RunsIInv, NEW i \in DOMAIN calls
    PROVE  /\ Backed(history, calls[i]) /\ calls[i].page \in ControlPages \cup {Nobody}
           /\ calls[i].what = "step" => calls[i].step > 0 /\ calls[i].step \in Nat
<1>1. calls[i] \in HttpCall(supply.users) /\ Sound(supply.users, history, calls[i])
  BY CallIs
<1>2. calls[i].page \in ControlPages \cup {Nobody} /\ calls[i].step \in Nat
  BY <1>1 DEF HttpCall
<1>3. ASSUME calls[i].what = "step" PROVE calls[i].step > 0
  BY <1>1, <1>3, NoCallIs, ControlAssumption DEF Sound, Shaped
<1> QED BY <1>2, <1>3 DEF RunsIInv

\* A command is acknowledged of an existing document.
LEMMA BorneIsOld ==
    ASSUME DocsIInv, RunsIInv
    PROVE  /\ \A i \in DOMAIN calls : Bearing(calls[i]) => Borne(calls[i]) \in DOMAIN history
           /\ \A p \in ControlPages : screen[p].run # NoRun => screen[p].run.op \in DOMAIN history
           /\ \A j \in DOMAIN history : history[j].step > 0 => history[j].op \in DOMAIN history
<1>1. ASSUME NEW i \in DOMAIN calls, Bearing(calls[i]) PROVE Borne(calls[i]) \in DOMAIN history
  <2>1. CASE calls[i].what = "shift" /\ Saved(calls[i])
    BY <2>1, CallIs, NoCallIs DEF Sound, Describes, Borne
  <2>2. CASE calls[i].what \in {"start", "step"}
    BY <2>2, RunsIs DEF Backed, Granted, Borne
  <2> QED BY <1>1, <2>1, <2>2 DEF Bearing
<1>2. \A p \in ControlPages : screen[p].run # NoRun => screen[p].run.op \in DOMAIN history
  BY DEF RunsIInv, Goes, Granted
<1>3. \A j \in DOMAIN history : history[j].step > 0 => history[j].op \in DOMAIN history
  BY DEF RunsIInv, InOrder, Granted
<1> QED BY <1>1, <1>2, <1>3

\* A call moves, and documents that no one has yet are filed or marked.
LEMMA MovesRuns ==
    ASSUME DocsIInv, RunsIInv, NEW i \in DOMAIN calls, NEW y, Moves(i, y),
           y = NoCall \/ (calls[i].pc # "done" /\ Kin(y, calls[i]) /\ y.page = calls[i].page),
           Bearing(y) => (Bearing(calls[i]) /\ Borne(y) = Borne(calls[i])) \/ Borne(y) \notin DOMAIN history,
           Keeps(history, history'), Backed(history', y), UNCHANGED screen, supply'.users = supply.users
    PROVE  RunsIInv'
<1>. DEFINE u == supply.users
            x == calls[i]
<1>1. /\ \A j \in DOMAIN calls : Backed(history, calls[j])
      /\ \A p \in ControlPages : Goes(history, u, p, screen[p].run)
      /\ OneBears(calls, screen) /\ Minded(calls, screen) /\ Shown(screen)
      /\ OneRun(calls, Pairs(history, calls, screen)) /\ InOrder(history)
  BY DEF RunsIInv
<1>2. /\ DOMAIN calls' = DOMAIN calls /\ calls'[i] = y /\ \A j \in DOMAIN calls : j # i => calls'[j] = calls[j]
  BY DEF Moves
<1>3. \A j \in DOMAIN calls' : Backed(history', calls'[j])
  BY <1>1, <1>2, KeepsBacked
<1>4. \A p \in ControlPages : Goes(history', u, p, screen[p].run)
  BY <1>1, KeepsGoes
<1>5. \A j \in DOMAIN calls : calls'[j] = calls[j] \/ Stays(calls'[j], calls[j])
  BY <1>2 DEF Stays
<1>6. OneBears(calls', screen) /\ Minded(calls', screen)
  <2>1. CASE Bearing(y) => (Bearing(x) /\ Borne(y) = Borne(x))
    BY <1>2, <2>1, <1>1, <1>5, StaysBears
  <2>2. CASE Bearing(y) /\ Borne(y) \notin DOMAIN history
    <3>1. \A j \in DOMAIN calls : Bearing(calls[j]) => Borne(calls[j]) # Borne(y)
      BY <2>2, BorneIsOld
    <3>2. \A p \in ControlPages : screen[p].run.waits => screen[p].run.op # Borne(y)
      BY <2>2, BorneIsOld, NoRunIs
    <3>3. OneBears(calls', screen)
      BY <1>1, <1>2, <3>1, <3>2 DEF OneBears
    <3>4. \A j \in DOMAIN calls : calls'[j].page # Nobody => Kin(calls'[j], calls[j]) /\ calls'[j].page = calls[j].page
      BY <1>2, NoCallIs DEF Kin
    <3>5. Minded(calls', screen)
      BY <1>1, <1>2, <3>4 DEF Minded, Kin
    <3> QED BY <3>3, <3>5
  <2> QED BY <2>1, <2>2
<1>7. OneRun(calls', Pairs(history', calls', screen))
  BY <1>1, <1>2, <1>5, StaysPairs, KeepsPairs
<1>8. InOrder(history')
  BY <1>1, KeepsOrder
<1> QED BY <1>1, <1>3, <1>4, <1>6, <1>7, <1>8 DEF RunsIInv

-----------------------------------------------------------------------------
\* The answer, and what the server does before it.
LEMMA AnswerRuns ==
    ASSUME DocsIInv, RunsIInv, NEW i \in DOMAIN calls,
           calls[i].pc \notin {"done", "answered"}, NEW ok \in BOOLEAN, ok => calls[i].pc = "conclude",
           Moves(i, AnswerTo(calls[i], ok)), UNCHANGED <<history, screen>>, supply'.users = supply.users
    PROVE  RunsIInv'
<1>. DEFINE x == calls[i]
            y == AnswerTo(x, ok)
            u == supply.users
<1>1. x \in HttpCall(u) /\ Sound(u, history, x) /\ Backed(history, x)
  BY CallIs, RunsIs
<1>2. /\ y # NoCall => /\ Kin(y, x) /\ y.pc = "answered" /\ y.page = x.page
                       /\ y.doc = x.doc /\ y.ok = ok
      /\ Saved(y) => Saved(x) /\ y.doc = x.doc
  BY <1>1, AnswerIs
<1>. HIDE DEF y
<1>3. Bearing(y) => Bearing(x) /\ Borne(y) = Borne(x)
  BY <1>2, NoCallIs DEF Bearing, Borne, Kin
<1>4. Concluded(y) => y # NoCall /\ Concluded(x)
  BY <1>2, NoCallIs DEF Concluded
<1>5. Backed(history, y)
  BY NoCallIs, <1>2, <1>1, <1>4 DEF Backed, Kin
<1>6. Keeps(history, history')
  BY SameKeeps
<1>7. Backed(history', y)
  BY <1>5
<1>8. Moves(i, y)
  BY DEF y
<1> QED BY <1>2, <1>3, <1>6, <1>7, <1>8, MovesRuns

LEMMA AuditConclusionRuns ==
    ASSUME DocsIInv, RunsIInv, NEW i \in DOMAIN calls, AuditConclusion(i)
    PROVE  RunsIInv'
BY AuditConclusionDoes, AnswerRuns

LEMMA FailCallRuns ==
    ASSUME DocsIInv, RunsIInv, NEW i \in DOMAIN calls, FailCall(i)
    PROVE  RunsIInv'
BY FailCallDoes, AnswerRuns

LEMMA ReadCommandsRuns ==
    ASSUME DocsIInv, RunsIInv, NEW i \in DOMAIN calls, ReadCommands(i)
    PROVE  RunsIInv'
<1>1. /\ calls[i].pc = "read" /\ calls[i].what \in {"shift", "press"}
      /\ UNCHANGED <<history, screen, crossed, supply, strayed>>
      /\ \/ Moves(i, AnswerTo(calls[i], FALSE))
         \/ \E y : Moves(i, y) /\ Kin(y, calls[i]) /\ y.page = calls[i].page /\ y.pc = "create"
  BY ReadCommandsDoes
<1>2. CASE Moves(i, AnswerTo(calls[i], FALSE))
  BY <1>1, <1>2, AnswerRuns
<1>3. CASE \E y : Moves(i, y) /\ Kin(y, calls[i]) /\ y.page = calls[i].page /\ y.pc = "create"
  BY <1>3, <1>1, SameKeeps, MovesRuns DEF Saved, Concluded, Bearing, Kin, Backed
<1> QED BY <1>1, <1>2, <1>3

\* A run that is the newest command of its user has no step that came too late.
LEMMA ActiveIsNewest ==
    ASSUME DocsIInv, RunsIInv, NEW x, Granted(history, x.op, x.user)
    PROVE  /\ IsActive(x) => ~Superseded(history, x.op, x.user)
           /\ ~IsActive(x) => Superseded(history, x.op, x.user)
<1>. DEFINE js == {j \in DOMAIN history : Acknowledged(j) /\ history[j].of = "shifter" /\ history[j].user = x.user}
            o == x.op
<1>1. o \in js /\ history[o].value = "auto"
  BY DEF Granted, Acknowledged
<1>2. \A j : j \in js <=> j \in DOMAIN history /\ history[j].status = "acknowledged" /\ history[j].of = "shifter" /\ history[j].user = x.user
  BY DEF Acknowledged
<1>3. js \subseteq DOMAIN history /\ history \in Seq(Document(supply.users))
  BY DEF DocsIInv, Booked
<1>4. DOMAIN history \subseteq Nat
  BY <1>3, Grown
<1>5. IsActive(x) <=> LatestOf(js) = o
  BY <1>1 DEF IsActive, ActiveOperation
<1>. HIDE DEF js
<1>6. LatestOf(js) \in js /\ \A j \in js : j <= LatestOf(js)
  BY <1>1, <1>3, LastOf
<1>. DEFINE m == LatestOf(js)
<1>7. m \in Nat /\ o \in Nat /\ o <= m /\ \A j \in js : j \in Nat /\ j <= m
  BY <1>1, <1>3, <1>4, <1>6
<1>. HIDE DEF m
<1>8. CASE m = o
  BY <1>7, <1>8, <1>2, <1>5 DEF Superseded, m
<1>9. CASE m # o
  BY <1>7, <1>9, <1>6, <1>2, <1>5 DEF m, Superseded
<1> QED BY <1>8, <1>9

LEMMA CheckActiveRuns ==
    ASSUME DocsIInv, RunsIInv, NEW i \in DOMAIN calls, CheckActive(i)
    PROVE  RunsIInv'
<1>. DEFINE x == calls[i]
            u == supply.users
<1>1. /\ x.pc = "check" /\ UNCHANGED <<history, screen, crossed, supply, strayed>>
      /\ \/ ~IsActive(x) /\ Moves(i, AnswerTo(x, FALSE))
         \/ /\ IsActive(x)
            /\ \E y : /\ Moves(i, y) /\ Kin(y, x) /\ y.page = x.page
                      /\ y.pc = IF x.what = "start" THEN "conclude" ELSE "record"
  BY CheckActiveDoes
<1>2. CASE Moves(i, AnswerTo(x, FALSE))
  BY <1>1, <1>2, AnswerRuns
<1>3. CASE /\ IsActive(x)
           /\ \E y : /\ Moves(i, y) /\ Kin(y, x) /\ y.page = x.page
                     /\ y.pc = IF x.what = "start" THEN "conclude" ELSE "record"
  <2>1. PICK y : /\ Moves(i, y) /\ Kin(y, x) /\ y.page = x.page
                 /\ y.pc = IF x.what = "start" THEN "conclude" ELSE "record"
    BY <1>3
  <2>2. x.what \in {"start", "step"} /\ Backed(history, x)
    BY <1>1, CallIs, RunsIs DEF Sound, Shaped
  <2>3. ~Saved(y) /\ Bearing(y) /\ Bearing(x) /\ Borne(y) = Borne(x)
    BY <2>1, <2>2 DEF Saved, Bearing, Borne, Kin
  <2>4. Granted(history, x.op, x.user)
    BY <2>2 DEF Backed
  <2>5. ~Superseded(history, x.op, x.user)
    BY <1>3, <2>4, ActiveIsNewest
  <2>6. \A l \in Taken(history, x.op) : ~history[l].late
    <3>1. ASSUME NEW l \in Taken(history, x.op), history[l].late PROVE FALSE
      <4>1. l \in DOMAIN history /\ history[l].step > 0 /\ history[l].op = x.op
        BY DEF Taken
      <4>2. Superseded(history, x.op, history[l].user) /\ Granted(history, x.op, history[l].user)
        BY <3>1, <4>1 DEF RunsIInv, InOrder
      <4>3. history[l].user = x.user
        BY <2>4, <4>2 DEF Granted
      <4> QED BY <2>5, <4>2, <4>3
    <3> QED BY <3>1
  <2>7. Backed(history, y)
    BY <1>1, <2>1, <2>2, <2>3, <2>6 DEF Backed, Kin, Concluded
  <2>8. Keeps(history, history') /\ Backed(history', y)
    BY <1>1, <2>7, SameKeeps
  <2> QED BY <1>1, <2>1, <2>3, <2>8, MovesRuns
<1> QED BY <1>1, <1>2, <1>3

LEMMA CreateCommandRuns ==
    ASSUME DocsIInv, RunsIInv, NEW i \in DOMAIN calls, CreateCommand(i)
    PROVE  RunsIInv'
<1>. DEFINE x == calls[i]
            n == Len(history) + 1
<1>1. /\ x.pc = "create" /\ x.what \in {"shift", "press"} /\ UNCHANGED <<screen, crossed, supply, strayed>>
      /\ \E y, d : /\ Moves(i, y) /\ Kin(y, x) /\ y.page = x.page
                   /\ y.pc = "authorized" /\ y.doc = n
                   /\ Files(d) /\ d.step = 0
  BY CreateCommandDoes
<1>2. PICK y, d : /\ Moves(i, y) /\ Kin(y, x) /\ y.page = x.page
                  /\ y.pc = "authorized" /\ y.doc = n
                  /\ Files(d) /\ d.step = 0
  BY <1>1
<1>3. Keeps(history, history') /\ n \notin DOMAIN history
  BY <1>2, FilesKeeps DEF Files
<1>4. Taken(history, n) = {}
  BY <1>3, BorneIsOld DEF Taken
<1>5. Taken(history', n) = {}
  BY <1>3, <1>4, KeepsTaken
<1>6. y.what \in {"shift", "press"} /\ ~Concluded(y) /\ (Bearing(y) => Borne(y) = n)
  BY <1>1, <1>2 DEF Concluded, Kin, Bearing, Borne
<1>7. Backed(history', y)
  BY <1>2, <1>5, <1>6 DEF Backed
<1>. HIDE DEF n
<1> QED BY <1>1, <1>2, <1>3, <1>6, <1>7, MovesRuns

LEMMA MarkRuns ==
    ASSUME DocsIInv, RunsIInv, NEW i \in DOMAIN calls, Saved(calls[i]),
           UNCHANGED <<screen, supply>>, NEW y, Moves(i, y), Kin(y, calls[i]), y.page = calls[i].page,
           y.doc = calls[i].doc, NEW d, Marks(y.doc, d), history[y.doc].status # "acknowledged"
    PROVE  RunsIInv'
<1>. DEFINE x == calls[i]
<1>1. x.what \in {"shift", "press"} /\ x.pc # "done" /\ Backed(history, x)
  BY NoCallIs, RunsIs DEF Saved, Concluded
<1>2. Keeps(history, history')
  BY MarksKeeps
<1>3. y.what = x.what /\ y.doc = x.doc
  BY DEF Kin
<1>4. Bearing(y) => Bearing(x) /\ Borne(y) = Borne(x)
  BY <1>1, <1>3 DEF Bearing, Borne
<1>5. Backed(history, y)
  BY <1>1, <1>3 DEF Backed
<1>6. Backed(history', y)
  BY <1>2, <1>5, KeepsBacked
<1> QED BY <1>1, <1>2, <1>4, <1>6, MovesRuns

LEMMA SaveCommandRuns ==
    ASSUME DocsIInv, RunsIInv, NEW i \in DOMAIN calls, SaveCommand(i)
    PROVE  RunsIInv'
BY SaveCommandDoes, MarkRuns

LEMMA AuditAuthorizationRuns ==
    ASSUME DocsIInv, RunsIInv, NEW i \in DOMAIN calls, AuditAuthorization(i)
    PROVE  RunsIInv'
BY AuditAuthorizationDoes, MarkRuns

-----------------------------------------------------------------------------
(* A step is taken.                                                        *)

\* Who takes steps of one command only waits for it.
LEMMA TakenAdds ==
    ASSUME DocsIInv, NEW d, Files(d), d.step > 0, d.op \in DOMAIN history
    PROVE  /\ IsFiniteSet(Taken(history, d.op)) /\ Len(history) + 1 \notin Taken(history, d.op)
           /\ Taken(history', d.op) = Taken(history, d.op) \cup {Len(history) + 1}
           /\ \A o : o # d.op => Taken(history', o) = Taken(history, o)
           /\ \A o : \A l \in Taken(history, o) : l \in DOMAIN history /\ history'[l] = history[l]
<1>. DEFINE n == Len(history) + 1
            o == d.op
<1>1. /\ Len(history) \in Nat /\ DOMAIN history' = DOMAIN history \cup {n} /\ n \notin DOMAIN history
      /\ history'[n] = d /\ \A j \in DOMAIN history : history'[j] = history[j]
  BY DEF Files
<1>2. IsFiniteSet(Taken(history, o))
  <2>1. history \in Seq(Document(supply.users))
    BY DEF DocsIInv, Booked
  <2>2. DOMAIN history = 1..Len(history)
    BY <2>1
  <2>3. IsFiniteSet(1..Len(history))
    BY <1>1, FS_Interval
  <2>4. Taken(history, o) \in SUBSET (1..Len(history))
    BY <2>2 DEF Taken
  <2> QED BY <2>3, <2>4, FS_Subset
<1>. HIDE DEF n
<1>3. \A q, l : l \in Taken(history', q) <=> (l \in Taken(history, q) \/ (l = n /\ q = o))
  BY <1>1 DEF Taken
<1>4. n \notin Taken(history, o)
  BY <1>1 DEF Taken
<1>5. Taken(history', o) = Taken(history, o) \cup {n}
  BY <1>3
<1>6. \A q : q # o => Taken(history', q) = Taken(history, q)
  <2>. TAKE q
  <2>. HAVE q # o
  <2> QED BY <1>3
<1>7. \A q : \A l \in Taken(history, q) : l \in DOMAIN history /\ history'[l] = history[l]
  BY <1>1 DEF Taken
<1> QED BY <1>2, <1>4, <1>5, <1>6, <1>7 DEF n

LEMMA TakenFollows ==
    ASSUME DocsIInv, NEW d, Files(d), d.step > 0, d.op \in DOMAIN history
    PROVE  /\ Follows(history, d.op, d.run, d.step) => Follows(history', d.op, d.run, d.step + 1)
           /\ \A o, r, k : o # d.op /\ Follows(history, o, r, k) => Follows(history', o, r, k)
           /\ \A o, u : Granted(history, o, u) => Granted(history', o, u)
           /\ \A o, u : Superseded(history, o, u) => Superseded(history', o, u)
<1>. DEFINE n == Len(history) + 1
            T == Taken(history, d.op)
<1>1. /\ IsFiniteSet(T) /\ n \notin T /\ Taken(history', d.op) = T \cup {n}
      /\ \A o : o # d.op => Taken(history', o) = Taken(history, o)
      /\ \A o : \A l \in Taken(history, o) : l \in DOMAIN history /\ history'[l] = history[l]
  BY TakenAdds
<1>2. history'[n] = d /\ d \in Document(supply.users) /\ DOMAIN history \subseteq DOMAIN history'
      /\ \A j \in DOMAIN history : history'[j] = history[j]
  BY DEF Files
<1>3. d.step \in Nat /\ d.run = d.run
  BY <1>2 DEF Document
<1>4. ASSUME Follows(history, d.op, d.run, d.step) PROVE Follows(history', d.op, d.run, d.step + 1)
  <2>1. Cardinality(T) + 1 = d.step /\ \A l \in T : history[l].step < d.step /\ history[l].run = d.run
    BY <1>4 DEF Follows
  <2>. HIDE DEF n, T
  <2>2. Cardinality(T \cup {n}) = Cardinality(T) + 1
    BY <1>1, FS_AddElement
  <2>3. Cardinality(Taken(history', d.op)) + 1 = d.step + 1
    BY <1>1, <2>1, <2>2
  <2>4. ASSUME NEW l \in T PROVE history'[l].step < d.step + 1 /\ history'[l].run = d.run
    <3>1. history'[l] = history[l] /\ history[l].step < d.step /\ history[l].run = d.run /\ l \in DOMAIN history
      BY <1>1, <2>1 DEF T
    <3>2. history[l].step \in Nat
      <4>1. history \in Seq(Document(supply.users))
        BY DEF DocsIInv, Booked
      <4>2. history[l] \in Document(supply.users)
        BY <3>1, <4>1
      <4> QED BY <4>2 DEF Document
    <3> QED BY <1>3, <3>1, <3>2
  <2>5. history'[n].step < d.step + 1 /\ history'[n].run = d.run
    BY <1>2, <1>3
  <2> QED BY <1>1, <2>3, <2>4, <2>5 DEF Follows
<1>5. ASSUME NEW o, NEW r, NEW k, o # d.op, Follows(history, o, r, k) PROVE Follows(history', o, r, k)
  BY <1>1, <1>5 DEF Follows
<1>6. \A o, u : Granted(history, o, u) => Granted(history', o, u)
  BY <1>2 DEF Granted
<1>7. \A o, u : Superseded(history, o, u) => Superseded(history', o, u)
  BY <1>2 DEF Superseded
<1> QED BY <1>4, <1>5, <1>6, <1>7

LEMMA TakenOrder ==
    ASSUME DocsIInv, RunsIInv, NEW i \in DOMAIN calls,
           calls[i].pc = "record", calls[i].what = "step", NEW d, Files(d), d.step > 0,
           d.op = calls[i].op, d.run = calls[i].run, d.step = calls[i].step, d.user = calls[i].user,
           d.late = ~IsActive(calls[i])
    PROVE  InOrder(history')
<1>. DEFINE n == Len(history) + 1
            x == calls[i]
            T == Taken(history, d.op)
<1>1. /\ Granted(history, d.op, d.user) /\ Follows(history, d.op, d.run, d.step) /\ \A l \in T : ~history[l].late
  BY RunsIs DEF Backed
<1>2. d.op \in DOMAIN history
  BY <1>1 DEF Granted
<1>3. /\ n \notin T /\ Taken(history', d.op) = T \cup {n}
      /\ \A o : o # d.op => Taken(history', o) = Taken(history, o)
      /\ \A o : \A l \in Taken(history, o) : l \in DOMAIN history /\ history'[l] = history[l]
  BY <1>2, TakenAdds
<1>4. /\ \A o, u : Granted(history, o, u) => Granted(history', o, u)
      /\ \A o, u : Superseded(history, o, u) => Superseded(history', o, u)
  BY <1>2, TakenFollows
<1>5. /\ Len(history) \in Nat /\ DOMAIN history' = DOMAIN history \cup {n} /\ n \notin DOMAIN history
      /\ history'[n] = d /\ \A j \in DOMAIN history : history'[j] = history[j] /\ j <= Len(history)
      /\ DOMAIN history \subseteq Nat
  BY DEF Files
<1>6. InOrder(history) /\ OneRun(calls, Pairs(history, calls, screen))
  BY DEF RunsIInv
<1>. SUFFICES ASSUME NEW j \in DOMAIN history', history'[j].step > 0
              PROVE  LET before == {l \in Taken(history', history'[j].op) : l < j} IN
                     /\ Cardinality(before) + 1 = history'[j].step
                     /\ \A l \in before : history'[l].step < history'[j].step /\ history'[l].run = history'[j].run
                     /\ history'[j].op < j /\ Granted(history', history'[j].op, history'[j].user)
                     /\ history'[j].late => /\ Superseded(history', history'[j].op, history'[j].user)
                                            /\ \A l \in DOMAIN history' : history'[l].step > 0 /\ history'[l].run = history'[j].run => l <= j
  BY DEF InOrder
<1>7. CASE j = n
  <2>1. history'[j] = d
    BY <1>5, <1>7
  <2>2. {l \in Taken(history', d.op) : l < n} = T
    <3>1. \A l \in T : l < n
      BY <1>3, <1>5
    <3>2. ~(n < n)
      BY <1>5
    <3>. HIDE DEF n, T
    <3> QED BY <1>3, <3>1, <3>2
  <2>3. Cardinality(T) + 1 = d.step /\ \A l \in T : history[l].step < d.step /\ history[l].run = d.run
    BY <1>1 DEF Follows
  <2>4. \A l \in T : history'[l].step < d.step /\ history'[l].run = d.run
    BY <1>3, <2>3
  <2>5. d.op < n /\ Granted(history', d.op, d.user)
    BY <1>1, <1>2, <1>4, <1>5
  <2>6. d.late => Superseded(history', d.op, d.user)
    BY <1>1, ActiveIsNewest, <1>4
  <2>7. \A l \in DOMAIN history' : l <= n
    BY <1>5
  <2>. HIDE DEF n, T
  <2> QED BY <1>7, <2>1, <2>2, <2>3, <2>4, <2>5, <2>6, <2>7
<1>8. CASE j # n
  <2>. DEFINE e == history[j]
              before == {l \in Taken(history, e.op) : l < j}
  <2>1. j \in DOMAIN history /\ history'[j] = e /\ e.step > 0 /\ j < n
    BY <1>5, <1>8
  <2>2. /\ Cardinality(before) + 1 = e.step
        /\ \A l \in before : history[l].step < e.step /\ history[l].run = e.run
        /\ e.op < j /\ Granted(history, e.op, e.user)
        /\ e.late => /\ Superseded(history, e.op, e.user)
                     /\ \A l \in DOMAIN history : history[l].step > 0 /\ history[l].run = e.run => l <= j
    BY <1>6, <2>1 DEF InOrder
  <2>3. {l \in Taken(history', e.op) : l < j} = before
    <3>1. ~(n < j)
      BY <1>5, <2>1
    <3>2. Taken(history', e.op) = Taken(history, e.op) \/ Taken(history', e.op) = Taken(history, e.op) \cup {n}
      BY <1>3
    <3>. HIDE DEF n
    <3> QED BY <3>1, <3>2
  <2>4. \A l \in before : history'[l].step < e.step /\ history'[l].run = e.run
    BY <1>3, <2>2
  <2>5. Granted(history', e.op, e.user) /\ (e.late => Superseded(history', e.op, e.user))
    BY <1>4, <2>2
  <2>6. ASSUME e.late, NEW l \in DOMAIN history', history'[l].step > 0, history'[l].run = e.run PROVE l <= j
    <3>1. CASE l = n
      <4>1. d.run = e.run
        BY <1>5, <2>6, <3>1
      <4>2. <<e.run, e.op>> \in Pairs(history, calls, screen)
        BY <2>1 DEF Pairs
      <4>3. <<x.run, x.op>> \in Pairs(history, calls, screen)
        BY CallPairs
      <4>4. e.op = x.op
        BY <1>6, <4>1, <4>2, <4>3 DEF OneRun
      <4>5. j \in T
        BY <2>1, <4>4 DEF Taken
      <4> QED BY <1>1, <2>6, <4>5
    <3>2. CASE l # n
      BY <1>5, <2>2, <2>6, <3>2
    <3> QED BY <3>1, <3>2
  <2>. HIDE DEF before
  <2> QED BY <2>1, <2>2, <2>3, <2>4, <2>5, <2>6
<1> QED BY <1>7, <1>8

LEMMA AcknowledgeStepRuns ==
    ASSUME DocsIInv, RunsIInv, NEW i \in DOMAIN calls, AcknowledgeStep(i)
    PROVE  RunsIInv'
<1>. DEFINE x == calls[i]
            u == supply.users
            n == Len(history) + 1
            T == Taken(history, x.op)
<1>1. /\ x.pc = "record" /\ x.what = "step" /\ UNCHANGED <<screen, crossed, supply, strayed>>
      /\ \E y, d : /\ Moves(i, y) /\ Kin(y, x) /\ y.page = x.page /\ y.pc = "conclude"
                   /\ Files(d) /\ d.user = x.user /\ d.op = x.op /\ d.run = x.run /\ d.step = x.step
                   /\ d.late = ~IsActive(x)
  BY AcknowledgeStepDoes
<1>2. PICK y, d : /\ Moves(i, y) /\ Kin(y, x) /\ y.page = x.page /\ y.pc = "conclude"
                  /\ Files(d) /\ d.user = x.user /\ d.op = x.op /\ d.run = x.run /\ d.step = x.step
                  /\ d.late = ~IsActive(x)
  BY <1>1
<1>3. /\ \A j \in DOMAIN calls : Backed(history, calls[j])
      /\ \A p \in ControlPages : Goes(history, u, p, screen[p].run)
      /\ OneBears(calls, screen) /\ Minded(calls, screen) /\ Shown(screen)
      /\ OneRun(calls, Pairs(history, calls, screen)) /\ InOrder(history)
  BY DEF RunsIInv
<1>4. d.step > 0 /\ Granted(history, x.op, x.user) /\ Follows(history, x.op, x.run, x.step) /\ d.op \in DOMAIN history
  BY <1>1, <1>2, RunsIs DEF Backed, Granted
<1>5. /\ \A o : o # x.op => Taken(history', o) = Taken(history, o)
      /\ \A o : \A l \in Taken(history, o) : history'[l] = history[l]
  BY <1>2, <1>4, TakenAdds
<1>6. /\ Follows(history', x.op, x.run, x.step + 1)
      /\ \A o, r, k : o # x.op /\ Follows(history, o, r, k) => Follows(history', o, r, k)
      /\ \A o, v : Granted(history, o, v) => Granted(history', o, v)
  BY <1>2, <1>4, TakenFollows
<1>7. /\ DOMAIN calls' = DOMAIN calls /\ calls'[i] = y /\ \A j \in DOMAIN calls : j # i => calls'[j] = calls[j]
  BY <1>2 DEF Moves
<1>8. y.what = "step" /\ y.op = x.op /\ y.run = x.run /\ y.step = x.step /\ y.user = x.user
  BY <1>1, <1>2 DEF Kin
<1>9. Bearing(x) /\ Borne(x) = x.op /\ Bearing(y) /\ Borne(y) = x.op
  BY <1>1, <1>8 DEF Bearing, Borne
<1>10. ASSUME NEW j \in DOMAIN calls PROVE Backed(history', calls'[j])
  <2>1. CASE j = i
    BY <1>8, <1>2, <1>4, <1>6, <1>7, <2>1 DEF Saved, Backed
  <2>2. CASE j # i
    <3>. DEFINE c == calls[j]
    <3>1. Bearing(c) => Borne(c) # x.op
      BY <1>3, <1>9, <2>2 DEF OneBears
    <3>2. (c.what = "shift" /\ Saved(c) => c.doc # x.op) /\ (c.what \in {"start", "step"} => c.op # x.op)
      BY <3>1 DEF Bearing, Borne
    <3>3. Backed(history, c)
      BY <1>3
    <3>4. /\ c.doc # x.op => Taken(history', c.doc) = Taken(history, c.doc)
          /\ c.op # x.op => Taken(history', c.op) = Taken(history, c.op)
          /\ \A l \in Taken(history, c.op) : history'[l] = history[l]
      BY <1>5
    <3>5. c.op # x.op => /\ Follows(history, c.op, c.run, c.step) => Follows(history', c.op, c.run, c.step)
                         /\ Follows(history, c.op, c.run, c.step + 1) => Follows(history', c.op, c.run, c.step + 1)
      BY <1>6
    <3>6. Granted(history, c.op, c.user) => Granted(history', c.op, c.user)
      BY <1>6
    <3>7. Backed(history', c)
      BY <3>2, <3>3, <3>4, <3>5, <3>6 DEF Backed
    <3> QED BY <1>7, <2>2, <3>7
  <2> QED BY <2>1, <2>2
<1>11. ASSUME NEW p \in ControlPages PROVE Goes(history', u, p, screen[p].run)
  <2>. DEFINE r == screen[p].run
  <2>1. r.waits => r.op # x.op
    BY <1>3, <1>9 DEF OneBears
  <2>2. Goes(history, u, p, r)
    BY <1>3
  <2>3. (Granted(history, r.op, u[p]) => Granted(history', r.op, u[p]))
        /\ (r.op # x.op /\ Follows(history, r.op, r.id, r.step) => Follows(history', r.op, r.id, r.step))
    BY <1>6
  <2> QED BY <2>1, <2>2, <2>3 DEF Goes
<1>12. \A j \in DOMAIN calls : calls'[j] = calls[j] \/ Stays(calls'[j], calls[j])
  BY <1>1, <1>2, <1>7 DEF Stays
<1>13. OneBears(calls', screen) /\ Minded(calls', screen)
  BY <1>7, <1>9, <1>3, <1>12, StaysBears
<1>14. OneRun(calls', Pairs(history', calls', screen))
  <2>1. OneRun(calls', Pairs(history, calls, screen))
    BY <1>1, <1>7, <1>3, OneRunKeeps
  <2>2. Pairs(history, calls', screen) \subseteq Pairs(history, calls, screen)
    BY <1>3, <1>7, <1>12, StaysPairs
  <2>3. <<x.run, x.op>> \in Pairs(history, calls, screen)
    BY <1>1, CallPairs
  <2>4. ASSUME NEW j \in DOMAIN history', history'[j].step > 0
        PROVE  <<history'[j].run, history'[j].op>> \in Pairs(history, calls, screen)
    BY <1>2, <2>4, <2>3 DEF Files, Pairs
  <2>5. Pairs(history', calls', screen) \subseteq Pairs(history, calls, screen)
    BY <2>2, <2>4 DEF Pairs
  <2> QED BY <2>1, <2>5, OneRunKeeps
<1>15. InOrder(history')
  BY <1>1, <1>2, <1>4, TakenOrder
<1>16. \A j \in DOMAIN calls' : Backed(history', calls'[j])
  BY <1>7, <1>10
<1> QED BY <1>1, <1>3, <1>11, <1>13, <1>14, <1>15, <1>16 DEF RunsIInv

-----------------------------------------------------------------------------
(* What pages do to the runs.                                              *)

\* A page gives up calls, or takes an answer.
LEMMA FadeRuns ==
    ASSUME DocsIInv, RunsIInv, NEW d \in Seq(HttpCall(supply.users)),
           DOMAIN d = DOMAIN calls, \A j \in DOMAIN calls : Fades(d[j], calls[j])
    PROVE  /\ \A j \in DOMAIN d : Backed(history, d[j])
           /\ \A j \in DOMAIN d : d[j].page \in ControlPages \cup {Nobody}
           /\ \A j \in DOMAIN calls : d[j] = NoCall \/ (Kin(d[j], calls[j]) /\ d[j].page \in {calls[j].page, Nobody})
           /\ \A j \in DOMAIN calls : calls[j].pc = "done" => d[j].pc = "done"
           /\ \A j \in DOMAIN calls : Bearing(d[j]) => Bearing(calls[j]) /\ Borne(d[j]) = Borne(calls[j])
           /\ OneBears(d, screen) /\ Minded(d, screen)
           /\ OneRun(d, Pairs(history, d, screen)) /\ Pairs(history, d, screen) \subseteq Pairs(history, calls, screen)
<1>1. /\ \A j \in DOMAIN calls : Backed(history, calls[j])
      /\ OneBears(calls, screen) /\ Minded(calls, screen)
      /\ OneRun(calls, Pairs(history, calls, screen))
  BY DEF RunsIInv
<1>3. \A j \in DOMAIN calls : d[j] \in HttpCall(supply.users) /\ calls[j] \in HttpCall(supply.users)
                              /\ Sound(supply.users, history, calls[j])
  BY CallIs
<1>4. \A j \in DOMAIN calls :
          /\ Stays(d[j], calls[j]) /\ (Bearing(d[j]) => Bearing(calls[j]) /\ Borne(d[j]) = Borne(calls[j]))
          /\ (calls[j].pc = "done" => d[j].pc = "done")
          /\ \A g : Backed(g, calls[j]) => Backed(g, d[j])
  BY <1>3, FadesStays
<1>5. OneBears(d, screen) /\ Minded(d, screen)
  BY <1>1, <1>4, StaysBears
<1>6. OneRun(d, Pairs(history, d, screen)) /\ Pairs(history, d, screen) \subseteq Pairs(history, calls, screen)
  BY <1>1, <1>4, StaysPairs
<1>7. \A j \in DOMAIN d : d[j].page \in ControlPages \cup {Nobody}
  BY <1>3 DEF HttpCall
<1>8. \A j \in DOMAIN d : Backed(history, d[j])
  BY <1>1, <1>4
<1> QED BY <1>4, <1>5, <1>6, <1>7, <1>8 DEF Stays

\* One page shows something else.
LEMMA PageRuns ==
    ASSUME DocsIInv, RunsIInv, Fade, UNCHANGED history, supply'.users = supply.users,
           NEW p \in ControlPages, \A q \in ControlPages : q # p => screen'[q] = screen[q],
           screen'[p].run = screen[p].run \/ screen'[p].run = NoRun,
           screen'[p].run # NoRun => screen'[p].mode = "auto" /\ "shifter" \notin screen'[p].pending,
           \A j \in DOMAIN calls : calls'[j].page = p /\ p # Nobody =>
               /\ calls'[j].what = "step" => screen'[p].run = screen[p].run
               /\ calls'[j].of = "shifter" /\ "shifter" \in screen[p].pending => "shifter" \in screen'[p].pending
    PROVE  RunsIInv'
<1>1. /\ \A j \in DOMAIN calls' : Backed(history, calls'[j])
      /\ \A j \in DOMAIN calls' : calls'[j].page \in ControlPages \cup {Nobody}
      /\ \A j \in DOMAIN calls : calls[j].pc = "done" => calls'[j].pc = "done"
      /\ OneBears(calls', screen) /\ Minded(calls', screen)
      /\ OneRun(calls', Pairs(history, calls', screen))
      /\ DOMAIN calls' = DOMAIN calls
  BY FadeRuns DEF Fade
<1>2. \A q \in ControlPages : Goes(history, supply.users, q, screen[q].run)
  BY DEF RunsIInv
<1>3. OneBears(calls', screen) /\ Shown(screen) /\ InOrder(history)
  BY <1>1 DEF RunsIInv
<1>4. OneBears(calls', screen') /\ Minded(calls', screen')
  <2>1. screen'[p].run.waits => screen'[p].run = screen[p].run /\ screen[p].run.waits
    BY NoRunIs
  <2>2. screen'[p].run.waits =>
            /\ \A q \in ControlPages : q # p /\ screen[q].run.waits => screen[q].run.op # screen'[p].run.op
            /\ \A i \in DOMAIN calls' : Bearing(calls'[i]) => screen'[p].run.op # Borne(calls'[i])
    BY <1>1, <2>1 DEF OneBears
  <2> QED BY <1>1, <2>2, PageBears
<1>5. OneRun(calls', Pairs(history, calls', screen'))
  <2>1. \A q \in ControlPages : screen'[q].run # NoRun => screen'[q].run = screen[q].run
    OBVIOUS
  <2>2. Pairs(history, calls', screen') \subseteq Pairs(history, calls', screen)
    <3>1. \A q \in ControlPages : screen'[q].run # NoRun =>
              <<screen'[q].run.id, screen'[q].run.op>> \in Pairs(history, calls', screen)
      BY <2>1, PagePairs
    <3>2. \A j \in DOMAIN calls' : calls'[j].what = "step" => <<calls'[j].run, calls'[j].op>> \in Pairs(history, calls', screen)
      BY CallPairs
    <3> QED BY <3>1, <3>2, FewerPairs
  <2> QED BY <1>1, <2>2, OneRunKeeps
<1>6. \A q \in ControlPages : Goes(history, supply.users, q, screen'[q].run)
  BY <1>2 DEF Goes
<1>7. Shown(screen')
  BY <1>3 DEF Shown
<1> QED BY <1>1, <1>3, <1>4, <1>5, <1>6, <1>7 DEF RunsIInv

\* The page of a call that is over takes up its run.
LEMMA PageStarts ==
    ASSUME DocsIInv, RunsIInv, Fade, UNCHANGED history, supply'.users = supply.users,
           NEW p \in ControlPages, \A q \in ControlPages : q # p => screen'[q] = screen[q],
           NEW i \in DOMAIN calls, calls'[i] = NoCall, Bearing(calls[i]), calls[i].pc # "done",
           screen'[p].run.op = Borne(calls[i]), Goes(history, supply.users, p, screen'[p].run),
           screen'[p].mode = "auto" /\ "shifter" \notin screen'[p].pending,
           \A j \in DOMAIN calls : calls'[j].page = p /\ p # Nobody => calls'[j].what # "step" /\ calls'[j].of # "shifter",
           <<screen'[p].run.id, screen'[p].run.op>> \in Pairs(history, calls, screen) \/ screen'[p].run.id = i
    PROVE  RunsIInv'
<1>. DEFINE r == screen'[p].run
<1>1. /\ \A j \in DOMAIN calls' : Backed(history, calls'[j])
      /\ \A j \in DOMAIN calls' : calls'[j].page \in ControlPages \cup {Nobody}
      /\ \A j \in DOMAIN calls : calls[j].pc = "done" => calls'[j].pc = "done"
      /\ \A j \in DOMAIN calls : Bearing(calls'[j]) => Bearing(calls[j]) /\ Borne(calls'[j]) = Borne(calls[j])
      /\ OneBears(calls', screen) /\ Minded(calls', screen)
      /\ Pairs(history, calls', screen) \subseteq Pairs(history, calls, screen)
      /\ DOMAIN calls' = DOMAIN calls
  BY FadeRuns DEF Fade
<1>2. /\ \A q \in ControlPages : Goes(history, supply.users, q, screen[q].run)
      /\ OneBears(calls, screen) /\ Shown(screen) /\ InOrder(history) /\ OneRun(calls, Pairs(history, calls, screen))
  BY DEF RunsIInv
<1>3. OneBears(calls', screen') /\ Minded(calls', screen')
  <2>1. \A q \in ControlPages : screen[q].run.waits => screen[q].run.op # r.op
    BY <1>2 DEF OneBears
  <2>2. \A j \in DOMAIN calls' : Bearing(calls'[j]) => r.op # Borne(calls'[j])
    BY <1>1, <1>2, NoCallIs DEF OneBears
  <2>3. \A j \in DOMAIN calls' : calls'[j].page = p /\ p # Nobody =>
            /\ calls'[j].what = "step" => r = screen[p].run
            /\ calls'[j].of = "shifter" /\ "shifter" \in screen[p].pending => "shifter" \in screen'[p].pending
    BY <1>1
  <2>4. /\ OneBears(calls', screen) /\ Minded(calls', screen)
        /\ \A j \in DOMAIN calls' : calls'[j].page \in ControlPages \cup {Nobody}
    BY <1>1
  <2> QED BY <2>1, <2>2, <2>3, <2>4, PageBears
<1>4. OneRun(calls', Pairs(history, calls', screen'))
  <2>. DEFINE P == Pairs(history, calls, screen)
              a == <<r.id, r.op>>
  <2>1. \A q \in ControlPages : screen'[q].run # NoRun => <<screen'[q].run.id, screen'[q].run.op>> \in P \cup {a}
    <3>. TAKE q \in ControlPages
    <3>1. CASE q = p
      BY <3>1
    <3>2. CASE q # p
      BY <3>2, PagePairs
    <3> QED BY <3>1, <3>2
  <2>2. \A j \in DOMAIN calls' : calls'[j].what = "step" => <<calls'[j].run, calls'[j].op>> \in P
    BY <1>1, CallPairs
  <2>3. \A j \in DOMAIN history : history[j].step > 0 => <<history[j].run, history[j].op>> \in P
    BY DEF Pairs
  <2>4. Pairs(history, calls', screen') \subseteq P \cup {a}
    BY <2>1, <2>2, <2>3 DEF Pairs
  <2>5. OneRun(calls', P \cup {a})
    <3>. HIDE DEF P
    <3>0. OneRun(calls, P)
      BY <1>2 DEF P
    <3>1. CASE a \in P
      BY <3>1, <1>1, <3>0, OneRunKeeps
    <3>2. CASE a \notin P /\ r.id = i
      <4>1. \A b \in P : b[1] # i
        BY <3>0 DEF OneRun
      <4>2. a[1] = i /\ calls'[i].pc = "done"
        BY <3>2, NoCallIs
      <4>3. \A b \in P : b[1] \in DOMAIN calls' /\ calls'[b[1]].pc = "done"
        BY <1>1, <3>0 DEF OneRun
      <4>4. \A b, e \in P : b[1] = e[1] => b[2] = e[2]
        BY <3>0 DEF OneRun
      <4>. HIDE DEF a
      <4>5. \A b, e \in P \cup {a} : b[1] = e[1] => b[2] = e[2]
        BY <4>1, <4>2, <4>4
      <4>6. \A b \in P \cup {a} : b[1] \in DOMAIN calls' /\ calls'[b[1]].pc = "done"
        BY <1>1, <4>2, <4>3
      <4> QED BY <4>5, <4>6 DEF OneRun
    <3> QED BY <3>1, <3>2 DEF P
  <2> QED BY <2>4, <2>5, OneRunKeeps
<1>5. \A q \in ControlPages : Goes(history, supply.users, q, screen'[q].run)
  BY <1>2
<1>6. Shown(screen')
  BY <1>2 DEF Shown
<1> QED BY <1>1, <1>2, <1>3, <1>4, <1>5, <1>6 DEF RunsIInv

\* A call is added, perhaps in place of others; its page shows that it waits.
LEMMA AddRuns ==
    ASSUME DocsIInv, RunsIInv, UNCHANGED history, supply'.users = supply.users,
           NEW n, NEW z, Adds(n, z), NEW p \in ControlPages, z.page = p,
           \A q \in ControlPages : q # p => screen'[q] = screen[q],
           screen'[p].run.waits => screen'[p].run = screen[p].run,
           screen'[p].run # NoRun =>
               /\ screen'[p].run.op = screen[p].run.op /\ screen'[p].run.id = screen[p].run.id /\ screen[p].run # NoRun
               /\ Goes(history, supply.users, p, screen'[p].run)
               /\ screen'[p].mode = "auto" /\ "shifter" \notin screen'[p].pending,
           \A j \in DOMAIN calls : calls'[j].page = p /\ p # Nobody =>
               /\ calls'[j].what = "step" => screen'[p].run = screen[p].run
               /\ calls'[j].of = "shifter" /\ "shifter" \in screen[p].pending => "shifter" \in screen'[p].pending,
           Bearing(z) => /\ \A j \in DOMAIN calls : Bearing(calls'[j]) => Borne(calls'[j]) # Borne(z)
                         /\ \A q \in ControlPages : screen'[q].run.waits => screen'[q].run.op # Borne(z),
           z.what = "step" => /\ screen'[p].run = [op |-> z.op, id |-> z.run, step |-> z.step, waits |-> FALSE]
                              /\ <<z.run, z.op>> \in Pairs(history, calls, screen),
           z.of = "shifter" => /\ "shifter" \in screen'[p].pending
                               /\ \A j \in DOMAIN calls : ~(calls'[j].page = p /\ calls'[j].of = "shifter"),
           Backed(history, z)
    PROVE  RunsIInv'
<1>. DEFINE d == [j \in DOMAIN calls |-> calls'[j]]
            P == Pairs(history, calls, screen)
            u == supply.users
<1>1. /\ calls' \in Seq(HttpCall(u)) /\ DOMAIN calls' = DOMAIN calls \cup {n} /\ n \notin DOMAIN calls
      /\ calls'[n] = z /\ \A j \in DOMAIN calls : Fades(calls'[j], calls[j])
  BY DEF Adds
<1>2. d \in Seq(HttpCall(u)) /\ DOMAIN d = DOMAIN calls /\ \A j \in DOMAIN calls : d[j] = calls'[j]
  <2>1. DOMAIN d = DOMAIN calls /\ \A j \in DOMAIN calls : d[j] = calls'[j]
    OBVIOUS
  <2>2. d = [j \in DOMAIN calls |-> d[j]]
    OBVIOUS
  <2>. HIDE DEF d
  <2>3. \A j \in DOMAIN calls : d[j] \in HttpCall(u)
    <3>1. \A j \in DOMAIN calls' : calls'[j] \in HttpCall(u)
      BY <1>1
    <3> QED BY <1>1, <2>1, <3>1
  <2>4. calls \in Seq(HttpCall(u))
    BY DEF DocsIInv, Served
  <2>5. d \in Seq(HttpCall(u))
    BY <2>1, <2>2, <2>3, <2>4, Mapped
  <2> QED BY <2>1, <2>5
<1>. HIDE DEF d
<1>3. /\ \A j \in DOMAIN d : Backed(history, d[j])
      /\ \A j \in DOMAIN d : d[j].page \in ControlPages \cup {Nobody}
      /\ \A j \in DOMAIN calls : calls[j].pc = "done" => d[j].pc = "done"
      /\ OneBears(d, screen) /\ Minded(d, screen)
      /\ Pairs(history, d, screen) \subseteq P
  BY <1>1, <1>2, FadeRuns
<1>4. /\ \A q \in ControlPages : Goes(history, u, q, screen[q].run)
      /\ Shown(screen) /\ InOrder(history) /\ OneRun(calls, P)
  BY DEF RunsIInv
<1>5. OneBears(d, screen') /\ Minded(d, screen')
  <2>1. screen'[p].run.waits =>
            /\ \A q \in ControlPages : q # p /\ screen[q].run.waits => screen[q].run.op # screen'[p].run.op
            /\ \A i \in DOMAIN d : Bearing(d[i]) => screen'[p].run.op # Borne(d[i])
    BY <1>3 DEF OneBears
  <2>2. \A i \in DOMAIN d : d[i].page = p /\ p # Nobody =>
               /\ d[i].what = "step" => screen'[p].run = screen[p].run
               /\ d[i].of = "shifter" /\ "shifter" \in screen[p].pending => "shifter" \in screen'[p].pending
    BY <1>2
  <2>3. \A q \in ControlPages : q # p => screen'[q] = screen[q]
    OBVIOUS
  <2>. HIDE DEF P
  <2> QED BY ONLY <1>3, <2>1, <2>2, <2>3, PageBears, p \in ControlPages
<1>6. OneBears(calls', screen') /\ Minded(calls', screen')
  BY <1>1, <1>2, <1>5, AddBears
<1>7. OneRun(calls', Pairs(history, calls', screen'))
  <2>1. \A q \in ControlPages : screen'[q].run # NoRun => <<screen'[q].run.id, screen'[q].run.op>> \in P
    <3>. TAKE q \in ControlPages
    <3>. HAVE screen'[q].run # NoRun
    <3>1. screen[q].run # NoRun /\ screen'[q].run.op = screen[q].run.op /\ screen'[q].run.id = screen[q].run.id
      OBVIOUS
    <3>2. <<screen[q].run.id, screen[q].run.op>> \in P
      BY <3>1, PagePairs
    <3> QED BY <3>1, <3>2
  <2>2. \A j \in DOMAIN d : d[j].what = "step" => <<d[j].run, d[j].op>> \in P
    BY <1>3, CallPairs
  <2>3. \A j \in DOMAIN calls' : calls'[j].what = "step" => <<calls'[j].run, calls'[j].op>> \in P
    BY <1>1, <1>2, <2>2
  <2>4. Pairs(history, calls', screen') \subseteq P
    BY <2>1, <2>3, FewerPairs
  <2>5. \A j \in DOMAIN calls : calls[j].pc = "done" => calls'[j].pc = "done"
    BY <1>2, <1>3
  <2> QED BY <1>1, <1>4, <2>4, <2>5, OneRunKeeps
<1>8. \A q \in ControlPages : Goes(history, u, q, screen'[q].run)
  BY <1>4 DEF Goes
<1>9. Shown(screen')
  BY <1>4 DEF Shown
<1>10. \A j \in DOMAIN calls' : Backed(history, calls'[j])
  BY <1>1, <1>2, <1>3
<1> QED BY <1>4, <1>6, <1>7, <1>8, <1>9, <1>10 DEF RunsIInv

\* A page has one step under way, and waits for its shifter only once.
LEMMA OneOfPage ==
    ASSUME DocsIInv, RunsIInv, NEW i \in DOMAIN calls, NEW j \in DOMAIN calls,
           calls[i].page # Nobody, calls[i].page = calls[j].page
    PROVE  /\ calls[i].what = "step" /\ calls[j].what = "step" => i = j
           /\ calls[i].of = "shifter" /\ calls[j].of = "shifter" => i = j
           /\ calls[i].of = "shifter" => /\ "shifter" \in screen[calls[i].page].pending
                                         /\ screen[calls[i].page].run = NoRun
           /\ calls[i].what = "step" => /\ screen[calls[i].page].run # NoRun /\ ~screen[calls[i].page].run.waits
                                        /\ screen[calls[i].page].run.op = calls[i].op
                                        /\ screen[calls[i].page].run.id = calls[i].run
<1>. DEFINE p == calls[i].page
<1>1. OneBears(calls, screen) /\ Minded(calls, screen) /\ Shown(screen)
  BY DEF RunsIInv
<1>2. p \in ControlPages
  BY RunsIs
<1>3. ASSUME NEW k \in DOMAIN calls, calls[k].page = p, calls[k].what = "step"
      PROVE  /\ screen[p].run = [op |-> calls[k].op, id |-> calls[k].run, step |-> calls[k].step, waits |-> FALSE]
             /\ screen[p].run.op = calls[k].op /\ screen[p].run.id = calls[k].run /\ ~screen[p].run.waits
             /\ screen[p].run # NoRun
  BY <1>1, <1>3, RunsIs, NoRunIs DEF Minded
<1>4. ASSUME calls[i].what = "step", calls[j].what = "step" PROVE i = j
  BY <1>3, <1>4, <1>1 DEF OneBears, Bearing, Borne
<1>5. ASSUME calls[i].of = "shifter" PROVE "shifter" \in screen[p].pending /\ screen[p].run = NoRun
  BY <1>1, <1>5, <1>2 DEF Minded, Shown
<1>6. calls[i].of = "shifter" /\ calls[j].of = "shifter" => i = j
  BY <1>1 DEF Minded
<1> QED BY <1>3, <1>4, <1>5, <1>6

\* What a call is for.
LEMMA WhatIs ==
    ASSUME DocsIInv, NEW i \in DOMAIN calls, calls[i].pc # "done"
    PROVE  /\ calls[i].what \in {"shift", "start"} => calls[i].of = "shifter"
           /\ calls[i].what \in {"press", "step"} => calls[i].of \in Buttons /\ calls[i].of # "shifter"
           /\ calls[i].what \in {"shift", "start", "press", "step"}
           /\ calls[i].page # Nobody =>
                  /\ calls[i].page \in DOMAIN supply.users /\ calls[i].page \in ControlPages
                  /\ calls[i].user = supply.users[calls[i].page]
<1>1. Shaped(supply.users, calls[i]) /\ calls[i] \in HttpCall(supply.users)
  BY CallIs DEF Sound
<1>2. calls[i].what = "step" => calls[i].of \in Buttons
  BY <1>1, RecipeIs DEF Shaped
<1>3. "shifter" \notin Buttons
  BY ControlAssumption
<1>4. calls[i].page \in ControlPages \cup {Nobody}
  BY <1>1 DEF HttpCall
<1> QED BY <1>1, <1>2, <1>3, <1>4 DEF Shaped

\* A call of a page failed.
LEMMA FailureRuns ==
    ASSUME DocsIInv, RunsIInv, Fade, UNCHANGED history, supply'.users = supply.users,
           NEW i \in DOMAIN calls, calls[i].pc # "done", calls[i].page \in ControlPages, calls'[i].page = Nobody,
           \A j \in DOMAIN calls : j # i => calls'[j] = calls[j],
           screen'[calls[i].page] = AfterFailure(screen[calls[i].page], calls[i]),
           \A q \in ControlPages : q # calls[i].page => screen'[q] = screen[q]
    PROVE  RunsIInv'
<1>. DEFINE x == calls[i]
            p == x.page
            b == IF x.what = "start" THEN "shifter" ELSE x.of
<1>1. screen[p] \in View /\ p # Nobody
  BY ControlAssumption DEF DocsIInv
<1>2. /\ screen'[p].mode = screen[p].mode
      /\ x.what = "step" => screen'[p].run = NoRun /\ screen'[p].pending = screen[p].pending
      /\ x.what # "step" => screen'[p].run = screen[p].run /\ screen'[p].pending = screen[p].pending \ {b}
  <2>1. /\ AfterFailure(screen[p], x).mode = screen[p].mode
        /\ x.what = "step" => /\ AfterFailure(screen[p], x).run = NoRun
                              /\ AfterFailure(screen[p], x).pending = screen[p].pending
        /\ x.what # "step" => /\ AfterFailure(screen[p], x).run = screen[p].run
                              /\ AfterFailure(screen[p], x).pending = screen[p].pending \ {IF x.what = "start" THEN "shifter" ELSE x.of}
    BY <1>1, FailureShows
  <2> QED BY <2>1
<1>3. x.of = "shifter" \/ (b # "shifter" /\ x.what \notin {"start", "shift"})
  BY WhatIs
<1>4. Shown(screen)
  BY DEF RunsIInv
<1>5. screen'[p].run # NoRun => screen'[p].mode = "auto" /\ "shifter" \notin screen'[p].pending
  BY <1>2, <1>4 DEF Shown
<1>6. ASSUME NEW j \in DOMAIN calls, calls'[j].page = p
      PROVE  /\ calls'[j].what = "step" => screen'[p].run = screen[p].run
             /\ calls'[j].of = "shifter" /\ "shifter" \in screen[p].pending => "shifter" \in screen'[p].pending
  BY <1>1, <1>6, OneOfPage, <1>2, <1>3
<1>7. screen'[p].run = screen[p].run \/ screen'[p].run = NoRun
  BY <1>2
<1>. HIDE DEF x, b
<1> QED BY <1>5, <1>6, <1>7, PageRuns DEF x

LEMMA LoseCallRuns ==
    ASSUME DocsIInv, RunsIInv, NEW i \in DOMAIN calls, LoseCall(i)
    PROVE  RunsIInv'
BY LoseCallDoes, FailureRuns

LEMMA ReloadRuns ==
    ASSUME DocsIInv, RunsIInv, NEW p \in OpenPages, Reload(p)
    PROVE  RunsIInv'
BY ReloadDoes, RestoredIs, PageRuns DEF DocsIInv

LEMMA TakeAnswerRuns ==
    ASSUME DocsIInv, RunsIInv, NEW i \in DOMAIN calls, calls[i].pc = "answered",
           TakeAnswer(i), UNCHANGED <<history, supply, crossed>>
    PROVE  RunsIInv'
<1>. DEFINE x == calls[i]
            u == supply.users
            p == x.page
<1>1. /\ Fade /\ calls'[i] = NoCall /\ \A j \in DOMAIN calls : j # i => calls'[j] = calls[j]
      /\ p \in ControlPages
      /\ screen'[p] = IF ~x.ok THEN AfterFailure(screen[p], x)
                      ELSE IF x.what = "shift" THEN AfterShift(screen[p], x)
                      ELSE IF x.what = "start" THEN AfterStart(screen[p], x, i)
                      ELSE IF x.what = "press" THEN AfterPress(screen[p], x)
                      ELSE AfterStep(screen[p], x)
      /\ \A q \in ControlPages : q # p => screen'[q] = screen[q]
  BY TakeAnswerDoes
<1>2. x \in HttpCall(u) /\ Shaped(u, x) /\ Describes(history, x) /\ Backed(history, x) /\ screen[p] \in View /\ p # Nobody
  BY <1>1, CallIs, RunsIs, ControlAssumption DEF Sound, DocsIInv
<1>3. Shown(screen) /\ UNCHANGED history /\ supply'.users = supply.users
  BY DEF RunsIInv
<1>4. ASSUME NEW j \in DOMAIN calls, calls'[j].page = p
      PROVE  /\ j # i /\ calls'[j] = calls[j]
             /\ x.what = "step" => calls[j].what # "step"
             /\ x.of = "shifter" => calls[j].of # "shifter"
             /\ calls[j].what = "step" => screen[p].run # NoRun
             /\ calls[j].of = "shifter" => screen[p].run = NoRun
  BY <1>1, <1>2, <1>4, NoCallIs, OneOfPage
<1>5. /\ x.what \in {"shift", "start"} => x.of = "shifter"
      /\ x.what \in {"press", "step"} => x.of \in Buttons /\ x.of # "shifter"
      /\ x.what \in {"shift", "start", "press", "step"}
      /\ p \in DOMAIN u /\ x.user = u[p]
  BY <1>2, WhatIs
<1>6. /\ x.of = "shifter" => "shifter" \in screen[p].pending /\ screen[p].run = NoRun
      /\ x.what = "step" => screen[p].run # NoRun /\ screen[p].run.op = x.op /\ screen[p].run.id = x.run
  BY <1>2, OneOfPage
<1>7. x.op \in Nat /\ x.step \in Nat /\ i \in Nat /\ x.ok \in BOOLEAN
  <2>1. i \in Nat
    BY CallIs, Grown, NoCallIs
  <2> QED BY <1>2, <2>1 DEF HttpCall
<1>8. CASE ~x.ok
  BY <1>1, <1>8, NoCallIs, <1>3, FailureRuns
<1>9. CASE x.ok /\ x.what = "shift"
  <2>1. screen'[p] = AfterShift(screen[p], x)
    BY <1>1, <1>9
  <2>2. x.arg \in Modes
    BY <1>2, <1>9 DEF Shaped
  <2>3. screen'[p].run = screen[p].run
    BY <1>2, <2>1, <2>2, ShiftShows
  <2>4. screen'[p].run = NoRun
    BY <1>5, <1>6, <1>9, <2>3
  <2>5. \A j \in DOMAIN calls : calls'[j].page = p => calls'[j].of # "shifter"
    BY <1>4, <1>5, <1>9
  <2>. HIDE DEF x
  <2> QED BY <1>1, <1>3, <2>3, <2>4, <2>5, PageRuns
<1>10. CASE x.ok /\ x.what = "press"
  <2>1. screen'[p] = AfterPress(screen[p], x)
    BY <1>1, <1>10
  <2>2. Concluded(x) /\ Saved(x)
    BY <1>10 DEF Concluded, Saved
  <2>3. x.of \in Buttons /\ x.value \in {"on", "off"}
    BY <1>2, <1>5, <1>10, <2>2 DEF Describes
  <2>4. screen'[p].run = screen[p].run /\ screen'[p].mode = screen[p].mode /\ screen'[p].pending = screen[p].pending \ {x.of}
    BY <1>2, <2>1, <2>3, PressShows
  <2>5. screen'[p].run # NoRun => screen'[p].mode = "auto" /\ "shifter" \notin screen'[p].pending
    BY <1>1, <1>3, <2>4 DEF Shown
  <2>6. "shifter" \in screen[p].pending => "shifter" \in screen'[p].pending
    BY <1>5, <1>10, <2>4
  <2>. HIDE DEF x
  <2> QED BY <1>1, <1>3, <2>4, <2>5, <2>6, PageRuns
<1>11. CASE x.ok /\ x.what = "start"
  <2>. DEFINE r == [op |-> x.op, id |-> i, step |-> 1, waits |-> TRUE]
  <2>1. screen'[p] = AfterStart(screen[p], x, i)
    BY <1>1, <1>11
  <2>2. screen'[p].run = r /\ screen'[p].mode = "auto" /\ screen'[p].pending = screen[p].pending \ {"shifter"}
    BY <1>2, <1>7, <2>1, StartShows
  <2>3. Granted(history, x.op, x.user) /\ Taken(history, x.op) = {}
    BY <1>2, <1>11 DEF Backed
  <2>4. Follows(history, x.op, i, 1)
    BY <2>3, FS_EmptySet DEF Follows
  <2>5. 1 \in DOMAIN Recipe
    BY ControlAssumption
  <2>6. r.op = x.op /\ r.id = i /\ r.step = 1
    OBVIOUS
  <2>. HIDE DEF r
  <2>7. Goes(history, u, p, r)
    BY <1>5, <2>3, <2>4, <2>5, <2>6 DEF Goes
  <2>8. Bearing(x) /\ Borne(x) = x.op
    BY <1>11 DEF Bearing, Borne
  <2>9. \A j \in DOMAIN calls : calls'[j].page = p => calls'[j].what # "step" /\ calls'[j].of # "shifter"
    BY <1>4, <1>5, <1>6, <1>11
  <2>10. "shifter" \notin screen'[p].pending
    BY <2>2
  <2>11. x.pc # "done"
    OBVIOUS
  <2>12. screen'[p].run.op = Borne(x) /\ screen'[p].run.id = i /\ Goes(history, u, p, screen'[p].run) /\ screen'[p].mode = "auto"
    BY <2>2, <2>6, <2>7, <2>8
  <2>. HIDE DEF x
  <2> QED BY <1>1, <1>3, <2>8, <2>9, <2>10, <2>11, <2>12, PageStarts DEF x
<1>12. CASE x.ok /\ x.what = "step"
  <2>. DEFINE r == IF x.step = Len(Recipe) THEN NoRun ELSE [screen[p].run EXCEPT !.step = x.step + 1, !.waits = TRUE]
  <2>1. screen'[p] = AfterStep(screen[p], x)
    BY <1>1, <1>12
  <2>2. Concluded(x)
    BY <1>12 DEF Concluded
  <2>3. x.of \in Buttons /\ x.step \in DOMAIN Recipe /\ x.value = Recipe[x.step].value
    BY <1>2, <1>5, <1>12, <2>2 DEF Shaped, Describes
  <2>4. x.value \in {"on", "off"}
    BY <2>3, RecipeIs
  <2>5. screen'[p].run = r /\ screen'[p].mode = screen[p].mode /\ screen'[p].pending = screen[p].pending \ {x.of}
    <3>1. /\ AfterStep(screen[p], x).run = r /\ AfterStep(screen[p], x).mode = screen[p].mode
          /\ AfterStep(screen[p], x).pending = screen[p].pending \ {x.of}
      BY <1>2, <1>7, <2>3, <2>4, StepShows
    <3> QED BY <2>1, <3>1
  <2>6. screen'[p].mode = "auto" /\ "shifter" \notin screen'[p].pending
    BY <1>1, <1>3, <1>6, <1>12, <2>5 DEF Shown
  <2>7. \A j \in DOMAIN calls : calls'[j].page = p => calls'[j].what # "step" /\ calls'[j].of # "shifter"
    BY <1>4, <1>6, <1>12
  <2>8. CASE x.step = Len(Recipe)
    <3>1. screen'[p].run = NoRun
      BY <2>5, <2>8
    <3>. HIDE DEF x
    <3> QED BY <1>1, <1>3, <2>7, <3>1, PageRuns
  <2>9. CASE x.step # Len(Recipe)
    <3>1. screen[p].run \in RunRecord
      BY <1>2, ViewIs
    <3>2. r.op = x.op /\ r.id = x.run /\ r.step = x.step + 1
      BY <1>6, <1>12, <2>9, <3>1 DEF RunRecord
    <3>3. Granted(history, x.op, x.user) /\ Follows(history, x.op, x.run, x.step + 1)
      BY <1>2, <1>12, <2>2 DEF Backed
    <3>4. x.step + 1 \in DOMAIN Recipe
      BY <2>3, <2>9, ControlAssumption
    <3>. HIDE DEF r
    <3>5. Goes(history, u, p, r)
      BY <1>5, <3>2, <3>3, <3>4 DEF Goes
    <3>6. Bearing(x) /\ Borne(x) = x.op
      BY <1>12 DEF Bearing, Borne
    <3>7. <<r.id, r.op>> \in Pairs(history, calls, screen)
      BY <1>12, <3>2, CallPairs
    <3>8. x.pc # "done"
      OBVIOUS
    <3> QED BY <1>1, <1>3, <2>5, <2>6, <2>7, <3>2, <3>5, <3>6, <3>7, <3>8, PageStarts
  <2> QED BY <2>8, <2>9
<1> QED BY <1>5, <1>7, <1>8, <1>9, <1>10, <1>11, <1>12

LEMMA AskForRunRuns ==
    ASSUME DocsIInv, RunsIInv, NEW i \in DOMAIN calls,
           calls[i].pc = "answered", calls[i].ok, AskForRun(i), UNCHANGED <<history, supply, crossed>>
    PROVE  RunsIInv'
<1>. DEFINE x == calls[i]
            p == x.page
            u == supply.users
<1>1. /\ x.what = "shift" /\ x.arg = "auto" /\ p # Nobody
      /\ Concluded(x) /\ Saved(x) /\ UNCHANGED <<screen, strayed>>
      /\ calls'[i] = NoCall /\ \A j \in DOMAIN calls : j # i => calls'[j] = calls[j]
      /\ \E n, z : /\ Adds(n, z) /\ z.pc = "check" /\ z.page = p /\ z.user = x.user
                   /\ z.what = "start" /\ z.of = "shifter" /\ z.op = x.doc
  BY AskForRunDoes
<1>2. PICK n, z : /\ Adds(n, z) /\ z.pc = "check" /\ z.page = p /\ z.user = x.user
                  /\ z.what = "start" /\ z.of = "shifter" /\ z.op = x.doc
  BY <1>1
<1>3. Shaped(u, x) /\ Describes(history, x) /\ Backed(history, x)
  BY CallIs, RunsIs DEF Sound
<1>4. x.of = "shifter" /\ p \in ControlPages
  BY <1>1, WhatIs
<1>5. "shifter" \in screen[p].pending /\ screen[p].run = NoRun
  BY <1>1, <1>4, OneOfPage
<1>6. Taken(history, x.doc) = {} /\ Granted(history, x.doc, x.user)
  BY <1>1, <1>3, <1>4 DEF Backed, Describes, Granted
<1>7. Backed(history, z)
  BY <1>2, <1>6 DEF Backed, Saved
<1>8. Bearing(z) /\ Borne(z) = x.doc /\ Bearing(x) /\ Borne(x) = x.doc
  BY <1>1, <1>2 DEF Bearing, Borne
<1>9. OneBears(calls, screen)
  BY DEF RunsIInv
<1>10. \A j \in DOMAIN calls : Bearing(calls'[j]) => Borne(calls'[j]) # Borne(z)
  BY <1>1, <1>8, <1>9, NoCallIs DEF OneBears
<1>11. \A q \in ControlPages : screen'[q].run.waits => screen'[q].run.op # Borne(z)
  BY <1>1, <1>8, <1>9 DEF OneBears
<1>12. \A j \in DOMAIN calls : ~(calls'[j].page = p /\ calls'[j].of = "shifter")
  <2>. TAKE j \in DOMAIN calls
  <2>1. CASE j = i
    BY <1>1, <2>1, NoCallIs
  <2>2. CASE j # i
    BY <1>1, <1>4, <2>2, OneOfPage
  <2> QED BY <2>1, <2>2
<1>13. screen'[p].run = NoRun /\ screen' = screen
  BY <1>1, <1>5
<1>. HIDE DEF x
<1> QED BY <1>1, <1>2, <1>4, <1>5, <1>7, <1>10, <1>11, <1>12, <1>13, NoRunIs, AddRuns

LEMMA ShiftModeRuns ==
    ASSUME DocsIInv, RunsIInv, NEW p \in OpenPages, NEW m \in Modes, ShiftMode(p, m)
    PROVE  RunsIInv'
<1>1. /\ p \in ControlPages /\ p # Nobody /\ "shifter" \notin screen[p].pending
      /\ screen'[p].run = NoRun
      /\ screen'[p].pending = screen[p].pending \cup {"shifter"}
      /\ \A q \in ControlPages : q # p => screen'[q] = screen[q]
      /\ \A j \in DOMAIN calls :
             IF calls[j].page = p /\ calls[j].what = "step" THEN calls'[j].page = Nobody ELSE calls'[j] = calls[j]
      /\ supply'.users = supply.users /\ UNCHANGED <<history, strayed>>
      /\ \E n, z : /\ Adds(n, z) /\ z.pc = "read" /\ z.page = p /\ z.what = "shift" /\ z.of = "shifter"
  BY ShiftModeDoes
<1>2. PICK n, z : /\ Adds(n, z) /\ z.pc = "read" /\ z.page = p /\ z.what = "shift" /\ z.of = "shifter"
  BY <1>1
<1>3. ~Bearing(z) /\ Backed(history, z)
  BY <1>2 DEF Bearing, Backed, Saved, Concluded
<1>4. \A j \in DOMAIN calls : calls'[j].page = p => calls'[j] = calls[j] /\ calls'[j].what # "step" /\ calls'[j].of # "shifter"
  <2>. TAKE j \in DOMAIN calls
  <2>. HAVE calls'[j].page = p
  <2>1. calls'[j] = calls[j] /\ calls[j].page = p /\ calls[j].what # "step"
    BY <1>1
  <2>2. calls[j].of # "shifter"
    BY <1>1, <2>1, OneOfPage
  <2> QED BY <2>1, <2>2
<1>5. ~screen'[p].run.waits /\ "shifter" \in screen'[p].pending
  BY <1>1, NoRunIs
<1> QED BY <1>1, <1>2, <1>3, <1>4, <1>5, AddRuns

LEMMA PressRuns ==
    ASSUME DocsIInv, RunsIInv, NEW p \in OpenPages, NEW b \in Buttons, Press(p, b)
    PROVE  RunsIInv'
<1>1. /\ p \in ControlPages /\ p # Nobody
      /\ screen'[p].mode = screen[p].mode /\ screen'[p].run = screen[p].run
      /\ screen'[p].pending = screen[p].pending \cup {b}
      /\ \A q \in ControlPages : q # p => screen'[q] = screen[q]
      /\ \A j \in DOMAIN calls : calls'[j] = calls[j]
      /\ supply'.users = supply.users /\ UNCHANGED <<history, strayed>>
      /\ \E n, z : /\ Adds(n, z) /\ z.pc = "read" /\ z.page = p /\ z.what = "press" /\ z.of = b
  BY PressDoes
<1>2. PICK n, z : /\ Adds(n, z) /\ z.pc = "read" /\ z.page = p /\ z.what = "press" /\ z.of = b
  BY <1>1
<1>3. ~Bearing(z) /\ Backed(history, z)
  BY <1>2 DEF Bearing, Backed, Saved, Concluded
<1>4. z.of # "shifter" /\ b # "shifter"
  BY <1>2, ControlAssumption
<1>5. Shown(screen) /\ \A q \in ControlPages : Goes(history, supply.users, q, screen[q].run)
  BY DEF RunsIInv
<1>6. screen'[p].run # NoRun =>
               /\ screen'[p].run.op = screen[p].run.op /\ screen'[p].run.id = screen[p].run.id /\ screen[p].run # NoRun
               /\ Goes(history, supply.users, p, screen'[p].run)
               /\ screen'[p].mode = "auto" /\ "shifter" \notin screen'[p].pending
  BY <1>1, <1>4, <1>5 DEF Shown
<1>7. "shifter" \in screen[p].pending => "shifter" \in screen'[p].pending
  BY <1>1
<1> QED BY <1>1, <1>2, <1>3, <1>4, <1>6, <1>7, AddRuns

LEMMA PostStepRuns ==
    ASSUME DocsIInv, RunsIInv, NEW p \in OpenPages, PostStep(p)
    PROVE  /\ RunsIInv' /\ screen[p].run.step \in DOMAIN Recipe
<1>. DEFINE r == screen[p].run
<1>1. r.waits /\ r # NoRun /\ p \in ControlPages /\ p \in DOMAIN supply.users
  BY NoRunIs DEF PostStep, DocsIInv, OpenPages
<1>2. Goes(history, supply.users, p, r) /\ Shown(screen) /\ OneBears(calls, screen)
  BY <1>1 DEF RunsIInv
<1>3. Granted(history, r.op, supply.users[p]) /\ r.step \in DOMAIN Recipe /\ Follows(history, r.op, r.id, r.step)
  BY <1>1, <1>2 DEF Goes
<1>4. /\ p # Nobody
      /\ screen'[p].mode = screen[p].mode
      /\ screen'[p].run = [op |-> r.op, id |-> r.id, step |-> r.step, waits |-> FALSE]
      /\ screen'[p].pending = screen[p].pending
      /\ \A q \in ControlPages : q # p => screen'[q] = screen[q]
      /\ \A j \in DOMAIN calls : calls'[j] = calls[j]
      /\ UNCHANGED <<history, strayed, supply>>
      /\ \E n, z : /\ Adds(n, z) /\ z.pc = "check" /\ z.page = p /\ z.user = supply.users[p] /\ z.what = "step"
                   /\ z.op = r.op /\ z.run = r.id /\ z.step = r.step
  BY <1>3, PostStepDoes
<1>5. PICK n, z : /\ Adds(n, z) /\ z.pc = "check" /\ z.page = p /\ z.user = supply.users[p] /\ z.what = "step"
                  /\ z.op = r.op /\ z.run = r.id /\ z.step = r.step
  BY <1>4
<1>6. z.of # "shifter"
  BY <1>5, RecipeIs DEF Adds, Sound, Shaped
<1>7. Backed(history, z)
  BY <1>5, <1>3 DEF Concluded, Backed
<1>8. Bearing(z) /\ Borne(z) = r.op
  BY <1>5 DEF Bearing, Borne
<1>9. screen'[p].run.op = r.op /\ screen'[p].run.id = r.id /\ screen'[p].run.step = r.step /\ ~screen'[p].run.waits
  BY <1>4
<1>10. \A j \in DOMAIN calls : Bearing(calls'[j]) => Borne(calls'[j]) # Borne(z)
  BY <1>1, <1>2, <1>4, <1>8 DEF OneBears
<1>11. \A q \in ControlPages : screen'[q].run.waits => screen'[q].run.op # Borne(z)
  <2>. TAKE q \in ControlPages
  <2>1. CASE q = p
    BY <1>9, <2>1
  <2>2. CASE q # p
    BY <1>1, <1>2, <1>4, <1>8, <2>2 DEF OneBears
  <2> QED BY <2>1, <2>2
<1>12. <<z.run, z.op>> \in Pairs(history, calls, screen)
  BY <1>1, <1>5, PagePairs
<1>13. Goes(history, supply.users, p, screen'[p].run)
  BY <1>1, <1>3, <1>9 DEF Goes
<1>14. screen'[p].mode = "auto" /\ "shifter" \notin screen'[p].pending
  BY <1>1, <1>2, <1>4 DEF Shown
<1>15. \A j \in DOMAIN calls : calls'[j].page = p => calls'[j].what # "step"
  BY <1>1, <1>4, OneOfPage
<1>16. screen'[p].run = [op |-> z.op, id |-> z.run, step |-> z.step, waits |-> FALSE]
  BY <1>4, <1>5
<1>17. supply'.users = supply.users /\ UNCHANGED history
  BY <1>4
<1>18. RunsIInv'
  <2>1. screen'[p].run # NoRun =>
               /\ screen'[p].run.op = screen[p].run.op /\ screen'[p].run.id = screen[p].run.id /\ screen[p].run # NoRun
               /\ Goes(history, supply.users, p, screen'[p].run)
               /\ screen'[p].mode = "auto" /\ "shifter" \notin screen'[p].pending
    BY <1>1, <1>9, <1>13, <1>14
  <2>2. \A j \in DOMAIN calls : calls'[j].page = p /\ p # Nobody =>
               /\ calls'[j].what = "step" => screen'[p].run = screen[p].run
               /\ calls'[j].of = "shifter" /\ "shifter" \in screen[p].pending => "shifter" \in screen'[p].pending
    BY <1>4, <1>15
  <2>3. screen'[p].run.waits => screen'[p].run = screen[p].run
    BY <1>9
  <2>. HIDE DEF r
  <2> QED BY <1>1, <1>4, <1>5, <1>6, <1>7, <1>10, <1>11, <1>12, <1>16, <1>17, <2>1, <2>2, <2>3, AddRuns
<1> QED BY <1>3, <1>18

-----------------------------------------------------------------------------
LEMMA DocsInit == ControlInit => DocsIInv /\ RunsIInv
<1>. SUFFICES ASSUME ControlInit PROVE DocsIInv /\ RunsIInv
  OBVIOUS
<1>1. /\ supply \in ControlBounds /\ history = <<>> /\ calls = <<>> /\ screen = [p \in ControlPages |-> Restored]
      /\ crossed = {} /\ strayed = FALSE
  BY DEF ControlInit
<1>2. "users" \in DOMAIN supply /\ OpenPages \subseteq ControlPages
  BY <1>1, ControlAssumption DEF OpenPages
<1>3. DOMAIN history = {} /\ DOMAIN calls = {}
  BY <1>1
<1>4. Booked(supply.users, history) /\ Served(supply.users, history, calls)
  BY <1>1, <1>3 DEF Booked, Served
<1>5. Restored \in View /\ Restored.run = NoRun
  BY <1>4, RestoredIs
<1>6. DocsIInv
  BY <1>1, <1>2, <1>4, <1>5 DEF DocsIInv
<1>7. \A p \in ControlPages : screen[p].run = NoRun /\ ~screen[p].run.waits
  BY <1>1, <1>5, NoRunIs
<1>8. Pairs(history, calls, screen) = {}
  BY <1>3, <1>7 DEF Pairs
<1>9. /\ \A i \in DOMAIN calls : Backed(history, calls[i])
      /\ \A p \in ControlPages : Goes(history, supply.users, p, screen[p].run)
      /\ OneBears(calls, screen) /\ Minded(calls, screen) /\ Shown(screen)
      /\ OneRun(calls, Pairs(history, calls, screen)) /\ InOrder(history)
  BY <1>3, <1>7, <1>8 DEF Goes, OneBears, Minded, Shown, OneRun, InOrder
<1> QED BY <1>6, <1>9 DEF RunsIInv

\* Every step keeps the documents and the runs in order.
LEMMA RunsStep ==
    ASSUME DocsIInv, RunsIInv, ControlNext
    PROVE  DocsIInv' /\ RunsIInv'
<1>1. ASSUME NEW i \in DOMAIN calls, ReceiveAnswer(i) PROVE DocsIInv' /\ RunsIInv'
  BY <1>1, AskForRunDoes, AskForRunRuns, TakeAnswerDoes, TakeAnswerRuns DEF ReceiveAnswer
<1>2. ASSUME NEW i \in DOMAIN calls, ReadCommands(i) PROVE DocsIInv' /\ RunsIInv'
  BY <1>2, ReadCommandsDoes, ReadCommandsRuns
<1>3. ASSUME NEW i \in DOMAIN calls, CreateCommand(i) PROVE DocsIInv' /\ RunsIInv'
  BY <1>3, CreateCommandDoes, CreateCommandRuns
<1>4. ASSUME NEW i \in DOMAIN calls, SaveCommand(i) PROVE DocsIInv' /\ RunsIInv'
  BY <1>4, SaveCommandDoes, SaveCommandRuns
<1>5. ASSUME NEW i \in DOMAIN calls, AuditAuthorization(i) PROVE DocsIInv' /\ RunsIInv'
  BY <1>5, AuditAuthorizationDoes, AuditAuthorizationRuns
<1>6. ASSUME NEW i \in DOMAIN calls, AuditConclusion(i) PROVE DocsIInv' /\ RunsIInv'
  BY <1>6, AuditConclusionDoes, AuditConclusionRuns
<1>7. ASSUME NEW i \in DOMAIN calls, CheckActive(i) PROVE DocsIInv' /\ RunsIInv'
  BY <1>7, CheckActiveDoes, CheckActiveRuns
<1>8. ASSUME NEW i \in DOMAIN calls, AcknowledgeStep(i) PROVE DocsIInv' /\ RunsIInv'
  BY <1>8, AcknowledgeStepDoes, AcknowledgeStepRuns
<1>9. ASSUME NEW i \in DOMAIN calls, LoseCall(i) PROVE DocsIInv' /\ RunsIInv'
  BY <1>9, LoseCallDoes, LoseCallRuns
<1>10. ASSUME NEW i \in DOMAIN calls, FailCall(i) PROVE DocsIInv' /\ RunsIInv'
  BY <1>10, FailCallDoes, FailCallRuns
<1>11. ASSUME NEW p \in OpenPages, PostStep(p) PROVE DocsIInv' /\ RunsIInv'
  BY <1>11, PostStepDoes, PostStepRuns
<1>12. ASSUME NEW p \in OpenPages, Reload(p) PROVE DocsIInv' /\ RunsIInv'
  BY <1>12, ReloadDoes, ReloadRuns
<1>13. ASSUME NEW p \in OpenPages, NEW m \in Modes, ShiftMode(p, m) PROVE DocsIInv' /\ RunsIInv'
  BY <1>13, ShiftModeDoes, ShiftModeRuns
<1>14. ASSUME NEW p \in OpenPages, NEW b \in Buttons, Press(p, b) PROVE DocsIInv' /\ RunsIInv'
  BY <1>14, PressDoes, PressRuns
<1> QED BY <1>1, <1>2, <1>3, <1>4, <1>5, <1>6, <1>7, <1>8, <1>9, <1>10, <1>11, <1>12, <1>13, <1>14
        DEF ControlNext, ControlSteps

-----------------------------------------------------------------------------
(* What the only page shows.                                               *)

LEMMA ModeSame ==
    ASSUME NEW u, NEW h, Booked(u, h), NEW g, Shifts(g) = Shifts(h), \A j \in Shifts(h) : g[j].value = h[j].value
    PROVE  ModeBy(g) = ModeBy(h)
<1>1. h \in Seq(Document(u)) /\ Shifts(h) \subseteq DOMAIN h
  BY DEF Booked, Shifts
<1>2. CASE Shifts(h) = {}
  BY <1>2 DEF ModeBy, LatestOf
<1>3. CASE Shifts(h) # {}
  <2>. DEFINE m == LatestOf(Shifts(h))
  <2>1. m \in Shifts(h)
    BY <1>1, <1>3, LastOf
  <2>2. g[m].value = h[m].value
    BY <2>1
  <2>3. ModeBy(g) = IF m = 0 THEN "manual" ELSE g[m].value
    BY DEF ModeBy
  <2>4. ModeBy(h) = IF m = 0 THEN "manual" ELSE h[m].value
    BY DEF ModeBy
  <2>. HIDE DEF m
  <2> QED BY <2>2, <2>3, <2>4
<1> QED BY <1>2, <1>3

LEMMA LitSame ==
    ASSUME NEW u, NEW h, Booked(u, h), NEW b, NEW g, Telling(g, b) = Telling(h, b),
           \A j \in Telling(h, b) : g[j].value = h[j].value
    PROVE  LitBy(g, b) = LitBy(h, b)
<1>1. h \in Seq(Document(u)) /\ Telling(h, b) \subseteq DOMAIN h
  BY DEF Booked, Telling
<1>2. CASE Telling(h, b) = {}
  BY <1>2 DEF LitBy, LatestOf
<1>3. CASE Telling(h, b) # {}
  <2>. DEFINE m == LatestOf(Telling(h, b))
  <2>1. m \in Telling(h, b)
    BY <1>1, <1>3, LastOf
  <2>2. g[m].value = h[m].value
    BY <2>1
  <2>3. LitBy(g, b) = IF m = 0 \/ g[m].value = "reset" THEN "off" ELSE g[m].value
    BY DEF LitBy
  <2>4. LitBy(h, b) = IF m = 0 \/ h[m].value = "reset" THEN "off" ELSE h[m].value
    BY DEF LitBy
  <2>. HIDE DEF m
  <2> QED BY <2>2, <2>3, <2>4
<1> QED BY <1>2, <1>3

LEMMA LastIs ==
    ASSUME NEW S, NEW h \in Seq(S), NEW js, js \subseteq DOMAIN h, NEW n \in js, \A j \in js : j <= n
    PROVE  LatestOf(js) = n /\ n # 0
<1>1. LatestOf(js) \in js /\ \A j \in js : j <= LatestOf(js)
  BY LastOf
<1>2. DOMAIN h \subseteq Nat /\ 0 \notin DOMAIN h
  OBVIOUS
<1>. DEFINE m == LatestOf(js)
<1>3. m \in Nat /\ n \in Nat /\ m <= n /\ n <= m
  BY <1>1, <1>2
<1>. HIDE DEF m
<1>4. m = n
  BY <1>3
<1> QED BY <1>2, <1>4 DEF m

LEMMA ModeNew ==
    ASSUME NEW u, NEW h, Booked(u, h), NEW n \in Shifts(h), \A j \in Shifts(h) : j <= n
    PROVE  ModeBy(h) = h[n].value
BY LastIs DEF Booked, Shifts, ModeBy

LEMMA LitNew ==
    ASSUME NEW u, NEW h, Booked(u, h), NEW b, NEW n \in Telling(h, b), \A j \in Telling(h, b) : j <= n
    PROVE  LitBy(h, b) = IF h[n].value = "reset" THEN "off" ELSE h[n].value
BY LastIs DEF Booked, Telling, LitBy

\* What is said of the mode and of the buttons does not change.
Quiet3(h, g) ==
    /\ Shifts(g) = Shifts(h) /\ ModeBy(g) = ModeBy(h)
    /\ \A b \in Buttons : Telling(g, b) = Telling(h, b) /\ LitBy(g, b) = LitBy(h, b)

LEMMA SameQuiet ==
    ASSUME NEW h
    PROVE  Quiet3(h, h)
BY DEF Quiet3

\* A document that is not acknowledged says nothing.
LEMMA FilesQuiet ==
    ASSUME DocsIInv, NEW d, Files(d), d.status # "acknowledged"
    PROVE  Quiet3(history, history')
BY ModeSame, LitSame DEF DocsIInv, Shifts, Files, Telling, Quiet3

LEMMA MarksQuiet ==
    ASSUME DocsIInv, NEW k, NEW d, Marks(k, d), d.status # "acknowledged", history[k].status # "acknowledged"
    PROVE  Quiet3(history, history')
BY ModeSame, LitSame DEF DocsIInv, Shifts, Marks, Telling, Quiet3

\* What one call changes of it.
Effects(x, y) ==
    /\ IF y.what = "shift"
       THEN IF Concluded(y) THEN ModeBy(history') = y.arg
            ELSE ModeBy(history') = ModeBy(history) /\ (Saved(y) => \A j \in Shifts(history') : j < y.doc)
       ELSE ModeBy(history') = ModeBy(history) /\ Shifts(history') = Shifts(history)
    /\ \A b \in Buttons \ crossed :
          IF b \in Affects(x)
          THEN IF Concluded(y) THEN LitBy(history', b) = Final(y)
               ELSE LitBy(history', b) = LitBy(history, b) /\ (Saved(y) => \A j \in Telling(history', b) : j < y.doc)
          ELSE LitBy(history', b) = LitBy(history, b) /\ Telling(history', b) = Telling(history, b)

LEMMA ShownMoves ==
    ASSUME DocsIInv, RunsIInv, NEW p \in ControlPages, p # Nobody,
           ShownIInv(p), NEW i \in DOMAIN calls, calls[i].pc \notin {"done", "answered"},
           NEW y, Moves(i, y), UNCHANGED <<screen, crossed>>,
           (y = NoCall /\ calls[i].page = Nobody) \/ (Kin(y, calls[i]) /\ y.page = calls[i].page),
           Concluded(calls[i]) => y = NoCall \/ Concluded(y),
           y # NoCall => Effects(calls[i], y), y = NoCall => Quiet3(history, history')
    PROVE  ShownIInv(p)'
<1>. DEFINE x == calls[i]
            s == screen[p]
<1>1. /\ \A j \in DOMAIN calls : calls[j].what \in {"shift", "start", "press"} => calls[j].page = p
      /\ ModeIsKept(history, calls, s)
      /\ \A b \in Buttons \ crossed : LitIsKept(history, calls, s, b)
  BY DEF ShownIInv
<1>2. DOMAIN calls' = DOMAIN calls /\ calls'[i] = y /\ \A j \in DOMAIN calls : j # i => calls'[j] = calls[j]
  BY DEF Moves
<1>3. /\ x.what \in {"shift", "start"} => x.of = "shifter" /\ x.page = p
      /\ x.what \in {"press", "step"} => x.of # "shifter"
      /\ x.what \in {"shift", "start", "press", "step"}
  BY <1>1, WhatIs
<1>4. y # NoCall => y.what = x.what /\ y.of = x.of /\ y.arg = x.arg /\ y.page = x.page /\ Affects(y) = Affects(x)
  BY DEF Kin, Affects
<1>5. y = NoCall => y.what = "none" /\ y.of = "none" /\ Affects(y) = {} /\ x.of # "shifter" /\ x.what \notin {"shift", "start"}
  BY <1>3, NoCallIs DEF Affects
<1>6. \A j \in DOMAIN calls' : calls'[j].what \in {"shift", "start", "press"} => calls'[j].page = p
  BY <1>1, <1>2, <1>4, <1>5
<1>7. ASSUME NEW j \in DOMAIN calls, j # i, calls[j].what \in {"shift", "start"}
      PROVE  x.what \notin {"shift", "start"}
  BY <1>7, CallIs, NoCallIs, <1>1, WhatIs, <1>3, OneOfPage DEF Sound
<1>8. x.what # "shift" => ModeBy(history') = ModeBy(history) /\ Shifts(history') = Shifts(history)
  BY <1>4 DEF Effects, Quiet3
<1>9. ModeIsKept(history', calls', s)
  <2>1. ASSUME \A j \in DOMAIN calls' : calls'[j].of # "shifter" PROVE s.mode = ModeBy(history')
    BY <1>2, <1>4, <1>5, <2>1, <1>1, <1>3, <1>8 DEF ModeIsKept
  <2>2. ASSUME NEW j \in DOMAIN calls', calls'[j].what = "shift"
        PROVE  IF Concluded(calls'[j]) THEN ModeBy(history') = calls'[j].arg
               ELSE s.mode = ModeBy(history') /\ (Saved(calls'[j]) => \A k \in Shifts(history') : k < calls'[j].doc)
    <3>1. CASE j = i
      BY <1>2, <1>4, <1>5, <2>2, <3>1, <1>1 DEF ModeIsKept, Effects
    <3>2. CASE j # i
      BY <1>2, <3>2, <1>7, <1>8, <2>2, <1>1 DEF ModeIsKept
    <3> QED BY <3>1, <3>2
  <2>3. ASSUME NEW j \in DOMAIN calls', calls'[j].what = "start", calls'[j].pc = "answered" => calls'[j].ok
        PROVE  ModeBy(history') = "auto"
    BY <1>2, <1>4, <1>5, <2>3, <1>1, <1>8, <1>7 DEF ModeIsKept
  <2> QED BY <2>1, <2>2, <2>3 DEF ModeIsKept
<1>10. ASSUME NEW b \in Buttons \ crossed PROVE LitIsKept(history', calls', s, b)
  <2>1. LitIsKept(history, calls, s, b)
    BY <1>1
  <2>2. b \in Affects(x) => x.page # Nobody /\ y # NoCall
    BY <2>1, <1>3, <1>5 DEF LitIsKept, Kin
  <2>3. b \notin Affects(x) => LitBy(history', b) = LitBy(history, b) /\ Telling(history', b) = Telling(history, b)
    BY DEF Effects, Quiet3
  <2>4. b \in Affects(y) <=> b \in Affects(x)
    BY <1>4, <1>5, <2>2
  <2>5. ASSUME \A j \in DOMAIN calls' : b \notin Affects(calls'[j]) PROVE s.lit[b] = LitBy(history', b)
    BY <1>2, <2>4, <2>5, <2>1, <2>3 DEF LitIsKept
  <2>6. ASSUME NEW j \in DOMAIN calls', b \in Affects(calls'[j])
        PROVE  /\ \A k \in DOMAIN calls' : b \in Affects(calls'[k]) => j = k
               /\ calls'[j].page # Nobody
               /\ IF Concluded(calls'[j]) THEN LitBy(history', b) = Final(calls'[j])
                  ELSE s.lit[b] = LitBy(history', b) /\ (Saved(calls'[j]) => \A k \in Telling(history', b) : k < calls'[j].doc)
    <3>1. \A k \in DOMAIN calls : b \in Affects(calls'[k]) <=> b \in Affects(calls[k])
      BY <1>2, <2>4
    <3>2. j \in DOMAIN calls /\ b \in Affects(calls[j])
      BY <1>2, <2>6, <3>1
    <3>3. /\ \A k \in DOMAIN calls : b \in Affects(calls[k]) => j = k
          /\ calls[j].page # Nobody
          /\ IF Concluded(calls[j]) THEN LitBy(history, b) = Final(calls[j])
             ELSE s.lit[b] = LitBy(history, b) /\ (Saved(calls[j]) => \A k \in Telling(history, b) : k < calls[j].doc)
      BY <2>1, <3>2 DEF LitIsKept
    <3>4. \A k \in DOMAIN calls' : b \in Affects(calls'[k]) => j = k
      BY <1>2, <3>1, <3>3
    <3>5. CASE j = i
      BY <1>4, <2>2, <3>2, <3>5, <3>3, <1>2, <3>4 DEF Effects
    <3>6. CASE j # i
      BY <1>2, <3>2, <3>3, <3>6, <2>3, <3>4
    <3> QED BY <3>5, <3>6
  <2> QED BY <2>5, <2>6 DEF LitIsKept
<1> QED BY <1>6, <1>9, <1>10 DEF ShownIInv

LEMMA QuietEffects ==
    ASSUME DocsIInv, NEW p, ShownIInv(p), NEW i \in DOMAIN calls,
           NEW y, Kin(y, calls[i]), Quiet3(history, history'),
           calls[i].what # "start" /\ Concluded(y) => Concluded(calls[i]) /\ y.value = calls[i].value,
           Concluded(calls[i]) => Concluded(y),
           Saved(y) => (Saved(calls[i]) /\ y.doc = calls[i].doc) \/ \A j \in DOMAIN history : j < y.doc
    PROVE  Effects(calls[i], y)
<1>. DEFINE x == calls[i]
<1>1. /\ ModeIsKept(history, calls, screen[p])
      /\ \A b \in Buttons \ crossed : LitIsKept(history, calls, screen[p], b)
  BY DEF ShownIInv
<1>2. y.what = x.what /\ y.arg = x.arg /\ y.of = x.of
  BY DEF Kin
<1>3. /\ Shifts(history') = Shifts(history) /\ ModeBy(history') = ModeBy(history)
      /\ \A b \in Buttons : Telling(history', b) = Telling(history, b) /\ LitBy(history', b) = LitBy(history, b)
  BY DEF Quiet3
<1>4. ASSUME x.what = "shift"
      PROVE  IF Concluded(y) THEN ModeBy(history') = y.arg
             ELSE ModeBy(history') = ModeBy(history) /\ (Saved(y) => \A j \in Shifts(history') : j < y.doc)
  BY <1>1, <1>4, <1>2, <1>3 DEF ModeIsKept, Shifts
<1>5. ASSUME NEW b \in Buttons \ crossed, b \in Affects(x)
      PROVE  IF Concluded(y) THEN LitBy(history', b) = Final(y)
             ELSE LitBy(history', b) = LitBy(history, b) /\ (Saved(y) => \A j \in Telling(history', b) : j < y.doc)
  BY <1>1, <1>5, <1>2, <1>3 DEF LitIsKept, Telling, Affects, Final
<1>6. y.what = "shift" <=> x.what = "shift"
  BY <1>2
<1> QED BY <1>3, <1>4, <1>5, <1>6 DEF Effects

LEMMA ShownQuiet ==
    ASSUME DocsIInv, RunsIInv, NEW p \in ControlPages, p # Nobody,
           ShownIInv(p), NEW i \in DOMAIN calls, calls[i].pc \notin {"done", "answered"},
           NEW y, Moves(i, y), UNCHANGED <<screen, crossed>>, Quiet3(history, history'),
           (y = NoCall /\ calls[i].page = Nobody) \/ (Kin(y, calls[i]) /\ y.page = calls[i].page),
           calls[i].what # "start" /\ Concluded(y) => Concluded(calls[i]) /\ y.value = calls[i].value,
           Concluded(calls[i]) => y = NoCall \/ Concluded(y),
           Saved(y) => (Saved(calls[i]) /\ y.doc = calls[i].doc) \/ \A j \in DOMAIN history : j < y.doc
    PROVE  ShownIInv(p)'
BY QuietEffects, ShownMoves

LEMMA AnswerShown ==
    ASSUME DocsIInv, RunsIInv, NEW p \in ControlPages, p # Nobody,
           ShownIInv(p), NEW i \in DOMAIN calls,
           calls[i].pc \notin {"done", "answered"}, NEW ok \in BOOLEAN, ok <=> calls[i].pc = "conclude",
           Moves(i, AnswerTo(calls[i], ok)), UNCHANGED <<history, screen, crossed>>,
           calls[i].pc \in {"conclude", "check", "read"}
    PROVE  ShownIInv(p)'
<1>. DEFINE x == calls[i]
            y == AnswerTo(x, ok)
<1>1. /\ y # NoCall => /\ Kin(y, x) /\ y.pc = "answered" /\ y.page = x.page
                       /\ y.doc = x.doc /\ y.value = x.value /\ y.ok = ok
      /\ Saved(y) => Saved(x) /\ y.doc = x.doc
      /\ y = NoCall <=> x.page = Nobody
  BY CallIs, AnswerIs
<1>2. Quiet3(history, history')
  BY SameQuiet
<1>3. ~Concluded(NoCall)
  BY NoCallIs
<1>. HIDE DEF y
<1>4. y # NoCall => (Concluded(y) <=> ok)
  BY <1>1 DEF Concluded
<1>5. Concluded(x) <=> ok
  BY DEF Concluded
<1> QED BY <1>1, <1>2, <1>3, <1>4, <1>5, ShownQuiet DEF y

LEMMA AuditConclusionShown ==
    ASSUME DocsIInv, RunsIInv, NEW p \in ControlPages, p # Nobody,
           ShownIInv(p), NEW i \in DOMAIN calls, AuditConclusion(i)
    PROVE  ShownIInv(p)'
BY AuditConclusionDoes, AnswerShown

LEMMA CheckActiveShown ==
    ASSUME DocsIInv, RunsIInv, NEW p \in ControlPages, p # Nobody,
           ShownIInv(p), NEW i \in DOMAIN calls, CheckActive(i)
    PROVE  ShownIInv(p)'
<1>. DEFINE x == calls[i]
<1>1. /\ x.pc = "check" /\ UNCHANGED <<history, screen, crossed, supply, strayed>>
      /\ \/ Moves(i, AnswerTo(x, FALSE))
         \/ \E y : /\ Moves(i, y) /\ Kin(y, x) /\ y.page = x.page
                   /\ y.pc = IF x.what = "start" THEN "conclude" ELSE "record"
  BY CheckActiveDoes
<1>2. CASE Moves(i, AnswerTo(x, FALSE))
  BY <1>1, <1>2, AnswerShown
<1>3. ASSUME NEW y, Moves(i, y), Kin(y, x), y.page = x.page, y.pc = IF x.what = "start" THEN "conclude" ELSE "record"
      PROVE  ShownIInv(p)'
  <2>1. x.what # "start" => ~Concluded(y)
    BY <1>3 DEF Concluded
  <2>2. ~Concluded(x)
    BY <1>1 DEF Concluded
  <2>3. ~Saved(y)
    BY <1>1, CallIs, <1>3 DEF Sound, Shaped, Saved, Kin
  <2>4. Quiet3(history, history')
    BY <1>1, SameQuiet
  <2> QED BY <1>1, <1>3, <2>1, <2>2, <2>3, <2>4, ShownQuiet
<1> QED BY <1>1, <1>2, <1>3

LEMMA ReadCommandsShown ==
    ASSUME DocsIInv, RunsIInv, NEW p \in ControlPages, p # Nobody,
           ShownIInv(p), NEW i \in DOMAIN calls, ReadCommands(i)
    PROVE  ShownIInv(p)'
<1>. DEFINE x == calls[i]
<1>1. /\ x.pc = "read" /\ UNCHANGED <<history, screen, crossed, supply, strayed>>
      /\ \/ Moves(i, AnswerTo(x, FALSE))
         \/ \E y : Moves(i, y) /\ Kin(y, x) /\ y.page = x.page /\ y.pc = "create"
  BY ReadCommandsDoes
<1>2. CASE Moves(i, AnswerTo(x, FALSE))
  BY <1>1, <1>2, AnswerShown
<1>3. ASSUME NEW y, Moves(i, y), Kin(y, x), y.page = x.page, y.pc = "create"
      PROVE  ShownIInv(p)'
  BY <1>1, <1>3, SameQuiet, ShownQuiet DEF Concluded, Saved
<1> QED BY <1>1, <1>2, <1>3

LEMMA CreateCommandShown ==
    ASSUME DocsIInv, RunsIInv, NEW p \in ControlPages, p # Nobody,
           ShownIInv(p), NEW i \in DOMAIN calls, CreateCommand(i)
    PROVE  ShownIInv(p)'
<1>. DEFINE x == calls[i]
<1>1. /\ x.pc = "create" /\ UNCHANGED <<screen, crossed, supply, strayed>>
      /\ \E y, d : /\ Moves(i, y) /\ Kin(y, x) /\ y.page = x.page /\ y.pc = "authorized"
                   /\ y.doc = Len(history) + 1 /\ Files(d) /\ d.status = "requested"
  BY CreateCommandDoes
<1>2. PICK y, d : /\ Moves(i, y) /\ Kin(y, x) /\ y.page = x.page /\ y.pc = "authorized"
                  /\ y.doc = Len(history) + 1 /\ Files(d) /\ d.status = "requested"
  BY <1>1
<1>3. ~Concluded(y) /\ ~Concluded(x)
  BY <1>1, <1>2 DEF Concluded
<1>4. \A j \in DOMAIN history : j < y.doc
  BY <1>2 DEF Files
<1>5. Quiet3(history, history')
  BY <1>2, FilesQuiet
<1> QED BY <1>1, <1>2, <1>3, <1>4, <1>5, ShownQuiet

LEMMA AuditAuthorizationShown ==
    ASSUME DocsIInv, RunsIInv, NEW p \in ControlPages, p # Nobody,
           ShownIInv(p), NEW i \in DOMAIN calls, AuditAuthorization(i)
    PROVE  ShownIInv(p)'
<1>. DEFINE x == calls[i]
<1>1. /\ x.pc = "audit" /\ Saved(x) /\ UNCHANGED <<screen, crossed, supply, strayed>>
      /\ \E y, d : /\ Moves(i, y) /\ Kin(y, x) /\ y.page = x.page /\ y.doc = x.doc /\ y.pc = "dispatched"
                   /\ Marks(y.doc, d) /\ d.status = history[y.doc].status /\ history[y.doc].status # "acknowledged"
  BY AuditAuthorizationDoes
<1>2. PICK y, d : /\ Moves(i, y) /\ Kin(y, x) /\ y.page = x.page /\ y.doc = x.doc /\ y.pc = "dispatched"
                  /\ Marks(y.doc, d) /\ d.status = history[y.doc].status /\ history[y.doc].status # "acknowledged"
  BY <1>1
<1>3. ~Concluded(y) /\ ~Concluded(x)
  BY <1>1, <1>2 DEF Concluded
<1>4. Quiet3(history, history')
  BY <1>2, MarksQuiet
<1> QED BY <1>1, <1>2, <1>3, <1>4, ShownQuiet

\* A command that is acknowledged is the newest that says something.
LEMMA SaveCommandShown ==
    ASSUME DocsIInv, RunsIInv, NEW p \in ControlPages, p # Nobody,
           ShownIInv(p), NEW i \in DOMAIN calls, SaveCommand(i)
    PROVE  ShownIInv(p)'
<1>. DEFINE x == calls[i]
            k == x.doc
<1>1. /\ x.pc \in {"authorized", "dispatched", "acknowledged"} /\ Saved(x) /\ DocsIInv'
      /\ UNCHANGED <<screen, crossed, supply, strayed>>
      /\ \E y, d : /\ Moves(i, y) /\ Kin(y, x) /\ y.page = x.page /\ y.doc = x.doc
                   /\ y.value = x.value /\ Saved(y)
                   /\ IF x.pc = "acknowledged" THEN Concluded(y) ELSE y.pc \in {"audit", "acknowledged"}
                   /\ Marks(y.doc, d) /\ d.status = x.pc /\ history[y.doc].status # "acknowledged"
  BY SaveCommandDoes
<1>2. PICK y, d : /\ Moves(i, y) /\ Kin(y, x) /\ y.page = x.page /\ y.doc = x.doc
                  /\ y.value = x.value /\ Saved(y)
                  /\ IF x.pc = "acknowledged" THEN Concluded(y) ELSE y.pc \in {"audit", "acknowledged"}
                  /\ Marks(y.doc, d) /\ d.status = x.pc /\ history[y.doc].status # "acknowledged"
  BY <1>1
<1>3. ~Concluded(x)
  BY <1>1 DEF Concluded
<1>4. CASE x.pc # "acknowledged"
  BY <1>2, <1>4, MarksQuiet, <1>1, <1>3, ShownQuiet DEF Concluded
<1>5. CASE x.pc = "acknowledged"
  <2>1. /\ ModeIsKept(history, calls, screen[p])
        /\ \A b \in Buttons \ crossed : LitIsKept(history, calls, screen[p], b)
    BY DEF ShownIInv
  <2>2. /\ k \in DOMAIN history /\ DOMAIN history' = DOMAIN history /\ history'[k] = d /\ d.status = "acknowledged"
        /\ Alike(d, history[k]) /\ \A j \in DOMAIN history : j # k => history'[j] = history[j]
    BY <1>2, <1>5 DEF Marks
  <2>3. /\ history[k].of = x.of /\ history[k].value = x.value
        /\ (x.what = "shift" /\ x.value = x.arg) \/ (x.what = "press" /\ x.value \in {"on", "off"})
    BY <1>1, CallIs DEF Sound, Describes
  <2>4. d.of = x.of /\ d.value = x.value
    BY <2>2, <2>3 DEF Alike
  <2>5. /\ x.what = "shift" => x.of = "shifter" /\ x.arg \in Modes
        /\ x.what = "press" => x.of \in Buttons
    BY <1>1, CallIs DEF Sound, Shaped
  <2>6. Booked(supply.users, history) /\ Booked(supply.users, history') /\ \A b \in Buttons : b # "shifter"
    BY <1>1, CallIs, ControlAssumption DEF DocsIInv
  <2>7. k \in Nat /\ DOMAIN history \subseteq Nat
    BY <2>2, CallIs
  <2>8. Concluded(y) /\ y.what = x.what /\ y.arg = x.arg
    BY <1>2, <1>5 DEF Kin
  <2>9. CASE x.what = "shift"
    <3>1. Shifts(history') = Shifts(history) \cup {k}
      BY <2>2, <2>4, <2>5, <2>9 DEF Shifts, Alike
    <3>2. \A j \in Shifts(history) : j < k
      BY <1>1, <1>3, <2>1, <2>9 DEF ModeIsKept
    <3>3. \A j \in Shifts(history') : j <= k
      BY <2>7, <3>1, <3>2 DEF Shifts
    <3>4. ModeBy(history') = y.arg
      BY <2>2, <2>3, <2>4, <2>9, <3>1, <2>6, <2>8, <3>3, ModeNew
    <3>5. ASSUME NEW b \in Buttons \ crossed, b \in Affects(x) PROVE LitBy(history', b) = Final(y)
      <4>1. x.arg = "reset"
        BY <2>9, <3>5 DEF Affects
      <4>2. Telling(history', b) = Telling(history, b) \cup {k}
        BY <2>2, <2>3, <2>4, <2>9, <4>1 DEF Telling, Alike
      <4>3. \A j \in Telling(history, b) : j < k
        BY <1>1, <1>3, <2>1, <3>5 DEF LitIsKept
      <4>4. \A j \in Telling(history', b) : j <= k
        BY <2>7, <4>2, <4>3 DEF Telling
      <4>5. k \in Telling(history', b) /\ history'[k].value = "reset"
        BY <2>2, <2>3, <2>4, <2>9, <4>1, <4>2
      <4>6. LitBy(history', b) = "off"
        BY <2>6, <4>4, <4>5, LitNew
      <4> QED BY <2>8, <2>9, <4>6 DEF Final
    <3>6. ASSUME NEW b \in Buttons, b \notin Affects(x)
          PROVE  LitBy(history', b) = LitBy(history, b) /\ Telling(history', b) = Telling(history, b)
      <4>1. d.of # b /\ d.value # "reset"
        BY <2>3, <2>4, <2>5, <2>6, <2>9, <3>6 DEF Affects
      <4>2. Telling(history', b) = Telling(history, b) /\ \A j \in Telling(history, b) : history'[j].value = history[j].value
        BY <1>2, <2>2, <4>1 DEF Telling, Alike
      <4> QED BY <2>6, <4>2, LitSame
    <3>7. Effects(x, y)
      BY <2>8, <2>9, <3>4, <3>5, <3>6 DEF Effects
    <3> QED BY <1>1, <1>2, <2>8, <3>7, NoCallIs, ShownMoves
  <2>10. CASE x.what = "press"
    <3>1. Shifts(history') = Shifts(history) /\ \A j \in Shifts(history) : history'[j].value = history[j].value
      BY <1>2, <2>2, <2>4, <2>5, <2>6, <2>10 DEF Shifts, Alike
    <3>2. ModeBy(history') = ModeBy(history)
      BY <2>6, <3>1, ModeSame
    <3>3. Affects(x) = {x.of} /\ x.value \in {"on", "off"} /\ Final(y) = x.value
      BY <1>2, <2>3, <2>8, <2>10 DEF Affects, Final
    <3>4. ASSUME NEW b \in Buttons \ crossed, b \in Affects(x) PROVE LitBy(history', b) = Final(y)
      <4>1. Telling(history', b) = Telling(history, b) \cup {k}
        BY <2>2, <2>4, <3>3, <3>4 DEF Telling, Alike
      <4>2. \A j \in Telling(history, b) : j < k
        BY <1>1, <1>3, <2>1, <3>4 DEF LitIsKept
      <4>3. \A j \in Telling(history', b) : j <= k
        BY <2>7, <4>1, <4>2 DEF Telling
      <4>4. k \in Telling(history', b) /\ history'[k].value = x.value
        BY <2>2, <2>4, <4>1
      <4>5. LitBy(history', b) = IF x.value = "reset" THEN "off" ELSE x.value
        BY <2>6, <4>3, <4>4, LitNew
      <4> QED BY <3>3, <4>5
    <3>5. ASSUME NEW b \in Buttons, b \notin Affects(x)
          PROVE  LitBy(history', b) = LitBy(history, b) /\ Telling(history', b) = Telling(history, b)
      BY <2>4, <3>3, <3>5, <1>2, <2>2, <2>6, LitSame DEF Telling, Alike
    <3>6. Effects(x, y)
      BY <2>8, <2>10, <3>1, <3>2, <3>4, <3>5 DEF Effects
    <3> QED BY <1>1, <1>2, <2>8, <3>6, NoCallIs, ShownMoves
  <2> QED BY <2>3, <2>9, <2>10
<1> QED BY <1>4, <1>5

\* A step is the newest command of its button.
LEMMA AcknowledgeStepShown ==
    ASSUME DocsIInv, RunsIInv, NEW p \in ControlPages, p # Nobody,
           ShownIInv(p), NEW i \in DOMAIN calls, AcknowledgeStep(i)
    PROVE  ShownIInv(p)'
<1>. DEFINE x == calls[i]
            n == Len(history) + 1
<1>1. /\ x.pc = "record" /\ x.what = "step" /\ DocsIInv' /\ UNCHANGED <<screen, crossed, supply, strayed>>
      /\ \E y, d : /\ Moves(i, y) /\ Kin(y, x) /\ y.page = x.page /\ y.pc = "conclude"
                   /\ Files(d) /\ d.status = "acknowledged" /\ d.of = x.of
                   /\ d.of \in Buttons /\ d.value = y.value /\ d.value \in {"on", "off"}
  BY AcknowledgeStepDoes
<1>2. PICK y, d : /\ Moves(i, y) /\ Kin(y, x) /\ y.page = x.page /\ y.pc = "conclude"
                  /\ Files(d) /\ d.status = "acknowledged" /\ d.of = x.of
                  /\ d.of \in Buttons /\ d.value = y.value /\ d.value \in {"on", "off"}
  BY <1>1
<1>3. /\ DOMAIN history' = DOMAIN history \cup {n} /\ n \notin DOMAIN history /\ history'[n] = d
      /\ n \in Nat /\ DOMAIN history \subseteq Nat
      /\ \A j \in DOMAIN history : history'[j] = history[j] /\ j <= Len(history)
  BY <1>2 DEF Files
<1>4. Booked(supply.users, history) /\ Booked(supply.users, history') /\ \A b \in Buttons : b # "shifter"
  BY <1>1, CallIs, ControlAssumption DEF DocsIInv
<1>5. ~Concluded(x) /\ Concluded(y) /\ y.what = "step" /\ y.of = x.of
  BY <1>1, <1>2 DEF Concluded, Kin
<1>6. Shifts(history') = Shifts(history) /\ \A j \in Shifts(history) : history'[j].value = history[j].value
  BY <1>2, <1>3, <1>4 DEF Shifts
<1>7. ModeBy(history') = ModeBy(history)
  BY <1>4, <1>6, ModeSame
<1>8. Affects(x) = {x.of} /\ Final(y) = d.value
  BY <1>1, <1>2, <1>5 DEF Affects, Final
<1>9. ASSUME NEW b \in Buttons \ crossed, b \in Affects(x) PROVE LitBy(history', b) = Final(y)
  BY <1>2, <1>3, <1>8, <1>9, <1>4, LitNew DEF Telling, Files
<1>10. ASSUME NEW b \in Buttons, b \notin Affects(x)
       PROVE  LitBy(history', b) = LitBy(history, b) /\ Telling(history', b) = Telling(history, b)
  BY <1>2, <1>8, <1>10, <1>3, <1>4, LitSame DEF Telling
<1>11. Effects(x, y)
  BY <1>5, <1>6, <1>7, <1>9, <1>10 DEF Effects
<1> QED BY <1>1, <1>2, <1>5, <1>11, NoCallIs, ShownMoves

\* Only calls of the only page.
LEMMA OnlyPage ==
    ASSUME DocsIInv, NEW p, OpenPages = {p}, NEW i \in DOMAIN calls, calls[i].pc # "done", calls[i].page # Nobody
    PROVE  calls[i].page = p
BY WhatIs DEF OpenPages

LEMMA DoneAffects ==
    ASSUME DocsIInv, NEW i \in DOMAIN calls, calls[i].pc = "done"
    PROVE  calls[i].what = "none" /\ calls[i].of = "none" /\ Affects(calls[i]) = {}
BY CallIs, NoCallIs DEF Sound, Affects

LEMMA SentShown ==
    ASSUME DocsIInv, RunsIInv, NEW p \in ControlPages, p # Nobody,
           ShownIInv(p), UNCHANGED history,
           NEW n, NEW z, Adds(n, z), z.page = p, z.pc \in {"read", "check"}, z.what \in {"shift", "press", "step"},
           screen'[p].mode = screen[p].mode, screen'[p].lit = screen[p].lit,
           \A j \in DOMAIN calls : calls'[j] = calls[j] \/ calls[j].what = "step",
           z.what = "shift" => "shifter" \notin screen[p].pending,
           \A b \in Buttons \ crossed' :
               /\ b \notin crossed
               /\ \A j \in DOMAIN calls : calls'[j] = calls[j] \/ calls[j].of # b
               /\ b \in Affects(z) => \A j \in DOMAIN calls : calls[j].pc # "done" => b \notin Affects(calls[j])
    PROVE  ShownIInv(p)'
<1>. DEFINE s == screen[p]
<1>1. /\ \A j \in DOMAIN calls : calls[j].what \in {"shift", "start", "press"} => calls[j].page = p
      /\ ModeIsKept(history, calls, s)
      /\ \A b \in Buttons \ crossed : LitIsKept(history, calls, s, b)
  BY DEF ShownIInv
<1>2. /\ DOMAIN calls' = DOMAIN calls \cup {n} /\ n \notin DOMAIN calls /\ calls'[n] = z /\ ~Saved(z)
      /\ \A j \in DOMAIN calls : Fades(calls'[j], calls[j])
  BY DEF Adds
<1>3. ~Concluded(z)
  BY DEF Concluded
<1>4. ASSUME NEW j \in DOMAIN calls
      PROVE  /\ calls'[j] = calls[j] \/ (calls'[j].what \in {"none", "step"} /\ calls[j].what = "step")
             /\ Affects(calls'[j]) \subseteq Affects(calls[j])
  BY <1>2, NoCallIs DEF Fades, Kin, Affects
<1>5. ASSUME NEW j \in DOMAIN calls, calls'[j].what \in {"shift", "start", "press"} PROVE calls'[j] = calls[j]
  BY <1>4, <1>5
<1>6. \A j \in DOMAIN calls' : calls'[j].what \in {"shift", "start", "press"} => calls'[j].page = p
  BY <1>1, <1>2, <1>5
<1>7. ASSUME NEW j \in DOMAIN calls, calls[j].of = "shifter"
      PROVE  calls'[j] = calls[j] /\ "shifter" \in screen[p].pending
  BY <1>7, DoneAffects, WhatIs, <1>1, OneOfPage
<1>8. ModeIsKept(history, calls', screen'[p])
  <2>1. ASSUME \A j \in DOMAIN calls' : calls'[j].of # "shifter" PROVE s.mode = ModeBy(history)
    BY <1>2, <1>7, <2>1, <1>1 DEF ModeIsKept
  <2>2. ASSUME NEW j \in DOMAIN calls', calls'[j].what = "shift"
        PROVE  IF Concluded(calls'[j]) THEN ModeBy(history) = calls'[j].arg
               ELSE s.mode = ModeBy(history) /\ (Saved(calls'[j]) => \A k \in Shifts(history) : k < calls'[j].doc)
    BY <1>2, <2>2, <1>7, <1>1, <1>3, <1>5 DEF ModeIsKept
  <2>3. ASSUME NEW j \in DOMAIN calls', calls'[j].what = "start", calls'[j].pc = "answered" => calls'[j].ok
        PROVE  ModeBy(history) = "auto"
    BY <1>2, <1>5, <2>3, <1>1 DEF ModeIsKept
  <2> QED BY <2>1, <2>2, <2>3 DEF ModeIsKept
<1>9. ASSUME NEW b \in Buttons \ crossed' PROVE LitIsKept(history, calls', screen'[p], b)
  <2>1. LitIsKept(history, calls, s, b) /\ b \notin crossed
    BY <1>1
  <2>2. ASSUME NEW j \in DOMAIN calls, b \in Affects(calls[j])
        PROVE  calls'[j] = calls[j] /\ b \notin Affects(z)
    BY <2>2, DoneAffects DEF Affects
  <2>3. ASSUME \A j \in DOMAIN calls' : b \notin Affects(calls'[j]) PROVE s.lit[b] = LitBy(history, b)
    BY <1>2, <2>2, <2>3, <2>1 DEF LitIsKept
  <2>4. ASSUME NEW j \in DOMAIN calls', b \in Affects(calls'[j])
        PROVE  /\ \A k \in DOMAIN calls' : b \in Affects(calls'[k]) => j = k
               /\ calls'[j].page # Nobody
               /\ IF Concluded(calls'[j]) THEN LitBy(history, b) = Final(calls'[j])
                  ELSE s.lit[b] = LitBy(history, b) /\ (Saved(calls'[j]) => \A k \in Telling(history, b) : k < calls'[j].doc)
    BY <1>2, <2>4, <2>2, <2>1, <1>4, <1>3 DEF LitIsKept
  <2> QED BY <2>3, <2>4 DEF LitIsKept
<1> QED BY <1>6, <1>8, <1>9 DEF ShownIInv

LEMMA ShiftModeShown ==
    ASSUME DocsIInv, RunsIInv, NEW p \in OpenPages,
           ShownIInv(p), NEW m \in Modes, ShiftMode(p, m)
    PROVE  ShownIInv(p)'
BY ShiftModeDoes, SentShown

LEMMA PressShown ==
    ASSUME DocsIInv, RunsIInv, NEW p \in OpenPages,
           ShownIInv(p), NEW b \in Buttons, Press(p, b)
    PROVE  ShownIInv(p)'
BY PressDoes, SentShown

LEMMA PostStepShown ==
    ASSUME DocsIInv, RunsIInv, NEW p \in OpenPages,
           ShownIInv(p), PostStep(p)
    PROVE  ShownIInv(p)'
<1>1. screen[p].run.step \in DOMAIN Recipe
  BY PostStepRuns
<1>2. /\ p \in ControlPages /\ p # Nobody
      /\ screen'[p].mode = screen[p].mode /\ screen'[p].lit = screen[p].lit
      /\ \A j \in DOMAIN calls : calls'[j] = calls[j]
      /\ UNCHANGED history
  BY <1>1, PostStepDoes
<1>4. \E n, z : /\ Adds(n, z) /\ z.pc = "check" /\ z.page = p /\ z.user = supply.users[p] /\ z.what = "step"
                /\ z.op = screen[p].run.op /\ z.run = screen[p].run.id /\ z.step = screen[p].run.step
                /\ \A a \in Buttons \ crossed' :
                       /\ a \notin crossed
                       /\ a \in Affects(z) => \A j \in DOMAIN calls : calls[j].pc # "done" => a \notin Affects(calls[j])
  BY <1>1, PostStepDoes
<1>3. PICK n, z : /\ Adds(n, z) /\ z.pc = "check" /\ z.page = p /\ z.what = "step"
                  /\ \A a \in Buttons \ crossed' :
                         /\ a \notin crossed
                         /\ a \in Affects(z) => \A j \in DOMAIN calls : calls[j].pc # "done" => a \notin Affects(calls[j])
  BY <1>4
<1> QED BY <1>2, <1>3, SentShown

\* A reloaded page starts from what is kept.
LEMMA ReloadShown ==
    ASSUME DocsIInv, RunsIInv, NEW p \in OpenPages, OpenPages = {p},
           ShownIInv(p), Reload(p), ~strayed'
    PROVE  ShownIInv(p)'
<1>1. /\ p \in ControlPages /\ DOMAIN calls' = DOMAIN calls /\ UNCHANGED <<history, crossed>>
      /\ \A j \in DOMAIN calls : IF calls[j].page = p THEN calls'[j].page = Nobody ELSE calls'[j] = calls[j]
      /\ screen'[p] = Restored /\ strayed' = (strayed \/ \E j \in DOMAIN calls : calls[j].page = p)
  BY ReloadDoes DEF Fade
<1>2. \A j \in DOMAIN calls : calls[j].page # p /\ calls'[j] = calls[j]
  BY <1>1
<1>3. ASSUME NEW j \in DOMAIN calls PROVE calls[j].page = Nobody
  BY CallIs, NoCallIs, <1>2, OnlyPage DEF Sound
<1>4. \A j \in DOMAIN calls : calls[j].what \notin {"shift", "start", "press"}
  BY <1>2 DEF ShownIInv
<1>5. \A b \in Buttons \ crossed : \A j \in DOMAIN calls : b \notin Affects(calls[j])
  BY <1>3 DEF ShownIInv, LitIsKept
<1>6. /\ Restored.mode = ModeBy(history)
      /\ \A b \in Buttons : Restored.lit[b] = LitBy(history, b)
  BY CallIs, RestoredIs DEF DocsIInv
<1>7. ModeIsKept(history, calls', screen'[p])
  BY <1>1, <1>2, <1>4, <1>6 DEF ModeIsKept
<1>8. ASSUME NEW b \in Buttons \ crossed PROVE LitIsKept(history, calls', screen'[p], b)
  BY <1>1, <1>2, <1>5, <1>6 DEF LitIsKept
<1> QED BY <1>1, <1>2, <1>4, <1>7, <1>8 DEF ShownIInv

\* A page that asks for its run has its AUTO command.
LEMMA AskForRunShown ==
    ASSUME DocsIInv, RunsIInv, NEW p \in ControlPages, p # Nobody,
           ShownIInv(p), NEW i \in DOMAIN calls,
           calls[i].pc = "answered", calls[i].ok, AskForRun(i), UNCHANGED <<history, supply, crossed>>
    PROVE  ShownIInv(p)'
<1>. DEFINE x == calls[i]
            s == screen[p]
<1>1. /\ x.what = "shift" /\ x.arg = "auto" /\ Concluded(x) /\ UNCHANGED <<screen, history, crossed>>
      /\ calls'[i] = NoCall /\ \A j \in DOMAIN calls : j # i => calls'[j] = calls[j]
      /\ \E n, z : Adds(n, z) /\ z.pc = "check" /\ z.page = x.page /\ z.what = "start" /\ z.of = "shifter"
  BY AskForRunDoes
<1>2. PICK n, z : Adds(n, z) /\ z.pc = "check" /\ z.page = x.page /\ z.what = "start" /\ z.of = "shifter"
  BY <1>1
<1>3. /\ \A j \in DOMAIN calls : calls[j].what \in {"shift", "start", "press"} => calls[j].page = p
      /\ ModeIsKept(history, calls, s)
      /\ \A b \in Buttons \ crossed : LitIsKept(history, calls, s, b)
  BY DEF ShownIInv
<1>4. /\ DOMAIN calls' = DOMAIN calls \cup {n} /\ n \notin DOMAIN calls /\ calls'[n] = z
  BY <1>2 DEF Adds
<1>5. x.page = p /\ NoCall.what = "none" /\ NoCall.of = "none"
  BY <1>1, <1>3, NoCallIs
<1>6. ModeBy(history) = "auto"
  BY <1>1, <1>3 DEF ModeIsKept
<1>7. \A j \in DOMAIN calls' : calls'[j].what \in {"shift", "start", "press"} => calls'[j].page = p
  BY <1>1, <1>2, <1>3, <1>4, <1>5
<1>8. ASSUME NEW j \in DOMAIN calls', calls'[j].what = "shift" PROVE FALSE
  BY <1>1, <1>2, <1>4, <1>5, <1>8, DoneAffects, <1>3, WhatIs, OneOfPage
<1>9. ModeIsKept(history, calls', s)
  BY <1>2, <1>4, <1>6, <1>8 DEF ModeIsKept
<1>10. Affects(x) = {} /\ Affects(z) = {} /\ Affects(NoCall) = {}
  BY <1>1, <1>2, <1>5 DEF Affects
<1>11. ASSUME NEW b \in Buttons \ crossed PROVE LitIsKept(history, calls', s, b)
  BY <1>3, <1>1, <1>10, <1>4 DEF LitIsKept
<1> QED BY <1>1, <1>7, <1>9, <1>11 DEF ShownIInv

\* What a page shows once it has an answer.
LEMMA AnswerShows ==
    ASSUME DocsIInv, RunsIInv, NEW i \in DOMAIN calls, calls[i].pc = "answered",
           TakeAnswer(i), UNCHANGED <<history, supply, crossed>>, calls[i].page \in ControlPages
    PROVE  LET x == calls[i]  s == screen[x.page]  t == screen'[x.page] IN
           /\ x.ok /\ x.what = "shift" => t.mode = x.arg
           /\ x.ok /\ x.what = "start" => t.mode = "auto"
           /\ ~x.ok \/ x.what \in {"press", "step"} => t.mode = s.mode
           /\ \A b \in Buttons : t.lit[b] = IF x.ok /\ b \in Affects(x) THEN Final(x) ELSE s.lit[b]
<1>. DEFINE x == calls[i]
            s == screen[x.page]
            t == screen'[x.page]
<1>1. t = IF ~x.ok THEN AfterFailure(s, x)
          ELSE IF x.what = "shift" THEN AfterShift(s, x)
          ELSE IF x.what = "start" THEN AfterStart(s, x, i)
          ELSE IF x.what = "press" THEN AfterPress(s, x)
          ELSE AfterStep(s, x)
  BY TakeAnswerDoes
<1>2. s \in View
  BY DEF DocsIInv
<1>3. /\ x \in HttpCall(supply.users) /\ Sound(supply.users, history, x) /\ i \in Nat
      /\ x.what \in {"shift", "start", "press", "step"}
  BY CallIs, WhatIs
<1>. HIDE DEF x, s, t
<1>4. x.pc = "answered"
  BY DEF x
<1>5. x.op \in Nat /\ x.step \in Nat
  BY <1>3 DEF HttpCall
<1>6. CASE ~x.ok
  <2>1. t = AfterFailure(s, x)
    BY <1>1, <1>6
  <2>2. t.mode = s.mode /\ t.lit = s.lit
    BY <1>2, <2>1, FailureShows
  <2> QED BY <1>6, <2>2 DEF x, s, t
<1>7. CASE x.ok /\ x.what = "shift"
  <2>1. t = AfterShift(s, x) /\ x.arg \in Modes
    BY <1>1, <1>3, <1>4, <1>7 DEF Sound, Shaped
  <2>2. t.mode = x.arg /\ t.lit = IF x.arg = "reset" THEN [b \in Buttons |-> "off"] ELSE s.lit
    BY <1>2, <2>1, ShiftShows
  <2>3. \A b \in Buttons : t.lit[b] = IF x.ok /\ b \in Affects(x) THEN Final(x) ELSE s.lit[b]
    BY <1>7, <2>2 DEF Affects, Final
  <2> QED BY <1>7, <2>2, <2>3 DEF x, s, t
<1>8. CASE x.ok /\ x.what = "start"
  <2>1. t = AfterStart(s, x, i)
    BY <1>1, <1>8
  <2>2. t.mode = "auto" /\ t.lit = s.lit
    BY <1>2, <2>1 DEF AfterStart, View
  <2>3. Affects(x) = {}
    BY <1>8 DEF Affects
  <2> QED BY <1>8, <2>2, <2>3 DEF x, s, t
<1>9. CASE x.ok /\ x.what = "press"
  <2>1. t = AfterPress(s, x)
    BY <1>1, <1>9
  <2>2. x.of \in Buttons /\ x.value \in {"on", "off"}
    BY <1>4, <1>9, <1>3 DEF Concluded, Saved, Sound, Shaped, Describes
  <2>3. t.mode = s.mode /\ t.lit[x.of] = x.value /\ \A b \in Buttons : b # x.of => t.lit[b] = s.lit[b]
    BY <1>2, <2>1, <2>2, PressShows
  <2>4. \A b \in Buttons : t.lit[b] = IF x.ok /\ b \in Affects(x) THEN Final(x) ELSE s.lit[b]
    BY <1>9, <2>3 DEF Affects, Final
  <2> QED BY <1>9, <2>3, <2>4 DEF x, s, t
<1>10. CASE x.ok /\ x.what = "step"
  <2>1. t = AfterStep(s, x)
    BY <1>1, <1>10
  <2>2. x.of \in Buttons /\ x.value \in {"on", "off"}
    BY <1>4, <1>10, <1>3, RecipeIs DEF Concluded, Sound, Shaped, Describes
  <2>3. t.mode = s.mode /\ t.lit[x.of] = x.value /\ \A b \in Buttons : b # x.of => t.lit[b] = s.lit[b]
    BY <1>2, <1>5, <2>1, <2>2, StepShows
  <2>4. \A b \in Buttons : t.lit[b] = IF x.ok /\ b \in Affects(x) THEN Final(x) ELSE s.lit[b]
    BY <1>10, <2>3 DEF Affects, Final
  <2> QED BY <1>10, <2>3, <2>4 DEF x, s, t
<1> QED BY <1>3, <1>6, <1>7, <1>8, <1>9, <1>10 DEF x

LEMMA TakeAnswerShown ==
    ASSUME DocsIInv, RunsIInv, NEW p \in ControlPages, OpenPages = {p},
           ShownIInv(p), NEW i \in DOMAIN calls, calls[i].pc = "answered",
           TakeAnswer(i), UNCHANGED <<history, supply, crossed>>, ~strayed'
    PROVE  ShownIInv(p)'
<1>. DEFINE x == calls[i]
            s == screen[p]
            t == screen'[p]
<1>1. /\ DOMAIN calls' = DOMAIN calls /\ calls'[i] = NoCall /\ \A j \in DOMAIN calls : j # i => calls'[j] = calls[j]
      /\ x.page \in ControlPages /\ strayed' = (strayed \/ (~x.ok /\ x.what = "start"))
  BY TakeAnswerDoes DEF Fade
<1>2. x.page # Nobody /\ x.page = p
  BY <1>1, OnlyPage, ControlAssumption
<1>3. /\ \A j \in DOMAIN calls : calls[j].what \in {"shift", "start", "press"} => calls[j].page = p
      /\ ModeIsKept(history, calls, s)
      /\ \A b \in Buttons \ crossed : LitIsKept(history, calls, s, b)
  BY DEF ShownIInv
<1>4. /\ x.ok /\ x.what = "shift" => t.mode = x.arg
      /\ x.ok /\ x.what = "start" => t.mode = "auto"
      /\ ~x.ok \/ x.what \in {"press", "step"} => t.mode = s.mode
      /\ \A b \in Buttons : t.lit[b] = IF x.ok /\ b \in Affects(x) THEN Final(x) ELSE s.lit[b]
  BY <1>1, <1>2, AnswerShows
<1>5. NoCall.what = "none" /\ NoCall.of = "none" /\ Affects(NoCall) = {}
  BY NoCallIs DEF Affects
<1>6. /\ x.what \in {"shift", "start"} => x.of = "shifter"
      /\ x.what \in {"press", "step"} => x.of # "shifter"
      /\ x.what \in {"shift", "start", "press", "step"}
  BY WhatIs
<1>7. ~(~x.ok /\ x.what = "start") /\ (Concluded(x) <=> x.ok)
  BY <1>1 DEF Concluded
<1>8. ASSUME NEW j \in DOMAIN calls, j # i, calls[j].what \in {"shift", "start"}
      PROVE  t.mode = s.mode
  BY <1>3, <1>8, DoneAffects, WhatIs, <1>2, OneOfPage, <1>4, <1>6
<1>9. \A j \in DOMAIN calls' : calls'[j].what \in {"shift", "start", "press"} => calls'[j].page = p
  BY <1>1, <1>3, <1>5
<1>10. ModeIsKept(history, calls', t)
  <2>1. ASSUME \A j \in DOMAIN calls' : calls'[j].of # "shifter" PROVE t.mode = ModeBy(history)
    BY <1>3, <1>7, <1>4, <1>1, <1>6, <2>1 DEF ModeIsKept
  <2>2. ASSUME NEW j \in DOMAIN calls', calls'[j].what = "shift"
        PROVE  IF Concluded(calls'[j]) THEN ModeBy(history) = calls'[j].arg
               ELSE t.mode = ModeBy(history) /\ (Saved(calls'[j]) => \A k \in Shifts(history) : k < calls'[j].doc)
    BY <1>1, <1>5, <2>2, <1>8, <1>3 DEF ModeIsKept
  <2>3. ASSUME NEW j \in DOMAIN calls', calls'[j].what = "start", calls'[j].pc = "answered" => calls'[j].ok
        PROVE  ModeBy(history) = "auto"
    BY <1>1, <1>5, <2>3, <1>3 DEF ModeIsKept
  <2> QED BY <2>1, <2>2, <2>3 DEF ModeIsKept
<1>11. ASSUME NEW b \in Buttons \ crossed PROVE LitIsKept(history, calls', t, b)
  <2>1. LitIsKept(history, calls, s, b)
    BY <1>3
  <2>2. ASSUME \A j \in DOMAIN calls' : b \notin Affects(calls'[j]) PROVE t.lit[b] = LitBy(history, b)
    BY <1>7, <2>1, <1>4, <1>1, <2>2 DEF LitIsKept
  <2>3. ASSUME NEW j \in DOMAIN calls', b \in Affects(calls'[j])
        PROVE  /\ \A k \in DOMAIN calls' : b \in Affects(calls'[k]) => j = k
               /\ calls'[j].page # Nobody
               /\ IF Concluded(calls'[j]) THEN LitBy(history, b) = Final(calls'[j])
                  ELSE t.lit[b] = LitBy(history, b) /\ (Saved(calls'[j]) => \A k \in Telling(history, b) : k < calls'[j].doc)
    BY <1>1, <1>5, <2>3, <2>1, <1>4 DEF LitIsKept
  <2> QED BY <2>2, <2>3 DEF LitIsKept
<1> QED BY <1>9, <1>10, <1>11 DEF ShownIInv

\* The only page keeps showing what is kept.
LEMMA ShownStep ==
    ASSUME DocsIInv, RunsIInv, NEW p \in ControlPages, OpenPages = {p},
           ~strayed => ShownIInv(p), ControlNext, ~strayed'
    PROVE  ShownIInv(p)'
<1>. p # Nobody
  BY ControlAssumption
<1>1. ASSUME NEW i \in DOMAIN calls, ReceiveAnswer(i) PROVE ShownIInv(p)'
  BY <1>1, AskForRunShown, TakeAnswerShown DEF ReceiveAnswer, AskForRun, TakeAnswer
<1>2. ASSUME NEW i \in DOMAIN calls, ReadCommands(i) PROVE ShownIInv(p)'
  BY <1>2, ReadCommandsShown DEF ReadCommands
<1>3. ASSUME NEW i \in DOMAIN calls, CreateCommand(i) PROVE ShownIInv(p)'
  BY <1>3, CreateCommandShown DEF CreateCommand
<1>4. ASSUME NEW i \in DOMAIN calls, SaveCommand(i) PROVE ShownIInv(p)'
  BY <1>4, SaveCommandShown DEF SaveCommand
<1>5. ASSUME NEW i \in DOMAIN calls, AuditAuthorization(i) PROVE ShownIInv(p)'
  BY <1>5, AuditAuthorizationShown DEF AuditAuthorization
<1>6. ASSUME NEW i \in DOMAIN calls, AuditConclusion(i) PROVE ShownIInv(p)'
  BY <1>6, AuditConclusionShown DEF AuditConclusion
<1>7. ASSUME NEW i \in DOMAIN calls, CheckActive(i) PROVE ShownIInv(p)'
  BY <1>7, CheckActiveShown DEF CheckActive
<1>8. ASSUME NEW i \in DOMAIN calls, AcknowledgeStep(i) PROVE ShownIInv(p)'
  BY <1>8, AcknowledgeStepShown DEF AcknowledgeStep
<1>9. ASSUME NEW i \in DOMAIN calls, LoseCall(i) PROVE ShownIInv(p)'
  BY <1>9 DEF LoseCall
<1>10. ASSUME NEW i \in DOMAIN calls, FailCall(i) PROVE ShownIInv(p)'
  BY <1>10 DEF FailCall
<1>11. ASSUME NEW q \in OpenPages, PostStep(q) PROVE ShownIInv(p)'
  BY <1>11, PostStepShown DEF PostStep
<1>12. ASSUME NEW q \in OpenPages, Reload(q) PROVE ShownIInv(p)'
  BY <1>12, ReloadShown DEF Reload
<1>13. ASSUME NEW q \in OpenPages, NEW m \in Modes, ShiftMode(q, m) PROVE ShownIInv(p)'
  BY <1>13, ShiftModeShown DEF ShiftMode
<1>14. ASSUME NEW q \in OpenPages, NEW b \in Buttons, Press(q, b) PROVE ShownIInv(p)'
  BY <1>14, PressShown DEF Press
<1> QED BY <1>1, <1>2, <1>3, <1>4, <1>5, <1>6, <1>7, <1>8, <1>9, <1>10, <1>11, <1>12, <1>13, <1>14
        DEF ControlNext, ControlSteps

LEMMA ControlBegins == ControlInit => ControlIInv
<1>. SUFFICES ASSUME ControlInit PROVE ControlIInv
  OBVIOUS
<1>1. DocsIInv /\ RunsIInv
  BY DocsInit
<1>2. /\ history = <<>> /\ calls = <<>> /\ screen = [p \in ControlPages |-> Restored]
      /\ DOMAIN history = {} /\ DOMAIN calls = {}
  BY DEF ControlInit
<1>3. Restored.mode = ModeBy(history) /\ \A b \in Buttons : Restored.lit[b] = LitBy(history, b)
  BY <1>1, RestoredIs DEF DocsIInv
<1>4. ASSUME NEW p \in ControlPages PROVE ShownIInv(p)
  BY <1>2, <1>3 DEF ModeIsKept, LitIsKept, ShownIInv
<1> QED BY <1>1, <1>4 DEF ControlIInv

LEMMA ControlKeeps ==
    ASSUME ControlIInv, [ControlNext]_controlVars
    PROVE  ControlIInv'
<1>1. /\ DocsIInv /\ RunsIInv
      /\ \A p \in ControlPages : OpenPages = {p} /\ ~strayed => ShownIInv(p)
  BY DEF ControlIInv
<1>2. CASE UNCHANGED controlVars
  <2>1. UNCHANGED <<history, calls, screen, supply, crossed, strayed>>
    BY <1>2 DEF controlVars
  <2>2. DocsIInv'
    BY <1>1, <2>1 DEF DocsIInv, OpenPages
  <2>3. RunsIInv'
    BY <1>1, <2>1 DEF RunsIInv
  <2>4. ASSUME NEW p \in ControlPages, OpenPages' = {p}, ~strayed' PROVE ShownIInv(p)'
    <3>1. OpenPages = {p} /\ ~strayed
      BY <2>1, <2>4 DEF OpenPages
    <3>2. ShownIInv(p)
      BY <1>1, <3>1
    <3> QED BY <2>1, <3>2 DEF ShownIInv
  <2> QED BY <2>2, <2>3, <2>4 DEF ControlIInv
<1>3. CASE ControlNext
  BY <1>1, <1>3, RunsStep, UsersStay, ShownStep DEF DocsIInv, OpenPages, ControlIInv
<1> QED BY <1>2, <1>3

LEMMA ControlHolds ==
    ASSUME ControlIInv
    PROVE  ControlInv
<1>1. /\ DocsIInv /\ RunsIInv
      /\ \A p \in ControlPages : OpenPages = {p} /\ ~strayed => ShownIInv(p)
  BY DEF ControlIInv
<1>2. /\ history \in Seq(Document(supply.users)) /\ \A j \in DOMAIN history : Plain(history[j])
      /\ screen \in [ControlPages -> View] /\ crossed \subseteq Buttons /\ strayed \in BOOLEAN
  BY <1>1 DEF DocsIInv, Booked
<1>3. /\ \A p \in ControlPages : Goes(history, supply.users, p, screen[p].run)
      /\ Shown(screen) /\ InOrder(history)
  BY <1>1 DEF RunsIInv
<1>4. ControlTypeOK
  <2>1. ASSUME NEW p \in ControlPages
        PROVE  /\ screen[p].mode \in Modes /\ screen[p].lit \in [Buttons -> {"on", "off"}]
               /\ screen[p].pending \subseteq Buttons \cup {"shifter"}
               /\ screen[p].run.step \in 0..Len(Recipe)
    BY <1>2, ControlAssumption, ViewIs, NoRunIs, <1>3 DEF Goes
  <2>2. history \in Seq([user : {supply.users[p] : p \in OpenPages}, of : Buttons \cup {"shifter"},
                         status : {"requested", "authorized", "dispatched", "acknowledged"},
                         value : Modes \cup {"on", "off"}, op : Nat, run : Nat, step : Nat,
                         audited : BOOLEAN, late : BOOLEAN])
    BY <1>2 DEF Document, OpenPages
  <2> QED BY <1>2, <2>1, <2>2 DEF ControlTypeOK
<1>5. ASSUME NEW j \in Steps
      PROVE  LET before == {l \in Steps : l < j /\ history[l].op = history[j].op} IN
             /\ Cardinality(before) = history[j].step - 1
             /\ \A l \in before : history[l].step < history[j].step /\ history[l].run = history[j].run
  <2>. DEFINE before == {l \in Steps : l < j /\ history[l].op = history[j].op}
              behind == {l \in Taken(history, history[j].op) : l < j}
              k == history[j].step
  <2>1. before = behind
    BY DEF Steps, Taken
  <2>2. /\ Cardinality(behind) + 1 = k
        /\ \A l \in behind : history[l].step < k /\ history[l].run = history[j].run
    BY <1>3 DEF InOrder, Steps
  <2>3. Cardinality(behind) \in Nat
    <3>1. IsFiniteSet(1..Len(history)) /\ DOMAIN history = 1..Len(history)
      BY <1>2, FS_Interval
    <3>2. behind \subseteq 1..Len(history)
      BY <3>1 DEF Taken
    <3>3. IsFiniteSet(behind)
      BY <3>1, <3>2, FS_Subset
    <3> QED BY <3>3, FS_CardinalityType
  <2>4. k \in Nat
    <3>1. history[j] \in Document(supply.users)
      BY <1>2 DEF Steps
    <3> QED BY <3>1 DEF Document
  <2>. HIDE DEF before, behind, k
  <2>5. Cardinality(behind) = k - 1
    BY <2>2, <2>3, <2>4
  <2> QED BY <2>1, <2>2, <2>5 DEF before, k
<1>6. StepsInOrder
  BY <1>5 DEF StepsInOrder
<1>7. LateStepsAreFew
  BY <1>3 DEF LateStepsAreFew, InOrder, Steps
<1>8. StepsAreGranted
  BY <1>3 DEF StepsAreGranted, InOrder, Steps, Granted, Acknowledged
<1>9. RunsAreShown
  BY <1>3 DEF RunsAreShown, Shown
<1>10. ShownIsRestored
  <2>1. KeptMode = ModeBy(history) /\ \A b \in Buttons : Kept(b) = LitBy(history, b)
    BY DEF KeptMode, ModeBy, Kept, LitBy, Acknowledged, Shifts, Telling
  <2>2. ASSUME NEW p \in OpenPages, OpenPages = {p}, ~strayed, \A i \in DOMAIN calls : ~Underway(i)
        PROVE  screen[p].mode = KeptMode /\ \A b \in Buttons \ crossed : screen[p].lit[b] = Kept(b)
    BY <1>1, <2>2, DoneAffects, <2>1 DEF DocsIInv, Underway, ShownIInv, ModeIsKept, LitIsKept
  <2> QED BY <2>2 DEF ShownIsRestored
<1>11. AcknowledgedIsAudited
  BY <1>2 DEF AcknowledgedIsAudited, Acknowledged, Plain
<1> QED BY <1>4, <1>6, <1>7, <1>8, <1>9, <1>10, <1>11 DEF ControlInv

\* The commands of a Simulation project: for any pages, users, recipe and
\* buttons, and any lost answers, failed calls and reloads, a recipe is run in
\* order, once and only as granted, no command is acknowledged unaudited, and
\* the only page shows at rest what it would show after a reload
\* (beginSimulationSequence of RuntimeApp.jsx, api/_handlers/commands.js and
\* simulation-sequence.js, shared/simulation-command-state.js).
THEOREM RecipesRunAsGranted == ControlSpec => []ControlInv
<1>1. ControlInit => ControlIInv
  BY ControlBegins
<1>2. ControlIInv /\ [ControlNext]_controlVars => ControlIInv'
  BY ControlKeeps
<1>3. ControlIInv => ControlInv
  BY ControlHolds
<1> QED BY <1>1, <1>2, <1>3, PTL DEF ControlSpec

\* The runtime of a Simulation project: its answers, its telemetry and its
\* commands are safe whatever the other parts do meanwhile.
THEOREM SimulationIsSafe == Spec => [](BridgeInv /\ TelemetryInv /\ ControlInv)
<1>1. Init => BridgeIInv /\ TelemetryIInv /\ ControlIInv
  BY BridgeBegins, TelemetryBegins, ControlBegins DEF Init
<1>2. BridgeIInv /\ TelemetryIInv /\ ControlIInv /\ [Next]_simulationVars => (BridgeIInv /\ TelemetryIInv /\ ControlIInv)'
  <2> SUFFICES ASSUME BridgeIInv, TelemetryIInv, ControlIInv, [Next]_simulationVars
               PROVE  BridgeIInv' /\ TelemetryIInv' /\ ControlIInv'
    OBVIOUS
  <2>1. [BridgeNext]_bridgeVars /\ [TelemetryNext]_telemetryVars /\ [ControlNext]_controlVars
    BY DEF Next, simulationVars
  <2> QED BY <2>1, BridgeGoesOn, TelemetryKeeps, ControlKeeps
<1>3. BridgeIInv /\ TelemetryIInv /\ ControlIInv => BridgeInv /\ TelemetryInv /\ ControlInv
  BY BridgeSafe, TelemetryHolds, ControlHolds
<1> QED BY <1>1, <1>2, <1>3, PTL DEF Spec
=============================================================================
