------------------------- MODULE RuntimeServerProofs -------------------------
(***************************************************************************)
(* What holds of the runtime server for any pages, requests, commands,     *)
(* janitors, callers, administrators and orders, and however often         *)
(* connections are lost, leases lapse, calls fail and processes stop: live *)
(* streams stay within the cap and nothing pending is forgotten, what a    *)
(* page shows of a command is true, nothing is purged before its time, a   *)
(* connector's credentials are neither brought back nor misdescribed, and  *)
(* a command without a worker presses once and tells no success that was   *)
(* not confirmed.  Each part has an inductive invariant of its own; the    *)
(* parts write to no common state, so the server has all five.             *)
(***************************************************************************)
EXTENDS RuntimeServer, FiniteSetTheorems, SequenceTheorems, TLAPS

(***************************************************************************)
(* Purges.  The lease is not used at all.  What makes them safe is that a  *)
(* mark is made after the audit and is asked for again by the query that   *)
(* deletes, that an outcome never changes, and that audits and recorded    *)
(* values stay.                                                            *)
(***************************************************************************)

DocRecord == [there : BOOLEAN, status : Terminal \cup {"open"}, pending : BOOLEAN,
              aged : BOOLEAN, purgeAt : {"unset", "later", "due"}]

\* A command has a purge date only when it was audited.
MarkedIsAudited ==
    \A c \in Commands : doc[c].purgeAt # "unset" => doc[c].status \in Eligible /\ c \in audited

\* What a janitor may keep in mind while others act.
ChosenMayGo(pc, chosen) ==
    /\ pc \in {"check", "delete"} => \A c \in chosen : doc[c].status \in Eligible
    /\ pc = "delete" => \A c \in chosen : doc[c].status = "acknowledged" => c \in recorded
    /\ pc = "mark" => chosen \subseteq audited

\* The inductive invariant.
PurgeInv ==
    /\ RetentionTypeOK
    /\ MarkedIsAudited
    /\ \A j \in Janitors : ChosenMayGo(janitor[j].pc, janitor[j].chosen)
    /\ PurgedIsSafe

LEMMA PurgeInit == RetentionInit => PurgeInv
<1> SUFFICES ASSUME RetentionInit PROVE PurgeInv
  OBVIOUS
<1>1. RetentionTypeOK
  BY DEF RetentionInit, RetentionTypeOK, Terminal, Eligible, Idle
<1>2. MarkedIsAudited /\ PurgedIsSafe
  BY DEF RetentionInit, MarkedIsAudited, PurgedIsSafe, Purged
<1>3. \A j \in Janitors : ChosenMayGo(janitor[j].pc, janitor[j].chosen)
  BY DEF RetentionInit, ChosenMayGo, Idle
<1> QED BY <1>1, <1>2, <1>3 DEF PurgeInv

-----------------------------------------------------------------------------
(* The three ways the state changes.                                       *)

\* The document of one command, by the worker, the API or the clock.
LEMMA OneDocument ==
    ASSUME PurgeInv, NEW c \in Commands, NEW r \in DocRecord, Change(c, r),
           UNCHANGED <<audited, recorded, janitor, lease>>,
           owed' \subseteq Commands,
           r.there = doc[c].there,
           r.status = doc[c].status \/ (doc[c].status = "open" /\ doc[c].there),
           r.purgeAt # "unset" => r.status \in Eligible /\ c \in audited
    PROVE  PurgeInv'
<1>1. doc \in [Commands -> DocRecord]
  BY DEF PurgeInv, RetentionTypeOK, DocRecord
<1>2. doc' \in [Commands -> DocRecord] /\ doc'[c] = r /\ \A d \in Commands : d # c => doc'[d] = doc[d]
  BY <1>1 DEF Change
<1>3. RetentionTypeOK'
  BY <1>2 DEF PurgeInv, RetentionTypeOK, DocRecord
<1>4. MarkedIsAudited'
  BY <1>2 DEF PurgeInv, MarkedIsAudited
<1>5. \A j \in Janitors : ChosenMayGo(janitor[j].pc, janitor[j].chosen)'
  <2> SUFFICES ASSUME NEW j \in Janitors
               PROVE  ChosenMayGo(janitor[j].pc, janitor[j].chosen)'
    OBVIOUS
  <2>1. janitor[j].chosen \subseteq Commands
    BY DEF PurgeInv, RetentionTypeOK
  <2>2. ChosenMayGo(janitor[j].pc, janitor[j].chosen)
    BY DEF PurgeInv
  <2> QED BY <1>2, <2>1, <2>2 DEF ChosenMayGo, Eligible
<1>6. PurgedIsSafe'
  BY <1>2 DEF PurgeInv, PurgedIsSafe, Purged
<1> QED BY <1>3, <1>4, <1>5, <1>6 DEF PurgeInv

\* Audits and recorded values, which only become more.
LEMMA MoreIsKnown ==
    ASSUME PurgeInv, UNCHANGED <<doc, janitor, lease>>,
           audited \subseteq audited', audited' \subseteq Commands,
           recorded \subseteq recorded', recorded' \subseteq Commands,
           owed' \subseteq Commands
    PROVE  PurgeInv'
BY DEF PurgeInv, RetentionTypeOK, MarkedIsAudited, PurgedIsSafe, Purged, ChosenMayGo

\* A step of a janitor, which may change any documents but no outcome.
LEMMA JanitorMoves ==
    ASSUME PurgeInv, NEW j \in Janitors,
           NEW pc \in {"idle", "select", "check", "delete", "find", "match", "mark"},
           NEW chosen \in SUBSET Commands, Advance(j, pc, chosen),
           UNCHANGED <<audited, owed, recorded>>,
           lease' \in [owner : Janitors \cup {Nobody}, lapsed : BOOLEAN],
           doc' \in [Commands -> DocRecord],
           \A c \in Commands : doc'[c].status = doc[c].status,
           MarkedIsAudited',
           \A c \in Commands : Purged(c)' =>
               Purged(c) \/ (/\ doc[c].status \in Eligible
                             /\ c \in audited
                             /\ doc[c].status = "acknowledged" => c \in recorded),
           ChosenMayGo(pc, chosen)
    PROVE  PurgeInv'
<1>1. RetentionTypeOK'
  BY DEF PurgeInv, RetentionTypeOK, DocRecord, Advance
<1>2. \A i \in Janitors : ChosenMayGo(janitor[i].pc, janitor[i].chosen)'
  <2> SUFFICES ASSUME NEW i \in Janitors
               PROVE  ChosenMayGo(janitor[i].pc, janitor[i].chosen)'
    OBVIOUS
  <2>1. janitor'[i].chosen \subseteq Commands
    BY <1>1 DEF RetentionTypeOK
  <2>2. ChosenMayGo(janitor'[i].pc, janitor'[i].chosen)
    BY DEF PurgeInv, RetentionTypeOK, Advance
  <2> QED BY <2>1, <2>2 DEF ChosenMayGo
<1>3. PurgedIsSafe'
  BY DEF PurgeInv, PurgedIsSafe, Purged
<1> QED BY <1>1, <1>2, <1>3 DEF PurgeInv

\* A janitor that only reads.
LEMMA JanitorReads ==
    ASSUME PurgeInv, NEW j \in Janitors,
           NEW pc \in {"idle", "select", "check", "delete", "find", "match", "mark"},
           NEW chosen \in SUBSET Commands, Advance(j, pc, chosen),
           UNCHANGED <<doc, audited, owed, recorded>>,
           lease' \in [owner : Janitors \cup {Nobody}, lapsed : BOOLEAN],
           ChosenMayGo(pc, chosen)
    PROVE  PurgeInv'
BY JanitorMoves DEF PurgeInv, RetentionTypeOK, DocRecord, MarkedIsAudited, Purged

-----------------------------------------------------------------------------
(* The actions.                                                            *)

LEMMA DocTyped == ASSUME PurgeInv, NEW c \in Commands PROVE doc[c] \in DocRecord
BY DEF PurgeInv, RetentionTypeOK, DocRecord

LEMMA FinishStep ==
    ASSUME PurgeInv, NEW c \in Commands, NEW s \in Terminal,
           WorkerCompletes(c, s) \/ ApiFinishes(c, s)
    PROVE  PurgeInv'
<1>1. doc[c] \in DocRecord
  BY DocTyped
<1>2. doc[c].status = "open" => doc[c].purgeAt = "unset"
  BY DEF PurgeInv, MarkedIsAudited, Eligible
<1>3. CASE WorkerCompletes(c, s)
  <2> DEFINE r == [doc[c] EXCEPT !.status = s, !.pending = TRUE]
  <2>1. r \in DocRecord /\ r.there = doc[c].there /\ r.purgeAt = doc[c].purgeAt
    BY <1>1 DEF DocRecord
  <2>2. Change(c, r) /\ UNCHANGED <<audited, owed, recorded, janitor, lease>>
    BY <1>3 DEF WorkerCompletes
  <2>3. doc[c].there /\ doc[c].status = "open"
    BY <1>3 DEF WorkerCompletes
  <2>4. owed' \subseteq Commands
    BY <2>2 DEF PurgeInv, RetentionTypeOK
  <2> HIDE DEF r
  <2> QED BY <1>2, <2>1, <2>2, <2>3, <2>4, OneDocument
<1>4. CASE ApiFinishes(c, s)
  <2> DEFINE r == [doc[c] EXCEPT !.status = s]
  <2>1. r \in DocRecord /\ r.there = doc[c].there /\ r.purgeAt = doc[c].purgeAt
    BY <1>1 DEF DocRecord
  <2>2. Change(c, r) /\ UNCHANGED <<audited, recorded, janitor, lease>>
    BY <1>4 DEF ApiFinishes
  <2>3. doc[c].there /\ doc[c].status = "open"
    BY <1>4 DEF ApiFinishes
  <2>4. owed' \subseteq Commands
    BY <1>4 DEF ApiFinishes, PurgeInv, RetentionTypeOK
  <2> HIDE DEF r
  <2> QED BY <1>2, <2>1, <2>2, <2>3, <2>4, OneDocument
<1> QED BY <1>3, <1>4

LEMMA AuditStep ==
    ASSUME PurgeInv, NEW c \in Commands,
           WorkerAudits(c) \/ ApiAudits(c) \/ ApiStops(c) \/ RecordValue(c)
    PROVE  PurgeInv'
BY MoreIsKnown DEF PurgeInv, RetentionTypeOK, WorkerAudits, ApiAudits, ApiStops, RecordValue

LEMMA ClearStep == ASSUME PurgeInv, NEW c \in Commands, WorkerClears(c) PROVE PurgeInv'
<1> DEFINE r == [doc[c] EXCEPT !.pending = FALSE, !.purgeAt = PurgeAt(c)]
<1>1. doc[c] \in DocRecord
  BY DocTyped
<1>2. /\ PurgeAt(c) \in {"unset", "later", "due"}
      /\ PurgeAt(c) # "unset" => doc[c].status \in Eligible
  BY DEF PurgeAt
<1>3. /\ r \in DocRecord /\ r.there = doc[c].there /\ r.status = doc[c].status
      /\ r.purgeAt = PurgeAt(c)
  BY <1>1, <1>2 DEF DocRecord
<1>4. Change(c, r) /\ c \in audited /\ UNCHANGED <<audited, owed, recorded, janitor, lease>>
  BY DEF WorkerClears
<1>5. owed' \subseteq Commands
  BY <1>4 DEF PurgeInv, RetentionTypeOK
<1> HIDE DEF r
<1> QED BY <1>2, <1>3, <1>4, <1>5, OneDocument

LEMMA TimeStep == ASSUME PurgeInv, NEW c \in Commands, TimePasses(c) PROVE PurgeInv'
<1> DEFINE due == IF doc[c].purgeAt = "later" THEN "due" ELSE doc[c].purgeAt
           r == [doc[c] EXCEPT !.aged = TRUE, !.purgeAt = due]
<1>1. doc[c] \in DocRecord
  BY DocTyped
<1>2. due \in {"unset", "later", "due"} /\ (due # "unset" => doc[c].purgeAt # "unset")
  BY <1>1 DEF DocRecord
<1>3. Change(c, r) /\ UNCHANGED <<audited, owed, recorded, janitor, lease>>
  BY DEF TimePasses
<1> HIDE DEF due
<1>4. r \in DocRecord /\ r.there = doc[c].there /\ r.status = doc[c].status /\ r.purgeAt = due
  BY <1>1, <1>2 DEF DocRecord
<1>5. owed' \subseteq Commands
  BY <1>3 DEF PurgeInv, RetentionTypeOK
<1>6. doc[c].purgeAt # "unset" => doc[c].status \in Eligible /\ c \in audited
  BY DEF PurgeInv, MarkedIsAudited
<1> HIDE DEF r
<1> QED BY <1>2, <1>3, <1>4, <1>5, <1>6, OneDocument

\* Reading and choosing.
LEMMA ReadStep ==
    ASSUME PurgeInv, NEW j \in Janitors,
           \/ AcquireLease(j) \/ SelectDue(j) \/ FindOld(j) \/ MatchAudits(j) \/ Stop(j)
    PROVE  PurgeInv'
<1>1. lease \in [owner : Janitors \cup {Nobody}, lapsed : BOOLEAN]
  BY DEF PurgeInv, RetentionTypeOK
<1>2. CASE AcquireLease(j)
  BY <1>2, JanitorReads DEF AcquireLease, ChosenMayGo
<1>3. CASE SelectDue(j)
  <2> DEFINE chosen == Batch({c \in Commands : Purgeable(c)})
  <2>1. chosen \subseteq Commands /\ \A c \in chosen : doc[c].status \in Eligible
    BY DEF Batch, Purgeable
  <2>2. ChosenMayGo("check", chosen)
    BY <2>1 DEF ChosenMayGo
  <2>3. Advance(j, "check", chosen) /\ UNCHANGED <<doc, audited, owed, recorded, lease>>
    BY <1>3 DEF SelectDue
  <2> HIDE DEF chosen
  <2> QED BY <1>1, <2>1, <2>2, <2>3, JanitorReads
<1>4. CASE FindOld(j)
  <2>1. Candidates \subseteq Commands
    BY DEF Candidates, Batch
  <2>2. ChosenMayGo("match", Candidates)
    BY DEF ChosenMayGo
  <2> QED BY <1>1, <1>4, <2>1, <2>2, JanitorReads DEF FindOld
<1>5. CASE MatchAudits(j)
  BY <1>1, <1>5, JanitorReads DEF PurgeInv, RetentionTypeOK, ChosenMayGo, MatchAudits
<1>6. CASE Stop(j)
  BY <1>1, <1>6, JanitorReads DEF ChosenMayGo, Stop
<1> QED BY <1>2, <1>3, <1>4, <1>5, <1>6

\* Writing: putting off, deleting, marking.
LEMMA CheckStep == ASSUME PurgeInv, NEW j \in Janitors, CheckSnapshots(j) PROVE PurgeInv'
<1> DEFINE chosen == janitor[j].chosen \ Protected(janitor[j].chosen)
<1>1. Advance(j, "delete", chosen) /\ UNCHANGED <<audited, owed, recorded, lease>>
  BY DEF CheckSnapshots
<1>2. \A c \in Commands : doc[c] \in DocRecord
  BY DocTyped
<1>3. \A c \in Commands : doc'[c] = doc[c] \/ (Purgeable(c) /\ doc'[c] = [doc[c] EXCEPT !.purgeAt = "later"])
  BY DEF CheckSnapshots
<1>4. doc' \in [Commands -> DocRecord]
  BY <1>2 DEF CheckSnapshots, DocRecord
<1>5. \A c \in Commands : doc'[c].status = doc[c].status /\ doc'[c].there = doc[c].there
  BY <1>2, <1>3 DEF DocRecord
<1>6. MarkedIsAudited'
  BY <1>1, <1>2, <1>3, <1>5 DEF PurgeInv, MarkedIsAudited, Purgeable, DocRecord
<1>7. chosen \subseteq Commands /\ ChosenMayGo("delete", chosen)
  BY DEF PurgeInv, RetentionTypeOK, ChosenMayGo, Protected, CheckSnapshots
<1>8. \A c \in Commands : Purged(c)' => Purged(c)
  BY <1>5 DEF Purged
<1>9. lease' \in [owner : Janitors \cup {Nobody}, lapsed : BOOLEAN]
  BY <1>1 DEF PurgeInv, RetentionTypeOK
<1> HIDE DEF chosen
<1> QED BY <1>1, <1>4, <1>5, <1>6, <1>7, <1>8, <1>9, JanitorMoves

LEMMA DeleteStep == ASSUME PurgeInv, NEW j \in Janitors, Delete(j) PROVE PurgeInv'
<1>1. Advance(j, "find", {}) /\ UNCHANGED <<audited, owed, recorded, lease>>
  BY DEF Delete
<1>2. \A c \in Commands : doc[c] \in DocRecord
  BY DocTyped
<1>3. \A c \in Commands :
          \/ doc'[c] = doc[c]
          \/ c \in janitor[j].chosen /\ Purgeable(c) /\ doc'[c] = [doc[c] EXCEPT !.there = FALSE]
  BY DEF Delete
<1>4. doc' \in [Commands -> DocRecord]
  BY <1>2 DEF Delete, DocRecord
<1>5. \A c \in Commands : doc'[c].status = doc[c].status /\ doc'[c].purgeAt = doc[c].purgeAt
  BY <1>2, <1>3 DEF DocRecord
<1>6. MarkedIsAudited'
  BY <1>1, <1>5 DEF PurgeInv, MarkedIsAudited
<1>7. \A c \in Commands : Purged(c)' =>
          Purged(c) \/ (/\ doc[c].status \in Eligible
                        /\ c \in audited
                        /\ doc[c].status = "acknowledged" => c \in recorded)
  <2> SUFFICES ASSUME NEW c \in Commands, Purged(c)', ~Purged(c)
               PROVE  /\ doc[c].status \in Eligible
                      /\ c \in audited
                      /\ doc[c].status = "acknowledged" => c \in recorded
    OBVIOUS
  <2>1. c \in janitor[j].chosen /\ Purgeable(c)
    BY <1>3 DEF Purged
  <2>2. doc[c].status \in Eligible /\ c \in audited
    BY <2>1 DEF PurgeInv, MarkedIsAudited, Purgeable
  <2>3. doc[c].status = "acknowledged" => c \in recorded
    BY <2>1 DEF PurgeInv, ChosenMayGo, Delete
  <2> QED BY <2>2, <2>3
<1>8. ChosenMayGo("find", {})
  BY DEF ChosenMayGo
<1>9. lease' \in [owner : Janitors \cup {Nobody}, lapsed : BOOLEAN]
  BY <1>1 DEF PurgeInv, RetentionTypeOK
<1> QED BY <1>1, <1>4, <1>5, <1>6, <1>7, <1>8, <1>9, JanitorMoves

LEMMA MarkStep == ASSUME PurgeInv, NEW j \in Janitors, Mark(j) PROVE PurgeInv'
<1>1. Advance(j, "idle", {}) /\ UNCHANGED <<audited, owed, recorded, lease>>
  BY DEF Mark
<1>2. \A c \in Commands : doc[c] \in DocRecord
  BY DocTyped
<1>3. \A c \in Commands :
          \/ doc'[c] = doc[c]
          \/ c \in janitor[j].chosen /\ Markable(c) /\ doc'[c] = [doc[c] EXCEPT !.purgeAt = "due"]
  BY DEF Mark
<1>4. doc' \in [Commands -> DocRecord]
  BY <1>2 DEF Mark, DocRecord
<1>5. \A c \in Commands : doc'[c].status = doc[c].status /\ doc'[c].there = doc[c].there
  BY <1>2, <1>3 DEF DocRecord
<1>6. janitor[j].chosen \subseteq audited
  BY DEF PurgeInv, ChosenMayGo, Mark
<1>7. MarkedIsAudited'
  BY <1>1, <1>3, <1>5, <1>6 DEF PurgeInv, MarkedIsAudited, Markable
<1>8. \A c \in Commands : Purged(c)' => Purged(c)
  BY <1>5 DEF Purged
<1>9. ChosenMayGo("idle", {})
  BY DEF ChosenMayGo
<1>10. lease' \in [owner : Janitors \cup {Nobody}, lapsed : BOOLEAN]
  BY <1>1 DEF PurgeInv, RetentionTypeOK
<1> QED BY <1>1, <1>4, <1>5, <1>7, <1>8, <1>9, <1>10, JanitorMoves

LEMMA LeaseStep ==
    ASSUME PurgeInv, (\E j \in Janitors : Close(j)) \/ LeaseLapses
    PROVE  PurgeInv'
<1>1. UNCHANGED <<doc, audited, owed, recorded, janitor>> /\ lease' = [lease EXCEPT !.lapsed = TRUE]
  BY DEF Close, LeaseLapses
<1>2. RetentionTypeOK' /\ MarkedIsAudited' /\ PurgedIsSafe'
  BY <1>1 DEF PurgeInv, RetentionTypeOK, MarkedIsAudited, PurgedIsSafe, Purged
<1> QED BY <1>1, <1>2 DEF PurgeInv, ChosenMayGo

-----------------------------------------------------------------------------
LEMMA PurgeStep == PurgeInv /\ [RetentionNext]_retentionVars => PurgeInv'
<1> SUFFICES ASSUME PurgeInv, [RetentionNext]_retentionVars PROVE PurgeInv'
  OBVIOUS
<1>1. ASSUME NEW c \in Commands, NEW s \in Terminal, WorkerCompletes(c, s) \/ ApiFinishes(c, s)
      PROVE  PurgeInv'
  BY <1>1, FinishStep
<1>2. ASSUME NEW c \in Commands, Finishing(c) \/ ApiStops(c) \/ RecordValue(c) \/ TimePasses(c)
      PROVE  PurgeInv'
  BY <1>2, AuditStep, ClearStep, TimeStep DEF Finishing
<1>3. ASSUME NEW j \in Janitors, AcquireLease(j) \/ Cycle(j) \/ Stop(j)
      PROVE  PurgeInv'
  BY <1>3, ReadStep, CheckStep, DeleteStep, MarkStep DEF Cycle
<1>4. CASE UNCHANGED retentionVars
  BY <1>4 DEF retentionVars, PurgeInv, RetentionTypeOK, MarkedIsAudited, ChosenMayGo, PurgedIsSafe, Purged
<1> QED BY <1>1, <1>2, <1>3, <1>4, LeaseStep DEF RetentionNext

\* However janitors, late audits and the recording of values overlap, and
\* whoever stops or outlives its lease: a command is deleted only with an
\* outcome that may be forgotten, after its audit, and an acknowledged one
\* only while its tag has a recorded value
\* (server/connectors/command-retention-janitor.js).
THEOREM PurgesAreSafe == RetentionSpec => []RetentionInv
<1>1. PurgeInv => RetentionInv
  BY DEF PurgeInv, RetentionInv
<1> QED BY <1>1, PurgeInit, PurgeStep, PTL DEF RetentionSpec

-----------------------------------------------------------------------------
(***************************************************************************)
(* Streams.  A socket is opened by the page whose session it is, once, so  *)
(* that no page streams from two; nothing is owed to a client that the hub *)
(* has not added; and a flush timer means that the newest event is pending. *)
(* The cap holds since the sessions that stay are those with fewer than    *)
(* MaxSessions newer ones.                                                 *)
(***************************************************************************)

Connected == {"created", "capped", "streaming"}

\* A page's session is its own, and unused before the socket is opened.
OwnSessions ==
    \A p \in Pages :
        /\ page[p].pc \in Connected =>
               page[p].session \in DOMAIN sessions /\ sessions[page[p].session].page = p
        /\ page[p].pc \in {"created", "capped"} => sessions[page[p].session].sock = "none"

\* An open socket is the one its page streams from: no page has two.
OneOpen ==
    \A s \in DOMAIN sessions :
        sessions[s].open =>
            page[sessions[s].page].pc = "streaming" /\ page[sessions[s].page].session = s

\* Nothing is owed to a client the hub has not added, and a flush timer means
\* that the newest event is pending.
OnlyClientsAreOwed ==
    \A s \in DOMAIN sessions :
        /\ sessions[s].sock \notin {"served", "ended"} => sessions[s].due = 0
        /\ sessions[s].timer => sessions[s].pending = sessions[s].due

StreamIInv ==
    /\ StreamTypeOK
    /\ OwnSessions
    /\ OneOpen
    /\ OnlyClientsAreOwed
    /\ SessionsCapped
    /\ NothingStuck

LEMMA StreamStarts == StreamInit => StreamIInv
<1> SUFFICES ASSUME StreamInit PROVE StreamIInv
  OBVIOUS
<1>1. sessions = <<>> /\ DOMAIN sessions = {}
  BY DEF StreamInit
<1>2. StreamTypeOK
  BY <1>1 DEF StreamInit, StreamTypeOK
<1>3. SessionsCapped
  BY <1>1, FS_EmptySet, StreamAssumption DEF SessionsCapped
<1>4. OwnSessions /\ OneOpen /\ OnlyClientsAreOwed /\ NothingStuck
  BY <1>1 DEF StreamInit, OwnSessions, OneOpen, OnlyClientsAreOwed, NothingStuck, Connected
<1> QED BY <1>2, <1>3, <1>4 DEF StreamIInv

-----------------------------------------------------------------------------
(* The cap.                                                                *)

\* Of finitely many numbers, those with fewer than k greater ones are at most k:
\* no two of them have equally many.
LEMMA NewestAreFew ==
    ASSUME NEW S \in SUBSET Nat, IsFiniteSet(S), NEW k \in Nat
    PROVE  LET few == {o \in S : Cardinality({n \in S : n > o}) < k}
           IN  IsFiniteSet(few) /\ Cardinality(few) <= k
<1> DEFINE Newer(o) == {n \in S : n > o}
           few == {o \in S : Cardinality(Newer(o)) < k}
           f == [o \in few |-> Cardinality(Newer(o))]
<1>1. \A o : IsFiniteSet(Newer(o)) /\ Cardinality(Newer(o)) \in Nat
  BY FS_Subset, FS_CardinalityType
<1>2. f \in [few -> 0..(k - 1)]
  BY <1>1
<1>3. \A o, n \in few : o < n => f[n] < f[o]
  <2> SUFFICES ASSUME NEW o \in few, NEW n \in few, o < n
               PROVE  Cardinality(Newer(n)) < Cardinality(Newer(o))
    OBVIOUS
  <2>1. o \in S /\ n \in S /\ o \in Nat /\ n \in Nat /\ \A m \in S : m \in Nat
    OBVIOUS
  <2>2. Newer(n) \subseteq Newer(o) /\ n \in Newer(o) /\ n \notin Newer(n)
    <3>1. \A m \in S : m > n => m > o
      BY <2>1
    <3>2. n > o /\ ~(n > n)
      BY <2>1
    <3> QED BY <2>1, <3>1, <3>2
  <2> HIDE DEF Newer
  <2>3. /\ Cardinality(Newer(n)) <= Cardinality(Newer(o))
        /\ Cardinality(Newer(o)) = Cardinality(Newer(n)) => Newer(o) = Newer(n)
    BY <1>1, <2>2, FS_Subset
  <2> QED BY <1>1, <2>2, <2>3
<1>4. IsFiniteSet(few) /\ Cardinality(few) \in Nat
  BY FS_Subset, FS_CardinalityType
<1>5. IsFiniteSet(0..(k - 1)) /\ Cardinality(0..(k - 1)) = k
  BY FS_Interval
<1>6. ASSUME Cardinality(few) > k PROVE FALSE
  <2> HIDE DEF f
  <2>1. Cardinality(0..(k - 1)) < Cardinality(few)
    BY <1>4, <1>5, <1>6
  <2>2. PICK o, n \in few : o # n /\ f[o] = f[n]
    BY <1>2, <1>4, <1>5, <2>1, FS_PigeonHole
  <2>3. o \in Nat /\ n \in Nat /\ f[o] \in Nat
    BY <1>2
  <2> QED BY <1>3, <2>2, <2>3
<1> QED BY <1>4, <1>6

LEMMA SessionsAreFinite ==
    ASSUME StreamTypeOK, NEW S \in SUBSET (DOMAIN sessions)
    PROVE  IsFiniteSet(S) /\ Cardinality(S) \in Nat /\ S \in SUBSET Nat
<1>1. DOMAIN sessions = 1..Len(sessions) /\ Len(sessions) \in Nat
  BY LenProperties DEF StreamTypeOK
<1>2. IsFiniteSet(DOMAIN sessions)
  BY <1>1, FS_Interval
<1> QED BY <1>1, <1>2, FS_Subset, FS_CardinalityType

LEMMA SessionsAreTyped ==
    ASSUME StreamTypeOK
    PROVE  /\ DOMAIN sessions = 1..Len(sessions) /\ Len(sessions) \in Nat
           /\ sessions \in [DOMAIN sessions -> SessionRecord]
           /\ \A s \in DOMAIN sessions : sessions[s] \in SessionRecord /\ sessions[s].page \in Pages
<1>1. DOMAIN sessions = 1..Len(sessions) /\ Len(sessions) \in Nat /\ sessions \in [1..Len(sessions) -> SessionRecord]
  BY LenProperties DEF StreamTypeOK
<1> QED BY <1>1 DEF SessionRecord

\* What a step leaves capped and live was so before.
LEMMA CapStays ==
    ASSUME StreamTypeOK, SessionsCapped,
           \A s \in DOMAIN sessions' :
               sessions'[s].live /\ sessions'[s].capped
                   => s \in DOMAIN sessions /\ sessions[s].live /\ sessions[s].capped
    PROVE  SessionsCapped'
<1> DEFINE before == {s \in DOMAIN sessions : sessions[s].live /\ sessions[s].capped}
           after == {s \in DOMAIN sessions' : sessions'[s].live /\ sessions'[s].capped}
<1>1. IsFiniteSet(before) /\ after \subseteq before
  BY SessionsAreFinite
<1>2. Cardinality(after) <= Cardinality(before) /\ Cardinality(after) \in Nat /\ Cardinality(before) \in Nat
  BY <1>1, FS_Subset, FS_CardinalityType
<1> QED BY <1>2, StreamAssumption DEF SessionsCapped

-----------------------------------------------------------------------------
(* What a step does to a session.                                          *)

Stuck(x, seen) == x.sock = "served" /\ x.open /\ ~(x.due <= seen[x.page])
                      /\ ~(x.timer /\ x.pending = x.due)

\* The hub, the clock and a logout only take from a session: y may follow x.
MayFollow(x, y) ==
    /\ y \in SessionRecord
    /\ y.page = x.page
    /\ y.live => x.live
    /\ y.capped = x.capped
    /\ y.open => x.open
    /\ x.sock = "none" => y.sock = "none"
    /\ y.sock \notin {"served", "ended"} => y.due = 0
    /\ y.timer => y.pending = y.due

LEMMA SessionsFollow ==
    ASSUME StreamIInv,
           auth' \in BOOLEAN, active' \in Nat, event' \in Nat, shown' \in [Pages -> Nat], page' = page,
           sessions' \in [DOMAIN sessions -> SessionRecord],
           \A s \in DOMAIN sessions : MayFollow(sessions[s], sessions'[s]) /\ ~Stuck(sessions'[s], shown')
    PROVE  StreamIInv'
<1>1. DOMAIN sessions' = DOMAIN sessions /\ DOMAIN sessions = 1..Len(sessions) /\ Len(sessions) \in Nat
  BY LenProperties DEF StreamIInv, StreamTypeOK
<1>2. sessions' \in Seq(SessionRecord)
  BY <1>1, SeqDef
<1>3. StreamTypeOK'
  BY <1>1, <1>2 DEF StreamIInv, StreamTypeOK
<1>4. OwnSessions' /\ OneOpen' /\ OnlyClientsAreOwed'
  BY <1>1 DEF StreamIInv, OwnSessions, OneOpen, OnlyClientsAreOwed, MayFollow, Connected
<1>5. SessionsCapped'
  BY <1>1, CapStays DEF StreamIInv, MayFollow
<1>6. NothingStuck'
  BY <1>1 DEF NothingStuck, Serving, Stuck
<1> QED BY <1>3, <1>4, <1>5, <1>6 DEF StreamIInv

LEMMA OneSessionFollows ==
    ASSUME StreamIInv, UNCHANGED <<page, active>>, auth' \in BOOLEAN, event' \in Nat, shown' = shown,
           NEW s \in DOMAIN sessions, NEW y, sessions' = [sessions EXCEPT ![s] = y],
           MayFollow(sessions[s], y), ~Stuck(y, shown)
    PROVE  StreamIInv'
<1>1. sessions \in [DOMAIN sessions -> SessionRecord]
  BY LenProperties DEF StreamIInv, StreamTypeOK
<1>2. sessions' \in [DOMAIN sessions -> SessionRecord]
  BY <1>1 DEF MayFollow
<1>3. \A o \in DOMAIN sessions : MayFollow(sessions[o], sessions'[o]) /\ ~Stuck(sessions'[o], shown')
  <2> SUFFICES ASSUME NEW o \in DOMAIN sessions
               PROVE  MayFollow(sessions[o], sessions'[o]) /\ ~Stuck(sessions'[o], shown')
    OBVIOUS
  <2>1. CASE o = s
    BY <1>1, <2>1
  <2>2. CASE o # s
    BY <1>1, <2>2 DEF StreamIInv, MayFollow, Stuck, OnlyClientsAreOwed, NothingStuck, Serving
  <2> QED BY <2>1, <2>2
<1> QED BY <1>2, <1>3, SessionsFollow DEF StreamIInv, StreamTypeOK

-----------------------------------------------------------------------------
(* The page.                                                               *)

\* A page that starts over, gives up, or is let in: it has no open socket.
LEMMA PageStartsOver ==
    ASSUME StreamIInv, UNCHANGED <<auth, active, sessions, event, shown>>,
           NEW p \in Pages, NEW r, page' = [page EXCEPT ![p] = r],
           r \in [pc : {"closed", "authorized", "invalid"}, session : Nat, version : Nat],
           page[p].pc # "streaming" \/ ~sessions[page[p].session].open
    PROVE  StreamIInv'
<1>1. page' \in [Pages -> [pc : {"closed", "authorized", "created", "capped", "streaming", "invalid"},
                           session : Nat, version : Nat]]
  BY DEF StreamIInv, StreamTypeOK
<1>2. page'[p] = r /\ \A q \in Pages \ {p} : page'[q] = page[q]
  BY DEF StreamIInv, StreamTypeOK
<1>3. StreamTypeOK' /\ OwnSessions'
  BY <1>1, <1>2 DEF StreamIInv, StreamTypeOK, OwnSessions, Connected
<1>4. OneOpen'
  BY <1>2 DEF StreamIInv, OneOpen
<1>5. OnlyClientsAreOwed' /\ NothingStuck' /\ SessionsCapped'
  BY DEF StreamIInv, OnlyClientsAreOwed, NothingStuck, SessionsCapped, Serving
<1> QED BY <1>3, <1>4, <1>5 DEF StreamIInv

LEMMA SessionIsCreated ==
    ASSUME StreamIInv, NEW p \in Pages, CreateSession(p)
    PROVE  StreamIInv'
<1> DEFINE n == Len(sessions) + 1
           new == NewSession(p, page[p].version)
           r == [page[p] EXCEPT !.pc = "created", !.session = n]
<1>1. /\ DOMAIN sessions = 1..Len(sessions) /\ Len(sessions) \in Nat
      /\ page[p].version \in Nat
  BY LenProperties DEF StreamIInv, StreamTypeOK
<1>2. new \in SessionRecord
  BY <1>1 DEF NewSession, SessionRecord
<1>3. /\ sessions' \in Seq(SessionRecord)
      /\ DOMAIN sessions' = 1..n
      /\ sessions'[n] = new
      /\ \A s \in DOMAIN sessions : sessions'[s] = sessions[s]
  BY <1>1, <1>2, AppendProperties DEF StreamIInv, StreamTypeOK, CreateSession
<1>4. page' = [page EXCEPT ![p] = r] /\ page[p].pc = "authorized"
  BY DEF CreateSession
<1>0. /\ r \in [pc : {"created"}, session : Nat, version : Nat]
      /\ r.pc = "created" /\ r.session = n
  <2>1. n \in Nat
    BY <1>1
  <2> HIDE DEF n
  <2>2. page[p] \in [pc : {"closed", "authorized", "created", "capped", "streaming", "invalid"},
                      session : Nat, version : Nat]
    BY DEF StreamIInv, StreamTypeOK
  <2> QED BY <2>1, <2>2
<1> HIDE DEF r
<1>5. /\ page' \in [Pages -> [pc : {"closed", "authorized", "created", "capped", "streaming", "invalid"},
                              session : Nat, version : Nat]]
      /\ page'[p].pc = "created" /\ page'[p].session = n
      /\ \A q \in Pages \ {p} : page'[q] = page[q]
  BY <1>0, <1>4 DEF StreamIInv, StreamTypeOK
<1>6. DOMAIN sessions \subseteq DOMAIN sessions' /\ n \in DOMAIN sessions' /\ n \notin DOMAIN sessions
      /\ DOMAIN sessions' = DOMAIN sessions \cup {n}
  BY <1>1, <1>3
<1>7. /\ new.page = p /\ new.sock = "none" /\ ~new.capped /\ ~new.open /\ ~new.timer /\ new.due = 0
  BY DEF NewSession
<1> HIDE DEF n, new
<1>8. StreamTypeOK'
  BY <1>3, <1>5, <1>6 DEF StreamIInv, StreamTypeOK, CreateSession
<1>9. OwnSessions'
  BY <1>3, <1>5, <1>6, <1>7 DEF StreamIInv, OwnSessions, Connected
<1>10. OneOpen'
  <2> SUFFICES ASSUME NEW s \in DOMAIN sessions', sessions'[s].open
               PROVE  page'[sessions'[s].page].pc = "streaming" /\ page'[sessions'[s].page].session = s
    BY DEF OneOpen
  <2>1. s \in DOMAIN sessions /\ sessions'[s] = sessions[s]
    BY <1>3, <1>6, <1>7
  <2>2. sessions[s].page \in Pages
    BY <2>1, SessionsAreTyped DEF StreamIInv
  <2>3. sessions[s].page # p
    BY <1>4, <2>1 DEF StreamIInv, OneOpen
  <2> QED BY <1>5, <2>1, <2>2, <2>3 DEF StreamIInv, OneOpen
<1>11. OnlyClientsAreOwed'
  BY <1>3, <1>6, <1>7 DEF StreamIInv, OnlyClientsAreOwed
<1>12. NothingStuck'
  BY <1>3, <1>6, <1>7 DEF CreateSession, StreamIInv, NothingStuck, Serving
<1>13. SessionsCapped'
  BY <1>3, <1>6, <1>7, CapStays DEF StreamIInv
<1> QED BY <1>8, <1>9, <1>10, <1>11, <1>12, <1>13 DEF StreamIInv

LEMMA SessionIsCapped ==
    ASSUME StreamIInv, NEW p \in Pages, Cap(p)
    PROVE  StreamIInv'
<1> DEFINE s == page[p].session
           others == {o \in DOMAIN sessions : o # s /\ sessions[o].live}
           excess == Excess(s, MaxSessions - 1)
           kept == {o \in others : Cardinality({n \in others : n > o}) < MaxSessions - 1}
           r == [page[p] EXCEPT !.pc = "capped"]
<1>1. /\ DOMAIN sessions = 1..Len(sessions) /\ Len(sessions) \in Nat
      /\ sessions \in [DOMAIN sessions -> SessionRecord]
      /\ s \in DOMAIN sessions /\ page[p].pc = "created"
  BY SessionsAreTyped DEF StreamIInv, StreamTypeOK, Cap
<1>2. /\ sessions' = [o \in DOMAIN sessions |->
             IF o \in excess
             THEN [sessions[o] EXCEPT !.live = FALSE, !.ticket = RevokedTicket(sessions[o].ticket)]
             ELSE [sessions[o] EXCEPT !.capped = sessions[o].capped \/ o = s]]
      /\ page' = [page EXCEPT ![p] = r]
      /\ UNCHANGED <<auth, active, event, shown>>
  BY DEF Cap
<1>3. r \in [pc : {"capped"}, session : Nat, version : Nat] /\ r.session = s /\ r.pc = "capped"
  BY DEF StreamIInv, StreamTypeOK
<1>4. /\ page' \in [Pages -> [pc : {"closed", "authorized", "created", "capped", "streaming", "invalid"},
                              session : Nat, version : Nat]]
      /\ page'[p].pc = "capped" /\ page'[p].session = s
      /\ \A q \in Pages \ {p} : page'[q] = page[q]
  BY <1>2, <1>3 DEF StreamIInv, StreamTypeOK
<1>5. \A q \in Pages : /\ page'[q].session = page[q].session
                       /\ page'[q].pc \in Connected <=> page[q].pc \in Connected
                       /\ page'[q].pc \in {"created", "capped"} <=> page[q].pc \in {"created", "capped"}
                       /\ page'[q].pc = "streaming" <=> page[q].pc = "streaming"
  BY <1>1, <1>4 DEF Connected
<1>6. /\ DOMAIN sessions' = DOMAIN sessions
      /\ \A o \in DOMAIN sessions :
             /\ sessions'[o] \in SessionRecord
             /\ sessions'[o].page = sessions[o].page /\ sessions'[o].sock = sessions[o].sock
             /\ sessions'[o].open = sessions[o].open /\ sessions'[o].due = sessions[o].due
             /\ sessions'[o].timer = sessions[o].timer /\ sessions'[o].pending = sessions[o].pending
             /\ sessions'[o].live => sessions[o].live /\ o \notin excess
  <2> HIDE DEF excess, s
  <2>1. DOMAIN sessions' = DOMAIN sessions
    BY <1>2
  <2> SUFFICES ASSUME NEW o \in DOMAIN sessions
               PROVE  /\ sessions'[o] \in SessionRecord
                      /\ sessions'[o].page = sessions[o].page /\ sessions'[o].sock = sessions[o].sock
                      /\ sessions'[o].open = sessions[o].open /\ sessions'[o].due = sessions[o].due
                      /\ sessions'[o].timer = sessions[o].timer /\ sessions'[o].pending = sessions[o].pending
                      /\ sessions'[o].live => sessions[o].live /\ o \notin excess
    BY <2>1
  <2>2. sessions[o] \in SessionRecord
    BY <1>1
  <2> QED BY <1>2, <2>2 DEF SessionRecord, RevokedTicket
<1>7. StreamTypeOK'
  <2>1. sessions' \in Seq(SessionRecord)
    <3>1. sessions' \in [1..Len(sessions) -> SessionRecord]
      <4> HIDE DEF excess, s
      <4> QED BY <1>1, <1>2, <1>6
    <3> QED BY <1>1, <3>1, SeqDef
  <2> QED BY <1>2, <1>4, <1>5, <1>6, <2>1 DEF StreamIInv, StreamTypeOK, Connected
<1>8. OwnSessions'
  BY <1>5, <1>6, <1>1 DEF StreamIInv, OwnSessions, StreamTypeOK, Connected
<1>9. OneOpen'
  <2> SUFFICES ASSUME NEW o \in DOMAIN sessions, sessions'[o].open
               PROVE  page'[sessions'[o].page].pc = "streaming" /\ page'[sessions'[o].page].session = o
    BY <1>6 DEF OneOpen
  <2>1. sessions[o].page \in Pages
    BY SessionsAreTyped DEF StreamIInv
  <2> QED BY <1>5, <1>6, <2>1 DEF StreamIInv, OneOpen
<1>10. OnlyClientsAreOwed'
  BY <1>6 DEF StreamIInv, OnlyClientsAreOwed
<1>11. NothingStuck'
  <2>1. shown' = shown
    BY <1>2
  <2> SUFFICES ASSUME NEW o \in DOMAIN sessions, Serving(o)'
               PROVE  \/ sessions'[o].due <= shown[sessions'[o].page]
                      \/ sessions'[o].timer /\ sessions'[o].pending = sessions'[o].due
    BY <1>6, <2>1 DEF NothingStuck
  <2>2. Serving(o)
    BY <1>6 DEF Serving
  <2> QED BY <1>6, <2>2 DEF StreamIInv, NothingStuck
<1>12. SessionsCapped'
  <2> DEFINE after == {o \in DOMAIN sessions' : sessions'[o].live /\ sessions'[o].capped}
  <2>1. IsFiniteSet(others) /\ others \in SUBSET Nat
    BY SessionsAreFinite DEF StreamIInv
  <2>2. IsFiniteSet(kept) /\ Cardinality(kept) <= MaxSessions - 1 /\ Cardinality(kept) \in Nat
    <3>1. MaxSessions - 1 \in Nat
      BY StreamAssumption
    <3> HIDE DEF others
    <3>2. IsFiniteSet(kept) /\ Cardinality(kept) <= MaxSessions - 1
      BY <2>1, <3>1, NewestAreFew
    <3> QED BY <3>2, FS_CardinalityType
  <2>3. others \ excess \subseteq kept
    <3> SUFFICES ASSUME NEW o \in others, o \notin excess PROVE o \in kept
      OBVIOUS
    <3>1. \A T \in SUBSET others : Cardinality(T) \in Nat
      BY <2>1, FS_Subset, FS_CardinalityType
    <3>2. excess = {x \in others : Cardinality({n \in others : n > x}) >= MaxSessions - 1}
      BY DEF Excess
    <3>3. Cardinality({n \in others : n > o}) \in Nat
      BY <3>1
    <3> HIDE DEF others, excess
    <3> QED BY <3>2, <3>3, StreamAssumption
  <2>4. after \subseteq kept \cup {s}
    <3>1. \A o \in after : o \in DOMAIN sessions /\ sessions[o].live /\ o \notin excess
      BY <1>6
    <3>2. \A o \in after : o # s => o \in others \ excess
      BY <3>1
    <3> HIDE DEF after, kept, others, excess, s
    <3> QED BY <2>3, <3>2
  <2> HIDE DEF kept, s
  <2>5. IsFiniteSet(kept \cup {s}) /\ Cardinality(kept \cup {s}) <= MaxSessions /\ Cardinality(kept \cup {s}) \in Nat
    BY <2>2, FS_AddElement, StreamAssumption
  <2>6. Cardinality(after) <= Cardinality(kept \cup {s}) /\ Cardinality(after) \in Nat
    BY <2>4, <2>5, FS_Subset, FS_CardinalityType
  <2>7. Cardinality(after) <= MaxSessions
    BY <2>5, <2>6, StreamAssumption
  <2> QED BY <2>7 DEF SessionsCapped
<1> QED BY <1>7, <1>8, <1>9, <1>10, <1>11, <1>12 DEF StreamIInv

LEMMA SocketIsOpened ==
    ASSUME StreamIInv, NEW p \in Pages, OpenSocket(p)
    PROVE  StreamIInv'
<1> DEFINE s == page[p].session
           y == [sessions[s] EXCEPT !.ticket = "unused", !.sock = "consume", !.open = TRUE]
           r == [page[p] EXCEPT !.pc = "streaming"]
<1>1. /\ DOMAIN sessions = 1..Len(sessions) /\ Len(sessions) \in Nat
      /\ sessions \in [DOMAIN sessions -> SessionRecord]
      /\ s \in DOMAIN sessions /\ page[p].pc = "capped"
      /\ sessions[s].page = p /\ sessions[s].sock = "none"
  BY SessionsAreTyped DEF StreamIInv, StreamTypeOK, OpenSocket, OwnSessions, Connected
<1>2. /\ sessions' = [sessions EXCEPT ![s] = y] /\ page' = [page EXCEPT ![p] = r]
      /\ UNCHANGED <<auth, active, event, shown>>
  BY DEF OpenSocket
<1>3. r \in [pc : {"streaming"}, session : Nat, version : Nat] /\ r.session = s
  BY DEF StreamIInv, StreamTypeOK
<1>4. /\ y \in SessionRecord
      /\ y.page = p /\ y.sock = "consume" /\ y.live = sessions[s].live /\ y.capped = sessions[s].capped
      /\ y.due = sessions[s].due /\ y.timer = sessions[s].timer /\ y.pending = sessions[s].pending
  BY <1>1 DEF SessionRecord
<1> HIDE DEF y, r
<1>5. /\ page' \in [Pages -> [pc : {"closed", "authorized", "created", "capped", "streaming", "invalid"},
                              session : Nat, version : Nat]]
      /\ page'[p].pc = "streaming" /\ page'[p].session = s
      /\ \A q \in Pages \ {p} : page'[q] = page[q]
  BY <1>2, <1>3 DEF StreamIInv, StreamTypeOK
<1>6. /\ DOMAIN sessions' = DOMAIN sessions
      /\ sessions'[s] = y /\ \A o \in DOMAIN sessions \ {s} : sessions'[o] = sessions[o]
      /\ sessions' \in [1..Len(sessions) -> SessionRecord]
  BY <1>1, <1>2, <1>4
<1>7. StreamTypeOK'
  BY <1>1, <1>6, SeqDef, <1>2, <1>5 DEF StreamIInv, StreamTypeOK
<1>8. OwnSessions'
  <2> SUFFICES ASSUME NEW q \in Pages
               PROVE  /\ page'[q].pc \in Connected =>
                             page'[q].session \in DOMAIN sessions /\ sessions'[page'[q].session].page = q
                      /\ page'[q].pc \in {"created", "capped"} => sessions'[page'[q].session].sock = "none"
    BY <1>6 DEF OwnSessions
  <2>1. CASE q = p
    BY <1>1, <1>4, <1>5, <1>6, <2>1
  <2>2. CASE q # p
    BY <1>1, <1>4, <1>5, <1>6, <2>2 DEF StreamIInv, OwnSessions, Connected
  <2> QED BY <2>1, <2>2
<1>9. OneOpen'
  <2> SUFFICES ASSUME NEW o \in DOMAIN sessions, sessions'[o].open
               PROVE  page'[sessions'[o].page].pc = "streaming" /\ page'[sessions'[o].page].session = o
    BY <1>6 DEF OneOpen
  <2>1. CASE o = s
    BY <1>4, <1>5, <1>6, <2>1
  <2>2. CASE o # s
    <3>1. sessions'[o] = sessions[o] /\ sessions[o].page \in Pages
      BY <1>6, <2>2, SessionsAreTyped DEF StreamIInv
    <3>2. sessions[o].page # p
      BY <1>1, <3>1 DEF StreamIInv, OneOpen
    <3> QED BY <1>5, <3>1, <3>2 DEF StreamIInv, OneOpen
  <2> QED BY <2>1, <2>2
<1>10. OnlyClientsAreOwed'
  BY <1>1, <1>4, <1>6 DEF StreamIInv, OnlyClientsAreOwed
<1>11. NothingStuck'
  BY <1>2, <1>4, <1>6 DEF StreamIInv, NothingStuck, Serving
<1>12. SessionsCapped'
  BY <1>4, <1>6, CapStays DEF StreamIInv
<1> QED BY <1>7, <1>8, <1>9, <1>10, <1>11, <1>12 DEF StreamIInv

-----------------------------------------------------------------------------
(* The hub, and what happens around it.                                    *)

LEMMA HubFollows ==
    ASSUME StreamIInv, NEW s \in DOMAIN sessions, Authenticate(s) \/ Revalidate(s) \/ Drop(s) \/ Expire(s)
    PROVE  StreamIInv'
<1> DEFINE x == sessions[s]
<1>1. /\ x \in SessionRecord /\ x.page \in Pages /\ shown[x.page] \in Nat /\ auth \in BOOLEAN /\ event \in Nat
      /\ x.timer => x.pending = x.due
      /\ x.sock \notin {"served", "ended"} => x.due = 0
  BY SessionsAreTyped DEF StreamIInv, StreamTypeOK, OnlyClientsAreOwed
<1>2. ~Stuck(x, shown)
  BY DEF StreamIInv, NothingStuck, Stuck, Serving
<1>3. MayFollow(x, Closed(x)) /\ ~Stuck(Closed(x), shown)
  BY <1>1 DEF MayFollow, Closed, SessionRecord, Stuck
<1>4. x.sock \notin {"none", "served", "ended"} => MayFollow(x, Refused(x)) /\ ~Stuck(Refused(x), shown)
  BY <1>1 DEF MayFollow, Refused, SessionRecord, Stuck
<1>5. CASE Authenticate(s)
  <2>1. CASE x.sock = "consume" /\ sessions' = [sessions EXCEPT ![s] = ConsumeTicket(x)]
    <3>1. MayFollow(x, ConsumeTicket(x)) /\ ~Stuck(ConsumeTicket(x), shown)
      <4> DEFINE y == [x EXCEPT !.ticket = "used", !.sock = "session"]
      <4>1. MayFollow(x, y) /\ ~Stuck(y, shown)
        BY <1>1, <2>1 DEF MayFollow, SessionRecord, Stuck
      <4> HIDE DEF x, y
      <4>2. ConsumeTicket(x) = y \/ ConsumeTicket(x) = Refused(x)
        BY DEF ConsumeTicket, y
      <4> QED BY <1>4, <2>1, <4>1, <4>2
    <3> QED BY <1>1, <1>5, <2>1, <3>1, OneSessionFollows DEF Authenticate
  <2>2. CASE x.sock = "session" /\ sessions' = [sessions EXCEPT ![s] = CheckSession(x)]
    <3>1. MayFollow(x, CheckSession(x)) /\ ~Stuck(CheckSession(x), shown)
      BY <1>1, <1>4, <2>2 DEF CheckSession, MayFollow, SessionRecord, Stuck
    <3> QED BY <1>1, <1>5, <2>2, <3>1, OneSessionFollows DEF Authenticate
  <2>3. CASE x.sock = "auth" /\ sessions' = [sessions EXCEPT ![s] = CheckAuth(x)]
    <3>1. MayFollow(x, CheckAuth(x)) /\ ~Stuck(CheckAuth(x), shown)
      BY <1>1, <1>4, <2>3 DEF CheckAuth, MayFollow, SessionRecord, Stuck
    <3> QED BY <1>1, <1>5, <2>3, <3>1, OneSessionFollows DEF Authenticate
  <2>4. CASE x.sock = "project" /\ sessions' = [sessions EXCEPT ![s] = CheckProject(x)]
    <3>1. MayFollow(x, CheckProject(x)) /\ ~Stuck(CheckProject(x), shown)
      BY <1>1, <1>4, <2>4 DEF CheckProject, MayFollow, SessionRecord, Stuck
    <3> QED BY <1>1, <1>5, <2>4, <3>1, OneSessionFollows DEF Authenticate
  <2> QED BY <1>5, <2>1, <2>2, <2>3, <2>4 DEF Authenticate
<1>6. CASE Revalidate(s)
  BY <1>1, <1>3, <1>6, OneSessionFollows DEF Revalidate
<1>7. CASE Drop(s)
  BY <1>1, <1>3, <1>7, OneSessionFollows DEF Drop
<1>8. CASE Expire(s)
  <2> DEFINE y == [IF x.sock = "served" THEN Closed(x) ELSE x EXCEPT !.live = FALSE]
             z == [x EXCEPT !.ticket = "void"]
  <2>1. MayFollow(x, y) /\ ~Stuck(y, shown)
    BY <1>1, <1>2 DEF MayFollow, Closed, SessionRecord, Stuck
  <2>2. MayFollow(x, z) /\ ~Stuck(z, shown)
    BY <1>1, <1>2 DEF MayFollow, SessionRecord, Stuck
  <2>3. sessions' = [sessions EXCEPT ![s] = y] \/ sessions' = [sessions EXCEPT ![s] = z]
    BY <1>8 DEF Expire
  <2>4. UNCHANGED <<auth, active, page, event, shown>>
    BY <1>8 DEF Expire
  <2> HIDE DEF y, z
  <2> QED BY <1>1, <2>1, <2>2, <2>3, <2>4, OneSessionFollows
<1> QED BY <1>5, <1>6, <1>7, <1>8

LEMMA EventsAreShown ==
    ASSUME StreamIInv, Publish(event + 1) \/ \E s \in DOMAIN sessions : Flush(s)
    PROVE  StreamIInv'
<1>1. /\ DOMAIN sessions = 1..Len(sessions) /\ Len(sessions) \in Nat
      /\ sessions \in [DOMAIN sessions -> SessionRecord]
      /\ \A s \in DOMAIN sessions : sessions[s] \in SessionRecord /\ sessions[s].page \in Pages
  BY SessionsAreTyped DEF StreamIInv
<1>2. \A s \in DOMAIN sessions : /\ ~Stuck(sessions[s], shown) /\ MayFollow(sessions[s], sessions[s])
                                 /\ sessions[s].timer => sessions[s].pending = sessions[s].due
                                 /\ sessions[s].sock \notin {"served", "ended"} => sessions[s].due = 0
  BY <1>1 DEF StreamIInv, NothingStuck, Stuck, Serving, MayFollow, OnlyClientsAreOwed
<1>3. CASE Publish(event + 1)
  <2> DEFINE e == event + 1
             y(s) == [sessions[s] EXCEPT !.pending = e, !.timer = TRUE, !.due = e]
  <2>0. event \in Nat /\ e \in Nat
    BY DEF StreamIInv, StreamTypeOK
  <2>1. e \in Nat /\ event' = e /\ UNCHANGED <<auth, active, page, shown>>
    BY <1>3, <2>0 DEF Publish
  <2>2. sessions' = [s \in DOMAIN sessions |->  IF Serving(s) THEN y(s) ELSE sessions[s]]
    BY <1>3 DEF Publish
  <2> HIDE DEF e
  <2>3. \A s \in DOMAIN sessions : Serving(s) => MayFollow(sessions[s], y(s)) /\ ~Stuck(y(s), shown)
    BY <1>1, <2>1 DEF MayFollow, SessionRecord, Stuck, Serving
  <2> HIDE DEF y
  <2>4. \A s \in DOMAIN sessions : MayFollow(sessions[s], sessions'[s]) /\ ~Stuck(sessions'[s], shown')
    BY <1>2, <2>1, <2>2, <2>3
  <2>5. sessions' \in [DOMAIN sessions -> SessionRecord]
    BY <1>1, <2>2, <2>3 DEF MayFollow
  <2> QED BY <2>1, <2>4, <2>5, SessionsFollow DEF StreamIInv, StreamTypeOK
<1>4. ASSUME NEW s \in DOMAIN sessions, Flush(s) PROVE StreamIInv'
  <2> DEFINE x == sessions[s]
             y == [x EXCEPT !.timer = FALSE, !.pending = 0]
  <2>1. /\ sessions' = [sessions EXCEPT ![s] = y] /\ x.timer
        /\ shown' = IF Serving(s) /\ x.pending # 0 THEN [shown EXCEPT ![x.page] = x.pending] ELSE shown
        /\ UNCHANGED <<auth, active, page, event>>
    BY <1>4 DEF Flush
  <2>2. x \in SessionRecord /\ x.page \in Pages /\ x.pending = x.due /\ x.pending \in Nat
    BY <1>1, <1>2, <2>1 DEF SessionRecord
  <2>3. shown' \in [Pages -> Nat] /\ (Serving(s) => x.due <= shown'[x.page])
    BY <2>1, <2>2 DEF StreamIInv, StreamTypeOK
  <2>4. MayFollow(x, y) /\ ~Stuck(y, shown')
    BY <1>2, <2>2, <2>3 DEF MayFollow, SessionRecord, Stuck, Serving
  <2> HIDE DEF y
  <2>5. sessions' \in [DOMAIN sessions -> SessionRecord]
    BY <1>1, <2>1, <2>4 DEF MayFollow
  <2>6. ASSUME NEW o \in DOMAIN sessions
        PROVE  MayFollow(sessions[o], sessions'[o]) /\ ~Stuck(sessions'[o], shown')
    <3>1. CASE o = s
      BY <1>1, <2>1, <2>4, <3>1
    <3>2. CASE o # s
      <4>1. sessions'[o] = sessions[o] /\ MayFollow(sessions[o], sessions[o])
        BY <1>2, <2>1, <3>2
      <4>2. sessions[o].open /\ Serving(s) => sessions[o].page # x.page
        BY <3>2 DEF StreamIInv, OneOpen, Serving
      <4>3. sessions[o].open => shown'[sessions[o].page] = shown[sessions[o].page]
        BY <1>1, <2>1, <2>2, <4>2 DEF StreamIInv, StreamTypeOK
      <4> QED BY <1>2, <4>1, <4>3 DEF Stuck
    <3> QED BY <3>1, <3>2
  <2> QED BY <2>1, <2>3, <2>5, <2>6, SessionsFollow DEF StreamIInv, StreamTypeOK
<1> QED BY <1>3, <1>4

LEMMA LogoutFollows ==
    ASSUME StreamIInv, LogoutStep
    PROVE  StreamIInv'
<1>1. /\ DOMAIN sessions = 1..Len(sessions) /\ Len(sessions) \in Nat
      /\ sessions \in [DOMAIN sessions -> SessionRecord]
      /\ \A s \in DOMAIN sessions : sessions[s] \in SessionRecord
      /\ \A s \in DOMAIN sessions : ~Stuck(sessions[s], shown) /\ MayFollow(sessions[s], sessions[s])
  BY SessionsAreTyped DEF StreamIInv, NothingStuck, Stuck, Serving, MayFollow, OnlyClientsAreOwed
<1>2. PICK what \in logout.todo :
          /\ auth' = (auth /\ what # "auth")
          /\ sessions' = [s \in DOMAIN sessions |->
                 IF what = "sessions" THEN [sessions[s] EXCEPT !.live = FALSE]
                 ELSE IF what = "tickets" /\ s \in logout.ids
                      THEN [sessions[s] EXCEPT !.ticket = RevokedTicket(sessions[s].ticket)]
                      ELSE sessions[s]]
          /\ UNCHANGED <<active, page, event, shown, left>>
  BY DEF LogoutStep
<1>3. ASSUME NEW s \in DOMAIN sessions
      PROVE  MayFollow(sessions[s], sessions'[s]) /\ ~Stuck(sessions'[s], shown')
  <2> DEFINE x == sessions[s]
  <2>1. x \in SessionRecord /\ MayFollow(x, x) /\ ~Stuck(x, shown)
    BY <1>1
  <2>2. sessions'[s] = [x EXCEPT !.live = FALSE] \/ sessions'[s] = [x EXCEPT !.ticket = RevokedTicket(x.ticket)]
        \/ sessions'[s] = x
    BY <1>2
  <2>3. shown' = shown
    BY <1>2
  <2> HIDE DEF x
  <2>4. MayFollow(x, sessions'[s]) /\ ~Stuck(sessions'[s], shown')
    BY <2>1, <2>2, <2>3 DEF MayFollow, Stuck, SessionRecord, RevokedTicket
  <2> QED BY <2>4 DEF x
<1>4. sessions' \in [DOMAIN sessions -> SessionRecord]
  BY <1>2, <1>3 DEF MayFollow
<1> QED BY <1>2, <1>3, <1>4, SessionsFollow DEF StreamIInv, StreamTypeOK

\* Nothing the invariant speaks of but the published version, or the login.
LEMMA OthersFollow ==
    ASSUME StreamIInv, UNCHANGED <<sessions, page, event, shown>>, auth' \in BOOLEAN, active' \in Nat
    PROVE  StreamIInv'
<1>1. StreamTypeOK' /\ OwnSessions' /\ OneOpen'
  BY DEF StreamIInv, StreamTypeOK, OwnSessions, OneOpen
<1> QED BY <1>1 DEF StreamIInv, OnlyClientsAreOwed, SessionsCapped, NothingStuck, Serving

LEMMA StreamGoesOn ==
    ASSUME StreamIInv, [StreamNext]_streamVars
    PROVE  StreamIInv'
<1> USE DEF StreamIInv
<1>1. auth \in BOOLEAN /\ active \in Nat
  BY DEF StreamTypeOK
<1>2. CASE UNCHANGED streamVars
  BY <1>1, <1>2, OthersFollow DEF streamVars
<1>3. ASSUME NEW p \in Pages, PageStep(p) \/ LoseRequest(p)
      PROVE  StreamIInv'
  <2>0. page[p] \in [pc : {"closed", "authorized", "created", "capped", "streaming", "invalid"}, session : Nat, version : Nat]
    BY DEF StreamTypeOK
  <2>1. CASE ReadPrincipal(p)
    <3>1. PICK pc \in {"closed", "authorized", "invalid"} :
              page' = [page EXCEPT ![p] = [pc |-> pc, session |-> 0, version |-> active]]
      BY <2>1 DEF ReadPrincipal, AfterFailure
    <3> QED BY <1>1, <2>1, <3>1, PageStartsOver DEF ReadPrincipal
  <2>2. CASE CreateSession(p)
    BY <2>2, SessionIsCreated
  <2>3. CASE Cap(p)
    BY <2>3, SessionIsCapped
  <2>4. CASE OpenSocket(p)
    BY <2>4, SocketIsOpened
  <2>5. CASE Reconnect(p)
    BY <2>0, <2>5, PageStartsOver DEF Reconnect
  <2>6. CASE LoseRequest(p)
    <3>1. PICK pc \in {"closed", "invalid"} : page' = [page EXCEPT ![p] = [page[p] EXCEPT !.pc = pc]]
      BY <2>6 DEF LoseRequest, AfterFailure
    <3>2. [page[p] EXCEPT !.pc = pc] \in [pc : {"closed", "invalid"}, session : Nat, version : Nat]
      BY <2>0, <3>1
    <3> QED BY <2>6, <3>1, <3>2, PageStartsOver DEF LoseRequest
  <2> QED BY <1>3, <2>1, <2>2, <2>3, <2>4, <2>5, <2>6 DEF PageStep
<1>4. ASSUME NEW s \in DOMAIN sessions, HubStep(s) \/ Drop(s) \/ Expire(s)
      PROVE  StreamIInv'
  BY <1>4, HubFollows, EventsAreShown DEF HubStep
<1>5. CASE Publish(event + 1)
  BY <1>5, EventsAreShown
<1>6. CASE PublishVersion \/ IdleOut \/ LogoutRead
  <2>1. UNCHANGED <<sessions, page, event, shown>>
    BY <1>6 DEF PublishVersion, IdleOut, LogoutRead
  <2>2. (auth' = auth \/ auth' = FALSE) /\ (active' = active \/ active' = active + 1)
    BY <1>6 DEF PublishVersion, IdleOut, LogoutRead
  <2>3. auth' \in BOOLEAN
    BY <1>1, <2>2, Zenon
  <2>4. active' \in Nat
    BY <1>1, <2>2
  <2> QED BY <2>1, <2>3, <2>4, OthersFollow
<1>7. CASE LogoutStep
  BY <1>7, LogoutFollows
<1> QED BY <1>2, <1>3, <1>4, <1>5, <1>6, <1>7 DEF StreamNext

\* However many pages reconnect, and whatever is lost, expires or is published
\* while they do: enforceRuntimeSessionCap keeps the capped live sessions within
\* SCADA_MAX_RUNTIME_SESSIONS, and the newest event the hub put on a connected
\* client is shown or has its flush timer running.
THEOREM StreamsAreSafe == StreamSpec => []StreamInv
<1>1. StreamIInv => StreamInv
  BY DEF StreamIInv, StreamInv
<1> QED BY <1>1, StreamStarts, StreamGoesOn, PTL DEF StreamSpec

-----------------------------------------------------------------------------
(***************************************************************************)
(* Secrets.  Stamps only grow, so that a record with the stamp of the secret *)
(* is the secret: a conditional write replaces what it was made from.  Calls *)
(* have numbers, so that a lease has one holder until it lapses.  A pair that *)
(* is not stored yet is new to everybody, so that one which was replaced does *)
(* not come back, and a retry has another token than the rejected one.     *)
(***************************************************************************)

Busy(c) == call[c].pc # "idle"
Kept(c) == call[c].pc \in Holding \cup {"lease", "wait"}

CallRecord ==
    [pc : Holding \cup {"idle", "look", "lease", "wait", "operate"},
     id : Nat, forced : BOOLEAN, rejected : Nat, token : Nat,
     hurry : BOOLEAN, rec : SecretRecord, next : SecretRecord]

AdminRecord == [pc : {"idle", "write", "save"}, device : BOOLEAN, next : SecretRecord]

NumbersTyped ==
    /\ pairs \in Nat \ {0}
    /\ calls \in Nat
    /\ age \in [1..pairs -> {"fresh", "due", "expired"}]

\* A record that was read is the secret as long as nobody has written it.
ReadsAreVersions ==
    /\ secret.stamp # 0
    /\ \A c \in Callers :
           /\ call[c].rec.stamp <= secret.stamp
           /\ call[c].rec.stamp = secret.stamp => call[c].rec = secret
           /\ call[c].pc = "store" =>
                  call[c].next.stamp = call[c].rec.stamp /\ call[c].next.root = call[c].rec.root
    /\ \A a \in Admins :
           /\ admin[a].next.stamp <= secret.stamp
           /\ admin[a].next.stamp = secret.stamp =>
                  /\ admin[a].next.root = secret.root
                  /\ admin[a].device \/ admin[a].pc = "save" => admin[a].next = secret

\* Calls have numbers of their own.
CallsAreNumbered ==
    /\ \A c \in Callers : Busy(c) => call[c].id \in 1..calls
    /\ \A c, d \in Callers : Busy(c) /\ Busy(d) /\ call[c].id = call[d].id => c = d

LeaseIsHeld ==
    "freed" \in noted
    \/ /\ ~authentication.lapsed
       /\ \A c \in Callers : call[c].pc \in Holding => Owns(c)

\* A pair that was issued and is not stored yet.
CallerPending(c) == call[c].pc = "store"
AdminPending(a) == admin[a].pc = "write" /\ ~admin[a].device

PairsAreIssued ==
    /\ secret.pair \in 1..pairs
    /\ \A c \in Callers :
           /\ call[c].rec.pair <= pairs /\ call[c].next.pair <= pairs
           /\ call[c].token <= pairs /\ call[c].rejected <= pairs
    /\ \A a \in Admins :
           /\ admin[a].next.pair <= pairs
           /\ admin[a].pc = "write" => admin[a].next.pair # 0

\* Nobody has seen it.
NewTo(p) ==
    /\ p # 0 /\ secret.pair # p
    /\ \A c \in Callers :
           /\ call[c].rec.pair # p /\ call[c].token # p /\ call[c].rejected # p
           /\ call[c].pc = "record" => call[c].next.pair # p
    /\ \A a \in Admins : admin[a].device => admin[a].next.pair # p

PendingIsNew ==
    /\ \A c \in Callers : CallerPending(c) => NewTo(call[c].next.pair)
    /\ \A a \in Admins : AdminPending(a) => NewTo(admin[a].next.pair)
    /\ \A c, d \in Callers : CallerPending(c) /\ CallerPending(d) /\ call[c].next.pair = call[d].next.pair => c = d
    /\ \A a, b \in Admins : AdminPending(a) /\ AdminPending(b) /\ admin[a].next.pair = admin[b].next.pair => a = b
    /\ \A c \in Callers, a \in Admins : CallerPending(c) /\ AdminPending(a) => call[c].next.pair # admin[a].next.pair

\* Without device tokens a pair that was replaced does not come back.
ReplacedIsGone ==
    "device" \in noted
    \/ \A c \in Callers : Kept(c) /\ call[c].rec.stamp # secret.stamp => call[c].rec.pair # secret.pair

ForcedCalls ==
    \A c \in Callers :
        call[c].forced =>
            /\ Kept(c) => call[c].hurry
            /\ call[c].pc \in {"lease", "wait", "exchange", "store", "raced"} => call[c].rec.pair = call[c].rejected
            /\ call[c].pc = "raced" => call[c].rec.stamp # secret.stamp
            /\ call[c].pc = "record" => call[c].next.pair # call[c].rejected
            /\ call[c].pc = "observe" /\ "device" \notin noted => call[c].rec.pair # call[c].rejected

\* An administrator has stored a pair and not described it yet.
Describing == \E a \in Admins : admin[a].pc = "save" /\ ~admin[a].device

Excused == noted \cap {"undone", "overlap", "late"} # {}

DescribedWell ==
    /\ \A a, b \in Admins : admin[a].pc # "idle" /\ admin[b].pc # "idle" => a = b
    /\ authentication.owner # 0 => authentication.state = "refreshing"
    /\ authentication.state = "described" => authentication.pair = secret.pair \/ Describing
    /\ \A c \in Callers :
           Owns(c) => /\ call[c].pc = "record" => call[c].next.pair = secret.pair \/ Describing
                      /\ call[c].pc = "observe" => call[c].rec.pair = secret.pair \/ Describing

DescriptionFollows == Excused \/ DescribedWell

SecretsIInv ==
    /\ SecretTypeOK /\ NumbersTyped
    /\ ReadsAreVersions
    /\ CallsAreNumbered
    /\ LeaseIsHeld
    /\ PairsAreIssued
    /\ PendingIsNew
    /\ ReplacedIsGone
    /\ ForcedCalls
    /\ DescriptionFollows
    /\ SecretsInv

-----------------------------------------------------------------------------
(* Types.                                                                  *)

Typed == SecretTypeOK /\ NumbersTyped /\ secret.pair \in 1..pairs

LEMMA NoCallTyped == NoCall \in CallRecord /\ NoRequest \in AdminRecord
BY DEF NoCall, NoRequest, NoRecord, CallRecord, AdminRecord, SecretRecord, Holding

LEMMA NewCallTyped ==
    ASSUME NEW n \in Nat, NEW m \in Nat
    PROVE  /\ [NoCall EXCEPT !.pc = "look", !.id = n + 1] \in CallRecord
           /\ [NoCall EXCEPT !.pc = "look", !.id = n + 1, !.forced = TRUE, !.rejected = m] \in CallRecord
<1>1. n + 1 \in Nat
  OBVIOUS
<1> DEFINE i == n + 1
<1> HIDE DEF i
<1>2. i \in Nat
  BY <1>1 DEF i
<1>3. /\ [NoCall EXCEPT !.pc = "look", !.id = i] \in CallRecord
      /\ [NoCall EXCEPT !.pc = "look", !.id = i, !.forced = TRUE, !.rejected = m] \in CallRecord
  BY <1>2, NoCallTyped DEF CallRecord
<1> QED BY <1>3 DEF i

LEMMA OneCall ==
    ASSUME Typed, NEW c \in Callers, NEW y, call' = [call EXCEPT ![c] = y], y \in CallRecord
    PROVE  /\ call' \in [Callers -> CallRecord]
           /\ call'[c] = y /\ \A d \in Callers : d # c => call'[d] = call[d]
BY DEF Typed, SecretTypeOK, CallRecord

LEMMA CallersTyped ==
    ASSUME Typed, NEW c \in Callers
    PROVE  /\ call[c] \in CallRecord /\ call[c].rec \in SecretRecord /\ call[c].next \in SecretRecord
           /\ call[c].id \in Nat /\ call[c].token \in Nat /\ call[c].rejected \in Nat
           /\ secret \in SecretRecord /\ secret.pair \in Nat /\ secret.stamp \in Nat
           /\ pairs \in Nat /\ calls \in Nat /\ Issued \in Nat
BY DEF Typed, SecretTypeOK, CallRecord, SecretRecord, NumbersTyped, Issued

\* What a caller's step makes of its call.
LEMMA CallerStepTyped ==
    ASSUME Typed, NEW c \in Callers, Begin(c) \/ CallerStep(c) \/ Crash(c)
    PROVE  \E y \in CallRecord : call' = [call EXCEPT ![c] = y]
<1> DEFINE k == call[c]
<1>1. /\ k \in CallRecord /\ k.rec \in SecretRecord /\ k.next \in SecretRecord
      /\ k.id \in Nat /\ k.token \in Nat /\ k.rejected \in Nat
      /\ secret \in SecretRecord /\ secret.pair \in Nat /\ secret.stamp \in Nat
      /\ pairs \in Nat /\ calls \in Nat /\ Issued \in Nat
  BY CallersTyped
<1>2. [NoCall EXCEPT !.pc = "look", !.id = calls + 1] \in CallRecord
  BY <1>1, NewCallTyped
<1>3. \A n \in Nat : [k EXCEPT !.pc = "operate", !.token = n] \in CallRecord
  BY <1>1 DEF CallRecord
<1>4. \A pc \in Holding \cup {"lease", "wait"} : [k EXCEPT !.pc = pc] \in CallRecord
  BY <1>1 DEF CallRecord
<1>5. CASE Begin(c)
  BY <1>2, <1>5 DEF Begin
<1>6. CASE Look(c)
  <2>1. \A b \in BOOLEAN : [k EXCEPT !.pc = "lease", !.rec = secret, !.hurry = b] \in CallRecord
    BY <1>1 DEF CallRecord
  <2> QED BY <1>1, <1>3, <1>6, <2>1, NoCallTyped DEF Look, Return, Throw, CallRecord
<1>7. CASE TakeLease(c)
  BY <1>4, <1>7 DEF TakeLease, Goto, Holding
<1>8. CASE WaitForSecretChange(c)
  BY <1>1, <1>3, <1>8, NoCallTyped DEF WaitForSecretChange, Return, Throw
<1>9. CASE Load(c)
  BY <1>1, <1>9 DEF CallRecord, Holding, Load
<1>10. CASE Exchange(c)
  <2>1. [k.rec EXCEPT !.pair = Issued] \in SecretRecord
    BY <1>1 DEF SecretRecord
  <2>2. [k EXCEPT !.pc = "store", !.next = [k.rec EXCEPT !.pair = Issued]] \in CallRecord
    BY <1>1, <2>1 DEF CallRecord, Holding
  <2> QED BY <1>4, <1>10, <2>2 DEF Exchange, Goto, Holding
<1>11. CASE Store(c)
  BY <1>4, <1>11 DEF Store, Goto, Holding
<1>12. CASE Record(c) \/ Observe(c) \/ Fail(c)
  <2>1. k.next.pair \in Nat /\ k.rec.pair \in Nat
    BY <1>1 DEF SecretRecord
  <2> QED BY <1>3, <1>12, <2>1, NoCallTyped DEF Record, Observe, Fail, Return, Throw
<1>13. CASE Raced(c)
  BY <1>1, <1>13 DEF CallRecord, Holding, Raced
<1>14. CASE Operate(c)
  BY <1>1, NewCallTyped, <1>14, NoCallTyped DEF Operate, Throw
<1>15. CASE Crash(c)
  BY <1>15, NoCallTyped DEF Crash, Throw
<1> QED BY <1>5, <1>6, <1>7, <1>8, <1>9, <1>10, <1>11, <1>12, <1>13, <1>14, <1>15 DEF CallerStep

LEMMA AdminsTyped ==
    ASSUME Typed, NEW a \in Admins
    PROVE  /\ admin[a] \in AdminRecord /\ admin[a].next \in SecretRecord /\ newest \in Nat
           /\ secret \in SecretRecord /\ secret.stamp \in Nat /\ Issued \in Nat
           /\ authentication \in [pair : Nat, state : {"described", "refreshing", "error"}, owner : Nat, lapsed : BOOLEAN]
BY DEF Typed, SecretTypeOK, AdminRecord, SecretRecord, NumbersTyped, Issued

\* What an administrator's step makes of its request.
LEMMA AdminStepTyped ==
    ASSUME Typed, NEW a \in Admins, ReadSecret(a) \/ AdminStep(a)
    PROVE  \E y \in AdminRecord : admin' = [admin EXCEPT ![a] = y]
<1>1. /\ admin[a] \in AdminRecord /\ admin[a].next \in SecretRecord /\ newest \in Nat /\ newest + 1 \in Nat
      /\ secret \in SecretRecord /\ secret.stamp \in Nat /\ secret.stamp + 1 \in Nat /\ Issued \in Nat
  BY AdminsTyped
<1>2. CASE ReadSecret(a)
  BY <1>1, <1>2 DEF AdminRecord, SecretRecord, ReadSecret
<1>3. CASE WriteSecret(a)
  <2> DEFINE next == admin[a].next
             root == IF admin[a].device THEN next.root ELSE newest + 1
  <2>1. root \in Nat
    BY <1>1 DEF SecretRecord
  <2> HIDE DEF root
  <2>2. secret' = [next EXCEPT !.stamp = secret.stamp + 1, !.root = root]
    BY <1>3 DEF WriteSecret, root
  <2>3. secret' \in SecretRecord
    <3> DEFINE stamp == secret.stamp + 1
    <3>1. stamp \in Nat
      BY <1>1
    <3> HIDE DEF stamp
    <3> QED BY <1>1, <2>1, <2>2, <3>1 DEF SecretRecord, stamp
  <2>4. [admin[a] EXCEPT !.pc = "save", !.next = secret'] \in AdminRecord
    BY <1>1, <2>3 DEF AdminRecord
  <2> QED BY <1>3, <2>4 DEF WriteSecret
<1>4. CASE SaveEnvironment(a)
  BY <1>4, NoCallTyped DEF SaveEnvironment
<1> QED BY <1>2, <1>3, <1>4 DEF AdminStep

LEMMA OneRequest ==
    ASSUME Typed, NEW a \in Admins, ReadSecret(a) \/ AdminStep(a)
    PROVE  /\ admin' \in [Admins -> AdminRecord] /\ admin'[a] \in AdminRecord
           /\ \A b \in Admins : b # a => admin'[b] = admin[b]
BY AdminStepTyped DEF Typed, SecretTypeOK, AdminRecord

LEMMA OneCaller ==
    ASSUME Typed, NEW c \in Callers, Begin(c) \/ CallerStep(c) \/ Crash(c)
    PROVE  /\ call' \in [Callers -> CallRecord] /\ call'[c] \in CallRecord
           /\ \A d \in Callers : d # c => call'[d] = call[d]
BY CallerStepTyped, OneCall

LEMMA IssueTyped ==
    ASSUME Typed, Issue
    PROVE  pairs' \in Nat \ {0} /\ pairs' = pairs + 1 /\ age' \in [1..pairs' -> {"fresh", "due", "expired"}]
BY DEF Typed, NumbersTyped, Issue, Issued

\* The other variables.
LEMMA SecretsTyped ==
    ASSUME Typed, [SecretNext]_secretVars
    PROVE  SecretTypeOK' /\ NumbersTyped'
<1> DEFINE Says == [pair : Nat, state : {"described", "refreshing", "error"}, owner : Nat, lapsed : BOOLEAN]
<1>0. /\ secret \in SecretRecord /\ authentication \in Says /\ authentication.pair \in Nat /\ newest \in Nat /\ calls \in Nat
      /\ pairs \in Nat \ {0} /\ age \in [1..pairs -> {"fresh", "due", "expired"}]
      /\ call \in [Callers -> CallRecord] /\ admin \in [Admins -> AdminRecord]
      /\ secret.stamp + 1 \in Nat /\ calls + 1 \in Nat /\ newest + 1 \in Nat
      /\ secret.pair \in 1..pairs
  BY DEF Typed, SecretTypeOK, NumbersTyped, SecretRecord, CallRecord, AdminRecord
<1>1. ASSUME NEW c \in Callers, Begin(c) \/ CallerStep(c) \/ Crash(c)
      PROVE  SecretTypeOK' /\ NumbersTyped'
  <2>1. call' \in [Callers -> CallRecord] /\ call[c] \in CallRecord
    BY <1>0, <1>1, OneCaller
  <2>2. newest' = newest /\ admin' = admin
    BY <1>1 DEF Begin, CallerStep, Crash, Look, TakeLease, WaitForSecretChange, Load, Exchange, Store, Record,
                Raced, Observe, Fail, Operate
  <2>3. calls' \in Nat
    BY <1>0, <1>1 DEF Begin, CallerStep, Crash, Look, TakeLease, WaitForSecretChange, Load, Exchange, Store, Record,
                Raced, Observe, Fail, Operate
  <2>4. pairs' \in Nat \ {0} /\ age' \in [1..pairs' -> {"fresh", "due", "expired"}]
    BY <1>0, <1>1, IssueTyped DEF Begin, CallerStep, Crash, Look, TakeLease, WaitForSecretChange, Load, Exchange, Store, Record,
                Raced, Observe, Fail, Operate
  <2>5. secret' \in SecretRecord
    <3>1. CASE secret' = secret
      BY <1>0, <3>1
    <3>2. CASE secret' = [call[c].next EXCEPT !.stamp = secret.stamp + 1]
      BY <1>0, <2>1, <3>2 DEF CallRecord, SecretRecord
    <3>3. secret' = secret \/ secret' = [call[c].next EXCEPT !.stamp = secret.stamp + 1]
      BY <1>1 DEF Begin, CallerStep, Crash, Look, TakeLease, WaitForSecretChange, Load, Exchange, Store, Record,
                Raced, Observe, Fail, Operate
    <3> QED BY <3>1, <3>2, <3>3
  <2>6. authentication' \in Says
    <3>1. call[c].id \in Nat /\ call[c].next.pair \in Nat /\ call[c].rec.pair \in Nat
      BY <2>1 DEF CallRecord, SecretRecord
    <3>2. [authentication EXCEPT !.state = "refreshing", !.owner = call[c].id, !.lapsed = FALSE] \in Says
      BY <1>0, <3>1
    <3>3. \A p \in Nat, s \in {"described", "error"} : [pair |-> p, state |-> s, owner |-> 0, lapsed |-> FALSE] \in Says
      OBVIOUS
    <3> HIDE DEF Says
    <3>4. CASE TakeLease(c)
      BY <1>0, <3>2, <3>4 DEF TakeLease
    <3>5. CASE Record(c) \/ Observe(c) \/ Fail(c)
      BY <1>0, <3>1, <3>3, <3>5 DEF Record, Observe, Fail, Describe
    <3>6. CASE Operate(c)
      BY <1>0, <3>6 DEF Operate
    <3>7. CASE Begin(c) \/ Crash(c) \/ Look(c) \/ WaitForSecretChange(c) \/ Load(c)
      BY <1>0, <3>7 DEF Begin, Crash, Look, WaitForSecretChange, Load
    <3>8. CASE Exchange(c) \/ Store(c) \/ Raced(c)
      BY <1>0, <3>8 DEF Exchange, Store, Raced
    <3> QED BY <1>1, <3>4, <3>5, <3>6, <3>7, <3>8 DEF CallerStep
  <2> QED BY <1>0, <2>1, <2>2, <2>3, <2>4, <2>5, <2>6 DEF SecretTypeOK, NumbersTyped, CallRecord, AdminRecord
<1>2. ASSUME NEW a \in Admins, ReadSecret(a) \/ AdminStep(a)
      PROVE  SecretTypeOK' /\ NumbersTyped'
  <2>1. admin' \in [Admins -> AdminRecord] /\ admin[a] \in AdminRecord /\ admin'[a] \in AdminRecord
    BY <1>0, <1>2, OneRequest
  <2>2. calls' = calls /\ call' = call
    BY <1>2 DEF ReadSecret, AdminStep, WriteSecret, SaveEnvironment
  <2>3. newest' \in Nat
    BY <1>0, <1>2 DEF ReadSecret, AdminStep, WriteSecret, SaveEnvironment
  <2>4. pairs' \in Nat \ {0} /\ age' \in [1..pairs' -> {"fresh", "due", "expired"}]
    BY <1>0, <1>2, IssueTyped DEF ReadSecret, AdminStep, WriteSecret, SaveEnvironment
  <2>5. secret' \in SecretRecord
    <3>1. secret' = secret \/ (WriteSecret(a) /\ admin' = [admin EXCEPT ![a] = [admin[a] EXCEPT !.pc = "save", !.next = secret']])
      BY <1>2 DEF ReadSecret, AdminStep, WriteSecret, SaveEnvironment
    <3>2. admin' = [admin EXCEPT ![a] = [admin[a] EXCEPT !.pc = "save", !.next = secret']] => admin'[a].next = secret'
      BY <1>0, <2>1 DEF AdminRecord
    <3> QED BY <1>0, <2>1, <3>1, <3>2 DEF AdminRecord
  <2>6. authentication' \in Says
    <3>1. admin[a].next.pair \in Nat
      BY <2>1 DEF AdminRecord, SecretRecord
    <3>2. [pair |-> admin[a].next.pair, state |-> "described", owner |-> 0, lapsed |-> FALSE] \in Says
      BY <3>1
    <3> HIDE DEF Says
    <3> QED BY <1>0, <1>2, <3>2 DEF ReadSecret, AdminStep, WriteSecret, SaveEnvironment
  <2> QED BY <1>0, <2>1, <2>2, <2>3, <2>4, <2>5, <2>6 DEF SecretTypeOK, NumbersTyped, CallRecord, AdminRecord
<1>3. CASE Age
  BY <1>0, <1>3 DEF Age, SecretTypeOK, NumbersTyped, CallRecord, AdminRecord
<1>4. CASE Lapse
  BY <1>0, <1>4 DEF Lapse, SecretTypeOK, NumbersTyped, CallRecord, AdminRecord
<1>5. CASE UNCHANGED secretVars
  BY <1>5 DEF secretVars, Typed, SecretTypeOK, NumbersTyped
<1> QED BY <1>1, <1>2, <1>3, <1>4, <1>5 DEF SecretNext

-----------------------------------------------------------------------------
(* What the steps do, field by field.                                      *)

Calm == UNCHANGED <<secret, admin, newest>>

\* The call goes on.
GoesOn(c) ==
    /\ call'[c].id = call[c].id /\ call'[c].forced = call[c].forced /\ call'[c].rejected = call[c].rejected
    /\ call'[c].next = call[c].next \/ call'[c].pc = "store"

KeepsRead(c) == call'[c].rec = call[c].rec /\ call'[c].hurry = call[c].hurry

Answers(c, pair) ==
    GoesOn(c) /\ KeepsRead(c) /\ call'[c].pc = "operate" /\ call'[c].token = pair

LEMMA AnswerIsGiven ==
    ASSUME Typed, NEW c \in Callers, NEW pair \in Nat, Return(c, pair)
    PROVE  Answers(c, pair)
<1>1. call[c] \in CallRecord
  BY CallersTyped
<1>2. [call[c] EXCEPT !.pc = "operate", !.token = pair] \in CallRecord
  BY <1>1 DEF CallRecord
<1>3. call'[c] = [call[c] EXCEPT !.pc = "operate", !.token = pair]
  BY <1>2, OneCall DEF Return
<1> QED BY <1>1, <1>3 DEF Answers, GoesOn, KeepsRead, CallRecord

LEMMA CallMoves ==
    ASSUME Typed, NEW c \in Callers, NEW pc \in Holding \cup {"wait"}, Goto(c, pc)
    PROVE  /\ GoesOn(c) /\ KeepsRead(c) /\ call'[c].pc = pc
           /\ call'[c].token = call[c].token /\ call'[c].next = call[c].next
<1>1. call[c] \in CallRecord
  BY CallersTyped
<1>2. [call[c] EXCEPT !.pc = pc] \in CallRecord
  BY <1>1 DEF CallRecord
<1>3. call'[c] = [call[c] EXCEPT !.pc = pc]
  BY <1>2, OneCall DEF Goto
<1> QED BY <1>1, <1>3 DEF GoesOn, KeepsRead, CallRecord

LEMMA CallEnds ==
    ASSUME Typed, NEW c \in Callers, Throw(c)
    PROVE  call'[c] = NoCall
BY NoCallTyped, OneCall DEF Throw

LEMMA Begins ==
    ASSUME Typed, NEW c \in Callers, Begin(c)
    PROVE  /\ Calm /\ UNCHANGED <<authentication, pairs, noted>>
           /\ call[c].pc = "idle" /\ call'[c].pc = "look" /\ call'[c].id = calls + 1 /\ calls' = calls + 1
           /\ ~call'[c].forced /\ call'[c].rec = NoRecord /\ call'[c].next = NoRecord
           /\ call'[c].token = 0 /\ call'[c].rejected = 0
<1>1. calls \in Nat
  BY CallersTyped
<1>2. [NoCall EXCEPT !.pc = "look", !.id = calls + 1] \in CallRecord
  BY <1>1, NewCallTyped
<1>3. call'[c] = [NoCall EXCEPT !.pc = "look", !.id = calls + 1]
  BY <1>2, OneCall DEF Begin
<1>4. /\ call'[c].pc = "look" /\ call'[c].id = calls + 1
      /\ ~call'[c].forced /\ call'[c].rec = NoRecord /\ call'[c].next = NoRecord
      /\ call'[c].token = 0 /\ call'[c].rejected = 0
  <2> DEFINE i == calls + 1
  <2> HIDE DEF i
  <2>1. call'[c] = [NoCall EXCEPT !.pc = "look", !.id = i]
    BY <1>3 DEF i
  <2>2. /\ call'[c].pc = "look" /\ call'[c].id = i
        /\ ~call'[c].forced /\ call'[c].rec = NoRecord /\ call'[c].next = NoRecord
        /\ call'[c].token = 0 /\ call'[c].rejected = 0
    BY <2>1 DEF NoCall
  <2> QED BY <2>2 DEF i
<1> QED BY <1>4 DEF Begin, Calm

LEMMA Looks ==
    ASSUME Typed, NEW c \in Callers, Look(c)
    PROVE  /\ Calm /\ UNCHANGED <<authentication, pairs, calls, noted>>
           /\ call[c].pc = "look"
           /\ \/ call'[c] = NoCall
              \/ Answers(c, secret.pair) /\ (call[c].forced => secret.pair # call[c].rejected)
              \/ /\ GoesOn(c) /\ call'[c].pc = "lease" /\ call'[c].rec = secret /\ call'[c].token = call[c].token
                 /\ call'[c].next = call[c].next
                 /\ call[c].forced => call'[c].hurry /\ secret.pair = call[c].rejected
<1> DEFINE k == call[c]
           good == IF k.forced THEN secret.pair # k.rejected ELSE age[secret.pair] = "fresh"
           hurry == age[secret.pair] = "expired" \/ k.forced
<1>1. k \in CallRecord /\ secret \in SecretRecord /\ secret.pair \in Nat
  BY CallersTyped
<1>2. Calm /\ UNCHANGED <<authentication, pairs, calls, noted>> /\ k.pc = "look"
  BY DEF Look, Calm
<1>3. CASE Throw(c)
  BY <1>2, <1>3, CallEnds
<1>4. CASE Return(c, secret.pair) /\ (k.forced => secret.pair # k.rejected)
  BY <1>1, <1>2, <1>4, AnswerIsGiven
<1>5. CASE call' = [call EXCEPT ![c] = [k EXCEPT !.pc = "lease", !.rec = secret, !.hurry = hurry]] /\ ~good
  <2>1. \A b \in BOOLEAN : [k EXCEPT !.pc = "lease", !.rec = secret, !.hurry = b] \in CallRecord
    BY <1>1 DEF CallRecord
  <2>2. hurry \in BOOLEAN /\ (k.forced => hurry)
    OBVIOUS
  <2>3. k.forced => secret.pair = k.rejected
    BY <1>5
  <2> HIDE DEF hurry
  <2>4. call'[c] = [k EXCEPT !.pc = "lease", !.rec = secret, !.hurry = hurry]
    BY <1>5, <2>1, <2>2, OneCall
  <2>5. /\ GoesOn(c) /\ call'[c].pc = "lease" /\ call'[c].rec = secret /\ call'[c].token = call[c].token
        /\ call'[c].next = call[c].next /\ call'[c].hurry = hurry
    BY <1>1, <2>4 DEF GoesOn, CallRecord
  <2> QED BY <1>2, <2>2, <2>3, <2>5
<1>6. \/ Throw(c)
      \/ Return(c, secret.pair) /\ (k.forced => secret.pair # k.rejected)
      \/ call' = [call EXCEPT ![c] = [k EXCEPT !.pc = "lease", !.rec = secret, !.hurry = hurry]] /\ ~good
  BY DEF Look
<1> QED BY <1>3, <1>4, <1>5, <1>6

LEMMA TakesLease ==
    ASSUME Typed, NEW c \in Callers, TakeLease(c)
    PROVE  /\ Calm /\ UNCHANGED <<pairs, calls, noted>>
           /\ call[c].pc = "lease"
           /\ GoesOn(c) /\ KeepsRead(c) /\ call'[c].token = call[c].token /\ call'[c].next = call[c].next
           /\ \/ /\ LeaseFree /\ call'[c].pc = "load"
                 /\ authentication'.owner = call[c].id /\ authentication'.state = "refreshing" /\ ~authentication'.lapsed
              \/ ~LeaseFree /\ call'[c].pc = "wait" /\ UNCHANGED authentication
<1>1. /\ authentication \in [pair : Nat, state : {"described", "refreshing", "error"}, owner : Nat, lapsed : BOOLEAN]
      /\ call[c].id \in Nat
  BY CallersTyped DEF Typed, SecretTypeOK
<1>2. CASE LeaseFree
  BY <1>2, <1>1, CallMoves DEF TakeLease, Holding, Calm
<1>3. CASE ~LeaseFree
  BY <1>3, CallMoves DEF TakeLease, Calm
<1> QED BY <1>2, <1>3

LEMMA Waits ==
    ASSUME Typed, NEW c \in Callers, WaitForSecretChange(c)
    PROVE  /\ Calm /\ UNCHANGED <<authentication, pairs, calls, noted>>
           /\ call[c].pc = "wait"
           /\ \/ call'[c] = NoCall
              \/ Answers(c, secret.pair) /\ secret.stamp # call[c].rec.stamp
BY CallersTyped, CallEnds, AnswerIsGiven DEF WaitForSecretChange, Calm

LEMMA Loads ==
    ASSUME Typed, NEW c \in Callers, Load(c)
    PROVE  /\ Calm /\ UNCHANGED <<authentication, pairs, calls, noted>>
           /\ call[c].pc = "load"
           /\ GoesOn(c) /\ call'[c].rec = secret /\ call'[c].hurry = call[c].hurry /\ call'[c].token = call[c].token
           /\ call'[c].next = call[c].next
           /\ \/ call'[c].pc = "observe" /\ (call[c].forced => secret.pair # call[c].rejected)
              \/ call'[c].pc = "exchange" /\ (call[c].forced => secret.pair = call[c].rejected)
<1>1. call[c] \in CallRecord /\ secret \in SecretRecord
  BY CallersTyped
<1>2. PICK pc \in {"observe", "exchange"} :
        /\ call' = [call EXCEPT ![c] = [call[c] EXCEPT !.rec = secret, !.pc = pc]]
        /\ pc = "observe" <=> AlreadyFresh(c)
  BY DEF Load
<1>3. [call[c] EXCEPT !.rec = secret, !.pc = pc] \in CallRecord
  BY <1>1 DEF CallRecord, Holding
<1>4. call'[c] = [call[c] EXCEPT !.rec = secret, !.pc = pc]
  BY <1>2, <1>3, OneCall
<1>5. /\ GoesOn(c) /\ call'[c].rec = secret /\ call'[c].hurry = call[c].hurry /\ call'[c].token = call[c].token
      /\ call'[c].next = call[c].next /\ call'[c].pc = pc
  BY <1>1, <1>4 DEF GoesOn, CallRecord
<1>6. Calm /\ UNCHANGED <<authentication, pairs, calls, noted>> /\ call[c].pc = "load"
  BY DEF Load, Calm
<1> QED BY <1>2, <1>5, <1>6 DEF AlreadyFresh

LEMMA Exchanges ==
    ASSUME Typed, NEW c \in Callers, Exchange(c)
    PROVE  /\ Calm /\ UNCHANGED <<authentication, calls, noted>>
           /\ call[c].pc = "exchange"
           /\ GoesOn(c) /\ KeepsRead(c) /\ call'[c].token = call[c].token
           /\ \/ /\ Issue /\ pairs' = Issued
                 /\ call'[c].pc = "store" /\ call'[c].next.pair = Issued
                 /\ call'[c].next.stamp = call[c].rec.stamp /\ call'[c].next.root = call[c].rec.root
              \/ UNCHANGED pairs /\ call'[c].pc = "fail" /\ call'[c].next = call[c].next
<1>1. call[c] \in CallRecord /\ call[c].rec \in SecretRecord /\ Issued \in Nat
  BY CallersTyped
<1>2. CASE Issue /\ call' = [call EXCEPT ![c] = [@ EXCEPT !.pc = "store", !.next = [call[c].rec EXCEPT !.pair = Issued]]]
  <2> DEFINE next == [call[c].rec EXCEPT !.pair = Issued]
  <2>1. /\ next \in SecretRecord
        /\ next.pair = Issued /\ next.stamp = call[c].rec.stamp /\ next.root = call[c].rec.root
    BY <1>1 DEF SecretRecord
  <2> HIDE DEF next
  <2>2. [call[c] EXCEPT !.pc = "store", !.next = next] \in CallRecord
    BY <1>1, <2>1 DEF CallRecord, Holding
  <2>3. call'[c] = [call[c] EXCEPT !.pc = "store", !.next = next]
    BY <1>2, <2>2, OneCall DEF next
  <2>4. /\ call'[c].pc = "store" /\ call'[c].next = next /\ call'[c].token = call[c].token
        /\ GoesOn(c) /\ KeepsRead(c)
    BY <1>1, <2>3 DEF CallRecord, GoesOn, KeepsRead
  <2> QED BY <1>2, <2>1, <2>4 DEF Exchange, Issue, Calm
<1>3. CASE Goto(c, "fail") /\ UNCHANGED <<age, pairs>>
  BY <1>3, CallMoves DEF Holding, Exchange, Calm
<1> QED BY <1>2, <1>3 DEF Exchange

LEMMA Stores ==
    ASSUME Typed, NEW c \in Callers, Store(c)
    PROVE  /\ UNCHANGED <<authentication, admin, pairs, calls, newest>>
           /\ call[c].pc = "store"
           /\ GoesOn(c) /\ KeepsRead(c) /\ call'[c].token = call[c].token /\ call'[c].next = call[c].next
           /\ \/ /\ secret.stamp = call[c].rec.stamp /\ call'[c].pc = "record"
                 /\ secret'.pair = call[c].next.pair /\ secret'.root = call[c].next.root
                 /\ secret'.stamp = secret.stamp + 1
                 /\ noted' = noted \cup (IF Owns(c) THEN {} ELSE {"late"})
              \/ /\ secret.stamp # call[c].rec.stamp /\ call'[c].pc = "raced"
                 /\ UNCHANGED <<secret, noted>>
<1>1. call[c] \in CallRecord /\ call[c].next \in SecretRecord /\ secret \in SecretRecord /\ secret.stamp \in Nat
  BY CallersTyped
<1>2. "record" \in Holding \cup {"wait"} /\ "raced" \in Holding \cup {"wait"}
  BY DEF Holding
<1>3. CASE Unchanged(c)
  <2> DEFINE stamp == secret.stamp + 1
  <2>1. stamp \in Nat
    BY <1>1
  <2> HIDE DEF stamp
  <2>2. secret' = [call[c].next EXCEPT !.stamp = stamp] /\ Goto(c, "record")
    BY <1>3 DEF Store, stamp
  <2>3. secret'.pair = call[c].next.pair /\ secret'.root = call[c].next.root /\ secret'.stamp = stamp
    BY <1>1, <2>1, <2>2 DEF SecretRecord
  <2> QED BY <1>2, <1>3, <2>2, <2>3, CallMoves DEF Store, Unchanged, stamp
<1>4. CASE ~Unchanged(c)
  BY <1>2, <1>4, CallMoves DEF Store, Unchanged
<1> QED BY <1>3, <1>4

\* The lease ends with what is said of the authentication, unless it was lost.
Says(c, pair, state) ==
    IF Owns(c)
    THEN /\ authentication'.pair = pair /\ authentication'.state = state
         /\ authentication'.owner = 0 /\ ~authentication'.lapsed
    ELSE UNCHANGED authentication

LEMMA Speaks ==
    ASSUME NEW c \in Callers, NEW pair, NEW state, Describe(c, pair, state)
    PROVE  Says(c, pair, state)
BY DEF Describe, Says

LEMMA Records ==
    ASSUME Typed, NEW c \in Callers, Record(c)
    PROVE  /\ Calm /\ UNCHANGED <<pairs, calls, noted>>
           /\ call[c].pc = "record"
           /\ Answers(c, call[c].next.pair) /\ Says(c, call[c].next.pair, "described")
BY CallersTyped, AnswerIsGiven, Speaks DEF SecretRecord, Record, Calm

LEMMA Races ==
    ASSUME Typed, NEW c \in Callers, Raced(c)
    PROVE  /\ Calm /\ UNCHANGED <<authentication, pairs, calls, noted>>
           /\ call[c].pc = "raced"
           /\ GoesOn(c) /\ call'[c].rec = secret /\ call'[c].hurry = call[c].hurry /\ call'[c].token = call[c].token
           /\ call'[c].next = call[c].next /\ call'[c].pc = "observe"
<1>1. call[c] \in CallRecord /\ secret \in SecretRecord
  BY CallersTyped
<1>2. [call[c] EXCEPT !.pc = "observe", !.rec = secret] \in CallRecord
  BY <1>1 DEF CallRecord, Holding
<1>3. call'[c] = [call[c] EXCEPT !.pc = "observe", !.rec = secret]
  BY <1>2, OneCall DEF Raced
<1>4. /\ GoesOn(c) /\ call'[c].rec = secret /\ call'[c].hurry = call[c].hurry /\ call'[c].token = call[c].token
      /\ call'[c].next = call[c].next /\ call'[c].pc = "observe"
  BY <1>1, <1>3 DEF GoesOn, CallRecord
<1> QED BY <1>4 DEF Raced, Calm

LEMMA Observes ==
    ASSUME Typed, NEW c \in Callers, Observe(c)
    PROVE  /\ Calm /\ UNCHANGED <<pairs, calls, noted>>
           /\ call[c].pc = "observe"
           /\ Answers(c, call[c].rec.pair) /\ Says(c, call[c].rec.pair, "described")
BY CallersTyped, AnswerIsGiven, Speaks DEF SecretRecord, Observe, Calm

LEMMA Fails ==
    ASSUME Typed, NEW c \in Callers, Fail(c)
    PROVE  /\ Calm /\ UNCHANGED <<pairs, calls, noted>>
           /\ call[c].pc = "fail"
           /\ IF call[c].hurry THEN call'[c] = NoCall ELSE Answers(c, call[c].rec.pair)
           /\ Says(c, authentication.pair, "error")
BY CallersTyped, AnswerIsGiven, CallEnds, Speaks DEF SecretRecord, Fail, Calm

LEMMA Operates ==
    ASSUME Typed, NEW c \in Callers, Operate(c)
    PROVE  /\ Calm /\ UNCHANGED <<authentication, pairs, noted>>
           /\ call[c].pc = "operate"
           /\ \/ call'[c] = NoCall /\ UNCHANGED calls
              \/ /\ calls' = calls + 1 /\ call'[c].id = calls + 1 /\ call'[c].pc = "look"
                 /\ call'[c].forced /\ call'[c].rejected = call[c].token /\ call'[c].token = 0
                 /\ call'[c].rec = NoRecord /\ call'[c].next = NoRecord
<1>1. calls \in Nat /\ call[c].token \in Nat
  BY CallersTyped
<1>2. CASE Throw(c) /\ UNCHANGED calls
  BY <1>2, CallEnds DEF Operate, Calm
<1>3. CASE /\ calls' = calls + 1
           /\ call' = [call EXCEPT ![c] = [NoCall EXCEPT !.pc = "look", !.id = calls + 1,
                                              !.forced = TRUE, !.rejected = call[c].token]]
  <2> DEFINE i == calls + 1
             y == [NoCall EXCEPT !.pc = "look", !.id = i, !.forced = TRUE, !.rejected = call[c].token]
  <2>1. y \in CallRecord
    BY <1>1, NewCallTyped
  <2>2. call'[c] = y
    BY <1>3, <2>1, OneCall
  <2> HIDE DEF i
  <2>3. /\ y.id = i /\ y.pc = "look" /\ y.forced /\ y.rejected = call[c].token /\ y.token = 0
        /\ y.rec = NoRecord /\ y.next = NoRecord
    BY DEF NoCall
  <2> HIDE DEF y
  <2> QED BY <1>3, <2>2, <2>3 DEF Operate, Calm, i
<1> QED BY <1>2, <1>3 DEF Operate

LEMMA Crashes ==
    ASSUME Typed, NEW c \in Callers, Crash(c)
    PROVE  Calm /\ UNCHANGED <<authentication, pairs, calls, noted>> /\ call'[c] = NoCall
BY CallEnds DEF Crash, Calm

-----------------------------------------------------------------------------
(* Calls have numbers, and the lease one holder.                           *)

LEMMA CallsFollow ==
    ASSUME Typed, NEW c \in Callers, Begin(c) \/ CallerStep(c) \/ Crash(c)
    PROVE  /\ \/ UNCHANGED calls /\ Busy(c) /\ GoesOn(c)
              \/ UNCHANGED calls /\ call'[c] = NoCall
              \/ calls' = calls + 1 /\ call'[c].id = calls + 1 /\ call'[c].pc = "look"
           /\ noted' = noted \cup (IF Store(c) /\ call'[c].pc = "record" /\ ~Owns(c) THEN {"late"} ELSE {})
           /\ call'[c].pc \in Holding =>
                 \/ call[c].pc \in Holding /\ UNCHANGED authentication
                 \/ TakeLease(c)
<1>1. NoCall.pc = "idle" /\ "idle" \notin Holding /\ "look" \notin Holding /\ "operate" \notin Holding /\ "lease" \notin Holding
      /\ "wait" \notin Holding
  BY DEF NoCall, Holding
<1>2. CASE Begin(c)
  BY <1>1, <1>2, Begins DEF Store
<1>3. CASE Look(c)
  BY <1>1, <1>3, Looks DEF Store, Busy, Answers
<1>4. CASE TakeLease(c)
  BY <1>1, <1>4, TakesLease DEF Store, Busy
<1>5. CASE WaitForSecretChange(c)
  BY <1>1, <1>5, Waits DEF Store, Busy, Answers
<1>6. CASE Load(c)
  BY <1>1, <1>6, Loads DEF Store, Busy, Holding
<1>7. CASE Exchange(c)
  BY <1>1, <1>7, Exchanges DEF Store, Busy, Holding
<1>8. CASE Store(c)
  BY <1>1, <1>8, Stores DEF Busy, Holding
<1>9. CASE Record(c)
  BY <1>1, <1>9, Records DEF Store, Busy, Answers
<1>10. CASE Raced(c)
  BY <1>1, <1>10, Races DEF Store, Busy, Holding
<1>11. CASE Observe(c)
  BY <1>1, <1>11, Observes DEF Store, Busy, Answers
<1>12. CASE Fail(c)
  BY <1>1, <1>12, Fails DEF Store, Busy, Answers
<1>13. CASE Operate(c)
  BY <1>1, <1>13, Operates DEF Store, Busy
<1>14. CASE Crash(c)
  BY <1>14, Crashes, <1>1
<1> QED BY <1>2, <1>3, <1>4, <1>5, <1>6, <1>7, <1>8, <1>9, <1>10, <1>11, <1>12, <1>13, <1>14 DEF CallerStep

LEMMA NumbersFollow ==
    ASSUME Typed, CallsAreNumbered, NEW c \in Callers, Begin(c) \/ CallerStep(c) \/ Crash(c)
    PROVE  CallsAreNumbered'
<1>1. \A d \in Callers : d # c => call'[d] = call[d]
  BY OneCaller
<1>2. calls \in Nat /\ calls' \in Nat
  BY CallersTyped, SecretsTyped DEF SecretNext, NumbersTyped
<1>3. CASE UNCHANGED calls /\ Busy(c) /\ GoesOn(c)
  BY <1>1, <1>3 DEF CallsAreNumbered, Busy, GoesOn
<1>4. CASE UNCHANGED calls /\ call'[c] = NoCall
  BY <1>1, <1>4 DEF CallsAreNumbered, Busy, NoCall
<1>5. CASE calls' = calls + 1 /\ call'[c].id = calls + 1 /\ call'[c].pc = "look"
  BY <1>1, <1>2, <1>5 DEF CallsAreNumbered, Busy
<1> QED BY <1>3, <1>4, <1>5, CallsFollow

LEMMA LeaseFollows ==
    ASSUME Typed, CallsAreNumbered, LeaseIsHeld, NEW c \in Callers, Begin(c) \/ CallerStep(c) \/ Crash(c)
    PROVE  LeaseIsHeld'
<1>1. \A d \in Callers : d # c => call'[d] = call[d]
  BY OneCaller
<1>2. "freed" \in noted => "freed" \in noted'
  BY CallsFollow
<1>3. SUFFICES ASSUME "freed" \notin noted
               PROVE  ~authentication'.lapsed /\ \A d \in Callers : call'[d].pc \in Holding => Owns(d)'
  BY <1>2 DEF LeaseIsHeld
<1>4. ~authentication.lapsed /\ \A d \in Callers : call[d].pc \in Holding => Owns(d) /\ call[d].id # 0
  BY <1>3 DEF LeaseIsHeld, CallsAreNumbered, Busy, Holding
<1>5. CASE TakeLease(c)
  <2>1. CASE LeaseFree
    <3>1. \A d \in Callers : call[d].pc \notin Holding
      BY <1>4, <2>1 DEF LeaseFree, Owns
    <3>2. authentication'.owner = call'[c].id /\ ~authentication'.lapsed
      BY <1>5, <2>1, TakesLease DEF GoesOn
    <3> QED BY <1>1, <3>1, <3>2 DEF Owns
  <2>2. CASE ~LeaseFree
    BY <1>1, <1>4, <1>5, <2>2, TakesLease DEF Owns, Holding
  <2> QED BY <2>1, <2>2
<1>6. CASE Record(c) \/ Observe(c) \/ Fail(c)
  <2>1. call[c].pc \in Holding /\ call'[c].pc \notin Holding
    BY <1>6, Records, Observes, Fails DEF Answers, NoCall, Holding
  <2>2. Owns(c) /\ \A d \in Callers : d # c => call[d].pc \notin Holding
    BY <1>4, <2>1 DEF Owns, CallsAreNumbered, Busy, Holding
  <2>3. ~authentication'.lapsed
    BY <1>6, <2>2, Records, Observes, Fails DEF Says
  <2> QED BY <1>1, <2>1, <2>2, <2>3
<1>7. CASE ~TakeLease(c) /\ ~Record(c) /\ ~Observe(c) /\ ~Fail(c)
  <2>1. UNCHANGED authentication
    BY <1>7, Begins, Looks, Waits, Loads, Exchanges, Stores, Races, Operates, Crashes DEF CallerStep
  <2>2. call'[c].pc \in Holding => call[c].pc \in Holding /\ call'[c].id = call[c].id
    BY <1>7, CallsFollow DEF GoesOn, NoCall, Holding
  <2> QED BY <1>1, <1>4, <2>1, <2>2 DEF Owns
<1> QED BY <1>5, <1>6, <1>7

LEMMA OneHolder ==
    ASSUME CallsAreNumbered, LeaseIsHeld
    PROVE  OneRefresh
BY DEF CallsAreNumbered, LeaseIsHeld, OneRefresh, Owns, Busy, Holding

-----------------------------------------------------------------------------
(* What an administrator's steps do, field by field.                       *)

LEMMA ReadsSecret ==
    ASSUME Typed, NEW a \in Admins, ReadSecret(a)
    PROVE  /\ UNCHANGED <<secret, authentication, call, calls, newest>>
           /\ admin[a].pc = "idle" /\ admin'[a].pc = "write"
           /\ admin'[a].next.stamp = secret.stamp /\ admin'[a].next.root = secret.root
           /\ \/ ~admin'[a].device /\ Issue /\ pairs' = Issued /\ admin'[a].next.pair = Issued
              \/ admin'[a].device /\ UNCHANGED pairs /\ admin'[a].next = secret
           /\ noted' = noted \cup (IF \E b \in Admins \ {a} : admin[b].pc # "idle" THEN {"overlap"} ELSE {})
<1>1. admin \in [Admins -> AdminRecord] /\ secret \in SecretRecord /\ Issued \in Nat
  BY AdminsTyped DEF Typed, SecretTypeOK, AdminRecord
<1>2. ASSUME NEW auto \in BOOLEAN, Issue,
             admin' = [admin EXCEPT ![a] = [pc |-> "write", device |-> FALSE, next |-> [secret EXCEPT !.pair = Issued, !.auto = auto]]]
      PROVE  /\ admin'[a].pc = "write" /\ ~admin'[a].device /\ pairs' = Issued /\ admin'[a].next.pair = Issued
             /\ admin'[a].next.stamp = secret.stamp /\ admin'[a].next.root = secret.root
  <2> DEFINE p == Issued
             next == [secret EXCEPT !.pair = p, !.auto = auto]
  <2>1. p \in Nat /\ pairs' = p
    BY <1>1, <1>2 DEF Issue
  <2>2. admin' = [admin EXCEPT ![a] = [pc |-> "write", device |-> FALSE, next |-> next]]
    BY <1>2
  <2> HIDE DEF p
  <2>3. next.pair = p /\ next.stamp = secret.stamp /\ next.root = secret.root
    BY <1>1, <2>1 DEF SecretRecord
  <2> HIDE DEF next
  <2>4. admin'[a] = [pc |-> "write", device |-> FALSE, next |-> next]
    BY <1>1, <2>2
  <2> QED BY <2>1, <2>3, <2>4 DEF p
<1>3. ASSUME admin' = [admin EXCEPT ![a] = [pc |-> "write", device |-> TRUE, next |-> secret]]
      PROVE  /\ admin'[a].pc = "write" /\ admin'[a].device /\ admin'[a].next = secret
  BY <1>1, <1>3
<1> QED BY <1>2, <1>3 DEF ReadSecret

LEMMA WritesSecret ==
    ASSUME Typed, NEW a \in Admins, WriteSecret(a)
    PROVE  /\ UNCHANGED <<authentication, call, pairs, calls>>
           /\ admin[a].pc = "write" /\ admin'[a].pc = "save"
           /\ admin'[a].device = admin[a].device /\ admin'[a].next = secret'
           /\ secret'.pair = admin[a].next.pair /\ secret'.stamp = secret.stamp + 1
           /\ IF admin[a].device
              THEN /\ secret'.root = admin[a].next.root /\ newest' = newest /\ "device" \in noted'
                   /\ admin[a].next.stamp # secret.stamp => "undone" \in noted'
              ELSE secret'.root = newest + 1 /\ newest' = newest + 1
           /\ noted \subseteq noted' /\ noted' \subseteq noted \cup {"device", "undone"}
<1>1. admin \in [Admins -> AdminRecord] /\ admin[a] \in AdminRecord /\ admin[a].next \in SecretRecord
      /\ secret.stamp \in Nat /\ newest \in Nat
  BY AdminsTyped DEF Typed, SecretTypeOK, AdminRecord
<1> DEFINE root == IF admin[a].device THEN admin[a].next.root ELSE newest + 1
           stamp == secret.stamp + 1
<1>2. root \in Nat /\ stamp \in Nat
  BY <1>1 DEF SecretRecord
<1>3. secret' = [admin[a].next EXCEPT !.stamp = stamp, !.root = root]
  BY DEF WriteSecret
<1>4. secret'.pair = admin[a].next.pair /\ secret'.stamp = stamp /\ secret'.root = root
  <2> HIDE DEF root, stamp
  <2> QED BY <1>1, <1>2, <1>3 DEF SecretRecord
<1>5. admin'[a].pc = "save" /\ admin'[a].device = admin[a].device /\ admin'[a].next = secret'
  BY <1>1 DEF WriteSecret, AdminRecord
<1>6. IF admin[a].device
      THEN /\ newest' = newest /\ "device" \in noted'
           /\ admin[a].next.stamp # secret.stamp => "undone" \in noted'
      ELSE newest' = newest + 1
  BY DEF WriteSecret
<1>7. noted \subseteq noted' /\ noted' \subseteq noted \cup {"device", "undone"}
  BY DEF WriteSecret
<1> QED BY <1>4, <1>5, <1>6, <1>7 DEF WriteSecret

LEMMA Saves ==
    ASSUME Typed, NEW a \in Admins, SaveEnvironment(a)
    PROVE  /\ UNCHANGED <<secret, call, pairs, calls, newest>>
           /\ admin[a].pc = "save" /\ admin'[a] = NoRequest
           /\ IF admin[a].device THEN UNCHANGED <<authentication, noted>>
              ELSE /\ authentication'.pair = admin[a].next.pair /\ authentication'.state = "described"
                   /\ authentication'.owner = 0 /\ ~authentication'.lapsed
                   /\ authentication.owner # 0 => "freed" \in noted'
                   /\ secret.stamp # admin[a].next.stamp => "late" \in noted'
           /\ noted \subseteq noted' /\ noted' \subseteq noted \cup {"freed", "late"}
BY DEF SaveEnvironment, Typed, SecretTypeOK

-----------------------------------------------------------------------------
(* What was read is what is stored while nobody has written: credentials   *)
(* are not brought back.                                                   *)

LEMMA VersionsFollow ==
    ASSUME Typed, ReadsAreVersions, CredentialsKept, NEW c \in Callers, Begin(c) \/ CallerStep(c) \/ Crash(c)
    PROVE  ReadsAreVersions' /\ CredentialsKept'
<1>1. /\ \A d \in Callers : d # c => call'[d] = call[d]
      /\ \A d \in Callers : call[d].rec.stamp \in Nat
      /\ \A a \in Admins : admin[a].next.stamp \in Nat
      /\ secret.stamp \in Nat
  BY OneCaller, CallersTyped, AdminsTyped DEF SecretRecord
<1>2. CASE Store(c) /\ secret.stamp = call[c].rec.stamp
  BY <1>2, Stores, CallsFollow, <1>1 DEF KeepsRead, ReadsAreVersions, CredentialsKept
<1>3. ASSUME UNCHANGED <<secret, admin, newest>>, noted \subseteq noted',
             call'[c].rec \in {secret, call[c].rec, NoRecord},
             call'[c].pc = "store" => call'[c].next.stamp = call'[c].rec.stamp /\ call'[c].next.root = call'[c].rec.root
      PROVE  ReadsAreVersions' /\ CredentialsKept'
  BY <1>3, <1>1 DEF NoRecord, CredentialsKept, ReadsAreVersions
<1>4. noted \subseteq noted'
  BY CallsFollow
<1>5. CASE Begin(c) \/ Look(c) \/ TakeLease(c) \/ WaitForSecretChange(c) \/ Load(c)
  BY <1>3, <1>4, <1>5, Begins, Looks, TakesLease, Waits, Loads DEF Calm, Answers, GoesOn, KeepsRead, NoCall
<1>6. CASE Exchange(c)
  BY <1>3, <1>4, <1>6, Exchanges DEF Calm, KeepsRead
<1>7. CASE Store(c) /\ secret.stamp # call[c].rec.stamp
  BY <1>3, <1>4, <1>7, Stores DEF KeepsRead
<1>8. CASE Record(c) \/ Raced(c) \/ Observe(c) \/ Fail(c) \/ Operate(c) \/ Crash(c)
  BY <1>3, <1>4, <1>8, Records, Races, Observes, Fails, Operates, Crashes DEF Calm, Answers, KeepsRead, NoCall
<1> QED BY <1>2, <1>5, <1>6, <1>7, <1>8 DEF CallerStep

LEMMA VersionsStand ==
    ASSUME Typed, ReadsAreVersions, CredentialsKept, NEW a \in Admins, ReadSecret(a) \/ AdminStep(a)
    PROVE  ReadsAreVersions' /\ CredentialsKept'
<1>1. /\ \A b \in Admins : b # a => admin'[b] = admin[b]
      /\ \A d \in Callers : call[d].rec.stamp \in Nat
      /\ \A b \in Admins : admin[b].next.stamp \in Nat
      /\ secret.stamp \in Nat /\ newest \in Nat
  BY OneRequest, CallersTyped, AdminsTyped DEF SecretRecord
<1>2. CASE ReadSecret(a)
  BY <1>2, ReadsSecret, <1>1 DEF ReadsAreVersions, CredentialsKept
<1>3. CASE WriteSecret(a)
  <2>1. /\ call' = call /\ secret'.stamp = secret.stamp + 1 /\ admin'[a].next = secret' /\ noted \subseteq noted'
        /\ admin'[a].device = admin[a].device
    BY <1>3, WritesSecret
  <2>2. CredentialsKept'
    <3>1. CASE admin[a].device /\ admin[a].next.stamp = secret.stamp
      BY <1>3, <3>1, WritesSecret, <2>1 DEF ReadsAreVersions, CredentialsKept
    <3>2. CASE admin[a].device /\ admin[a].next.stamp # secret.stamp
      BY <1>3, <3>2, WritesSecret DEF CredentialsKept
    <3>3. CASE ~admin[a].device
      BY <1>3, <3>3, WritesSecret DEF CredentialsKept
    <3> QED BY <3>1, <3>2, <3>3
  <2>3. \A d \in Callers : call'[d].rec.stamp < secret'.stamp
    BY <1>1, <2>1 DEF ReadsAreVersions
  <2>4. \A b \in Admins : b # a => admin'[b].next.stamp < secret'.stamp
    BY <1>1, <2>1 DEF ReadsAreVersions
  <2>5. secret'.stamp \in Nat \ {0}
    BY <1>1, <2>1
  <2> QED BY <1>1, <2>1, <2>2, <2>3, <2>4, <2>5 DEF ReadsAreVersions
<1>4. CASE SaveEnvironment(a)
  BY <1>4, Saves, <1>1 DEF NoRequest, NoRecord, ReadsAreVersions, CredentialsKept
<1> QED BY <1>2, <1>3, <1>4 DEF AdminStep

-----------------------------------------------------------------------------
(* Pairs: one that is not stored yet is new to everybody.                  *)

\* The pairs a caller's step shows: what it has read, what it used, what was
\* rejected, what is stored and what is to be stored.
LEMMA PairsShown ==
    ASSUME Typed, NEW c \in Callers, Begin(c) \/ CallerStep(c) \/ Crash(c)
    PROVE  /\ admin' = admin
           /\ call'[c].rec.pair \in {0, secret.pair, call[c].rec.pair}
           /\ \/ call'[c].token \in {0, secret.pair, call[c].token, call[c].rec.pair}
              \/ call[c].pc = "record" /\ call'[c].token = call[c].next.pair
           /\ call'[c].rejected \in {0, call[c].rejected, call[c].token}
           /\ \/ UNCHANGED secret
              \/ /\ CallerPending(c) /\ call'[c].pc = "record"
                 /\ secret'.pair = call[c].next.pair /\ secret'.stamp = secret.stamp + 1
           /\ \/ CallerPending(c)' /\ call[c].pc = "exchange" /\ call'[c].next.pair = Issued /\ pairs' = Issued
              \/ ~CallerPending(c)' /\ pairs' = pairs /\ call'[c].next.pair \in {0, call[c].next.pair}
           /\ call'[c].pc = "record" => CallerPending(c) /\ call'[c].next = call[c].next /\ secret'.pair = call[c].next.pair
<1>1. /\ NoCall.pc = "idle" /\ NoCall.rec.pair = 0 /\ NoCall.next.pair = 0 /\ NoCall.token = 0 /\ NoCall.rejected = 0
      /\ NoRecord.pair = 0
  BY DEF NoCall, NoRecord
<1>2. CASE Begin(c)
  BY <1>1, <1>2, Begins DEF CallerPending, Calm
<1>3. CASE Look(c)
  BY <1>1, <1>3, Looks DEF CallerPending, Calm, Answers, GoesOn, KeepsRead
<1>4. CASE TakeLease(c)
  BY <1>1, <1>4, TakesLease DEF CallerPending, Calm, GoesOn, KeepsRead
<1>5. CASE WaitForSecretChange(c)
  BY <1>1, <1>5, Waits DEF CallerPending, Calm, Answers, GoesOn, KeepsRead
<1>6. CASE Load(c)
  BY <1>1, <1>6, Loads DEF CallerPending, Calm, GoesOn
<1>7. CASE Exchange(c)
  BY <1>1, <1>7, Exchanges DEF CallerPending, Calm, GoesOn, KeepsRead
<1>8. CASE Store(c)
  BY <1>1, <1>8, Stores DEF CallerPending, GoesOn, KeepsRead
<1>9. CASE Record(c)
  BY <1>1, <1>9, Records DEF CallerPending, Calm, Answers, GoesOn, KeepsRead
<1>10. CASE Raced(c)
  BY <1>1, <1>10, Races DEF CallerPending, Calm, GoesOn
<1>11. CASE Observe(c)
  BY <1>1, <1>11, Observes DEF CallerPending, Calm, Answers, GoesOn, KeepsRead
<1>12. CASE Fail(c)
  BY <1>1, <1>12, Fails DEF CallerPending, Calm, Answers, GoesOn, KeepsRead
<1>13. CASE Operate(c)
  BY <1>1, <1>13, Operates DEF CallerPending, Calm
<1>14. CASE Crash(c)
  BY <1>1, <1>14, Crashes DEF CallerPending, Calm
<1> QED BY <1>2, <1>3, <1>4, <1>5, <1>6, <1>7, <1>8, <1>9, <1>10, <1>11, <1>12, <1>13, <1>14 DEF CallerStep

LEMMA PairsFollow ==
    ASSUME Typed, PairsAreIssued, PendingIsNew, NEW c \in Callers, Begin(c) \/ CallerStep(c) \/ Crash(c)
    PROVE  PairsAreIssued' /\ PendingIsNew'
<1>1. /\ \A d \in Callers : d # c => call'[d] = call[d]
      /\ \A d \in Callers : call[d].rec.pair \in Nat /\ call[d].next.pair \in Nat /\ call[d].token \in Nat /\ call[d].rejected \in Nat
      /\ \A a \in Admins : admin[a].next.pair \in Nat
      /\ secret.pair \in Nat /\ pairs \in Nat
  BY OneCaller, CallersTyped, AdminsTyped DEF SecretRecord
<1>2. admin' = admin
  BY PairsShown
<1>3. PairsAreIssued'
  <2>1. pairs' \in {pairs, pairs + 1} /\ secret'.pair \in 1..pairs'
    BY <1>1, PairsShown DEF PendingIsNew, NewTo, PairsAreIssued, Issued
  <2>2. call'[c].rec.pair <= pairs' /\ call'[c].next.pair <= pairs' /\ call'[c].token <= pairs' /\ call'[c].rejected <= pairs'
    BY <1>1, PairsShown DEF PairsAreIssued, Issued
  <2>3. \A d \in Callers : d # c =>
            call'[d].rec.pair <= pairs' /\ call'[d].next.pair <= pairs' /\ call'[d].token <= pairs' /\ call'[d].rejected <= pairs'
    BY <1>1, <2>1 DEF PairsAreIssued
  <2>4. \A a \in Admins : admin'[a].next.pair <= pairs' /\ (admin'[a].pc = "write" => admin'[a].next.pair # 0)
    BY <1>1, <1>2, <2>1 DEF PairsAreIssued
  <2> QED BY <2>1, <2>2, <2>3, <2>4 DEF PairsAreIssued
<1>4. ASSUME NEW p, NewTo(p), CallerPending(c) => call[c].next.pair # p
      PROVE  NewTo(p)'
  BY <1>4, PairsShown, <1>1, <1>2 DEF NewTo
\* Whoever had a pair pending and still has.
<1>5. ASSUME NEW d \in Callers, d # c, CallerPending(d)'
      PROVE  CallerPending(d) /\ call'[d].next.pair = call[d].next.pair /\ NewTo(call[d].next.pair)'
  BY <1>1, <1>5, <1>4 DEF CallerPending, PendingIsNew
<1>6. \A a \in Admins : AdminPending(a)' =>
          AdminPending(a) /\ admin'[a].next.pair = admin[a].next.pair /\ NewTo(admin[a].next.pair)'
  <2> SUFFICES ASSUME NEW a \in Admins, AdminPending(a)'
               PROVE  AdminPending(a) /\ admin'[a].next.pair = admin[a].next.pair /\ NewTo(admin[a].next.pair)'
    OBVIOUS
  <2>1. AdminPending(a)
    BY <1>2 DEF AdminPending
  <2>2. PICK q : q = admin[a].next.pair
    OBVIOUS
  <2>3. NewTo(q) /\ (CallerPending(c) => call[c].next.pair # q)
    BY <2>1, <2>2 DEF PendingIsNew
  <2>4. NewTo(q)'
    BY <1>4, <2>3
  <2> QED BY <1>2, <2>1, <2>2, <2>4
<1>7. CASE CallerPending(c)' /\ call[c].pc = "exchange" /\ call'[c].next.pair = Issued /\ pairs' = Issued
  <2>1. ~CallerPending(c)
    BY <1>7 DEF CallerPending
  <2>2. NewTo(Issued)
    BY <1>1 DEF NewTo, PairsAreIssued, Issued
  <2>3. PICK q : q = Issued
    OBVIOUS
  <2>4. NewTo(q)'
    BY <1>4, <2>1, <2>2, <2>3
  <2>5. NewTo(call[c].next.pair)'
    BY <1>7, <2>3, <2>4
  <2>6. /\ \A d \in Callers : d # c => call'[d].next.pair # call'[c].next.pair
        /\ \A a \in Admins : admin'[a].next.pair # call'[c].next.pair
    BY <1>1, <1>2, <1>7 DEF PairsAreIssued, Issued
  <2>7. \A d \in Callers : CallerPending(d)' => NewTo(call[d].next.pair)'
    BY <1>5, <2>5
  <2> QED BY <1>3, <1>5, <1>6, <2>6, <2>7 DEF PendingIsNew
<1>8. CASE ~CallerPending(c)'
  BY <1>8, <1>5, <1>6, <1>3 DEF PendingIsNew
<1> QED BY <1>3, <1>7, <1>8, PairsShown

\* The pairs of an administrator's step.
LEMMA PairsStored ==
    ASSUME Typed, NEW a \in Admins, ReadSecret(a) \/ AdminStep(a)
    PROVE  /\ call' = call
           /\ \/ /\ UNCHANGED secret
                 /\ \/ /\ admin'[a].next.pair = 0 /\ pairs' = pairs
                       /\ ~admin'[a].device /\ ~AdminPending(a)' /\ admin'[a].pc = "idle"
                    \/ /\ admin'[a].next.pair = secret.pair /\ pairs' = pairs
                       /\ admin'[a].device
                    \/ /\ admin'[a].next.pair = Issued /\ pairs' = Issued
                       /\ ~admin'[a].device /\ AdminPending(a)' /\ admin[a].pc = "idle"
              \/ /\ admin[a].pc = "write" /\ admin'[a].pc = "save" /\ ~AdminPending(a)' /\ admin'[a].next.pair = admin[a].next.pair
                 /\ secret'.pair = admin[a].next.pair /\ pairs' = pairs
                 /\ admin'[a].device = admin[a].device
                 /\ admin[a].device => "device" \in noted'
           /\ noted \subseteq noted'
BY ReadsSecret, WritesSecret, Saves DEF NoRequest, NoRecord, AdminPending, AdminStep

LEMMA PairsStand ==
    ASSUME Typed, PairsAreIssued, PendingIsNew, NEW a \in Admins, ReadSecret(a) \/ AdminStep(a)
    PROVE  PairsAreIssued' /\ PendingIsNew'
<1>1. /\ \A d \in Callers : call[d].rec.pair \in Nat /\ call[d].next.pair \in Nat /\ call[d].token \in Nat /\ call[d].rejected \in Nat
      /\ \A b \in Admins : admin[b].next.pair \in Nat
      /\ secret.pair \in Nat /\ pairs \in Nat
  BY CallersTyped, AdminsTyped DEF SecretRecord, Typed, NumbersTyped
<1>2. call' = call /\ \A b \in Admins : b # a => admin'[b] = admin[b]
  BY PairsStored, OneRequest
<1>3. PairsAreIssued'
  BY <1>1, PairsStored, <1>2 DEF PairsAreIssued, Issued
\* A pair stays new unless it is what the request was to store.
<1>4. ASSUME NEW p, NewTo(p), AdminPending(a) => admin[a].next.pair # p
      PROVE  NewTo(p)'
  <2>1. secret'.pair # p /\ (admin'[a].device => admin'[a].next.pair # p)
    BY <1>4, PairsStored DEF AdminPending, NewTo
  <2> QED BY <1>2, <1>4, <2>1 DEF NewTo
<1>5. \A d \in Callers : CallerPending(d)' =>
          CallerPending(d) /\ call'[d].next.pair = call[d].next.pair /\ NewTo(call[d].next.pair)'
  <2> SUFFICES ASSUME NEW d \in Callers, CallerPending(d)'
               PROVE  CallerPending(d) /\ call'[d].next.pair = call[d].next.pair /\ NewTo(call[d].next.pair)'
    OBVIOUS
  <2>1. CallerPending(d)
    BY <1>2 DEF CallerPending
  <2>2. PICK q : q = call[d].next.pair
    OBVIOUS
  <2>3. NewTo(q) /\ (AdminPending(a) => admin[a].next.pair # q)
    BY <2>1, <2>2 DEF PendingIsNew
  <2>4. NewTo(q)'
    BY <1>4, <2>3
  <2> QED BY <1>2, <2>1, <2>2, <2>4
<1>6. \A b \in Admins : b # a /\ AdminPending(b)' =>
          AdminPending(b) /\ admin'[b].next.pair = admin[b].next.pair /\ NewTo(admin[b].next.pair)'
  <2> SUFFICES ASSUME NEW b \in Admins, b # a, AdminPending(b)'
               PROVE  AdminPending(b) /\ admin'[b].next.pair = admin[b].next.pair /\ NewTo(admin[b].next.pair)'
    OBVIOUS
  <2>1. AdminPending(b)
    BY <1>2 DEF AdminPending
  <2>2. PICK q : q = admin[b].next.pair
    OBVIOUS
  <2>3. NewTo(q) /\ (AdminPending(a) => admin[a].next.pair # q)
    BY <2>1, <2>2 DEF PendingIsNew
  <2>4. NewTo(q)'
    BY <1>4, <2>3
  <2> QED BY <1>2, <2>1, <2>2, <2>4
<1>7. CASE AdminPending(a)' /\ admin[a].pc = "idle" /\ admin'[a].next.pair = Issued /\ pairs' = Issued
  <2>1. ~AdminPending(a)
    BY <1>7 DEF AdminPending
  <2>2. NewTo(Issued)
    BY <1>1 DEF PairsAreIssued, Issued, NewTo
  <2>3. PICK q : q = Issued
    OBVIOUS
  <2>4. NewTo(q)'
    BY <1>4, <2>1, <2>2, <2>3
  <2>5. NewTo(admin[a].next.pair)'
    BY <1>7, <2>3, <2>4
  <2>6. /\ \A b \in Admins : b # a => admin'[b].next.pair # admin'[a].next.pair
        /\ \A d \in Callers : call'[d].next.pair # admin'[a].next.pair
    BY <1>1, <1>2, <1>7 DEF PairsAreIssued, Issued
  <2>7. \A b \in Admins : AdminPending(b)' => NewTo(admin[b].next.pair)'
    BY <1>6, <2>5
  <2>8. \A b, e \in Admins : AdminPending(b)' /\ AdminPending(e)' /\ admin'[b].next.pair = admin'[e].next.pair => b = e
    BY <1>6, <2>6 DEF PendingIsNew
  <2>9. \A d \in Callers, b \in Admins : CallerPending(d)' /\ AdminPending(b)' => call'[d].next.pair # admin'[b].next.pair
    BY <1>5, <1>6, <2>6 DEF PendingIsNew
  <2> QED BY <1>2, <1>3, <1>5, <2>7, <2>8, <2>9 DEF PendingIsNew, CallerPending
<1>8. CASE ~AdminPending(a)'
  BY <1>8, <1>6, <1>5, <1>2, <1>3 DEF PendingIsNew, CallerPending
<1> QED BY <1>3, <1>7, <1>8, PairsStored DEF AdminPending

-----------------------------------------------------------------------------
(* A forced call is answered with another token than the rejected one.     *)

\* A call that keeps what it read has read it now, or had it.
LEMMA ReadsKept ==
    ASSUME Typed, NEW c \in Callers, Begin(c) \/ CallerStep(c) \/ Crash(c)
    PROVE  Kept(c)' => (call'[c].rec = secret /\ UNCHANGED secret) \/ (call'[c].rec = call[c].rec /\ Kept(c))
<1>1. NoCall.pc = "idle"
  BY DEF NoCall
<1>2. CASE Begin(c) \/ Look(c) \/ TakeLease(c) \/ WaitForSecretChange(c)
  BY <1>1, <1>2, Begins, Looks, TakesLease, Waits DEF Kept, Calm, Answers, KeepsRead, Holding
<1>3. CASE Load(c) \/ Raced(c)
  BY <1>3, Loads, Races DEF Calm
<1>4. CASE Exchange(c) \/ Store(c)
  BY <1>4, Exchanges, Stores DEF Kept, KeepsRead, Holding
<1>5. CASE Record(c) \/ Observe(c) \/ Fail(c) \/ Operate(c) \/ Crash(c)
  BY <1>1, <1>5, Records, Observes, Fails, Operates, Crashes DEF Kept, Answers, Holding
<1> QED BY <1>2, <1>3, <1>4, <1>5 DEF CallerStep

LEMMA ReplacedStaysGone ==
    ASSUME Typed, ReadsAreVersions, PendingIsNew, ReplacedIsGone,
           NEW c \in Callers, Begin(c) \/ CallerStep(c) \/ Crash(c)
    PROVE  ReplacedIsGone'
<1>1. /\ \A d \in Callers : d # c => call'[d] = call[d]
      /\ noted \subseteq noted'
  BY OneCaller, CallsFollow
<1>2. SUFFICES ASSUME "device" \notin noted, NEW d \in Callers, Kept(d)', call'[d].rec.stamp # secret'.stamp
               PROVE  call'[d].rec.pair # secret'.pair
  BY <1>1 DEF ReplacedIsGone
<1>3. (call'[d].rec = secret /\ UNCHANGED secret) \/ (call'[d].rec = call[d].rec /\ Kept(d))
  BY <1>1, <1>2, ReadsKept DEF Kept
<1>4. CASE UNCHANGED secret
  BY <1>2, <1>3, <1>4 DEF ReplacedIsGone
<1>5. CASE CallerPending(c) /\ secret'.pair = call[c].next.pair /\ ~UNCHANGED secret
  BY <1>3, <1>5 DEF PendingIsNew, NewTo
<1> QED BY <1>4, <1>5, PairsShown

LEMMA ReplacedAreGone ==
    ASSUME Typed, ReadsAreVersions, PendingIsNew, ReplacedIsGone, NEW a \in Admins, ReadSecret(a) \/ AdminStep(a)
    PROVE  ReplacedIsGone'
<1>1. call' = call /\ noted \subseteq noted'
  BY PairsStored
<1>2. CASE UNCHANGED secret
  BY <1>1, <1>2 DEF ReplacedIsGone, Kept
<1>3. CASE admin[a].pc = "write" /\ secret'.pair = admin[a].next.pair /\ (admin[a].device => "device" \in noted')
  BY <1>3, <1>1 DEF ReplacedIsGone, PendingIsNew, AdminPending, NewTo
<1> QED BY <1>2, <1>3, PairsStored

\* What is known of one forced call, and of its answer.
ForcedCall(c) ==
    call[c].forced =>
        /\ Kept(c) => call[c].hurry
        /\ call[c].pc \in {"lease", "wait", "exchange", "store", "raced"} => call[c].rec.pair = call[c].rejected
        /\ call[c].pc = "raced" => call[c].rec.stamp # secret.stamp
        /\ call[c].pc = "record" => call[c].next.pair # call[c].rejected
        /\ call[c].pc = "observe" /\ "device" \notin noted => call[c].rec.pair # call[c].rejected

FreshRetry(c) ==
    call[c].pc = "operate" /\ call[c].forced /\ "device" \notin noted => call[c].token # call[c].rejected

LEMMA ForcedCallGoesOn ==
    ASSUME Typed, PendingIsNew, ReplacedIsGone, NEW c \in Callers, ForcedCall(c), Begin(c) \/ CallerStep(c) \/ Crash(c)
    PROVE  ForcedCall(c)' /\ FreshRetry(c)'
<1>1. NoCall.pc = "idle" /\ ~NoCall.forced
  BY DEF NoCall
<1>2. noted \subseteq noted'
  BY CallsFollow
<1>3. CASE Begin(c)
  BY <1>3, Begins DEF ForcedCall, FreshRetry
<1>4. CASE Look(c)
  BY <1>1, <1>4, Looks DEF ForcedCall, FreshRetry, Answers, GoesOn, Kept, Holding
<1>5. CASE TakeLease(c)
  BY <1>5, TakesLease DEF ForcedCall, FreshRetry, GoesOn, KeepsRead, Kept, Holding
<1>6. CASE WaitForSecretChange(c)
  BY <1>1, <1>2, <1>6, Waits DEF ForcedCall, FreshRetry, Answers, GoesOn, KeepsRead, Kept, Holding, ReplacedIsGone
<1>7. CASE Load(c)
  BY <1>7, Loads DEF ForcedCall, FreshRetry, GoesOn, Kept, Holding
<1>8. CASE Exchange(c)
  BY <1>8, Exchanges DEF ForcedCall, FreshRetry, GoesOn, KeepsRead, Kept, Holding
<1>9. CASE Store(c)
  <2>1. call[c].pc = "store" /\ call[c].next.pair # call[c].rejected
    BY <1>9, Stores DEF PendingIsNew, NewTo, CallerPending
  <2> QED BY <1>9, <2>1, Stores DEF ForcedCall, FreshRetry, GoesOn, KeepsRead, Kept, Holding
<1>10. CASE Record(c)
  BY <1>2, <1>10, Records DEF ForcedCall, FreshRetry, Answers, GoesOn, KeepsRead, Kept, Holding
<1>11. CASE Raced(c)
  BY <1>2, <1>11, Races DEF ForcedCall, FreshRetry, GoesOn, Calm, Kept, Holding, ReplacedIsGone
<1>12. CASE Observe(c)
  BY <1>2, <1>12, Observes DEF ForcedCall, FreshRetry, Answers, GoesOn, KeepsRead, Kept, Holding
<1>13. CASE Fail(c)
  BY <1>1, <1>13, Fails DEF ForcedCall, FreshRetry, Answers, GoesOn, KeepsRead, Kept, Holding
<1>14. CASE Operate(c)
  BY <1>1, <1>14, Operates DEF ForcedCall, FreshRetry, Kept, Holding
<1>15. CASE Crash(c)
  BY <1>1, <1>15, Crashes DEF ForcedCall, FreshRetry
<1> QED BY <1>3, <1>4, <1>5, <1>6, <1>7, <1>8, <1>9, <1>10, <1>11, <1>12, <1>13, <1>14, <1>15 DEF CallerStep

\* Other steps leave it alone: they can only write the secret.
LEMMA ForcedCallStays ==
    ASSUME Typed, ReadsAreVersions, NEW d \in Callers, ForcedCall(d), FreshRetry(d), call'[d] = call[d],
           noted \subseteq noted', secret' = secret \/ secret'.stamp = secret.stamp + 1
    PROVE  ForcedCall(d)' /\ FreshRetry(d)'
BY CallersTyped DEF SecretRecord, ReadsAreVersions, ForcedCall, FreshRetry, Kept

ForcedPart == ForcedCalls /\ RetryIsFresh

LEMMA ForcedEach == ForcedPart <=> \A c \in Callers : ForcedCall(c) /\ FreshRetry(c)
BY DEF ForcedPart, ForcedCalls, RetryIsFresh, ForcedCall, FreshRetry

LEMMA ForcedFollow ==
    ASSUME Typed, ReadsAreVersions, PendingIsNew, ReplacedIsGone, ForcedPart,
           NEW c \in Callers, Begin(c) \/ CallerStep(c) \/ Crash(c)
    PROVE  ForcedPart'
<1>1. \A d \in Callers : ForcedCall(d) /\ FreshRetry(d)
  BY ForcedEach
<1>2. ForcedCall(c)' /\ FreshRetry(c)'
  BY <1>1, ForcedCallGoesOn
<1>3. ASSUME NEW d \in Callers, d # c
      PROVE  ForcedCall(d)' /\ FreshRetry(d)'
  BY <1>3, OneCaller, CallsFollow, PairsShown, <1>1, ForcedCallStays
<1>4. \A d \in Callers : ForcedCall(d)' /\ FreshRetry(d)'
  BY <1>2, <1>3
<1> QED BY <1>4 DEF ForcedPart, ForcedCalls, RetryIsFresh, ForcedCall, FreshRetry

LEMMA ForcedStand ==
    ASSUME Typed, ReadsAreVersions, ForcedPart, NEW a \in Admins, ReadSecret(a) \/ AdminStep(a)
    PROVE  ForcedPart'
<1>1. \A d \in Callers : ForcedCall(d) /\ FreshRetry(d)
  BY ForcedEach
<1>2. call' = call /\ noted \subseteq noted'
  BY PairsStored
<1>3. secret' = secret \/ secret'.stamp = secret.stamp + 1
  BY ReadsSecret, WritesSecret, Saves DEF AdminStep
<1>4. \A d \in Callers : ForcedCall(d)' /\ FreshRetry(d)'
  BY <1>1, <1>2, <1>3, ForcedCallStays
<1> QED BY <1>4 DEF ForcedPart, ForcedCalls, RetryIsFresh, ForcedCall, FreshRetry

-----------------------------------------------------------------------------
(* The description follows the secret.                                     *)

LEMMA NumberedCalls ==
    ASSUME CallsAreNumbered
    PROVE  /\ \A c \in Callers : Busy(c) => call[c].id # 0
           /\ \A c, d \in Callers : Busy(c) /\ Busy(d) /\ Owns(c) /\ Owns(d) => c = d
BY DEF CallsAreNumbered, Owns

LEMMA DescriptionGoesOn ==
    ASSUME Typed, CallsAreNumbered, CallsAreNumbered', DescribedWell, NEW c \in Callers, Begin(c) \/ CallerStep(c) \/ Crash(c),
           "late" \notin noted'
    PROVE  DescribedWell'
<1>1. /\ \A d \in Callers : d # c => call'[d] = call[d]
      /\ admin' = admin /\ (Describing' <=> Describing)
  BY OneCaller, PairsShown DEF Describing
<1>2. \A d \in Callers : call[d].pc \in {"record", "observe", "fail", "lease", "store"} => Busy(d) /\ call[d].id # 0
  BY NumberedCalls DEF Busy
<1>3. \A d \in Callers : d # c /\ call[d].pc \in {"record", "observe"} /\ Busy(c) /\ Owns(d) => ~Owns(c)
  BY <1>2, NumberedCalls
<1>4. CASE TakeLease(c)
  <2>1. CASE LeaseFree
    <3>1. /\ authentication'.owner = call[c].id /\ authentication'.state = "refreshing" /\ UNCHANGED secret
          /\ call[c].pc = "lease" /\ call'[c].pc = "load"
      BY <1>4, <2>1, TakesLease DEF Calm
    <3>2. \A d \in Callers : d # c /\ call[d].pc \in {"record", "observe"} => call[d].id # call[c].id
      BY <1>2, <3>1 DEF CallsAreNumbered
    <3> QED BY <1>1, <3>1, <3>2 DEF DescribedWell, Owns
  <2>2. CASE ~LeaseFree
    BY <1>1, <1>4, <2>2, TakesLease DEF DescribedWell, Owns, Calm
  <2> QED BY <2>1, <2>2
<1>5. CASE Store(c) /\ call'[c].pc = "record"
  <2>1. Owns(c) /\ call[c].pc = "store"
    BY <1>5, CallsFollow, Stores
  <2>2. authentication.owner # 0 /\ \A d \in Callers : d # c /\ call[d].pc \in {"record", "observe"} => ~Owns(d)
    BY <1>2, <1>3, <2>1 DEF Owns
  <2>3. UNCHANGED authentication /\ call'[c].next = call[c].next /\ secret'.pair = call[c].next.pair
    BY <1>5, Stores
  <2> QED BY <1>1, <1>5, <2>2, <2>3 DEF DescribedWell, Owns
<1>6. CASE Record(c) \/ Observe(c) \/ Fail(c)
  <2>1. /\ UNCHANGED secret /\ call[c].pc \in {"record", "observe", "fail"} /\ call'[c].pc \notin {"record", "observe"}
    BY <1>6, Records, Observes, Fails DEF Calm, Answers, NoCall
  <2>2. CASE ~Owns(c)
    <3>1. UNCHANGED authentication
      BY <1>6, <2>2, Records, Observes, Fails DEF Says
    <3> QED BY <1>1, <2>1, <3>1 DEF DescribedWell, Owns
  <2>3. CASE Owns(c)
    <3>1. /\ authentication'.owner = 0
          /\ authentication'.state = "described" => authentication'.pair = secret.pair \/ Describing
      BY <1>6, <2>3, Records, Observes, Fails DEF Says, DescribedWell
    <3>2. \A d \in Callers : d # c /\ call[d].pc \in {"record", "observe"} => call[d].id # 0
      BY <1>2
    <3> QED BY <1>1, <2>1, <3>1, <3>2 DEF DescribedWell, Owns
  <2> QED BY <2>2, <2>3
<1>7. CASE /\ ~TakeLease(c) /\ ~Record(c) /\ ~Observe(c) /\ ~Fail(c)
           /\ ~(Store(c) /\ call'[c].pc = "record")
  <2>1. UNCHANGED authentication
    BY <1>7, Begins, Looks, Waits, Loads, Exchanges, Stores, Races, Operates, Crashes DEF CallerStep
  <2>2. UNCHANGED secret /\ call'[c].pc # "record"
    <3>1. call'[c].pc = "record" => call[c].pc = "store"
      BY PairsShown DEF CallerPending
    <3>2. call'[c].pc = "record" => ~Crash(c)
      BY Crashes DEF NoCall
    <3>3. call'[c].pc = "record" => Store(c)
      BY <1>7, <3>1, <3>2, Begins, Looks, Waits, Loads, Exchanges, Races, Operates DEF CallerStep
    <3> QED BY <1>7, <3>3, PairsShown
  <2>3. call'[c].pc = "observe" => call'[c].rec = secret
    BY <1>7, Begins, Looks, Waits, Loads, Exchanges, Stores, Races, Operates, Crashes DEF CallerStep, Answers, NoCall
  <2> QED BY <1>1, <2>1, <2>2, <2>3 DEF DescribedWell, Owns
<1> QED BY <1>4, <1>5, <1>6, <1>7

LEMMA DescriptionStands ==
    ASSUME Typed, ReadsAreVersions, CallsAreNumbered, DescribedWell, NEW a \in Admins, ReadSecret(a) \/ AdminStep(a),
           noted' \cap {"undone", "overlap", "late"} = {}
    PROVE  DescribedWell'
<1>1. /\ \A b \in Admins : b # a => admin'[b] = admin[b]
      /\ call' = call
  BY OneRequest, PairsStored
<1>2. CASE ReadSecret(a)
  BY <1>2, ReadsSecret, <1>1 DEF Describing, DescribedWell, Owns
<1>3. CASE AdminStep(a)
  <2>1. admin[a].pc # "idle" /\ \A b \in Admins : b # a => admin[b].pc = "idle"
    BY <1>3, WritesSecret, Saves DEF AdminStep, DescribedWell
  <2>2. \A b \in Admins : b # a => admin'[b].pc = "idle"
    BY <1>1, <2>1
  <2>3. CASE WriteSecret(a) /\ admin[a].device
    <3>1. secret'.pair = secret.pair
      BY <2>3, WritesSecret DEF ReadsAreVersions
    <3>2. UNCHANGED authentication /\ ~Describing
      BY <2>1, <2>3, WritesSecret DEF Describing
    <3> QED BY <1>1, <2>2, <3>1, <3>2 DEF DescribedWell, Owns
  <2>4. CASE WriteSecret(a) /\ ~admin[a].device
    BY <2>4, WritesSecret, <1>1, <2>2 DEF Describing, DescribedWell, Owns
  <2>5. CASE SaveEnvironment(a) /\ admin[a].device
    <3>1. UNCHANGED <<authentication, secret>> /\ ~Describing
      BY <2>1, <2>5, Saves DEF Describing
    <3> QED BY <1>1, <2>2, <3>1 DEF DescribedWell, Owns
  <2>6. CASE SaveEnvironment(a) /\ ~admin[a].device
    <3>1. /\ UNCHANGED secret /\ admin[a].pc = "save" /\ secret.stamp = admin[a].next.stamp
          /\ authentication'.pair = admin[a].next.pair /\ authentication'.owner = 0
      BY <2>6, Saves
    <3>2. authentication'.pair = secret'.pair
      BY <3>1 DEF ReadsAreVersions
    <3>3. \A d \in Callers : call[d].pc \in {"record", "observe"} => call[d].id # 0
      BY NumberedCalls DEF Busy
    <3> QED BY <1>1, <2>2, <3>1, <3>2, <3>3 DEF DescribedWell, Owns
  <2> QED BY <1>3, <2>3, <2>4, <2>5, <2>6 DEF AdminStep
<1> QED BY <1>2, <1>3

LEMMA DescriptionIsRight ==
    ASSUME DescriptionFollows
    PROVE  DescriptionAgrees
BY DEF DescriptionFollows, DescribedWell, Excused, Describing, DescriptionAgrees

-----------------------------------------------------------------------------
(* All of it.                                                              *)

LEMMA SecretsBegin == SecretInit => SecretsIInv
<1> SUFFICES ASSUME SecretInit PROVE SecretsIInv
  OBVIOUS
<1> USE DEF SecretInit, NoCall, NoRequest, NoRecord
<1>1. SecretTypeOK /\ NumbersTyped
  BY DEF SecretTypeOK, NumbersTyped, SecretRecord, Holding
<1>2. ReadsAreVersions /\ CallsAreNumbered /\ LeaseIsHeld /\ PairsAreIssued
  BY DEF ReadsAreVersions, CallsAreNumbered, LeaseIsHeld, PairsAreIssued, Busy, Holding
<1>3. PendingIsNew /\ ReplacedIsGone /\ ForcedCalls /\ DescriptionFollows
  BY DEF PendingIsNew, CallerPending, AdminPending, ReplacedIsGone, Kept, ForcedCalls, DescriptionFollows, DescribedWell, Holding
<1>4. CredentialsKept /\ OneRefresh /\ RetryIsFresh /\ DescriptionAgrees
  BY DEF CredentialsKept, OneRefresh, RetryIsFresh, DescriptionAgrees, Holding
<1> QED BY <1>1, <1>2, <1>3, <1>4 DEF SecretsIInv, SecretsInv

\* What the parts of the invariant are proved from.
Rest == ReadsAreVersions /\ CallsAreNumbered /\ LeaseIsHeld /\ PairsAreIssued /\ PendingIsNew /\ ReplacedIsGone
        /\ ForcedPart /\ DescriptionFollows /\ CredentialsKept

LEMMA SecretsGoOn == SecretsIInv /\ [SecretNext]_secretVars => SecretsIInv'
<1> SUFFICES ASSUME SecretsIInv, [SecretNext]_secretVars PROVE SecretsIInv'
  OBVIOUS
<1>1. Typed /\ Rest
  BY DEF SecretsIInv, SecretsInv, Typed, Rest, ForcedPart, PairsAreIssued
<1>2. SecretTypeOK' /\ NumbersTyped'
  BY <1>1, SecretsTyped
<1>3. Rest'
  <2> USE DEF Rest
  <2>1. ASSUME NEW c \in Callers, Begin(c) \/ CallerStep(c) \/ Crash(c)
        PROVE  Rest'
    <3>1. CallsAreNumbered' /\ LeaseIsHeld'
      BY <1>1, <2>1, NumbersFollow, LeaseFollows
    <3>2. ReadsAreVersions' /\ CredentialsKept' /\ PairsAreIssued' /\ PendingIsNew'
      BY <1>1, <2>1, VersionsFollow, PairsFollow
    <3>3. ReplacedIsGone' /\ ForcedPart'
      BY <1>1, <2>1, ReplacedStaysGone, ForcedFollow
    <3>4. DescriptionFollows'
      BY <1>1, <2>1, CallsFollow, <3>1, DescriptionGoesOn DEF DescriptionFollows, Excused
    <3> QED BY <3>1, <3>2, <3>3, <3>4
  <2>2. ASSUME NEW a \in Admins, ReadSecret(a) \/ AdminStep(a)
        PROVE  Rest'
    <3>1. CallsAreNumbered'
      BY <1>1, <2>2, ReadsSecret, WritesSecret, Saves DEF AdminStep, CallsAreNumbered, Busy
    <3>2. LeaseIsHeld'
      <4>1. CASE ReadSecret(a) \/ WriteSecret(a)
        BY <1>1, <4>1, ReadsSecret, WritesSecret DEF LeaseIsHeld, Owns
      <4>2. CASE SaveEnvironment(a)
        <5>1. UNCHANGED call /\ noted \subseteq noted'
          BY <1>1, <4>2, Saves
        <5>2. CASE admin[a].device
          BY <1>1, <4>2, <5>1, <5>2, Saves DEF LeaseIsHeld, Owns
        <5>3. CASE ~admin[a].device
          BY <1>1, <4>2, <5>3, Saves, <5>1 DEF LeaseIsHeld, Owns
        <5> QED BY <5>2, <5>3
      <4> QED BY <2>2, <4>1, <4>2 DEF AdminStep
    <3>3. ReadsAreVersions' /\ CredentialsKept' /\ PairsAreIssued' /\ PendingIsNew'
      BY <1>1, <2>2, VersionsStand, PairsStand
    <3>4. ReplacedIsGone' /\ ForcedPart'
      BY <1>1, <2>2, ReplacedAreGone, ForcedStand
    <3>5. DescriptionFollows'
      BY <1>1, <2>2, PairsStored, DescriptionStands DEF DescriptionFollows, Excused
    <3> QED BY <3>1, <3>2, <3>3, <3>4, <3>5
  <2>3. CASE Age
    <3>1. /\ UNCHANGED <<secret, authentication, call, admin, pairs, calls, newest, noted>>
      BY <2>3 DEF Age
    <3> QED BY <1>1, <3>1
          DEF ReadsAreVersions, CallsAreNumbered, LeaseIsHeld, PairsAreIssued, PendingIsNew, ReplacedIsGone, ForcedPart,
              ForcedCalls, RetryIsFresh, DescriptionFollows, DescribedWell, Excused, Describing, CredentialsKept, Busy, Kept, Owns,
              CallerPending, AdminPending, NewTo
  <2>4. CASE Lapse
    <3>1. /\ UNCHANGED <<secret, call, admin, pairs, calls, newest>> /\ noted' = noted \cup {"freed"}
          /\ authentication' = [authentication EXCEPT !.lapsed = TRUE]
      BY <2>4 DEF Lapse
    <3>2. /\ authentication'.owner = authentication.owner /\ authentication'.state = authentication.state
          /\ authentication'.pair = authentication.pair
      BY <1>1, <3>1 DEF Typed, SecretTypeOK
    <3>3. LeaseIsHeld'
      BY <3>1 DEF LeaseIsHeld
    <3>4. DescriptionFollows'
      BY <1>1, <3>1, <3>2 DEF DescriptionFollows, DescribedWell, Excused, Describing, Owns
    <3> QED BY <1>1, <3>1, <3>3, <3>4
          DEF ReadsAreVersions, CallsAreNumbered, PairsAreIssued, PendingIsNew, ReplacedIsGone, ForcedPart,
              ForcedCalls, RetryIsFresh, CredentialsKept, Busy, Kept, CallerPending, AdminPending, NewTo
  <2>5. CASE UNCHANGED secretVars
    BY <1>1, <2>5
          DEF secretVars, ReadsAreVersions, CallsAreNumbered, LeaseIsHeld, PairsAreIssued, PendingIsNew, ReplacedIsGone, ForcedPart,
              ForcedCalls, RetryIsFresh, DescriptionFollows, DescribedWell, Excused, Describing, CredentialsKept, Busy, Kept, Owns,
              CallerPending, AdminPending, NewTo
  <2> QED BY <2>1, <2>2, <2>3, <2>4, <2>5 DEF SecretNext
<1>4. OneRefresh' /\ DescriptionAgrees'
  <2>1. OneRefresh'
    BY <1>3 DEF Rest, CallsAreNumbered, LeaseIsHeld, OneRefresh, Owns, Busy, Holding
  <2>2. DescriptionAgrees'
    BY <1>3 DEF Rest, DescriptionFollows, DescribedWell, Excused, Describing, DescriptionAgrees
  <2> QED BY <2>1, <2>2
<1> QED BY <1>2, <1>3, <1>4 DEF SecretsIInv, SecretsInv, Rest, ForcedPart

\* However callers, administrators, lapsed leases, failures and crashes overlap
\* (api/_lib/thingsboard-auth.js, api/_handlers/connectors.js): credentials that
\* were replaced do not come back, one caller refreshes while leases hold, a
\* rejected call is repeated with another token, and between requests the
\* environment describes the pair that is stored.
THEOREM SecretsAreSafe == SecretSpec => []SecretsInv
<1>1. SecretInit => SecretsIInv
  BY SecretsBegin
<1>2. SecretsIInv /\ [SecretNext]_secretVars => SecretsIInv'
  BY SecretsGoOn
<1>3. SecretsIInv => SecretsInv
  BY DEF SecretsIInv
<1> QED BY <1>1, <1>2, <1>3, PTL DEF SecretSpec

-----------------------------------------------------------------------------
(* The server.                                                             *)

(***************************************************************************)
(* What a page shows of commands.  Everything that is on its way to the    *)
(* page says the truth of its command (ReportsAreGenuine, LoopKnows):      *)
(* statuses only go up to an outcome, and an outcome stays.  So nothing    *)
(* is left of the order in which reports arrive; and what is shown as      *)
(* pending has a call that will end it, since the last step of every call  *)
(* is a result no pending entry withstands (Remembering).                  *)
(***************************************************************************)

Reports == Pending \cup Outcomes
LoopPcs == {"idle", "posting", "refused", "told", "waiting", "get", "finish"}
LoopRow == [pc : LoopPcs, latest : Statuses, answer : Reports]
Entries == [req : Requests, status : Statuses, at : Nat]
Pushes == [req : Requests, status : Reports]

ViewTyped ==
    /\ cmd \in [Requests -> {None} \cup Reports]
    /\ loop \in [Loops -> LoopRow]
    /\ cached \in [Requests -> {None} \cup Reports]
    /\ view \in {None} \cup Entries
    /\ wire \in Seq(Pushes)
    /\ connected \in BOOLEAN
    /\ restore \in [pc : {"idle", "asking", "told"}, told : [Requests -> {None} \cup Reports]]
    /\ clicked \in Nat

\* A report of status s for request r says no outcome but the command's own.
Genuine(r, s) == cmd[r] # None /\ (s \in Outcomes => cmd[r] = s)

\* What is on its way to the page, or was told to it, is genuine.
ReportsAreGenuine ==
    /\ \A r \in Requests : cmd[r] # None => r <= clicked
    /\ \A j \in 1..Len(wire) : Genuine(wire[j].req, wire[j].status)
    /\ \A r \in Requests : cached[r] # None => Genuine(r, cached[r])
    /\ restore.pc = "told" => \A r \in Requests : restore.told[r] # None => Genuine(r, restore.told[r])

\* What a call knows of its command, by the step it is at.
LoopKnows(k) ==
    /\ loop[k].pc # "idle" => k[1] <= clicked
    /\ loop[k].pc \in {"posting", "refused"} => k[2] = "run" /\ cmd[k[1]] = None
    /\ loop[k].pc = "told" => Genuine(k[1], loop[k].answer)
    /\ loop[k].pc \in {"waiting", "get", "finish"} => Genuine(k[1], loop[k].latest)
    /\ loop[k].pc = "finish" => loop[k].latest \notin Pending

\* The outcome shown of a request that was turned down is that of a call that
\* has ended.
EntryTrue(v) ==
    v # None =>
        /\ v.req <= clicked
        /\ v.status \in Outcomes =>
              \/ cmd[v.req] = v.status
              \/ /\ v.status = "rejected"
                 /\ \/ cmd[v.req] = None /\ loop[<<v.req, "run">>].pc # "posting"
                    \/ "misjudged" \in odd

ViewIInv ==
    /\ ViewTyped /\ ReportsAreGenuine
    /\ \A k \in Loops : LoopKnows(k)
    /\ EntryTrue(view) /\ PendingIsWatched

\* The inductive invariant gives the property.
LEMMA ViewHolds == ViewIInv => ViewInv
<1>. SUFFICES ASSUME ViewIInv PROVE ViewInv
  OBVIOUS
<1>1. ViewTypeOK
  BY ViewAssumption DEF ViewIInv, ViewTyped, ViewTypeOK, EntryTrue, Entries, Reports, LoopRow, LoopPcs
<1>2. ShownIsTrue
  BY DEF ViewIInv, EntryTrue, ShownIsTrue, Shows
<1> QED BY <1>1, <1>2 DEF ViewIInv, ViewInv

\* It holds of a page before its first request.
LEMMA ViewBegins == ViewInit => ViewIInv
<1>. SUFFICES ASSUME ViewInit PROVE ViewIInv
  OBVIOUS
<1>. USE DEF ViewInit
<1>1. ViewTyped
  BY DEF ViewTyped, Loops, LoopRow, LoopPcs, NoLoop, Statuses, Reports, Pending
<1>2. \A k \in Loops : loop[k].pc = "idle"
  BY DEF NoLoop
<1>3. ReportsAreGenuine /\ EntryTrue(view) /\ PendingIsWatched
  BY DEF ReportsAreGenuine, EntryTrue, PendingIsWatched, Shows
<1> QED BY <1>1, <1>2, <1>3 DEF ViewIInv, LoopKnows

\* Results as they are remembered; runCommand's own may lack createdAt.
Results == [req : Requests, status : Statuses, at : {None} \cup Nat]

\* What replaces what, by rank.
LEMMA Ranked ==
    /\ \A s : Rank(s) \in 0..4
    /\ \A s \in Pending, n \in Statuses \ Pending : Rank(n) >= Rank(s) /\ s \notin Outcomes
    /\ \A s : Outcomes \cap Pending = {} /\ "unknown" \notin Pending \cup Outcomes
BY DEF Rank, Pending, Outcomes, Statuses

\* What is remembered is what was, or what is told; a pending entry gives way
\* to what ended it.
LEMMA Remembering ==
    ASSUME NEW v \in {None} \cup Entries, NEW x \in Results, clicked \in Nat
    PROVE  LET e == Remembered(v, x) IN
           /\ e \in {None} \cup Entries
           /\ e = v \/ (e \in Entries /\ e.req = x.req /\ e.status = x.status)
           /\ (v # None /\ v.req = x.req /\ v.status \in Pending /\ x.status \notin Pending) =>
                  e \in Entries /\ e.req = x.req /\ e.status = x.status
           /\ v = None => e \in Entries /\ e.req = x.req /\ e.status = x.status
<1>. DEFINE n == Entry(x)
<1>1. n \in Entries /\ n.req = x.req /\ n.status = x.status
  BY DEF Now, Entry, Entries, Results
<1>2. (v # None /\ v.req = x.req /\ v.status \in Pending /\ x.status \notin Pending) => CanReplace(v, x)
  BY Ranked DEF CanReplace, StatusCanReplace, Results, Entries
<1>3. v = None => CanReplace(v, x)
  BY DEF CanReplace
<1>. HIDE DEF n
<1>4. Remembered(v, x) = IF CanReplace(v, x) THEN n ELSE v
  BY DEF Remembered, n
<1> QED BY <1>1, <1>2, <1>3, <1>4

\* A report is a result.
LEMMA ReportRemembered ==
    ASSUME NEW r \in Requests, NEW s \in Statuses
    PROVE  Reported(r, s) \in Results /\ Reported(r, s).req = r /\ Reported(r, s).status = s
BY ViewAssumption DEF Reported, Results, Created

\* What a call goes to.
LEMMA LoopSet ==
    ASSUME ViewIInv, NEW k \in Loops, NEW c \in LoopRow, Set(k, c)
    PROVE  /\ loop' \in [Loops -> LoopRow] /\ loop'[k] = c
           /\ \A m \in Loops \ {k} : loop'[m] = loop[m]
BY DEF ViewIInv, ViewTyped, Set

\* A call that goes to another step.
LEMMA LoopMoved ==
    ASSUME ViewIInv, NEW k \in Loops, NEW pc \in LoopPcs, Move(k, pc)
    PROVE  /\ loop' \in [Loops -> LoopRow]
           /\ loop'[k].pc = pc /\ loop'[k].latest = loop[k].latest /\ loop'[k].answer = loop[k].answer
           /\ \A m \in Loops \ {k} : loop'[m] = loop[m]
<1>. DEFINE c == [loop[k] EXCEPT !.pc = pc]
<1>1. loop[k] \in LoopRow
  BY DEF ViewIInv, ViewTyped
<1>2. c \in LoopRow /\ c.pc = pc /\ c.latest = loop[k].latest /\ c.answer = loop[k].answer
  BY <1>1 DEF LoopRow
<1>3. Set(k, c)
  BY DEF Move
<1>. HIDE DEF c
<1> QED BY <1>2, <1>3, LoopSet

\* Commands go on, calls are begun for new requests only: what was genuine and
\* what was truly shown stays so.
Onward ==
    /\ clicked' \in Nat /\ clicked <= clicked' /\ odd \subseteq odd'
    /\ \A r \in Requests :
          \/ cmd'[r] = cmd[r]
          \/ cmd[r] \in Pending /\ cmd'[r] # None
          \/ cmd[r] = None /\ loop[<<r, "run">>].pc = "posting"
    /\ \A k \in Loops : loop'[k].pc = "posting" => loop[k].pc = "posting" \/ k[1] > clicked

LEMMA OnwardKeeps ==
    ASSUME ViewIInv, Onward
    PROVE  /\ \A r \in Requests : \A s : Genuine(r, s) => Genuine(r, s)'
           /\ \A v \in {None} \cup Entries : EntryTrue(v) => EntryTrue(v)'
<1>1. ASSUME NEW r \in Requests, NEW s, Genuine(r, s) PROVE Genuine(r, s)'
  BY <1>1, Ranked DEF Onward, Genuine
<1>2. ASSUME NEW v \in {None} \cup Entries, EntryTrue(v), v # None PROVE EntryTrue(v)'
  <2>1. v \in Entries /\ v.req \in Requests /\ v.req \in Nat /\ <<v.req, "run">> \in Loops /\ v.req <= clicked
    BY <1>2, ViewAssumption DEF Entries, Loops, EntryTrue
  <2>2. v.req <= clicked' /\ clicked \in Nat
    BY <2>1 DEF Onward, ViewIInv, ViewTyped
  <2>3. ASSUME v.status \in Outcomes, cmd[v.req] = v.status PROVE cmd'[v.req] = v.status
    BY <2>1, <2>3, Ranked, ViewAssumption DEF Onward, Statuses
  <2>4. ASSUME cmd[v.req] = None, loop[<<v.req, "run">>].pc # "posting"
        PROVE  cmd'[v.req] = None /\ loop'[<<v.req, "run">>].pc # "posting"
    BY ViewAssumption, <2>1, <2>2, <2>4 DEF Statuses, Onward
  <2>5. "misjudged" \in odd => "misjudged" \in odd'
    BY DEF Onward
  <2> QED BY <1>2, <2>2, <2>3, <2>4, <2>5 DEF EntryTrue
<1>3. EntryTrue(None)'
  BY DEF EntryTrue
<1> QED BY <1>1, <1>2, <1>3

\* What the other calls know stays as well.
LEMMA OthersKnow ==
    ASSUME ViewIInv, Onward, NEW k \in Loops, loop'[k] = loop[k], cmd[k[1]] = None => cmd'[k[1]] = None
    PROVE  LoopKnows(k)'
<1>1. LoopKnows(k) /\ k[1] \in Requests /\ k[1] \in Nat /\ clicked \in Nat
  BY ViewAssumption DEF ViewIInv, ViewTyped, Loops
<1>2. \A s : Genuine(k[1], s) => Genuine(k[1], s)'
  BY <1>1, OnwardKeeps
<1>3. k[1] <= clicked => k[1] <= clicked'
  BY <1>1 DEF Onward
<1> QED BY <1>1, <1>2, <1>3 DEF LoopKnows

\* An entry that was true stays true.
LEMMA EntryStays ==
    ASSUME ViewIInv, Onward, NEW v \in {None} \cup Entries, view' = v, EntryTrue(v)
    PROVE  EntryTrue(view)'
<1>1. EntryTrue(v)'
  BY OnwardKeeps
<1> QED BY <1>1 DEF EntryTrue

\* A step of a call that leaves the server and all but the call and the entry
\* as they are.
LEMMA OnlyLoop ==
    ASSUME ViewIInv, NEW k \in Loops, loop' \in [Loops -> LoopRow],
           \A m \in Loops \ {k} : loop'[m] = loop[m],
           loop'[k].pc # "posting",
           cmd' = cmd, cached' = cached, wire' = wire, connected' = connected, restore' = restore,
           clicked' = clicked, odd \subseteq odd', LoopKnows(k)',
           view' \in {None} \cup Entries, EntryTrue(view)',
           (view' # None /\ view'.status \in Pending) =>
               \/ view'.req = k[1] /\ loop'[k].pc # "idle"
               \/ view' = view /\ (view.req = k[1] => loop'[k].pc # "idle")
    PROVE  ViewIInv'
<1>1. Onward
  BY DEF Onward, ViewIInv, ViewTyped
<1>2. ViewTyped'
  BY DEF ViewIInv, ViewTyped
<1>3. ReportsAreGenuine'
  BY DEF ViewIInv, ReportsAreGenuine, Genuine
<1>4. \A m \in Loops : LoopKnows(m)'
  BY <1>1, OthersKnow
<1>5. PendingIsWatched'
  <2>. SUFFICES ASSUME view' # None, view'.status \in Pending
                PROVE  Watched(view.req)' \/ restore'.pc # "idle" \/ ~connected' \/ LeftPending'
    BY DEF PendingIsWatched, Shows
  <2>1. CASE view'.req = k[1] /\ loop'[k].pc # "idle"
    BY <2>1 DEF Watched
  <2>2. CASE view' = view /\ (view.req = k[1] => loop'[k].pc # "idle")
    <3>1. Watched(view.req) \/ restore.pc # "idle" \/ ~connected \/ LeftPending
      BY <2>2 DEF ViewIInv, PendingIsWatched, Shows
    <3>2. CASE Watched(view.req)
      BY <3>2, <2>2 DEF Watched
    <3>3. CASE LeftPending
      BY <3>3 DEF LeftPending
    <3> QED BY <3>1, <3>2, <3>3
  <2> QED BY <2>1, <2>2
<1> QED BY <1>2, <1>3, <1>4, <1>5 DEF ViewIInv

\* One lemma for each action: the wait ends.
LEMMA WaitKeeps ==
    ASSUME ViewIInv, NEW k \in Loops, WaitEnds(k) PROVE ViewIInv'
<1>1. /\ cmd' = cmd /\ cached' = cached /\ view' = view /\ wire' = wire /\ connected' = connected
      /\ restore' = restore /\ clicked' = clicked /\ odd' = odd /\ loop[k].pc = "waiting"
      /\ loop'[k].pc = "get" /\ loop'[k].latest = loop[k].latest /\ loop' \in [Loops -> LoopRow]
      /\ \A m \in Loops \ {k} : loop'[m] = loop[m]
  BY LoopMoved DEF WaitEnds, LoopPcs
<1>2. LoopKnows(k)'
  BY <1>1 DEF ViewIInv, LoopKnows, Genuine
<1>3. view \in {None} \cup Entries /\ EntryTrue(view)
  BY DEF ViewIInv, ViewTyped
<1>4. EntryTrue(view)'
  BY <1>1, <1>3, EntryStays DEF Onward, ViewIInv, ViewTyped
<1> QED BY <1>1, <1>2, <1>3, <1>4, OnlyLoop

\* The status is read.
LEMMA GetKeeps ==
    ASSUME ViewIInv, NEW k \in Loops, Get(k) PROVE ViewIInv'
<1>1. /\ cmd' = cmd /\ cached' = cached /\ view' = view /\ wire' = wire /\ connected' = connected
      /\ restore' = restore /\ clicked' = clicked /\ odd' = odd /\ loop[k].pc = "get"
  BY DEF Get
<1>2. Genuine(k[1], loop[k].latest) /\ k[1] <= clicked /\ k[1] \in Requests
  BY <1>1 DEF ViewIInv, LoopKnows, Loops
<1>3. cmd[k[1]] \in Reports
  BY <1>2 DEF Genuine, ViewIInv, ViewTyped
<1>. DEFINE c == [loop[k] EXCEPT !.pc = "told", !.answer = cmd[k[1]]]
<1>4. c \in LoopRow /\ c.pc = "told" /\ c.answer = cmd[k[1]]
  BY <1>3 DEF ViewIInv, ViewTyped, LoopRow, LoopPcs
<1>5. Set(k, c)
  BY DEF Get
<1>. HIDE DEF c
<1>6. loop' \in [Loops -> LoopRow] /\ loop'[k] = c /\ \A m \in Loops \ {k} : loop'[m] = loop[m]
  BY <1>4, <1>5, LoopSet
<1>7. LoopKnows(k)'
  BY <1>1, <1>2, <1>4, <1>6 DEF LoopKnows, Genuine
<1>8. view \in {None} \cup Entries /\ EntryTrue(view)
  BY DEF ViewIInv, ViewTyped
<1>9. EntryTrue(view)'
  <2>1. Onward
    BY <1>1, <1>4, <1>6 DEF Onward, ViewIInv, ViewTyped
  <2> QED BY <1>1, <1>8, <2>1, EntryStays
<1> QED BY <1>1, <1>4, <1>6, <1>7, <1>8, <1>9, OnlyLoop

\* The deadline passes.
LEMMA DeadlineKeeps ==
    ASSUME ViewIInv, NEW k \in Loops, Deadline(k) PROVE ViewIInv'
<1>1. /\ cmd' = cmd /\ cached' = cached /\ view' = view /\ wire' = wire /\ connected' = connected
      /\ restore' = restore /\ clicked' = clicked /\ odd' = odd /\ loop[k].pc \in {"waiting", "get"}
  BY DEF Deadline
<1>2. Genuine(k[1], loop[k].latest) /\ k[1] <= clicked
  BY <1>1 DEF ViewIInv, LoopKnows
<1>. DEFINE c == [loop[k] EXCEPT !.pc = "finish", !.latest = "unknown"]
<1>4. c \in LoopRow /\ c.pc = "finish" /\ c.latest = "unknown"
  BY DEF ViewIInv, ViewTyped, LoopRow, LoopPcs, Statuses
<1>5. Set(k, c)
  BY DEF Deadline
<1>. HIDE DEF c
<1>6. loop' \in [Loops -> LoopRow] /\ loop'[k] = c /\ \A m \in Loops \ {k} : loop'[m] = loop[m]
  BY <1>4, <1>5, LoopSet
<1>7. LoopKnows(k)'
  BY <1>1, <1>2, <1>4, <1>6, Ranked DEF LoopKnows, Genuine
<1>8. view \in {None} \cup Entries /\ EntryTrue(view)
  BY DEF ViewIInv, ViewTyped
<1>9. EntryTrue(view)'
  <2>1. Onward
    BY <1>1, <1>4, <1>6 DEF Onward, ViewIInv, ViewTyped
  <2> QED BY <1>1, <1>8, <2>1, EntryStays
<1> QED BY <1>1, <1>4, <1>6, <1>7, <1>8, <1>9, OnlyLoop

\* The outcome is remembered.
LEMMA FinishedKeeps ==
    ASSUME ViewIInv, NEW k \in Loops, Finish(k) PROVE ViewIInv'
<1>. DEFINE r == k[1]
            s == loop[k].latest
            v == Remembered(view, Reported(r, s))
<1>1. /\ cmd' = cmd /\ cached' = cached /\ view' = v /\ wire' = wire /\ connected' = connected
      /\ restore' = restore /\ clicked' = clicked /\ odd' = odd /\ loop[k].pc = "finish"
      /\ Set(k, NoLoop)
  BY DEF Finish
<1>2. /\ Genuine(r, s) /\ s \notin Pending /\ r <= clicked /\ r \in Requests /\ s \in Statuses
      /\ view \in {None} \cup Entries /\ clicked \in Nat /\ EntryTrue(view)
  BY <1>1 DEF ViewIInv, ViewTyped, LoopKnows, LoopRow, Loops
<1>3. NoLoop \in LoopRow /\ NoLoop.pc = "idle"
  BY DEF NoLoop, LoopRow, LoopPcs, Statuses, Reports, Pending
<1>4. loop' \in [Loops -> LoopRow] /\ loop'[k] = NoLoop /\ \A m \in Loops \ {k} : loop'[m] = loop[m]
  BY <1>1, <1>3, LoopSet
<1>5. LoopKnows(k)'
  BY <1>3, <1>4 DEF LoopKnows
<1>6. /\ v \in {None} \cup Entries
      /\ v = view \/ (v \in Entries /\ v.req = r /\ v.status = s)
      /\ (view # None /\ view.req = r /\ view.status \in Pending) => v \in Entries /\ v.req = r /\ v.status = s
  <2>1. Reported(r, s) \in Results /\ Reported(r, s).req = r /\ Reported(r, s).status = s
    BY <1>2, ReportRemembered
  <2>. HIDE DEF r, s
  <2> QED BY <1>2, <2>1, Remembering
<1>. HIDE DEF v, r, s
<1>7. EntryTrue(v)
  BY <1>2, <1>6 DEF EntryTrue, Genuine
<1>8. EntryTrue(view)'
  <2>0. \A m \in Loops : loop'[m].pc = "posting" => loop[m].pc = "posting"
    BY <1>3, <1>4
  <2>1. Onward
    BY <1>1, <1>2, <2>0 DEF Onward
  <2> QED BY <1>1, <1>6, <1>7, <2>1, EntryStays
<1>9. v # None /\ v.status \in Pending => v = view /\ view.req # k[1]
  BY <1>2, <1>6 DEF r
<1> QED BY <1>1, <1>3, <1>4, <1>5, <1>6, <1>8, <1>9, OnlyLoop

\* A call that goes on with a genuine status.
LEMMA SettleKnows ==
    ASSUME ViewIInv, NEW r \in Requests, NEW s \in Reports, Genuine(r, s)
    PROVE  /\ Settle(r, s) \in LoopRow /\ Settle(r, s).pc \in {"waiting", "finish"}
           /\ Settle(r, s).latest \in Reports /\ Genuine(r, Settle(r, s).latest)
           /\ Settle(r, s).pc = "finish" => Settle(r, s).latest \notin Pending
<1>. DEFINE higher == s \in Pending /\ cached[r] # None /\ Rank(cached[r]) > Rank(s)
            latest == IF higher THEN cached[r] ELSE s
            c == [NoLoop EXCEPT !.latest = latest, !.pc = IF latest \in Pending THEN "waiting" ELSE "finish"]
<1>1. cached[r] \in {None} \cup Reports /\ (cached[r] # None => Genuine(r, cached[r]))
  BY DEF ViewIInv, ViewTyped, ReportsAreGenuine
<1>2. latest \in Reports /\ Genuine(r, latest)
  BY <1>1
<1>. HIDE DEF latest
<1>3. /\ c \in LoopRow /\ c.pc = (IF latest \in Pending THEN "waiting" ELSE "finish") /\ c.latest = latest
  BY <1>2 DEF NoLoop, LoopRow, LoopPcs, Statuses, Reports, Pending
<1>4. Settle(r, s) = c
  BY DEF Settle, latest
<1>. HIDE DEF c
<1> QED BY <1>2, <1>3, <1>4

\* An answer arrives.
LEMMA AnsweredKeeps ==
    ASSUME ViewIInv, NEW k \in Loops, Answered(k) PROVE ViewIInv'
<1>. DEFINE r == k[1]
            s == loop[k].answer
            next == Settle(r, s)
            u == Remembered(view, Reported(r, s))
            v == Remembered(u, Reported(r, next.latest))
<1>1. /\ cmd' = cmd /\ cached' = cached /\ view' = v /\ wire' = wire /\ connected' = connected
      /\ restore' = restore /\ clicked' = clicked /\ odd' = odd /\ loop[k].pc = "told"
      /\ Set(k, next)
  BY DEF Answered
<1>2. /\ Genuine(r, s) /\ r <= clicked /\ r \in Requests /\ s \in Reports
      /\ view \in {None} \cup Entries /\ clicked \in Nat /\ EntryTrue(view)
  BY <1>1 DEF ViewIInv, ViewTyped, LoopKnows, LoopRow, Loops
<1>3. /\ next \in LoopRow /\ next.pc \in {"waiting", "finish"} /\ next.latest \in Reports /\ Genuine(r, next.latest)
      /\ next.pc = "finish" => next.latest \notin Pending
  BY <1>2, SettleKnows
<1>4. loop' \in [Loops -> LoopRow] /\ loop'[k] = next /\ \A m \in Loops \ {k} : loop'[m] = loop[m]
  BY <1>1, <1>3, LoopSet
<1>5. LoopKnows(k)'
  BY <1>1, <1>2, <1>3, <1>4 DEF LoopKnows, Genuine
<1>. HIDE DEF next, r, s
<1>6. s \in Statuses /\ next.latest \in Statuses
  BY <1>2, <1>3 DEF Reports, Statuses
<1>7. u \in {None} \cup Entries /\ (u = view \/ (u \in Entries /\ u.req = r /\ u.status = s))
  BY <1>2, <1>6, ReportRemembered, Remembering
<1>. HIDE DEF u
<1>8. v \in {None} \cup Entries /\ (v = u \/ (v \in Entries /\ v.req = r /\ v.status = next.latest))
  BY <1>2, <1>6, ReportRemembered, <1>7, Remembering
<1>. HIDE DEF v
<1>9. EntryTrue(v)
  BY <1>2, <1>3, <1>7, <1>8 DEF EntryTrue, Genuine
<1>10. EntryTrue(view)'
  <2>0. \A m \in Loops : loop'[m].pc = "posting" => loop[m].pc = "posting"
    BY <1>3, <1>4
  <2>1. Onward
    BY <1>1, <1>2, <2>0 DEF Onward
  <2> QED BY <1>1, <1>8, <1>9, <2>1, EntryStays
<1>11. v = view \/ v.req = k[1]
  BY <1>7, <1>8 DEF r
<1> QED BY <1>1, <1>3, <1>4, <1>5, <1>8, <1>10, <1>11, OnlyLoop

\* An error becomes a result.
LEMMA CatchKeeps ==
    ASSUME ViewIInv, NEW k \in Loops, NEW status \in {"unknown", "rejected"}, Catch(k, status),
           status = "rejected" => loop[k].pc \in {"refused", "get"},
           cmd' = cmd, cached' = cached, wire' = wire, connected' = connected, restore' = restore, clicked' = clicked,
           loop[k].pc # "idle"
    PROVE  ViewIInv'
<1>. DEFINE r == k[1]
            x == IF k[2] = "run" THEN [req |-> r, status |-> status, at |-> None] ELSE Reported(r, "unknown")
            v == Remembered(view, x)
<1>1. /\ Set(k, NoLoop) /\ view' = v /\ odd \subseteq odd'
      /\ (x.status = "rejected" /\ cmd[r] # None) => "misjudged" \in odd'
  BY DEF Catch
<1>2. /\ r <= clicked /\ r \in Requests /\ k[2] \in {"run", "again"} /\ k = <<k[1], k[2]>>
      /\ view \in {None} \cup Entries /\ clicked \in Nat /\ EntryTrue(view)
  BY DEF ViewIInv, ViewTyped, LoopKnows, Loops
<1>3. NoLoop \in LoopRow /\ NoLoop.pc = "idle"
  BY DEF NoLoop, LoopRow, LoopPcs, Statuses, Reports, Pending
<1>4. loop' \in [Loops -> LoopRow] /\ loop'[k] = NoLoop /\ \A m \in Loops \ {k} : loop'[m] = loop[m]
  BY <1>1, <1>3, LoopSet
<1>5. LoopKnows(k)'
  BY <1>3, <1>4 DEF LoopKnows
<1>6. /\ x \in Results /\ x.req = r /\ x.status \in {"unknown", "rejected"}
      /\ x.status = "rejected" => k[2] = "run"
  <2>1. CASE k[2] = "run"
    BY <1>2, <2>1 DEF Results, Statuses, Outcomes
  <2>2. CASE k[2] # "run"
    BY <1>2, <2>2, ReportRemembered DEF Statuses
  <2> QED BY <2>1, <2>2
<1>. HIDE DEF x
<1>7. x.status \in Statuses \ Pending
  BY <1>6 DEF Statuses, Outcomes, Pending
<1>8. /\ v \in {None} \cup Entries
      /\ v = view \/ (v \in Entries /\ v.req = r /\ v.status = x.status)
      /\ (view # None /\ view.req = r /\ view.status \in Pending) => v.status = x.status
  BY <1>2, <1>6, <1>7, Remembering
<1>. HIDE DEF v
<1>9. \A m \in Loops : loop'[m].pc = "posting" => loop[m].pc = "posting"
  BY <1>3, <1>4
<1>10. Onward
  BY <1>1, <1>2, <1>9 DEF Onward
<1>11. EntryTrue(view)'
  <2>1. CASE v = view
    BY <1>1, <1>2, <1>10, <2>1, EntryStays
  <2>2. CASE v # view
    <3>1. x.status = "rejected" => \/ cmd[r] = None /\ loop'[<<r, "run">>].pc # "posting"
                                  \/ "misjudged" \in odd'
      BY <1>1, <1>2, <1>3, <1>4, <1>6
    <3>2. v \in Entries /\ v.req = r /\ v.status = x.status /\ x.status \in {"unknown", "rejected"}
      BY <1>6, <1>8, <2>2
    <3> QED BY <1>1, <1>2, <3>1, <3>2 DEF EntryTrue, Outcomes
  <2> QED BY <2>1, <2>2
<1>12. (v # None /\ v.status \in Pending) => v = view /\ view.req # k[1]
  BY <1>7, <1>8 DEF r
<1>13. loop'[k].pc # "posting"
  BY <1>3, <1>4
<1>. HIDE DEF r
<1> QED BY <1>1, <1>4, <1>5, <1>8, <1>11, <1>12, <1>13, OnlyLoop

\* A request fails.
LEMMA FailsKeeps ==
    ASSUME ViewIInv, NEW k \in Loops, RequestFails(k) PROVE ViewIInv'
BY CatchKeeps DEF RequestFails

\* A new request.
LEMMA ClickKeeps ==
    ASSUME ViewIInv, NEW r \in Requests, Click(r) PROVE ViewIInv'
<1>. DEFINE k == <<r, "run">>
            x == [req |-> r, status |-> "requested", at |-> 3 * r]
            v == Remembered(view, x)
<1>1. /\ cmd' = cmd /\ cached' = cached /\ view' = v /\ wire' = wire /\ connected' = connected
      /\ restore' = restore /\ clicked' = r /\ odd' = odd /\ r = clicked + 1
      /\ Move(k, "posting") /\ ~Shows(Pending)
  BY DEF Click
<1>2. /\ k \in Loops /\ k[1] = r /\ k[2] = "run" /\ r \in Nat
      /\ view \in {None} \cup Entries /\ clicked \in Nat /\ EntryTrue(view)
  BY ViewAssumption DEF ViewIInv, ViewTyped, Loops
<1>3. /\ loop' \in [Loops -> LoopRow] /\ loop'[k].pc = "posting"
      /\ \A m \in Loops \ {k} : loop'[m] = loop[m]
  BY <1>1, <1>2, LoopMoved DEF LoopPcs
<1>4. cmd[r] = None
  BY <1>1, <1>2 DEF ViewIInv, ReportsAreGenuine
<1>5. /\ v \in {None} \cup Entries
      /\ v = view \/ (v \in Entries /\ v.req = r /\ v.status = "requested")
  <2>1. x \in Results /\ x.req = r /\ x.status = "requested"
    BY <1>2 DEF Results, Statuses, Pending
  <2>. HIDE DEF x
  <2> QED BY <1>2, <2>1, Remembering
<1>. HIDE DEF v
<1>6. Onward
  BY <1>1, <1>2, <1>3 DEF Onward
<1>7. ViewTyped'
  BY <1>1, <1>2, <1>3, <1>5 DEF ViewIInv, ViewTyped
<1>8. ReportsAreGenuine'
  BY <1>1, <1>2, ViewAssumption DEF ViewIInv, ReportsAreGenuine, Genuine
<1>9. ASSUME NEW m \in Loops PROVE LoopKnows(m)'
  BY <1>1, <1>2, <1>3, <1>4, <1>6, OthersKnow DEF LoopKnows
<1>10. EntryTrue(view)'
  BY <1>1, <1>2, <1>6, EntryStays, <1>5 DEF EntryTrue, Outcomes
<1>11. PendingIsWatched'
  BY <1>2, <1>3, <1>1, <1>5 DEF Watched, Shows, PendingIsWatched
<1> QED BY <1>7, <1>8, <1>9, <1>10, <1>11 DEF ViewIInv

\* A step that changes commands and what is on its way, and no entry.
LEMMA EntryRests ==
    ASSUME ViewIInv, Onward, view' = view, odd \subseteq odd',
           connected' => connected \/ restore'.pc # "idle",
           restore.pc # "idle" => restore'.pc # "idle" \/ ~connected' \/ LeftPending',
           connected' => \A m \in Loops : loop[m].pc # "idle" =>
               (loop'[m].pc # "idle" \/ restore'.pc # "idle")
    PROVE  EntryTrue(view)' /\ PendingIsWatched'
<1>1. EntryTrue(view)'
  <2>1. EntryTrue(view) /\ view \in {None} \cup Entries
    BY DEF ViewIInv, ViewTyped
  <2>. DEFINE v == view
  <2> QED BY <2>1, EntryStays
<1>2. PendingIsWatched'
  <2>. SUFFICES ASSUME view # None, view.status \in Pending, connected', restore'.pc = "idle", ~LeftPending'
                PROVE  Watched(view.req)'
    BY DEF PendingIsWatched, Shows
  <2>1. ~LeftPending
    BY DEF LeftPending
  <2>2. connected /\ restore.pc = "idle"
    OBVIOUS
  <2>3. Watched(view.req)
    BY <2>1, <2>2 DEF ViewIInv, PendingIsWatched, Shows
  <2>4. PICK m \in Loops : m[1] = view.req /\ loop[m].pc # "idle"
    BY <2>3 DEF Watched
  <2>5. loop'[m].pc # "idle"
    BY <2>4
  <2> QED BY <2>4, <2>5 DEF Watched
<1> QED BY <1>1, <1>2

\* What was told stays genuine.
LEMMA ReportsStay ==
    ASSUME ViewIInv, Onward, \A r \in Requests : cmd'[r] # None => r <= clicked',
           \A j \in 1..Len(wire') : \/ \E i \in 1..Len(wire) : wire'[j] = wire[i]
                                    \/ Genuine(wire[j].req, wire[j].status)',
           cached' = cached,
           restore' = restore \/ restore'.pc # "told"
    PROVE  ReportsAreGenuine'
<1>1. \A r \in Requests : \A s : Genuine(r, s) => Genuine(r, s)'
  BY OnwardKeeps
<1>2. ASSUME NEW j \in 1..Len(wire') PROVE Genuine(wire[j].req, wire[j].status)'
  <2>1. ASSUME NEW i \in 1..Len(wire), wire'[j] = wire[i] PROVE Genuine(wire[j].req, wire[j].status)'
    <3>1. wire[i].req \in Requests /\ Genuine(wire[i].req, wire[i].status)
      <4>1. wire \in Seq(Pushes)
        BY DEF ViewIInv, ViewTyped
      <4>2. wire[i] \in Pushes
        BY <4>1
      <4>3. Genuine(wire[i].req, wire[i].status)
        BY DEF ViewIInv, ReportsAreGenuine
      <4> QED BY <4>2, <4>3 DEF Pushes
    <3> QED BY <1>1, <2>1, <3>1 DEF Genuine
  <2> QED BY <2>1
<1>3. ASSUME NEW r \in Requests, cached'[r] # None PROVE Genuine(r, cached[r])'
  BY <1>3, <1>1 DEF ViewIInv, ReportsAreGenuine, Genuine
<1>4. ASSUME restore'.pc = "told", NEW r \in Requests, restore'.told[r] # None PROVE Genuine(r, restore.told[r])'
  BY <1>4, <1>1 DEF ViewIInv, ReportsAreGenuine, Genuine
<1> QED BY <1>2, <1>3, <1>4 DEF ReportsAreGenuine

\* The API admits it, or turns it down.
LEMMA PostKeeps ==
    ASSUME ViewIInv, NEW r \in Requests, Post(r) PROVE ViewIInv'
<1>. DEFINE k == <<r, "run">>
<1>1. /\ cached' = cached /\ view' = view /\ wire' = wire /\ connected' = connected
      /\ restore' = restore /\ clicked' = clicked /\ odd' = odd /\ loop[k].pc = "posting"
  BY DEF Post
<1>2. /\ k \in Loops /\ k[1] = r /\ k[2] = "run" /\ clicked \in Nat /\ r <= clicked /\ cmd[r] = None
      /\ loop[k] \in LoopRow /\ cmd \in [Requests -> {None} \cup Reports]
  BY <1>1 DEF ViewIInv, ViewTyped, LoopKnows, Loops
<1>3. /\ loop' \in [Loops -> LoopRow] /\ cmd' \in [Requests -> {None} \cup Reports]
      /\ (\A m \in Loops \ {k} : loop'[m] = loop[m]) /\ \A q \in Requests \ {r} : cmd'[q] = cmd[q]
      /\ \/ loop'[k].pc = "told" /\ cmd'[r] = loop'[k].answer /\ cmd'[r] # None
         \/ loop'[k].pc = "refused" /\ cmd'[r] = None
  <2>1. CASE Move(k, "refused") /\ cmd' = cmd
    BY <1>2, <2>1, LoopMoved DEF LoopPcs
  <2>2. ASSUME NEW s \in {"authorized", "rejected"}, cmd' = [cmd EXCEPT ![r] = s],
               Set(k, [loop[k] EXCEPT !.pc = "told", !.answer = s])
        PROVE  /\ loop' \in [Loops -> LoopRow] /\ cmd' \in [Requests -> {None} \cup Reports]
               /\ (\A m \in Loops \ {k} : loop'[m] = loop[m]) /\ \A q \in Requests \ {r} : cmd'[q] = cmd[q]
               /\ loop'[k].pc = "told" /\ cmd'[r] = loop'[k].answer /\ cmd'[r] # None
    <3>. DEFINE c == [loop[k] EXCEPT !.pc = "told", !.answer = s]
    <3>1. s \in Reports /\ s # None
      BY <2>2, ViewAssumption DEF Reports, Pending, Outcomes, Statuses
    <3>2. c \in LoopRow /\ c.pc = "told" /\ c.answer = s
      BY <1>2, <3>1 DEF LoopRow, LoopPcs
    <3>. HIDE DEF c
    <3>3. Set(k, c)
      BY <2>2 DEF c
    <3>4. loop' \in [Loops -> LoopRow] /\ loop'[k] = c /\ \A m \in Loops \ {k} : loop'[m] = loop[m]
      BY <1>2, <3>2, <3>3, LoopSet
    <3> QED BY <1>2, <2>2, <3>1, <3>2, <3>4
  <2> QED BY <2>1, <2>2 DEF Post
<1>4. Onward
  BY <1>1, <1>2, <1>3 DEF Onward
<1>5. ViewTyped'
  BY <1>1, <1>3 DEF ViewIInv, ViewTyped
<1>6. ReportsAreGenuine'
  BY <1>2, <1>3, <1>1, <1>4, ReportsStay DEF ViewIInv, ReportsAreGenuine
<1>7. ASSUME NEW m \in Loops PROVE LoopKnows(m)'
  <2>1. CASE m = k
    BY <1>1, <1>2, <1>3, <2>1 DEF LoopKnows, Genuine
  <2>2. CASE m # k
    <3>1. m[1] # r \/ loop[m].pc \notin {"posting", "refused"}
      BY <1>2, <2>2 DEF ViewIInv, LoopKnows, Loops
    <3>2. LoopKnows(m) /\ loop'[m] = loop[m] /\ m[1] \in Requests
      BY <1>3, <2>2 DEF ViewIInv, Loops
    <3>3. \A s : Genuine(m[1], s) => Genuine(m[1], s)'
      BY <1>4, <3>2, OnwardKeeps
    <3> QED BY <1>1, <1>3, <3>1, <3>2, <3>3 DEF LoopKnows
  <2> QED BY <2>1, <2>2
<1>8. EntryTrue(view)' /\ PendingIsWatched'
  BY <1>1, <1>3, <1>4, EntryRests
<1> QED BY <1>5, <1>6, <1>7, <1>8 DEF ViewIInv

\* A push that is sent, or not.
LEMMA PushSent ==
    ASSUME ViewIInv, NEW r \in Requests, NEW s \in Reports, Pushed(r, s)
    PROVE  /\ wire' \in Seq(Pushes)
           /\ \A j \in 1..Len(wire') : \/ \E i \in 1..Len(wire) : wire'[j] = wire[i]
                                       \/ wire'[j] = [req |-> r, status |-> s]
<1>. DEFINE p == [req |-> r, status |-> s]
<1>1. p \in Pushes /\ wire \in Seq(Pushes)
  BY DEF ViewIInv, ViewTyped, Pushes
<1>2. wire' = Append(wire, p) \/ wire' = wire
  BY DEF Pushed
<1>. HIDE DEF p
<1>3. CASE wire' = wire
  BY <1>1, <1>3
<1>4. CASE wire' = Append(wire, p)
  BY <1>1, <1>4 DEF p
<1> QED BY <1>2, <1>3, <1>4

\* The worker takes it further.
LEMMA ProgressKeeps ==
    ASSUME ViewIInv, NEW r \in Requests, Progress(r) PROVE ViewIInv'
<1>1. /\ loop' = loop /\ cached' = cached /\ view' = view /\ connected' = connected
      /\ restore' = restore /\ clicked' = clicked /\ odd' = odd /\ cmd[r] \in Pending
  BY DEF Progress
<1>2. PICK s \in {"dispatched", "accepted", "acknowledged"} : cmd' = [cmd EXCEPT ![r] = s] /\ Pushed(r, s)
  BY DEF Progress
<1>3. /\ s \in Reports /\ s # None /\ cmd[r] # None /\ clicked \in Nat
      /\ cmd \in [Requests -> {None} \cup Reports]
  BY <1>1, ViewAssumption DEF Reports, Pending, Outcomes, Statuses, ViewIInv, ViewTyped
<1>4. /\ cmd' \in [Requests -> {None} \cup Reports] /\ cmd'[r] = s
      /\ \A q \in Requests \ {r} : cmd'[q] = cmd[q]
  BY <1>2, <1>3
<1>5. /\ wire' \in Seq(Pushes)
      /\ \A j \in 1..Len(wire') : \/ \E i \in 1..Len(wire) : wire'[j] = wire[i]
                                  \/ wire'[j] = [req |-> r, status |-> s]
  BY <1>2, <1>3, PushSent
<1>6. Onward
  BY <1>1, <1>3, <1>4 DEF Onward
<1>7. ViewTyped'
  BY <1>1, <1>4, <1>5 DEF ViewIInv, ViewTyped
<1>8. ReportsAreGenuine'
  <2>1. \A q \in Requests : cmd'[q] # None => q <= clicked'
    BY <1>1, <1>3, <1>4 DEF ViewIInv, ReportsAreGenuine
  <2>2. ASSUME NEW j \in 1..Len(wire'), wire'[j] = [req |-> r, status |-> s] PROVE Genuine(wire[j].req, wire[j].status)'
    BY <1>3, <1>4, <2>2 DEF Genuine
  <2> QED BY <1>1, <1>5, <1>6, <2>1, <2>2, ReportsStay
<1>9. ASSUME NEW m \in Loops PROVE LoopKnows(m)'
  BY <1>3, <1>4, <1>1, <1>6, OthersKnow DEF Loops
<1>10. EntryTrue(view)' /\ PendingIsWatched'
  BY <1>1, <1>6, EntryRests
<1> QED BY <1>7, <1>8, <1>9, <1>10 DEF ViewIInv

\* The history is read.
LEMMA AskKeeps ==
    ASSUME ViewIInv, AskRecent PROVE ViewIInv'
<1>1. /\ cmd' = cmd /\ loop' = loop /\ cached' = cached /\ view' = view /\ wire' = wire /\ connected' = connected
      /\ clicked' = clicked /\ odd' = odd /\ restore' = [pc |-> "told", told |-> cmd]
  BY DEF AskRecent
<1>2. Onward
  BY <1>1 DEF Onward, ViewIInv, ViewTyped
<1>3. ViewTyped'
  BY <1>1 DEF ViewIInv, ViewTyped
<1>4. ReportsAreGenuine'
  BY <1>1 DEF ViewIInv, ReportsAreGenuine, Genuine
<1>5. \A m \in Loops : LoopKnows(m)'
  BY <1>1, <1>2, OthersKnow
<1>6. EntryTrue(view)' /\ PendingIsWatched'
  BY <1>1, <1>2, EntryRests
<1> QED BY <1>3, <1>4, <1>5, <1>6 DEF ViewIInv

\* The history is not read.
LEMMA RestoreFailsKeeps ==
    ASSUME ViewIInv, RestoreFails PROVE ViewIInv'
<1>1. /\ cmd' = cmd /\ loop' = loop /\ cached' = cached /\ view' = view /\ wire' = wire /\ connected' = connected
      /\ clicked' = clicked /\ odd' = odd \cup {"unrestored"} /\ restore' = [restore EXCEPT !.pc = "idle"]
  BY DEF RestoreFails
<1>2. Onward
  BY <1>1 DEF Onward, ViewIInv, ViewTyped
<1>3. ViewTyped' /\ restore'.pc = "idle"
  BY <1>1 DEF ViewIInv, ViewTyped
<1>4. ReportsAreGenuine'
  BY <1>1, <1>3 DEF ViewIInv, ReportsAreGenuine, Genuine
<1>5. \A m \in Loops : LoopKnows(m)'
  BY <1>1, <1>2, OthersKnow
<1>6. LeftPending'
  BY <1>1 DEF LeftPending
<1>7. EntryTrue(view)' /\ PendingIsWatched'
  BY <1>1, <1>2, <1>6, EntryRests
<1> QED BY <1>3, <1>4, <1>5, <1>7 DEF ViewIInv

\* A new session.
LEMMA RenewKeeps ==
    ASSUME ViewIInv, RenewSession PROVE ViewIInv'
<1>1. /\ cmd' = cmd /\ cached' = cached /\ view' = view /\ wire' = wire /\ connected' = TRUE
      /\ clicked' = clicked /\ odd' = odd /\ restore' = [restore EXCEPT !.pc = "asking"]
      /\ loop' = [k \in Loops |-> IF k[2] = "again" THEN NoLoop ELSE loop[k]]
  BY DEF RenewSession
<1>2. NoLoop \in LoopRow /\ NoLoop.pc = "idle"
  BY DEF NoLoop, LoopRow, LoopPcs, Statuses, Reports, Pending
<1>3. /\ loop' \in [Loops -> LoopRow] /\ restore'.pc = "asking"
      /\ \A m \in Loops : loop'[m] = loop[m] \/ loop'[m].pc = "idle"
  BY <1>1, <1>2 DEF ViewIInv, ViewTyped
<1>4. Onward
  BY <1>1, <1>3 DEF Onward, ViewIInv, ViewTyped
<1>5. ViewTyped'
  BY <1>1, <1>3 DEF ViewIInv, ViewTyped
<1>6. ReportsAreGenuine'
  BY <1>1, <1>3 DEF ViewIInv, ReportsAreGenuine, Genuine
<1>7. \A m \in Loops : LoopKnows(m)'
  BY <1>1, <1>3, <1>4, OthersKnow DEF LoopKnows
<1>8. EntryTrue(view)' /\ PendingIsWatched'
  BY <1>1, <1>3, <1>4, EntryRests
<1> QED BY <1>5, <1>6, <1>7, <1>8 DEF ViewIInv

\* The connection breaks.
LEMMA BreakKeeps ==
    ASSUME ViewIInv, Break PROVE ViewIInv'
<1>1. /\ cmd' = cmd /\ cached' = cached /\ view' = view /\ wire' = <<>> /\ connected' = FALSE
      /\ clicked' = clicked /\ odd' = odd /\ restore' = restore /\ loop' = loop
  BY DEF Break
<1>2. Onward
  BY <1>1 DEF Onward, ViewIInv, ViewTyped
<1>3. ViewTyped'
  <2>1. <<>> \in Seq(Pushes)
    OBVIOUS
  <2> QED BY <2>1, <1>1 DEF ViewIInv, ViewTyped
<1>4. ReportsAreGenuine'
  BY <1>1 DEF ViewIInv, ReportsAreGenuine, Genuine
<1>5. \A m \in Loops : LoopKnows(m)'
  BY <1>1, <1>2, OthersKnow
<1>6. EntryTrue(view)' /\ PendingIsWatched'
  BY <1>1, <1>2, EntryRests
<1> QED BY <1>3, <1>4, <1>5, <1>6 DEF ViewIInv

\* The entry goes.
LEMMA GoesKeeps ==
    ASSUME ViewIInv, EntryGoes PROVE ViewIInv'
<1>1. /\ cmd' = cmd /\ cached' = cached /\ view' = None /\ wire' = wire /\ connected' = connected
      /\ clicked' = clicked /\ odd' = odd /\ restore' = restore /\ loop' = loop
  BY DEF EntryGoes
<1>2. ViewTyped'
  BY <1>1 DEF ViewIInv, ViewTyped
<1>3. ReportsAreGenuine'
  BY <1>1 DEF ViewIInv, ReportsAreGenuine, Genuine
<1>4. \A m \in Loops : LoopKnows(m)'
  BY <1>1 DEF ViewIInv, LoopKnows, Genuine
<1>5. EntryTrue(view)' /\ PendingIsWatched'
  BY <1>1 DEF EntryTrue, PendingIsWatched, Shows
<1> QED BY <1>2, <1>3, <1>4, <1>5 DEF ViewIInv

\* The page is loaded anew.
LEMMA ReloadKeeps ==
    ASSUME ViewIInv, Reload PROVE ViewIInv'
<1>1. /\ cmd' = cmd /\ cached' = [r \in Requests |-> None] /\ view' = None /\ wire' = <<>> /\ connected' = FALSE
      /\ clicked' = clicked /\ restore' = [restore EXCEPT !.pc = "idle"] /\ loop' = [k \in Loops |-> NoLoop]
  BY DEF Reload
<1>2. NoLoop \in LoopRow /\ NoLoop.pc = "idle"
  BY DEF NoLoop, LoopRow, LoopPcs, Statuses, Reports, Pending
<1>3. ViewTyped' /\ restore'.pc = "idle"
  <2>1. <<>> \in Seq(Pushes)
    OBVIOUS
  <2> QED BY <2>1, <1>1, <1>2 DEF ViewIInv, ViewTyped
<1>4. ReportsAreGenuine'
  BY <1>1, <1>3 DEF ViewIInv, ReportsAreGenuine, Genuine
<1>5. \A m \in Loops : LoopKnows(m)'
  BY <1>1, <1>2 DEF LoopKnows
<1>6. EntryTrue(view)' /\ PendingIsWatched'
  BY <1>1 DEF EntryTrue, PendingIsWatched, Shows
<1> QED BY <1>3, <1>4, <1>5, <1>6 DEF ViewIInv

\* A call that waits is woken by a genuine push.
LEMMA WokenKnows ==
    ASSUME NEW c \in LoopRow, NEW r, NEW s \in Reports, Genuine(r, s), c.pc = "waiting" => Genuine(r, c.latest)
    PROVE  LET w == Woken(c, s) IN
           /\ w \in LoopRow /\ (c.pc # "waiting" => w = c)
           /\ c.pc = "waiting" => w.pc \in {"waiting", "finish", "get"} /\ Genuine(r, w.latest)
           /\ (c.pc = "waiting" /\ w.pc = "finish") => w.latest \notin Pending
<1>1. CASE c.pc # "waiting"
  BY <1>1 DEF Woken
<1>2. CASE c.pc = "waiting" /\ StatusCanReplace(c.latest, s)
  <2>. DEFINE w == [c EXCEPT !.latest = s, !.pc = IF s \in Pending THEN "waiting" ELSE "finish"]
  <2>1. w \in LoopRow /\ w.latest = s /\ w.pc = (IF s \in Pending THEN "waiting" ELSE "finish")
    BY DEF LoopRow, LoopPcs, Reports, Statuses
  <2>2. Woken(c, s) = w
    BY <1>2 DEF Woken
  <2>. HIDE DEF w
  <2> QED BY <1>2, <2>1, <2>2
<1>3. CASE c.pc = "waiting" /\ ~StatusCanReplace(c.latest, s)
  <2>. DEFINE w == [c EXCEPT !.pc = "get"]
  <2>1. w \in LoopRow /\ w.latest = c.latest /\ w.pc = "get"
    BY DEF LoopRow, LoopPcs
  <2>2. Woken(c, s) = w
    BY <1>3 DEF Woken
  <2>. HIDE DEF w
  <2> QED BY <1>3, <2>1, <2>2
<1> QED BY <1>1, <1>2, <1>3

\* A push arrives.
LEMMA PushKeeps ==
    ASSUME ViewIInv, ReceivePush PROVE ViewIInv'
<1>. DEFINE r == Head(wire).req
            s == Head(wire).status
            v == Remembered(view, Reported(r, s))
<1>1. /\ cmd' = cmd /\ connected' = connected /\ restore' = restore /\ clicked' = clicked
      /\ wire # <<>> /\ wire' = Tail(wire)
      /\ \/ /\ cached' = cached /\ loop' = loop /\ view' = view /\ odd' = odd
         \/ /\ cached' = [cached EXCEPT ![r] = s]
            /\ loop' = [k \in Loops |-> IF k[1] = r THEN Woken(loop[k], s) ELSE loop[k]]
            /\ view' = v
            /\ odd \subseteq odd'
            /\ (s \in Pending /\ view' # view /\ ~Watched(r)) => "revived" \in odd'
  BY DEF ReceivePush
<1>2. wire \in Seq(Pushes)
  BY DEF ViewIInv, ViewTyped
<1>3. /\ wire' \in Seq(Pushes) /\ Len(wire) \in Nat /\ Len(wire) > 0 /\ Len(wire') = Len(wire) - 1
      /\ (\A j \in 1..Len(wire') : wire'[j] = wire[j + 1]) /\ Head(wire) = wire[1] /\ Head(wire) \in Pushes
  BY <1>1, <1>2
<1>4. r \in Requests /\ s \in Reports /\ Genuine(r, s) /\ s \in Statuses /\ r <= clicked /\ cmd[r] # None
  BY <1>3 DEF ViewIInv, ReportsAreGenuine, Pushes, Genuine, Reports, Statuses
<1>5. view \in {None} \cup Entries /\ clicked \in Nat /\ EntryTrue(view) /\ loop \in [Loops -> LoopRow]
  BY DEF ViewIInv, ViewTyped
<1>6. /\ v \in {None} \cup Entries
      /\ v = view \/ (v \in Entries /\ v.req = r /\ v.status = s)
  <2>1. Reported(r, s) \in Results /\ Reported(r, s).req = r /\ Reported(r, s).status = s
    BY <1>4, ReportRemembered
  <2>. HIDE DEF r, s
  <2> QED BY <1>5, <2>1, Remembering
<1>. HIDE DEF r, s, v
<1>7. \A j \in 1..Len(wire') : \E i \in 1..Len(wire) : wire'[j] = wire[i]
  BY <1>3
<1>8. CASE /\ cached' = cached /\ loop' = loop /\ view' = view /\ odd' = odd
  <2>1. Onward
    BY <1>1, <1>8 DEF Onward, ViewIInv, ViewTyped
  <2>2. ViewTyped'
    BY <1>1, <1>3, <1>8 DEF ViewIInv, ViewTyped
  <2>3. ReportsAreGenuine'
    BY <1>1, <1>7, <1>8, <2>1, ReportsStay DEF ViewIInv, ReportsAreGenuine
  <2>4. \A m \in Loops : LoopKnows(m)'
    BY <1>1, <1>8, <2>1, OthersKnow
  <2>5. EntryTrue(view)' /\ PendingIsWatched'
    BY <1>1, <1>8, <2>1, EntryRests
  <2> QED BY <2>2, <2>3, <2>4, <2>5 DEF ViewIInv
<1>9. CASE /\ cached' = [cached EXCEPT ![r] = s]
           /\ loop' = [k \in Loops |-> IF k[1] = r THEN Woken(loop[k], s) ELSE loop[k]]
           /\ view' = v
           /\ odd \subseteq odd'
           /\ (s \in Pending /\ view' # view /\ ~Watched(r)) => "revived" \in odd'
  <2>1. ASSUME NEW m \in Loops
        PROVE  /\ loop'[m] \in LoopRow /\ (loop[m].pc # "waiting" => loop'[m] = loop[m])
               /\ loop[m].pc = "waiting" => loop'[m].pc \in {"waiting", "finish", "get"} /\ Genuine(m[1], loop'[m].latest)
               /\ (loop[m].pc = "waiting" /\ loop'[m].pc = "finish") => loop'[m].latest \notin Pending
    <3>1. loop[m] \in LoopRow /\ (loop[m].pc = "waiting" => Genuine(m[1], loop[m].latest))
      BY <1>5 DEF ViewIInv, LoopKnows
    <3>2. CASE m[1] = r
      BY <1>9, <3>2, <1>4, <3>1, WokenKnows
    <3>3. CASE m[1] # r
      BY <1>9, <3>1, <3>3
    <3> QED BY <3>2, <3>3
  <2>2. \A m \in Loops : (loop'[m].pc = "idle" <=> loop[m].pc = "idle") /\ (loop'[m].pc = "posting" => loop[m].pc = "posting")
    BY <2>1
  <2>3. Onward
    BY <1>1, <1>5, <1>9, <2>2 DEF Onward
  <2>4. ViewTyped'
    <3>1. loop' \in [Loops -> LoopRow]
      BY <1>9, <2>1
    <3>2. cached' \in [Requests -> {None} \cup Reports]
      BY <1>4, <1>9 DEF ViewIInv, ViewTyped
    <3> QED BY <1>1, <1>3, <1>6, <1>9, <3>1, <3>2 DEF ViewIInv, ViewTyped
  <2>5. ReportsAreGenuine'
    <3>1. /\ \A q \in Requests : cmd'[q] # None => q <= clicked'
          /\ restore'.pc = "told" => \A q \in Requests : restore'.told[q] # None => Genuine(q, restore.told[q])'
      BY <1>1 DEF ViewIInv, ReportsAreGenuine, Genuine
    <3>2. ASSUME NEW j \in 1..Len(wire') PROVE Genuine(wire[j].req, wire[j].status)'
      BY <1>1, <1>7 DEF ViewIInv, ReportsAreGenuine, Genuine
    <3>3. ASSUME NEW q \in Requests, cached'[q] # None PROVE Genuine(q, cached[q])'
      <4>1. CASE q = r
        BY <1>1, <1>4, <1>9, <4>1 DEF ViewIInv, ViewTyped, Genuine
      <4>2. CASE q # r
        BY <1>1, <1>9, <3>3, <4>2 DEF ViewIInv, ViewTyped, ReportsAreGenuine, Genuine
      <4> QED BY <4>1, <4>2
    <3> QED BY <3>1, <3>2, <3>3 DEF ReportsAreGenuine
  <2>6. ASSUME NEW m \in Loops PROVE LoopKnows(m)'
    <3>1. CASE loop[m].pc # "waiting"
      BY <1>1, <2>1, <2>3, <3>1, OthersKnow
    <3>2. CASE loop[m].pc = "waiting"
      BY <3>2, <1>1, <2>1 DEF ViewIInv, LoopKnows, Genuine
    <3> QED BY <3>1, <3>2
  <2>7. EntryTrue(view)'
    <3>1. EntryTrue(v)
      BY <1>5, <1>4, <1>6 DEF EntryTrue, Genuine
    <3> QED BY <1>6, <1>9, <2>3, <3>1, EntryStays
  <2>8. PendingIsWatched'
    <3>. SUFFICES ASSUME view' # None, view'.status \in Pending
                  PROVE  Watched(view.req)' \/ restore'.pc # "idle" \/ ~connected' \/ LeftPending'
      BY DEF PendingIsWatched, Shows
    <3>1. \A q : Watched(q) => \E m \in Loops : m[1] = q /\ loop'[m].pc # "idle"
      BY <2>2 DEF Watched
    <3>2. CASE view' = view
      BY <1>1, <1>9, <3>1, <3>2 DEF ViewIInv, PendingIsWatched, Shows, LeftPending, Watched
    <3>3. CASE view' # view
      <4>1. view'.req = r /\ s \in Pending
        BY <1>6, <1>9, <3>3
      <4>2. Watched(r) \/ "revived" \in odd'
        BY <1>9, <3>3, <4>1
      <4> QED BY <3>1, <4>1, <4>2 DEF Watched, LeftPending
    <3> QED BY <3>2, <3>3
  <2> QED BY <2>4, <2>5, <2>6, <2>7, <2>8 DEF ViewIInv
<1> QED BY <1>1, <1>8, <1>9

\* The history is restored.
LEMMA RestoreKeeps ==
    ASSUME ViewIInv, RestoreRecent PROVE ViewIInv'
<1>. DEFINE told == restore.told
            reconciled == ToReconcile(told)
<1>1. /\ cmd' = cmd /\ cached' = cached /\ wire' = wire /\ connected' = connected /\ clicked' = clicked
      /\ restore.pc = "told" /\ restore' = [restore EXCEPT !.pc = "idle"]
      /\ loop' = [k \in Loops |->
             IF k[2] = "again" /\ k[1] \in reconciled THEN Settle(k[1], told[k[1]]) ELSE loop[k]]
  BY DEF RestoreRecent
<1>2. PICK recent \in SUBSET {r \in Requests : told[r] \in Outcomes} :
          /\ Recalls(told, reconciled \cup recent)
          /\ odd \subseteq odd'
          /\ (Shows(Pending) /\ view' = view /\ ~Watched(view.req) /\ told[view.req] \notin Pending) =>
                 "overlooked" \in odd'
  BY DEF RestoreRecent
<1>3. /\ told \in [Requests -> {None} \cup Reports] /\ restore'.pc = "idle" /\ clicked \in Nat
      /\ view \in {None} \cup Entries /\ EntryTrue(view) /\ loop \in [Loops -> LoopRow]
      /\ restore' \in [pc : {"idle", "asking", "told"}, told : [Requests -> {None} \cup Reports]]
  BY <1>1 DEF ViewIInv, ViewTyped
<1>4. ASSUME NEW n \in Requests, told[n] \in Pending \cup Outcomes
      PROVE  told[n] \in Reports /\ told[n] \in Statuses /\ Genuine(n, told[n]) /\ n <= clicked
  <2>1. told[n] # None
    BY <1>4, ViewAssumption DEF Statuses
  <2> QED BY <1>1, <1>4, <2>1 DEF ViewIInv, ReportsAreGenuine, Genuine, Reports, Statuses
<1>5. reconciled \subseteq Requests /\ \A n \in Requests : n \in reconciled <=> told[n] \in Pending
  BY DEF ToReconcile
<1>6. \/ view' = view
      \/ \E n \in reconciled \cup recent : view' = Reported(n, told[n])
  BY <1>2 DEF Recalls
<1>. HIDE DEF told, reconciled
<1>7. ASSUME NEW m \in Loops
      PROVE  \/ loop'[m] = loop[m] /\ (m[2] # "again" \/ m[1] \notin reconciled)
             \/ /\ loop'[m] \in LoopRow /\ loop'[m].pc \in {"waiting", "finish"} /\ m[1] <= clicked
                /\ Genuine(m[1], loop'[m].latest)
                /\ loop'[m].pc = "finish" => loop'[m].latest \notin Pending
  <2>1. CASE m[2] = "again" /\ m[1] \in reconciled
    BY <1>4, <1>5, <2>1, <1>1, SettleKnows
  <2>2. CASE ~(m[2] = "again" /\ m[1] \in reconciled)
    BY <1>1, <2>2
  <2> QED BY <2>1, <2>2
<1>8. \A m \in Loops : loop'[m] \in LoopRow /\ (loop'[m].pc = "posting" => loop[m].pc = "posting")
                        /\ (loop[m].pc # "idle" => loop'[m].pc # "idle")
  BY <1>3, <1>7
<1>9. Onward
  BY <1>1, <1>2, <1>3, <1>8 DEF Onward
<1>10. view' \in {None} \cup Entries /\ EntryTrue(view)'
  <2>1. CASE view' = view
    BY <1>3, <1>9, <2>1, EntryStays
  <2>2. ASSUME NEW n \in reconciled \cup recent, view' = Reported(n, told[n]) PROVE view' \in Entries /\ EntryTrue(view)'
    <3>1. n \in Requests /\ told[n] \in Pending \cup Outcomes
      BY <1>2, <1>5, <2>2 DEF told
    <3>2. told[n] \in Statuses /\ Genuine(n, told[n]) /\ n <= clicked /\ n \in Nat
      BY <1>4, <3>1, ViewAssumption
    <3>3. view' \in Entries /\ view'.req = n /\ view'.status = told[n]
      BY <2>2, <3>1, <3>2 DEF Reported, Entries, Created
    <3> QED BY <1>1, <3>2, <3>3 DEF EntryTrue, Genuine
  <2> QED BY <1>6, <2>1, <2>2
<1>11. ViewTyped'
  BY <1>1, <1>8, <1>3, <1>10 DEF ViewIInv, ViewTyped
<1>12. ReportsAreGenuine'
  BY <1>1, <1>3, <1>9, ReportsStay DEF ViewIInv, ReportsAreGenuine
<1>13. ASSUME NEW m \in Loops PROVE LoopKnows(m)'
  BY <1>1, <1>9, OthersKnow, <1>7 DEF LoopKnows, Genuine
<1>14. PendingIsWatched'
  <2>. SUFFICES ASSUME view' # None, view'.status \in Pending PROVE Watched(view.req)' \/ LeftPending'
    BY DEF PendingIsWatched, Shows
  <2>1. \A q : Watched(q) => \E m \in Loops : m[1] = q /\ loop'[m].pc # "idle"
    BY <1>8 DEF Watched
  <2>2. ASSUME NEW q \in reconciled PROVE \E m \in Loops : m[1] = q /\ loop'[m].pc # "idle"
    <3>1. <<q, "again">> \in Loops
      BY <1>5 DEF Loops
    <3>2. <<q, "again">>[1] = q /\ <<q, "again">>[2] = "again"
      OBVIOUS
    <3>3. loop'[<<q, "again">>].pc # "idle"
      BY <1>7, <3>1, <3>2
    <3> QED BY <3>1, <3>2, <3>3
  <2>3. CASE view' = view
    <3>1. view.req \in Requests
      BY <1>3, <2>3 DEF Entries
    <3>2. Watched(view.req) \/ view.req \in reconciled \/ "overlooked" \in odd'
      BY <1>2, <1>5, <2>3, <3>1 DEF Shows, told
    <3> QED BY <2>1, <2>2, <2>3, <3>2 DEF Watched, LeftPending
  <2>4. ASSUME NEW n \in reconciled \cup recent, view' = Reported(n, told[n]) PROVE Watched(view.req)'
    BY <2>4, <1>2, <1>5, <2>2 DEF Reported, told, Watched
  <2> QED BY <1>6, <2>3, <2>4
<1> QED BY <1>10, <1>11, <1>12, <1>13, <1>14 DEF ViewIInv

\* A step of something else.
LEMMA ViewStays ==
    ASSUME ViewIInv, UNCHANGED viewVars PROVE ViewIInv'
<1>1. /\ cmd' = cmd /\ loop' = loop /\ cached' = cached /\ view' = view /\ wire' = wire /\ connected' = connected
      /\ clicked' = clicked /\ odd' = odd /\ restore' = restore
  BY DEF viewVars
<1>2. Onward
  BY <1>1 DEF Onward, ViewIInv, ViewTyped
<1>3. ViewTyped'
  BY <1>1 DEF ViewIInv, ViewTyped
<1>4. ReportsAreGenuine'
  BY <1>1 DEF ViewIInv, ReportsAreGenuine, Genuine
<1>5. \A m \in Loops : LoopKnows(m)'
  BY <1>1, <1>2, OthersKnow
<1>6. EntryTrue(view)' /\ PendingIsWatched'
  BY <1>1, <1>2, EntryRests
<1> QED BY <1>3, <1>4, <1>5, <1>6 DEF ViewIInv

\* Every step keeps the invariant.
LEMMA ViewKeeps == ViewIInv /\ [ViewNext]_viewVars => ViewIInv'
<1>. SUFFICES ASSUME ViewIInv, [ViewNext]_viewVars PROVE ViewIInv'
  OBVIOUS
<1>1. CASE UNCHANGED viewVars
  BY <1>1, ViewStays
<1>2. CASE \E r \in Requests : Click(r) \/ Post(r) \/ Progress(r)
  BY <1>2, ClickKeeps, PostKeeps, ProgressKeeps
<1>3. CASE \E k \in Loops : Waiting(k) \/ RequestFails(k)
  BY <1>3, AnsweredKeeps, WaitKeeps, GetKeeps, DeadlineKeeps, FinishedKeeps, FailsKeeps DEF Waiting
<1>4. CASE ReceivePush \/ Restoring \/ RestoreFails \/ EntryGoes \/ Break \/ Reload
  BY <1>4, PushKeeps, RenewKeeps, AskKeeps, RestoreKeeps, RestoreFailsKeeps, GoesKeeps, BreakKeeps, ReloadKeeps
     DEF Restoring
<1> QED BY <1>1, <1>2, <1>3, <1>4 DEF ViewNext

\* What a page shows of commands: for any requests, and however pushes, answers,
\* polls and restored histories overtake each other while requests fail,
\* connections break and the page reloads, an outcome it shows is the command's
\* own, and an entry it shows as pending is waited for, with the exceptions the
\* property names (commandResultCanReplace, reconcileCommandStatus).
THEOREM ShownCommandsAreTrue == ViewSpec => []ViewInv
<1>1. ViewInit => ViewIInv
  BY ViewBegins
<1>2. ViewIInv /\ [ViewNext]_viewVars => ViewIInv'
  BY ViewKeeps
<1>3. ViewIInv => ViewInv
  BY ViewHolds
<1> QED BY <1>1, <1>2, <1>3, PTL DEF ViewSpec

(***************************************************************************)
(* Commands without a worker.  One call serves a command, the one that     *)
(* created it: the unique index is what every other fact rests on.  What   *)
(* it has done to the command follows from the step it is at, what the     *)
(* document of a command says follows from its outcomes, and whatever is   *)
(* still open has its call, unless that one was stopped or met a failing   *)
(* call.                                                                   *)
(***************************************************************************)

\* A call that has created its command and has not ended.
Serves(i) == ~At(i, {"idle", "check", "create", "done"})

Whole == IF allowance.pulse THEN {"press", "release"} ELSE {"press"}

ServingPcs == {"idle", "check", "create", "configure", "audit authorized", "audit dispatched", "announce",
               "send", "mark", "audit mark", "health", "finish", "audit", "done"}
ServingRow == [pc : ServingPcs, phase : {"press", "release"}, outcome : FinalStatuses \cup {"none"},
               caught : BOOLEAN]
OrderRow == [status : FinalStatuses \cup {"none", "dispatched", "accepted"}, settled : Seq(FinalStatuses),
             confirmed : SUBSET {"press", "release"}, presses : Nat]

ServingTyped ==
    /\ ServingTypeOK
    /\ serving \in [Deliveries -> ServingRow]
    /\ DOMAIN allowance = {"calls", "feedback", "pulse", "failures", "deaths"}
    /\ Arrives \subseteq Deliveries
    /\ \A i \in Arrives : OrderOf(i) \in Orders

\* The unique index: one call serves a command, after it was created.
OneServes ==
    /\ \A i, k \in Arrives : OrderOf(i) = OrderOf(k) /\ Serves(i) /\ Serves(k) => i = k
    /\ \A i \in Arrives : Serves(i) => order[OrderOf(i)].status # "none"

\* What the call that serves a command has done to it, by the step it is at.
BeforePress(i) ==
    At(i, {"configure", "audit authorized", "audit dispatched", "announce"})
    \/ (At(i, {"send"}) /\ serving[i].phase = "press")

Delivers(i) ==
    LET s == serving[i]
        o == order[OrderOf(i)]
    IN
    /\ BeforePress(i) => s.phase = "press" /\ o.presses = 0 /\ o.confirmed = {}
    /\ s.caught => At(i, {"health", "finish", "audit"})
    /\ At(i, {"mark", "audit mark"}) =>
          s.phase = "press" /\ (s.outcome = "acknowledged" => o.confirmed = {"press"})
    /\ (At(i, {"send"}) /\ s.phase = "release") => allowance.pulse /\ o.confirmed = {"press"}
    /\ At(i, {"mark", "audit mark", "health", "finish"}) => s.outcome # "none"
    /\ (At(i, {"health", "finish"}) /\ s.outcome = "acknowledged") => ~s.caught /\ o.confirmed = Whole

Concludes(i) ==
    LET s == serving[i]
        o == order[OrderOf(i)]
    IN
    /\ (~s.caught /\ ~At(i, {"audit"})) => o.settled = <<>>
    /\ At(i, {"audit"}) => o.settled # <<>>
    /\ (At(i, {"audit"}) /\ ~s.caught) => o.settled = <<s.outcome>>
    /\ (s.caught /\ At(i, {"health", "finish"})) =>
          \/ o.settled = <<>>
          \/ /\ Len(o.settled) = 1 /\ o.settled[1] # "acknowledged"
             /\ s.outcome = "failed" /\ OrderOf(i) \in faulted

\* What the document of a command says.
Recorded(c) ==
    LET o == order[c] IN
    /\ o.status = "none" => o = NoOrder
    /\ o.presses <= 1
    /\ o.status \in FinalStatuses <=> o.settled # <<>>
    /\ o.settled # <<>> => o.status = o.settled[Len(o.settled)]
    /\ Len(o.settled) <= 2
    /\ Len(o.settled) = 2 => o.settled[1] # "acknowledged" /\ o.settled[2] = "failed" /\ c \in faulted
    /\ o.status = "acknowledged" => o.confirmed = Whole

\* The output is on because of a press no release of its command followed.
OnIsPressed == output = "on" => \E c \in Orders : order[c].presses = 1 /\ "release" \notin order[c].confirmed

\* Who is to conclude a command that is not, and to say that health waits no
\* more.
SomebodyConcludes ==
    \A c \in Orders \ faulted :
        order[c].status \in {"dispatched", "accepted"} => \E i \in Arrives : OrderOf(i) = c /\ Serves(i)
SomebodyReports ==
    (faulted = {} /\ health = "waiting") =>
        \E i \in Arrives : At(i, {"send", "mark", "audit mark", "health"})

\* A call that has not created its command starts from the press.
Fresh(i) == At(i, {"idle", "check", "create"}) => serving[i].phase = "press" /\ ~serving[i].caught

ServerlessIInv ==
    /\ ServingTyped /\ OneServes
    /\ \A i \in Arrives : Fresh(i)
    /\ \A i \in Arrives : Serves(i) => Delivers(i) /\ Concludes(i)
    /\ \A c \in Orders : Recorded(c)
    /\ OnIsPressed /\ SomebodyConcludes /\ SomebodyReports

\* The inductive invariant gives the properties.
LEMMA ServerlessHolds == ServerlessIInv => ServerlessInv
<1>. SUFFICES ASSUME ServerlessIInv PROVE ServerlessInv
  OBVIOUS
<1>. USE DEF ServerlessIInv
<1>1. ServingTypeOK /\ PressedOnce /\ OutcomesStand
  BY DEF ServingTyped, Recorded, PressedOnce, OutcomesStand
<1>2. AcknowledgedIsConfirmed
  <2>1. \A c \in Orders : order[c].status = "acknowledged" => order[c].confirmed = Whole
    BY DEF Recorded
  <2>2. (allowance.pulse /\ output = "on") => \E c \in Orders : order[c].status \notin {"none", "acknowledged"}
    <3>. SUFFICES ASSUME allowance.pulse, output = "on"
                  PROVE  \E c \in Orders : order[c].status \notin {"none", "acknowledged"}
      OBVIOUS
    <3>1. PICK c \in Orders : order[c].presses = 1 /\ "release" \notin order[c].confirmed
      BY DEF OnIsPressed
    <3>2. order[c].status # "none"
      BY <3>1 DEF Recorded, NoOrder
    <3>3. order[c].status # "acknowledged"
      BY <3>1, <2>1 DEF Whole
    <3> QED BY <3>2, <3>3
  <2> QED BY <2>1, <2>2 DEF AcknowledgedIsConfirmed, Whole
<1>3. UndisturbedConcludes
  <2>1. ASSUME NEW c \in Orders \ faulted, Served(c), order[c].status # "none" PROVE order[c].status \in FinalStatuses
    BY <2>1 DEF Served, Serves, At, SomebodyConcludes, ServingTyped, ServingTypeOK
  <2>2. ASSUME faulted = {}, \A c \in Orders : Served(c) PROVE health # "waiting"
    BY <2>2 DEF SomebodyReports, Served, At, ServingTyped
  <2> QED BY <2>1, <2>2 DEF UndisturbedConcludes
<1> QED BY <1>1, <1>2, <1>3 DEF ServerlessInv

\* It holds where nothing was sent.
LEMMA ServerlessBegins == ServingInit => ServerlessIInv
<1>. SUFFICES ASSUME ServingInit PROVE ServerlessIInv
  OBVIOUS
<1>. USE DEF ServingInit
<1>1. ServingTyped
  BY ServingAssumption DEF ServingTyped, ServingRow, ServingPcs, ServingTypeOK, NoOrder, NoServing, FinalStatuses, Arrives, OrderOf
<1>2. \A i \in Arrives : ~Serves(i)
  BY <1>1 DEF Serves, At, NoServing, ServingTyped, ServingRow
<1>3. \A c \in Orders : Recorded(c)
  <2>. SUFFICES ASSUME NEW c \in Orders PROVE Recorded(c)
    OBVIOUS
  <2>1. /\ order[c] = NoOrder /\ order[c].status = "none" /\ order[c].settled = <<>> /\ order[c].presses = 0
        /\ Len(<<>>) = 0
    BY DEF NoOrder
  <2>2. "none" \notin FinalStatuses /\ "none" # "acknowledged" /\ 0 <= 2 /\ 0 <= 1 /\ 0 # 2
    BY DEF FinalStatuses
  <2> QED BY <2>1, <2>2, Zenon DEF Recorded
<1>4. \A i \in Arrives : Fresh(i)
  BY <1>1 DEF Fresh, At, NoServing, ServingTyped
<1> QED BY <1>1, <1>2, <1>3, <1>4 DEF ServerlessIInv, OneServes, OnIsPressed, SomebodyConcludes, SomebodyReports, NoOrder

\* A step of one call: the other calls and the other commands stay as they are.
OnlyOf(i) ==
    /\ \A k \in Arrives \ {i} : serving'[k] = serving[k]
    /\ \A d \in Orders \ {OrderOf(i)} : order'[d] = order[d]
    /\ faulted \subseteq faulted'
    /\ allowance'.calls = allowance.calls /\ allowance'.pulse = allowance.pulse
    /\ DOMAIN allowance' = DOMAIN allowance

\* What the step must do to its own call and command for the rest to follow.
KeepsOwn(i) ==
    LET c == OrderOf(i)
        reporting == {"send", "mark", "audit mark", "health"}
    IN
    /\ Fresh(i)'
    /\ Serves(i)' => Serves(i) \/ order[c].status = "none"
    /\ Serves(i) \/ order[c].status = "none" \/ order' = order
    /\ order'[c].status = "none" => order[c].status = "none" /\ ~Serves(i)'
    /\ Serves(i)' \/ c \in faulted' \/ order'[c].status \notin {"dispatched", "accepted"}
          \/ (order' = order /\ ~Serves(i))
    /\ At(i, reporting)' \/ faulted' # {} \/ health' # "waiting" \/ (health' = health /\ ~At(i, reporting))

\* A step of one call that keeps its own part keeps the others'.
LEMMA RestFollows ==
    ASSUME ServerlessIInv, NEW i \in Arrives, OnlyOf(i), KeepsOwn(i), ServingTyped',
           Serves(i)' => Delivers(i)' /\ Concludes(i)', Recorded(OrderOf(i))', OnIsPressed'
    PROVE  ServerlessIInv'
<1>. DEFINE c == OrderOf(i)
<1>1. /\ Arrives' = Arrives /\ Whole' = Whole
      /\ \A k \in Arrives : OrderOf(k)' = OrderOf(k) /\ OrderOf(k) \in Orders
  BY DEF OnlyOf, Arrives, OrderOf, Whole, ServerlessIInv, ServingTyped
<1>2. \A k \in Arrives \ {i} : Serves(k)' = Serves(k)
  BY DEF OnlyOf, Serves, At
<1>3. OneServes'
  <2>1. ASSUME NEW k \in Arrives \ {i}, Serves(k)' PROVE order'[OrderOf(k)].status # "none" /\ (OrderOf(k) = c => ~Serves(i)')
    BY <1>2, <2>1, <1>1 DEF ServerlessIInv, OneServes, KeepsOwn, OnlyOf
  <2>2. Serves(i)' => order'[c].status # "none"
    BY DEF KeepsOwn
  <2>3. ASSUME NEW j \in Arrives, NEW k \in Arrives, OrderOf(j) = OrderOf(k), Serves(j)', Serves(k)' PROVE j = k
    BY <2>1, <2>3, <1>2 DEF ServerlessIInv, OneServes
  <2>4. \A k \in Arrives : Serves(k)' => order'[OrderOf(k)].status # "none"
    BY <2>1, <2>2
  <2> QED BY <1>1, <2>3, <2>4 DEF OneServes
<1>4. ASSUME NEW k \in Arrives \ {i}, Serves(k)' PROVE Delivers(k)' /\ Concludes(k)'
  <2>1. Serves(k) /\ Delivers(k) /\ Concludes(k) /\ order[OrderOf(k)].status # "none"
    BY <1>2, <1>4 DEF ServerlessIInv, OneServes
  <2>2. order'[OrderOf(k)] = order[OrderOf(k)]
    <3>1. CASE OrderOf(k) = c
      BY <2>1, <3>1 DEF ServerlessIInv, OneServes, KeepsOwn
    <3>2. CASE OrderOf(k) # c
      BY <1>1, <3>2 DEF OnlyOf
    <3> QED BY <3>1, <3>2
  <2>3. OrderOf(k)' = OrderOf(k) /\ serving'[k] = serving[k] /\ OrderOf(k) \in Orders
    BY <1>1 DEF OnlyOf
  <2>4. Delivers(k)'
    BY <2>1, <2>2, <2>3, <1>1 DEF Delivers, At, BeforePress, OnlyOf
  <2>5. Concludes(k)'
    BY <2>1, <2>2, <2>3 DEF Concludes, At, OnlyOf
  <2> QED BY <2>4, <2>5
<1>5. ASSUME NEW d \in Orders PROVE Recorded(d)'
  <2>1. CASE d = c
    BY <1>1, <2>1 DEF c
  <2>2. CASE d # c
    BY <2>2, <1>1 DEF OnlyOf, ServerlessIInv, Recorded
  <2> QED BY <2>1, <2>2
<1>6. SomebodyConcludes'
  <2>. SUFFICES ASSUME NEW d \in Orders \ faulted', order'[d].status \in {"dispatched", "accepted"}
                PROVE  \E k \in Arrives : OrderOf(k) = d /\ Serves(k)'
    BY <1>1 DEF SomebodyConcludes
  <2>1. CASE d = c /\ Serves(i)'
    BY <2>1
  <2>2. CASE ~(d = c /\ Serves(i)')
    BY <2>2, <1>2 DEF OnlyOf, KeepsOwn, ServerlessIInv, SomebodyConcludes
  <2> QED BY <2>1, <2>2
<1>7. SomebodyReports'
  <2>. DEFINE reporting == {"send", "mark", "audit mark", "health"}
  <2>. SUFFICES ASSUME faulted' = {}, health' = "waiting" PROVE \E k \in Arrives : At(k, reporting)'
    BY <1>1 DEF SomebodyReports
  <2>1. CASE At(i, reporting)'
    BY <2>1
  <2>2. CASE ~At(i, reporting)'
    BY <2>2 DEF KeepsOwn, OnlyOf, ServerlessIInv, SomebodyReports, At
  <2> QED BY <2>1, <2>2
<1> QED
  <2>1. \A k \in Arrives' : Serves(k)' => Delivers(k)' /\ Concludes(k)'
    BY <1>1, <1>4
  <2>2. \A k \in Arrives' : Fresh(k)'
    BY <1>1 DEF KeepsOwn, OnlyOf, Fresh, At, ServerlessIInv
  <2> QED BY <1>3, <1>5, <1>6, <1>7, <2>1, <2>2 DEF ServerlessIInv

\* What a call knows of itself.
LEMMA OwnKnown ==
    ASSUME ServerlessIInv, NEW i \in Arrives
    PROVE  /\ i \in Deliveries /\ OrderOf(i) \in Orders /\ Recorded(OrderOf(i)) /\ Fresh(i)
           /\ serving[i].pc \in ServingPcs /\ serving[i].phase \in {"press", "release"}
           /\ serving[i].outcome \in FinalStatuses \cup {"none"} /\ serving[i].caught \in BOOLEAN
           /\ order[OrderOf(i)] \in OrderRow
           /\ Serves(i) => Delivers(i) /\ Concludes(i) /\ order[OrderOf(i)].status # "none"
BY DEF ServerlessIInv, ServingTyped, ServingTypeOK, OneServes, ServingPcs, ServingRow, OrderRow

\* A call goes to s: its other fields are typed, the others stay.
LEMMA CallGoes ==
    ASSUME ServerlessIInv, NEW i \in Arrives, NEW s,
           s \in ServingRow,
           serving' = [serving EXCEPT ![i] = s]
    PROVE  /\ serving'[i] = s
           /\ \A k \in Arrives \ {i} : serving'[k] = serving[k]
           /\ serving' \in [Deliveries -> ServingRow]
BY DEF ServerlessIInv, ServingTyped

\* The call goes on to pc and keeps its other fields.
LEMMA ServingMoves ==
    ASSUME ServerlessIInv, NEW i \in Arrives, NEW pc \in ServingPcs, Moves(i, pc)
    PROVE  /\ serving'[i].pc = pc /\ serving'[i].phase = serving[i].phase
           /\ serving'[i].outcome = serving[i].outcome /\ serving'[i].caught = serving[i].caught
           /\ \A k \in Arrives \ {i} : serving'[k] = serving[k]
           /\ serving' \in [Deliveries -> ServingRow]
<1>. DEFINE s == [serving[i] EXCEPT !.pc = pc]
<1>1. serving[i] \in ServingRow
  BY DEF ServerlessIInv, ServingTyped
<1>2. /\ s \in ServingRow
      /\ s.pc = pc /\ s.phase = serving[i].phase /\ s.outcome = serving[i].outcome /\ s.caught = serving[i].caught
  BY <1>1 DEF ServingRow
<1>3. serving' = [serving EXCEPT ![i] = s]
  BY DEF Moves
<1>. HIDE DEF s
<1> QED BY <1>2, <1>3, CallGoes

\* A step that changes neither the command nor the output.
LEMMA RecordStays ==
    ASSUME ServerlessIInv, NEW i \in Arrives, order' = order, output' = output, faulted \subseteq faulted',
           allowance'.calls = allowance.calls, allowance'.pulse = allowance.pulse
    PROVE  Recorded(OrderOf(i))' /\ OnIsPressed'
BY OwnKnown DEF OrderOf, Whole, Recorded, OnIsPressed, ServerlessIInv

\* The step of each handler, one lemma each: the known request id.
LEMMA AdmitKeeps ==
    ASSUME ServerlessIInv, NEW i \in Arrives, AdmitServing(i) PROVE ServerlessIInv'
<1>1. PICK pc \in {"check", "done"} : Moves(i, pc)
  BY DEF AdmitServing
<1>2. OnlyOf(i) /\ ServingTyped'
  BY <1>1, ServingMoves DEF AdmitServing, OnlyOf, ServerlessIInv, ServingTyped, ServingTypeOK, ServingPcs, Arrives, OrderOf
<1>3. ~Serves(i) /\ ~Serves(i)' /\ serving'[i].pc = pc
  BY <1>1, ServingMoves DEF AdmitServing, Serves, At, ServingPcs
<1>4. KeepsOwn(i)
  BY <1>3, <1>1, ServingMoves, OwnKnown DEF KeepsOwn, Fresh, AdmitServing, At, ServingPcs
<1>5. Recorded(OrderOf(i))' /\ OnIsPressed'
  BY RecordStays DEF AdmitServing
<1> QED BY <1>2, <1>3, <1>4, <1>5, RestFollows

\* The cooldown.
LEMMA CheckKeeps ==
    ASSUME ServerlessIInv, NEW i \in Arrives, CheckServing(i) PROVE ServerlessIInv'
<1>1. PICK pc \in {"create", "done"} : Moves(i, pc)
  BY DEF CheckServing
<1>2. OnlyOf(i) /\ ServingTyped'
  BY <1>1, ServingMoves DEF CheckServing, OnlyOf, ServerlessIInv, ServingTyped, ServingTypeOK, ServingPcs, Arrives, OrderOf
<1>3. ~Serves(i) /\ ~Serves(i)' /\ serving'[i].pc = pc
  BY <1>1, ServingMoves DEF CheckServing, Serves, At, ServingPcs
<1>4. KeepsOwn(i)
  BY <1>3, <1>1, ServingMoves, OwnKnown DEF KeepsOwn, Fresh, CheckServing, At, ServingPcs
<1>5. Recorded(OrderOf(i))' /\ OnIsPressed'
  BY RecordStays DEF CheckServing
<1> QED BY <1>2, <1>3, <1>4, <1>5, RestFollows

\* The audits before the request.
LEMMA AuditKeeps ==
    ASSUME ServerlessIInv, NEW i \in Arrives, AuditServing(i) PROVE ServerlessIInv'
<1>1. /\ serving[i].pc \in {"audit authorized", "audit dispatched"}
      /\ \E pc \in {"audit dispatched", "announce"} : Moves(i, pc)
  BY DEF AuditServing, At
<1>2. PICK pc \in {"audit dispatched", "announce"} : Moves(i, pc)
  BY <1>1
<1>3. OnlyOf(i) /\ ServingTyped'
  BY <1>2, ServingMoves DEF AuditServing, OnlyOf, ServerlessIInv, ServingTyped, ServingTypeOK, ServingPcs, Arrives, OrderOf
<1>4. /\ serving'[i].pc = pc /\ serving'[i].phase = serving[i].phase
      /\ serving'[i].outcome = serving[i].outcome /\ serving'[i].caught = serving[i].caught
  BY <1>2, ServingMoves DEF ServingPcs
<1>5. Serves(i) /\ Serves(i)'
  BY <1>1, <1>4 DEF Serves, At
<1>6. KeepsOwn(i)
  BY <1>1, <1>4, <1>5, OwnKnown DEF KeepsOwn, Fresh, AuditServing, At
<1>7. Recorded(OrderOf(i))' /\ OnIsPressed'
  BY RecordStays DEF AuditServing
<1>8. Delivers(i)' /\ Concludes(i)'
  <2>1. Delivers(i) /\ Concludes(i) /\ order' = order /\ OrderOf(i)' = OrderOf(i)
    BY <1>5, OwnKnown DEF AuditServing, OrderOf
  <2> QED BY <1>1, <1>4, <2>1 DEF Delivers, Concludes, BeforePress, At
<1> QED BY <1>3, <1>6, <1>7, <1>8, RestFollows

\* Health is set to waiting.
LEMMA AnnounceKeeps ==
    ASSUME ServerlessIInv, NEW i \in Arrives, AnnounceWaiting(i) PROVE ServerlessIInv'
<1>1. serving[i].pc = "announce" /\ Moves(i, "send")
  BY DEF AnnounceWaiting, At
<1>2. OnlyOf(i) /\ ServingTyped'
  BY <1>1, ServingMoves DEF AnnounceWaiting, OnlyOf, ServerlessIInv, ServingTyped, ServingTypeOK, ServingPcs, Arrives, OrderOf
<1>3. /\ serving'[i].pc = "send" /\ serving'[i].phase = serving[i].phase
      /\ serving'[i].outcome = serving[i].outcome /\ serving'[i].caught = serving[i].caught
  BY <1>1, ServingMoves DEF ServingPcs
<1>4. Serves(i) /\ Serves(i)'
  BY <1>1, <1>3 DEF Serves, At
<1>5. KeepsOwn(i)
  BY <1>1, <1>3, <1>4, OwnKnown DEF KeepsOwn, Fresh, AnnounceWaiting, At
<1>6. Recorded(OrderOf(i))' /\ OnIsPressed'
  BY RecordStays DEF AnnounceWaiting
<1>7. Delivers(i)' /\ Concludes(i)'
  <2>1. Delivers(i) /\ Concludes(i) /\ order' = order /\ OrderOf(i)' = OrderOf(i)
    BY <1>4, OwnKnown DEF AnnounceWaiting, OrderOf
  <2> QED BY <1>1, <1>3, <2>1 DEF Delivers, Concludes, BeforePress, At
<1> QED BY <1>2, <1>5, <1>6, <1>7, RestFollows

\* Health is reported.
LEMMA ReportKeeps ==
    ASSUME ServerlessIInv, NEW i \in Arrives, ReportHealth(i) PROVE ServerlessIInv'
<1>1. serving[i].pc = "health" /\ Moves(i, "finish")
  BY DEF ReportHealth, At
<1>2. health' \in {"online", "unverified", "degraded"}
  BY DEF ReportHealth, HealthAfter
<1>3. OnlyOf(i) /\ ServingTyped'
  BY <1>1, <1>2, ServingMoves DEF ReportHealth, OnlyOf, ServerlessIInv, ServingTyped, ServingTypeOK, ServingPcs, Arrives, OrderOf
<1>4. /\ serving'[i].pc = "finish" /\ serving'[i].phase = serving[i].phase
      /\ serving'[i].outcome = serving[i].outcome /\ serving'[i].caught = serving[i].caught
  BY <1>1, ServingMoves DEF ServingPcs
<1>5. Serves(i) /\ Serves(i)'
  BY <1>1, <1>4 DEF Serves, At
<1>6. KeepsOwn(i)
  BY <1>2, <1>4, <1>5, OwnKnown DEF KeepsOwn, Fresh, ReportHealth, At
<1>7. Recorded(OrderOf(i))' /\ OnIsPressed'
  BY RecordStays DEF ReportHealth
<1>8. Delivers(i)' /\ Concludes(i)'
  <2>1. Delivers(i) /\ Concludes(i) /\ order' = order /\ OrderOf(i)' = OrderOf(i) /\ Whole' = Whole /\ faulted' = faulted
    BY <1>5, OwnKnown DEF ReportHealth, OrderOf, Whole
  <2> QED BY <1>1, <1>4, <2>1 DEF Delivers, Concludes, BeforePress, At
<1> QED BY <1>3, <1>6, <1>7, <1>8, RestFollows

\* The outcome is audited.
LEMMA OutcomeAuditKeeps ==
    ASSUME ServerlessIInv, NEW i \in Arrives, AuditOutcome(i) PROVE ServerlessIInv'
<1>1. serving[i].pc = "audit" /\ Moves(i, "done")
  BY DEF AuditOutcome, At
<1>2. OnlyOf(i) /\ ServingTyped'
  BY <1>1, ServingMoves DEF AuditOutcome, OnlyOf, ServerlessIInv, ServingTyped, ServingTypeOK, ServingPcs, Arrives, OrderOf
<1>3. serving'[i].pc = "done" /\ Serves(i) /\ ~Serves(i)'
  BY <1>1, ServingMoves DEF ServingPcs, Serves, At
<1>4. order[OrderOf(i)].status \in FinalStatuses
  BY <1>1, <1>3, OwnKnown DEF Concludes, Recorded, At
<1>5. KeepsOwn(i)
  BY <1>1, <1>3, <1>4 DEF KeepsOwn, Fresh, AuditOutcome, At, FinalStatuses
<1>6. Recorded(OrderOf(i))' /\ OnIsPressed'
  BY RecordStays DEF AuditOutcome
<1> QED BY <1>2, <1>3, <1>5, <1>6, RestFollows

\* A call whose try met an error.
LEMMA CallCatches ==
    ASSUME ServerlessIInv, NEW i \in Arrives, NEW outcome \in FinalStatuses, Catches(i, outcome)
    PROVE  /\ serving'[i].pc = "health" /\ serving'[i].phase = serving[i].phase
           /\ serving'[i].outcome = outcome /\ serving'[i].caught = TRUE
           /\ \A k \in Arrives \ {i} : serving'[k] = serving[k]
           /\ serving' \in [Deliveries -> ServingRow]
<1>. DEFINE s == [serving[i] EXCEPT !.pc = "health", !.outcome = outcome, !.caught = TRUE]
<1>1. serving[i] \in ServingRow
  BY DEF ServerlessIInv, ServingTyped
<1>2. /\ s \in ServingRow
      /\ s.pc = "health" /\ s.phase = serving[i].phase /\ s.outcome = outcome /\ s.caught = TRUE
  BY <1>1 DEF ServingRow, ServingPcs
<1>3. serving' = [serving EXCEPT ![i] = s]
  BY DEF Catches
<1>. HIDE DEF s
<1> QED BY <1>2, <1>3, CallGoes

\* A command is saved with a status.
LEMMA OrderSaved ==
    ASSUME ServerlessIInv, NEW i \in Arrives,
           NEW status \in FinalStatuses \cup {"dispatched", "accepted"}, SavesOrder(OrderOf(i), status)
    PROVE  LET c == OrderOf(i) IN
           /\ order'[c].status = status
           /\ order'[c].presses = order[c].presses /\ order'[c].confirmed = order[c].confirmed
           /\ status \notin FinalStatuses => order'[c].settled = order[c].settled
           /\ status \in FinalStatuses => order'[c].settled = Append(order[c].settled, status)
           /\ order' \in [Orders -> OrderRow]
           /\ \A d \in Orders \ {c} : order'[d] = order[d]
           /\ output' = output => OnIsPressed'
<1>. DEFINE c == OrderOf(i)
            settled == IF status \in FinalStatuses THEN Append(order[c].settled, status) ELSE order[c].settled
            o == [order[c] EXCEPT !.status = status, !.settled = settled]
<1>1. c \in Orders /\ order[c] \in OrderRow /\ order \in [Orders -> OrderRow]
  BY OwnKnown DEF ServerlessIInv, ServingTyped, ServingTypeOK, OrderRow
<1>2. settled \in Seq(FinalStatuses)
  BY <1>1 DEF OrderRow
<1>3. /\ o \in OrderRow /\ o.status = status /\ o.presses = order[c].presses
      /\ o.confirmed = order[c].confirmed /\ o.settled = settled
  <2>. HIDE DEF settled, c
  <2> QED BY <1>1, <1>2 DEF OrderRow
<1>4. order' = [order EXCEPT ![c] = o]
  BY DEF SavesOrder
<1>5. order'[c] = o /\ order' \in [Orders -> OrderRow] /\ \A d \in Orders \ {c} : order'[d] = order[d]
  <2>. HIDE DEF o, c
  <2> QED BY <1>1, <1>3, <1>4
<1>6. output' = output => OnIsPressed'
  <2>. HIDE DEF o, c
  <2>1. \A d \in Orders : order'[d].presses = order[d].presses /\ order'[d].confirmed = order[d].confirmed
    BY <1>3, <1>5
  <2> QED BY <2>1 DEF OnIsPressed, ServerlessIInv
<1> QED
  <2>. HIDE DEF o
  <2> QED BY <1>3, <1>5, <1>6

\* The command is created, or the index refuses it.
LEMMA CreateKeeps ==
    ASSUME ServerlessIInv, NEW i \in Arrives, CreateServing(i) PROVE ServerlessIInv'
<1>. DEFINE c == OrderOf(i)
<1>. /\ serving[i].pc = "create" /\ ~Serves(i)
     /\ output' = output /\ health' = health /\ faulted' = faulted /\ allowance' = allowance /\ OrderOf(i)' = OrderOf(i)
  BY DEF CreateServing, At, Serves, OrderOf
<1>1. CASE order[c].status = "none"
  <2>1. SavesOrder(c, "dispatched") /\ Moves(i, "configure")
    BY <1>1 DEF CreateServing
  <2>2. /\ order[c].settled = <<>> /\ order[c].presses = 0 /\ order[c].confirmed = {}
    BY <1>1, OwnKnown DEF Recorded, NoOrder
  <2>3. /\ order'[c].status = "dispatched" /\ order'[c].settled = <<>> /\ order'[c].presses = 0
        /\ order'[c].confirmed = {} /\ order' \in [Orders -> OrderRow]
        /\ (\A d \in Orders \ {c} : order'[d] = order[d]) /\ OnIsPressed'
    BY <2>1, <2>2, OrderSaved DEF FinalStatuses
  <2>4. /\ serving'[i].pc = "configure" /\ serving'[i].phase = serving[i].phase
        /\ serving'[i].outcome = serving[i].outcome /\ serving'[i].caught = serving[i].caught
        /\ ~serving[i].caught /\ serving[i].phase = "press"
    BY <2>1, ServingMoves, OwnKnown DEF ServingPcs, Fresh, At
  <2>5. OnlyOf(i) /\ ServingTyped'
    BY <2>1, <2>3, ServingMoves DEF OnlyOf, ServerlessIInv, ServingTyped, ServingTypeOK, OrderRow, ServingPcs, Arrives, OrderOf
  <2>6. Serves(i)'
    BY <2>4 DEF Serves, At
  <2>7. KeepsOwn(i)
    BY <1>1, <2>3, <2>4, <2>6 DEF KeepsOwn, Fresh, At
  <2>8. Delivers(i)' /\ Concludes(i)'
    BY <2>3, <2>4 DEF Delivers, Concludes, BeforePress, At
  <2>9. Recorded(OrderOf(i))'
    BY <2>3 DEF FinalStatuses, Recorded
  <2> QED BY <2>3, <2>5, <2>7, <2>8, <2>9, RestFollows
<1>2. CASE order[c].status # "none"
  <2>1. Moves(i, "done") /\ order' = order
    BY <1>2 DEF CreateServing
  <2>2. OnlyOf(i) /\ ServingTyped'
    BY <2>1, ServingMoves DEF OnlyOf, ServerlessIInv, ServingTyped, ServingTypeOK, ServingPcs, Arrives, OrderOf
  <2>3. ~Serves(i)' /\ serving'[i].pc = "done"
    BY <2>1, ServingMoves DEF Serves, At, ServingPcs
  <2>4. KeepsOwn(i)
    BY <2>3, <2>1 DEF KeepsOwn, Fresh, At
  <2>5. Recorded(OrderOf(i))' /\ OnIsPressed'
    BY <2>1, RecordStays
  <2> QED BY <2>2, <2>3, <2>4, <2>5, RestFollows
<1> QED BY <1>1, <1>2

\* The configuration is read.
LEMMA ConfigureKeeps ==
    ASSUME ServerlessIInv, NEW i \in Arrives, Configure(i) PROVE ServerlessIInv'
<1>1. /\ serving[i].pc = "configure" /\ order' = order /\ output' = output
      /\ health' = health /\ faulted' = faulted /\ allowance' = allowance /\ OrderOf(i)' = OrderOf(i)
  BY DEF Configure, At, OrderOf
<1>2. Serves(i) /\ Delivers(i) /\ Concludes(i) /\ order[OrderOf(i)].status # "none"
  BY <1>1, OwnKnown DEF Serves, At
<1>3. /\ serving' \in [Deliveries -> ServingRow] /\ \A k \in Arrives \ {i} : serving'[k] = serving[k]
      /\ serving'[i].phase = serving[i].phase
      /\ \/ serving'[i].pc = "audit authorized" /\ serving'[i].caught = serving[i].caught
         \/ serving'[i].pc = "finish" /\ serving'[i].caught = TRUE /\ serving'[i].outcome = "rejected"
  <2>1. CASE Moves(i, "audit authorized")
    BY <2>1, ServingMoves DEF ServingPcs
  <2>2. CASE ~Moves(i, "audit authorized")
    <3>. DEFINE s == [serving[i] EXCEPT !.pc = "finish", !.outcome = "rejected", !.caught = TRUE]
    <3>1. serving[i] \in ServingRow
      BY DEF ServerlessIInv, ServingTyped
    <3>2. /\ s \in ServingRow
          /\ s.pc = "finish" /\ s.phase = serving[i].phase /\ s.outcome = "rejected" /\ s.caught = TRUE
      BY <3>1 DEF ServingRow, ServingPcs, FinalStatuses
    <3>3. serving' = [serving EXCEPT ![i] = s]
      BY <2>2 DEF Configure
    <3>. HIDE DEF s
    <3> QED BY <3>2, <3>3, CallGoes
  <2> QED BY <2>1, <2>2
<1>4. OnlyOf(i) /\ ServingTyped'
  BY <1>1, <1>3 DEF OnlyOf, ServerlessIInv, ServingTyped, ServingTypeOK, Arrives, OrderOf
<1>5. Serves(i)'
  BY <1>3 DEF Serves, At
<1>6. KeepsOwn(i)
  BY <1>1, <1>2, <1>3, <1>5 DEF KeepsOwn, Fresh, At
<1>7. Recorded(OrderOf(i))' /\ OnIsPressed'
  BY <1>1, RecordStays
<1>8. Delivers(i)'
  BY <1>1, <1>2, <1>3 DEF Delivers, BeforePress, At
<1>9. Concludes(i)'
  BY <1>1, <1>2, <1>3 DEF Concludes, Delivers, At
<1> QED BY <1>4, <1>6, <1>7, <1>8, <1>9, RestFollows

\* The acceptance is recorded.
LEMMA MarkKeeps ==
    ASSUME ServerlessIInv, NEW i \in Arrives, MarkAccepted(i) PROVE ServerlessIInv'
<1>. DEFINE c == OrderOf(i)
<1>1. /\ serving[i].pc = "mark" /\ output' = output /\ health' = health /\ faulted' = faulted
      /\ allowance' = allowance /\ OrderOf(i)' = c /\ SavesOrder(c, "accepted") /\ Moves(i, "audit mark")
  BY DEF MarkAccepted, At, OrderOf
<1>2. /\ Serves(i) /\ Delivers(i) /\ Concludes(i) /\ Recorded(c)
  BY <1>1, OwnKnown DEF Serves, At
<1>3. /\ ~serving[i].caught /\ order[c].settled = <<>>
  BY <1>1, <1>2 DEF Delivers, Concludes, At
<1>4. /\ order'[c].status = "accepted" /\ order'[c].settled = <<>> /\ order'[c].presses = order[c].presses
      /\ order'[c].confirmed = order[c].confirmed /\ order' \in [Orders -> OrderRow]
      /\ (\A d \in Orders \ {c} : order'[d] = order[d]) /\ OnIsPressed'
  <2>1. "accepted" \in FinalStatuses \cup {"dispatched", "accepted"} /\ "accepted" \notin FinalStatuses
    BY DEF FinalStatuses
  <2> QED BY <1>1, <1>3, <2>1, OrderSaved
<1>5. /\ serving'[i].pc = "audit mark" /\ serving'[i].phase = serving[i].phase
      /\ serving'[i].outcome = serving[i].outcome /\ serving'[i].caught = serving[i].caught
  BY <1>1, ServingMoves DEF ServingPcs
<1>6. OnlyOf(i) /\ ServingTyped'
  BY <1>1, <1>4, ServingMoves DEF OnlyOf, ServerlessIInv, ServingTyped, ServingTypeOK, OrderRow, ServingPcs, Arrives, OrderOf
<1>7. Serves(i)'
  BY <1>5 DEF Serves, At
<1>8. KeepsOwn(i)
  BY <1>1, <1>2, <1>4, <1>5, <1>7 DEF KeepsOwn, Fresh, At
<1>9. Delivers(i)' /\ Concludes(i)'
  BY <1>1, <1>2, <1>3, <1>4, <1>5 DEF Delivers, Concludes, BeforePress, At
<1>10. Recorded(c)'
  <2>1. /\ Len(<<>>) = 0 /\ 0 <= 2 /\ 0 # 2
        /\ "accepted" \notin FinalStatuses /\ "accepted" # "none" /\ "accepted" # "acknowledged"
    BY DEF FinalStatuses
  <2>2. order'[c].presses <= 1
    BY <1>2, <1>4 DEF Recorded
  <2>3. OrderOf(i)' = c
    BY <1>1
  <2> QED BY <1>4, <2>1, <2>2, <2>3, Zenon DEF Recorded
<1> QED BY <1>4, <1>6, <1>8, <1>9, <1>10, RestFollows

\* The press of a pulse is followed by its release.
LEMMA AfterMarkKeeps ==
    ASSUME ServerlessIInv, NEW i \in Arrives, AfterMark(i) PROVE ServerlessIInv'
<1>1. /\ serving[i].pc = "audit mark" /\ order' = order /\ output' = output
      /\ health' = health /\ faulted' = faulted /\ allowance' = allowance /\ OrderOf(i)' = OrderOf(i)
      /\ Whole' = Whole
  BY DEF AfterMark, At, OrderOf, Whole
<1>2. Serves(i) /\ Delivers(i) /\ Concludes(i) /\ order[OrderOf(i)].status # "none"
  BY <1>1, OwnKnown DEF Serves, At
<1>3. /\ serving' \in [Deliveries -> ServingRow] /\ \A k \in Arrives \ {i} : serving'[k] = serving[k]
      /\ serving'[i].outcome = serving[i].outcome /\ serving'[i].caught = serving[i].caught
      /\ \/ /\ allowance.pulse /\ serving[i].outcome = "acknowledged"
            /\ serving'[i].pc = "send" /\ serving'[i].phase = "release"
         \/ /\ ~(allowance.pulse /\ serving[i].outcome = "acknowledged")
            /\ serving'[i].pc = "health" /\ serving'[i].phase = serving[i].phase
  <2>1. CASE allowance.pulse /\ serving[i].outcome = "acknowledged"
    <3>. DEFINE s == [serving[i] EXCEPT !.pc = "send", !.phase = "release"]
    <3>1. serving[i] \in ServingRow
      BY DEF ServerlessIInv, ServingTyped
    <3>2. /\ s \in ServingRow /\ s.pc = "send" /\ s.phase = "release"
          /\ s.outcome = serving[i].outcome /\ s.caught = serving[i].caught
      BY <3>1 DEF ServingRow, ServingPcs
    <3>3. serving' = [serving EXCEPT ![i] = s]
      BY <2>1 DEF AfterMark
    <3>. HIDE DEF s
    <3> QED BY <2>1, <3>2, <3>3, CallGoes
  <2>2. CASE ~(allowance.pulse /\ serving[i].outcome = "acknowledged")
    BY <2>2, ServingMoves DEF AfterMark, ServingPcs
  <2> QED BY <2>1, <2>2
<1>4. OnlyOf(i) /\ ServingTyped'
  BY <1>1, <1>3 DEF OnlyOf, ServerlessIInv, ServingTyped, ServingTypeOK, Arrives, OrderOf
<1>5. Serves(i)'
  BY <1>3 DEF Serves, At
<1>6. KeepsOwn(i)
  BY <1>1, <1>2, <1>3, <1>5 DEF KeepsOwn, Fresh, At
<1>7. Recorded(OrderOf(i))' /\ OnIsPressed'
  BY <1>1, RecordStays
<1>8. Delivers(i)'
  BY <1>1, <1>2, <1>3 DEF Delivers, At, Whole, BeforePress
<1>9. Concludes(i)'
  BY <1>1, <1>2, <1>3 DEF Concludes, Delivers, At
<1> QED BY <1>4, <1>6, <1>7, <1>8, <1>9, RestFollows

\* The first outcome of a command.
LEMMA OneOutcome == \A x : Len(<<x>>) = 1 /\ <<x>>[1] = x /\ Append(<<>>, x) = <<x>>
OBVIOUS

\* The outcome is recorded.
LEMMA FinishKeeps ==
    ASSUME ServerlessIInv, NEW i \in Arrives, FinishServing(i) PROVE ServerlessIInv'
<1>. DEFINE c == OrderOf(i)
            outcome == serving[i].outcome
<1>1. /\ serving[i].pc = "finish" /\ output' = output /\ health' = health /\ faulted' = faulted
      /\ allowance' = allowance /\ OrderOf(i)' = c /\ SavesOrder(c, outcome) /\ Moves(i, "audit")
  BY DEF FinishServing, At, OrderOf
<1>2. /\ Serves(i) /\ Delivers(i) /\ Concludes(i) /\ Recorded(c) /\ order[c] \in OrderRow
  BY <1>1, OwnKnown DEF Serves, At
<1>3. outcome \in FinalStatuses
  BY <1>1, <1>2, OwnKnown DEF Delivers, At
<1>4. /\ order'[c].status = outcome /\ order'[c].settled = Append(order[c].settled, outcome)
      /\ order'[c].presses = order[c].presses /\ order'[c].confirmed = order[c].confirmed
      /\ order' \in [Orders -> OrderRow]
      /\ (\A d \in Orders \ {c} : order'[d] = order[d]) /\ OnIsPressed'
  <2>. HIDE DEF outcome
  <2> QED BY <1>1, <1>3, OrderSaved
<1>5. /\ serving'[i].pc = "audit" /\ serving'[i].phase = serving[i].phase
      /\ serving'[i].outcome = outcome /\ serving'[i].caught = serving[i].caught
  BY <1>1, ServingMoves DEF ServingPcs
<1>6. OnlyOf(i) /\ ServingTyped'
  BY <1>1, <1>4, ServingMoves DEF OnlyOf, ServerlessIInv, ServingTyped, ServingTypeOK, OrderRow, ServingPcs, Arrives, OrderOf
<1>7. Serves(i)' /\ order'[c].status # "none"
  BY <1>3, <1>4, <1>5 DEF Serves, At, FinalStatuses
<1>8. KeepsOwn(i)
  BY <1>1, <1>2, <1>4, <1>5, <1>7 DEF KeepsOwn, Fresh, At
<1>9. Delivers(i)'
  BY <1>1, <1>5 DEF Delivers, BeforePress, At
<1>10. \/ order[c].settled = <<>>
       \/ /\ serving[i].caught /\ Len(order[c].settled) = 1 /\ order[c].settled[1] # "acknowledged"
          /\ outcome = "failed" /\ c \in faulted
  BY <1>1, <1>2 DEF Concludes, At
<1>11. order'[c].settled \in Seq(FinalStatuses) /\ order'[c].settled # <<>>
  <2>1. order[c].settled \in Seq(FinalStatuses)
    BY <1>2 DEF OrderRow
  <2>. HIDE DEF outcome, c
  <2> QED BY <1>3, <1>4, <2>1
<1>12. order'[c].settled[Len(order'[c].settled)] = outcome /\ Len(order'[c].settled) <= 2
  <2>1. order[c].settled \in Seq(FinalStatuses)
    BY <1>2 DEF OrderRow
  <2>. HIDE DEF outcome, c
  <2> QED BY <1>3, <1>4, <1>10, <2>1
<1>13. ASSUME Len(order'[c].settled) = 2
       PROVE  order'[c].settled[1] # "acknowledged" /\ order'[c].settled[2] = "failed" /\ c \in faulted
  <2>1. order[c].settled \in Seq(FinalStatuses)
    BY <1>2 DEF OrderRow
  <2>. HIDE DEF outcome, c
  <2> QED BY <1>3, <1>4, <1>10, <1>13, <2>1
<1>14. Concludes(i)'
  <2>1. ~serving[i].caught => order'[c].settled = <<outcome>>
    <3>. HIDE DEF outcome, c
    <3> QED BY <1>4, <1>10, OneOutcome, Zenon
  <2>. HIDE DEF outcome
  <2> QED BY <1>1, <1>5, <1>11, <2>1 DEF Concludes, At
<1>15. Recorded(c)'
  <2>1. order'[c].presses <= 1
    BY <1>2, <1>4 DEF Recorded
  <2>2. outcome = "acknowledged" => order'[c].confirmed = Whole'
    BY <1>1, <1>2, <1>4 DEF Delivers, At, Whole
  <2>3. OrderOf(i)' = c /\ faulted' = faulted /\ outcome # "none"
    BY <1>1, <1>3 DEF FinalStatuses
  <2>. HIDE DEF outcome
  <2> QED BY <1>3, <1>4, <1>11, <1>12, <1>13, <2>1, <2>2, <2>3, Zenon DEF Recorded
<1> QED BY <1>4, <1>6, <1>8, <1>9, <1>14, <1>15, RestFollows

\* A call of the database fails.
LEMMA DatabaseKeeps ==
    ASSUME ServerlessIInv, NEW i \in Arrives, DatabaseFails(i) PROVE ServerlessIInv'
<1>. DEFINE c == OrderOf(i)
<1>1. /\ order' = order /\ output' = output /\ health' = health /\ faulted' = faulted \cup {c}
      /\ serving[i].pc \notin {"idle", "done", "send"} /\ (IF Guarded(i) THEN Catches(i, "failed") ELSE Moves(i, "done"))
  BY DEF DatabaseFails, At
<1>2. /\ DOMAIN allowance' = DOMAIN allowance /\ allowance'.calls = allowance.calls /\ allowance'.pulse = allowance.pulse
      /\ Arrives' = Arrives /\ OrderOf(i)' = c /\ \A k \in Arrives : OrderOf(k)' = OrderOf(k)
  BY DEF DatabaseFails, Arrives, OrderOf, ServerlessIInv, ServingTyped
<1>3. /\ serving' \in [Deliveries -> ServingRow] /\ \A k \in Arrives \ {i} : serving'[k] = serving[k]
      /\ \/ /\ Guarded(i) /\ serving'[i].pc = "health" /\ serving'[i].caught = TRUE /\ serving'[i].outcome = "failed"
         \/ serving'[i].pc = "done"
  BY <1>1, CallCatches, ServingMoves DEF FinalStatuses, ServingPcs
<1>4. OnlyOf(i) /\ ServingTyped'
  BY <1>1, <1>2, <1>3, OwnKnown DEF OnlyOf, ServerlessIInv, ServingTyped, ServingTypeOK
<1>5. Guarded(i) => Serves(i)
  BY DEF Guarded, Serves, At
<1>6. Serves(i)' => Guarded(i) /\ serving'[i].pc = "health"
  BY <1>3 DEF Serves, At
<1>7. KeepsOwn(i)
  BY <1>1, <1>3, <1>5, <1>6, OwnKnown DEF KeepsOwn, Fresh, At
<1>8. Recorded(OrderOf(i))' /\ OnIsPressed'
  BY <1>1, <1>2, RecordStays
<1>9. ASSUME Guarded(i), serving'[i].pc = "health" PROVE Delivers(i)' /\ Concludes(i)'
  <2>1. /\ serving'[i].caught = TRUE /\ serving'[i].outcome = "failed" /\ Delivers(i) /\ Concludes(i)
        /\ ~serving[i].caught /\ c \in faulted'
    BY <1>1, <1>3, <1>5, <1>9, OwnKnown DEF Guarded
  <2>2. \/ order[c].settled = <<>>
        \/ order[c].settled = <<serving[i].outcome>> /\ serving[i].outcome # "acknowledged"
    BY <1>9, <2>1 DEF Guarded, Concludes, At
  <2>3. \/ order[c].settled = <<>>
        \/ Len(order[c].settled) = 1 /\ order[c].settled[1] # "acknowledged"
    BY <2>2, OneOutcome, Zenon
  <2>4. Delivers(i)'
    BY <1>9, <2>1 DEF Delivers, BeforePress, At
  <2>5. Concludes(i)'
    BY <1>1, <1>2, <1>9, <2>1, <2>3 DEF Concludes, At
  <2> QED BY <2>4, <2>5
<1> QED BY <1>4, <1>6, <1>7, <1>8, <1>9, RestFollows

\* What a request under way may do to the command and to the output.
Tried(i) ==
    LET c == OrderOf(i) IN
    /\ order' \in [Orders -> OrderRow] /\ output' \in {"on", "off"}
    /\ \A d \in Orders \ {c} : order'[d] = order[d]
    /\ order'[c].status = order[c].status /\ order'[c].settled = order[c].settled
    /\ order'[c].presses <= 1
    /\ OnIsPressed'

\* The call at the request: nothing is concluded, and a press is the first.
LEMMA Sending ==
    ASSUME ServerlessIInv, NEW i \in Arrives, serving[i].pc = "send"
    PROVE  LET c == OrderOf(i) IN
           /\ Serves(i) /\ Delivers(i) /\ Concludes(i) /\ ~serving[i].caught
           /\ order[c].settled = <<>> /\ order[c].status \notin FinalStatuses \cup {"none"}
           /\ order[c].presses <= 1
           /\ serving[i].phase = "press" => order[c].presses = 0 /\ order[c].confirmed = {}
           /\ serving[i].phase = "release" => allowance.pulse /\ order[c].confirmed = {"press"}
BY OwnKnown DEF Serves, At, Delivers, Concludes, Recorded, BeforePress

\* The device executes the request.
LEMMA ExecutedIsTried ==
    ASSUME ServerlessIInv, NEW i \in Arrives, serving[i].pc = "send",
           NEW confirmed \in SUBSET {"press", "release"}, serving[i].phase = "press" => "release" \notin confirmed,
           output' = Target(i),
           order' = [order EXCEPT ![OrderOf(i)] = [@ EXCEPT !.confirmed = confirmed, !.presses = Presses(i)]]
    PROVE  Tried(i) /\ order'[OrderOf(i)].confirmed = confirmed
<1>. DEFINE c == OrderOf(i)
            o == [order[c] EXCEPT !.confirmed = confirmed, !.presses = Presses(i)]
<1>1. c \in Orders /\ order[c] \in OrderRow /\ order \in [Orders -> OrderRow] /\ serving[i].phase \in {"press", "release"}
  BY OwnKnown DEF ServerlessIInv, ServingTyped, ServingTypeOK, OrderRow
<1>2. Presses(i) \in Nat /\ Presses(i) <= 1 /\ (serving[i].phase = "press" => Presses(i) = 1)
  BY <1>1, Sending DEF Presses, OrderRow
<1>3. /\ o \in OrderRow /\ o.status = order[c].status /\ o.settled = order[c].settled
      /\ o.presses = Presses(i) /\ o.confirmed = confirmed
  <2>. HIDE DEF c
  <2> QED BY <1>1, <1>2 DEF OrderRow
<1>4. order'[c] = o /\ order' \in [Orders -> OrderRow] /\ \A d \in Orders \ {c} : order'[d] = order[d]
  <2>. HIDE DEF o, c
  <2>1. order' = [order EXCEPT ![c] = o]
    BY DEF o, c
  <2> QED BY <1>1, <1>3, <2>1
<1>5. OnIsPressed'
  <2>. HIDE DEF o, c
  <2>1. CASE serving[i].phase = "press"
    BY <1>1, <1>2, <1>3, <1>4, <2>1 DEF OnIsPressed
  <2>2. CASE serving[i].phase # "press"
    BY <2>2 DEF OnIsPressed, Target
  <2> QED BY <2>1, <2>2
<1> QED
  <2>. HIDE DEF o
  <2> QED BY <1>2, <1>3, <1>4, <1>5 DEF Tried, Target

\* It executes it, or never gets it.
LEMMA PerhapsExecuted ==
    ASSUME ServerlessIInv, NEW i \in Arrives, serving[i].pc = "send", Executes(i) \/ UNCHANGED <<output, order>>
    PROVE  Tried(i) /\ order'[OrderOf(i)].confirmed = order[OrderOf(i)].confirmed
<1>1. CASE UNCHANGED <<output, order>>
  BY <1>1, Sending, OwnKnown DEF Tried, OnIsPressed, ServerlessIInv, ServingTyped, ServingTypeOK, OrderRow
<1>2. CASE Executes(i)
  <2>. DEFINE confirmed == order[OrderOf(i)].confirmed
  <2>1. order[OrderOf(i)] \in OrderRow /\ order \in [Orders -> OrderRow] /\ OrderOf(i) \in Orders
    BY OwnKnown DEF ServerlessIInv, ServingTyped, ServingTypeOK, OrderRow
  <2>2. confirmed \in SUBSET {"press", "release"} /\ (serving[i].phase = "press" => "release" \notin confirmed)
    BY <2>1, Sending DEF OrderRow
  <2>3. /\ output' = Target(i)
        /\ order' = [order EXCEPT ![OrderOf(i)] = [@ EXCEPT !.confirmed = confirmed, !.presses = Presses(i)]]
    BY <1>2, <2>1 DEF Executes, OrderRow
  <2>. HIDE DEF confirmed
  <2>4. Tried(i) /\ order'[OrderOf(i)].confirmed = confirmed
    BY <2>2, <2>3, ExecutedIsTried
  <2> QED BY <2>4 DEF confirmed
<1> QED BY <1>1, <1>2

\* The command after a request is still open.
LEMMA TriedRecord ==
    ASSUME ServerlessIInv, NEW i \in Arrives, serving[i].pc = "send", Tried(i), OrderOf(i)' = OrderOf(i)
    PROVE  Recorded(OrderOf(i))'
<1>. DEFINE c == OrderOf(i)
<1>1. /\ order'[c].settled = <<>> /\ order'[c].status \notin FinalStatuses \cup {"none"}
      /\ order'[c].presses <= 1 /\ order'[c].status # "acknowledged"
  BY Sending DEF Tried, FinalStatuses
<1>2. Len(<<>>) = 0 /\ 0 <= 2 /\ 0 # 2
  OBVIOUS
<1>3. order'[c].status \notin FinalStatuses /\ order'[c].status # "none"
  BY <1>1
<1> QED BY <1>1, <1>2, <1>3, Zenon DEF Recorded

\* The function is stopped.
LEMMA StopKeeps ==
    ASSUME ServerlessIInv, NEW i \in Arrives, FunctionStops(i) PROVE ServerlessIInv'
<1>. DEFINE c == OrderOf(i)
<1>1. /\ health' = health /\ faulted' = faulted \cup {c}
      /\ serving[i].pc \notin {"idle", "done"} /\ Moves(i, "done")
      /\ DOMAIN allowance' = DOMAIN allowance /\ allowance'.calls = allowance.calls /\ allowance'.pulse = allowance.pulse
      /\ Arrives' = Arrives /\ OrderOf(i)' = c /\ \A k \in Arrives : OrderOf(k)' = OrderOf(k)
  BY DEF FunctionStops, At, Arrives, OrderOf, ServerlessIInv, ServingTyped
<1>2. /\ serving' \in [Deliveries -> ServingRow] /\ \A k \in Arrives \ {i} : serving'[k] = serving[k]
      /\ serving'[i].pc = "done"
  BY <1>1, ServingMoves DEF ServingPcs
<1>3. ~Serves(i)'
  BY <1>2 DEF Serves, At
<1>4. CASE order' = order /\ output' = output
  <2>1. OnlyOf(i) /\ ServingTyped'
    BY <1>1, <1>2, <1>4, OwnKnown DEF OnlyOf, ServerlessIInv, ServingTyped, ServingTypeOK
  <2>2. KeepsOwn(i)
    BY <1>1, <1>2, <1>3, <1>4 DEF KeepsOwn, Fresh, At
  <2>3. Recorded(OrderOf(i))' /\ OnIsPressed'
    BY <1>1, <1>4, RecordStays
  <2> QED BY <1>3, <2>1, <2>2, <2>3, RestFollows
<1>5. CASE serving[i].pc = "send" /\ Executes(i)
  <2>1. Tried(i) /\ Serves(i)
    BY <1>5, PerhapsExecuted, Sending
  <2>2. Recorded(OrderOf(i))' /\ OnIsPressed'
    BY <1>1, <1>5, <2>1, TriedRecord DEF Tried
  <2>3. OnlyOf(i) /\ ServingTyped'
    BY <1>1, <1>2, <2>1, OwnKnown DEF OnlyOf, Tried, OrderRow, ServerlessIInv, ServingTyped, ServingTypeOK
  <2>4. KeepsOwn(i)
    BY <1>1, <1>2, <1>3, <2>1 DEF KeepsOwn, Fresh, At, Tried
  <2> QED BY <1>3, <2>2, <2>3, <2>4, RestFollows
<1> QED BY <1>4, <1>5 DEF FunctionStops, At

\* The request is confirmed.
LEMMA ConfirmedIsTried ==
    ASSUME ServerlessIInv, NEW i \in Arrives, serving[i].pc = "send", Confirmed(i)
    PROVE  /\ Tried(i)
           /\ serving[i].phase = "press" => order'[OrderOf(i)].confirmed = {"press"}
           /\ serving[i].phase = "release" => allowance.pulse /\ order'[OrderOf(i)].confirmed = {"press", "release"}
<1>. DEFINE c == OrderOf(i)
            confirmed == order[c].confirmed \cup {serving[i].phase}
<1>1. /\ c \in Orders /\ order[c] \in OrderRow /\ order \in [Orders -> OrderRow]
      /\ serving[i].phase \in {"press", "release"} /\ output \in {"on", "off"}
  BY OwnKnown DEF ServerlessIInv, ServingTyped, ServingTypeOK, OrderRow
<1>2. /\ serving[i].phase = "press" => order[c].presses = 0 /\ confirmed = {"press"}
      /\ serving[i].phase = "release" => allowance.pulse /\ confirmed = {"press", "release"}
      /\ order[c].presses <= 1
  BY Sending
<1>3. confirmed \in SUBSET {"press", "release"} /\ (serving[i].phase = "press" => "release" \notin confirmed)
  BY <1>1, <1>2
<1>4. CASE output' = Target(i)
           /\ order' = [order EXCEPT ![c] = [@ EXCEPT !.confirmed = confirmed, !.presses = Presses(i)]]
  <2>. HIDE DEF confirmed
  <2>1. Tried(i) /\ order'[c].confirmed = confirmed
    BY <1>3, <1>4, ExecutedIsTried
  <2> QED BY <1>2, <2>1
<1>5. CASE output = Target(i) /\ output' = output
           /\ order' = [order EXCEPT ![c] = [@ EXCEPT !.confirmed = confirmed]]
  <2>. DEFINE o == [order[c] EXCEPT !.confirmed = confirmed]
  <2>1. /\ o \in OrderRow /\ o.status = order[c].status /\ o.settled = order[c].settled
        /\ o.presses = order[c].presses /\ o.confirmed = confirmed
    <3>. HIDE DEF c, confirmed
    <3> QED BY <1>1, <1>3 DEF OrderRow
  <2>2. order'[c] = o /\ order' \in [Orders -> OrderRow] /\ \A d \in Orders \ {c} : order'[d] = order[d]
    <3>1. order' = [order EXCEPT ![c] = o]
      BY <1>5
    <3>. HIDE DEF o, c
    <3> QED BY <1>1, <2>1, <3>1
  <2>. HIDE DEF o, c, confirmed
  <2>3. OnIsPressed'
    <3>1. CASE serving[i].phase = "press"
      <4>. SUFFICES ASSUME output = "on" PROVE \E d \in Orders : order'[d].presses = 1 /\ "release" \notin order'[d].confirmed
        BY <1>5 DEF OnIsPressed
      <4>1. PICK d \in Orders : order[d].presses = 1 /\ "release" \notin order[d].confirmed
        BY DEF OnIsPressed, ServerlessIInv
      <4>2. d # c
        BY <1>2, <3>1, <4>1
      <4> QED BY <2>2, <4>1, <4>2
    <3>2. CASE serving[i].phase # "press"
      BY <1>5, <3>2 DEF OnIsPressed, Target
    <3> QED BY <3>1, <3>2
  <2>4. Tried(i)
    BY <1>1, <1>2, <1>5, <2>1, <2>2, <2>3 DEF Tried, c
  <2> QED BY <1>2, <2>1, <2>2, <2>4 DEF c
<1> QED BY <1>4, <1>5 DEF Confirmed

\* The answer is taken down.
LEMMA AnswerTaken ==
    ASSUME ServerlessIInv, NEW i \in Arrives, NEW answer \in FinalStatuses, AfterAnswer(i, answer)
    PROVE  /\ serving'[i].pc = (IF serving[i].phase = "press" /\ answer # "failed" THEN "mark" ELSE "health")
           /\ serving'[i].phase = serving[i].phase
           /\ serving'[i].outcome = answer /\ serving'[i].caught = serving[i].caught
           /\ \A k \in Arrives \ {i} : serving'[k] = serving[k]
           /\ serving' \in [Deliveries -> ServingRow]
<1>. DEFINE pc == IF serving[i].phase = "press" /\ answer # "failed" THEN "mark" ELSE "health"
            s == [serving[i] EXCEPT !.outcome = answer, !.pc = pc]
<1>1. serving[i] \in ServingRow
  BY DEF ServerlessIInv, ServingTyped
<1>2. pc \in ServingPcs
  BY DEF ServingPcs
<1>3. /\ s \in ServingRow
      /\ s.pc = pc /\ s.phase = serving[i].phase /\ s.outcome = answer /\ s.caught = serving[i].caught
  <2>. HIDE DEF pc
  <2> QED BY <1>1, <1>2 DEF ServingRow
<1>4. serving' = [serving EXCEPT ![i] = s]
  BY DEF AfterAnswer
<1>. HIDE DEF s
<1> QED BY <1>3, <1>4, CallGoes

\* The request.
LEMMA SendKeeps ==
    ASSUME ServerlessIInv, NEW i \in Arrives, SendRpc(i) PROVE ServerlessIInv'
<1>. DEFINE c == OrderOf(i)
<1>1. /\ serving[i].pc = "send" /\ health' = health /\ faulted' = faulted /\ allowance' = allowance
      /\ Arrives' = Arrives /\ OrderOf(i)' = c /\ (\A k \in Arrives : OrderOf(k)' = OrderOf(k)) /\ Whole' = Whole
  BY DEF SendRpc, At, Arrives, OrderOf, Whole
<1>2. /\ Serves(i) /\ ~serving[i].caught /\ order[c].settled = <<>>
      /\ order[c].status # "none" /\ serving[i].phase \in {"press", "release"}
  BY <1>1, Sending, OwnKnown
<1>3. /\ Tried(i)
      /\ \/ /\ AfterAnswer(i, "acknowledged")
            /\ serving[i].phase = "press" => order'[c].confirmed = {"press"}
            /\ serving[i].phase = "release" => allowance.pulse /\ order'[c].confirmed = {"press", "release"}
         \/ AfterAnswer(i, "rejected") \/ AfterAnswer(i, "failed") \/ AfterAnswer(i, "timeout")
         \/ Catches(i, "timeout") \/ Catches(i, "failed")
  BY <1>1, ConfirmedIsTried, PerhapsExecuted DEF SendRpc
<1>4. /\ serving' \in [Deliveries -> ServingRow] /\ \A k \in Arrives \ {i} : serving'[k] = serving[k]
      /\ serving'[i].pc \in {"mark", "health"} /\ serving'[i].outcome \in FinalStatuses
      /\ serving'[i].phase = serving[i].phase
      /\ serving'[i].pc = "mark" => serving[i].phase = "press" /\ ~serving'[i].caught
      /\ serving'[i].outcome = "acknowledged" =>
            /\ ~serving'[i].caught
            /\ serving[i].phase = "press" => order'[c].confirmed = {"press"} /\ serving'[i].pc = "mark"
            /\ serving[i].phase = "release" => order'[c].confirmed = Whole
  <2>1. CASE /\ AfterAnswer(i, "acknowledged")
             /\ serving[i].phase = "press" => order'[c].confirmed = {"press"}
             /\ serving[i].phase = "release" => allowance.pulse /\ order'[c].confirmed = {"press", "release"}
    BY <1>2, <2>1, AnswerTaken DEF FinalStatuses, Whole
  <2>2. ASSUME NEW answer \in {"rejected", "failed", "timeout"}, AfterAnswer(i, answer)
        PROVE  /\ serving' \in [Deliveries -> ServingRow] /\ \A k \in Arrives \ {i} : serving'[k] = serving[k]
               /\ serving'[i].pc \in {"mark", "health"} /\ serving'[i].outcome \in FinalStatuses \ {"acknowledged"}
               /\ serving'[i].phase = serving[i].phase
               /\ serving'[i].pc = "mark" => serving[i].phase = "press" /\ ~serving'[i].caught
    BY <2>2, <1>2, AnswerTaken DEF FinalStatuses
  <2>3. ASSUME NEW answer \in {"failed", "timeout"}, Catches(i, answer)
        PROVE  /\ serving' \in [Deliveries -> ServingRow] /\ \A k \in Arrives \ {i} : serving'[k] = serving[k]
               /\ serving'[i].pc = "health" /\ serving'[i].outcome \in FinalStatuses \ {"acknowledged"}
               /\ serving'[i].phase = serving[i].phase
    BY <2>3, CallCatches DEF FinalStatuses
  <2> QED BY <1>3, <2>1, <2>2, <2>3
<1>5. Serves(i)'
  BY <1>4 DEF Serves, At
<1>6. OnlyOf(i) /\ ServingTyped'
  BY <1>1, <1>3, <1>4, OwnKnown DEF OnlyOf, Tried, OrderRow, ServerlessIInv, ServingTyped, ServingTypeOK
<1>7. KeepsOwn(i)
  BY <1>1, <1>2, <1>3, <1>4, <1>5 DEF KeepsOwn, Fresh, At, Tried
<1>8. Recorded(OrderOf(i))' /\ OnIsPressed'
  BY <1>1, <1>3, TriedRecord DEF Tried
<1>9. Delivers(i)'
  BY <1>4, <1>1, <1>2 DEF FinalStatuses, Delivers, BeforePress, At
<1>10. Concludes(i)'
  BY <1>1, <1>2, <1>3, <1>4 DEF Concludes, At, Tried
<1> QED BY <1>6, <1>7, <1>8, <1>9, <1>10, RestFollows

\* A step of something else.
LEMMA ServerlessStays == ServerlessIInv /\ UNCHANGED servingVars => ServerlessIInv'
<1>. SUFFICES ASSUME ServerlessIInv, UNCHANGED servingVars PROVE ServerlessIInv'
  OBVIOUS
<1>1. /\ order' = order /\ serving' = serving /\ output' = output /\ health' = health
      /\ faulted' = faulted /\ allowance' = allowance
  BY DEF servingVars
<1>2. /\ Arrives' = Arrives /\ Whole' = Whole /\ (\A i : OrderOf(i)' = OrderOf(i))
      /\ (\A i : Serves(i)' = Serves(i)) /\ (\A i : Fresh(i)' = Fresh(i))
  BY <1>1 DEF Arrives, Whole, OrderOf, Serves, Fresh, At
<1>3. ServingTyped' /\ OneServes'
  BY <1>1, <1>2 DEF ServingTyped, ServingTypeOK, OneServes, ServerlessIInv
<1>4. \A i : Delivers(i)' = Delivers(i)
  BY <1>1, <1>2 DEF Delivers, BeforePress, At
<1>5. \A i : Concludes(i)' = Concludes(i)
  BY <1>1, <1>2 DEF Concludes, At
<1>6. \A c \in Orders : Recorded(c)'
  BY <1>1, <1>2 DEF Recorded, ServerlessIInv
<1>7. OnIsPressed' /\ SomebodyConcludes' /\ SomebodyReports'
  BY <1>1, <1>2 DEF OnIsPressed, SomebodyConcludes, SomebodyReports, At, ServerlessIInv
<1> QED BY <1>2, <1>3, <1>4, <1>5, <1>6, <1>7 DEF ServerlessIInv

\* Every step keeps the invariant.
LEMMA ServerlessKeeps == ServerlessIInv /\ [ServingNext]_servingVars => ServerlessIInv'
<1>. SUFFICES ASSUME ServerlessIInv, [ServingNext]_servingVars PROVE ServerlessIInv'
  OBVIOUS
<1>1. CASE UNCHANGED servingVars
  BY <1>1, ServerlessStays
<1>2. CASE ServingNext
  <2>1. PICK i \in Arrives :
          \/ AdmitServing(i) \/ CheckServing(i) \/ CreateServing(i) \/ Configure(i)
          \/ AuditServing(i) \/ AnnounceWaiting(i) \/ SendRpc(i) \/ MarkAccepted(i)
          \/ AfterMark(i) \/ ReportHealth(i) \/ FinishServing(i) \/ AuditOutcome(i)
          \/ DatabaseFails(i) \/ FunctionStops(i)
    BY <1>2 DEF ServingNext
  <2> QED BY <2>1, AdmitKeeps, CheckKeeps, CreateKeeps, ConfigureKeeps, AuditKeeps, AnnounceKeeps, SendKeeps, MarkKeeps,
             AfterMarkKeeps, ReportKeeps, FinishKeeps, OutcomeAuditKeeps, DatabaseKeeps, StopKeeps
<1> QED BY <1>1, <1>2

\* Commands without a worker: for any calls, commands and users, whether the
\* output works by feedback or by pulse, and however often the database fails
\* and functions are stopped, a command presses once, is acknowledged only when
\* it was confirmed, keeps its outcome and is concluded
\* (executeServerlessCommand).
THEOREM ServerlessIsSafe == ServingSpec => []ServerlessInv
<1>1. ServingInit => ServerlessIInv
  BY ServerlessBegins
<1>2. ServerlessIInv /\ [ServingNext]_servingVars => ServerlessIInv'
  BY ServerlessKeeps
<1>3. ServerlessIInv => ServerlessInv
  BY ServerlessHolds
<1> QED BY <1>1, <1>2, <1>3, PTL DEF ServingSpec

\* What the parts promise, the server keeps: each step is one part's, and the
\* others stutter.
THEOREM ServerIsSafe == Spec => [](StreamInv /\ ViewInv /\ RetentionInv /\ SecretsInv /\ ServerlessInv)
<1>1. Init => StreamInit /\ ViewInit /\ RetentionInit /\ SecretInit /\ ServingInit
  BY DEF Init
<1>2. [Next]_serverVars =>
        /\ [StreamNext]_streamVars /\ [ViewNext]_viewVars /\ [RetentionNext]_retentionVars
        /\ [SecretNext]_secretVars /\ [ServingNext]_servingVars
  BY DEF Next, serverVars
<1>3. Spec => []StreamInv
  BY <1>1, <1>2, StreamsAreSafe, PTL DEF Spec, StreamSpec
<1>4. Spec => []RetentionInv
  BY <1>1, <1>2, PurgesAreSafe, PTL DEF Spec, RetentionSpec
<1>5. Spec => []SecretsInv
  BY <1>1, <1>2, SecretsAreSafe, PTL DEF Spec, SecretSpec
<1>6. Spec => []ServerlessInv
  BY <1>1, <1>2, ServerlessIsSafe, PTL DEF Spec, ServingSpec
<1>7. Init /\ [][Next]_serverVars => []ViewInv
  <2>1. Init => ViewIInv
    BY <1>1, ViewBegins
  <2>2. ViewIInv /\ [Next]_serverVars => ViewIInv'
    BY <1>2, ViewKeeps
  <2> QED BY <2>1, <2>2, ViewHolds, PTL
<1>8. Spec => []ViewInv
  BY <1>7, PTL DEF Spec
<1> QED BY <1>3, <1>4, <1>5, <1>6, <1>8, PTL
=============================================================================
