---------------------- MODULE ProjectPublishingProofs ----------------------
(***************************************************************************)
(* Publishing is an append-only history: NumbersInv relates the numbers of *)
(* the versions, the active one and the counter, which a request that      *)
(* catches up may set back.  The draft and its editors may do what they    *)
(* like: nothing is used of them there.                                    *)
(*                                                                         *)
(* What is published was validated, and a page that says its changes are   *)
(* saved knows a draft that has them: PublishingIInv relates what a page,  *)
(* its save, an upload and a request have seen of the draft to what the    *)
(* draft holds, by the revision they saw it at.                            *)
(***************************************************************************)
EXTENDS ProjectPublishing, SequenceTheorems, WellFoundedInduction, TLAPS

Shape(r) == r = [pc |-> r.pc, rev |-> r.rev, counter |-> r.counter, source |-> r.source,
                 content |-> r.content, version |-> r.version]

Shapes ==
    /\ project = [there |-> project.there, deleting |-> project.deleting,
                  cleared |-> project.cleared, counter |-> project.counter, active |-> project.active]
    /\ {project.there, project.deleting} \subseteq BOOLEAN
    /\ req = [q \in Requests |-> req[q]]
    /\ \A q \in Requests : Shape(req[q])

CounterIsNotAhead ==
    Live => /\ project.active \in Nat
            /\ project.counter \in 0..project.active
            /\ \A q \in Requests : req[q].pc = "catchup" => req[q].counter \in 0..project.active

\* The inductive invariant.
NumbersInv == Shapes /\ ActiveIsNewest /\ CounterIsNotAhead /\ AnswersAreTrue

-----------------------------------------------------------------------------
LEMMA LatestOfInterval ==
    ASSUME NEW a \in Nat, DOMAIN versions = 1..a
    PROVE  Latest = a
<1>1. CASE a = 0
  BY <1>1, SMT DEF Latest
<1>2. CASE a # 0
  <2>1. a \in DOMAIN versions /\ \A m \in DOMAIN versions : m <= a
    BY <1>2, SMT
  <2>2. \A n \in DOMAIN versions : (\A m \in DOMAIN versions : m <= n) => n = a
    BY <2>1, SMT
  <2> DEFINE L == CHOOSE n \in DOMAIN versions : \A m \in DOMAIN versions : m <= n
  <2>3. L \in DOMAIN versions /\ \A m \in DOMAIN versions : m <= L
    BY <2>1
  <2>4. DOMAIN versions # {}
    BY <2>1
  <2> QED BY <2>2, <2>3, <2>4 DEF Latest
<1> QED BY <1>1, <1>2

LEMMA InitNumbers == Init => NumbersInv
BY SMT DEF Init, NumbersInv, Shapes, Shape, Idle, Live, ActiveIsNewest, CounterIsNotAhead,
    AnswersAreTrue

\* A request that only moves on, without an answer.
LEMMA MovesOn ==
    ASSUME NumbersInv, NEW q \in Requests, NEW r, Shape(r),
           req' = [req EXCEPT ![q] = r], UNCHANGED <<project, versions>>,
           r.pc = "catchup" /\ Live => r.counter \in 0..project.active,
           r.pc = "answered" /\ Live =>
               r.version \in DOMAIN versions /\ versions[r.version].key = KeyOf[q]
    PROVE  NumbersInv'
<1>1. Shapes'
  BY SMT DEF NumbersInv, Shapes
<1>2. ActiveIsNewest' /\ CounterIsNotAhead' /\ AnswersAreTrue'
  BY SMT DEF NumbersInv, Shapes, Live, ActiveIsNewest, CounterIsNotAhead, AnswersAreTrue
<1> QED BY <1>1, <1>2 DEF NumbersInv

\* A request that moves on to another await with what it had.
LEMMA Goes ==
    ASSUME NumbersInv, NEW q \in Requests, NEW pc, Go(q, pc), UNCHANGED <<project, versions>>,
           pc \notin {"catchup", "answered"}
    PROVE  NumbersInv'
<1> DEFINE r == [req[q] EXCEPT !.pc = pc]
<1>1. Shape(req[q])
  BY DEF NumbersInv, Shapes
<1>2. Shape(r) /\ r.pc = pc
  BY <1>1, SMT DEF Shape
<1>3. req' = [req EXCEPT ![q] = r]
  BY SMT DEF Go
<1> HIDE DEF r
<1> QED BY <1>2, <1>3, MovesOn

\* A request that is answered with the version its key has.
LEMMA Answers ==
    ASSUME NumbersInv, NEW q \in Requests, NEW n \in WithKey(KeyOf[q]),
           req' = [req EXCEPT ![q] = [@ EXCEPT !.pc = "answered", !.version = n]],
           UNCHANGED <<project, versions>>
    PROVE  NumbersInv'
<1> DEFINE r1 == [req[q] EXCEPT !.pc = "answered"]
       r == [r1 EXCEPT !.version = n]
<1>1. Shape(req[q])
  BY DEF NumbersInv, Shapes
<1>2. Shape(r) /\ r.pc = "answered" /\ r.version = n
  <2>1. Shape(r1) /\ r1.pc = "answered"
    BY <1>1, SMT DEF Shape
  <2> HIDE DEF r1
  <2> QED BY <2>1, SMT DEF Shape
<1>3. req' = [req EXCEPT ![q] = r]
  OBVIOUS
<1>4. n \in DOMAIN versions /\ versions[n].key = KeyOf[q]
  BY DEF WithKey
<1> HIDE DEF r
<1> QED BY <1>2, <1>3, <1>4, MovesOn

LEMMA SendStep == ASSUME NumbersInv, NEW q \in Requests, Send(q) PROVE NumbersInv'
<1>1. Shape(req[q])
  BY DEF NumbersInv, Shapes
<1>2. CASE q \in Restores
  <2>1. PICK n \in DOMAIN versions : req' = [req EXCEPT ![q] = [@ EXCEPT !.pc = "sent", !.source = n]]
    BY <1>2 DEF Send
  <2> DEFINE r1 == [req[q] EXCEPT !.pc = "sent"]
         r == [r1 EXCEPT !.source = n]
  <2>2. Shape(r) /\ r.pc = "sent"
    <3>1. Shape(r1) /\ r1.pc = "sent"
      BY <1>1, SMT DEF Shape
    <3> HIDE DEF r1
    <3> QED BY <3>1, SMT DEF Shape
  <2>3. req' = [req EXCEPT ![q] = r]
    BY <2>1
  <2>4. UNCHANGED <<project, versions>>
    BY DEF Send
  <2> HIDE DEF r
  <2> QED BY <2>2, <2>3, <2>4, MovesOn
<1>3. CASE q \notin Restores
  <2>1. PICK e \in Editors : req' = [req EXCEPT ![q] = [@ EXCEPT !.pc = "sent", !.rev = ed[e].rev]]
    BY <1>3 DEF Send
  <2> DEFINE r1 == [req[q] EXCEPT !.pc = "sent"]
         r == [r1 EXCEPT !.rev = ed[e].rev]
  <2>2. Shape(r) /\ r.pc = "sent"
    <3>1. Shape(r1) /\ r1.pc = "sent"
      BY <1>1, SMT DEF Shape
    <3> HIDE DEF r1
    <3> QED BY <3>1, SMT DEF Shape
  <2>3. req' = [req EXCEPT ![q] = r]
    BY <2>1
  <2>4. UNCHANGED <<project, versions>>
    BY DEF Send
  <2> HIDE DEF r
  <2> QED BY <2>2, <2>3, <2>4, MovesOn
<1> QED BY <1>2, <1>3

LEMMA ReadProjectStep == ASSUME NumbersInv, NEW q \in Requests, ReadProject(q) PROVE NumbersInv'
<1>1. Shape(req[q])
  BY DEF NumbersInv, Shapes
<1>2. UNCHANGED <<project, versions>>
  BY DEF ReadProject
<1>3. CASE project.there
  <2> DEFINE r1 == [req[q] EXCEPT !.pc = "read"]
         r == [r1 EXCEPT !.counter = project.counter]
  <2>1. Shape(r) /\ r.pc = "read"
    <3>1. Shape(r1) /\ r1.pc = "read"
      BY <1>1, SMT DEF Shape
    <3> HIDE DEF r1
    <3> QED BY <3>1, SMT DEF Shape
  <2>2. req' = [req EXCEPT ![q] = r]
    BY <1>3 DEF ReadProject
  <2> HIDE DEF r
  <2> QED BY <1>2, <2>1, <2>2, MovesOn
<1>4. CASE ~project.there
  <2>1. Go(q, "refused")
    BY <1>4 DEF ReadProject, Go
  <2> QED BY <1>2, <2>1, Goes
<1> QED BY <1>3, <1>4

\* The counter a request finds behind becomes the latest number, which is
\* the active one.
LEMMA LookupStep == ASSUME NumbersInv, NEW q \in Requests, Lookup(q) PROVE NumbersInv'
<1>1. UNCHANGED <<project, versions>>
  BY DEF Lookup
<1>2. CASE Go(q, "refused")
  BY <1>1, <1>2, Goes
<1>3. CASE \E n \in WithKey(KeyOf[q]) :
                 req' = [req EXCEPT ![q] = [@ EXCEPT !.pc = "answered", !.version = n]]
  BY <1>1, <1>3, Answers
<1>4. ASSUME NEW content, NEW pc, pc \in {"catchup", "commit", "validate"},
             req' = [req EXCEPT ![q] = [@ EXCEPT !.content = content, !.counter = Latest, !.pc = pc]]
      PROVE  NumbersInv'
  <2>1. Live => Latest = project.active /\ project.active \in Nat
    BY LatestOfInterval DEF NumbersInv, CounterIsNotAhead, ActiveIsNewest
  <2> DEFINE r1 == [req[q] EXCEPT !.content = content]
             r2 == [r1 EXCEPT !.counter = Latest]
             r == [r2 EXCEPT !.pc = pc]
  <2>2. Shape(req[q])
    BY DEF NumbersInv, Shapes
  <2>3. Shape(r) /\ r.pc = pc /\ r.counter = Latest
    <3>1. Shape(r1)
      BY <2>2, SMT DEF Shape
    <3> HIDE DEF r1
    <3>2. Shape(r2) /\ r2.counter = Latest
      BY <3>1, SMT DEF Shape
    <3> HIDE DEF r2
    <3> QED BY <3>2, SMT DEF Shape
  <2>4. req' = [req EXCEPT ![q] = r]
    BY <1>4
  <2> HIDE DEF r
  <2>5. Live => r.counter \in 0..project.active
    BY <2>1, <2>3, SMT
  <2>6. r.pc # "answered"
    BY <1>4, <2>3
  <2> QED BY <1>1, <2>3, <2>4, <2>5, <2>6, MovesOn
<1> QED BY <1>2, <1>3, <1>4 DEF Lookup, Prepared

\* Setting the counter back leaves it a number that exists already.
LEMMA CatchUpStep == ASSUME NumbersInv, NEW q \in Requests, CatchUp(q) PROVE NumbersInv'
<1>1. CASE ~project.there
  BY <1>1, Goes DEF CatchUp
<1>2. CASE project.there
  <2>1. project' = [project EXCEPT !.counter = req[q].counter] /\ req[q].pc = "catchup"
        /\ UNCHANGED versions
    BY <1>2 DEF CatchUp
  <2>2. req' = [req EXCEPT ![q].pc = Prepared(q)] /\ Prepared(q) \in {"commit", "validate"}
    BY <1>2 DEF CatchUp, Go, Prepared
  <2>3. /\ project'.there = project.there
        /\ project'.deleting = project.deleting
        /\ project'.active = project.active
        /\ project'.counter = req[q].counter
        /\ project' = [there |-> project'.there, deleting |-> project'.deleting,
                       cleared |-> project'.cleared, counter |-> project'.counter, active |-> project'.active]
    BY <2>1, SMT DEF NumbersInv, Shapes
  <2>4. Shapes'
    BY <2>2, <2>3, SMT DEF NumbersInv, Shapes, Shape
  <2>5. \A p \in Requests : req'[p].counter = req[p].counter /\ req'[p].version = req[p].version
                             /\ (req'[p].pc \in {"catchup", "answered"} => req'[p].pc = req[p].pc)
    BY <2>2, SMT DEF NumbersInv, Shapes, Shape
  <2>6. ActiveIsNewest' /\ CounterIsNotAhead' /\ AnswersAreTrue'
    BY <2>1, <2>3, <2>5 DEF NumbersInv, Live, ActiveIsNewest, CounterIsNotAhead, AnswersAreTrue
  <2> QED BY <2>4, <2>6 DEF NumbersInv
<1> QED BY <1>1, <1>2

LEMMA ValidateStep == ASSUME NumbersInv, NEW q \in Requests, Validate(q) PROVE NumbersInv'
<1>1. UNCHANGED <<project, versions>>
  BY DEF Validate
<1>2. CASE Go(q, "refused")
  BY <1>1, <1>2, Goes
<1>3. CASE req' = [req EXCEPT ![q] = [@ EXCEPT !.pc = "commit", !.content = draft.content]]
  <2> DEFINE r1 == [req[q] EXCEPT !.pc = "commit"]
         r == [r1 EXCEPT !.content = draft.content]
  <2>1. Shape(req[q])
    BY DEF NumbersInv, Shapes
  <2>2. Shape(r) /\ r.pc = "commit"
    <3>1. Shape(r1) /\ r1.pc = "commit"
      BY <2>1, SMT DEF Shape
    <3> HIDE DEF r1
    <3> QED BY <3>1, SMT DEF Shape
  <2>3. req' = [req EXCEPT ![q] = r]
    BY <1>3
  <2> HIDE DEF r
  <2> QED BY <1>1, <2>2, <2>3, MovesOn
<1> QED BY <1>2, <1>3 DEF Validate

\* What the committing disjunct does, as other proofs need it too.
Creates(q) ==
    LET n == project.counter + 1
        created == [key |-> KeyOf[q],
                    content |-> IF q \in Restores THEN req[q].content ELSE draft.content,
                    validated |-> req[q].content]
    IN  /\ req[q].pc = "commit" /\ Commits(q) /\ project.there
        /\ ~Taken(q, n)
        /\ versions' = [m \in DOMAIN versions \cup {n} |-> IF m = n THEN created ELSE versions[m]]
        /\ project' = [project EXCEPT !.counter = n, !.active = n]
        /\ req' = [req EXCEPT ![q] = [@ EXCEPT !.pc = "answered", !.version = n]]

LEMMA CommitCases ==
    ASSUME NEW q \in Requests, Commit(q)
    PROVE  \/ UNCHANGED <<project, versions>> /\ (Go(q, "refused") \/ Go(q, "failed"))
           \/ /\ UNCHANGED <<project, versions>>
              /\ \E n \in WithKey(KeyOf[q]) :
                     req' = [req EXCEPT ![q] = [@ EXCEPT !.pc = "answered", !.version = n]]
           \/ Creates(q)
BY DEF Commit, Duplicate, Creates

\* A free number is the one after the newest: the counter is not ahead, and
\* up to the newest all are taken.
LEMMA CreatesNext ==
    ASSUME NumbersInv, NEW q \in Requests, Creates(q), Live
    PROVE  /\ project.active \in Nat
           /\ project.counter = project.active
           /\ DOMAIN versions = 1..project.active
           /\ DOMAIN versions' = 1..(project.active + 1)
           /\ \A m \in 1..project.active : versions'[m] = versions[m] /\ versions[m].key # KeyOf[q]
           /\ versions'[project.active + 1].key = KeyOf[q]
<1> DEFINE n == project.counter + 1
<1>1. /\ project.active \in Nat
      /\ project.counter \in 0..project.active
      /\ DOMAIN versions = 1..project.active
  BY DEF NumbersInv, CounterIsNotAhead, ActiveIsNewest
<1>2. n \notin DOMAIN versions /\ WithKey(KeyOf[q]) = {}
  BY DEF Creates, Taken
<1>3. project.counter = project.active
  BY <1>1, <1>2, SMT
<1>4. \A m \in 1..project.active : versions[m].key # KeyOf[q]
  BY <1>1, <1>2 DEF WithKey
<1>5. PICK created : /\ created.key = KeyOf[q]
                     /\ versions' = [m \in DOMAIN versions \cup {n} |-> IF m = n THEN created ELSE versions[m]]
  BY DEF Creates
<1> QED BY <1>1, <1>3, <1>4, <1>5, SMT

LEMMA CommitStep == ASSUME NumbersInv, NEW q \in Requests, Commit(q) PROVE NumbersInv'
<1>1. ASSUME UNCHANGED <<project, versions>>, Go(q, "refused") \/ Go(q, "failed") PROVE NumbersInv'
  BY <1>1, Goes
<1>2. ASSUME UNCHANGED <<project, versions>>, NEW n \in WithKey(KeyOf[q]),
             req' = [req EXCEPT ![q] = [@ EXCEPT !.pc = "answered", !.version = n]]
      PROVE  NumbersInv'
  BY <1>2, Answers
<1>3. ASSUME Creates(q) PROVE NumbersInv'
  <2> DEFINE n == project.counter + 1
  <2>1. project' = [project EXCEPT !.counter = n, !.active = n] /\
        req' = [req EXCEPT ![q] = [@ EXCEPT !.pc = "answered", !.version = n]]
    BY <1>3 DEF Creates
  <2>2. /\ project'.there = project.there
        /\ project'.deleting = project.deleting
        /\ project'.active = n
        /\ project'.counter = n
        /\ project' = [there |-> project'.there, deleting |-> project'.deleting,
                       cleared |-> project'.cleared, counter |-> project'.counter, active |-> project'.active]
    <3> DEFINE p1 == [project EXCEPT !.counter = n]
    <3>1. /\ p1 = [there |-> p1.there, deleting |-> p1.deleting, cleared |-> p1.cleared,
                   counter |-> p1.counter, active |-> p1.active]
          /\ p1.there = project.there /\ p1.deleting = project.deleting /\ p1.counter = n
      BY SMT DEF NumbersInv, Shapes
    <3>2. project' = [p1 EXCEPT !.active = n]
      BY <2>1
    <3> HIDE DEF p1, n
    <3> QED BY <3>1, <3>2, SMT
  <2> DEFINE r1 == [req[q] EXCEPT !.pc = "answered"]
             r == [r1 EXCEPT !.version = n]
  <2>7. Shape(r) /\ r.pc = "answered" /\ r.version = n /\ r.counter = req[q].counter
    <3>1. Shape(r1) /\ r1.pc = "answered" /\ r1.counter = req[q].counter
      BY SMT DEF NumbersInv, Shapes, Shape
    <3> HIDE DEF r1, n
    <3> QED BY <3>1, SMT DEF Shape
  <2>8. req' = [req EXCEPT ![q] = r]
    BY <2>1
  <2> HIDE DEF r
  <2>3. Shapes'
    BY <2>2, <2>7, <2>8, SMT DEF NumbersInv, Shapes
  <2>4. Live' = Live
    BY <2>2 DEF Live
  <2>5. CASE ~Live
    BY <2>3, <2>4, <2>5 DEF NumbersInv, ActiveIsNewest, CounterIsNotAhead, AnswersAreTrue
  <2>6. CASE Live
    <3>1. /\ project.active \in Nat
          /\ n = project.active + 1
          /\ DOMAIN versions = 1..project.active
          /\ DOMAIN versions' = 1..(project.active + 1)
          /\ \A m \in 1..project.active : versions'[m] = versions[m]
          /\ versions'[project.active + 1].key = KeyOf[q]
      BY <1>3, <2>6, CreatesNext
    <3>2. \A p \in Requests : req'[p].counter = req[p].counter /\ (p # q => req'[p] = req[p])
      BY <2>7, <2>8, SMT DEF NumbersInv, Shapes
    <3>3. req'[q].pc = "answered" /\ req'[q].version = n
      BY <2>7, <2>8, SMT DEF NumbersInv, Shapes
    <3>4. ActiveIsNewest'
      BY <2>2, <3>1 DEF ActiveIsNewest
    <3>5. CounterIsNotAhead'
      <4>1. n \in Nat /\ n \in 0..n /\ \A k \in 0..project.active : k \in 0..n
        BY <3>1, SMT
      <4>2. \A p \in Requests : req'[p].pc = "catchup" => req[p].pc = "catchup"
        BY <3>2, <3>3, SMT
      <4>3. \A p \in Requests : req[p].pc = "catchup" => req[p].counter \in 0..project.active
        BY <2>6 DEF NumbersInv, CounterIsNotAhead
      <4>4. \A p \in Requests : req'[p].pc = "catchup" => req'[p].counter \in 0..n
        BY <3>2, <4>1, <4>2, <4>3
      <4> HIDE DEF n
      <4> QED BY <2>2, <4>1, <4>4 DEF CounterIsNotAhead
    <3>6. AnswersAreTrue'
      <4>1. n \in DOMAIN versions' /\ versions'[n].key = KeyOf[q]
        BY <3>1, SMT
      <4>2. \A m \in DOMAIN versions : m \in DOMAIN versions' /\ versions'[m] = versions[m]
        BY <3>1, SMT
      <4>3. \A p \in Requests : req[p].pc = "answered" =>
                req[p].version \in DOMAIN versions /\ versions[req[p].version].key = KeyOf[p]
        BY <2>6 DEF NumbersInv, AnswersAreTrue
      <4> HIDE DEF n
      <4>4. \A p \in Requests : req'[p].pc = "answered" =>
                req'[p].version \in DOMAIN versions' /\ versions'[req'[p].version].key = KeyOf[p]
        <5> SUFFICES ASSUME NEW p \in Requests, req'[p].pc = "answered"
                     PROVE  req'[p].version \in DOMAIN versions' /\ versions'[req'[p].version].key = KeyOf[p]
          OBVIOUS
        <5>1. CASE p = q
          BY <3>3, <4>1, <5>1
        <5>2. CASE p # q
          <6>1. req'[p] = req[p]
            BY <3>2, <5>2
          <6> QED BY <4>2, <4>3, <6>1
        <5> QED BY <5>1, <5>2
      <4> QED BY <4>4 DEF AnswersAreTrue
    <3> QED BY <2>3, <3>4, <3>5, <3>6 DEF NumbersInv
  <2> QED BY <2>5, <2>6
<1> QED BY <1>1, <1>2, <1>3, CommitCases

\* While the project is being deleted nothing is promised of its numbers.
LEMMA DeleteStep ==
    ASSUME NumbersInv, DeleteStarts \/ DeleteVersions \/ DeleteDraft \/ DeleteProject
    PROVE  NumbersInv'
<1>1. CASE DeleteDraft
  BY <1>1 DEF DeleteDraft, publishVars, NumbersInv, Shapes, Shape, Live, ActiveIsNewest,
     CounterIsNotAhead, AnswersAreTrue
<1>2. CASE DeleteStarts \/ DeleteVersions \/ DeleteProject
  <2>1. /\ project' = [there |-> project'.there, deleting |-> project'.deleting,
                       cleared |-> project'.cleared, counter |-> project'.counter, active |-> project'.active]
        /\ project'.there \in BOOLEAN
        /\ project'.deleting = TRUE
    <3>1. CASE DeleteStarts
      <4> DEFINE p == [there |-> project.there, deleting |-> TRUE,
                       cleared |-> project.cleared, counter |-> project.counter, active |-> project.active]
      <4>1. project' = p
        BY <3>1 DEF DeleteStarts, NumbersInv, Shapes
      <4>2. project.there \in BOOLEAN
        BY DEF NumbersInv, Shapes
      <4> QED BY <4>1, <4>2
    <3>2. CASE DeleteVersions
      <4> DEFINE p == [there |-> project.there, deleting |-> project.deleting,
                       cleared |-> TRUE, counter |-> project.counter, active |-> project.active]
      <4>1. project' = p
        BY <3>2 DEF DeleteVersions, NumbersInv, Shapes
      <4>2. project.there = TRUE /\ project.deleting = TRUE
        BY <3>2 DEF DeleteVersions, NumbersInv, Shapes
      <4> QED BY <4>1, <4>2
    <3>3. CASE DeleteProject
      <4> DEFINE p == [there |-> FALSE, deleting |-> project.deleting,
                       cleared |-> project.cleared, counter |-> project.counter, active |-> project.active]
      <4>1. project' = p
        BY <3>3 DEF DeleteProject, NumbersInv, Shapes
      <4>2. project.deleting = TRUE
        BY <3>3 DEF DeleteProject, NumbersInv, Shapes
      <4> QED BY <4>1, <4>2
    <3> QED BY <1>2, <3>1, <3>2, <3>3
  <2>2. req' = req
    BY <1>2 DEF DeleteStarts, DeleteVersions, DeleteProject
  <2>3. ~Live'
    BY <2>1 DEF Live
  <2>4. Shapes'
    BY <2>1, <2>2 DEF NumbersInv, Shapes, Shape
  <2> QED BY <2>3, <2>4 DEF NumbersInv, ActiveIsNewest, CounterIsNotAhead, AnswersAreTrue
<1> QED BY <1>1, <1>2

LEMMA NumbersStep == NumbersInv /\ [Next]_vars => NumbersInv'
<1> SUFFICES ASSUME NumbersInv, [Next]_vars PROVE NumbersInv'
  OBVIOUS
<1>1. CASE UNCHANGED publishVars
  BY <1>1 DEF publishVars, NumbersInv, Shapes, Shape, Live, ActiveIsNewest, CounterIsNotAhead,
     AnswersAreTrue
<1>2. ASSUME NEW q \in Requests,
             Send(q) \/ ReadProject(q) \/ Lookup(q) \/ CatchUp(q) \/ Validate(q) \/ Commit(q)
      PROVE  NumbersInv'
  BY <1>2, SendStep, ReadProjectStep, LookupStep, CatchUpStep, ValidateStep, CommitStep
<1>3. CASE DeleteStarts \/ DeleteVersions \/ DeleteDraft \/ DeleteProject
  BY <1>3, DeleteStep
<1> QED BY <1>1, <1>2, <1>3 DEF Next, vars

\* The numbers of a live project are without a gap, and every answer names
\* the version of its own key: for any number of requests, however late.
THEOREM PublishingNumbers == Spec => [](ActiveIsNewest /\ AnswersAreTrue)
<1>1. NumbersInv => ActiveIsNewest /\ AnswersAreTrue
  BY DEF NumbersInv
<1> QED BY <1>1, InitNumbers, NumbersStep, PTL DEF Spec

-----------------------------------------------------------------------------
(* The refinement: a transaction that creates a version is a step of the   *)
(* history, the deletion is one when it starts and when it ends.           *)

LEMMA CreateIsPublish ==
    ASSUME NumbersInv, NEW q \in Requests, Creates(q), Live
    PROVE  History!Publish(KeyOf[q])
<1>1. /\ project.active \in Nat
      /\ project.counter = project.active
      /\ DOMAIN versions = 1..project.active
      /\ DOMAIN versions' = 1..(project.active + 1)
      /\ \A m \in 1..project.active : versions'[m] = versions[m] /\ versions[m].key # KeyOf[q]
      /\ versions'[project.active + 1].key = KeyOf[q]
  BY CreatesNext
<1>2. project' = [project EXCEPT !.counter = project.counter + 1, !.active = project.counter + 1]
  BY DEF Creates
<1>3. project'.active = project.active + 1 /\ project'.there = project.there
      /\ project'.deleting = project.deleting
  <2> DEFINE n == project.counter + 1
             p1 == [project EXCEPT !.counter = n]
  <2>1. /\ p1 = [there |-> p1.there, deleting |-> p1.deleting, cleared |-> p1.cleared,
                   counter |-> p1.counter, active |-> p1.active]
        /\ p1.there = project.there /\ p1.deleting = project.deleting
    BY SMT DEF NumbersInv, Shapes
  <2>2. project' = [p1 EXCEPT !.active = n] /\ n = project.active + 1
    BY <1>1, <1>2
  <2> HIDE DEF p1, n
  <2> QED BY <2>1, <2>2, SMT
<1>4. Live' /\ project.there /\ project'.there
  BY <1>3 DEF Live
<1> QED BY <1>1, <1>3, <1>4 DEF History!Publish

LEMMA StillHistory ==
    ASSUME UNCHANGED <<project, versions>>
    PROVE  UNCHANGED History!vars
BY DEF History!vars, Live

LEMMA CommitIsHistory ==
    ASSUME NumbersInv, NEW q \in Requests, Commit(q)
    PROVE  [History!Next]_(History!vars)
<1>1. CASE UNCHANGED <<project, versions>>
  BY <1>1, StillHistory
<1>2. CASE Creates(q)
  <2>1. CASE Live
    BY <1>2, <2>1, CreateIsPublish DEF History!Next
  <2>2. CASE ~Live
    <3>1. project.there /\ project.deleting
      BY <1>2, <2>2 DEF Creates, Live, NumbersInv, Shapes
    <3>2. project'.there /\ project'.deleting
      <4> DEFINE n == project.counter + 1
                 p1 == [project EXCEPT !.counter = n]
      <4>1. p1 = [there |-> p1.there, deleting |-> p1.deleting, cleared |-> p1.cleared,
                   counter |-> p1.counter, active |-> p1.active]
            /\ p1.there = project.there /\ p1.deleting = project.deleting
        BY SMT DEF NumbersInv, Shapes
      <4>2. project' = [p1 EXCEPT !.active = n]
        BY <1>2 DEF Creates
      <4> HIDE DEF p1, n
      <4>3. project'.there = project.there /\ project'.deleting = project.deleting
        BY <4>1, <4>2, SMT
      <4> QED BY <3>1, <4>3
    <3> QED BY <3>1, <3>2 DEF History!vars, Live
  <2> QED BY <2>1, <2>2
<1> QED BY <1>1, <1>2, CommitCases

LEMMA HistoryStep == NumbersInv /\ [Next]_vars => [History!Next]_(History!vars)
<1> SUFFICES ASSUME NumbersInv, [Next]_vars PROVE [History!Next]_(History!vars)
  OBVIOUS
<1>1. CASE UNCHANGED publishVars
  BY <1>1, StillHistory DEF publishVars
<1>2. ASSUME NEW q \in Requests, Send(q) \/ ReadProject(q) \/ Lookup(q) \/ Validate(q)
      PROVE  [History!Next]_(History!vars)
  BY <1>2, StillHistory DEF Send, ReadProject, Lookup, Validate
<1>3. ASSUME NEW q \in Requests, CatchUp(q) PROVE [History!Next]_(History!vars)
  <2>1. CASE UNCHANGED project
    BY <1>3, <2>1, StillHistory DEF CatchUp
  <2>2. CASE project' = [project EXCEPT !.counter = req[q].counter]
    <3>1. /\ project'.there = project.there
          /\ project'.deleting = project.deleting
          /\ project'.active = project.active
      BY <2>2, SMT DEF NumbersInv, Shapes
    <3>2. UNCHANGED versions
      BY <1>3 DEF CatchUp
    <3> QED BY <3>1, <3>2 DEF History!vars, Live
  <2> QED BY <1>3, <2>1, <2>2 DEF CatchUp
<1>4. ASSUME NEW q \in Requests, Commit(q) PROVE [History!Next]_(History!vars)
  BY <1>4, CommitIsHistory
<1>5. CASE DeleteStarts
  <2>1. /\ project.there /\ ~project.deleting
        /\ project'.there /\ project'.deleting
        /\ UNCHANGED versions
    BY <1>5, SMT DEF DeleteStarts, NumbersInv, Shapes
  <2> QED BY <2>1 DEF History!Next, History!Delete, Live
<1>6. CASE DeleteVersions
  <2>1. project.there /\ project.deleting /\ project'.there /\ project'.deleting
    BY <1>6, SMT DEF DeleteVersions, NumbersInv, Shapes
  <2> QED BY <1>6, <2>1 DEF DeleteVersions, History!vars, Live
<1>7. CASE DeleteDraft
  BY <1>7, StillHistory DEF DeleteDraft, publishVars
<1>8. CASE DeleteProject
  <2>1. project.there /\ project.deleting /\ ~project'.there /\ project'.deleting
    BY <1>8, SMT DEF DeleteProject, NumbersInv, Shapes
  <2> QED BY <1>8, <2>1 DEF DeleteProject, History!Next, History!Gone, Live
<1> QED BY <1>1, <1>2, <1>3, <1>4, <1>5, <1>6, <1>7, <1>8 DEF Next, vars

LEMMA HistoryInit == Init => History!Init
BY SMT DEF Init, Live, History!Init

\* Publishing, restoring and deleting implement the append-only history.
THEOREM PublishingIsAHistory == Spec => ImplementsVersionHistory
<1> QED BY InitNumbers, NumbersStep, HistoryInit, HistoryStep, PTL
        DEF Spec, ImplementsVersionHistory, History!Spec

-----------------------------------------------------------------------------
(* The types of the draft's variables.                                     *)

Page == [open : BOOLEAN, present : SUBSET Changes, past : Seq(SUBSET Changes),
         future : Seq(SUBSET Changes), rev : Nat, dirty : BOOLEAN, armed : BOOLEAN, told : BOOLEAN]

Copy == [content : SUBSET Changes, rev : Nat]

\* A page has these fields.
Filled(p) == p = [open |-> p.open, present |-> p.present, past |-> p.past, future |-> p.future,
                  rev |-> p.rev, dirty |-> p.dirty, armed |-> p.armed, told |-> p.told]

LEMMA PageFields ==
    ASSUME NEW p
    PROVE  p \in Page <=>
               /\ Filled(p)
               /\ p.open \in BOOLEAN /\ p.present \in SUBSET Changes
               /\ p.past \in Seq(SUBSET Changes) /\ p.future \in Seq(SUBSET Changes)
               /\ p.rev \in Nat /\ p.dirty \in BOOLEAN /\ p.armed \in BOOLEAN /\ p.told \in BOOLEAN
BY SMT DEF Filled, Page

LEMMA TypesOfParts ==
    ASSUME DraftTypeOK
    PROVE  /\ bound \in Bounds
           /\ draft \in [there : BOOLEAN, rev : Nat, content : SUBSET Changes]
           /\ draft.rev \in Nat /\ draft.content \in SUBSET Changes /\ draft.there \in BOOLEAN
           /\ ed \in [Editors -> Page]
           /\ local \in [Editors -> {None} \cup Copy]
           /\ save \in [Editors -> Call]
           /\ adrift \subseteq Copy
           /\ upload \in [Editors -> Call]
           /\ removed \subseteq Changes
           /\ overlapped \in BOOLEAN
BY DEF DraftTypeOK, Page, Copy

LEMMA CallFields ==
    ASSUME NEW c
    PROVE  c \in Call <=>
               /\ c = [pc |-> c.pc, rev |-> c.rev, content |-> c.content]
               /\ c.pc \in {"idle", "sent", "read", "saved", "refused", "failed"}
               /\ c.rev \in Nat /\ c.content \in SUBSET Changes
BY SMT DEF Call

LEMMA CallMovesOn ==
    ASSUME NEW c \in Call, NEW pc \in {"idle", "sent", "read", "saved", "refused", "failed"}
    PROVE  /\ [c EXCEPT !.pc = pc] \in Call
           /\ [c EXCEPT !.pc = pc].pc = pc
           /\ [c EXCEPT !.pc = pc].rev = c.rev
           /\ [c EXCEPT !.pc = pc].content = c.content
BY SMT DEF Call

LEMMA NewestIsSeq ==
    ASSUME NEW s \in Seq(SUBSET Changes)
    PROVE  Newest(s) \in Seq(SUBSET Changes)
<1>1. CASE Len(s) > HistoryLimit
  <2>1. Len(s) \in Nat /\ HistoryLimit \in Nat
    BY LenProperties, EditingAssumption
  <2>2. Len(s) - HistoryLimit + 1 \in 1..Len(s)
    BY <1>1, <2>1, EditingAssumption, SMT
  <2>3. \A i \in Len(s) - HistoryLimit + 1 .. Len(s) : s[i] \in SUBSET Changes
    BY <2>1, <2>2, ElementOfSeq, SMT
  <2> QED BY <1>1, <2>1, <2>2, <2>3, SubSeqProperties, SMT DEF Newest
<1>2. CASE ~(Len(s) > HistoryLimit)
  BY <1>2 DEF Newest
<1> QED BY <1>1, <1>2

LEMMA LastOfPast ==
    ASSUME NEW s \in Seq(SUBSET Changes), s # <<>>
    PROVE  s[Len(s)] \in SUBSET Changes /\ SubSeq(s, 1, Len(s) - 1) \in Seq(SUBSET Changes)
<1>1. Len(s) \in Nat \ {0}
  BY EmptySeq
<1>2. Len(s) \in 1..Len(s) /\ \A i \in 1..(Len(s) - 1) : i \in 1..Len(s)
  BY <1>1, SMT
<1>3. \A i \in 1..(Len(s) - 1) : s[i] \in SUBSET Changes
  BY <1>2, ElementOfSeq
<1>4. Len(s) - 1 \in Int
  BY <1>1, SMT
<1> QED BY <1>2, <1>3, <1>4, ElementOfSeq, SubSeqProperties

LEMMA NextChange ==
    ASSUME DraftTypeOK, made < bound.changes
    PROVE  made + 1 \in Changes /\ made + 1 \in 0..bound.changes
<1>1. bound.changes \in Nat /\ 1..bound.changes \subseteq Changes
  BY EditingAssumption DEF DraftTypeOK
<1>2. made \in 0..bound.changes
  BY DEF DraftTypeOK
<1> QED BY <1>1, <1>2, SMT

\* A counter of the bounded happenings.
LEMMA Counted ==
    ASSUME NEW limit \in Nat, NEW n \in 0..limit, n < limit
    PROVE  n + 1 \in 0..limit
BY SMT

LEMMA LimitsAreNat ==
    ASSUME DraftTypeOK
    PROVE  /\ bound.undos \in Nat /\ bound.uploads \in Nat /\ bound.losses \in Nat
BY EditingAssumption DEF DraftTypeOK

LEMMA RecoveryTypes ==
    ASSUME DraftTypeOK, NEW e \in Editors, NEW page \in Page, Recovery(e, page)
    PROVE  local' \in [Editors -> {None} \cup Copy]
<1>1. page.present \in SUBSET Changes /\ page.rev \in Nat
  BY PageFields
<1>2. [content |-> page.present, rev |-> page.rev] \in Copy
  BY <1>1 DEF Copy
<1>3. local \in [Editors -> {None} \cup Copy]
  BY TypesOfParts
<1> QED BY <1>2, <1>3 DEF Recovery

\* What is shown after an edit, an undo or a redo.
LEMMA Shows ==
    ASSUME DraftTypeOK, NEW e \in Editors, NEW present \in SUBSET Changes,
           NEW past \in Seq(SUBSET Changes), NEW future \in Seq(SUBSET Changes),
           Show(e, present, past, future)
    PROVE  \E page \in Page :
               /\ page.open = ed[e].open /\ page.present = present /\ page.rev = ed[e].rev
               /\ page.dirty = TRUE /\ page.armed = TRUE
               /\ ed' = [ed EXCEPT ![e] = page]
               /\ Recovery(e, page)
               /\ removed' = removed \cup (ed[e].present \ present)
<1> DEFINE yes == TRUE
           p1 == [ed[e] EXCEPT !.present = present]
           p2 == [p1 EXCEPT !.past = past]
           p3 == [p2 EXCEPT !.future = future]
           p4 == [p3 EXCEPT !.dirty = yes]
           p5 == [p4 EXCEPT !.armed = yes]
<1>0. ed[e] \in Page
  BY TypesOfParts
<1>a. /\ Filled(ed[e]) /\ ed[e].open \in BOOLEAN /\ ed[e].rev \in Nat /\ ed[e].told \in BOOLEAN
  BY <1>0, PageFields
<1> HIDE DEF yes
<1>1. Filled(p1) /\ p1.present = present /\ p1.open = ed[e].open /\ p1.rev = ed[e].rev
      /\ p1.told = ed[e].told
  BY <1>a, SMT DEF Filled
<1> HIDE DEF p1
<1>2. Filled(p2) /\ p2.present = present /\ p2.open = ed[e].open /\ p2.rev = ed[e].rev
      /\ p2.told = ed[e].told /\ p2.past = past
  BY <1>1, SMT DEF Filled
<1> HIDE DEF p2
<1>3. Filled(p3) /\ p3.present = present /\ p3.open = ed[e].open /\ p3.rev = ed[e].rev
      /\ p3.told = ed[e].told /\ p3.past = past /\ p3.future = future
  BY <1>2, SMT DEF Filled
<1> HIDE DEF p3
<1>4. Filled(p4) /\ p4.present = present /\ p4.open = ed[e].open /\ p4.rev = ed[e].rev
      /\ p4.told = ed[e].told /\ p4.past = past /\ p4.future = future /\ p4.dirty = yes
  BY <1>3, SMT DEF Filled
<1> HIDE DEF p4
<1>5. Filled(p5) /\ p5.present = present /\ p5.open = ed[e].open /\ p5.rev = ed[e].rev
      /\ p5.told = ed[e].told /\ p5.past = past /\ p5.future = future /\ p5.dirty = yes
      /\ p5.armed = yes
  BY <1>4, SMT DEF Filled
<1>6. /\ ed' = [ed EXCEPT ![e] = p5]
      /\ Recovery(e, p5)
      /\ removed' = removed \cup (ed[e].present \ present)
  BY DEF Show, yes, p1, p2, p3, p4
<1> HIDE DEF p5
<1>7. p5 \in Page
  BY <1>a, <1>5, PageFields DEF yes
<1> QED BY <1>5, <1>6, <1>7 DEF yes

LEMMA ShowTypes ==
    ASSUME DraftTypeOK, NEW e \in Editors, NEW present \in SUBSET Changes,
           NEW past \in Seq(SUBSET Changes), NEW future \in Seq(SUBSET Changes),
           Show(e, present, past, future)
    PROVE  /\ ed' \in [Editors -> Page]
           /\ local' \in [Editors -> {None} \cup Copy]
           /\ removed' \subseteq Changes
<1>1. PICK page \in Page :
               /\ ed' = [ed EXCEPT ![e] = page]
               /\ Recovery(e, page)
               /\ removed' = removed \cup (ed[e].present \ present)
  BY Shows
<1>2. ed \in [Editors -> Page] /\ removed \subseteq Changes /\ ed[e].present \in SUBSET Changes
  BY TypesOfParts, PageFields
<1> QED BY <1>1, <1>2, RecoveryTypes

LEMMA OpenTypes == ASSUME DraftTypeOK, NEW e \in Editors, Open(e) PROVE DraftTypeOK'
<1>1. PICK restore \in BOOLEAN :
          LET offered == local[e] # None /\ local[e].rev = draft.rev
                             /\ local[e].content # draft.content
              page == [open |-> TRUE, present |-> IF restore THEN local[e].content ELSE draft.content,
                       past |-> <<>>, future |-> <<>>, rev |-> draft.rev,
                       dirty |-> restore, armed |-> restore, told |-> FALSE]
          IN /\ restore => offered
             /\ ed' = [ed EXCEPT ![e] = page]
             /\ Recovery(e, page)
             /\ removed' = IF offered /\ ~restore
                           THEN removed \cup (local[e].content \ draft.content)
                           ELSE removed
  BY DEF Open
<1> DEFINE present == IF restore THEN local[e].content ELSE draft.content
           page == [open |-> TRUE, present |-> present, past |-> <<>>, future |-> <<>>,
                    rev |-> draft.rev, dirty |-> restore, armed |-> restore, told |-> FALSE]
<1>2. local[e] # None => local[e].content \in SUBSET Changes
  BY TypesOfParts DEF Copy
<1>3. present \in SUBSET Changes /\ draft.rev \in Nat
  BY <1>1, <1>2, TypesOfParts
<1> HIDE DEF present
<1>4. page \in Page
  BY <1>3, EmptySeq DEF Page
<1>5. ed' = [ed EXCEPT ![e] = page] /\ Recovery(e, page)
  BY <1>1 DEF present
<1> HIDE DEF page
<1>6. ed' \in [Editors -> Page]
  BY <1>4, <1>5, TypesOfParts
<1>7. local' \in [Editors -> {None} \cup Copy]
  BY <1>4, <1>5, RecoveryTypes
<1>8. removed' \subseteq Changes
  <2>1. removed' = removed \/ (local[e] # None /\ removed' = removed \cup (local[e].content \ draft.content))
    BY <1>1
  <2> QED BY <1>2, <2>1, TypesOfParts
<1>9. UNCHANGED <<bound, auto, draft, save, adrift, upload, made, undos, uploads, losses, overlapped>>
  BY DEF Open
<1> QED BY <1>6, <1>7, <1>8, <1>9 DEF DraftTypeOK, Page, Copy

LEMMA EditTypes == ASSUME DraftTypeOK, NEW e \in Editors, Edit(e) PROVE DraftTypeOK'
<1>1. made + 1 \in Changes /\ made' \in 0..bound.changes
  BY NextChange DEF Edit
<1>2. ed[e].present \in SUBSET Changes /\ ed[e].past \in Seq(SUBSET Changes)
  BY TypesOfParts, PageFields
<1>3. /\ \A kept \in {ed[e].present, ed[e].present \ bound.faulty} : kept \cup {made + 1} \in SUBSET Changes
      /\ Newest(Append(ed[e].past, ed[e].present)) \in Seq(SUBSET Changes)
      /\ <<>> \in Seq(SUBSET Changes)
  BY <1>1, <1>2, AppendProperties, NewestIsSeq, EmptySeq
<1>4. /\ ed' \in [Editors -> Page]
      /\ local' \in [Editors -> {None} \cup Copy]
      /\ removed' \subseteq Changes
  BY <1>3, ShowTypes DEF Edit
<1>5. UNCHANGED <<bound, auto, draft, save, adrift, upload, undos, uploads, losses, overlapped>>
  BY DEF Edit
<1> QED BY <1>1, <1>4, <1>5 DEF DraftTypeOK, Page, Copy

LEMMA PageSequences ==
    ASSUME DraftTypeOK, NEW e \in Editors
    PROVE  /\ ed[e].present \in SUBSET Changes
           /\ ed[e].past \in Seq(SUBSET Changes)
           /\ ed[e].future \in Seq(SUBSET Changes)
BY TypesOfParts, PageFields

\* What an undo or a redo shows instead, and that its sequences are some.
LEMMA UndoShows ==
    ASSUME DraftTypeOK, NEW e \in Editors, Undo(e)
    PROVE  \E present \in SUBSET Changes, past, future \in Seq(SUBSET Changes) : Show(e, present, past, future)
<1>1. ed[e].past # <<>> /\ Show(e, ed[e].past[Len(ed[e].past)], SubSeq(ed[e].past, 1, Len(ed[e].past) - 1),
                                  <<ed[e].present>> \o ed[e].future)
  BY DEF Undo
<1>2. <<ed[e].present>> \in Seq(SUBSET Changes)
  BY PageSequences
<1>3. <<ed[e].present>> \o ed[e].future \in Seq(SUBSET Changes)
  BY <1>2, PageSequences, ConcatProperties
<1> QED BY <1>1, <1>3, PageSequences, LastOfPast

LEMMA RedoShows ==
    ASSUME DraftTypeOK, NEW e \in Editors, Redo(e)
    PROVE  \E present \in SUBSET Changes, past, future \in Seq(SUBSET Changes) : Show(e, present, past, future)
<1>1. ed[e].future # <<>> /\ Show(e, Head(ed[e].future), Newest(Append(ed[e].past, ed[e].present)),
                                    Tail(ed[e].future))
  BY DEF Redo
<1>2. Newest(Append(ed[e].past, ed[e].present)) \in Seq(SUBSET Changes)
  BY PageSequences, AppendProperties, NewestIsSeq
<1> QED BY <1>1, <1>2, PageSequences, HeadTailProperties

LEMMA UndoRedoTypes == ASSUME DraftTypeOK, NEW e \in Editors, Undo(e) \/ Redo(e) PROVE DraftTypeOK'
<1>1. PICK present \in SUBSET Changes, past \in Seq(SUBSET Changes), future \in Seq(SUBSET Changes) :
          Show(e, present, past, future)
  BY UndoShows, RedoShows
<1>2. /\ ed' \in [Editors -> Page]
      /\ local' \in [Editors -> {None} \cup Copy]
      /\ removed' \subseteq Changes
  BY <1>1, ShowTypes
<1>3. undos < bound.undos /\ undos' = undos + 1 /\
      UNCHANGED <<bound, auto, draft, save, adrift, upload, made, uploads, losses, overlapped>>
  BY DEF Undo, Redo
<1>4. undos \in 0..bound.undos
  BY DEF DraftTypeOK
<1>5. undos' \in 0..bound.undos
  BY <1>3, <1>4, Counted, LimitsAreNat
<1> QED BY <1>2, <1>3, <1>5 DEF DraftTypeOK, Page, Copy

LEMMA LossCounted ==
    ASSUME DraftTypeOK, losses < bound.losses, losses' = losses + 1
    PROVE  losses' \in 0..bound.losses
<1>1. losses \in 0..bound.losses
  BY DEF DraftTypeOK
<1> QED BY <1>1, Counted, LimitsAreNat

LEMMA UnansweredTypes ==
    ASSUME DraftTypeOK, NEW e \in Editors, Unanswered(e)
    PROVE  adrift' \subseteq Copy
<1>1. save[e] \in Call /\ adrift \subseteq Copy
  BY TypesOfParts
<1>2. save[e].rev \in Nat /\ save[e].content \in SUBSET Changes
  BY <1>1, CallFields
<1>3. [rev |-> save[e].rev, content |-> save[e].content] \in Copy
  BY <1>2 DEF Copy
<1> QED BY <1>1, <1>3 DEF Unanswered

LEMMA EmptyTypes == Closed \in Page /\ NoCall \in Call
BY EmptySeq DEF Closed, Page, NoCall, Call

LEMMA CloseTypes == ASSUME DraftTypeOK, NEW e \in Editors, Close(e) PROVE DraftTypeOK'
<1>1. ed' \in [Editors -> Page]
  BY TypesOfParts, EmptyTypes DEF Close
<1>2. losses' \in 0..bound.losses
  BY LossCounted DEF Close
<1>3. UNCHANGED <<bound, auto, draft, local, save, adrift, upload, made, removed, undos, uploads, overlapped>>
  BY DEF Close
<1> QED BY <1>1, <1>2, <1>3 DEF DraftTypeOK, Page, Copy

LEMMA CrashTypes == ASSUME DraftTypeOK, NEW e \in Editors, Crash(e) PROVE DraftTypeOK'
<1>1. ed' \in [Editors -> Page] /\ save' \in [Editors -> Call]
  BY TypesOfParts, EmptyTypes DEF Crash
<1>2. losses' \in 0..bound.losses
  BY LossCounted DEF Crash
<1>3. adrift' \subseteq Copy
  BY UnansweredTypes DEF Crash
<1>4. UNCHANGED <<bound, draft, local, upload, made, removed, undos, uploads, overlapped>>
  BY DEF Crash
<1>5. auto' \in [Editors -> BOOLEAN]
  BY DEF Crash, DraftTypeOK
<1> QED BY <1>1, <1>2, <1>3, <1>4, <1>5 DEF DraftTypeOK, Page, Copy

\* The page when its timer has fired, and when it has told an error.
LEMMA PageWith ==
    ASSUME NEW p \in Page, NEW b \in BOOLEAN
    PROVE  /\ [p EXCEPT !.armed = b] \in Page
           /\ [p EXCEPT !.armed = b].armed = b
           /\ [p EXCEPT !.told = b] \in Page
           /\ [p EXCEPT !.told = b].armed = p.armed
           /\ \A q \in {[p EXCEPT !.armed = b], [p EXCEPT !.told = b]} :
                  q.open = p.open /\ q.present = p.present /\ q.rev = p.rev /\ q.dirty = p.dirty
<1> DEFINE q1 == [p EXCEPT !.armed = b]
           q2 == [p EXCEPT !.told = b]
<1>1. Filled(p) /\ p.open \in BOOLEAN /\ p.present \in SUBSET Changes
               /\ p.past \in Seq(SUBSET Changes) /\ p.future \in Seq(SUBSET Changes)
               /\ p.rev \in Nat /\ p.dirty \in BOOLEAN /\ p.armed \in BOOLEAN /\ p.told \in BOOLEAN
  BY PageFields
<1>2. Filled(q1) /\ q1.open = p.open /\ q1.present = p.present /\ q1.past = p.past /\ q1.rev = p.rev
      /\ q1.dirty = p.dirty /\ q1.armed = b /\ q1.told = p.told /\ q1.future = p.future
  BY <1>1, SMT DEF Filled
<1>3. Filled(q2) /\ q2.open = p.open /\ q2.present = p.present /\ q2.past = p.past /\ q2.rev = p.rev
      /\ q2.dirty = p.dirty /\ q2.armed = p.armed /\ q2.told = b /\ q2.future = p.future
  BY <1>1, SMT DEF Filled
<1> HIDE DEF q1, q2
<1>4. q1 \in Page
  BY <1>1, <1>2, PageFields
<1>5. q2 \in Page
  BY <1>1, <1>3, PageFields
<1>6. \A q \in {q1, q2} : q.open = p.open /\ q.present = p.present /\ q.rev = p.rev /\ q.dirty = p.dirty
  BY <1>2, <1>3
<1> QED BY <1>2, <1>3, <1>4, <1>5, <1>6 DEF q1, q2

\* The timer and the user start, stop and switch the autosave, and send what
\* a dirty page shows.
LEMMA TimerSteps ==
    ASSUME DraftTypeOK, NEW e \in Editors, Autosave(e) \/ SaveNow(e) \/ Rearm(e) \/ Toggle(e)
    PROVE  /\ \E b \in BOOLEAN : /\ ed' = [ed EXCEPT ![e] = [ed[e] EXCEPT !.armed = b]]
                                 /\ b => ed[e].dirty
           /\ save' = save \/ (ed[e].open /\ (ed[e].armed \/ ed[e].dirty) /\ SendDraft(e))
           /\ auto' \in [Editors -> BOOLEAN]
           /\ UNCHANGED <<bound, draft, local, adrift, upload, made, removed, undos, uploads, losses, overlapped>>
<1>0. auto \in [Editors -> BOOLEAN] /\ ed[e].dirty \in BOOLEAN
  BY TypesOfParts, PageFields DEF DraftTypeOK
<1>1. CASE Autosave(e) \/ SaveNow(e)
  <2>1. ed' = [ed EXCEPT ![e] = [ed[e] EXCEPT !.armed = FALSE]]
    BY <1>1 DEF Autosave, SaveNow
  <2> QED BY <1>0, <1>1, <2>1 DEF Autosave, SaveNow
<1>2. CASE Rearm(e)
  <2>1. ed' = [ed EXCEPT ![e] = [ed[e] EXCEPT !.armed = TRUE]] /\ ed[e].dirty
    BY <1>2 DEF Rearm
  <2> QED BY <1>0, <1>2, <2>1 DEF Rearm
<1>3. CASE Toggle(e)
  <2>1. ed' = [ed EXCEPT ![e] = [ed[e] EXCEPT !.armed = ed[e].dirty]]
    BY <1>3 DEF Toggle
  <2> QED BY <1>0, <1>3, <2>1 DEF Toggle
<1> QED BY <1>1, <1>2, <1>3

LEMMA TimerTypes ==
    ASSUME DraftTypeOK, NEW e \in Editors, Autosave(e) \/ SaveNow(e) \/ Rearm(e) \/ Toggle(e)
    PROVE  DraftTypeOK'
<1>1. PICK b \in BOOLEAN : ed' = [ed EXCEPT ![e] = [ed[e] EXCEPT !.armed = b]]
  BY TimerSteps
<1>2. [ed[e] EXCEPT !.armed = b] \in Page
  <2>1. ed[e] \in Page
    BY TypesOfParts
  <2> QED BY <2>1, PageWith
<1>3. ed' \in [Editors -> Page]
  BY <1>1, <1>2, TypesOfParts
<1>4. ed[e].rev \in Nat /\ ed[e].present \in SUBSET Changes
  BY TypesOfParts, PageFields
<1>5. [pc |-> "sent", rev |-> ed[e].rev, content |-> ed[e].present] \in Call
  BY <1>4 DEF Call
<1>6. save' \in [Editors -> Call]
  BY <1>5, TypesOfParts, TimerSteps DEF SendDraft
<1>7. /\ UNCHANGED <<bound, draft, local, adrift, upload, made, removed, undos, uploads, losses, overlapped>>
      /\ auto' \in [Editors -> BOOLEAN]
  BY TimerSteps
<1> QED BY <1>3, <1>6, <1>7 DEF DraftTypeOK, Page, Copy

LEMMA Writes ==
    ASSUME DraftTypeOK, NEW rev \in Nat, NEW content \in SUBSET Changes, Write(rev, content)
    PROVE  /\ draft' \in [there : BOOLEAN, rev : Nat, content : SUBSET Changes]
           /\ draft'.rev = rev + 1 /\ draft'.content = content /\ draft'.there = draft.there
<1> DEFINE n == rev + 1
           d1 == [draft EXCEPT !.rev = n]
           d2 == [d1 EXCEPT !.content = content]
<1>0. n \in Nat
  BY SMT
<1> HIDE DEF n
<1>1. draft = [there |-> draft.there, rev |-> draft.rev, content |-> draft.content] /\ draft.there \in BOOLEAN
  BY SMT, TypesOfParts
<1>2. d1 = [there |-> d1.there, rev |-> d1.rev, content |-> d1.content] /\ d1.there = draft.there /\ d1.rev = n
  BY <1>1, SMT
<1> HIDE DEF d1
<1>3. d2 = [there |-> d2.there, rev |-> d2.rev, content |-> d2.content] /\ d2.there = draft.there
      /\ d2.rev = n /\ d2.content = content
  BY <1>2, SMT
<1>4. draft' = d2
  BY DEF Write, n, d1
<1> HIDE DEF d2
<1>5. d2 \in [there : BOOLEAN, rev : Nat, content : SUBSET Changes]
  BY <1>0, <1>1, <1>3
<1> QED BY <1>3, <1>4, <1>5 DEF n

LEMMA PutUpdates ==
    ASSUME DraftTypeOK, NEW call, call.rev \in Nat, call.content \in SUBSET Changes, Put(call)
    PROVE  /\ draft' \in [there : BOOLEAN, rev : Nat, content : SUBSET Changes]
           /\ draft'.rev = call.rev + 1 /\ draft'.content = call.content /\ draft'.there = draft.there
BY Writes DEF Put

LEMMA SaveHandledTypes == ASSUME DraftTypeOK, NEW e \in Editors, SaveHandled(e) PROVE DraftTypeOK'
<1>1. save[e] \in Call /\ save[e].rev \in Nat /\ save[e].content \in SUBSET Changes
  BY TypesOfParts, CallFields
<1>2. CASE Accepts(save[e].rev)
  <2>1. draft' \in [there : BOOLEAN, rev : Nat, content : SUBSET Changes]
    BY <1>1, <1>2, PutUpdates DEF SaveHandled
  <2>2. [pc |-> "saved", rev |-> save[e].rev + 1, content |-> save[e].content] \in Call
    BY <1>1, save[e].rev + 1 \in Nat DEF Call
  <2>3. save' \in [Editors -> Call]
    BY <1>2, <2>2, TypesOfParts DEF SaveHandled
  <2>4. UNCHANGED <<bound, auto, ed, local, adrift, upload, made, removed, undos, uploads, losses, overlapped>>
    BY DEF SaveHandled
  <2> QED BY <2>1, <2>3, <2>4 DEF DraftTypeOK
<1>3. CASE ~Accepts(save[e].rev)
  <2>1. [save[e] EXCEPT !.pc = "refused"] \in Call
    BY <1>1, CallMovesOn
  <2>2. save' \in [Editors -> Call]
    BY <1>3, <2>1, TypesOfParts DEF SaveHandled
  <2>3. UNCHANGED <<bound, auto, draft, ed, local, adrift, upload, made, removed, undos, uploads, losses, overlapped>>
    BY <1>3 DEF SaveHandled
  <2> QED BY <2>2, <2>3 DEF DraftTypeOK
<1> QED BY <1>2, <1>3

LEMMA AdriftHandledTypes == ASSUME DraftTypeOK, NEW call \in adrift, AdriftHandled(call) PROVE DraftTypeOK'
<1>1. call.rev \in Nat /\ call.content \in SUBSET Changes
  BY TypesOfParts DEF Copy
<1>2. draft' \in [there : BOOLEAN, rev : Nat, content : SUBSET Changes]
  BY <1>1, PutUpdates, TypesOfParts DEF AdriftHandled
<1>3. adrift' \subseteq Copy
  BY TypesOfParts DEF AdriftHandled
<1>4. UNCHANGED <<bound, auto, ed, local, save, upload, made, removed, undos, uploads, losses, overlapped>>
  BY DEF AdriftHandled
<1> QED BY <1>2, <1>3, <1>4 DEF DraftTypeOK, Copy

LEMMA SaveLostTypes == ASSUME DraftTypeOK, NEW e \in Editors, SaveLost(e) PROVE DraftTypeOK'
<1>1. [save[e] EXCEPT !.pc = "refused"] \in Call
  BY TypesOfParts, CallMovesOn
<1>2. save' \in [Editors -> Call]
  BY <1>1, TypesOfParts DEF SaveLost
<1>3. losses' \in 0..bound.losses
  BY LossCounted DEF SaveLost
<1>4. adrift' \subseteq Copy
  BY UnansweredTypes DEF SaveLost
<1>5. UNCHANGED <<bound, auto, draft, ed, local, upload, made, removed, undos, uploads, overlapped>>
  BY DEF SaveLost
<1> QED BY <1>2, <1>3, <1>4, <1>5 DEF DraftTypeOK, Copy

\* The page when its save has been answered.
LEMMA AnsweredPage ==
    ASSUME NEW p \in Page, NEW rev \in Nat, NEW d \in BOOLEAN
    PROVE  /\ Answered(p, rev, d) \in Page
           /\ Answered(p, rev, d).open = p.open
           /\ Answered(p, rev, d).present = p.present
           /\ Answered(p, rev, d).rev = rev
           /\ Answered(p, rev, d).dirty = d
           /\ Answered(p, rev, d).armed = d
<1> DEFINE p1 == [p EXCEPT !.rev = rev]
           p2 == [p1 EXCEPT !.dirty = d]
           p3 == [p2 EXCEPT !.armed = d]
<1>1. /\ Filled(p)
      /\ p.open \in BOOLEAN /\ p.present \in SUBSET Changes
      /\ p.past \in Seq(SUBSET Changes) /\ p.future \in Seq(SUBSET Changes)
      /\ p.told \in BOOLEAN
  BY PageFields
<1>2. Filled(p1) /\ p1.rev = rev /\ p1.open = p.open /\ p1.present = p.present /\ p1.past = p.past
      /\ p1.future = p.future /\ p1.told = p.told
  BY <1>1, SMT DEF Filled
<1> HIDE DEF p1
<1>3. Filled(p2) /\ p2.rev = rev /\ p2.open = p.open /\ p2.present = p.present /\ p2.past = p.past
      /\ p2.future = p.future /\ p2.told = p.told /\ p2.dirty = d
  BY <1>2, SMT DEF Filled
<1> HIDE DEF p2
<1>4. Filled(p3) /\ p3.rev = rev /\ p3.open = p.open /\ p3.present = p.present /\ p3.past = p.past
      /\ p3.future = p.future /\ p3.told = p.told /\ p3.dirty = d /\ p3.armed = d
  BY <1>3, SMT DEF Filled
<1>5. Answered(p, rev, d) = p3
  BY DEF p1, p2, Answered
<1> HIDE DEF p3
<1>6. p3 \in Page
  BY <1>1, <1>4, PageFields
<1> QED BY <1>4, <1>5, <1>6

LEMMA SaveReturnsTypes == ASSUME DraftTypeOK, NEW e \in Editors, SaveReturns(e) PROVE DraftTypeOK'
<1> DEFINE same == ed[e].present = save[e].content
           page == Answered(ed[e], save[e].rev, ed[e].dirty /\ ~same)
<1>1. ed[e] \in Page /\ save[e].rev \in Nat /\ (ed[e].dirty /\ ~same) \in BOOLEAN
  BY TypesOfParts, PageFields, CallFields
<1>2. page \in Page
  BY <1>1, AnsweredPage
<1>3. save' \in [Editors -> Call]
  BY TypesOfParts, EmptyTypes DEF SaveReturns
<1>4. ed' = ed \/ ed' = [ed EXCEPT ![e] = page]
  BY DEF SaveReturns
<1>5. local' = local \/ local' = [local EXCEPT ![e] = None] \/ Recovery(e, page)
  BY DEF SaveReturns
<1> HIDE DEF page
<1>6. ed' \in [Editors -> Page]
  BY <1>2, <1>4, TypesOfParts
<1>7. local' \in [Editors -> {None} \cup Copy]
  <2>1. CASE Recovery(e, page)
    BY <1>2, <2>1, RecoveryTypes
  <2>2. CASE local' = local \/ local' = [local EXCEPT ![e] = None]
    BY <2>2, TypesOfParts
  <2> QED BY <1>5, <2>1, <2>2
<1>8. UNCHANGED <<bound, auto, draft, adrift, upload, made, removed, undos, uploads, losses, overlapped>>
  BY DEF SaveReturns
<1> QED BY <1>3, <1>6, <1>7, <1>8 DEF DraftTypeOK, Page, Copy

LEMMA ToldTypes ==
    ASSUME DraftTypeOK, NEW e \in Editors, ed' = [ed EXCEPT ![e].told = @ \/ ed[e].open]
    PROVE  ed' \in [Editors -> Page]
<1> DEFINE told == ed[e].told \/ ed[e].open
<1>1. ed' = [ed EXCEPT ![e] = [ed[e] EXCEPT !.told = told]]
  OBVIOUS
<1>2. told \in BOOLEAN /\ ed[e] \in Page
  BY TypesOfParts, PageFields
<1> HIDE DEF told
<1>3. [ed[e] EXCEPT !.told = told] \in Page
  BY <1>2, PageWith
<1> QED BY <1>1, <1>3, TypesOfParts

LEMMA SaveRefusedTypes == ASSUME DraftTypeOK, NEW e \in Editors, SaveRefused(e) PROVE DraftTypeOK'
<1>1. save' \in [Editors -> Call]
  BY TypesOfParts, EmptyTypes DEF SaveRefused
<1>2. ed' \in [Editors -> Page]
  BY ToldTypes DEF SaveRefused
<1>3. UNCHANGED <<bound, auto, draft, local, adrift, upload, made, removed, undos, uploads, losses, overlapped>>
  BY DEF SaveRefused
<1> QED BY <1>1, <1>2, <1>3 DEF DraftTypeOK, Page, Copy

LEMMA UploadSentTypes == ASSUME DraftTypeOK, NEW e \in Editors, UploadSent(e) PROVE DraftTypeOK'
<1>1. upload' = [upload EXCEPT ![e] = [upload[e] EXCEPT !.pc = "sent"]]
  BY DEF UploadSent
<1>2. [upload[e] EXCEPT !.pc = "sent"] \in Call
  BY TypesOfParts, CallMovesOn
<1>3. upload' \in [Editors -> Call]
  BY <1>1, <1>2, TypesOfParts
<1>4. uploads \in 0..bound.uploads
  BY DEF DraftTypeOK
<1>5. uploads' \in 0..bound.uploads
  BY <1>4, Counted, LimitsAreNat DEF UploadSent
<1>6. UNCHANGED <<bound, auto, draft, ed, local, save, adrift, made, removed, undos, losses, overlapped>>
  BY DEF UploadSent
<1> QED BY <1>3, <1>5, <1>6 DEF DraftTypeOK

LEMMA UploadReadTypes == ASSUME DraftTypeOK, NEW e \in Editors, UploadRead(e) PROVE DraftTypeOK'
<1>1. [upload[e] EXCEPT !.pc = "failed"] \in Call
  BY TypesOfParts, CallMovesOn
<1>2. [pc |-> "read", rev |-> draft.rev, content |-> draft.content] \in Call
  BY TypesOfParts DEF Call
<1>3. upload' \in [Editors -> Call]
  BY <1>1, <1>2, TypesOfParts DEF UploadRead
<1>4. UNCHANGED <<bound, auto, draft, ed, local, save, adrift, made, removed, undos, uploads, losses, overlapped>>
  BY DEF UploadRead
<1> QED BY <1>3, <1>4 DEF DraftTypeOK

LEMMA UploadSavedTypes == ASSUME DraftTypeOK, NEW e \in Editors, UploadSaved(e) PROVE DraftTypeOK'
<1>1. made + 1 \in Changes /\ made' \in 0..bound.changes
  BY NextChange DEF UploadSaved
<1>2. upload[e] \in Call /\ upload[e].rev \in Nat /\ upload[e].content \in SUBSET Changes
  BY TypesOfParts, CallFields
<1>3. upload[e].content \cup {made + 1} \in SUBSET Changes
  BY <1>1, <1>2
<1>4. upload[e].rev + 1 \in Nat
  BY <1>2, SMT
<1>5. overlapped' \in BOOLEAN
  BY DEF UploadSaved
<1>6. draft' \in [there : BOOLEAN, rev : Nat, content : SUBSET Changes]
  BY <1>2, <1>3, Writes, TypesOfParts DEF UploadSaved
<1>7. [pc |-> "saved", rev |-> upload[e].rev + 1, content |-> {made + 1}] \in Call
  BY <1>1, <1>4 DEF Call
<1>8. [upload[e] EXCEPT !.pc = "failed"] \in Call
  BY <1>2, CallMovesOn
<1>9. upload' \in [Editors -> Call]
  BY <1>7, <1>8, TypesOfParts DEF UploadSaved
<1>10. UNCHANGED <<bound, auto, ed, local, save, adrift, removed, undos, uploads, losses>>
  BY DEF UploadSaved
<1> QED BY <1>1, <1>5, <1>6, <1>9, <1>10 DEF DraftTypeOK

LEMMA PageShowing ==
    ASSUME NEW p \in Page, NEW present \in SUBSET Changes
    PROVE  /\ [p EXCEPT !.present = present] \in Page
           /\ [p EXCEPT !.present = present].present = present
           /\ [p EXCEPT !.present = present].open = p.open
<1> DEFINE q == [p EXCEPT !.present = present]
<1>1. /\ Filled(p)
      /\ p.open \in BOOLEAN /\ p.rev \in Nat
      /\ p.past \in Seq(SUBSET Changes) /\ p.future \in Seq(SUBSET Changes)
      /\ p.dirty \in BOOLEAN /\ p.armed \in BOOLEAN /\ p.told \in BOOLEAN
  BY PageFields
<1>2. Filled(q) /\ q.open = p.open /\ q.present = present /\ q.past = p.past /\ q.rev = p.rev
      /\ q.dirty = p.dirty /\ q.armed = p.armed /\ q.told = p.told /\ q.future = p.future
  BY <1>1, SMT DEF Filled
<1> HIDE DEF q
<1>3. q \in Page
  BY <1>1, <1>2, PageFields
<1> QED BY <1>2, <1>3 DEF q

\* The page an upload returns to.
LEMMA UploadedPage ==
    ASSUME DraftTypeOK, NEW e \in Editors, UploadReturns(e), upload[e].pc = "saved", ed[e].open
    PROVE  \E page \in Page :
               /\ page.open = ed[e].open
               /\ page.present = ed[e].present \cup upload[e].content
               /\ page.rev = upload[e].rev
               /\ page.dirty = FALSE /\ page.armed = FALSE
               /\ ed' = [ed EXCEPT ![e] = page]
<1> DEFINE present == ed[e].present \cup upload[e].content
           shown == [ed[e] EXCEPT !.present = present]
           page == Answered(shown, upload[e].rev, FALSE)
<1>1. ed' = [ed EXCEPT ![e] = page]
  BY DEF UploadReturns
<1>2. upload[e].rev \in Nat /\ present \in SUBSET Changes /\ ed[e] \in Page
  BY TypesOfParts, CallFields, PageFields
<1> HIDE DEF present
<1>3. shown \in Page /\ shown.present = present /\ shown.open = ed[e].open
  BY <1>2, PageShowing
<1> HIDE DEF shown
<1>4. /\ page \in Page /\ page.open = shown.open /\ page.present = shown.present
      /\ page.rev = upload[e].rev /\ page.dirty = FALSE /\ page.armed = FALSE
  BY <1>2, <1>3, AnsweredPage
<1> HIDE DEF page
<1> QED BY <1>1, <1>3, <1>4 DEF present

LEMMA UploadReturnsTypes == ASSUME DraftTypeOK, NEW e \in Editors, UploadReturns(e) PROVE DraftTypeOK'
<1>1. upload' \in [Editors -> Call]
  BY TypesOfParts, EmptyTypes DEF UploadReturns
<1>2. UNCHANGED <<bound, auto, draft, local, save, adrift, made, removed, undos, uploads, losses>>
  BY DEF UploadReturns
<1>3. CASE upload[e].pc = "saved" /\ ed[e].open
  <2>1. ed' \in [Editors -> Page]
    BY <1>3, UploadedPage, TypesOfParts
  <2>2. overlapped' \in BOOLEAN
    BY <1>3 DEF UploadReturns
  <2> QED BY <1>1, <1>2, <2>1, <2>2 DEF DraftTypeOK, Page, Copy
<1>4. CASE ~(upload[e].pc = "saved" /\ ed[e].open)
  <2>1. ed' \in [Editors -> Page]
    BY <1>4, ToldTypes DEF UploadReturns
  <2>2. UNCHANGED overlapped
    BY <1>4 DEF UploadReturns
  <2> QED BY <1>1, <1>2, <2>1, <2>2 DEF DraftTypeOK, Page, Copy
<1> QED BY <1>3, <1>4

LEMMA RenameTypes == ASSUME DraftTypeOK, Rename PROVE DraftTypeOK'
<1>1. made + 1 \in Changes /\ made' \in 0..bound.changes
  BY NextChange DEF Rename
<1>2. draft.content \cup {made + 1} \in SUBSET Changes /\ draft.rev \in Nat
  BY <1>1, TypesOfParts
<1>3. draft' \in [there : BOOLEAN, rev : Nat, content : SUBSET Changes]
  BY <1>2, Writes DEF Rename
<1>4. UNCHANGED <<bound, auto, ed, local, save, adrift, upload, removed, undos, uploads, losses, overlapped>>
  BY DEF Rename
<1> QED BY <1>1, <1>3, <1>4 DEF DraftTypeOK

LEMMA DeleteDraftTypes == ASSUME DraftTypeOK, DeleteDraft PROVE DraftTypeOK'
<1>1. draft' \in [there : BOOLEAN, rev : Nat, content : SUBSET Changes]
  BY TypesOfParts DEF DeleteDraft
<1>2. UNCHANGED <<bound, auto, ed, local, save, adrift, upload, made, removed, undos, uploads, losses, overlapped>>
  BY DEF DeleteDraft
<1> QED BY <1>1, <1>2 DEF DraftTypeOK

LEMMA DraftTypes == DraftTypeOK /\ (DraftNext \/ DeleteDraft \/ UNCHANGED draftVars) => DraftTypeOK'
<1> SUFFICES ASSUME DraftTypeOK, DraftNext \/ DeleteDraft \/ UNCHANGED draftVars PROVE DraftTypeOK'
  OBVIOUS
<1>1. CASE UNCHANGED draftVars
  BY <1>1 DEF draftVars, DraftTypeOK
<1>2. CASE DeleteDraft
  BY <1>2, DeleteDraftTypes
<1>3. ASSUME NEW e \in Editors, Open(e) \/ Edit(e) \/ Undo(e) \/ Redo(e) \/ Close(e) \/ Crash(e)
      PROVE  DraftTypeOK'
  BY <1>3, OpenTypes, EditTypes, UndoRedoTypes, CloseTypes, CrashTypes
<1>4. ASSUME NEW e \in Editors, Autosave(e) \/ SaveNow(e) \/ Rearm(e) \/ Toggle(e) \/ SaveStep(e) \/ SaveLost(e)
      PROVE  DraftTypeOK'
  BY <1>4, TimerTypes, SaveHandledTypes, SaveReturnsTypes, SaveRefusedTypes, SaveLostTypes DEF SaveStep
<1>5. ASSUME NEW e \in Editors, UploadSent(e) \/ UploadStep(e)
      PROVE  DraftTypeOK'
  BY <1>5, UploadSentTypes, UploadReadTypes, UploadSavedTypes, UploadReturnsTypes DEF UploadStep
<1>6. ASSUME NEW call \in adrift, AdriftHandled(call) PROVE DraftTypeOK'
  BY <1>6, AdriftHandledTypes
<1>7. CASE Rename
  BY <1>7, RenameTypes
<1> QED BY <1>1, <1>2, <1>3, <1>4, <1>5, <1>6, <1>7 DEF DraftNext

LEMMA DraftTypesInit == DraftInit => DraftTypeOK
<1> SUFFICES ASSUME DraftInit PROVE DraftTypeOK
  OBVIOUS
<1>1. ed \in [Editors -> Page] /\ save \in [Editors -> Call] /\ upload \in [Editors -> Call]
  BY EmptyTypes DEF DraftInit
<1>2. {bound.changes, bound.undos, bound.uploads, bound.losses} \subseteq Nat /\ bound \in Bounds
  BY EditingAssumption DEF DraftInit
<1>3. 0 \in 0..bound.changes /\ 0 \in 0..bound.undos /\ 0 \in 0..bound.uploads /\ 0 \in 0..bound.losses
  BY <1>2, SMT
<1>4. draft \in [there : BOOLEAN, rev : Nat, content : SUBSET Changes]
  BY DEF DraftInit
<1> QED BY <1>1, <1>2, <1>3, <1>4 DEF DraftInit, DraftTypeOK, Page

-----------------------------------------------------------------------------
(* What editors know of the draft.  A revision somebody has seen is still   *)
(* the draft's, or only uploads have come since, or its saves are refused.  *)

\* A content of the revision rev, with what uploads have brought since that
\* their pages have not taken yet, has all of the draft, as long as no other
\* write came in between.
Covers(doc, ups, gone, content, rev) ==
    /\ rev <= doc.rev
    /\ (\A n \in 0..doc.rev : rev < n => \E e \in Editors : ups[e].pc = "saved" /\ ups[e].rev = n)
       => \A c \in doc.content :
              \/ c \in content
              \/ c \in gone
              \/ \E e \in Editors : ups[e].pc = "saved" /\ rev < ups[e].rev /\ c \in ups[e].content

\* An editor with a page, a recovery copy and a save under way.
Knows(doc, ups, gone, page, copy, call) ==
    /\ page.armed => page.dirty
    /\ page.dirty => page.open /\ copy = [content |-> page.present, rev |-> page.rev]
    /\ page.open => Covers(doc, ups, gone, page.present, page.rev)
    /\ copy # None => Covers(doc, ups, gone, copy.content, copy.rev)
    /\ call.pc \in {"sent", "saved"} => Covers(doc, ups, gone, call.content, call.rev)
    /\ call.pc = "saved" /\ page.open => Covers(doc, ups, gone, page.present, call.rev)
    /\ call.pc = "sent" /\ call.rev = doc.rev =>
           /\ copy # None /\ copy.rev = call.rev /\ call.content \subseteq copy.content \cup gone
           /\ page.open => page.rev = call.rev /\ call.content \subseteq page.present \cup gone

UploadsKnow(doc, ups) ==
    \A e \in Editors :
        /\ ups[e].pc = "read" =>
               /\ ups[e].rev <= doc.rev
               /\ ups[e].rev = doc.rev => ups[e].content = doc.content
        /\ ups[e].pc = "saved" =>
               /\ ups[e].rev <= doc.rev
               /\ \A f \in Editors : ups[f].pc = "saved" /\ ups[f].rev = ups[e].rev => f = e

EditorsKnow ==
    /\ UploadsKnow(draft, upload)
    /\ \A e \in Editors : Knows(draft, upload, removed, ed[e], local[e], save[e])
    /\ \A call \in adrift : Covers(draft, upload, removed, call.content, call.rev)

\* The inductive invariant of the draft.
DraftKept == ~overlapped => EditorsKnow

LEMMA CoversMore ==
    ASSUME NEW doc, NEW ups, NEW gone, NEW gone2, NEW content, NEW content2, NEW rev,
           Covers(doc, ups, gone, content, rev), gone \subseteq gone2,
           content \subseteq content2 \cup gone2
    PROVE  Covers(doc, ups, gone2, content2, rev)
BY DEF Covers

LEMMA CoversWhole ==
    ASSUME NEW doc, NEW ups, NEW gone, NEW content, NEW rev,
           rev <= doc.rev, doc.content \subseteq content \cup gone
    PROVE  Covers(doc, ups, gone, content, rev)
BY DEF Covers

LEMMA CoversNow ==
    ASSUME NEW doc, doc.rev \in Nat, NEW ups \in [Editors -> Call], NEW gone, NEW content,
           UploadsKnow(doc, ups), Covers(doc, ups, gone, content, doc.rev)
    PROVE  doc.content \subseteq content \cup gone
<1>1. \A n \in 0..doc.rev : ~(doc.rev < n)
  BY SMT
<1>2. \A e \in Editors : ups[e].pc = "saved" => ~(doc.rev < ups[e].rev)
  <2> SUFFICES ASSUME NEW e \in Editors, ups[e].pc = "saved" PROVE ~(doc.rev < ups[e].rev)
    OBVIOUS
  <2>1. ups[e].rev \in Nat /\ ups[e].rev <= doc.rev
    BY CallFields DEF UploadsKnow
  <2> QED BY <2>1, SMT
<1> QED BY <1>1, <1>2 DEF Covers

\* A save or a rename: what had been seen before is of no use any more.
LEMMA CoversWrite ==
    ASSUME NEW doc, doc.rev \in Nat, NEW doc2, doc2.rev = doc.rev + 1, NEW ups \in [Editors -> Call],
           UploadsKnow(doc, ups), NEW gone, NEW content, NEW rev \in Nat,
           Covers(doc, ups, gone, content, rev)
    PROVE  Covers(doc2, ups, gone, content, rev)
<1>1. rev <= doc2.rev /\ doc2.rev \in 0..doc2.rev /\ rev < doc2.rev
  BY SMT DEF Covers
<1>2. \A e \in Editors : ups[e].pc = "saved" => ups[e].rev # doc2.rev
  <2> SUFFICES ASSUME NEW e \in Editors, ups[e].pc = "saved" PROVE ups[e].rev # doc2.rev
    OBVIOUS
  <2>1. ups[e].rev \in Nat /\ ups[e].rev <= doc.rev
    BY CallFields DEF UploadsKnow
  <2> QED BY <2>1, SMT
<1> QED BY <1>1, <1>2 DEF Covers

\* An upload: its change is covered by the upload.
LEMMA CoversUploaded ==
    ASSUME NEW doc, doc.rev \in Nat, NEW doc2, doc2.rev = doc.rev + 1, NEW new,
           doc2.content = doc.content \cup {new},
           NEW ups \in [Editors -> Call], NEW ups2 \in [Editors -> Call], NEW e \in Editors,
           ups[e].pc # "saved", ups2[e].pc = "saved", ups2[e].rev = doc2.rev, ups2[e].content = {new},
           \A f \in Editors \ {e} : ups2[f] = ups[f],
           NEW gone, NEW content, NEW rev \in Nat,
           Covers(doc, ups, gone, content, rev)
    PROVE  Covers(doc2, ups2, gone, content, rev)
<1>1. rev <= doc2.rev /\ rev < doc2.rev /\ \A n \in 0..doc.rev : n \in 0..doc2.rev /\ n # doc2.rev
  BY SMT DEF Covers
<1>2. ASSUME \A n \in 0..doc2.rev : rev < n => \E f \in Editors : ups2[f].pc = "saved" /\ ups2[f].rev = n,
             NEW c \in doc2.content
      PROVE  \/ c \in content
             \/ c \in gone
             \/ \E f \in Editors : ups2[f].pc = "saved" /\ rev < ups2[f].rev /\ c \in ups2[f].content
  <2>1. CASE c = new
    BY <1>1, <2>1
  <2>2. CASE c \in doc.content
    <3>1. \A n \in 0..doc.rev : rev < n => \E f \in Editors : ups[f].pc = "saved" /\ ups[f].rev = n
      BY <1>1, <1>2
    <3>2. \/ c \in content
          \/ c \in gone
          \/ \E f \in Editors : ups[f].pc = "saved" /\ rev < ups[f].rev /\ c \in ups[f].content
      BY <2>2, <3>1 DEF Covers
    <3> QED BY <3>2
  <2> QED BY <1>2, <2>1, <2>2
<1> QED BY <1>1, <1>2 DEF Covers

\* An upload is forgotten.
LEMMA CoversReturned ==
    ASSUME NEW doc, doc.rev \in Nat, NEW ups \in [Editors -> Call], NEW ups2 \in [Editors -> Call],
           UploadsKnow(doc, ups), NEW e \in Editors, ups2[e].pc # "saved",
           \A f \in Editors \ {e} : ups2[f] = ups[f],
           NEW gone, NEW content, NEW rev \in Nat,
           Covers(doc, ups, gone, content, rev)
    PROVE  Covers(doc, ups2, gone, content, rev)
<1>1. ASSUME \A n \in 0..doc.rev : rev < n => \E f \in Editors : ups2[f].pc = "saved" /\ ups2[f].rev = n,
             NEW c \in doc.content
      PROVE  \/ c \in content
             \/ c \in gone
             \/ \E f \in Editors : ups2[f].pc = "saved" /\ rev < ups2[f].rev /\ c \in ups2[f].content
  <2>1. \A n \in 0..doc.rev : rev < n => \E f \in Editors \ {e} : ups[f].pc = "saved" /\ ups[f].rev = n
    BY <1>1
  <2>2. \/ c \in content
        \/ c \in gone
        \/ \E f \in Editors : ups[f].pc = "saved" /\ rev < ups[f].rev /\ c \in ups[f].content
    BY <1>1, <2>1 DEF Covers
  <2>3. ~(ups[e].pc = "saved" /\ rev < ups[e].rev)
    <3> SUFFICES ASSUME ups[e].pc = "saved", rev < ups[e].rev PROVE FALSE
      OBVIOUS
    <3>1. ups[e].rev \in Nat /\ ups[e].rev <= doc.rev
      BY CallFields DEF UploadsKnow
    <3>2. ups[e].rev \in 0..doc.rev
      BY <3>1, SMT
    <3>3. PICK f \in Editors \ {e} : ups[f].pc = "saved" /\ ups[f].rev = ups[e].rev
      BY <2>1, <3>2
    <3> QED BY <3>3 DEF UploadsKnow
  <2>4. \/ c \in content
        \/ c \in gone
        \/ \E f \in Editors \ {e} : ups[f].pc = "saved" /\ rev < ups[f].rev /\ c \in ups[f].content
    BY <2>2, <2>3
  <2> QED BY <2>4
<1>2. rev <= doc.rev
  BY DEF Covers
<1> QED BY <1>1, <1>2 DEF Covers

\* A page that has shown the revision before an upload of its own takes it.
LEMMA CoversTaken ==
    ASSUME NEW doc, doc.rev \in Nat, NEW ups \in [Editors -> Call], NEW ups2 \in [Editors -> Call],
           UploadsKnow(doc, ups), NEW e \in Editors, ups[e].pc = "saved", ups2[e].pc # "saved",
           \A f \in Editors \ {e} : ups2[f] = ups[f],
           NEW gone, NEW content, NEW rev \in Nat, rev + 1 = ups[e].rev,
           Covers(doc, ups, gone, content, rev)
    PROVE  Covers(doc, ups2, gone, content \cup ups[e].content, ups[e].rev)
<1>1. ups[e].rev \in Nat /\ ups[e].rev <= doc.rev
  BY CallFields DEF UploadsKnow
<1>2. ASSUME \A n \in 0..doc.rev : ups[e].rev < n => \E f \in Editors : ups2[f].pc = "saved" /\ ups2[f].rev = n,
             NEW c \in doc.content
      PROVE  \/ c \in content \cup ups[e].content
             \/ c \in gone
             \/ \E f \in Editors : ups2[f].pc = "saved" /\ ups[e].rev < ups2[f].rev /\ c \in ups2[f].content
  <2>1. \A n \in 0..doc.rev : rev < n => n = ups[e].rev \/ ups[e].rev < n
    BY <1>1, SMT
  <2>2. \A n \in 0..doc.rev : rev < n => \E f \in Editors : ups[f].pc = "saved" /\ ups[f].rev = n
    BY <1>2, <2>1
  <2>3. \/ c \in content
        \/ c \in gone
        \/ \E f \in Editors : ups[f].pc = "saved" /\ rev < ups[f].rev /\ c \in ups[f].content
    BY <1>2, <2>2 DEF Covers
  <2>4. ASSUME NEW f \in Editors, ups[f].pc = "saved", rev < ups[f].rev, c \in ups[f].content, f # e
        PROVE  ups2[f].pc = "saved" /\ ups[e].rev < ups2[f].rev /\ c \in ups2[f].content
    <3>1. ups[f].rev \in Nat /\ ups[f].rev # ups[e].rev
      BY <2>4, CallFields DEF UploadsKnow
    <3>2. ups[e].rev < ups[f].rev
      BY <1>1, <2>4, <3>1, SMT
    <3> QED BY <2>4, <3>2
  <2> QED BY <2>3, <2>4
<1> QED BY <1>1, <1>2 DEF Covers

\* Uploads that have not been saved do not matter.
LEMMA CoversSame ==
    ASSUME NEW doc, NEW ups, NEW ups2, NEW e \in Editors, ups[e].pc # "saved", ups2[e].pc # "saved",
           \A f \in Editors \ {e} : ups2[f] = ups[f],
           NEW gone, NEW content, NEW rev, Covers(doc, ups, gone, content, rev)
    PROVE  Covers(doc, ups2, gone, content, rev)
<1>1. \A f \in Editors : ups2[f].pc = "saved" <=> ups[f].pc = "saved"
  OBVIOUS
<1>2. \A f \in Editors : ups2[f].pc = "saved" => ups2[f] = ups[f]
  OBVIOUS
<1> QED BY <1>1, <1>2 DEF Covers

\* An editor that does nothing keeps its knowledge.
LEMMA KnowsStill ==
    ASSUME NEW doc, doc.rev \in Nat, NEW doc2, NEW ups, NEW ups2, NEW gone, NEW gone2,
           NEW page \in Page, NEW copy \in {None} \cup Copy, NEW call \in Call,
           gone \subseteq gone2,
           \A content, rev : rev \in Nat /\ Covers(doc, ups, gone, content, rev)
                                 => Covers(doc2, ups2, gone2, content, rev),
           doc2.rev \in {doc.rev, doc.rev + 1},
           Knows(doc, ups, gone, page, copy, call)
    PROVE  Knows(doc2, ups2, gone2, page, copy, call)
<1>1. page.rev \in Nat /\ call.rev \in Nat /\ (copy # None => copy.rev \in Nat)
  BY PageFields, CallFields DEF Copy
<1>2. call.pc = "sent" /\ call.rev = doc2.rev => call.rev = doc.rev
  <2>1. call.pc = "sent" => call.rev <= doc.rev
    BY DEF Knows, Covers
  <2> QED BY <1>1, <2>1, SMT
<1>3. /\ page.open => Covers(doc2, ups2, gone2, page.present, page.rev)
      /\ copy # None => Covers(doc2, ups2, gone2, copy.content, copy.rev)
      /\ call.pc \in {"sent", "saved"} => Covers(doc2, ups2, gone2, call.content, call.rev)
      /\ call.pc = "saved" /\ page.open => Covers(doc2, ups2, gone2, page.present, call.rev)
  BY <1>1 DEF Knows
<1>4. call.pc = "sent" /\ call.rev = doc2.rev =>
           /\ copy # None /\ copy.rev = call.rev /\ call.content \subseteq copy.content \cup gone2
           /\ page.open => page.rev = call.rev /\ call.content \subseteq page.present \cup gone2
  BY <1>2 DEF Knows
<1> QED BY <1>3, <1>4 DEF Knows

\* One editor has done something; the draft and the uploads are as before.
LEMMA OneEditor ==
    ASSUME DraftTypeOK, EditorsKnow, NEW e \in Editors, UNCHANGED <<draft, upload>>,
           removed \subseteq removed',
           \A f \in Editors \ {e} : ed'[f] = ed[f] /\ local'[f] = local[f] /\ save'[f] = save[f],
           Knows(draft, upload, removed', ed'[e], local'[e], save'[e]),
           \A call \in adrift' \ adrift : Covers(draft, upload, removed', call.content, call.rev)
    PROVE  EditorsKnow'
<1>1. \A content, rev : rev \in Nat /\ Covers(draft, upload, removed, content, rev)
                            => Covers(draft, upload, removed', content, rev)
  BY CoversMore
<1>2. ASSUME NEW f \in Editors, f # e
      PROVE  Knows(draft, upload, removed', ed'[f], local'[f], save'[f])
  <2>1. ed[f] \in Page /\ local[f] \in {None} \cup Copy /\ save[f] \in Call /\ draft.rev \in Nat
    BY TypesOfParts
  <2>2. Knows(draft, upload, removed, ed[f], local[f], save[f])
    BY DEF EditorsKnow
  <2>3. Knows(draft, upload, removed', ed[f], local[f], save[f])
    BY <1>1, <2>1, <2>2, KnowsStill
  <2> QED BY <1>2, <2>3
<1>3. \A call \in adrift' : Covers(draft, upload, removed', call.content, call.rev)
  <2>1. \A call \in adrift : Covers(draft, upload, removed', call.content, call.rev)
    BY CoversMore DEF EditorsKnow
  <2> QED BY <2>1
<1> QED BY <1>2, <1>3 DEF EditorsKnow

\* The draft is written, or the uploads have changed: nobody knows less.
LEMMA NobodyForgets ==
    ASSUME DraftTypeOK, EditorsKnow, draft'.rev \in {draft.rev, draft.rev + 1},
           UNCHANGED removed, adrift' \subseteq adrift,
           \A f \in Editors :
               \/ ed'[f] = ed[f] /\ local'[f] = local[f] /\ save'[f] = save[f]
               \/ Knows(draft', upload', removed, ed'[f], local'[f], save'[f]),
           \A content, rev : rev \in Nat /\ Covers(draft, upload, removed, content, rev)
                                 => Covers(draft', upload', removed, content, rev),
           UploadsKnow(draft', upload')
    PROVE  EditorsKnow'
<1>1. ASSUME NEW f \in Editors
      PROVE  Knows(draft', upload', removed, ed'[f], local'[f], save'[f])
  <2>1. ed[f] \in Page /\ local[f] \in {None} \cup Copy /\ save[f] \in Call /\ draft.rev \in Nat
    BY TypesOfParts
  <2>2. Knows(draft, upload, removed, ed[f], local[f], save[f])
    BY DEF EditorsKnow
  <2>3. Knows(draft', upload', removed, ed[f], local[f], save[f])
    BY <2>1, <2>2, KnowsStill
  <2> QED BY <2>3
<1>2. \A call \in adrift' : Covers(draft', upload', removed, call.content, call.rev)
  <2>1. \A call \in adrift : call.rev \in Nat /\ Covers(draft, upload, removed, call.content, call.rev)
    BY TypesOfParts DEF EditorsKnow, Copy
  <2> QED BY <2>1
<1> QED BY <1>1, <1>2 DEF EditorsKnow

LEMMA EditorKnows ==
    ASSUME DraftTypeOK, EditorsKnow, NEW e \in Editors
    PROVE  /\ Knows(draft, upload, removed, ed[e], local[e], save[e])
           /\ ed[e] \in Page /\ save[e] \in Call /\ local[e] \in {None} \cup Copy
           /\ ed[e].rev \in Nat /\ ed[e].present \in SUBSET Changes
           /\ save[e].rev \in Nat /\ save[e].content \in SUBSET Changes
           /\ draft.rev \in Nat
           /\ upload \in [Editors -> Call]
           /\ UploadsKnow(draft, upload)
BY TypesOfParts, PageFields, CallFields DEF EditorsKnow

LEMMA CopyIsSome ==
    ASSUME NEW content \in SUBSET Changes, NEW rev \in Nat
    PROVE  [content |-> content, rev |-> rev] # None
BY EditingAssumption

\* A page that is opened has the draft, but for what its user declines.
LEMMA OpenKeeps == ASSUME DraftTypeOK, EditorsKnow, NEW e \in Editors, Open(e) PROVE EditorsKnow'
<1> DEFINE offered == local[e] # None /\ local[e].rev = draft.rev /\ local[e].content # draft.content
           present(restore) == IF restore THEN local[e].content ELSE draft.content
           opened(restore) ==
               [open |-> TRUE, present |-> present(restore), past |-> <<>>, future |-> <<>>,
                rev |-> draft.rev, dirty |-> restore, armed |-> restore, told |-> FALSE]
<1>1. PICK restore \in BOOLEAN :
             /\ restore => offered
             /\ ed' = [ed EXCEPT ![e] = opened(restore)]
             /\ Recovery(e, opened(restore))
             /\ removed' = IF offered /\ ~restore
                           THEN removed \cup (local[e].content \ draft.content)
                           ELSE removed
  BY DEF Open
<1> DEFINE page == opened(restore)
           copy == local'[e]
<1>2. /\ page.open = TRUE /\ page.present = present(restore) /\ page.rev = draft.rev
      /\ page.dirty = restore /\ page.armed = restore
  OBVIOUS
<1>3. ed'[e] = page /\ Recovery(e, page)
  BY <1>1, TypesOfParts
<1>4. \A f \in Editors \ {e} : ed'[f] = ed[f] /\ local'[f] = local[f] /\ save'[f] = save[f]
  BY <1>1, TypesOfParts DEF Open, Recovery
<1>5. Knows(draft, upload, removed, ed[e], local[e], save[e]) /\ UploadsKnow(draft, upload)
      /\ draft.rev \in Nat /\ upload \in [Editors -> Call]
  BY EditorKnows
<1>6. removed \subseteq removed'
  BY <1>1
<1>7. local[e] # None => local[e].content \in SUBSET Changes /\ local[e].rev \in Nat
  BY TypesOfParts DEF Copy
<1>8. draft.content \subseteq page.present \cup removed'
  <2>1. CASE restore
    <3>1. Covers(draft, upload, removed, local[e].content, draft.rev)
      BY <1>1, <1>5, <2>1 DEF Knows
    <3>2. draft.content \subseteq local[e].content \cup removed
      BY <1>5, <3>1, CoversNow
    <3> QED BY <1>2, <1>6, <2>1, <3>2
  <2>2. CASE ~restore
    BY <1>2, <2>2
  <2> QED BY <2>1, <2>2
<1>9. copy = IF restore THEN [content |-> page.present, rev |-> page.rev] ELSE local[e]
  BY <1>2, <1>3, TypesOfParts DEF Recovery
<1>a. restore => [content |-> page.present, rev |-> page.rev] # None
  BY <1>1, <1>2, <1>5, <1>7, CopyIsSome
<1>b. UNCHANGED <<draft, save, adrift, upload>>
  BY DEF Open
<1>c. draft.rev <= draft.rev
  BY <1>5, SMT
<1> HIDE DEF page, opened, copy
<1>d. \A rev \in Nat : rev <= draft.rev => Covers(draft, upload, removed', page.present, rev)
  BY <1>8, CoversWhole
<1>e. copy # None => Covers(draft, upload, removed', copy.content, copy.rev)
  <2>1. CASE restore
    <3>1. copy.content = page.present /\ copy.rev = draft.rev
      BY <1>2, <1>9, <2>1
    <3> QED BY <1>5, <1>c, <1>d, <3>1
  <2>2. CASE ~restore
    BY <1>5, <1>6, <1>9, <2>2, CoversMore DEF Knows
  <2> QED BY <2>1, <2>2
<1>f. save[e].pc \in {"sent", "saved"} => Covers(draft, upload, removed', save[e].content, save[e].rev)
  BY <1>5, <1>6, CoversMore DEF Knows
<1>g. save[e].pc = "saved" => Covers(draft, upload, removed', page.present, save[e].rev)
  <2>1. save[e].pc = "saved" => save[e].rev <= draft.rev
    BY <1>5 DEF Knows, Covers
  <2>2. save[e].rev \in Nat
    BY EditorKnows
  <2> QED BY <1>d, <2>1, <2>2
<1>h. ASSUME save[e].pc = "sent", save[e].rev = draft.rev
      PROVE  /\ copy # None /\ copy.rev = save[e].rev /\ save[e].content \subseteq copy.content \cup removed'
             /\ page.rev = save[e].rev /\ save[e].content \subseteq page.present \cup removed'
  <2>1. local[e] # None /\ local[e].rev = draft.rev /\ save[e].content \subseteq local[e].content \cup removed
    BY <1>5, <1>h DEF Knows
  <2>2. CASE restore
    <3>1. copy # None /\ copy.content = local[e].content /\ copy.rev = draft.rev
      BY <1>2, <1>9, <1>a, <2>2
    <3> QED BY <1>2, <1>6, <1>h, <2>1, <2>2, <3>1
  <2>3. CASE ~restore
    <3>1. copy = local[e] /\ page.present = draft.content
      BY <1>2, <1>9, <2>3
    <3>2. local[e].content \subseteq draft.content \cup removed'
      BY <1>1, <2>1, <2>3
    <3> QED BY <1>2, <1>6, <1>h, <2>1, <3>1, <3>2
  <2> QED BY <2>2, <2>3
<1>i. page.open => Covers(draft, upload, removed', page.present, page.rev)
  BY <1>2, <1>5, <1>c, <1>d
<1>j. page.dirty => page.open /\ copy = [content |-> page.present, rev |-> page.rev]
  BY <1>2, <1>9
<1>k. page.armed => page.dirty
  BY <1>2
<1>l. Knows(draft, upload, removed', page, copy, save[e])
  BY <1>e, <1>f, <1>g, <1>h, <1>i, <1>j, <1>k DEF Knows
<1> QED BY <1>3, <1>4, <1>6, <1>b, <1>l, OneEditor DEF copy

\* A page that is edited has what it had, but for what is taken back.
LEMMA ShowKeeps ==
    ASSUME DraftTypeOK, EditorsKnow, NEW e \in Editors, ed[e].open,
           \E present \in SUBSET Changes, past, future \in Seq(SUBSET Changes) : Show(e, present, past, future),
           UNCHANGED <<draft, save, adrift, upload>>
    PROVE  EditorsKnow'
<1>1. PICK page \in Page :
               /\ page.open = ed[e].open /\ page.rev = ed[e].rev
               /\ page.dirty = TRUE /\ page.armed = TRUE
               /\ ed' = [ed EXCEPT ![e] = page]
               /\ Recovery(e, page)
               /\ removed' = removed \cup (ed[e].present \ page.present)
  <2>1. PICK present \in SUBSET Changes, past \in Seq(SUBSET Changes), future \in Seq(SUBSET Changes) :
            Show(e, present, past, future)
    OBVIOUS
  <2>2. PICK page \in Page :
               /\ page.open = ed[e].open /\ page.present = present /\ page.rev = ed[e].rev
               /\ page.dirty = TRUE /\ page.armed = TRUE
               /\ ed' = [ed EXCEPT ![e] = page]
               /\ Recovery(e, page)
               /\ removed' = removed \cup (ed[e].present \ present)
    BY <2>1, Shows
  <2> QED BY <2>2
<1> DEFINE copy == [content |-> page.present, rev |-> page.rev]
<1>2. ed'[e] = page /\ local'[e] = copy
  BY <1>1, TypesOfParts DEF Recovery
<1>3. \A f \in Editors \ {e} : ed'[f] = ed[f] /\ local'[f] = local[f] /\ save'[f] = save[f]
  BY <1>1, TypesOfParts DEF Recovery
<1>4. Knows(draft, upload, removed, ed[e], local[e], save[e])
  BY EditorKnows
<1>5. removed \subseteq removed' /\ ed[e].present \subseteq page.present \cup removed'
  BY <1>1
<1>6. copy # None /\ copy.content = page.present /\ copy.rev = page.rev
  BY PageFields, CopyIsSome
<1> HIDE DEF copy
<1>7. Covers(draft, upload, removed', page.present, page.rev)
  <2>1. Covers(draft, upload, removed, ed[e].present, ed[e].rev)
    BY <1>4 DEF Knows
  <2> QED BY <1>1, <1>5, <2>1, CoversMore
<1>8. save[e].pc \in {"sent", "saved"} => Covers(draft, upload, removed', save[e].content, save[e].rev)
  BY <1>4, <1>5, CoversMore DEF Knows
<1>9. save[e].pc = "saved" => Covers(draft, upload, removed', page.present, save[e].rev)
  <2>1. save[e].pc = "saved" => Covers(draft, upload, removed, ed[e].present, save[e].rev)
    BY <1>4 DEF Knows
  <2> QED BY <1>5, <2>1, CoversMore
<1>10. save[e].pc = "sent" /\ save[e].rev = draft.rev =>
           page.rev = save[e].rev /\ save[e].content \subseteq page.present \cup removed'
  BY <1>1, <1>4, <1>5 DEF Knows
<1>11. Knows(draft, upload, removed', page, copy, save[e])
  BY <1>1, <1>6, <1>7, <1>8, <1>9, <1>10 DEF Knows, copy
<1> QED BY <1>2, <1>3, <1>5, <1>11, OneEditor

LEMMA EditKeeps ==
    ASSUME DraftTypeOK, EditorsKnow, NEW e \in Editors, Edit(e) \/ Undo(e) \/ Redo(e)
    PROVE  EditorsKnow'
<1>1. CASE Edit(e)
  <2>1. made + 1 \in Changes
    BY <1>1, NextChange DEF Edit
  <2>2. /\ \A kept \in {ed[e].present, ed[e].present \ bound.faulty} : kept \cup {made + 1} \in SUBSET Changes
        /\ Newest(Append(ed[e].past, ed[e].present)) \in Seq(SUBSET Changes)
        /\ <<>> \in Seq(SUBSET Changes)
    BY <2>1, PageSequences, AppendProperties, NewestIsSeq, EmptySeq
  <2>3. /\ ed[e].open /\ UNCHANGED <<draft, save, adrift, upload>>
        /\ \E kept \in {ed[e].present, ed[e].present \ bound.faulty} :
               Show(e, kept \cup {made + 1}, Newest(Append(ed[e].past, ed[e].present)), <<>>)
    BY <1>1 DEF Edit
  <2> QED BY <2>2, <2>3, ShowKeeps
<1>2. CASE Undo(e) \/ Redo(e)
  BY <1>2, UndoShows, RedoShows, ShowKeeps DEF Undo, Redo
<1> QED BY <1>1, <1>2

LEMMA UnansweredIsKnown ==
    ASSUME DraftTypeOK, EditorsKnow, NEW e \in Editors, Unanswered(e), NEW call \in adrift' \ adrift
    PROVE  Covers(draft, upload, removed, call.content, call.rev)
<1>1. call = [rev |-> save[e].rev, content |-> save[e].content] /\ save[e].pc = "sent"
  BY DEF Unanswered
<1>2. call.rev = save[e].rev /\ call.content = save[e].content
  BY <1>1
<1>3. Covers(draft, upload, removed, save[e].content, save[e].rev)
  BY <1>1, EditorKnows DEF Knows
<1> QED BY <1>2, <1>3

LEMMA CloseKeeps ==
    ASSUME DraftTypeOK, EditorsKnow, NEW e \in Editors, Close(e) \/ Crash(e)
    PROVE  EditorsKnow'
<1>1. ed'[e] = Closed /\ \A f \in Editors \ {e} : ed'[f] = ed[f] /\ save'[f] = save[f]
  BY TypesOfParts DEF Close, Crash
<1>2. save'[e] = save[e] \/ save'[e] = NoCall
  BY TypesOfParts DEF Close, Crash
<1>3. UNCHANGED <<draft, upload, removed, local>>
  BY DEF Close, Crash
<1>4. \A call \in adrift' \ adrift : Covers(draft, upload, removed, call.content, call.rev)
  BY UnansweredIsKnown DEF Close, Crash
<1>5. Knows(draft, upload, removed, ed[e], local[e], save[e])
  BY EditorKnows
<1>6. ~Closed.open /\ ~Closed.dirty /\ ~Closed.armed /\ NoCall.pc = "idle"
  BY DEF Closed, NoCall
<1>7. Knows(draft, upload, removed, Closed, local[e], save'[e])
  BY <1>2, <1>5, <1>6 DEF Knows
<1> QED BY <1>1, <1>3, <1>4, <1>7, OneEditor

\* What is sent is the page's, and so is the recovery copy: it is dirty.
LEMMA TimerKeeps ==
    ASSUME DraftTypeOK, EditorsKnow, NEW e \in Editors, Autosave(e) \/ SaveNow(e) \/ Rearm(e) \/ Toggle(e)
    PROVE  EditorsKnow'
<1>0. PICK b \in BOOLEAN : ed' = [ed EXCEPT ![e] = [ed[e] EXCEPT !.armed = b]] /\ (b => ed[e].dirty)
  BY TimerSteps
<1> DEFINE page == [ed[e] EXCEPT !.armed = b]
           call == [pc |-> "sent", rev |-> ed[e].rev, content |-> ed[e].present]
<1>1. ed' = [ed EXCEPT ![e] = page]
  BY <1>0
<1>2. ed'[e] = page /\ \A f \in Editors \ {e} : ed'[f] = ed[f] /\ save'[f] = save[f]
  BY <1>1, TypesOfParts, TimerSteps DEF SendDraft
<1>3. page.armed = b /\ page.open = ed[e].open /\ page.present = ed[e].present
      /\ page.rev = ed[e].rev /\ page.dirty = ed[e].dirty
  BY EditorKnows, PageWith
<1>4. save'[e] = save[e] \/ (save'[e] = call /\ ed[e].open /\ (ed[e].armed \/ ed[e].dirty))
  BY TypesOfParts, TimerSteps DEF SendDraft
<1>5. UNCHANGED <<draft, upload, removed, local, adrift>>
  BY TimerSteps
<1>6. Knows(draft, upload, removed, ed[e], local[e], save[e])
  BY EditorKnows
<1> HIDE DEF page
<1>7. CASE save'[e] = save[e]
  <2>1. Knows(draft, upload, removed, page, local[e], save[e])
    BY <1>0, <1>3, <1>6 DEF Knows
  <2> QED BY <1>2, <1>5, <1>7, <2>1, OneEditor
<1>8. CASE save'[e] = call /\ ed[e].open /\ (ed[e].armed \/ ed[e].dirty)
  <2>1. ed[e].dirty /\ ed[e].open
    BY <1>6, <1>8 DEF Knows
  <2>2. local[e] = [content |-> ed[e].present, rev |-> ed[e].rev]
    BY <1>6, <2>1 DEF Knows
  <2>3. local[e] # None /\ local[e].content = ed[e].present /\ local[e].rev = ed[e].rev
    BY <2>2, EditorKnows, CopyIsSome
  <2>4. call.pc = "sent" /\ call.rev = ed[e].rev /\ call.content = ed[e].present
    OBVIOUS
  <2>5. Covers(draft, upload, removed, ed[e].present, ed[e].rev)
    BY <1>6, <2>1 DEF Knows
  <2> HIDE DEF call
  <2>6. Knows(draft, upload, removed, page, local[e], call)
    BY <1>0, <1>3, <1>6, <2>3, <2>4, <2>5 DEF Knows
  <2> QED BY <1>2, <1>5, <1>8, <2>6, OneEditor
<1> QED BY <1>4, <1>7, <1>8

\* A write to the draft at the revision it has: nothing known is lost, and no
\* upload knows the new revision.
LEMMA WriteKeeps ==
    ASSUME DraftTypeOK, EditorsKnow, draft'.rev = draft.rev + 1, UNCHANGED upload
    PROVE  /\ \A content, rev : rev \in Nat /\ Covers(draft, upload, removed, content, rev)
                                    => Covers(draft', upload', removed, content, rev)
           /\ UploadsKnow(draft', upload')
<1>1. draft.rev \in Nat /\ upload \in [Editors -> Call] /\ UploadsKnow(draft, upload)
  BY TypesOfParts DEF EditorsKnow
<1>2. \A content, rev : rev \in Nat /\ Covers(draft, upload, removed, content, rev)
                            => Covers(draft', upload, removed, content, rev)
  BY <1>1, CoversWrite
<1>3. ASSUME NEW e \in Editors, upload[e].pc \in {"read", "saved"}
      PROVE  upload[e].rev <= draft'.rev /\ upload[e].rev # draft'.rev
  <2>1. upload[e].rev \in Nat /\ upload[e].rev <= draft.rev
    BY <1>1, <1>3, CallFields DEF UploadsKnow
  <2> QED BY <1>1, <2>1, SMT
<1>4. UploadsKnow(draft', upload)
  BY <1>1, <1>3 DEF UploadsKnow
<1> QED BY <1>2, <1>4

LEMMA SaveHandledKeeps == ASSUME DraftTypeOK, EditorsKnow, NEW e \in Editors, SaveHandled(e) PROVE EditorsKnow'
<1>1. Knows(draft, upload, removed, ed[e], local[e], save[e]) /\ save[e].rev \in Nat
      /\ save[e].content \in SUBSET Changes /\ draft.rev \in Nat /\ ed[e].rev \in Nat
  BY EditorKnows
<1>2. save[e].pc = "sent" /\ UNCHANGED <<ed, local, adrift, upload, removed>>
  BY DEF SaveHandled
<1>3. \A f \in Editors \ {e} : save'[f] = save[f]
  BY TypesOfParts DEF SaveHandled
<1>4. CASE Accepts(save[e].rev)
  <2> DEFINE call == [pc |-> "saved", rev |-> save[e].rev + 1, content |-> save[e].content]
  <2>1. /\ draft.rev = save[e].rev
        /\ draft'.rev = draft.rev + 1
        /\ draft'.content = save[e].content
    BY <1>1, <1>4, PutUpdates DEF SaveHandled, Accepts
  <2>2. save'[e] = call
    BY <1>4, TypesOfParts DEF SaveHandled
  <2>3. call.pc = "saved" /\ call.rev = draft'.rev /\ call.content = draft'.content
    BY <2>1
  <2> HIDE DEF call
  <2>4. \A content, rev : rev \in Nat /\ Covers(draft, upload, removed, content, rev)
                              => Covers(draft', upload', removed, content, rev)
    BY <1>2, <2>1, WriteKeeps
  <2>5. draft'.rev <= draft'.rev
    BY <1>1, <2>1, SMT
  <2>6. Covers(draft', upload', removed, call.content, call.rev)
    BY <2>3, <2>5, CoversWhole
  <2>7. ed[e].open => Covers(draft', upload', removed, ed[e].present, call.rev)
    <3>1. ed[e].open => save[e].content \subseteq ed[e].present \cup removed
      BY <1>1, <1>2, <2>1 DEF Knows
    <3> QED BY <2>1, <2>3, <2>5, <3>1, CoversWhole
  <2>8. ed[e].open => Covers(draft', upload', removed, ed[e].present, ed[e].rev)
    BY <1>1, <2>4 DEF Knows
  <2>9. local[e] # None => Covers(draft', upload', removed, local[e].content, local[e].rev)
    <3>1. local[e] # None => local[e].rev \in Nat
      BY TypesOfParts DEF Copy
    <3> QED BY <1>1, <2>4, <3>1 DEF Knows
  <2>10. Knows(draft', upload', removed, ed[e], local[e], call)
    BY <1>1, <2>3, <2>6, <2>7, <2>8, <2>9 DEF Knows
  <2>11. \A f \in Editors :
             \/ ed'[f] = ed[f] /\ local'[f] = local[f] /\ save'[f] = save[f]
             \/ Knows(draft', upload', removed, ed'[f], local'[f], save'[f])
    BY <1>2, <1>3, <2>2, <2>10
  <2>12. UploadsKnow(draft', upload')
    BY <1>2, <2>1, WriteKeeps
  <2> QED BY <1>2, <2>1, <2>4, <2>11, <2>12, NobodyForgets
<1>5. CASE ~Accepts(save[e].rev)
  <2>1. UNCHANGED draft /\ save'[e] = [save[e] EXCEPT !.pc = "refused"]
    BY <1>5, TypesOfParts DEF SaveHandled
  <2>2. save'[e].pc = "refused"
    BY <2>1, EditorKnows, CallMovesOn
  <2>3. Knows(draft, upload, removed, ed[e], local[e], save'[e])
    BY <1>1, <2>2 DEF Knows
  <2> QED BY <1>2, <1>3, <2>1, <2>3, OneEditor
<1> QED BY <1>4, <1>5

\* A write by nobody's page: the rename, or a save whose page is gone.
LEMMA OtherWriteKeeps ==
    ASSUME DraftTypeOK, EditorsKnow, draft'.rev = draft.rev + 1, adrift' \subseteq adrift,
           UNCHANGED <<ed, local, save, upload, removed>>
    PROVE  EditorsKnow'
BY WriteKeeps, NobodyForgets

LEMMA AdriftHandledKeeps ==
    ASSUME DraftTypeOK, EditorsKnow, NEW call \in adrift, AdriftHandled(call)
    PROVE  EditorsKnow'
<1>1. adrift' \subseteq adrift /\ UNCHANGED <<ed, local, save, upload, removed>>
  BY DEF AdriftHandled
<1>2. CASE Accepts(call.rev)
  <2>1. call.rev \in Nat /\ call.content \in SUBSET Changes
    BY TypesOfParts DEF Copy
  <2>2. draft'.rev = draft.rev + 1
    BY <1>2, <2>1, PutUpdates DEF AdriftHandled, Accepts
  <2> QED BY <1>1, <2>2, OtherWriteKeeps
<1>3. CASE ~Accepts(call.rev)
  BY <1>1, <1>3 DEF AdriftHandled, EditorsKnow
<1> QED BY <1>2, <1>3

LEMMA RenameKeeps == ASSUME DraftTypeOK, EditorsKnow, Rename PROVE EditorsKnow'
<1>1. made + 1 \in Changes
  BY NextChange DEF Rename
<1>2. draft.rev \in Nat /\ draft.content \cup {made + 1} \in SUBSET Changes
  BY <1>1, TypesOfParts
<1>3. draft'.rev = draft.rev + 1
  BY <1>2, Writes DEF Rename
<1> QED BY <1>3, OtherWriteKeeps DEF Rename

LEMMA SaveLostKeeps == ASSUME DraftTypeOK, EditorsKnow, NEW e \in Editors, SaveLost(e) PROVE EditorsKnow'
<1>1. save'[e] = [save[e] EXCEPT !.pc = "refused"] /\ \A f \in Editors \ {e} : save'[f] = save[f]
  BY TypesOfParts DEF SaveLost
<1>2. save'[e].pc = "refused"
  BY <1>1, EditorKnows, CallMovesOn
<1>3. UNCHANGED <<draft, ed, local, upload, removed>>
  BY DEF SaveLost
<1>4. Knows(draft, upload, removed, ed[e], local[e], save'[e])
  BY <1>2, EditorKnows DEF Knows
<1>5. \A call \in adrift' \ adrift : Covers(draft, upload, removed, call.content, call.rev)
  BY UnansweredIsKnown DEF SaveLost
<1> QED BY <1>1, <1>3, <1>4, <1>5, OneEditor

\* The answer to a save gives the page its revision; what the page shows by
\* now covers that.
LEMMA SaveReturnsKeeps == ASSUME DraftTypeOK, EditorsKnow, NEW e \in Editors, SaveReturns(e) PROVE EditorsKnow'
<1> DEFINE same == ed[e].present = save[e].content
           dirty == ed[e].dirty /\ ~same
           page == Answered(ed[e], save[e].rev, dirty)
           copy == local'[e]
<1>1. Knows(draft, upload, removed, ed[e], local[e], save[e])
      /\ ed[e] \in Page /\ save[e].rev \in Nat /\ ed[e].present \in SUBSET Changes
  BY EditorKnows
<1>2. ed[e].dirty \in BOOLEAN /\ dirty \in BOOLEAN
  BY <1>1, PageFields
<1>3. save[e].pc = "saved" /\ save'[e] = NoCall /\ NoCall.pc = "idle"
  BY TypesOfParts DEF SaveReturns, NoCall
<1>4. \A f \in Editors \ {e} : ed'[f] = ed[f] /\ local'[f] = local[f] /\ save'[f] = save[f]
  BY TypesOfParts DEF SaveReturns, Recovery
<1>5. UNCHANGED <<draft, adrift, upload, removed>>
  BY DEF SaveReturns
<1>6. CASE ~ed[e].open
  <2>1. ed'[e] = ed[e] /\ local'[e] = local[e]
    BY <1>6 DEF SaveReturns
  <2>2. Knows(draft, upload, removed, ed[e], local[e], NoCall)
    BY <1>1, <1>3 DEF Knows
  <2> QED BY <1>3, <1>4, <1>5, <2>1, <2>2, OneEditor
<1>7. CASE ed[e].open
  <2>1. ed'[e] = page
    BY <1>7, TypesOfParts DEF SaveReturns
  <2>2. /\ page.open = ed[e].open /\ page.present = ed[e].present /\ page.rev = save[e].rev
        /\ page.dirty = dirty /\ page.armed = dirty
    BY <1>1, <1>2, AnsweredPage
  <2>3. \/ copy = None /\ same
        \/ Recovery(e, page)
    BY <1>7, TypesOfParts DEF SaveReturns
  <2>4. local \in [Editors -> {None} \cup Copy]
    BY TypesOfParts
  <2> HIDE DEF page
  <2>5. Covers(draft, upload, removed, page.present, page.rev)
    BY <1>1, <1>3, <1>7, <2>2 DEF Knows
  <2>6. page.dirty => copy = [content |-> page.present, rev |-> page.rev]
    BY <2>2, <2>3, <2>4 DEF Recovery
  <2>7. copy # None => Covers(draft, upload, removed, copy.content, copy.rev)
    <3>1. CASE page.dirty
      <4>1. copy.content = page.present /\ copy.rev = page.rev
        BY <2>6, <3>1
      <4> QED BY <2>5, <4>1
    <3>2. CASE ~page.dirty
      <4>1. copy = None \/ copy = local[e]
        BY <2>3, <3>2 DEF Recovery
      <4> QED BY <1>1, <4>1 DEF Knows
    <3> QED BY <3>1, <3>2
  <2> HIDE DEF copy, dirty
  <2>8. Knows(draft, upload, removed, page, copy, NoCall)
    BY <1>3, <1>7, <2>2, <2>5, <2>6, <2>7 DEF Knows
  <2> QED BY <1>3, <1>4, <1>5, <2>1, <2>8, OneEditor DEF copy
<1> QED BY <1>6, <1>7

LEMMA ToldPage ==
    ASSUME DraftTypeOK, NEW e \in Editors, ed' = [ed EXCEPT ![e].told = @ \/ ed[e].open]
    PROVE  /\ ed'[e].armed = ed[e].armed /\ ed'[e].open = ed[e].open
           /\ ed'[e].present = ed[e].present /\ ed'[e].rev = ed[e].rev /\ ed'[e].dirty = ed[e].dirty
           /\ \A f \in Editors \ {e} : ed'[f] = ed[f]
<1> DEFINE told == ed[e].told \/ ed[e].open
<1>1. ed' = [ed EXCEPT ![e] = [ed[e] EXCEPT !.told = told]]
  OBVIOUS
<1>2. told \in BOOLEAN /\ ed[e] \in Page /\ ed \in [Editors -> Page]
  BY TypesOfParts, PageFields
<1> HIDE DEF told
<1>3. ed'[e] = [ed[e] EXCEPT !.told = told] /\ \A f \in Editors \ {e} : ed'[f] = ed[f]
  BY <1>1, <1>2
<1> QED BY <1>2, <1>3, PageWith

LEMMA SaveRefusedKeeps == ASSUME DraftTypeOK, EditorsKnow, NEW e \in Editors, SaveRefused(e) PROVE EditorsKnow'
<1>1. save'[e] = NoCall /\ NoCall.pc = "idle" /\ \A f \in Editors \ {e} : save'[f] = save[f]
  BY TypesOfParts DEF SaveRefused, NoCall
<1>2. /\ ed'[e].armed = ed[e].armed /\ ed'[e].open = ed[e].open
      /\ ed'[e].present = ed[e].present /\ ed'[e].rev = ed[e].rev /\ ed'[e].dirty = ed[e].dirty
      /\ \A f \in Editors \ {e} : ed'[f] = ed[f]
  BY ToldPage DEF SaveRefused
<1>3. UNCHANGED <<draft, local, adrift, upload, removed>>
  BY DEF SaveRefused
<1>4. Knows(draft, upload, removed, ed'[e], local[e], save'[e])
  BY <1>1, <1>2, EditorKnows DEF Knows
<1> QED BY <1>1, <1>2, <1>3, <1>4, OneEditor

\* An upload that has been sent, read or has failed: none is saved by that.
LEMMA UploadMoves ==
    ASSUME DraftTypeOK, DraftTypeOK', EditorsKnow, NEW e \in Editors,
           upload[e].pc # "saved", upload'[e].pc # "saved",
           \A f \in Editors \ {e} : upload'[f] = upload[f],
           upload'[e].pc = "read" => upload'[e].rev = draft.rev /\ upload'[e].content = draft.content,
           UNCHANGED <<draft, ed, local, save, adrift, removed>>
    PROVE  EditorsKnow'
<1>1. UploadsKnow(draft, upload) /\ draft.rev \in Nat
  BY EditorKnows
<1>2. draft.rev <= draft.rev
  BY <1>1, SMT
<1>3. UploadsKnow(draft, upload')
  BY <1>1, <1>2 DEF UploadsKnow
<1>4. \A content, rev : rev \in Nat /\ Covers(draft, upload, removed, content, rev)
                            => Covers(draft, upload', removed, content, rev)
  BY CoversSame
<1> QED BY <1>3, <1>4, NobodyForgets

LEMMA UploadBeginsKeeps ==
    ASSUME DraftTypeOK, DraftTypeOK', EditorsKnow, NEW e \in Editors, UploadSent(e) \/ UploadRead(e)
    PROVE  EditorsKnow'
<1>1. UNCHANGED <<draft, ed, local, save, adrift, removed>> /\ upload[e].pc \in {"idle", "sent"}
  BY DEF UploadSent, UploadRead
<1>2. \A f \in Editors \ {e} : upload'[f] = upload[f]
  BY TypesOfParts DEF UploadSent, UploadRead
<1>3. CASE UploadSent(e)
  <2>1. upload'[e] = [upload[e] EXCEPT !.pc = "sent"]
    BY <1>3, TypesOfParts DEF UploadSent
  <2>2. upload'[e].pc = "sent"
    BY <2>1, TypesOfParts, CallMovesOn
  <2> QED BY <1>1, <1>2, <2>2, UploadMoves
<1>4. CASE UploadRead(e)
  <2>1. upload'[e] = IF draft.there THEN [pc |-> "read", rev |-> draft.rev, content |-> draft.content]
                                    ELSE [upload[e] EXCEPT !.pc = "failed"]
    BY <1>4, TypesOfParts DEF UploadRead
  <2>2. [upload[e] EXCEPT !.pc = "failed"].pc = "failed"
    BY TypesOfParts, CallMovesOn
  <2>3. \/ upload'[e].pc = "failed"
        \/ upload'[e].pc = "read" /\ upload'[e].rev = draft.rev /\ upload'[e].content = draft.content
    BY <2>1, <2>2
  <2> QED BY <1>1, <1>2, <2>3, UploadMoves
<1> QED BY <1>3, <1>4

\* An upload writes what it has read with its own change: nothing is lost if
\* the draft has been left alone since.
LEMMA UploadSavedKeeps ==
    ASSUME DraftTypeOK, DraftTypeOK', EditorsKnow, NEW e \in Editors, UploadSaved(e), ~overlapped'
    PROVE  EditorsKnow'
<1>1. UNCHANGED <<ed, local, save, adrift, removed>> /\ upload[e].pc = "read"
      /\ draft.rev = upload[e].rev
  BY DEF UploadSaved
<1>2. \A f \in Editors \ {e} : upload'[f] = upload[f]
  BY TypesOfParts DEF UploadSaved
<1>3. UploadsKnow(draft, upload) /\ draft.rev \in Nat /\ upload \in [Editors -> Call]
      /\ upload' \in [Editors -> Call]
  BY EditorKnows DEF DraftTypeOK
<1>4. CASE ~draft.there
  <2>1. UNCHANGED draft /\ upload'[e] = [upload[e] EXCEPT !.pc = "failed"]
    BY <1>4, TypesOfParts DEF UploadSaved
  <2>2. upload'[e].pc = "failed"
    BY <2>1, TypesOfParts, CallMovesOn
  <2> QED BY <1>1, <1>2, <2>1, <2>2, UploadMoves
<1>5. CASE draft.there
  <2> DEFINE new == made + 1
  <2>1. upload[e].content = draft.content
    BY <1>1, <1>3 DEF UploadsKnow
  <2>2. new \in Changes
    BY NextChange DEF UploadSaved
  <2>3. upload[e].rev \in Nat /\ upload[e].content \cup {new} \in SUBSET Changes
    BY <1>1, <1>3, <2>1, <2>2, TypesOfParts
  <2>4. draft'.rev = draft.rev + 1 /\ draft'.content = draft.content \cup {new}
    <3>1. Write(upload[e].rev, upload[e].content \cup {new})
      BY <1>5 DEF UploadSaved
    <3> HIDE DEF new
    <3> QED BY <1>1, <2>1, <2>3, <3>1, Writes
  <2>5. upload'[e] = [pc |-> "saved", rev |-> upload[e].rev + 1, content |-> {new}]
    BY <1>5, TypesOfParts DEF UploadSaved
  <2>6. upload'[e].pc = "saved" /\ upload'[e].rev = draft'.rev /\ upload'[e].content = {new}
    BY <1>1, <2>4, <2>5
  <2> HIDE DEF new
  <2>7. \A content, rev : rev \in Nat /\ Covers(draft, upload, removed, content, rev)
                              => Covers(draft', upload', removed, content, rev)
    BY <1>1, <1>2, <1>3, <2>4, <2>6, CoversUploaded
  <2>8. ASSUME NEW f \in Editors \ {e}, upload[f].pc \in {"read", "saved"}
        PROVE  upload[f].rev <= draft'.rev /\ upload[f].rev # draft'.rev
    <3>1. upload[f].rev \in Nat /\ upload[f].rev <= draft.rev
      BY <1>3, <2>8, CallFields DEF UploadsKnow
    <3> QED BY <1>3, <2>4, <3>1, SMT
  <2>9. draft'.rev <= draft'.rev
    BY <1>3, <2>4, SMT
  <2>10. UploadsKnow(draft', upload')
    BY <1>2, <1>3, <2>6, <2>8, <2>9 DEF UploadsKnow
  <2> QED BY <1>1, <2>4, <2>7, <2>10, NobodyForgets
<1> QED BY <1>4, <1>5

LEMMA UploadReturnsKeeps ==
    ASSUME DraftTypeOK, DraftTypeOK', EditorsKnow, NEW e \in Editors, UploadReturns(e), ~overlapped'
    PROVE  EditorsKnow'
<1>1. UNCHANGED <<draft, local, save, adrift, removed>>
  BY DEF UploadReturns
<1>2. upload'[e] = NoCall /\ NoCall.pc = "idle" /\ \A f \in Editors \ {e} : upload'[f] = upload[f]
  BY TypesOfParts DEF UploadReturns, NoCall
<1>3. UploadsKnow(draft, upload) /\ draft.rev \in Nat /\ upload \in [Editors -> Call]
      /\ upload' \in [Editors -> Call]
  BY EditorKnows DEF DraftTypeOK
<1>4. \A content, rev : rev \in Nat /\ Covers(draft, upload, removed, content, rev)
                            => Covers(draft, upload', removed, content, rev)
  BY <1>2, <1>3, CoversReturned
<1>5. UploadsKnow(draft, upload')
  BY <1>2, <1>3 DEF UploadsKnow
<1>6. Knows(draft, upload, removed, ed[e], local[e], save[e])
      /\ ed[e] \in Page /\ save[e] \in Call /\ local[e] \in {None} \cup Copy
      /\ ed[e].rev \in Nat
  BY EditorKnows
<1>7. CASE upload[e].pc = "saved" /\ ed[e].open
  <2>1. PICK page \in Page :
               /\ page.open = ed[e].open
               /\ page.present = ed[e].present \cup upload[e].content
               /\ page.rev = upload[e].rev
               /\ page.dirty = FALSE /\ page.armed = FALSE
               /\ ed' = [ed EXCEPT ![e] = page]
    BY <1>7, UploadedPage
  <2>2. ed'[e] = page /\ \A f \in Editors \ {e} : ed'[f] = ed[f]
    BY <2>1, TypesOfParts
  <2>3. save[e].pc = "idle" /\ ed[e].rev + 1 = upload[e].rev
    BY <1>7 DEF UploadReturns
  <2>4. Covers(draft, upload, removed, ed[e].present, ed[e].rev)
    BY <1>6, <1>7 DEF Knows
  <2>5. Covers(draft, upload', removed, page.present, page.rev)
    <3>1. upload'[e].pc # "saved"
      BY <1>2
    <3>2. Covers(draft, upload', removed, ed[e].present \cup upload[e].content, upload[e].rev)
      BY <1>2, <1>3, <1>6, <1>7, <2>3, <2>4, <3>1, CoversTaken
    <3> QED BY <2>1, <3>2
  <2>6. local[e] # None => Covers(draft, upload', removed, local[e].content, local[e].rev)
    BY <1>4, <1>6 DEF Knows, Copy
  <2>7. Knows(draft, upload', removed, page, local[e], save[e])
    BY <2>1, <2>3, <2>5, <2>6 DEF Knows
  <2>8. \A f \in Editors :
            \/ ed'[f] = ed[f] /\ local'[f] = local[f] /\ save'[f] = save[f]
            \/ Knows(draft', upload', removed, ed'[f], local'[f], save'[f])
    BY <1>1, <2>2, <2>7
  <2> QED BY <1>1, <1>4, <1>5, <2>8, NobodyForgets
<1>8. CASE ~(upload[e].pc = "saved" /\ ed[e].open)
  <2>1. /\ ed'[e].armed = ed[e].armed /\ ed'[e].open = ed[e].open
        /\ ed'[e].present = ed[e].present /\ ed'[e].rev = ed[e].rev /\ ed'[e].dirty = ed[e].dirty
        /\ \A f \in Editors \ {e} : ed'[f] = ed[f]
    BY <1>8, ToldPage DEF UploadReturns
  <2>2. draft.rev \in {draft.rev, draft.rev + 1}
    OBVIOUS
  <2>3. Knows(draft, upload', removed, ed[e], local[e], save[e])
    BY <1>3, <1>4, <1>6, <2>2, KnowsStill
  <2>4. Knows(draft, upload', removed, ed'[e], local[e], save[e])
    BY <2>1, <2>3 DEF Knows
  <2>5. \A f \in Editors :
            \/ ed'[f] = ed[f] /\ local'[f] = local[f] /\ save'[f] = save[f]
            \/ Knows(draft', upload', removed, ed'[f], local'[f], save'[f])
    BY <1>1, <2>1, <2>4
  <2> QED BY <1>1, <1>4, <1>5, <2>5, NobodyForgets
<1> QED BY <1>7, <1>8

LEMMA DeleteDraftKeeps == ASSUME DraftTypeOK, EditorsKnow, DeleteDraft PROVE EditorsKnow'
<1>1. draft' = [draft EXCEPT !.there = FALSE] /\ UNCHANGED <<ed, local, save, adrift, upload, removed>>
  BY DEF DeleteDraft
<1>2. draft'.rev = draft.rev /\ draft'.content = draft.content
  BY <1>1, TypesOfParts
<1>3. \A content, rev : Covers(draft, upload, removed, content, rev)
                            => Covers(draft', upload, removed, content, rev)
  BY <1>2 DEF Covers
<1>4. UploadsKnow(draft', upload)
  BY <1>2, EditorKnows DEF UploadsKnow, EditorsKnow
<1> QED BY <1>1, <1>2, <1>3, <1>4, NobodyForgets

LEMMA DraftKeptStep ==
    ASSUME DraftTypeOK, DraftTypeOK', DraftKept, DraftNext \/ DeleteDraft \/ UNCHANGED draftVars
    PROVE  DraftKept'
<1> SUFFICES ASSUME ~overlapped' PROVE EditorsKnow'
  BY DEF DraftKept
<1>1. CASE UNCHANGED draftVars
  BY <1>1 DEF draftVars, DraftKept, EditorsKnow
<1>2. (~overlapped /\ EditorsKnow) \/ UNCHANGED draftVars
  BY DEF DraftKept, DraftNext, DeleteDraft, Open, Edit, Undo, Redo, Close, Crash, Autosave, SaveNow, Rearm, Toggle, SaveStep,
     SaveHandled, SaveReturns, SaveRefused, SaveLost, UploadSent, UploadStep, UploadRead, UploadSaved,
     UploadReturns, AdriftHandled, Rename
<1>3. ASSUME EditorsKnow, NEW e \in Editors,
             Open(e) \/ Edit(e) \/ Undo(e) \/ Redo(e) \/ Close(e) \/ Crash(e)
      PROVE  EditorsKnow'
  BY <1>3, OpenKeeps, EditKeeps, CloseKeeps
<1>4. ASSUME EditorsKnow, NEW e \in Editors, Autosave(e) \/ SaveNow(e) \/ Rearm(e) \/ Toggle(e) \/ SaveStep(e) \/ SaveLost(e)
      PROVE  EditorsKnow'
  BY <1>4, TimerKeeps, SaveHandledKeeps, SaveReturnsKeeps, SaveRefusedKeeps, SaveLostKeeps DEF SaveStep
<1>5. ASSUME EditorsKnow, NEW e \in Editors, UploadSent(e) \/ UploadStep(e)
      PROVE  EditorsKnow'
  BY <1>5, UploadBeginsKeeps, UploadSavedKeeps, UploadReturnsKeeps DEF UploadStep
<1>6. ASSUME EditorsKnow, NEW call \in adrift, AdriftHandled(call) PROVE EditorsKnow'
  BY <1>6, AdriftHandledKeeps
<1>7. ASSUME EditorsKnow, Rename PROVE EditorsKnow'
  BY <1>7, RenameKeeps
<1>8. ASSUME EditorsKnow, DeleteDraft PROVE EditorsKnow'
  BY <1>8, DeleteDraftKeeps
<1> QED BY <1>1, <1>2, <1>3, <1>4, <1>5, <1>6, <1>7, <1>8 DEF DraftNext

LEMMA DraftKeptInit == DraftInit => DraftKept
<1> SUFFICES ASSUME DraftInit PROVE EditorsKnow
  BY DEF DraftKept
<1>1. \A e \in Editors : ed[e] = Closed /\ local[e] = None /\ save[e] = NoCall /\ upload[e] = NoCall
  BY DEF DraftInit
<1>2. adrift = {}
  BY DEF DraftInit
<1>3. ~Closed.open /\ ~Closed.dirty /\ ~Closed.armed /\ NoCall.pc = "idle"
  BY DEF Closed, NoCall
<1>4. \A e \in Editors : Knows(draft, upload, removed, ed[e], local[e], save[e])
  BY <1>1, <1>3 DEF Knows
<1> QED BY <1>1, <1>2, <1>3, <1>4 DEF EditorsKnow, UploadsKnow

\* What a step of the editing does to the saved changes.
LEMMA ChangesStayStep ==
    ASSUME DraftTypeOK, DraftKept, DraftNext \/ DeleteDraft, ~overlapped', draft'.there
    PROVE  draft.content \subseteq draft'.content \cup removed'
<1>1. EditorsKnow \/ UNCHANGED draft
  BY DEF DraftKept, DraftNext, DeleteDraft, Open, Edit, Undo, Redo, Close, Crash, Autosave, SaveNow, Rearm, Toggle, SaveStep,
     SaveHandled, SaveReturns, SaveRefused, SaveLost, UploadSent, UploadStep, UploadRead, UploadSaved,
     UploadReturns, AdriftHandled, Rename
<1>2. CASE UNCHANGED draft
  BY <1>2
<1>3. CASE EditorsKnow
  <2>0. draft.rev \in Nat /\ upload \in [Editors -> Call] /\ UploadsKnow(draft, upload)
    BY <1>3, TypesOfParts DEF EditorsKnow
  <2>1. ASSUME NEW e \in Editors, SaveHandled(e), Accepts(save[e].rev)
        PROVE  draft.content \subseteq draft'.content \cup removed'
    <3>1. save[e].pc = "sent" /\ save[e].rev = draft.rev /\ UNCHANGED removed
      BY <2>1 DEF SaveHandled, Accepts
    <3>2. Covers(draft, upload, removed, save[e].content, draft.rev)
      BY <1>3, <3>1, EditorKnows DEF Knows
    <3>3. draft'.content = save[e].content
      BY <1>3, <2>1, EditorKnows, PutUpdates DEF SaveHandled
    <3> QED BY <2>0, <3>1, <3>2, <3>3, CoversNow
  <2>2. ASSUME NEW call \in adrift, AdriftHandled(call), Accepts(call.rev)
        PROVE  draft.content \subseteq draft'.content \cup removed'
    <3>1. call.rev = draft.rev /\ UNCHANGED removed
      BY <2>2 DEF AdriftHandled, Accepts
    <3>2. Covers(draft, upload, removed, call.content, draft.rev)
      BY <1>3, <3>1 DEF EditorsKnow
    <3>3. call.rev \in Nat /\ call.content \in SUBSET Changes
      BY TypesOfParts DEF Copy
    <3>4. draft'.content = call.content
      BY <2>2, <3>3, PutUpdates DEF AdriftHandled
    <3> QED BY <2>0, <3>1, <3>2, <3>4, CoversNow
  <2>3. ASSUME NEW e \in Editors, UploadSaved(e)
        PROVE  draft.content \subseteq draft'.content \cup removed'
    <3>1. CASE ~draft.there
      BY <2>3, <3>1 DEF UploadSaved
    <3>2. CASE draft.there
      <4> DEFINE content == upload[e].content \cup {made + 1}
      <4>1. upload[e].pc = "read" /\ draft.rev = upload[e].rev /\ Write(upload[e].rev, content)
        BY <2>3, <3>2 DEF UploadSaved
      <4>2. upload[e].content = draft.content
        BY <2>0, <4>1 DEF UploadsKnow
      <4>3. made + 1 \in Changes
        BY <2>3, NextChange DEF UploadSaved
      <4>4. content \in SUBSET Changes /\ upload[e].rev \in Nat
        BY <2>0, <4>1, <4>2, <4>3, TypesOfParts
      <4>5. draft.content \subseteq content
        BY <4>2
      <4> HIDE DEF content
      <4>6. draft'.content = content
        BY <4>1, <4>4, Writes
      <4> QED BY <4>5, <4>6
    <3> QED BY <3>1, <3>2
  <2>4. ASSUME Rename PROVE draft.content \subseteq draft'.content \cup removed'
    <3>1. made + 1 \in Changes
      BY <2>4, NextChange DEF Rename
    <3>2. draft.content \cup {made + 1} \in SUBSET Changes
      BY <3>1, TypesOfParts
    <3>3. draft'.content = draft.content \cup {made + 1}
      BY <2>0, <2>4, <3>2, Writes DEF Rename
    <3> QED BY <3>3
  <2>5. ASSUME DeleteDraft PROVE draft.content \subseteq draft'.content \cup removed'
    <3>1. draft' = [draft EXCEPT !.there = FALSE]
      BY <2>5 DEF DeleteDraft
    <3> QED BY <3>1, TypesOfParts
  <2>6. \/ UNCHANGED draft
        \/ \E e \in Editors : SaveHandled(e) /\ Accepts(save[e].rev)
        \/ \E call \in adrift : AdriftHandled(call) /\ Accepts(call.rev)
        \/ \E e \in Editors : UploadSaved(e)
        \/ Rename \/ DeleteDraft
    BY DEF DraftNext, Open, Edit, Undo, Redo, Close, Crash, Autosave, SaveNow, Rearm, Toggle, SaveStep,
       SaveHandled, SaveReturns, SaveRefused, SaveLost, UploadSent, UploadStep, UploadRead,
       UploadReturns, AdriftHandled
  <2> QED BY <1>2, <2>1, <2>2, <2>3, <2>4, <2>5, <2>6
<1> QED BY <1>1, <1>2, <1>3

-----------------------------------------------------------------------------
(* The types of publishing, and what is published: of the revision that     *)
(* was validated the draft has the content that was validated.              *)

Stages == {"idle", "sent", "read", "catchup", "validate", "commit", "answered", "refused", "failed"}

Request == [pc : Stages, rev : Nat, counter : Nat, source : Nat, content : SUBSET Changes, version : Nat]

Project == [there : BOOLEAN, deleting : BOOLEAN, cleared : BOOLEAN, counter : Nat, active : Nat]

Version == [key : {KeyOf[q] : q \in Requests}, content : SUBSET Changes, validated : SUBSET Changes]

\* The versions have a newest also while they are deleted.
PublishingTypes ==
    /\ project \in Project
    /\ \E last \in Nat : DOMAIN versions \subseteq 0..last
    /\ \A n \in DOMAIN versions : versions[n] \in Version
    /\ req \in [Requests -> Request]

\* What a commit will find of the draft it has validated.
ValidatedStill(doc, r) ==
    r.pc = "commit" => r.rev <= doc.rev /\ (r.rev = doc.rev => r.content = doc.content)

ValidationKept ==
    ~overlapped =>
        /\ \A q \in Requests \ Restores : ValidatedStill(draft, req[q])
        /\ \A n \in DOMAIN versions : versions[n].content = versions[n].validated

LEMMA RequestFields ==
    ASSUME NEW r
    PROVE  r \in Request <=>
               /\ Shape(r)
               /\ r.pc \in Stages /\ r.rev \in Nat /\ r.counter \in Nat /\ r.source \in Nat
               /\ r.content \in SUBSET Changes /\ r.version \in Nat
BY SMT DEF Request, Shape

\* A request moves on, and whatever else is as before.
LEMMA RequestMoves ==
    ASSUME PublishingTypes, ValidationKept, NEW q \in Requests, NEW r \in Request,
           req' = [req EXCEPT ![q] = r], UNCHANGED <<draft, overlapped, versions>>, project' \in Project,
           q \notin Restores => ValidatedStill(draft, r)
    PROVE  PublishingTypes' /\ ValidationKept'
<1>1. PublishingTypes'
  BY DEF PublishingTypes
<1>2. \A p \in Requests : req'[p] = IF p = q THEN r ELSE req[p]
  BY DEF PublishingTypes
<1>3. ValidationKept'
  BY <1>2 DEF ValidationKept, ValidatedStill
<1> QED BY <1>1, <1>3

\* A request goes to another stage with what it had.
LEMMA RequestGoes ==
    ASSUME PublishingTypes, ValidationKept, NEW q \in Requests, NEW pc \in Stages, Go(q, pc),
           UNCHANGED <<draft, overlapped, versions>>, project' \in Project,
           q \notin Restores => pc # "commit"
    PROVE  PublishingTypes' /\ ValidationKept'
<1> DEFINE r == [req[q] EXCEPT !.pc = pc]
<1>1. req' = [req EXCEPT ![q] = r]
  BY DEF Go
<1>2. req[q] \in Request
  BY DEF PublishingTypes
<1>3. r \in Request /\ r.pc = pc
  BY <1>2, SMT DEF Request
<1> HIDE DEF r
<1> QED BY <1>1, <1>3, RequestMoves DEF ValidatedStill

\* A request is answered with a version there is.
LEMMA RequestAnswered ==
    ASSUME PublishingTypes, NEW q \in Requests, NEW n \in Nat,
           req' = [req EXCEPT ![q] = [@ EXCEPT !.pc = "answered", !.version = n]]
    PROVE  \E r \in Request : r.pc = "answered" /\ req' = [req EXCEPT ![q] = r]
<1> DEFINE r1 == [req[q] EXCEPT !.pc = "answered"]
           r == [r1 EXCEPT !.version = n]
<1>1. req[q] \in Request
  BY DEF PublishingTypes
<1>2. r1 \in Request /\ r1.pc = "answered"
  BY <1>1, SMT DEF Request, Stages
<1> HIDE DEF r1
<1>3. r \in Request /\ r.pc = "answered"
  BY <1>2, SMT DEF Request
<1>4. req' = [req EXCEPT ![q] = r]
  BY DEF r1
<1> HIDE DEF r
<1> QED BY <1>3, <1>4

LEMMA VersionsAreNumbered ==
    ASSUME PublishingTypes
    PROVE  /\ DOMAIN versions \subseteq Nat
           /\ \A n \in DOMAIN versions : versions[n].content \in SUBSET Changes
<1>1. PICK last \in Nat : DOMAIN versions \subseteq 0..last
  BY DEF PublishingTypes
<1>2. 0..last \subseteq Nat
  BY SMT
<1> QED BY <1>1, <1>2 DEF PublishingTypes, Version

\* There is a newest version: of the upper bounds the least is one.
LEMMA LatestIsNat == ASSUME PublishingTypes PROVE Latest \in Nat
<1> DEFINE D == DOMAIN versions
           T == {b \in Nat : \A n \in D : n <= b}
<1>1. D \subseteq Nat
  BY VersionsAreNumbered
<1>2. CASE D = {}
  BY <1>2 DEF Latest
<1>3. CASE D # {}
  <2>1. PICK last \in Nat : D \subseteq 0..last
    BY DEF PublishingTypes
  <2>2. last \in T
    <3>1. \A n \in 0..last : n <= last
      BY SMT
    <3> QED BY <2>1, <3>1
  <2>3. PICK b \in T : \A c \in T : ~(<<c, b>> \in OpToRel(<, Nat))
    BY <2>2, NatLessThanWellFounded, WFMin, Zenon
  <2>4. \A c \in T : ~(c < b)
    BY <2>3 DEF OpToRel
  <2>5. b \in D
    <3> SUFFICES ASSUME b \notin D PROVE FALSE
      OBVIOUS
    <3>1. \A n \in D : n <= b /\ n # b /\ n \in Nat
      BY <1>1
    <3>2. PICK m \in D : TRUE
      BY <1>3
    <3>3. b \in Nat /\ m \in Nat /\ m <= b /\ m # b
      BY <1>1, <3>1, <3>2
    <3>4. b - 1 \in Nat /\ b - 1 < b
      BY <3>3, SMT
    <3>5. \A n \in D : n <= b - 1
      BY <3>1, <3>3, SMT
    <3> QED BY <2>4, <3>4, <3>5
  <2>6. \E n \in D : \A m \in D : m <= n
    BY <2>5
  <2> HIDE DEF D
  <2>7. (CHOOSE n \in D : \A m \in D : m <= n) \in D
    BY <2>6
  <2> QED BY <1>1, <1>3, <2>7 DEF Latest, D
<1> QED BY <1>2, <1>3

LEMMA SendTypes ==
    ASSUME DraftTypeOK, PublishingTypes, ValidationKept, NEW q \in Requests, Send(q)
    PROVE  PublishingTypes' /\ ValidationKept'
<1>1. req[q] \in Request /\ project \in Project
  BY DEF PublishingTypes
<1>2. UNCHANGED <<draftVars, project, versions>>
  BY DEF Send
<1> DEFINE r1 == [req[q] EXCEPT !.pc = "sent"]
<1>3. r1 \in Request /\ r1.pc = "sent"
  BY <1>1, SMT DEF Request, Stages
<1> HIDE DEF r1
<1>4. ASSUME NEW n \in DOMAIN versions,
             req' = [req EXCEPT ![q] = [@ EXCEPT !.pc = "sent", !.source = n]]
      PROVE  PublishingTypes' /\ ValidationKept'
  <2> DEFINE r == [r1 EXCEPT !.source = n]
  <2>1. n \in Nat
    BY VersionsAreNumbered
  <2>2. r \in Request /\ r.pc = "sent"
    BY <1>3, <2>1, SMT DEF Request
  <2>3. req' = [req EXCEPT ![q] = r]
    BY <1>4 DEF r1
  <2> HIDE DEF r
  <2> QED BY <1>1, <1>2, <2>2, <2>3, RequestMoves DEF ValidatedStill, draftVars
<1>5. ASSUME NEW e \in Editors,
             req' = [req EXCEPT ![q] = [@ EXCEPT !.pc = "sent", !.rev = ed[e].rev]]
      PROVE  PublishingTypes' /\ ValidationKept'
  <2> DEFINE r == [r1 EXCEPT !.rev = ed[e].rev]
  <2>1. ed[e].rev \in Nat
    BY TypesOfParts, PageFields
  <2>2. r \in Request /\ r.pc = "sent"
    BY <1>3, <2>1, SMT DEF Request
  <2>3. req' = [req EXCEPT ![q] = r]
    BY <1>5 DEF r1
  <2> HIDE DEF r
  <2> QED BY <1>1, <1>2, <2>2, <2>3, RequestMoves DEF ValidatedStill, draftVars
<1> QED BY <1>4, <1>5 DEF Send

LEMMA ReadProjectTypes ==
    ASSUME PublishingTypes, ValidationKept, NEW q \in Requests, ReadProject(q)
    PROVE  PublishingTypes' /\ ValidationKept'
<1>1. req[q] \in Request /\ project \in Project
  BY DEF PublishingTypes
<1>2. UNCHANGED <<draftVars, project, versions>>
  BY DEF ReadProject
<1>3. CASE project.there
  <2> DEFINE r1 == [req[q] EXCEPT !.pc = "read"]
             r == [r1 EXCEPT !.counter = project.counter]
  <2>1. project.counter \in Nat
    BY <1>1 DEF Project
  <2>2. r1 \in Request /\ r1.pc = "read"
    BY <1>1, SMT DEF Request, Stages
  <2> HIDE DEF r1
  <2>3. r \in Request /\ r.pc = "read"
    BY <2>1, <2>2, SMT DEF Request
  <2>4. req' = [req EXCEPT ![q] = r]
    BY <1>3 DEF ReadProject, r1
  <2> HIDE DEF r
  <2> QED BY <1>1, <1>2, <2>3, <2>4, RequestMoves DEF ValidatedStill, draftVars
<1>4. CASE ~project.there
  <2>1. Go(q, "refused")
    BY <1>4 DEF ReadProject, Go
  <2>2. "refused" \in Stages
    BY DEF Stages
  <2> QED BY <1>1, <1>2, <2>1, <2>2, RequestGoes DEF draftVars
<1> QED BY <1>3, <1>4

LEMMA LookupTypes ==
    ASSUME PublishingTypes, ValidationKept, NEW q \in Requests, Lookup(q)
    PROVE  PublishingTypes' /\ ValidationKept'
<1>1. req[q] \in Request /\ project \in Project
  BY DEF PublishingTypes
<1>2. UNCHANGED <<draft, overlapped, project, versions>>
  BY DEF Lookup, draftVars
<1>3. CASE Go(q, "refused")
  BY <1>1, <1>2, <1>3, RequestGoes DEF Stages
<1>4. CASE \E n \in WithKey(KeyOf[q]) :
                 req' = [req EXCEPT ![q] = [@ EXCEPT !.pc = "answered", !.version = n]]
  <2>1. PICK n \in WithKey(KeyOf[q]) :
                 req' = [req EXCEPT ![q] = [@ EXCEPT !.pc = "answered", !.version = n]]
    BY <1>4
  <2>2. n \in Nat
    BY VersionsAreNumbered DEF WithKey
  <2>3. PICK r \in Request : r.pc = "answered" /\ req' = [req EXCEPT ![q] = r]
    BY <2>1, <2>2, RequestAnswered
  <2> QED BY <1>1, <1>2, <2>3, RequestMoves DEF ValidatedStill
<1>5. CASE /\ q \in Restores => req[q].source \in DOMAIN versions
           /\ req' = [req EXCEPT ![q] = [@ EXCEPT
                !.content = IF q \in Restores THEN versions[req[q].source].content ELSE {},
                !.counter = Latest,
                !.pc = IF req[q].counter < Latest THEN "catchup" ELSE Prepared(q)]]
  <2> DEFINE content == IF q \in Restores THEN versions[req[q].source].content ELSE {}
             pc == IF req[q].counter < Latest THEN "catchup" ELSE Prepared(q)
             r1 == [req[q] EXCEPT !.content = content]
             r2 == [r1 EXCEPT !.counter = Latest]
             r == [r2 EXCEPT !.pc = pc]
  <2>1. content \in SUBSET Changes
    BY <1>5, VersionsAreNumbered
  <2>2. pc \in Stages /\ (q \notin Restores => pc # "commit")
    BY DEF Stages, Prepared
  <2>3. Latest \in Nat
    BY LatestIsNat
  <2>4. req' = [req EXCEPT ![q] = r]
    BY <1>5
  <2> HIDE DEF content, pc
  <2>5. r1 \in Request
    BY <1>1, <2>1, SMT DEF Request
  <2> HIDE DEF r1
  <2>6. r2 \in Request
    BY <2>3, <2>5, SMT DEF Request
  <2> HIDE DEF r2
  <2>7. r \in Request /\ r.pc = pc
    BY <2>2, <2>6, SMT DEF Request
  <2> HIDE DEF r
  <2> QED BY <1>1, <1>2, <2>2, <2>4, <2>7, RequestMoves DEF ValidatedStill
<1> QED BY <1>3, <1>4, <1>5 DEF Lookup

LEMMA CatchUpTypes ==
    ASSUME PublishingTypes, ValidationKept, NEW q \in Requests, CatchUp(q)
    PROVE  PublishingTypes' /\ ValidationKept'
<1>1. req[q].counter \in Nat /\ project \in Project
  BY RequestFields DEF PublishingTypes
<1>2. UNCHANGED <<draft, overlapped, versions>>
  BY DEF CatchUp, draftVars
<1>3. CASE project.there
  <2>1. project' = [project EXCEPT !.counter = req[q].counter] /\ Go(q, Prepared(q))
    BY <1>3 DEF CatchUp
  <2>2. project' \in Project
    BY <1>1, <2>1, SMT DEF Project
  <2>3. Prepared(q) \in Stages /\ (q \notin Restores => Prepared(q) # "commit")
    BY DEF Prepared, Stages
  <2> QED BY <1>2, <2>1, <2>2, <2>3, RequestGoes
<1>4. CASE ~project.there
  <2>1. UNCHANGED project /\ Go(q, "failed")
    BY <1>4 DEF CatchUp
  <2>2. "failed" \in Stages
    BY DEF Stages
  <2> QED BY <1>1, <1>2, <2>1, <2>2, RequestGoes
<1> QED BY <1>3, <1>4

\* The draft that is validated has the revision the request expects.
LEMMA ValidateTypes ==
    ASSUME DraftTypeOK, PublishingTypes, ValidationKept, NEW q \in Requests, Validate(q)
    PROVE  PublishingTypes' /\ ValidationKept'
<1>1. req[q] \in Request /\ project \in Project
  BY DEF PublishingTypes
<1>2. UNCHANGED <<draft, overlapped, project, versions>>
  BY DEF Validate, draftVars
<1>3. CASE Go(q, "refused")
  BY <1>1, <1>2, <1>3, RequestGoes DEF Stages
<1>4. CASE /\ draft.rev = req[q].rev
           /\ req' = [req EXCEPT ![q] = [@ EXCEPT !.pc = "commit", !.content = draft.content]]
  <2> DEFINE r1 == [req[q] EXCEPT !.pc = "commit"]
             r == [r1 EXCEPT !.content = draft.content]
  <2>1. r1 \in Request /\ r1.rev = req[q].rev
    BY <1>1, SMT DEF Request, Stages
  <2> HIDE DEF r1
  <2>2. draft.content \in SUBSET Changes /\ draft.rev \in Nat
    BY TypesOfParts
  <2>3. r \in Request /\ r.rev = draft.rev /\ r.content = draft.content
    BY <1>4, <2>1, <2>2, SMT DEF Request
  <2>4. req' = [req EXCEPT ![q] = r]
    BY <1>4 DEF r1
  <2> HIDE DEF r
  <2>5. draft.rev <= draft.rev
    BY <2>2, SMT
  <2> QED BY <1>1, <1>2, <2>3, <2>4, <2>5, RequestMoves DEF ValidatedStill
<1> QED BY <1>3, <1>4 DEF Validate

\* A version is created with the content that was validated, unless an
\* upload has met another change of the draft.
LEMMA CreatesTypes ==
    ASSUME DraftTypeOK, PublishingTypes, ValidationKept, NEW q \in Requests, Creates(q), UNCHANGED draftVars
    PROVE  PublishingTypes' /\ ValidationKept'
<1> DEFINE n == project.counter + 1
           content == IF q \in Restores THEN req[q].content ELSE draft.content
           created == [key |-> KeyOf[q], content |-> content, validated |-> req[q].content]
<1>1. req[q] \in Request /\ req[q].content \in SUBSET Changes /\ project \in Project
      /\ project.counter \in Nat /\ draft.content \in SUBSET Changes
  BY RequestFields, TypesOfParts DEF PublishingTypes, Project
<1>2. n \in Nat
  BY <1>1, SMT
<1>3. /\ versions' = [m \in DOMAIN versions \cup {n} |-> IF m = n THEN created ELSE versions[m]]
      /\ project' = [project EXCEPT !.counter = n, !.active = n]
      /\ req' = [req EXCEPT ![q] = [@ EXCEPT !.pc = "answered", !.version = n]]
  BY DEF Creates
<1>4. created \in Version /\ created.content = content /\ created.validated = req[q].content
  BY <1>1 DEF Version
<1>5. ~overlapped => content = req[q].content
  <2>1. CASE q \in Restores
    BY <2>1
  <2>2. CASE q \notin Restores
    <3>1. req[q].pc = "commit" /\ draft.rev = req[q].rev
      BY <2>2 DEF Creates, Commits
    <3> QED BY <2>2, <3>1 DEF ValidationKept, ValidatedStill
  <2> QED BY <2>1, <2>2
<1> HIDE DEF n, created, content
<1>6. PICK r \in Request : r.pc = "answered" /\ req' = [req EXCEPT ![q] = r]
  BY <1>2, <1>3, RequestAnswered
<1>7. req' \in [Requests -> Request] /\ \A p \in Requests : req'[p].pc = "commit" => req'[p] = req[p]
  BY <1>6 DEF PublishingTypes
<1>8. project' \in Project
  <2> DEFINE p1 == [project EXCEPT !.counter = n]
  <2>1. p1 \in Project
    BY <1>1, <1>2, SMT DEF Project
  <2>2. project' = [p1 EXCEPT !.active = n]
    BY <1>3
  <2> HIDE DEF p1
  <2> QED BY <1>2, <2>1, <2>2, SMT DEF Project
<1>9. \E last \in Nat : DOMAIN versions' \subseteq 0..last
  <2>1. PICK last \in Nat : DOMAIN versions \subseteq 0..last
    BY DEF PublishingTypes
  <2>2. last + n \in Nat /\ n \in 0..(last + n) /\ \A m \in 0..last : m \in 0..(last + n)
    BY <1>2, SMT
  <2>3. DOMAIN versions' = DOMAIN versions \cup {n}
    BY <1>3
  <2> QED BY <2>1, <2>2, <2>3
<1>10. /\ DOMAIN versions' = DOMAIN versions \cup {n}
       /\ \A m \in DOMAIN versions' : versions'[m] = IF m = n THEN created ELSE versions[m]
  BY <1>3
<1>11. \A m \in DOMAIN versions' : versions'[m] \in Version
  BY <1>4, <1>10 DEF PublishingTypes
<1>12. ~overlapped => \A m \in DOMAIN versions' : versions'[m].content = versions'[m].validated
  BY <1>4, <1>5, <1>10 DEF ValidationKept
<1>13. UNCHANGED <<draft, overlapped>>
  BY DEF draftVars
<1>14. ValidationKept'
  BY <1>7, <1>12, <1>13 DEF ValidationKept, ValidatedStill
<1> QED BY <1>7, <1>8, <1>9, <1>11, <1>14 DEF PublishingTypes

LEMMA CommitTypes ==
    ASSUME DraftTypeOK, PublishingTypes, ValidationKept, NEW q \in Requests, Commit(q)
    PROVE  PublishingTypes' /\ ValidationKept'
<1>1. project \in Project /\ UNCHANGED draftVars /\ {"refused", "failed"} \subseteq Stages
  BY DEF PublishingTypes, Commit, Stages
<1>2. UNCHANGED <<draft, overlapped>>
  BY <1>1 DEF draftVars
<1>3. ASSUME UNCHANGED <<project, versions>>, Go(q, "refused") \/ Go(q, "failed")
      PROVE  PublishingTypes' /\ ValidationKept'
  BY <1>1, <1>2, <1>3, RequestGoes
<1>4. ASSUME UNCHANGED <<project, versions>>, NEW n \in WithKey(KeyOf[q]),
             req' = [req EXCEPT ![q] = [@ EXCEPT !.pc = "answered", !.version = n]]
      PROVE  PublishingTypes' /\ ValidationKept'
  <2>1. n \in Nat
    BY VersionsAreNumbered DEF WithKey
  <2>2. PICK r \in Request : r.pc = "answered" /\ req' = [req EXCEPT ![q] = r]
    BY <1>4, <2>1, RequestAnswered
  <2> QED BY <1>1, <1>2, <1>4, <2>2, RequestMoves DEF ValidatedStill
<1>5. ASSUME Creates(q) PROVE PublishingTypes' /\ ValidationKept'
  BY <1>1, <1>5, CreatesTypes
<1> QED BY <1>3, <1>4, <1>5, CommitCases

\* Every write gives the draft a new revision, as long as no upload has met
\* another change.
LEMMA RevisionMoves ==
    ASSUME DraftTypeOK, DraftNext \/ DeleteDraft \/ UNCHANGED draftVars, ~overlapped'
    PROVE  \/ draft'.rev = draft.rev /\ draft'.content = draft.content
           \/ draft'.rev = draft.rev + 1
<1>1. CASE UNCHANGED draft
  BY <1>1
<1>2. ASSUME NEW e \in Editors, SaveHandled(e), Accepts(save[e].rev)
      PROVE  draft'.rev = draft.rev + 1
  <2>1. save[e].rev \in Nat /\ save[e].content \in SUBSET Changes
    BY TypesOfParts, CallFields
  <2> QED BY <1>2, <2>1, PutUpdates DEF SaveHandled, Accepts
<1>3. ASSUME NEW call \in adrift, AdriftHandled(call), Accepts(call.rev)
      PROVE  draft'.rev = draft.rev + 1
  <2>1. call.rev \in Nat /\ call.content \in SUBSET Changes
    BY TypesOfParts DEF Copy
  <2> QED BY <1>3, <2>1, PutUpdates DEF AdriftHandled, Accepts
<1>4. ASSUME NEW e \in Editors, UploadSaved(e), draft.there
      PROVE  draft'.rev = draft.rev + 1
  <2>1. upload[e].rev = draft.rev /\ Write(upload[e].rev, upload[e].content \cup {made + 1})
    BY <1>4 DEF UploadSaved
  <2>2. made + 1 \in Changes
    BY <1>4, NextChange DEF UploadSaved
  <2>3. upload[e].rev \in Nat /\ upload[e].content \cup {made + 1} \in SUBSET Changes
    BY <2>2, TypesOfParts, CallFields
  <2> QED BY <2>1, <2>3, Writes
<1>5. ASSUME Rename PROVE draft'.rev = draft.rev + 1
  <2>1. made + 1 \in Changes
    BY <1>5, NextChange DEF Rename
  <2>2. draft.rev \in Nat /\ draft.content \cup {made + 1} \in SUBSET Changes
    BY <2>1, TypesOfParts
  <2> QED BY <1>5, <2>2, Writes DEF Rename
<1>6. ASSUME DeleteDraft PROVE draft'.rev = draft.rev /\ draft'.content = draft.content
  BY <1>6, TypesOfParts DEF DeleteDraft
<1>7. \/ UNCHANGED draft
      \/ \E e \in Editors : SaveHandled(e) /\ Accepts(save[e].rev)
      \/ \E call \in adrift : AdriftHandled(call) /\ Accepts(call.rev)
      \/ \E e \in Editors : UploadSaved(e) /\ draft.there
      \/ Rename \/ DeleteDraft
  BY DEF DraftNext, Open, Edit, Undo, Redo, Close, Crash, Autosave, SaveNow, Rearm, Toggle, SaveStep,
     SaveHandled, SaveReturns, SaveRefused, SaveLost, UploadSent, UploadStep, UploadRead, UploadSaved,
     UploadReturns, AdriftHandled, draftVars
<1> QED BY <1>1, <1>2, <1>3, <1>4, <1>5, <1>6, <1>7

LEMMA DraftStepTypes ==
    ASSUME DraftTypeOK, PublishingTypes, ValidationKept,
           DraftNext \/ DeleteDraft \/ UNCHANGED draftVars, UNCHANGED publishVars
    PROVE  PublishingTypes' /\ ValidationKept'
<1>1. UNCHANGED <<project, versions, req>>
  BY DEF publishVars
<1>2. PublishingTypes'
  BY <1>1 DEF PublishingTypes
<1>3. overlapped => overlapped'
  BY DEF DraftNext, DeleteDraft, Open, Edit, Undo, Redo, Close, Crash, Autosave, SaveNow, Rearm, Toggle, SaveStep,
     SaveHandled, SaveReturns, SaveRefused, SaveLost, UploadSent, UploadStep, UploadRead, UploadSaved,
     UploadReturns, AdriftHandled, Rename, draftVars
<1>4. ASSUME ~overlapped', NEW q \in Requests \ Restores
      PROVE  ValidatedStill(draft', req[q])
  <2>1. ValidatedStill(draft, req[q])
    BY <1>3, <1>4 DEF ValidationKept
  <2>2. req[q].rev \in Nat /\ draft.rev \in Nat
    BY RequestFields, TypesOfParts DEF PublishingTypes
  <2>3. CASE draft'.rev = draft.rev /\ draft'.content = draft.content
    BY <2>1, <2>3 DEF ValidatedStill
  <2>4. CASE draft'.rev = draft.rev + 1
    <3>1. req[q].rev <= draft.rev => req[q].rev <= draft'.rev /\ req[q].rev # draft'.rev
      BY <2>2, <2>4, SMT
    <3> QED BY <2>1, <3>1 DEF ValidatedStill
  <2> QED BY <1>4, <2>3, <2>4, RevisionMoves
<1>5. ValidationKept'
  BY <1>1, <1>3, <1>4 DEF ValidationKept
<1> QED BY <1>2, <1>5

LEMMA DeletionTypes ==
    ASSUME PublishingTypes, ValidationKept, DeleteStarts \/ DeleteVersions \/ DeleteProject
    PROVE  PublishingTypes' /\ ValidationKept'
<1>1. UNCHANGED <<draft, overlapped, req>>
  BY DEF DeleteStarts, DeleteVersions, DeleteProject, draftVars
<1>2. project' \in Project
  <2>1. /\ project = [there |-> project.there, deleting |-> project.deleting,
                      cleared |-> project.cleared, counter |-> project.counter, active |-> project.active]
        /\ project.there \in BOOLEAN /\ project.deleting \in BOOLEAN /\ project.cleared \in BOOLEAN
        /\ project.counter \in Nat /\ project.active \in Nat
    BY DEF PublishingTypes, Project
  <2>2. CASE DeleteStarts
    <3> DEFINE p == [there |-> project.there, deleting |-> TRUE,
                     cleared |-> project.cleared, counter |-> project.counter, active |-> project.active]
    <3>1. project' = p
      BY <2>1, <2>2 DEF DeleteStarts
    <3> QED BY <2>1, <3>1 DEF Project
  <2>3. CASE DeleteVersions
    <3> DEFINE p == [there |-> project.there, deleting |-> project.deleting,
                     cleared |-> TRUE, counter |-> project.counter, active |-> project.active]
    <3>1. project' = p
      BY <2>1, <2>3 DEF DeleteVersions
    <3> QED BY <2>1, <3>1 DEF Project
  <2>4. CASE DeleteProject
    <3> DEFINE p == [there |-> FALSE, deleting |-> project.deleting,
                     cleared |-> project.cleared, counter |-> project.counter, active |-> project.active]
    <3>1. project' = p
      BY <2>1, <2>4 DEF DeleteProject
    <3> QED BY <2>1, <3>1 DEF Project
  <2> QED BY <2>2, <2>3, <2>4
<1>3. versions' = versions \/ versions' = <<>>
  BY DEF DeleteStarts, DeleteVersions, DeleteProject
<1>4. CASE versions' = versions
  BY <1>1, <1>2, <1>4 DEF PublishingTypes, ValidationKept
<1>5. CASE versions' = <<>>
  <2>1. DOMAIN versions' = {}
    BY <1>5
  <2>2. \E last \in Nat : DOMAIN versions' \subseteq 0..last
    BY <2>1
  <2> QED BY <1>1, <1>2, <2>1, <2>2 DEF PublishingTypes, ValidationKept
<1> QED BY <1>3, <1>4, <1>5

\* The inductive invariant.
PublishingIInv == DraftTypeOK /\ DraftKept /\ PublishingTypes /\ ValidationKept /\ NumbersInv

LEMMA PublishingIInit == Init => PublishingIInv
<1> SUFFICES ASSUME Init PROVE PublishingIInv
  OBVIOUS
<1>1. DraftTypeOK /\ DraftKept
  BY DraftTypesInit, DraftKeptInit DEF Init
<1>2. req = [q \in Requests |-> Idle] /\ Idle \in Request /\ Idle.pc = "idle"
  BY DEF Init, Idle, Request, Stages
<1>3. DOMAIN versions = {}
  BY DEF Init
<1>4. \E last \in Nat : DOMAIN versions \subseteq 0..last
  BY <1>3
<1>5. project \in Project
  BY DEF Init, Project
<1>6. PublishingTypes
  BY <1>2, <1>3, <1>4, <1>5 DEF PublishingTypes
<1>7. ValidationKept
  BY <1>2, <1>3 DEF ValidationKept, ValidatedStill
<1> QED BY <1>1, <1>6, <1>7, InitNumbers DEF PublishingIInv

\* Which part of the state a step is about.
LEMMA StepKinds ==
    ASSUME [Next]_vars
    PROVE  \/ (DraftNext \/ DeleteDraft \/ UNCHANGED draftVars) /\ UNCHANGED publishVars
           \/ /\ UNCHANGED draftVars
              /\ \/ DeleteStarts \/ DeleteVersions \/ DeleteProject
                 \/ \E q \in Requests :
                       Send(q) \/ ReadProject(q) \/ Lookup(q) \/ CatchUp(q) \/ Validate(q) \/ Commit(q)
BY DEF Next, vars, DeleteStarts, DeleteVersions, DeleteDraft, DeleteProject, Send, ReadProject, Lookup,
   CatchUp, Validate, Commit

LEMMA PublishingIStep == PublishingIInv /\ [Next]_vars => PublishingIInv'
<1> SUFFICES ASSUME PublishingIInv, [Next]_vars PROVE PublishingIInv'
  OBVIOUS
<1>1. DraftNext \/ DeleteDraft \/ UNCHANGED draftVars
  BY StepKinds
<1>2. DraftTypeOK'
  BY <1>1, DraftTypes DEF PublishingIInv
<1>3. DraftKept'
  BY <1>1, <1>2, DraftKeptStep DEF PublishingIInv
<1>4. PublishingTypes' /\ ValidationKept'
  <2>1. CASE UNCHANGED publishVars
    BY <1>1, <2>1, DraftStepTypes DEF PublishingIInv
  <2>2. CASE DeleteStarts \/ DeleteVersions \/ DeleteProject
    BY <2>2, DeletionTypes DEF PublishingIInv
  <2>3. ASSUME NEW q \in Requests,
               Send(q) \/ ReadProject(q) \/ Lookup(q) \/ CatchUp(q) \/ Validate(q) \/ Commit(q)
        PROVE  PublishingTypes' /\ ValidationKept'
    BY <2>3, SendTypes, ReadProjectTypes, LookupTypes, CatchUpTypes, ValidateTypes, CommitTypes
       DEF PublishingIInv
  <2> QED BY <2>1, <2>2, <2>3, StepKinds
<1>5. NumbersInv'
  BY NumbersStep DEF PublishingIInv
<1> QED BY <1>2, <1>3, <1>4, <1>5 DEF PublishingIInv

LEMMA PublishingIInvariant == Spec => []PublishingIInv
BY PublishingIInit, PublishingIStep, PTL DEF Spec

LEMMA PublishingIImplies == PublishingIInv => PublishingInv
<1> SUFFICES ASSUME PublishingIInv PROVE PublishingInv
  OBVIOUS
<1>1. TypeOK
  BY VersionsAreNumbered DEF PublishingIInv, PublishingTypes, Project, Request, Stages, Version, TypeOK
<1>2. ActiveIsNewest /\ AnswersAreTrue
  BY DEF PublishingIInv, NumbersInv
<1>3. SnapshotWasValidated
  BY DEF PublishingIInv, ValidationKept, SnapshotWasValidated
<1> QED BY <1>1, <1>2, <1>3 DEF PublishingInv

\* What is published is what was validated, the numbers have no gap, and an
\* answer names the version of its own key: for any number of editors and
\* requests, however their calls meet.
THEOREM PublishingIsSafe == Spec => []PublishingInv
BY PublishingIInvariant, PublishingIImplies, PTL

\* No save undoes what another editor has saved, however many editors, late
\* answers and lost pages there are, as long as no upload has met another
\* change of the draft.
THEOREM SavesKeepSavedChanges == Spec => SavedChangesStay
<1>1. PublishingIInv /\ [Next]_vars =>
          [~overlapped' /\ draft'.there => draft.content \subseteq draft'.content \cup removed']_draftVars
  <2> SUFFICES ASSUME PublishingIInv, [Next]_vars, ~UNCHANGED draftVars, ~overlapped', draft'.there
               PROVE  draft.content \subseteq draft'.content \cup removed'
    OBVIOUS
  <2>1. DraftNext \/ DeleteDraft
    BY StepKinds
  <2> QED BY <2>1, ChangesStayStep DEF PublishingIInv
<1> QED BY <1>1, PublishingIInvariant, PTL DEF Spec, SavedChangesStay

=============================================================================
