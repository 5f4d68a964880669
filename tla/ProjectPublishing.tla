------------------------- MODULE ProjectPublishing -------------------------
(***************************************************************************)
(* Publishing (api/_handlers/publish.js), restoring (versions.js) and      *)
(* deleting (projects.js) a project whose draft is being edited.  A        *)
(* request stands between two database calls; a transaction is one action  *)
(* (runMongoTransaction; production needs a replica set).  A request that  *)
(* dies with its process simply takes no further step.                     *)
(***************************************************************************)
EXTENDS DraftEditing

CONSTANTS
    Requests,   \* requests to publish or to restore
    KeyOf,      \* request -> its idempotency key
    Restores    \* the requests that restore

ASSUME PublishingAssumption == Restores \subseteq Requests

VARIABLES
    project,    \* the Project document: there, counter, active; deleting,
                \* and its versions cleared
    versions,   \* the ProjectVersion documents by number
    req         \* request -> where it stands

publishVars == <<project, versions, req>>
vars == <<draftVars, publishVars>>

Idle == [pc |-> "idle", rev |-> 0, counter |-> 0, source |-> 0, content |-> {}, version |-> 0]

Init ==
    /\ DraftInit
    /\ project = [there |-> TRUE, deleting |-> FALSE, cleared |-> FALSE, counter |-> 0, active |-> 0]
    /\ versions = <<>>
    /\ req = [q \in Requests |-> Idle]

Go(q, pc) == req' = [req EXCEPT ![q].pc = pc]

\* Where a request goes on when the counter is right.
Prepared(q) == IF q \in Restores THEN "commit" ELSE "validate"

Latest == IF DOMAIN versions = {} THEN 0 ELSE CHOOSE n \in DOMAIN versions : \A m \in DOMAIN versions : m <= n

WithKey(key) == {n \in DOMAIN versions : versions[n].key = key}

\* An editor publishes the revision its page knows; a version is restored.
Send(q) ==
    /\ q \in bound.requests
    /\ req[q].pc = "idle"
    /\ \/ /\ q \in Restores
          /\ \E n \in DOMAIN versions :
                 req' = [req EXCEPT ![q] = [@ EXCEPT !.pc = "sent", !.source = n]]
       \/ /\ q \notin Restores
          /\ \E e \in Editors :
                /\ ed[e].open
                /\ save[e].pc = "idle"
                /\ req' = [req EXCEPT ![q] = [@ EXCEPT !.pc = "sent", !.rev = ed[e].rev]]
    /\ UNCHANGED <<draftVars, project, versions>>

\* Project.findById
ReadProject(q) ==
    /\ req[q].pc = "sent"
    /\ req' = IF project.there
              THEN [req EXCEPT ![q] = [@ EXCEPT !.pc = "read", !.counter = project.counter]]
              ELSE [req EXCEPT ![q].pc = "refused"]
    /\ UNCHANGED <<draftVars, project, versions>>

\* The version a key already has is returned; the source of a restore must
\* exist; the counter that was read may be behind the latest version.
Lookup(q) ==
    /\ req[q].pc = "read"
    /\ \/ /\ q \in Restores
          /\ req[q].source \notin DOMAIN versions
          /\ Go(q, "refused")
       \/ /\ q \in Restores => req[q].source \in DOMAIN versions
          /\ \E n \in WithKey(KeyOf[q]) :
                 req' = [req EXCEPT ![q] = [@ EXCEPT !.pc = "answered", !.version = n]]
       \/ /\ q \in Restores => req[q].source \in DOMAIN versions
          /\ WithKey(KeyOf[q]) = {}
          /\ req' = [req EXCEPT ![q] = [@ EXCEPT
                !.content = IF q \in Restores THEN versions[req[q].source].content ELSE {},
                !.counter = Latest,
                !.pc = IF req[q].counter < Latest THEN "catchup" ELSE Prepared(q)]]
    /\ UNCHANGED <<draftVars, project, versions>>

\* project.save() of the counter, which may have moved on since.
CatchUp(q) ==
    /\ req[q].pc = "catchup"
    /\ IF project.there
       THEN project' = [project EXCEPT !.counter = req[q].counter] /\ Go(q, Prepared(q))
       ELSE UNCHANGED project /\ Go(q, "failed")
    /\ UNCHANGED <<draftVars, versions>>

\* The draft is read and validated, with its connectors and assets.
Validate(q) ==
    /\ req[q].pc = "validate"
    /\ \/ /\ draft.there
          /\ draft.rev = req[q].rev
          /\ req' = [req EXCEPT ![q] = [@ EXCEPT !.pc = "commit", !.content = draft.content]]
       \/ Go(q, "refused")
    /\ UNCHANGED <<draftVars, project, versions>>

\* Mutant: the draft's revision is not looked at again.
CommitsStale(q) == q \in Restores \/ draft.there

\* The draft in the transaction must have the expected revision still.
Commits(q) == q \in Restores \/ (draft.there /\ draft.rev = req[q].rev)

\* Mutant: no index on the key.
TakenNumber(q, n) == n \in DOMAIN versions

\* The unique indexes: by number, by key.
Taken(q, n) == n \in DOMAIN versions \/ WithKey(KeyOf[q]) # {}

\* A duplicate: publish answers with the version its key has by now.
Duplicate(q) ==
    \/ /\ q \notin Restores
       /\ \E n \in WithKey(KeyOf[q]) : req' = [req EXCEPT ![q] = [@ EXCEPT !.pc = "answered", !.version = n]]
    \/ /\ q \in Restores \/ WithKey(KeyOf[q]) = {}
       /\ Go(q, "failed")

\* The transaction: the number is allocated, the version created and made
\* active, or nothing happens.
Commit(q) ==
    LET n == project.counter + 1
        created == [key |-> KeyOf[q],
                    content |-> IF q \in Restores THEN req[q].content ELSE draft.content,
                    validated |-> req[q].content]
    IN
    /\ req[q].pc = "commit"
    /\ \/ /\ ~Commits(q)
          /\ Go(q, "refused")
          /\ UNCHANGED <<project, versions>>
       \/ /\ Commits(q)
          /\ ~project.there
          /\ Go(q, "failed")
          /\ UNCHANGED <<project, versions>>
       \/ /\ Commits(q)
          /\ project.there
          /\ Taken(q, n)
          /\ Duplicate(q)
          /\ UNCHANGED <<project, versions>>
       \/ /\ Commits(q)
          /\ project.there
          /\ ~Taken(q, n)
          /\ versions' = [m \in DOMAIN versions \cup {n} |-> IF m = n THEN created ELSE versions[m]]
          /\ project' = [project EXCEPT !.counter = n, !.active = n]
          /\ req' = [req EXCEPT ![q] = [@ EXCEPT !.pc = "answered", !.version = n]]
    /\ UNCHANGED draftVars

\* DELETE: the children go in any order (Promise.all), the project last.
DeleteStarts ==
    /\ bound.deletes
    /\ project.there
    /\ ~project.deleting
    /\ project' = [project EXCEPT !.deleting = TRUE]
    /\ UNCHANGED <<draftVars, versions, req>>

DeleteVersions ==
    /\ project.deleting
    /\ project.there
    /\ ~project.cleared
    /\ versions' = <<>>
    /\ project' = [project EXCEPT !.cleared = TRUE]
    /\ UNCHANGED <<draftVars, req>>

DeleteDraft ==
    /\ project.deleting
    /\ project.there
    /\ draft.there
    /\ draft' = [draft EXCEPT !.there = FALSE]
    /\ UNCHANGED <<bound, auto, ed, local, save, adrift, upload, made, removed, undos, uploads, losses, overlapped>>
    /\ UNCHANGED publishVars

DeleteProject ==
    /\ project.deleting
    /\ project.there
    /\ project.cleared
    /\ ~draft.there
    /\ project' = [project EXCEPT !.there = FALSE]
    /\ UNCHANGED <<draftVars, versions, req>>

-----------------------------------------------------------------------------
Next ==
    \/ DraftNext /\ UNCHANGED publishVars
    \/ \E q \in Requests :
        Send(q) \/ ReadProject(q) \/ Lookup(q) \/ CatchUp(q) \/ Validate(q) \/ Commit(q)
    \/ DeleteStarts \/ DeleteVersions \/ DeleteDraft \/ DeleteProject

Spec == Init /\ [][Next]_vars

FairSpec == Spec /\ DraftFairness

-----------------------------------------------------------------------------
(***************************************************************************)
(* Properties.                                                             *)
(***************************************************************************)

TypeOK ==
    /\ DraftTypeOK
    /\ project \in [there : BOOLEAN, deleting : BOOLEAN, cleared : BOOLEAN, counter : Nat, active : Nat]
    /\ DOMAIN versions \subseteq Nat
    /\ \A n \in DOMAIN versions :
           versions[n] \in [key : {KeyOf[q] : q \in Requests}, content : SUBSET Changes,
                            validated : SUBSET Changes]
    /\ req \in [Requests -> [pc : {"idle", "sent", "read", "catchup", "validate", "commit",
                                   "answered", "refused", "failed"},
                             rev : Nat, counter : Nat, source : Nat, content : SUBSET Changes,
                             version : Nat]]

Live == project.there /\ ~project.deleting

\* The newest version is the active one, and the numbers have no gap, also
\* after a catch-up has set the counter back.
ActiveIsNewest == Live => DOMAIN versions = 1..project.active

\* A version's content is what its validation summary is about: validation
\* and snapshot are two reads of the draft.
SnapshotWasValidated ==
    ~overlapped => \A n \in DOMAIN versions : versions[n].content = versions[n].validated

\* A request is answered with the version of its own key, so a repeated
\* request gets the version of the first.
AnswersAreTrue ==
    \A q \in Requests : Live /\ req[q].pc = "answered" =>
        req[q].version \in DOMAIN versions /\ versions[req[q].version].key = KeyOf[q]

PublishingInv == TypeOK /\ ActiveIsNewest /\ SnapshotWasValidated /\ AnswersAreTrue

History == INSTANCE VersionHistory WITH
    Keys <- {KeyOf[q] : q \in Requests},
    history <- IF Live THEN versions ELSE <<>>,
    active <- IF Live THEN project.active ELSE 0,
    phase <- IF Live THEN "live" ELSE IF project.there THEN "deleting" ELSE "gone",
    orphans <- IF project.there THEN {} ELSE DOMAIN versions

\* Publishing is an append-only history: no version is changed or taken
\* back, a key has one, the newest is active, and a deleted project gets no
\* version any more.
ImplementsVersionHistory == History!Spec

-----------------------------------------------------------------------------
(* The instances of the runs "publishing" and "draft_uploads": editing by  *)
(* itself, with blocking issues and saves by hand, then publishing with    *)
(* little editing around it.                                               *)

MCKeyOf == [q \in Requests |-> IF q = "p1 again" THEN "p1" ELSE q]

Bound(c, u, up, l, requests, deletes) ==
    [changes |-> c, undos |-> u, uploads |-> up, losses |-> l,
     requests |-> requests, deletes |-> deletes, faulty |-> {}, byHand |-> FALSE]

MCBounds == {
    Bound(2, 1, 1, 1, {}, FALSE),
    [Bound(3, 0, 0, 1, {}, FALSE) EXCEPT !.faulty = {2}, !.byHand = TRUE],
    Bound(1, 0, 1, 0, {"p1", "p1 again"}, TRUE),
    Bound(1, 0, 0, 0, {"p1", "p2", "back"}, FALSE)}
=============================================================================
