---------------------------- MODULE DraftEditing ----------------------------
(***************************************************************************)
(* The draft of one project and the editors that have it open: autosave    *)
(* with an optimistic revision (src/BuilderPlatform.jsx against            *)
(* api/_handlers/draft.js), undo and redo (useEditorHistory.js), the local *)
(* recovery copy, the upload of a new base SVG (api/_handlers/svg.js) and  *)
(* the rename of the project (api/_handlers/projects.js).                  *)
(*                                                                         *)
(* A draft's content is the set of the changes that made it, numbered in   *)
(* the order they were made.  A request is one action where the server     *)
(* makes one database call, and one action per call where it makes more.   *)
(***************************************************************************)
EXTENDS Naturals, Sequences

CONSTANTS
    Editors,        \* browsers with the builder open
    HistoryLimit,   \* limit of useEditorHistory
    Changes,        \* the numbers changes may get
    Bounds,         \* the instances a run covers: bounds of what happens,
                    \* of which every behaviour has one
    None

ASSUME EditingAssumption ==
    /\ HistoryLimit \in Nat \ {0}
    /\ None \notin [content : SUBSET Changes, rev : Nat]
    /\ \A b \in Bounds : 1..b.changes \subseteq Changes /\ {b.changes, b.undos, b.uploads, b.losses} \subseteq Nat

VARIABLES
    bound,      \* the bounds of this behaviour
    auto,       \* editor -> its browser has the autosave switched on
    draft,      \* the ProjectDraft document: there, rev, content
    ed,         \* editor -> the state of its page
    local,      \* editor -> the recovery copy in its localStorage, or None
    save,       \* editor -> the PUT its page waits for
    adrift,     \* PUTs whose page is gone or has given up
    upload,     \* editor -> the upload its page waits for
    made,       \* the number of changes made
    removed,    \* changes an editor took back or declined to recover
    undos,      \* the number of undos and redos
    uploads,    \* the number of uploads
    losses,     \* the number of losses
    overlapped  \* an upload has met another change of the draft

draftVars == <<bound, auto, draft, ed, local, save, adrift, upload, made, removed, undos, uploads, losses, overlapped>>

Closed == [open |-> FALSE, present |-> {}, past |-> <<>>, future |-> <<>>,
           rev |-> 0, dirty |-> FALSE, armed |-> FALSE, told |-> FALSE]

NoCall == [pc |-> "idle", rev |-> 0, content |-> {}]

DraftInit ==
    /\ bound \in Bounds
    /\ auto = [e \in Editors |-> TRUE]
    /\ draft = [there |-> TRUE, rev |-> 1, content |-> {}]
    /\ ed = [e \in Editors |-> Closed]
    /\ local = [e \in Editors |-> None]
    /\ save = [e \in Editors |-> NoCall]
    /\ adrift = {}
    /\ upload = [e \in Editors |-> NoCall]
    /\ made = 0
    /\ removed = {}
    /\ undos = 0
    /\ uploads = 0
    /\ losses = 0
    /\ overlapped = FALSE

-----------------------------------------------------------------------------
(* The page: opening, editing, undo and redo.                              *)

\* validateProjectSchema of the page finds blocking issues: some changes
\* bring one, until they are taken back.
Blocked(content) == content \cap bound.faulty # {}

\* The effect that writes the recovery copy: whenever a dirty draft or its
\* revision changes.
Recovery(e, page) ==
    local' = IF page.dirty
             THEN [local EXCEPT ![e] = [content |-> page.present, rev |-> page.rev]]
             ELSE local

\* openProject: the recovery copy is offered if it was made from the very
\* revision the server has; the user restores it or declines.
Open(e) ==
    /\ ~ed[e].open
    /\ draft.there
    /\ \E restore \in BOOLEAN :
        LET offered == local[e] # None /\ local[e].rev = draft.rev
                           /\ local[e].content # draft.content
            page == [open |-> TRUE, present |-> IF restore THEN local[e].content ELSE draft.content,
                     past |-> <<>>, future |-> <<>>, rev |-> draft.rev,
                     dirty |-> restore, armed |-> restore, told |-> FALSE]
        IN /\ restore => offered
           /\ ed' = [ed EXCEPT ![e] = page]
           /\ Recovery(e, page)
           /\ removed' = IF offered /\ ~restore
                         THEN removed \cup (local[e].content \ draft.content)
                         ELSE removed
    /\ UNCHANGED <<bound, auto, draft, save, adrift, upload, made, undos, uploads, losses, overlapped>>

\* slice(-limit)
Newest(past) ==
    IF Len(past) > HistoryLimit
    THEN SubSeq(past, Len(past) - HistoryLimit + 1, Len(past))
    ELSE past

\* A changed page is dirty, its autosave timer starts anew.
Show(e, present, past, future) ==
    LET page == [ed[e] EXCEPT !.present = present, !.past = past, !.future = future,
                              !.dirty = TRUE, !.armed = TRUE]
    IN  /\ ed' = [ed EXCEPT ![e] = page]
        /\ Recovery(e, page)
        /\ removed' = removed \cup (ed[e].present \ present)

\* changeDraft, with editor.commit; what blocks a save may be put right.
Edit(e) ==
    /\ ed[e].open
    /\ made < bound.changes
    /\ made' = made + 1
    /\ \E kept \in {ed[e].present, ed[e].present \ bound.faulty} :
           Show(e, kept \cup {made + 1}, Newest(Append(ed[e].past, ed[e].present)), <<>>)
    /\ UNCHANGED <<bound, auto, draft, save, adrift, upload, undos, uploads, losses, overlapped>>

Undo(e) ==
    LET past == ed[e].past IN
    /\ undos < bound.undos
    /\ undos' = undos + 1
    /\ ed[e].open
    /\ past # <<>>
    /\ Show(e, past[Len(past)], SubSeq(past, 1, Len(past) - 1), <<ed[e].present>> \o ed[e].future)
    /\ UNCHANGED <<bound, auto, draft, save, adrift, upload, made, uploads, losses, overlapped>>

Redo(e) ==
    LET future == ed[e].future IN
    /\ undos < bound.undos
    /\ undos' = undos + 1
    /\ ed[e].open
    /\ future # <<>>
    /\ Show(e, Head(future), Newest(Append(ed[e].past, ed[e].present)), Tail(future))
    /\ UNCHANGED <<bound, auto, draft, save, adrift, upload, made, uploads, losses, overlapped>>

\* closeProject; what the page still waits for will be answered.
Close(e) ==
    /\ ed[e].open
    /\ losses < bound.losses
    /\ losses' = losses + 1
    /\ ed' = [ed EXCEPT ![e] = Closed]
    /\ UNCHANGED <<bound, auto, draft, local, save, adrift, upload, made, removed, undos, uploads, overlapped>>

Unanswered(e) ==
    adrift' = adrift \cup {[rev |-> s.rev, content |-> s.content] :
                              s \in {save[e]} \cap [pc : {"sent"}, rev : {save[e].rev},
                                                    content : {save[e].content}]}

\* The page is reloaded or crashes; the server may still get its request.
Crash(e) ==
    /\ ed[e].open
    /\ upload[e].pc = "idle"
    /\ losses < bound.losses
    /\ losses' = losses + 1
    /\ ed' = [ed EXCEPT ![e] = Closed]
    /\ auto' = [auto EXCEPT ![e] = TRUE]
    /\ save' = [save EXCEPT ![e] = NoCall]
    /\ Unanswered(e)
    /\ UNCHANGED <<bound, draft, local, upload, made, removed, undos, uploads, overlapped>>

-----------------------------------------------------------------------------
(* saveDraft and PUT /api/draft.                                           *)

\* A call writes its content, one revision after the one it read.
Write(rev, content) == draft' = [draft EXCEPT !.rev = rev + 1, !.content = content]

\* Mutant: every save is applied.
AcceptsAny(rev) == draft.there

\* findOneAndUpdate with the revision in its filter.
Accepts(rev) == draft.there /\ draft.rev = rev

\* saveDraft returns at once while a save is under way, and when the page
\* has blocking issues.
CanSend(e) == save[e].pc = "idle" /\ ~Blocked(ed[e].present)

SendDraft(e) ==
    save' = [save EXCEPT ![e] = [pc |-> "sent", rev |-> ed[e].rev, content |-> ed[e].present]]

\* The timer fires.  A save that is not sent is given up without a word, and
\* nothing starts the timer again before an edit.
Autosave(e) ==
    /\ ed[e].open
    /\ auto[e]
    /\ ed[e].armed
    /\ ed' = [ed EXCEPT ![e].armed = FALSE]
    /\ IF CanSend(e) THEN SendDraft(e) ELSE UNCHANGED save
    /\ UNCHANGED <<bound, auto, draft, local, adrift, upload, made, removed, undos, uploads, losses, overlapped>>

\* "Save" of the menu: the page is busy, which stops the timer.
SaveNow(e) ==
    /\ bound.byHand
    /\ ed[e].open
    /\ ed[e].dirty
    /\ CanSend(e)
    /\ ed' = [ed EXCEPT ![e].armed = FALSE]
    /\ SendDraft(e)
    /\ UNCHANGED <<bound, auto, draft, local, adrift, upload, made, removed, undos, uploads, losses, overlapped>>

\* A page that was busy (a save by hand, a publish, a restored version) and
\* is not any more starts the timer again.
Rearm(e) ==
    /\ bound.byHand
    /\ ed[e].dirty
    /\ ed' = [ed EXCEPT ![e].armed = TRUE]
    /\ UNCHANGED <<bound, auto, draft, local, save, adrift, upload, made, removed, undos, uploads, losses, overlapped>>

\* The switch of the menu.  The timer fires only while it is on, and starts
\* anew when it is switched on again.
Toggle(e) ==
    /\ bound.byHand
    /\ ed[e].open
    /\ auto' = [auto EXCEPT ![e] = ~@]
    /\ ed' = [ed EXCEPT ![e].armed = ed[e].dirty]
    /\ UNCHANGED <<bound, draft, local, save, adrift, upload, made, removed, undos, uploads, losses, overlapped>>

Put(call) == Write(call.rev, call.content)

SaveHandled(e) ==
    /\ save[e].pc = "sent"
    /\ IF Accepts(save[e].rev)
       THEN /\ Put(save[e])
            /\ save' = [save EXCEPT ![e] = [pc |-> "saved", rev |-> save[e].rev + 1,
                                            content |-> save[e].content]]
       ELSE UNCHANGED draft /\ save' = [save EXCEPT ![e].pc = "refused"]
    /\ UNCHANGED <<bound, auto, ed, local, adrift, upload, made, removed, undos, uploads, losses, overlapped>>

AdriftHandled(call) ==
    /\ adrift' = adrift \ {call}
    /\ IF Accepts(call.rev) THEN Put(call) ELSE UNCHANGED draft
    /\ UNCHANGED <<bound, auto, ed, local, save, upload, made, removed, undos, uploads, losses, overlapped>>

\* The request or its response is lost, or the server fails.
SaveLost(e) ==
    /\ save[e].pc \in {"sent", "saved"}
    /\ losses < bound.losses
    /\ losses' = losses + 1
    /\ save' = [save EXCEPT ![e].pc = "refused"]
    /\ Unanswered(e)
    /\ UNCHANGED <<bound, auto, draft, ed, local, upload, made, removed, undos, uploads, overlapped>>

\* The page at the revision an answer names; if dirty, its timer starts anew.
Answered(page, rev, dirty) == [page EXCEPT !.rev = rev, !.dirty = dirty, !.armed = dirty]

\* Mutant: the page is clean after any successful save.
SaveReturnsClean(e) ==
    LET page == Answered(ed[e], save[e].rev, FALSE) IN
    /\ save[e].pc = "saved"
    /\ save' = [save EXCEPT ![e] = NoCall]
    /\ ed' = [ed EXCEPT ![e] = page]
    /\ local' = [local EXCEPT ![e] = None]
    /\ UNCHANGED <<bound, auto, draft, adrift, upload, made, removed, undos, uploads, losses, overlapped>>

\* The page is clean if it still shows what was saved; otherwise the new
\* revision starts the timer anew.  The answer is taken by whatever page is
\* open by now.
SaveReturns(e) ==
    LET same == ed[e].present = save[e].content
        page == Answered(ed[e], save[e].rev, ed[e].dirty /\ ~same)
    IN
    /\ save[e].pc = "saved"
    /\ save' = [save EXCEPT ![e] = NoCall]
    /\ IF ed[e].open
       THEN /\ ed' = [ed EXCEPT ![e] = page]
            /\ IF same THEN local' = [local EXCEPT ![e] = None] ELSE Recovery(e, page)
       ELSE UNCHANGED <<ed, local>>
    /\ UNCHANGED <<bound, auto, draft, adrift, upload, made, removed, undos, uploads, losses, overlapped>>

\* The notice of the error; nothing starts the timer again before an edit.
SaveRefused(e) ==
    /\ save[e].pc = "refused"
    /\ save' = [save EXCEPT ![e] = NoCall]
    /\ ed' = [ed EXCEPT ![e].told = @ \/ ed[e].open]
    /\ UNCHANGED <<bound, auto, draft, local, adrift, upload, made, removed, undos, uploads, losses, overlapped>>

-----------------------------------------------------------------------------
(* SvgUploader and POST /api/svg; rename.                                  *)

\* The page has saved its draft first.
UploadSent(e) ==
    /\ ed[e].open
    /\ ~ed[e].dirty
    /\ save[e].pc = "idle"
    /\ upload[e].pc = "idle"
    /\ uploads < bound.uploads
    /\ uploads' = uploads + 1
    /\ upload' = [upload EXCEPT ![e].pc = "sent"]
    /\ UNCHANGED <<bound, auto, draft, ed, local, save, adrift, made, removed, undos, losses, overlapped>>

\* ProjectDraft.findById
UploadRead(e) ==
    /\ upload[e].pc = "sent"
    /\ upload' = [upload EXCEPT ![e] =
           IF draft.there THEN [pc |-> "read", rev |-> draft.rev, content |-> draft.content]
                          ELSE [upload[e] EXCEPT !.pc = "failed"]]
    /\ UNCHANGED <<bound, auto, draft, ed, local, save, adrift, made, removed, undos, uploads, losses, overlapped>>

\* draft.save() writes the schema and the revision it has in memory, whatever
\* the document's revision is by now.
UploadSaved(e) ==
    LET content == upload[e].content \cup {made + 1} IN
    /\ upload[e].pc = "read"
    /\ made < bound.changes
    /\ made + 1 \notin bound.faulty
    /\ made' = made + 1
    /\ IF draft.there
       THEN /\ Write(upload[e].rev, content)
            /\ upload' = [upload EXCEPT ![e] = [pc |-> "saved", rev |-> upload[e].rev + 1,
                                                content |-> {made + 1}]]
       ELSE UNCHANGED draft /\ upload' = [upload EXCEPT ![e].pc = "failed"]
    /\ overlapped' = (overlapped \/ draft.rev # upload[e].rev)
    /\ UNCHANGED <<bound, auto, ed, local, save, adrift, removed, undos, uploads, losses>>

\* onUploaded: the page takes the new revision, shows the new image without
\* an undo step, and counts as saved.
UploadReturns(e) ==
    /\ upload[e].pc \in {"saved", "failed"}
    /\ upload' = [upload EXCEPT ![e] = NoCall]
    /\ IF upload[e].pc = "saved" /\ ed[e].open
       THEN /\ ed' = [ed EXCEPT ![e] =
                  Answered([ed[e] EXCEPT !.present = ed[e].present \cup upload[e].content],
                           upload[e].rev, FALSE)]
            /\ overlapped' = (overlapped \/ ed[e].dirty \/ save[e].pc # "idle"
                                 \/ ed[e].rev + 1 # upload[e].rev)
       ELSE /\ ed' = [ed EXCEPT ![e].told = @ \/ ed[e].open]
            /\ UNCHANGED overlapped
    /\ UNCHANGED <<bound, auto, draft, local, save, adrift, made, removed, undos, uploads, losses>>

\* action 'rename', one transaction.
Rename ==
    /\ draft.there
    /\ made < bound.changes
    /\ made + 1 \notin bound.faulty
    /\ made' = made + 1
    /\ Write(draft.rev, draft.content \cup {made + 1})
    /\ UNCHANGED <<bound, auto, ed, local, save, adrift, upload, removed, undos, uploads, losses, overlapped>>

-----------------------------------------------------------------------------
SaveStep(e) == SaveHandled(e) \/ SaveReturns(e) \/ SaveRefused(e)

UploadStep(e) == UploadRead(e) \/ UploadSaved(e) \/ UploadReturns(e)

DraftNext ==
    \/ \E e \in Editors :
        \/ Open(e) \/ Edit(e) \/ Undo(e) \/ Redo(e) \/ Close(e) \/ Crash(e)
        \/ Autosave(e) \/ SaveNow(e) \/ Rearm(e) \/ Toggle(e)
        \/ SaveStep(e) \/ SaveLost(e)
        \/ UploadSent(e) \/ UploadStep(e)
    \/ \E call \in adrift : AdriftHandled(call)
    \/ Rename

\* The user pauses long enough for the autosave timer to fire; requests are
\* answered, or lost.
DraftFairness ==
    \A e \in Editors :
        /\ WF_draftVars(Autosave(e))
        /\ WF_draftVars(SaveStep(e) \/ SaveLost(e))
        /\ WF_draftVars(UploadStep(e))

-----------------------------------------------------------------------------
(***************************************************************************)
(* Properties.                                                             *)
(***************************************************************************)

Call == [pc : {"idle", "sent", "read", "saved", "refused", "failed"}, rev : Nat, content : SUBSET Changes]

DraftTypeOK ==
    /\ bound \in Bounds
    /\ auto \in [Editors -> BOOLEAN]
    /\ draft \in [there : BOOLEAN, rev : Nat, content : SUBSET Changes]
    /\ ed \in [Editors -> [open : BOOLEAN, present : SUBSET Changes, past : Seq(SUBSET Changes),
                           future : Seq(SUBSET Changes), rev : Nat, dirty : BOOLEAN,
                           armed : BOOLEAN, told : BOOLEAN]]
    /\ local \in [Editors -> {None} \cup [content : SUBSET Changes, rev : Nat]]
    /\ save \in [Editors -> Call]
    /\ adrift \subseteq [content : SUBSET Changes, rev : Nat]
    /\ upload \in [Editors -> Call]
    /\ made \in 0..bound.changes
    /\ removed \subseteq Changes
    /\ undos \in 0..bound.undos
    /\ uploads \in 0..bound.uploads
    /\ losses \in 0..bound.losses
    /\ overlapped \in BOOLEAN

\* No save undoes what another editor has saved: a change leaves the draft
\* only if somebody who saw it took it back ("optimistic revision checking",
\* README.md:22), whatever saves are late, lost, or answered to another page.
\* Left out are uploads that meet another change of the draft.
SavedChangesStay ==
    [][~overlapped' /\ draft'.there => draft.content \subseteq draft'.content \cup removed']_draftVars

\* The same with the uploads.
NoLostUpdate ==
    [][draft'.there => draft.content \subseteq draft'.content \cup removed']_draftVars

\* Every change in an open page is saved in time, unless it is taken back,
\* the page is closed, the autosave is switched off, the page has an issue
\* that blocks a save, or the user has been told that a save failed: a change
\* made during a save is not taken for saved with it, and what an issue or
\* the switch has held back is saved once it is put right, or switched on.
ChangesAreSaved ==
    \A e \in Editors, c \in Changes :
        ed[e].open /\ c \in ed[e].present ~>
            \/ c \in draft.content \cup removed
            \/ ~ed[e].open \/ ed[e].told
            \/ ~auto[e] \/ Blocked(ed[e].present)
            \/ ~draft.there \/ overlapped
=============================================================================
