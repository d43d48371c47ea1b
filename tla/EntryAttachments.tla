---------------------------- MODULE EntryAttachments ----------------------------
(***************************************************************************)
(* Attaching files while writing in the web editor: the server identity of  *)
(* an entry that is not saved yet (useEntryDraft.ts), the uploads           *)
(* (useMediaAttachments.ts, mediaUpload.ts), their placeholders in the text *)
(* (QuillSurface.tsx) and Done and Cancel (EntryEditorPage.tsx).            *)
(*                                                                          *)
(* One editing session, opened on a blank entry or on the Moment Opened.    *)
(* The server answers requests in any order or not at all; it keeps one row *)
(* of a content per Moment (external: media_service.py).                    *)
(***************************************************************************)
EXTENDS Naturals, FiniteSets

CONSTANTS Files,     \* attachments the writer chooses
          Contents,  \* contents they may have
          Content,   \* the content of each
          Before,    \* contents the Moment may have had before the edit
          MaxMoments,\* bound: Moments made by the session
          None       \* no Moment

Opened == 0
Made == 1..MaxMoments
Moments == {Opened} \union Made

ASSUME AttachAssumption ==
    /\ Content \in [Files -> Contents] /\ Before \subseteq Contents
    /\ MaxMoments \in Nat /\ None \notin Moments

VARIABLES
    moment,   \* the Moment the page was opened on, or None
    moments,  \* the server: the state of each Moment
    rows,     \* the server: media rows, as pairs of Moment and content
    page,     \* whether the editor is open, or how it was left
    draft,    \* useEntryDraft: createdRef, the ensure() in flight, discardRequested
    file,     \* each attachment: its upload and its mark in the text
    kept,     \* sessionMediaRef is not empty
    save,     \* the save request
    removed,  \* history: files the writer took out of the text, and those put back
    attached, \* history: rows whose media the session put into the text
    shared,   \* history: rows that answered more than one upload, or were there
    lost,     \* history: Moments whose making or cleanup was not answered
    missed    \* history: files whose placeholder or media the locked text did not take

vars == <<moment, moments, rows, page, draft, file, kept, save,
          removed, attached, shared, lost, missed>>
history == <<removed, attached, shared, lost, missed>>

Identities == Moments \union {None}
Uploading == {"queued", "uploading", "stored"}
Idle == [stage |-> "idle", target |-> None, mark |-> "none"]

TypeOK ==
    /\ moment \in {Opened, None}
    /\ moments \in [Moments -> {"unused", "draft", "saved", "kept", "deleted"}]
    /\ rows \subseteq Moments \X Contents
    /\ page \in {"open", "left", "cancelled", "saved"}
    /\ draft \in [made : Identities, ensure : {"none", "sent", "made"}, id : Identities,
                  discard : {"no", "keep", "drop"}]
    /\ file \in [Files -> [stage : {"idle", "ensuring", "placed", "failed", "unwanted", "done"}
                                   \union Uploading,
                           target : Identities, mark : {"none", "placeholder", "media"}]]
    /\ \A f \in Files : file[f].stage \in Uploading => file[f].target # None
    /\ kept \in BOOLEAN
    /\ save \in [stage : {"none", "sent", "applied", "adopted"}, target : Identities,
                 text : SUBSET Files, late : SUBSET Files, beside : BOOLEAN]
    /\ removed \in [Files -> {"no", "out", "back"}]
    /\ attached \subseteq Moments \X Contents /\ shared \subseteq Moments \X Contents
    /\ lost \subseteq Moments /\ missed \subseteq Files

Init ==
    /\ moment \in {Opened, None}
    /\ moments = [m \in Moments |-> IF m = Opened /\ moment = Opened
                                    THEN "saved" ELSE "unused"]
    /\ rows \in IF moment = Opened THEN SUBSET ({Opened} \X Before) ELSE {{}}
    /\ page = "open"
    /\ draft = [made |-> None, ensure |-> "none", id |-> None, discard |-> "no"]
    /\ file = [f \in Files |-> Idle]
    /\ kept = FALSE
    /\ save = [stage |-> "none", target |-> None, text |-> {}, late |-> {}, beside |-> FALSE]
    /\ removed = [f \in Files |-> "no"]
    /\ attached = {} /\ shared = {} /\ lost = {} /\ missed = {}

-----------------------------------------------------------------------------
Alive(m) == m # None /\ moments[m] \in {"draft", "saved", "kept"}

\* The Moment that owns the session: the one opened, or the draft made for it.
Identity == IF moment # None THEN moment ELSE draft.made

\* The Moment made next.
Fresh == CHOOSE m \in Made : moments[m] = "unused"
HasFresh == \E m \in Made : moments[m] = "unused"

Row(f) == <<file[f].target, Content[f]>>

\* The text takes changes: while a save is pending Quill is disabled, and then it
\* drops every change of a caller, insertPlaceholder's and the others' as well.
Writing == page = "open" /\ save.stage = "none"

\* Attachments whose upload holds back Done (pending).
Pending == {f \in Files : file[f].stage \in Uploading}

\* cancel() and the unmount abort an upload that has a handle; one that waits
\* for its turn has none and runs.
Aborted(stage) == IF stage \in {"uploading", "stored"} THEN "done" ELSE stage

\* Teardown of the form: the uploads are aborted, the text is gone.
TornDown == [f \in Files |-> [file[f] EXCEPT !.stage = Aborted(@), !.mark = "none"]]

-----------------------------------------------------------------------------
(* useEntryDraft.ts.                                                        *)

\* Mutant: every caller of ensure() creates a Moment of its own.
StartsEnsure_Always == TRUE

\* ensure() creates a Moment unless one is being created.
StartsEnsure == draft.ensure = "none"

Ensuring == IF StartsEnsure THEN [draft EXCEPT !.ensure = "sent", !.id = None] ELSE draft

EnsureReaches ==
    /\ draft.ensure = "sent" /\ HasFresh
    /\ moments' = [moments EXCEPT ![Fresh] = "draft"]
    /\ draft' = [draft EXCEPT !.ensure = "made", !.id = Fresh]
    /\ UNCHANGED <<moment, rows, page, file, kept, save, history>>

\* The upload of f to Moment m is queued.  A file that is new gets a placeholder,
\* if the text takes it; one that is tried again keeps its own.
Begun(f, m) ==
    [stage |-> "queued", target |-> m,
     mark |-> IF Writing /\ file[f].target = None THEN "placeholder" ELSE file[f].mark]

\* A placeholder the locked text does not take.
Misses(fs) ==
    missed' = missed \union
        {f \in fs : file[f].target = None /\ page = "open" /\ ~Writing}

Waiting == {f \in Files : file[f].stage = "ensuring"}

\* Files that waited for identity m.
Resumed(m) == [f \in Files |-> IF f \in Waiting THEN Begun(f, m) ELSE file[f]]

\* Mutant: the whole Moment goes, with the media attached to it.
CleanedUp_Whole(m, keep) ==
    [moments EXCEPT ![m] = IF @ \notin {"draft", "saved"} THEN @ ELSE "deleted"]

\* cleanup(): with attached media only the draft entry goes.
CleanedUp(m, keep) ==
    [moments EXCEPT ![m] = IF @ \notin {"draft", "saved"} THEN @
                           ELSE IF keep THEN "kept" ELSE "deleted"]

\* The cleanup runs, or fails and leaves the draft to the recovery.
CleansUp(m, keep) ==
    \/ moments' = CleanedUp(m, keep) /\ UNCHANGED lost
    \/ lost' = lost \union {m} /\ UNCHANGED moments

EnsureAnswered ==
    /\ draft.ensure = "made"
    /\ IF draft.discard = "no"
       THEN /\ draft' = [draft EXCEPT !.made = draft.id, !.ensure = "none", !.id = None]
            /\ UNCHANGED <<moments, lost>>
       ELSE /\ draft' = [draft EXCEPT !.made = None, !.ensure = "none", !.id = None,
                                      !.discard = "no"]
            /\ CleansUp(draft.id, draft.discard = "keep")
    /\ rows' = {r \in rows : moments'[r[1]] # "deleted"}
    /\ file' = Resumed(draft.id)
    /\ Misses(Waiting)
    /\ UNCHANGED <<moment, page, kept, save, removed, attached, shared>>

\* No Moment, or no answer: an attach reports that it could not add the files, a
\* retry leaves its file failed.
EnsureFails ==
    /\ draft.ensure # "none"
    /\ draft' = [draft EXCEPT !.ensure = "none", !.id = None]
    /\ file' = [f \in Files |-> IF f \notin Waiting THEN file[f]
                                ELSE IF file[f].target = None THEN Idle
                                ELSE [file[f] EXCEPT !.stage = "failed"]]
    /\ lost' = lost \union ({draft.id} \ {None})
    /\ UNCHANGED <<moment, moments, rows, page, kept, save, removed, attached, shared, missed>>

-----------------------------------------------------------------------------
(* useMediaAttachments.ts.                                                  *)

\* Mutant: an attachment does not wait for a Moment to be made.
NeedsMoment_Never == FALSE

NeedsMoment == Identity = None

\* A save that is pending does not hold back what begins now, and does not know it.
BesideSave(fs, asks) ==
    save' = IF save.stage = "none" THEN save
            ELSE [save EXCEPT !.late = @ \union fs, !.beside = @ \/ asks]

\* attach() and retry() after ensureDraft(): the upload, or the wait for a Moment.
Begins(f) ==
    /\ page = "open"
    /\ IF NeedsMoment
       THEN /\ file' = [file EXCEPT ![f].stage = "ensuring"]
            /\ draft' = Ensuring
            /\ UNCHANGED missed
       ELSE /\ file' = [file EXCEPT ![f] = Begun(f, Identity)]
            /\ Misses({f})
            /\ UNCHANGED draft
    /\ BesideSave({f}, NeedsMoment)
    /\ UNCHANGED <<moment, moments, rows, page, kept, removed, attached, shared, lost>>

\* Files are picked, dropped or pasted: at any time, drop and paste have listeners
\* of their own.
Attach(f) == file[f].stage = "idle" /\ Begins(f)

\* The Retry of a failed upload, enabled during a save as well.
Retry(f) == file[f].stage = "failed" /\ Begins(f)

\* ensureMomentId(): the details of an entry need a Moment, too; only the button
\* that opens them is disabled during a save.
EnsureMomentId ==
    /\ page = "open" /\ NeedsMoment
    /\ draft' = Ensuring
    /\ BesideSave({}, TRUE)
    /\ UNCHANGED <<moment, moments, rows, page, file, kept, history>>

\* Its batch, which uploads two at a time, has come to it.
Start(f) ==
    /\ file[f].stage = "queued"
    /\ file' = [file EXCEPT ![f].stage = "uploading"]
    /\ UNCHANGED <<moment, moments, rows, page, draft, kept, save, history>>

\* The server stores the upload, or finds that the Moment has this content.
UploadReaches(f) ==
    /\ file[f].stage = "uploading" /\ Alive(file[f].target)
    /\ rows' = rows \union {Row(f)}
    /\ shared' = IF Row(f) \in rows THEN shared \union {Row(f)} ELSE shared
    /\ file' = [file EXCEPT ![f].stage = "stored"]
    /\ UNCHANGED <<moment, moments, page, draft, kept, save, removed, attached, lost, missed>>

\* Mutant: the media goes where the placeholder was, whether it is there or not.
Replaced_Always(f) == page = "open"

\* replacePlaceholder() finds the placeholder, and says that it replaced it.
Replaced(f) == page = "open" /\ file[f].mark = "placeholder"

\* The answer: swapped in -- but a locked text stays what it is --, or deleted
\* again because nobody wants it any more.
UploadAnswered(f) ==
    /\ file[f].stage = "stored"
    /\ IF Replaced(f)
       THEN /\ file' = [file EXCEPT ![f].stage = "placed",
                                     ![f].mark = IF Writing THEN "media" ELSE @]
            /\ kept' = TRUE
            /\ attached' = IF Writing THEN attached \union {Row(f)} ELSE attached
            /\ missed' = IF Writing THEN missed ELSE missed \union {f}
       ELSE /\ file' = [file EXCEPT ![f].stage = "unwanted"]
            /\ UNCHANGED <<kept, attached, missed>>
    /\ UNCHANGED <<moment, moments, rows, page, draft, save, removed, shared, lost>>

\* A refusal (the Moment is gone), the 60 seconds, or a connection that breaks.
UploadFails(f) ==
    /\ file[f].stage \in {"uploading", "stored"}
    /\ file' = [file EXCEPT ![f].stage = "failed"]
    /\ UNCHANGED <<moment, moments, rows, page, draft, kept, save, history>>

\* api.deleteMedia of the row the upload was answered with; its failure is ignored.
DeleteReaches(f) ==
    /\ file[f].stage = "unwanted"
    /\ file' = [file EXCEPT ![f].stage = "done"]
    /\ rows' = rows \ {Row(f)} \/ UNCHANGED rows
    /\ UNCHANGED <<moment, moments, page, draft, kept, save, history>>

\* The text of f changes by the hand of the writer.
Rewritten(f, mark, how) ==
    /\ file' = [file EXCEPT ![f].mark = mark]
    /\ removed' = [removed EXCEPT ![f] = how]
    /\ UNCHANGED <<moment, moments, rows, page, draft, kept, save, attached, shared, lost, missed>>

\* The Remove of a failed upload; a locked text keeps the placeholder.
CancelUpload(f) ==
    /\ page = "open" /\ file[f].stage = "failed"
    /\ file' = [file EXCEPT ![f].stage = "done", ![f].mark = IF Writing THEN "none" ELSE @]
    /\ removed' = [removed EXCEPT ![f] = "out"]
    /\ UNCHANGED <<moment, moments, rows, page, draft, kept, save, attached, shared, lost, missed>>

\* The writer deletes a placeholder or the media itself, ...
TakeOut(f) == Writing /\ file[f].mark # "none" /\ Rewritten(f, "none", "out")

\* ... undoes the swap, which is one step of the history, ...
UndoSwap(f) == Writing /\ file[f].mark = "media" /\ Rewritten(f, "placeholder", "out")

\* ... or undoes one or more of these: the text has again what it had.
Undo(f) ==
    /\ Writing /\ removed[f] = "out"
    /\ f \in missed => file[f].stage = "placed"
    /\ \/ Rewritten(f, "placeholder", "back")
       \/ file[f].stage = "placed" /\ f \notin missed /\ Rewritten(f, "media", "back")

-----------------------------------------------------------------------------
(* EntryEditorPage.tsx.                                                     *)

\* Mutant: Done does not wait for the uploads.
MaySave_AnyTime == TRUE

MaySave == Pending = {}

\* Done: through the Moment of the session, or with a new one.
Save ==
    /\ page = "open" /\ save.stage = "none" /\ MaySave
    /\ save' = [stage |-> "sent", target |-> Identity,
                text |-> {f \in Files : file[f].mark = "media"},
                late |-> Waiting, beside |-> draft.ensure # "none"]
    /\ UNCHANGED <<moment, moments, rows, page, draft, file, kept, history>>

SaveReaches ==
    /\ save.stage = "sent"
    /\ \/ /\ save.target = None /\ HasFresh
          /\ moments' = [moments EXCEPT ![Fresh] = "saved"]
          /\ save' = [save EXCEPT !.stage = "applied", !.target = Fresh]
       \/ /\ Alive(save.target)
          /\ moments' = [moments EXCEPT ![save.target] = "saved"]
          /\ save' = [save EXCEPT !.stage = "applied"]
    /\ UNCHANGED <<moment, rows, page, draft, file, kept, history>>

\* onSuccess: adopt() forgets the draft; the mutation goes on with the caches, ...
SaveSucceeds ==
    /\ save.stage = "applied"
    /\ save' = [save EXCEPT !.stage = "adopted"]
    /\ draft' = [draft EXCEPT !.made = None]
    /\ kept' = FALSE
    /\ UNCHANGED <<moment, moments, rows, page, file, history>>

\* ... and ends with the way to the reader.
GoToReader ==
    /\ save.stage = "adopted"
    /\ save' = [save EXCEPT !.stage = "none"]
    /\ page' = "saved"
    /\ file' = TornDown
    /\ UNCHANGED <<moment, moments, rows, draft, kept, history>>

SaveFails ==
    /\ save.stage \in {"sent", "applied"}
    /\ save' = [save EXCEPT !.stage = "none"]
    /\ UNCHANGED <<moment, moments, rows, page, draft, file, kept, history>>

\* Mutant: Cancel stays enabled while a save is under way.
MayCancel_AnyTime == page = "open"

MayCancel == page = "open" /\ save.stage = "none"

Cancel ==
    /\ MayCancel
    /\ page' = "cancelled"
    /\ file' = TornDown
    /\ IF moment # None \/ (draft.made = None /\ draft.ensure = "none")
       THEN UNCHANGED <<draft, moments, lost>>
       ELSE IF draft.made = None
            THEN /\ draft' = [draft EXCEPT !.discard = IF kept THEN "keep" ELSE "drop"]
                 /\ UNCHANGED <<moments, lost>>
            ELSE /\ draft' = [draft EXCEPT !.made = None]
                 /\ CleansUp(draft.made, kept)
    /\ rows' = {r \in rows : moments'[r[1]] # "deleted"}
    /\ UNCHANGED <<moment, kept, save, removed, attached, shared, missed>>

\* Any other way off the page; a draft Moment stays for the recovery.
Leave ==
    /\ page = "open"
    /\ page' = "left"
    /\ file' = TornDown
    /\ UNCHANGED <<moment, moments, rows, draft, kept, save, history>>

-----------------------------------------------------------------------------
FileStep(f) ==
    \/ Attach(f) \/ Start(f) \/ UploadReaches(f) \/ UploadAnswered(f) \/ UploadFails(f)
    \/ DeleteReaches(f) \/ Retry(f) \/ CancelUpload(f) \/ TakeOut(f) \/ UndoSwap(f) \/ Undo(f)

Next ==
    \/ \E f \in Files : FileStep(f)
    \/ EnsureMomentId \/ EnsureReaches \/ EnsureAnswered \/ EnsureFails
    \/ Save \/ SaveReaches \/ SaveSucceeds \/ GoToReader \/ SaveFails \/ Cancel \/ Leave

Spec == Init /\ [][Next]_vars

-----------------------------------------------------------------------------
(* Properties.                                                              *)

\* Media the session put into the text stays stored, whatever becomes of the
\* session, its other uploads and their deletions -- unless its row also answered
\* another upload, which may delete it (the race check of runUpload).
AttachedIsStored == attached \subseteq rows \union shared

\* What the writer took out of the text is never put back by an upload that
\* ends later (replacePlaceholder and the race check, lines 150-168).
RemovedIsNotReinserted == \A f \in Files : removed[f] = "out" => file[f].mark # "media"

\* A draft Moment belongs to the session that made it, which saves it or, on
\* Cancel, cleans it up: files chosen at once share one (ensure is single-flight).
\* Left behind are those whose request went unanswered and, after a save that was
\* reported, those ensure() was making beside it: adopt() forgets what the save
\* did not know.
NoStrayDraft ==
    \A m \in Made : moments[m] = "draft" =>
        \/ m \in lost \/ m = draft.id
        \/ m = draft.made /\ page \in {"open", "left"}
        \/ save.beside /\ (save.stage = "adopted" \/ page = "saved")

\* A save that the page reported is not undone by the cleanup of its draft
\* (adopt), also when Cancel was pressed in between.
SavedStays == page = "saved" => Alive(save.target)

\* Every file chosen before a save that succeeded is in the text it saved, was
\* taken out of it or is shown as failed.  The exceptions are what a save does not
\* wait for and does not say: files that waited for their Moment when it began
\* (pending counts only uploads), those chosen or tried again while it was under
\* way, and those whose placeholder or media came into the locked text of a save.
NothingLeftOut ==
    page = "saved" => \A f \in Files :
        file[f].stage \in {"idle", "failed"} \/ removed[f] # "no"
            \/ f \in save.text \union save.late \union missed
=============================================================================
