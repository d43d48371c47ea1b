------------------------------ MODULE EditorDraft ------------------------------
(***************************************************************************)
(* Unsaved writing in the web editor of one existing entry: the recovery    *)
(* gate (useDraftRecovery.ts), the local copy (useLocalDraft.ts and         *)
(* draftRepository.ts), the conversions of draftCanonical.ts and the saves  *)
(* of EntryEditorPage.tsx.                                                  *)
(*                                                                          *)
(* The n-th element of Editors is the n-th time the form is put up in a     *)
(* tab; what an earlier one left behind (a save without an answer, queued   *)
(* IndexedDB operations) goes on under the next one.  Title, journal and    *)
(* text of a document are its words; of its embeds only what decides        *)
(* whether it can be kept is modelled.                                      *)
(*                                                                          *)
(* React detaches the handle of QuillSurface before the effects of the form *)
(* are torn down: the write at their end finds no document, so a form that  *)
(* goes away writes nothing.                                                *)
(***************************************************************************)
EXTENDS Naturals, Sequences, SequencesExt

CONSTANTS MaxEditors, \* bound: times the page is opened
          MaxWords,   \* bound: documents written, here or on another device
          MaxOps,     \* bound: queued IndexedDB operations when a write joins them
          Beginnings, \* embeds the entry may hold at first
          Changes,    \* bound: embeds an edit of the text may leave other than its own
          None,       \* absence of a record or of a query result
          Unread      \* a local record that has not been read

VARIABLES
    server,  \* the entry: its version (updated_at) and its document
    words,   \* the last words anybody wrote
    query,   \* the entry query of the tab, None before it is loaded
    record,  \* IndexedDB: the draft stored under the key of the entry
    ops,     \* queued IndexedDB operations of the tab
    page,    \* each opening of the page
    save,    \* the save request of each opening
    taken,   \* history: the record was erased although nobody decided that
    failed,  \* history: an operation on the record failed or was lost since the last put
    held     \* history: the words the server has held

vars == <<server, words, query, record, ops, page, save, taken, failed, held>>

Editors == 1..MaxEditors

\* "photo" resolves to a media id; "legacy" is media without one; "foreign" is
\* content this editor does not open.
Embeds == {"none", "photo", "legacy", "foreign"}

ASSUME EditorAssumption == MaxEditors \in Nat /\ MaxWords \in Nat /\ MaxOps \in Nat
                           /\ Beginnings \union Changes \subseteq Embeds \ {"foreign"}

Docs == [words : 0..MaxWords, embed : Embeds]
Versions == 0..MaxWords
\* by: the opening that wrote it; on: history, the version its words build on.
Records == [doc : Docs, base : Versions, by : Editors, on : Versions]

\* null and undefined are no records.
ASSUME AbsenceAssumption ==
    /\ None # Unread
    /\ None \notin Records /\ Unread \notin Records
    /\ None \notin [ver : Versions, doc : Docs]

\* again: put up again after a failed refetch; body: bodyDirty, the only part of dirty
\* that an edit does not take back; first: the words it opened on, until then; typed:
\* history, it was edited.
Closed == [phase |-> "away", answer |-> Unread, media |-> "pending", choice |-> "none",
           doc |-> [words |-> 0, embed |-> "none"], on |-> 0, first |-> 0,
           body |-> FALSE, dirty |-> FALSE, timer |-> FALSE, retired |-> FALSE, status |-> "idle",
           conflict |-> FALSE, again |-> FALSE, typed |-> FALSE]
NoSave == [stage |-> "none", doc |-> Closed.doc, expect |-> 0, on |-> 0, overwrite |-> FALSE]

TypeOK ==
    /\ server \in [ver : Versions, doc : Docs]
    /\ words \in 0..MaxWords
    /\ query = None \/ query \in [ver : Versions, doc : Docs]
    /\ record = None \/ record \in Records
    /\ \A i \in DOMAIN ops : /\ ops[i].op \in {"read", "put", "delete"}
                             /\ ops[i].op = "put" => ops[i].record \in Records
    /\ \A e \in Editors :
        /\ page[e].phase \in {"away", "gate", "open", "refused", "left", "crashed"}
        /\ page[e].answer \in {Unread, None} \/ page[e].answer \in Records
        /\ page[e].media \in {"pending", "with", "without", "error"}
        /\ page[e].choice \in {"none", "server", "draft"}
        /\ page[e].doc \in Docs /\ page[e].on \in Versions /\ page[e].first \in 0..MaxWords
        /\ page[e].status \in {"idle", "saving", "saved", "failed", "unsupported"}
        /\ save[e].stage \in {"none", "sent", "applied", "refused", "closing"}
    /\ taken \in BOOLEAN /\ failed \in BOOLEAN /\ held \subseteq 0..MaxWords

Init ==
    /\ \E embed \in Beginnings :
          server = [ver |-> 0, doc |-> [words |-> 0, embed |-> embed]]
    /\ words = 0 /\ query = None /\ record = None /\ ops = <<>>
    /\ page = [e \in Editors |-> Closed]
    /\ save = [e \in Editors |-> NoSave]
    /\ taken = FALSE /\ failed = FALSE /\ held = {0}

-----------------------------------------------------------------------------
(* draftCanonical.ts.                                                       *)

\* canonicalizeDeltaForDraft counts media without a durable id as unsupported ...
Storable(d) == d.embed # "legacy"

\* ... and leaves it out of what is compared.
Canonical(d) == IF Storable(d) THEN d ELSE [d EXCEPT !.embed = "none"]

\* rehydrateDraftDelta: media the Moment no longer has is dropped.
Rehydrated(d, media) ==
    IF d.embed = "photo" /\ media = "without" THEN [d EXCEPT !.embed = "none"] ELSE d

-----------------------------------------------------------------------------
(* useDraftRecovery.ts: what the page knows of a draft, and its rendering.  *)

Editable(d) == d.embed # "foreign"
Enabled(q) == q = None \/ Editable(q.doc)
Recovered(p) == Rehydrated(p.answer.doc, p.media)

\* Identical to what the server holds, with no attachment lost.
SameAsServer(p, q) ==
    /\ q # None
    /\ Canonical(Recovered(p)) = Canonical(q.doc)
    /\ Recovered(p) = p.answer.doc

\* Mutant: a record that has not been read yet counts as none.
RecoveryPhase_Untagged(p, q) ==
    IF ~Enabled(q) \/ p.answer \in {Unread, None} THEN "clear"
    ELSE IF SameAsServer(p, q) THEN "clear" ELSE "offer"

RecoveryPhase(p, q) ==
    IF ~Enabled(q) THEN "clear"
    ELSE IF p.answer = Unread THEN "checking"
    ELSE IF p.answer = None THEN "clear"
    ELSE IF p.answer.doc.embed = "photo" /\ p.media = "pending" THEN "resolving"
    ELSE IF p.answer.doc.embed = "photo" /\ p.media = "error" THEN "unreachable"
    ELSE IF SameAsServer(p, q) THEN "clear" ELSE "offer"

\* The form opens once the entry is loaded and every question about a draft is
\* settled, or without asking if it was open before (opened.current); QuillSurface
\* takes its document then, once.
Opened(p, q) ==
    IF p.choice = "draft" /\ RecoveryPhase(p, q) = "offer"
    THEN [p EXCEPT !.phase = "open", !.body = TRUE, !.dirty = TRUE, !.doc = Recovered(p),
                   !.on = IF p.answer.base # q.ver THEN q.ver ELSE p.answer.on]
    ELSE [p EXCEPT !.phase = "open", !.doc = q.doc, !.first = q.doc.words, !.on = q.ver]

\* The effect that deletes a record which will not be offered.
Obsolete(p, q) == p.answer \notin {Unread, None} /\ RecoveryPhase(p, q) = "clear"

\* An entry this editor does not open takes the place of gate and form.
Refusing(p, q) == q # None /\ ~Editable(q.doc) /\ p.phase \in {"gate", "open"}

Rendered(p, q) ==
    LET r == IF Refusing(p, q) THEN [p EXCEPT !.phase = "refused"]
             ELSE IF /\ p.phase = "gate" /\ q # None
                     /\ p.again \/ p.choice # "none" \/ RecoveryPhase(p, q) = "clear"
                  THEN Opened(p, q) ELSE p
    IN  IF Obsolete(p, q) THEN [r EXCEPT !.answer = None] ELSE r

-----------------------------------------------------------------------------
(* useLocalDraft.ts.                                                        *)

Read(e) == [op |-> "read", by |-> e]
\* A deletion settles the fate of what the openings up to upto wrote.
Delete(e, upto) == [op |-> "delete", by |-> e, upto |-> upto]

\* Mutant: the latch of remove() is not looked at.
Writes_Unlatched(p) == p.phase = "open" /\ p.dirty

\* write() has something to do.
Writes(p) == p.phase = "open" /\ p.dirty /\ ~p.retired

\* Mutant: the version the draft builds on is not recorded.
PutOps_NoBase(e, p, q) ==
    IF Writes(p) /\ Storable(p.doc)
    THEN <<[op |-> "put", by |-> e, record |-> [doc |-> p.doc, base |-> None,
                                                by |-> e, on |-> p.on]]>>
    ELSE <<>>

\* The put of write(), if the document can be stored.
PutOps(e, p, q) ==
    IF Writes(p) /\ Storable(p.doc)
    THEN <<[op |-> "put", by |-> e, record |-> [doc |-> p.doc, base |-> q.ver,
                                                by |-> e, on |-> p.on]]>>
    ELSE <<>>

Written(p) ==
    IF ~Writes(p) THEN p
    ELSE [p EXCEPT !.status = IF Storable(p.doc) THEN "saving" ELSE "unsupported"]

\* What is left of a form that is gone: whether its draft was removed.
Gone(p) == [Closed EXCEPT !.phase = "left", !.retired = p.retired]

\* Until the next one, also, as history, the words typed in it that nobody has removed,
\* neither by undoing the edit, and whether the debounce still held them.
Left(p) ==
    IF p.typed /\ p.dirty /\ ~p.retired
    THEN [Gone(p) EXCEPT !.doc = p.doc, !.typed = TRUE, !.timer = p.timer] ELSE Gone(p)

\* remove(): no write until the next edit.
Removed(p) == [p EXCEPT !.timer = FALSE, !.retired = TRUE]

\* The operation a rendering issues: the effect on an obsolete record.
RenderOps(e, p, q) ==
    IF Obsolete(p, q)
    THEN <<Delete(e, IF p.answer.doc = q.doc THEN p.answer.by ELSE 0)>> ELSE <<>>

\* Opening e is given the state p and rendered with the query q.
Render(e, p, q) ==
    /\ page' = [page EXCEPT ![e] = Rendered(p, q)]
    /\ ops' = ops \o RenderOps(e, p, q)

-----------------------------------------------------------------------------
(* The gate.                                                                *)

Mounted(e) == page[e].phase \in {"gate", "open"}

Open(e) ==
    /\ page[e].phase = "away"
    /\ \A f \in 1..(e - 1) : page[f].phase \in {"left", "crashed"}
    /\ LET p == Rendered([Closed EXCEPT !.phase = "gate"], query)
       IN  page' = [f \in Editors |-> IF f = e THEN p
                                       ELSE IF page[f].phase = "left" THEN Gone(page[f])
                                       ELSE page[f]]
    /\ ops' = IF Enabled(query) THEN Append(ops, Read(e)) ELSE ops
    /\ UNCHANGED <<server, words, query, record, save, taken, failed, held>>

\* The entry query is answered: its first load, or a refetch on focus, on a
\* reconnect or after an invalidation.
Refetch(e) ==
    /\ Mounted(e)
    /\ query' = server
    /\ Render(e, page[e], server)
    /\ UNCHANGED <<server, words, record, save, taken, failed, held>>

\* A refetch fails (entry.isError) and a later one does not: EditorLoadError took
\* the place of the form, which is put up again past the gate.  Nothing of the page
\* acts in between, so this is one step.
Reopen(e) ==
    /\ page[e].phase = "away" /\ e > 1 /\ page[e - 1].phase = "open"
    /\ LET p == [Closed EXCEPT !.phase = "gate", !.again = TRUE,
                    !.answer = page[e - 1].answer, !.media = page[e - 1].media,
                    !.choice = page[e - 1].choice]
       IN  /\ page' = [page EXCEPT ![e - 1] = Gone(@), ![e] = Rendered(p, server)]
           /\ ops' = ops \o RenderOps(e, p, server)
    /\ query' = server
    /\ UNCHANGED <<server, words, record, save, taken, failed, held>>

MediaAnswers(e) ==
    /\ page[e].phase = "gate"
    /\ \/ /\ RecoveryPhase(page[e], query) = "resolving"
          /\ \E m \in {"with", "without", "error"} :
                Render(e, [page[e] EXCEPT !.media = m], query)
       \/ /\ RecoveryPhase(page[e], query) = "unreachable"
          /\ Render(e, [page[e] EXCEPT !.media = "pending"], query)
    /\ UNCHANGED <<server, words, query, record, save, taken, failed, held>>

Recover(e) ==
    /\ page[e].phase = "gate" /\ query # None
    /\ RecoveryPhase(page[e], query) = "offer"
    /\ Render(e, [page[e] EXCEPT !.choice = "draft"], query)
    /\ UNCHANGED <<server, words, query, record, save, taken, failed, held>>

DiscardDraft(e) ==
    /\ page[e].phase = "gate" /\ query # None
    /\ RecoveryPhase(page[e], query) \in {"offer", "unreachable"}
    /\ page' = [page EXCEPT ![e] =
                  Rendered([page[e] EXCEPT !.choice = "server", !.answer = None], query)]
    /\ ops' = Append(ops, Delete(e, page[e].answer.by))
    /\ UNCHANGED <<server, words, query, record, save, taken, failed, held>>

-----------------------------------------------------------------------------
(* Writing.                                                                 *)

\* Form e becomes p.  Every control that changes the form restarts the debounce.
Edited(e, p) ==
    /\ page[e].phase = "open" /\ save[e].stage = "none"
    /\ page' = [page EXCEPT ![e] =
                  [p EXCEPT !.typed = TRUE, !.retired = FALSE, !.timer = TRUE]]
    /\ UNCHANGED <<server, query, record, ops, save, taken, failed, held>>

\* Other words.  In the text (body) media comes and goes, and comes back with an undo
\* or a paste; title and journal are besides it.
Edit(e) ==
    /\ words < MaxWords /\ words' = words + 1
    /\ \/ \E embed \in Changes \union {page[e].doc.embed} :
             Edited(e, [page[e] EXCEPT !.doc = [words |-> words + 1, embed |-> embed],
                                       !.body = TRUE, !.first = 0, !.dirty = TRUE])
       \/ Edited(e, [page[e] EXCEPT !.doc.words = words + 1, !.dirty = TRUE])

\* Title and journal are put back to what they were at first: of a text nobody
\* touched, the form is not dirty any more.
EditUndone(e) ==
    /\ ~page[e].body /\ page[e].dirty
    /\ Edited(e, [page[e] EXCEPT !.doc.words = page[e].first, !.dirty = FALSE])
    /\ UNCHANGED words

\* Mutant: no write begins while another one is under way.
Flushed_OneAtATime(e) ==
    LET idle == page[e].status # "saving"
    IN  /\ page' = [page EXCEPT ![e] = IF idle THEN Written([@ EXCEPT !.timer = FALSE])
                                        ELSE [@ EXCEPT !.timer = FALSE]]
        /\ ops' = IF idle THEN ops \o PutOps(e, page[e], query) ELSE ops
        /\ UNCHANGED <<server, words, query, record, save, taken, failed, held>>

\* write(), with the timer stopped first.
Flushed(e) ==
    /\ page' = [page EXCEPT ![e] = Written([@ EXCEPT !.timer = FALSE])]
    /\ ops' = ops \o PutOps(e, page[e], query)
    /\ UNCHANGED <<server, words, query, record, save, taken, failed, held>>

TimerFires(e) == page[e].phase = "open" /\ page[e].timer /\ Flushed(e)

\* The page is hidden.
Hide(e) == page[e].phase = "open" /\ Len(ops) < MaxOps /\ Flushed(e)

\* Any way off the page, with a save perhaps unanswered: the write of the
\* teardown finds no document any more.
Leave(e) ==
    /\ page[e].phase \in {"gate", "open", "refused"}
    /\ page' = [page EXCEPT ![e] = Left(@)]
    /\ save' = [save EXCEPT ![e] = IF @.stage = "closing" THEN NoSave ELSE @]
    /\ UNCHANGED <<server, words, query, record, ops, taken, failed, held>>

\* Cancel: an explicit discard, and away.
Cancel(e) ==
    /\ page[e].phase = "open" /\ save[e].stage = "none"
    /\ page' = [page EXCEPT ![e] = Left(Removed(@))]
    /\ ops' = Append(ops, Delete(e, e))
    /\ UNCHANGED <<server, words, query, record, save, taken, failed, held>>

\* The browser kills the page: what the tab had not finished is gone with it.
Crash(e) ==
    /\ page[e].phase \in {"gate", "open", "refused"}
    /\ page' = [page EXCEPT ![e] = [Closed EXCEPT !.phase = "crashed"]]
    /\ query' = None /\ ops' = <<>>
    /\ save' = [f \in Editors |-> NoSave]
    /\ failed' = (failed \/ ops # <<>>)
    /\ UNCHANGED <<server, words, record, taken, held>>

-----------------------------------------------------------------------------
(* Saving.                                                                  *)

\* The version the editor opened on is the one the query holds now.
Save(e) ==
    /\ page[e].phase = "open" /\ save[e].stage = "none"
    /\ \E overwrite \in BOOLEAN :
        /\ overwrite => page[e].conflict
        /\ save' = [save EXCEPT ![e] = [stage |-> "sent", doc |-> page[e].doc,
                        expect |-> query.ver, on |-> page[e].on, overwrite |-> overwrite]]
    /\ UNCHANGED <<server, words, query, record, ops, page, taken, failed, held>>

Accepts(s) == s.overwrite \/ s.expect = server.ver

\* The server decides, or the request never reaches it.
ServerDecides(e) ==
    /\ save[e].stage = "sent"
    /\ \/ /\ Accepts(save[e]) /\ server.ver < MaxWords
          /\ server' = [ver |-> server.ver + 1, doc |-> save[e].doc]
          /\ held' = held \union {save[e].doc.words}
          /\ save' = [save EXCEPT ![e] = [NoSave EXCEPT !.stage = "applied"]]
       \/ /\ ~Accepts(save[e])
          /\ save' = [save EXCEPT ![e] = [NoSave EXCEPT !.stage = "refused"]]
          /\ UNCHANGED <<server, held>>
    /\ UNCHANGED <<words, query, record, ops, page, taken, failed>>

\* onSuccess removes the local copy, also of a page that was left meanwhile.  An
\* open form stays until the queries are refetched and the reader is shown.
SaveSucceeds(e) ==
    /\ save[e].stage = "applied"
    /\ IF page[e].phase = "open"
       THEN /\ save' = [save EXCEPT ![e] = [NoSave EXCEPT !.stage = "closing"]]
            /\ page' = [page EXCEPT ![e] = Removed(@)]
       ELSE /\ save' = [save EXCEPT ![e] = NoSave]
            /\ page' = [page EXCEPT ![e] = Left(Removed(@))]
    /\ ops' = Append(ops, Delete(e, e))
    /\ UNCHANGED <<server, words, query, record, taken, failed, held>>

\* 409, or no answer whatever the server did: everything local is kept.
SaveFails(e) ==
    /\ save[e].stage \in {"sent", "applied", "refused"}
    /\ page' = [page EXCEPT ![e].conflict = page[e].phase = "open" /\ save[e].stage = "refused"]
    /\ save' = [save EXCEPT ![e] = NoSave]
    /\ UNCHANGED <<server, words, query, record, ops, taken, failed, held>>

\* Another device saves the entry, perhaps with content this editor lacks.
SavedElsewhere ==
    /\ words < MaxWords /\ server.ver < MaxWords
    /\ words' = words + 1
    /\ \E embed \in {server.doc.embed, "none", "foreign"} :
          server' = [ver |-> server.ver + 1, doc |-> [words |-> words + 1, embed |-> embed]]
    /\ held' = held \union {words + 1}
    /\ UNCHANGED <<query, record, ops, page, save, taken, failed>>

-----------------------------------------------------------------------------
(* draftRepository.ts over IndexedDB, which keeps the order of operations.  *)

\* The answer to the read of the recovery; a page that went does not take it.
Answered(e, found) ==
    IF page[e].phase = "gate" /\ Enabled(query)
    THEN page' = [page EXCEPT ![e] = Rendered([@ EXCEPT !.answer = found], query)]
         /\ ops' = Tail(ops) \o RenderOps(e, [page[e] EXCEPT !.answer = found], query)
    ELSE ops' = Tail(ops) /\ UNCHANGED page

\* Mutants: a failed write is shown as saved; a failed write is not shown.
Shown_Saved(e, status) ==
    page' = [page EXCEPT ![e].status = IF page[e].phase = "open" THEN "saved" ELSE @]
Shown_Silent(e, status) ==
    page' = [page EXCEPT ![e].status =
               IF page[e].phase = "open" /\ status # "failed" THEN status ELSE @]

\* The outcome of an operation reaches the screen of a form that is there.
Shown(e, status) ==
    page' = [page EXCEPT ![e].status = IF page[e].phase = "open" THEN status ELSE @]

StorageRuns ==
    /\ ops # <<>>
    /\ LET o == Head(ops)
       IN  \/ /\ o.op = "read"
              /\ Answered(o.by, record)
              /\ UNCHANGED <<record, taken, failed>>
           \/ /\ o.op = "put"
              /\ record' = o.record /\ taken' = FALSE /\ failed' = FALSE
              /\ Shown(o.by, "saved") /\ ops' = Tail(ops)
           \/ /\ o.op = "delete"
              /\ record' = None /\ UNCHANGED failed
              /\ taken' = (taken \/ (record # None /\ record.by > o.upto))
              /\ ops' = Tail(ops)
              /\ IF o.upto = o.by THEN Shown(o.by, "idle") ELSE UNCHANGED page
    /\ UNCHANGED <<server, words, query, save, held>>

StorageFails ==
    /\ ops # <<>>
    /\ LET o == Head(ops)
       IN  \/ /\ o.op = "read"
              /\ Answered(o.by, None)
           \/ /\ o.op = "put"
              /\ Shown(o.by, "failed") /\ ops' = Tail(ops)
           \/ /\ o.op = "delete"
              /\ ops' = Tail(ops) /\ UNCHANGED page
    /\ failed' = TRUE
    /\ UNCHANGED <<server, words, query, record, save, taken, held>>

-----------------------------------------------------------------------------
Next ==
    \/ \E e \in Editors :
        \/ Open(e) \/ Refetch(e) \/ Reopen(e) \/ MediaAnswers(e) \/ Recover(e) \/ DiscardDraft(e)
        \/ Edit(e) \/ EditUndone(e) \/ TimerFires(e) \/ Hide(e) \/ Leave(e) \/ Cancel(e) \/ Crash(e)
        \/ Save(e) \/ ServerDecides(e) \/ SaveSucceeds(e) \/ SaveFails(e)
    \/ SavedElsewhere \/ StorageRuns \/ StorageFails

Spec == Init /\ [][Next]_vars

-----------------------------------------------------------------------------
(* Properties.                                                              *)

Queued(e) == \E i \in DOMAIN ops : ops[i].by = e

\* Under "saved on this device" -- the form is dirty, the last write landed -- the
\* record is the document on screen, until it is saved on the server.  It is not if a
\* deletion nobody decided took it, that of a save an earlier page left unanswered or
\* of the recovery effect, which acts on the record it read at the start.  Of a
\* document that cannot be stored nothing is claimed: the outcome of a write that
\* began before it may still put "saved" over it (useLocalDraft.ts:233-242).
SavedIsStored ==
    \A e \in Editors :
        /\ page[e].phase = "open" /\ page[e].dirty /\ page[e].status = "saved"
        /\ Storable(page[e].doc)
        /\ ~page[e].timer /\ ~page[e].retired /\ ~Queued(e) /\ ~taken
        => record # None /\ record.doc = page[e].doc

\* A draft that was saved or cancelled does not come back: once its deletion
\* has run nothing its page still does writes it again (the latch retired).
RemovedStaysGone ==
    \A e \in Editors :
        page[e].retired /\ ~Queued(e) /\ ~failed => record = None \/ record.by # e

\* The last words typed in a form that is gone, and that no later one has decided about.
LastWords(e) ==
    /\ page[e].phase = "left" /\ page[e].typed /\ ~page[e].retired
    /\ Storable(page[e].doc) /\ ~Queued(e) /\ ~failed /\ ~taken
    /\ \A f \in e + 1..MaxEditors : page[f].phase = "away"

AreStored(e) ==
    \/ record # None /\ record.doc.words = page[e].doc.words
    \/ page[e].doc.words \in held

\* Words the debounce or a flush has taken are on the device after the form is
\* gone, or were saved: also when their write was still queued, another form read
\* the record before, and the entry has moved on meanwhile.
LeftIsStored == \A e \in Editors : LastWords(e) /\ ~page[e].timer => AreStored(e)

\* What useLocalDraft.ts:321-323 promises of the teardown: leaving the editor by
\* any route keeps also the words the debounce still held.
TeardownIsAFlush == \A e \in Editors : LastWords(e) => AreStored(e)

\* The form never opens on the server's copy over a draft that says something
\* else: it was offered and refused first, if it could be read -- unless the form
\* was put up again after a failed refetch, which skips the question.
OffersWhatIsStored ==
    \A e \in Editors :
        /\ page[e].phase = "open" /\ ~page[e].dirty /\ ~page[e].typed /\ ~page[e].again
        /\ ops = <<>> /\ ~failed
        => record = None

\* The page never goes on saying that it saves: behind that status there is a
\* write on its way, whose outcome replaces it.
SavingIsUnderWay ==
    \A e \in Editors : page[e].phase = "open" /\ page[e].status = "saving"
        => \E i \in DOMAIN ops : ops[i].op = "put" /\ ops[i].by = e

\* What EntryEditorPage.tsx:838-841 promises of expected_updated_at: a save
\* replaces the version its editor opened on, or one the writer was asked about.
NoSilentOverwrite ==
    [][\A e \in Editors :
          save[e].stage = "sent" /\ save'[e].stage = "applied" /\ ~save[e].overwrite
          => server.ver = save[e].on]_vars
=============================================================================
